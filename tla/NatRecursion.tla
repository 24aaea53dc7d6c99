----------------------------- MODULE NatRecursion -----------------------------
(***************************************************************************)
(* Functions defined by recursion over the natural numbers: a definition   *)
(* f[n \in Nat] == F(f, n) stands for a CHOOSE, and that there is such a   *)
(* function to choose has to be proved.  F is a constant of this module,   *)
(* to be replaced when it is instantiated.                                 *)
(***************************************************************************)
EXTENDS Integers, WellFoundedInduction, TLAPS

CONSTANT F(_, _)

\* Induction over the natural numbers, about a set: a set that holds zero and
\* the successor of each number it holds has all of them.
LEMMA NatSet ==
  ASSUME NEW S, 0 \in S, \A n \in Nat : n \in S => n + 1 \in S
  PROVE  Nat \subseteq S
<1> DEFINE R == OpToRel(<, Nat)
           T == Nat \ S
<1>0. R = {ss \in Nat \X Nat : ss[1] < ss[2]}
  BY DEF OpToRel
<1> HIDE DEF R
<1>w. IsWellFoundedOn(R, Nat)
  BY NatLessThanWellFounded DEF R
<1>1. SUFFICES ASSUME T # {} PROVE FALSE
  OBVIOUS
<1> HIDE DEF T
<1>2. PICK n \in T : \A m \in T : ~(<<m, n>> \in R)
  <2>1. T \subseteq Nat
    BY DEF T
  <2> QED BY <1>w, <1>1, <2>1, WFMin
<1>3. n \in Nat /\ n # 0
  BY DEF T
<1>4. n - 1 \in Nat /\ <<n-1, n>> \in R
  BY <1>3, <1>0
<1>5. n - 1 \in S
  BY <1>2, <1>4 DEF T
<1>6. n \in S
  BY <1>3, <1>4, <1>5
<1> QED BY <1>6 DEF T

\* The value at n depends on the values at smaller numbers only.
Local ==
  \A n \in Nat : \A g, h :
    (\A i \in 0 .. n-1 : g[i] = h[i]) => F(g, n) = F(h, n)

\* A function defined by recursion, f[n \in Nat] == F(f, n), is the one its
\* definition describes: it satisfies its own equation at every number, which
\* is what the proofs about values of any depth (TPEvent.m:121) start from.
THEOREM Recursion ==
  ASSUME Local, NEW f, f = CHOOSE g : g = [n \in Nat |-> F(g, n)]
  PROVE  f = [n \in Nat |-> F(f, n)]
<1> DEFINE P(k, h) == \A n \in 0 .. k : h[n] = F(h, n)
<1>1. \A k \in Nat : \A g, h : P(k, g) /\ P(k, h) => \A n \in 0 .. k : g[n] = h[n]
  <2> DEFINE S == {k \in Nat : \A g, h : P(k, g) /\ P(k, h) => \A n \in 0 .. k : g[n] = h[n]}
  <2>1. 0 \in S
    <3> SUFFICES ASSUME NEW g, NEW h, P(0, g), P(0, h) PROVE g[0] = h[0]
      OBVIOUS
    <3>1. F(g, 0) = F(h, 0)
      BY DEF Local
    <3> QED BY <3>1
  <2>2. ASSUME NEW k \in Nat, k \in S PROVE k + 1 \in S
    <3> SUFFICES ASSUME NEW g, NEW h, P(k+1, g), P(k+1, h), NEW n \in 0 .. k+1 PROVE g[n] = h[n]
      OBVIOUS
    <3>1. P(k, g) /\ P(k, h)
      OBVIOUS
    <3>2. \A i \in 0 .. k : g[i] = h[i]
      BY <2>2, <3>1
    <3>3. F(g, n) = F(h, n)
      <4>1. \A i \in 0 .. n-1 : g[i] = h[i]
        BY <3>2
      <4> QED BY <4>1 DEF Local
    <3> QED BY <3>3
  <2> HIDE DEF S
  <2>3. Nat \subseteq S
    BY <2>1, <2>2, NatSet
  <2> QED BY <2>3 DEF S
<1>2. \A k \in Nat : \E h : P(k, h)
  <2> DEFINE S == {k \in Nat : \E h : P(k, h)}
  <2>1. 0 \in S
    <3> DEFINE h == [n \in {0} |-> F(<<>>, 0)]
    <3>1. h[0] = F(<<>>, 0)
      OBVIOUS
    <3>2. F(<<>>, 0) = F(h, 0)
      BY DEF Local
    <3>3. P(0, h)
      BY <3>1, <3>2
    <3> QED BY <3>3
  <2>2. ASSUME NEW k \in Nat, k \in S PROVE k + 1 \in S
    <3>1. PICK g : P(k, g)
      BY <2>2
    <3> DEFINE h == [n \in 0 .. k+1 |-> IF n = k+1 THEN F(g, k+1) ELSE g[n]]
    <3>2. \A n \in 0 .. k : h[n] = g[n]
      OBVIOUS
    <3>3. h[k+1] = F(g, k+1)
      OBVIOUS
    <3> HIDE DEF h
    <3>4. \A n \in 0 .. k+1 : F(h, n) = F(g, n)
      <4> SUFFICES ASSUME NEW n \in 0 .. k+1 PROVE F(h, n) = F(g, n)
        OBVIOUS
      <4>1. \A i \in 0 .. n-1 : h[i] = g[i]
        BY <3>2
      <4> QED BY <4>1 DEF Local
    <3>5. P(k+1, h)
      BY <3>1, <3>2, <3>3, <3>4
    <3> QED BY <3>5
  <2> HIDE DEF S
  <2>3. Nat \subseteq S
    BY <2>1, <2>2, NatSet
  <2> QED BY <2>3 DEF S
<1> DEFINE G(k) == CHOOSE h : P(k, h)
           g == [n \in Nat |-> G(n)[n]]
<1>3. \A k \in Nat : P(k, G(k))
  BY <1>2
<1> HIDE DEF G
<1>4. \A n \in Nat : g[n] = F(g, n)
  <2> SUFFICES ASSUME NEW n \in Nat PROVE G(n)[n] = F(g, n)
    OBVIOUS
  <2>1. G(n)[n] = F(G(n), n)
    BY <1>3
  <2>2. \A i \in 0 .. n-1 : g[i] = G(n)[i]
    <3> SUFFICES ASSUME NEW i \in 0 .. n-1 PROVE G(i)[i] = G(n)[i]
      OBVIOUS
    <3>1. P(i, G(i)) /\ P(i, G(n))
      BY <1>3
    <3> HIDE DEF P
    <3> QED BY <1>1, <3>1
  <2>3. F(G(n), n) = F(g, n)
    <3> HIDE DEF g
    <3> QED BY <2>2 DEF Local
  <2> QED BY <2>1, <2>3
<1>5. g = [n \in Nat |-> F(g, n)]
  BY <1>4
<1> HIDE DEF g
<1> QED BY <1>5
===============================================================================
