----------------------------- MODULE TPEventProofs -----------------------------
(***************************************************************************)
(* What process: does to an event, for trees of values of every depth.     *)
(* TPEvent's recursive functions get their equations from NatRecursion;    *)
(* what they compute is proved by induction on the depth.                  *)
(***************************************************************************)
EXTENDS TPEvent, Integers, FiniteSetTheorems, TLAPS

-----------------------------------------------------------------------------
(* The equations of the recursive functions.                               *)

ValuesStep(f, n) ==
  LET below == f[n-1]
  IN  [class : {"scalar"}, value : Scalars] \cup
        IF n = 0 THEN {}
        ELSE [class : {"array"}, value : Seq(below)]
               \cup [class : {"dictionary"}, value : [Names -> below \cup {NoValue}]]

transformedStep(f, n) == [value \in Values[n] |-> transformValue(value, f[n-1])]

raisesStep(f, n) ==
  [value \in Values[n] |->
     \/ value.class = "dictionary" /\ Present(value) \cap OperatorNames # {}
     \/ \E part \in Parts(value) : f[n-1][part]]

leavesStep(f, n) ==
  [value \in Values[n] |->
     IF value.class = "scalar"
       THEN {<<<<>>, value.value>>}
       ELSE UNION {Under(step, f[n-1][value.value[step]]) : step \in Steps(value)}]

OnValues      == INSTANCE NatRecursion WITH F <- ValuesStep
OnTransformed == INSTANCE NatRecursion WITH F <- transformedStep
OnRaises      == INSTANCE NatRecursion WITH F <- raisesStep
OnLeaves      == INSTANCE NatRecursion WITH F <- leavesStep

\* The definition of Values is its equation.
LEMMA ValuesEquation == Values = [n \in Nat |-> ValuesStep(Values, n)]
<1>1. OnValues!Local
  BY DEF OnValues!Local, ValuesStep
<1>2. Values = CHOOSE g : g = [n \in Nat |-> ValuesStep(g, n)]
  BY DEF Values, ValuesStep
<1> QED
  BY <1>1, <1>2, OnValues!Recursion

\* The values of the first level, and of the next from those below.
LEMMA ValuesAt ==
  /\ Values[0] = [class : {"scalar"}, value : Scalars]
  /\ \A n \in Nat :
       Values[n+1] = [class : {"scalar"}, value : Scalars]
                       \cup [class : {"array"}, value : Seq(Values[n])]
                       \cup [class : {"dictionary"}, value : [Names -> Values[n] \cup {NoValue}]]
<1>1. Values[0] = ValuesStep(Values, 0)
  BY ValuesEquation
<1>2. ASSUME NEW n \in Nat PROVE Values[n+1] = ValuesStep(Values, n+1)
  BY ValuesEquation
<1>3. \A n \in Nat : n + 1 # 0 /\ (n + 1) - 1 = n
  OBVIOUS
<1> QED
  BY <1>1, <1>2, <1>3 DEF ValuesStep

\* What a value of some depth looks like.
LEMMA ValueCases ==
  ASSUME NEW n \in Nat, NEW v \in Values[n]
  PROVE  \/ v.class = "scalar" /\ v = Scalar(v.value) /\ v.value \in Scalars
         \/ /\ v.class = "array" /\ v = Array(v.value)
            /\ n > 0 /\ v.value \in Seq(Values[n-1])
         \/ /\ v.class = "dictionary" /\ v = Dictionary(v.value)
            /\ n > 0 /\ v.value \in [Names -> Values[n-1] \cup {NoValue}]
<1>1. CASE n = 0
  BY <1>1, ValuesAt DEF Scalar
<1>2. CASE n # 0
  <2>1. n - 1 \in Nat /\ (n - 1) + 1 = n
    BY <1>2
  <2> QED
    BY <1>2, <2>1, ValuesAt DEF Scalar, Array, Dictionary
<1> QED
  BY <1>1, <1>2

\* How a value of some depth is made.
LEMMA ValueMade ==
  ASSUME NEW n \in Nat
  PROVE  /\ \A s \in Scalars : Scalar(s) \in Values[n]
         /\ \A seq \in Seq(Values[n]) : Array(seq) \in Values[n+1]
         /\ \A f \in [Names -> Values[n] \cup {NoValue}] : Dictionary(f) \in Values[n+1]
<1>1. \A s \in Scalars : Scalar(s) \in Values[n]
  <2>1. CASE n = 0
    BY <2>1, ValuesAt DEF Scalar
  <2>2. CASE n # 0
    <3>1. n - 1 \in Nat /\ (n - 1) + 1 = n
      BY <2>2
    <3> QED
      BY <3>1, ValuesAt DEF Scalar
  <2> QED
    BY <2>1, <2>2
<1>2. \A seq \in Seq(Values[n]) : Array(seq) \in Values[n+1]
  BY ValuesAt DEF Array
<1>3. \A f \in [Names -> Values[n] \cup {NoValue}] : Dictionary(f) \in Values[n+1]
  BY ValuesAt DEF Dictionary
<1> QED
  BY <1>1, <1>2, <1>3

\* A value of some depth is one of every greater depth.
LEMMA ValuesGrow ==
  ASSUME NEW m \in Nat, NEW n \in Nat, m <= n
  PROVE  Values[m] \subseteq Values[n]
<1>1. \A k \in Nat : Values[k] \subseteq Values[k+1]
  <2> DEFINE S == {k \in Nat : Values[k] \subseteq Values[k+1]}
  <2>1. 0 \in S
    BY ValuesAt
  <2>2. ASSUME NEW k \in Nat, k \in S PROVE k + 1 \in S
    <3>1. Values[k] \subseteq Values[k+1]
      BY <2>2
    <3>2. Seq(Values[k]) \subseteq Seq(Values[k+1])
      BY <3>1
    <3>3. [Names -> Values[k] \cup {NoValue}] \subseteq [Names -> Values[k+1] \cup {NoValue}]
      BY <3>1
    <3>4. Values[k+1] \subseteq Values[(k+1)+1]
      <4>1. ASSUME NEW v \in Values[k+1] PROVE v \in Values[(k+1)+1]
        <5>1. k + 1 \in Nat /\ (k + 1) - 1 = k
          OBVIOUS
        <5>2. \/ v = Scalar(v.value) /\ v.value \in Scalars
              \/ v = Array(v.value) /\ v.value \in Seq(Values[k])
              \/ v = Dictionary(v.value) /\ v.value \in [Names -> Values[k] \cup {NoValue}]
          BY <5>1, ValueCases
        <5>3. (k + 1) + 1 \in Nat
          OBVIOUS
        <5> QED
          BY <5>1, <5>2, <5>3, <3>2, <3>3, ValueMade
      <4> QED
        BY <4>1
    <3> QED
      BY <3>4
  <2> HIDE DEF S
  <2>3. Nat \subseteq S
    BY <2>1, <2>2, OnValues!NatSet
  <2> QED
    BY <2>3 DEF S
<1> DEFINE T == {k \in Nat : Values[m] \subseteq Values[m + k]}
<1>2. 0 \in T
  BY m + 0 = m
<1>3. ASSUME NEW k \in Nat, k \in T PROVE k + 1 \in T
  <2>1. m + k \in Nat /\ m + (k + 1) = (m + k) + 1
    OBVIOUS
  <2> QED
    BY <1>1, <1>3, <2>1
<1> HIDE DEF T
<1>4. Nat \subseteq T
  BY <1>2, <1>3, OnValues!NatSet
<1>5. n - m \in Nat /\ m + (n - m) = n
  OBVIOUS
<1> QED
  BY <1>4, <1>5 DEF T

\* nil is not a value.
LEMMA NilIsNoValue ==
  ASSUME NEW n \in Nat
  PROVE  NoValue \notin Values[n]
<1> SUFFICES ASSUME NoValue \in Values[n] PROVE FALSE
  OBVIOUS
<1>1. NoValue.class \in {"scalar", "array", "dictionary"}
  BY ValueCases
<1> QED
  BY <1>1 DEF NoValue

-----------------------------------------------------------------------------
(* What valueForKey: returns, and the values transformValue: goes on with. *)

\* Each value of a dictionary is in the answer to "@allValues", and nothing else.
LEMMA AllValuesElements ==
  ASSUME NEW n \in Nat, NEW d \in Values[n], d.class = "dictionary"
  PROVE  /\ allValues(d) \in Values[n]
         /\ allValues(d).class = "array"
         /\ Elements(allValues(d)) = {d.value[name] : name \in Present(d)}
<1> DEFINE S == Present(d)
           names == SetToSeq(S)
           size == Cardinality(S)
           seq == [i \in DOMAIN names |-> d.value[names[i]]]
<1>1. n > 0 /\ n - 1 \in Nat /\ d.value \in [Names -> Values[n-1] \cup {NoValue}]
  BY ValueCases
<1>2. S \subseteq Names /\ \A name \in S : d.value[name] \in Values[n-1]
  BY <1>1 DEF Present
<1>3. IsFiniteSet(S) /\ size \in Nat /\ ExistsBijection(1 .. size, S)
  BY <1>2, FS_Subset, FS_CardinalityType, EventAssumption
<1>4. names \in [1 .. size -> S] /\ IsInjective(names)
  <2>1. PICK f : f \in Bijection(1 .. size, S)
    BY <1>3 DEF ExistsBijection
  <2>2. f \in [1 .. size -> S] /\ IsInjective(f)
    BY <2>1 DEF Bijection, Injection, IsInjective
  <2> QED
    BY <2>2 DEF SetToSeq
<1> HIDE DEF names
<1>5. \A name \in S : \E i \in 1 .. size : names[i] = name
  <2>1. names \in Injection(1 .. size, S)
    BY <1>4 DEF Injection, IsInjective
  <2>2. IsFiniteSet(1 .. size) /\ Cardinality(1 .. size) = size
    BY <1>3, FS_Interval
  <2>3. names \in Surjection(1 .. size, S)
    BY <1>3, <2>1, <2>2, FS_Injection
  <2> QED
    BY <2>3 DEF Surjection
<1>6. seq \in Seq(Values[n-1])
  <2>1. DOMAIN names = 1 .. size
    BY <1>4
  <2>2. \A i \in 1 .. size : d.value[names[i]] \in Values[n-1]
    BY <1>2, <1>4
  <2>3. seq \in [1 .. size -> Values[n-1]]
    BY <2>1, <2>2
  <2> QED
    BY <1>3, <2>3
<1>7. allValues(d) = Array(seq)
  BY DEF allValues, names
<1>8. Array(seq) \in Values[n]
  BY <1>1, <1>6, ValueMade, (n - 1) + 1 = n
<1>9. Range(seq) = {d.value[name] : name \in S}
  BY <1>4, <1>5 DEF Range
<1> QED
  BY <1>7, <1>8, <1>9 DEF Elements, Array

\* What a name is answered with is at most as deep as the dictionary, and no
\* dictionary itself.
Answers(n) == {NoValue} \cup {v \in Values[n] : v.class # "dictionary"}

\* What valueForKey: (TPEvent.m:142) returns for a name that is there.
LEMMA valueForKeyType ==
  ASSUME NEW n \in Nat, NEW d \in Values[n], d.class = "dictionary",
         NEW name \in Present(d)
  PROVE  /\ n > 0
         /\ d.value[name] \in Values[n-1]
         /\ name \notin AnsweredNames => valueForKey(d, name) = d.value[name]
         /\ name \in AnsweredNames => valueForKey(d, name) \in Answers(n)
<1>1. n > 0 /\ n - 1 \in Nat /\ d.value \in [Names -> Values[n-1] \cup {NoValue}]
  BY ValueCases
<1>2. d.value[name] \in Values[n-1]
  BY <1>1 DEF Present
<1>3. ListingNames \subseteq AnsweredNames
  BY EventAssumption
<1>4. CASE name \in ListingNames
  BY <1>1, <1>2, <1>3, <1>4, AllValuesElements DEF valueForKey, Answers
<1>5. CASE name \in AnsweredNames \ ListingNames
  <2>1. Present(d) \in SUBSET Names
    BY DEF Present
  <2>2. Answer[name][Present(d)] \in Flat \cup {NoValue}
    BY <1>5, <2>1, EventAssumption
  <2>3. Values[1] \subseteq Values[n]
    BY <1>1, ValuesGrow
  <2> QED
    BY <1>1, <1>2, <1>5, <2>2, <2>3 DEF valueForKey, Answers, Flat
<1>6. CASE name \notin AnsweredNames
  BY <1>1, <1>2, <1>3, <1>6 DEF valueForKey
<1> QED
  BY <1>4, <1>5, <1>6

\* The elements of an answer are one level down.
LEMMA ElementsType ==
  ASSUME NEW n \in Nat, NEW v \in Answers(n)
  PROVE  /\ n = 0 => Elements(v) = {}
         /\ n > 0 => Elements(v) \subseteq Values[n-1]
<1>1. CASE v = NoValue
  BY <1>1 DEF NoValue, Elements
<1>2. CASE v \in Values[n] /\ v.class = "array"
  BY <1>2, ValueCases DEF Elements, Range
<1>3. CASE v \in Values[n] /\ v.class = "scalar"
  BY <1>3 DEF Elements
<1> QED
  BY <1>1, <1>2, <1>3, ValueCases DEF Answers

\* What transformValue: goes on with is one level down.
LEMMA PartsType ==
  ASSUME NEW n \in Nat, NEW v \in Values[n]
  PROVE  /\ n = 0 => Parts(v) = {}
         /\ n > 0 => Parts(v) \subseteq Values[n-1]
<1>1. CASE v.class = "dictionary"
  <2>1. n > 0
    BY <1>1, ValueCases
  <2>2. ASSUME NEW name \in Present(v), name \in AnsweredNames
        PROVE  Elements(valueForKey(v, name)) \subseteq Values[n-1]
    BY <1>1, <2>1, <2>2, valueForKeyType, ElementsType
  <2>3. ASSUME NEW name \in Present(v), name \notin AnsweredNames
        PROVE  valueForKey(v, name) \in Values[n-1]
    BY <1>1, <2>3, valueForKeyType
  <2> QED
    BY <1>1, <2>1, <2>2, <2>3 DEF Parts
<1>2. CASE v.class # "dictionary"
  BY <1>2, ElementsType DEF Parts, Answers
<1> QED
  BY <1>1, <1>2

-----------------------------------------------------------------------------
(* The equations of the functions on values.                               *)

\* One call of transformValue: with what it returns one level down.
LEMMA transformedAt ==
  ASSUME NEW n \in Nat, NEW v \in Values[n]
  PROVE  transformed[n][v] = transformValue(v, transformed[n-1])
<1>1. OnTransformed!Local
  <2> SUFFICES ASSUME NEW m \in Nat, NEW g, NEW h, \A i \in 0 .. m-1 : g[i] = h[i],
                      NEW w \in Values[m]
               PROVE  transformValue(w, g[m-1]) = transformValue(w, h[m-1])
    BY DEF OnTransformed!Local, transformedStep
  <2>1. CASE m = 0
    <3>1. w.class = "scalar"
      BY <2>1, ValueCases
    <3> QED
      BY <3>1 DEF transformValue, transformFlat
  <2>2. CASE m # 0
    <3>1. g[m-1] = h[m-1]
      BY <2>2
    <3> QED
      BY <3>1
  <2> QED
    BY <2>1, <2>2
<1> HIDE DEF transformedStep
<1>2. transformed = CHOOSE g : g = [k \in Nat |-> transformedStep(g, k)]
  BY DEF transformed, transformedStep
<1>3. transformed = [k \in Nat |-> transformedStep(transformed, k)]
  BY <1>1, <1>2, OnTransformed!Recursion
<1>4. transformed[n] = transformedStep(transformed, n)
  BY <1>3
<1> QED
  BY <1>4 DEF transformedStep

\* One call of transformValue: raises if a name or a part of the value does.
LEMMA raisesAt ==
  ASSUME NEW n \in Nat, NEW v \in Values[n]
  PROVE  raises[n][v] <=> \/ v.class = "dictionary" /\ Present(v) \cap OperatorNames # {}
                          \/ \E part \in Parts(v) : raises[n-1][part]
<1>1. OnRaises!Local
  <2> SUFFICES ASSUME NEW m \in Nat, NEW g, NEW h, \A i \in 0 .. m-1 : g[i] = h[i],
                      NEW w \in Values[m]
               PROVE  (\E part \in Parts(w) : g[m-1][part]) = (\E part \in Parts(w) : h[m-1][part])
    BY Zenon DEF OnRaises!Local, raisesStep
  <2>1. CASE m = 0
    <3>1. Parts(w) = {}
      BY <2>1, PartsType
    <3> QED
      BY <3>1
  <2>2. CASE m # 0
    <3>1. g[m-1] = h[m-1]
      BY <2>2
    <3> QED
      BY <3>1
  <2> QED
    BY <2>1, <2>2
<1>2. raises = CHOOSE g : g = [k \in Nat |-> raisesStep(g, k)]
  BY DEF raises, raisesStep
<1>3. raises = [k \in Nat |-> raisesStep(raises, k)]
  BY <1>1, <1>2, OnRaises!Recursion
<1>4. raises[n] = raisesStep(raises, n)
  BY <1>3
<1> QED
  BY <1>4 DEF raisesStep

\* The same, from the level below.
LEMMA raisesNext ==
  ASSUME NEW n \in Nat, NEW v \in Values[n+1]
  PROVE  raises[n+1][v] <=> \/ v.class = "dictionary" /\ Present(v) \cap OperatorNames # {}
                            \/ \E part \in Parts(v) : raises[n][part]
<1>1. n + 1 \in Nat /\ (n + 1) - 1 = n
  OBVIOUS
<1> QED
  BY <1>1, raisesAt

\* A scalar does not raise.
LEMMA raisesScalar ==
  ASSUME NEW n \in Nat, NEW v \in Values[n], v.class = "scalar"
  PROVE  ~raises[n][v]
<1>1. Parts(v) = {}
  BY DEF Parts, Elements
<1> QED
  BY <1>1, raisesAt

\* The leaves of a value from those of the values in it.
LEMMA leavesAt ==
  ASSUME NEW n \in Nat, NEW v \in Values[n]
  PROVE  leaves[n][v] =
           IF v.class = "scalar"
             THEN {<<<<>>, v.value>>}
             ELSE UNION {Under(step, leaves[n-1][v.value[step]]) : step \in Steps(v)}
<1>1. OnLeaves!Local
  <2> SUFFICES ASSUME NEW m \in Nat, NEW g, NEW h, \A i \in 0 .. m-1 : g[i] = h[i]
               PROVE  leavesStep(g, m) = leavesStep(h, m)
    BY DEF OnLeaves!Local
  <2>1. CASE m = 0
    <3>1. \A w \in Values[m] : w.class = "scalar"
      BY <2>1, ValueCases
    <3> QED
      BY <3>1 DEF leavesStep
  <2>2. CASE m # 0
    <3>1. g[m-1] = h[m-1]
      BY <2>2
    <3> QED
      BY <3>1 DEF leavesStep
  <2> QED
    BY <2>1, <2>2
<1>2. leaves = CHOOSE g : g = [k \in Nat |-> leavesStep(g, k)]
  BY DEF leaves, leavesStep
<1>3. leaves = [k \in Nat |-> leavesStep(leaves, k)]
  BY <1>1, <1>2, OnLeaves!Recursion
<1>4. leaves[n] = leavesStep(leaves, n)
  BY <1>3
<1> QED
  BY <1>4 DEF leavesStep

\* A scalar is its own leaf.
LEMMA leavesScalar ==
  ASSUME NEW n \in Nat, NEW v \in Values[n], v.class = "scalar"
  PROVE  leaves[n][v] = {<<<<>>, v.value>>}
BY leavesAt

\* The same, from the level below.
LEMMA leavesNext ==
  ASSUME NEW n \in Nat, NEW v \in Values[n+1], v.class # "scalar"
  PROVE  leaves[n+1][v] = UNION {Under(step, leaves[n][v.value[step]]) : step \in Steps(v)}
<1>1. PICK m \in Nat : m = n + 1
  OBVIOUS
<1>2. leaves[m][v] = UNION {Under(step, leaves[m-1][v.value[step]]) : step \in Steps(v)}
  BY <1>1, leavesAt
<1>3. m - 1 = n
  BY <1>1
<1>4. leaves[m-1] = leaves[n]
  BY <1>3
<1> HIDE <1>3
<1> QED
  BY <1>1, <1>2, <1>4

\* A value raises or not whatever depth it is taken to have.
LEMMA raisesAnyDepth ==
  ASSUME NEW m \in Nat, NEW n \in Nat, m <= n, NEW v \in Values[m]
  PROVE  raises[n][v] <=> raises[m][v]
<1> DEFINE S == {k \in Nat : \A w \in Values[k] : raises[k+1][w] <=> raises[k][w]}
<1>1. 0 \in S
  <2> SUFFICES ASSUME NEW w \in Values[0] PROVE raises[1][w] <=> raises[0][w]
    OBVIOUS
  <2>1. w.class = "scalar"
    BY ValueCases
  <2>2. w \in Values[1]
    BY ValuesGrow
  <2> QED
    BY <2>1, <2>2, raisesScalar
<1>2. ASSUME NEW k \in Nat, k \in S PROVE k + 1 \in S
  <2> SUFFICES ASSUME NEW w \in Values[k+1] PROVE raises[(k+1)+1][w] <=> raises[k+1][w]
    OBVIOUS
  <2>1. w \in Values[(k+1)+1]
    BY ValuesGrow
  <2>2. Parts(w) \subseteq Values[k]
    BY PartsType
  <2>3. (\E part \in Parts(w) : raises[k+1][part]) <=> (\E part \in Parts(w) : raises[k][part])
    BY <1>2, <2>2
  <2>4. k + 1 \in Nat
    OBVIOUS
  <2> QED
    BY <2>1, <2>3, <2>4, raisesNext
<1> HIDE DEF S
<1>3. Nat \subseteq S
  BY <1>1, <1>2, OnValues!NatSet
<1> DEFINE T == {k \in Nat : raises[m + k][v] <=> raises[m][v]}
<1>4. 0 \in T
  BY m + 0 = m
<1>5. ASSUME NEW k \in Nat, k \in T PROVE k + 1 \in T
  <2>1. m + k \in Nat /\ m + (k + 1) = (m + k) + 1
    OBVIOUS
  <2>2. v \in Values[m + k]
    BY <2>1, ValuesGrow
  <2>3. raises[(m + k) + 1][v] <=> raises[m + k][v]
    BY <1>3, <2>1, <2>2 DEF S
  <2> QED
    BY <1>5, <2>1, <2>3
<1> HIDE DEF T
<1>6. Nat \subseteq T
  BY <1>4, <1>5, OnValues!NatSet
<1>7. n - m \in Nat /\ m + (n - m) = n
  OBVIOUS
<1> QED
  BY <1>6, <1>7 DEF T

\* What a step leads to is one level down.
LEMMA StepsType ==
  ASSUME NEW n \in Nat, NEW v \in Values[n], v.class # "scalar"
  PROVE  n > 0 /\ \A step \in Steps(v) : v.value[step] \in Values[n-1]
<1>1. CASE v.class = "array"
  BY <1>1, ValueCases DEF Steps
<1>2. CASE v.class = "dictionary"
  BY <1>2, ValueCases DEF Steps, Present
<1> QED
  BY <1>1, <1>2, ValueCases

\* A value has the same leaves whatever depth it is taken to have.
LEMMA leavesAnyDepth ==
  ASSUME NEW m \in Nat, NEW n \in Nat, m <= n, NEW v \in Values[m]
  PROVE  leaves[n][v] = leaves[m][v]
<1> DEFINE S == {k \in Nat : \A w \in Values[k] : leaves[k+1][w] = leaves[k][w]}
<1>1. 0 \in S
  <2> SUFFICES ASSUME NEW w \in Values[0] PROVE leaves[1][w] = leaves[0][w]
    OBVIOUS
  <2>1. w.class = "scalar"
    BY ValueCases
  <2>2. w \in Values[1]
    BY ValuesGrow
  <2>3. leaves[0][w] = {<<<<>>, w.value>>}
    BY <2>1, leavesScalar
  <2>4. leaves[1][w] = {<<<<>>, w.value>>}
    BY <2>1, <2>2, leavesScalar
  <2> QED
    BY <2>3, <2>4
<1>2. ASSUME NEW k \in Nat, k \in S PROVE k + 1 \in S
  <2> SUFFICES ASSUME NEW w \in Values[k+1] PROVE leaves[(k+1)+1][w] = leaves[k+1][w]
    OBVIOUS
  <2>1. w \in Values[(k+1)+1]
    BY ValuesGrow
  <2>2. ((k + 1) + 1) - 1 = k + 1 /\ (k + 1) - 1 = k
    OBVIOUS
  <2>3. CASE w.class = "scalar"
    BY <2>1, <2>3, leavesScalar, k + 1 \in Nat, (k + 1) + 1 \in Nat
  <2>4. CASE w.class # "scalar"
    <3>1. \A step \in Steps(w) : leaves[k+1][w.value[step]] = leaves[k][w.value[step]]
      BY <1>2, <2>2, <2>4, StepsType
    <3>2. leaves[(k+1)+1][w] = UNION {Under(step, leaves[k+1][w.value[step]]) : step \in Steps(w)}
      BY <2>1, <2>4, leavesNext, k + 1 \in Nat
    <3>3. leaves[k+1][w] = UNION {Under(step, leaves[k][w.value[step]]) : step \in Steps(w)}
      BY <2>4, leavesNext
    <3> QED
      BY <3>1, <3>2, <3>3
  <2> QED
    BY <2>3, <2>4
<1> HIDE DEF S
<1>3. Nat \subseteq S
  BY <1>1, <1>2, OnValues!NatSet
<1> DEFINE T == {k \in Nat : leaves[m + k][v] = leaves[m][v]}
<1>4. 0 \in T
  BY m + 0 = m
<1>5. ASSUME NEW k \in Nat, k \in T PROVE k + 1 \in T
  <2>1. m + k \in Nat /\ m + (k + 1) = (m + k) + 1
    OBVIOUS
  <2>2. v \in Values[m + k]
    BY <2>1, ValuesGrow
  <2>3. leaves[(m + k) + 1][v] = leaves[m + k][v]
    BY <1>3, <2>1, <2>2 DEF S
  <2> QED
    BY <1>5, <2>1, <2>3
<1> HIDE DEF T
<1>6. Nat \subseteq T
  BY <1>4, <1>5, OnValues!NatSet
<1>7. n - m \in Nat /\ m + (n - m) = n
  OBVIOUS
<1> QED
  BY <1>6, <1>7 DEF T

Paths == Seq(Names \cup Nat)

\* A leaf is a way and a scalar.
LEMMA leavesType ==
  ASSUME NEW n \in Nat, NEW v \in Values[n]
  PROVE  leaves[n][v] \subseteq Paths \X Scalars
<1> DEFINE S == {k \in Nat : \A w \in Values[k] : leaves[k][w] \subseteq Paths \X Scalars}
<1>1. 0 \in S
  <2> SUFFICES ASSUME NEW w \in Values[0] PROVE leaves[0][w] \subseteq Paths \X Scalars
    OBVIOUS
  <2>1. w.class = "scalar" /\ w.value \in Scalars
    BY ValueCases
  <2>2. <<>> \in Paths
    BY DEF Paths
  <2> QED
    BY <2>1, <2>2, leavesScalar
<1>2. ASSUME NEW k \in Nat, k \in S PROVE k + 1 \in S
  <2> SUFFICES ASSUME NEW w \in Values[k+1] PROVE leaves[k+1][w] \subseteq Paths \X Scalars
    OBVIOUS
  <2>1. (k + 1) - 1 = k
    OBVIOUS
  <2>2. CASE w.class = "scalar"
    <3>1. w.value \in Scalars /\ <<>> \in Paths
      BY <2>2, ValueCases DEF Paths
    <3> QED
      BY <2>2, <3>1, leavesScalar, k + 1 \in Nat
  <2>3. CASE w.class # "scalar"
    <3>1. ASSUME NEW step \in Steps(w)
          PROVE  Under(step, leaves[k][w.value[step]]) \subseteq Paths \X Scalars
      <4>1. leaves[k][w.value[step]] \subseteq Paths \X Scalars
        BY <1>2, <2>1, <2>3, StepsType
      <4>2. step \in Names \cup Nat
        <5>1. CASE w.class = "array"
          <6>1. w.value \in Seq(Values[k])
            BY <2>1, <5>1, ValueCases
          <6> QED
            BY <5>1, <6>1 DEF Steps
        <5>2. CASE w.class # "array"
          BY <5>2 DEF Steps, Present
        <5> QED
          BY <5>1, <5>2
      <4>3. \A path \in Paths : <<step>> \o path \in Paths
        BY <4>2 DEF Paths
      <4>4. ASSUME NEW leaf \in leaves[k][w.value[step]]
            PROVE  <<<<step>> \o leaf[1], leaf[2]>> \in Paths \X Scalars
        BY <4>1, <4>3, <4>4
      <4> QED
        BY <4>4 DEF Under
    <3> QED
      BY <2>3, <3>1, leavesNext
  <2> QED
    BY <2>2, <2>3
<1> HIDE DEF S
<1>3. Nat \subseteq S
  BY <1>1, <1>2, OnValues!NatSet
<1> QED
  BY <1>3 DEF S

-----------------------------------------------------------------------------
(* What transformValue: makes of a scalar, an array and a dictionary.      *)

\* The text of a scalar is a scalar and no date.
LEMMA AsTextType ==
  ASSUME NEW s \in Scalars
  PROVE  AsText(s) \in Scalars /\ AsText(s) \notin Dates
BY EventAssumption DEF AsText, Scalars

\* A date becomes text, any other scalar stays (TPEvent.m:126,148).
LEMMA transformedScalar ==
  ASSUME NEW n \in Nat, NEW v \in Values[n], v.class = "scalar"
  PROVE  transformed[n][v] = Scalar(AsText(v.value))
<1>1. v = Scalar(v.value)
  BY ValueCases
<1>2. transformed[n][v] = transformFlat(v, transformed[n-1])
  BY transformedAt DEF transformValue
<1> QED
  BY <1>1, <1>2 DEF transformFlat, AsText

\* One call of transformValue: from the level below.
LEMMA transformedNext ==
  ASSUME NEW n \in Nat, NEW v \in Values[n+1]
  PROVE  transformed[n+1][v] = transformValue(v, transformed[n])
<1>1. PICK m \in Nat : m = n + 1
  OBVIOUS
<1>2. transformed[m][v] = transformValue(v, transformed[m-1])
  BY <1>1, transformedAt
<1>3. m - 1 = n
  BY <1>1
<1>4. transformed[m-1] = transformed[n]
  BY <1>3
<1> QED
  BY <1>1, <1>2, <1>4

\* An array becomes the array of what its elements become (TPEvent.m:130).
LEMMA transformedArray ==
  ASSUME NEW n \in Nat, NEW v \in Values[n+1], v.class = "array"
  PROVE  transformed[n+1][v] = Array([i \in DOMAIN v.value |-> transformed[n][v.value[i]]])
BY transformedNext DEF transformValue, transformFlat

\* A dictionary keeps its names, but for those answered nil (TPEvent.m:138).
LEMMA transformedDictionary ==
  ASSUME NEW n \in Nat, NEW v \in Values[n+1], v.class = "dictionary"
  PROVE  LET t == transformed[n+1][v]
         IN  /\ t = Dictionary(t.value)
             /\ t.value = [name \in Names |-> t.value[name]]
             /\ \A name \in Names :
                  /\ name \notin Present(v) => t.value[name] = NoValue
                  /\ name \in Present(v) /\ name \notin AnsweredNames
                       => t.value[name] = transformed[n][v.value[name]]
                  /\ name \in Present(v) /\ name \in AnsweredNames
                       => t.value[name] = transformFlat(valueForKey(v, name), transformed[n])
<1> DEFINE f == [name \in Names |->
                   IF name \notin Present(v) THEN NoValue
                   ELSE IF name \in AnsweredNames
                     THEN transformFlat(valueForKey(v, name), transformed[n])
                   ELSE transformed[n][valueForKey(v, name)]]
<1>1. transformed[n+1][v] = Dictionary(f)
  BY transformedNext DEF transformValue
<1>2. Dictionary(f).value = f
  BY DEF Dictionary
<1>3. \A name \in Present(v) : name \notin AnsweredNames => valueForKey(v, name) = v.value[name]
  BY valueForKeyType, n + 1 \in Nat
<1> QED
  BY <1>1, <1>2, <1>3

\* An answer stays an answer, and nil stays nil.
LEMMA transformFlatType ==
  ASSUME NEW n \in Nat, NEW v \in Answers(n+1), NEW m \in Nat,
         NEW deeper, \A w \in Values[n] : deeper[w] \in Values[m]
  PROVE  /\ transformFlat(v, deeper) \in Answers(m+1)
         /\ v # NoValue => transformFlat(v, deeper) # NoValue
<1>n. n + 1 \in Nat /\ (n + 1) - 1 = n /\ m + 1 \in Nat
  OBVIOUS
<1>1. CASE v = NoValue
  BY <1>1 DEF NoValue, transformFlat, Answers
<1>2. CASE v \in Values[n+1] /\ v.class = "array"
  <2>1. v.value \in Seq(Values[n])
    BY <1>2, <1>n, ValueCases
  <2>2. [i \in DOMAIN v.value |-> deeper[v.value[i]]] \in Seq(Values[m])
    BY <2>1
  <2>3. Array([i \in DOMAIN v.value |-> deeper[v.value[i]]]) \in Values[m+1]
    BY <2>2, ValueMade
  <2> QED
    BY <1>2, <2>3 DEF transformFlat, Answers, Array, NoValue
<1>3. CASE v \in Values[n+1] /\ v.class = "scalar"
  <2>1. v = Scalar(v.value) /\ v.value \in Scalars
    BY <1>3, <1>n, ValueCases
  <2>2. transformFlat(v, deeper) = Scalar(AsText(v.value))
    BY <1>3, <2>1 DEF transformFlat, AsText
  <2>3. Scalar(AsText(v.value)) \in Values[m+1]
    BY <1>n, <2>1, AsTextType, ValueMade
  <2> QED
    BY <2>2, <2>3 DEF Answers, Scalar, NoValue
<1> QED
  BY <1>1, <1>2, <1>3, <1>n, ValueCases DEF Answers

\* What transformValue: returns is a value again, of at most twice the depth:
\* the answer to "@allValues" takes the place of what stood under the name.
LEMMA transformedType ==
  ASSUME NEW n \in Nat, NEW v \in Values[n]
  PROVE  transformed[n][v] \in Values[2 * n]
<1> DEFINE S == {k \in Nat : \A w \in Values[k] : transformed[k][w] \in Values[2 * k]}
<1>1. 0 \in S
  <2> SUFFICES ASSUME NEW w \in Values[0] PROVE transformed[0][w] \in Values[0]
    OBVIOUS
  <2>1. w.class = "scalar" /\ w.value \in Scalars
    BY ValueCases
  <2> QED
    BY <2>1, transformedScalar, AsTextType, ValueMade
<1>2. ASSUME NEW k \in Nat, k \in S PROVE k + 1 \in S
  <2> SUFFICES ASSUME NEW w \in Values[k+1] PROVE transformed[k+1][w] \in Values[2 * (k+1)]
    OBVIOUS
  <2>1. PICK m \in Nat : m = 2 * k
    OBVIOUS
  <2>2. \A u \in Values[k] : transformed[k][u] \in Values[m]
    BY <1>2, <2>1
  <2>3. k + 1 \in Nat /\ (k + 1) - 1 = k /\ m + 1 \in Nat /\ 2 * (k + 1) = (m + 1) + 1
    BY <2>1
  <2>4. Values[m] \subseteq Values[m+1] /\ Values[m+1] \subseteq Values[(m+1)+1]
    BY ValuesGrow, m + 1 \in Nat, (m + 1) + 1 \in Nat
  <2>5. transformed[k+1][w] \in Values[(m+1)+1]
    <3>1. CASE w.class = "scalar"
      <4>1. w.value \in Scalars
        BY <2>3, <3>1, ValueCases
      <4>2. Scalar(AsText(w.value)) \in Values[m]
        BY <4>1, AsTextType, ValueMade
      <4> QED
        BY <2>3, <2>4, <3>1, <4>2, transformedScalar
    <3>2. CASE w.class = "array"
      <4>1. w.value \in Seq(Values[k])
        BY <2>3, <3>2, ValueCases
      <4>2. [i \in DOMAIN w.value |-> transformed[k][w.value[i]]] \in Seq(Values[m])
        BY <2>2, <4>1
      <4>3. Array([i \in DOMAIN w.value |-> transformed[k][w.value[i]]]) \in Values[m+1]
        BY <4>2, ValueMade
      <4> QED
        BY <2>4, <3>2, <4>3, transformedArray
    <3>3. CASE w.class = "dictionary"
      <4> DEFINE t == transformed[k+1][w]
      <4>1. /\ t = Dictionary(t.value)
            /\ t.value = [name \in Names |-> t.value[name]]
            /\ \A name \in Names :
                 /\ name \notin Present(w) => t.value[name] = NoValue
                 /\ name \in Present(w) /\ name \notin AnsweredNames
                      => t.value[name] = transformed[k][w.value[name]]
                 /\ name \in Present(w) /\ name \in AnsweredNames
                      => t.value[name] = transformFlat(valueForKey(w, name), transformed[k])
        BY <3>3, transformedDictionary
      <4> HIDE DEF t
      <4>2. ASSUME NEW name \in Names PROVE t.value[name] \in Values[m+1] \cup {NoValue}
        <5>1. CASE name \notin Present(w)
          BY <4>1, <5>1
        <5>2. CASE name \in Present(w) /\ name \notin AnsweredNames
          <6>1. w.value[name] \in Values[k]
            BY <2>3, <3>3, <5>2, valueForKeyType
          <6> QED
            BY <2>2, <2>4, <4>1, <5>2, <6>1
        <5>3. CASE name \in Present(w) /\ name \in AnsweredNames
          <6>1. valueForKey(w, name) \in Answers(k+1)
            BY <2>3, <3>3, <5>3, valueForKeyType
          <6>2. transformFlat(valueForKey(w, name), transformed[k]) \in Answers(m+1)
            BY <2>2, <6>1, transformFlatType
          <6> QED
            BY <4>1, <5>3, <6>2 DEF Answers
        <5> QED
          BY <5>1, <5>2, <5>3
      <4>3. t.value \in [Names -> Values[m+1] \cup {NoValue}]
        BY <4>1, <4>2
      <4> QED
        BY <2>3, <4>1, <4>3, ValueMade DEF t
    <3> QED
      BY <2>3, <3>1, <3>2, <3>3, ValueCases
  <2> QED
    BY <2>3, <2>5
<1> HIDE DEF S
<1>3. Nat \subseteq S
  BY <1>1, <1>2, OnValues!NatSet
<1> QED
  BY <1>3 DEF S

-----------------------------------------------------------------------------
(* The leaves of what transformValue: returns.                             *)

\* Own and Text commute with putting leaves under a step.
LEMMA UnderLeaves ==
  ASSUME NEW step \in Names \cup Nat, NEW ls, ls \subseteq Paths \X Scalars
  PROVE  /\ Under(step, ls) \subseteq Paths \X Scalars
         /\ Own(Under(step, ls)) = IF step \in AnsweredNames THEN {} ELSE Under(step, Own(ls))
         /\ Text(Under(step, ls)) = Under(step, Text(ls))
<1>1. ASSUME NEW path \in Paths
      PROVE  /\ <<step>> \o path \in Paths
             /\ Range(<<step>> \o path) = {step} \cup Range(path)
  <2>1. path \in Seq(Names \cup Nat) /\ <<step>> \o path \in Seq(Names \cup Nat)
    BY DEF Paths
  <2>2. Len(<<step>> \o path) = 1 + Len(path) /\ Len(path) \in Nat
    BY <2>1
  <2>3. \A i \in 1 .. (1 + Len(path)) :
          (<<step>> \o path)[i] = IF i = 1 THEN step ELSE path[i - 1]
    BY <2>1, <2>2
  <2>4. Range(<<step>> \o path) = {(<<step>> \o path)[i] : i \in 1 .. (1 + Len(path))}
    BY <2>1, <2>2 DEF Range
  <2>5. Range(path) = {path[i] : i \in 1 .. Len(path)}
    BY <2>1 DEF Range
  <2>6. \A i \in 1 .. Len(path) : i + 1 \in 1 .. (1 + Len(path)) /\ i + 1 # 1 /\ (i + 1) - 1 = i
    BY <2>2
  <2>7. \A i \in 1 .. (1 + Len(path)) : i # 1 => i - 1 \in 1 .. Len(path)
    BY <2>2
  <2>8. Range(<<step>> \o path) \subseteq {step} \cup Range(path)
    BY <2>3, <2>4, <2>5, <2>7
  <2>9. {step} \cup Range(path) \subseteq Range(<<step>> \o path)
    <3>1. 1 \in 1 .. (1 + Len(path))
      BY <2>2
    <3>2. step \in Range(<<step>> \o path)
      BY <2>3, <2>4, <3>1
    <3>3. ASSUME NEW i \in 1 .. Len(path) PROVE path[i] \in Range(<<step>> \o path)
      <4>1. (<<step>> \o path)[i + 1] = path[i]
        BY <2>3, <2>6
      <4> QED
        BY <2>4, <2>6, <4>1
    <3> QED
      BY <2>5, <3>2, <3>3
  <2> QED
    BY <2>1, <2>8, <2>9 DEF Paths
<1> DEFINE shifted(leaf) == <<<<step>> \o leaf[1], leaf[2]>>
           asText(leaf)  == <<leaf[1], AsText(leaf[2])>>
<1>2. \A leaf \in ls : leaf = <<leaf[1], leaf[2]>> /\ leaf[1] \in Paths /\ leaf[2] \in Scalars
  OBVIOUS
<1>3. \A leaf : shifted(leaf)[1] = <<step>> \o leaf[1] /\ shifted(leaf)[2] = leaf[2]
  OBVIOUS
<1>4. \A leaf : shifted(asText(leaf)) = asText(shifted(leaf))
  OBVIOUS
<1>5. \A leaf \in ls : shifted(leaf) \in Paths \X Scalars
  BY <1>1, <1>2
<1>6. \A below : Under(step, below) = {shifted(leaf) : leaf \in below}
  BY DEF Under
<1>7. \A below : Text(below) = {asText(leaf) : leaf \in below}
  BY DEF Text
<1> HIDE DEF shifted, asText
<1>8. Under(step, ls) \subseteq Paths \X Scalars
  BY <1>5, <1>6
<1>9. Own(Under(step, ls)) = IF step \in AnsweredNames THEN {} ELSE Under(step, Own(ls))
  <2>1. ASSUME NEW leaf \in ls
        PROVE  Range(shifted(leaf)[1]) \cap AnsweredNames = {}
                 <=> step \notin AnsweredNames /\ Range(leaf[1]) \cap AnsweredNames = {}
    <3>1. Range(shifted(leaf)[1]) = {step} \cup Range(leaf[1])
      BY <1>1, <1>2, <1>3
    <3> QED
      BY <3>1
  <2>2. Own(Under(step, ls)) = {l \in {shifted(leaf) : leaf \in ls} : Range(l[1]) \cap AnsweredNames = {}}
    BY <1>6 DEF Own
  <2>3. Under(step, Own(ls)) = {shifted(leaf) : leaf \in {l \in ls : Range(l[1]) \cap AnsweredNames = {}}}
    BY <1>6 DEF Own
  <2> QED
    BY <2>1, <2>2, <2>3
<1>10. Text(Under(step, ls)) = Under(step, Text(ls))
  <2>1. Text(Under(step, ls)) = {asText(shifted(leaf)) : leaf \in ls}
    BY <1>6, <1>7
  <2>2. Under(step, Text(ls)) = {shifted(asText(leaf)) : leaf \in ls}
    BY <1>6, <1>7
  <2> QED
    BY <1>4, <2>1, <2>2
<1> QED
  BY <1>8, <1>9, <1>10

\* A step is a name or an index.
LEMMA StepsAreNames ==
  ASSUME NEW n \in Nat, NEW v \in Values[n], v.class # "scalar"
  PROVE  Steps(v) \subseteq Names \cup Nat
<1>1. CASE v.class = "array"
  <2>1. v.value \in Seq(Values[n-1])
    BY <1>1, ValueCases
  <2> QED
    BY <1>1, <2>1 DEF Steps
<1>2. CASE v.class # "array"
  BY <1>2 DEF Steps, Present
<1> QED
  BY <1>1, <1>2

\* The own leaves of an array or a dictionary are those of its values, under
\* names that are not answered.
LEMMA OwnNext ==
  ASSUME NEW n \in Nat, NEW v \in Values[n+1], v.class # "scalar"
  PROVE  Own(leaves[n+1][v]) =
           UNION {Under(step, Own(leaves[n][v.value[step]])) : step \in Steps(v) \ AnsweredNames}
<1>1. leaves[n+1][v] = UNION {Under(step, leaves[n][v.value[step]]) : step \in Steps(v)}
  BY leavesNext
<1>2. n + 1 \in Nat /\ (n + 1) - 1 = n
  OBVIOUS
<1>3. \A step \in Steps(v) : v.value[step] \in Values[n]
  BY <1>2, StepsType
<1>4. ASSUME NEW step \in Steps(v)
      PROVE  Own(Under(step, leaves[n][v.value[step]]))
               = IF step \in AnsweredNames THEN {} ELSE Under(step, Own(leaves[n][v.value[step]]))
  <2>1. leaves[n][v.value[step]] \subseteq Paths \X Scalars
    BY <1>3, leavesType
  <2>2. step \in Names \cup Nat
    BY <1>2, StepsAreNames
  <2> QED
    BY <2>1, <2>2, UnderLeaves
<1>5. Own(leaves[n+1][v]) = UNION {Own(Under(step, leaves[n][v.value[step]])) : step \in Steps(v)}
  BY <1>1 DEF Own
<1> QED
  BY <1>4, <1>5

\* transformValue: keeps the class and the places of the values, but for what
\* stands under an answered name.
LEMMA transformedSteps ==
  ASSUME NEW n \in Nat, NEW v \in Values[n+1], v.class # "scalar"
  PROVE  LET t == transformed[n+1][v]
         IN  /\ t.class = v.class
             /\ Steps(t) \ AnsweredNames = Steps(v) \ AnsweredNames
             /\ \A step \in Steps(v) \ AnsweredNames : t.value[step] = transformed[n][v.value[step]]
<1>n. n + 1 \in Nat /\ (n + 1) - 1 = n
  OBVIOUS
<1>1. CASE v.class = "array"
  <2> DEFINE f == [i \in DOMAIN v.value |-> transformed[n][v.value[i]]]
  <2>1. transformed[n+1][v] = Array(f)
    BY <1>1, transformedArray
  <2>2. Array(f).class = "array" /\ Array(f).value = f
    BY DEF Array
  <2>3. Steps(Array(f)) = DOMAIN v.value /\ Steps(v) = DOMAIN v.value
    BY <1>1, <2>2 DEF Steps
  <2> QED
    BY <1>1, <2>1, <2>2, <2>3
<1>2. CASE v.class = "dictionary"
  <2> DEFINE t == transformed[n+1][v]
  <2>1. /\ t = Dictionary(t.value)
        /\ \A name \in Names :
             /\ name \notin Present(v) => t.value[name] = NoValue
             /\ name \in Present(v) /\ name \notin AnsweredNames
                  => t.value[name] = transformed[n][v.value[name]]
    BY <1>2, transformedDictionary
  <2> HIDE DEF t
  <2>2. t.class = "dictionary"
    BY <2>1 DEF Dictionary
  <2>3. ASSUME NEW name \in Present(v), name \notin AnsweredNames
        PROVE  transformed[n][v.value[name]] # NoValue
    <3>1. v.value[name] \in Values[n]
      BY <1>n, <1>2, valueForKeyType
    <3> QED
      BY <3>1, transformedType, NilIsNoValue, 2 * n \in Nat
  <2>4. Steps(t) = Present(t) /\ Steps(v) = Present(v)
    BY <1>2, <2>2 DEF Steps
  <2>5. Present(t) \ AnsweredNames = Present(v) \ AnsweredNames
    BY <2>1, <2>3 DEF Present
  <2>6. Present(v) \subseteq Names
    BY DEF Present
  <2> QED
    BY <1>2, <2>1, <2>2, <2>4, <2>5, <2>6 DEF t
<1> QED
  BY <1>n, <1>1, <1>2, ValueCases

\* What stands under no answered name is where it was, dates as text.
LEMMA transformedLeaves ==
  ASSUME NEW n \in Nat, NEW v \in Values[n]
  PROVE  Own(leaves[2 * n][transformed[n][v]]) = Text(Own(leaves[n][v]))
<1> DEFINE S == {k \in Nat : \A w \in Values[k] :
                   Own(leaves[2 * k][transformed[k][w]]) = Text(Own(leaves[k][w]))}
<1>0. ASSUME NEW k \in Nat, NEW w \in Values[k], w.class = "scalar"
      PROVE  Own(leaves[2 * k][transformed[k][w]]) = Text(Own(leaves[k][w]))
  <2>1. PICK m \in Nat : m = 2 * k
    OBVIOUS
  <2>2. w.value \in Scalars
    BY <1>0, ValueCases
  <2>3. transformed[k][w] = Scalar(AsText(w.value))
    BY <1>0, transformedScalar
  <2>4. Scalar(AsText(w.value)) \in Values[m]
    BY <2>2, AsTextType, ValueMade
  <2>5. leaves[m][Scalar(AsText(w.value))] = {<<<<>>, AsText(w.value)>>}
    BY <2>4, leavesScalar DEF Scalar
  <2>6. leaves[k][w] = {<<<<>>, w.value>>}
    BY <1>0, leavesScalar
  <2>7. \A s : Own({<<<<>>, s>>}) = {<<<<>>, s>>} /\ Text({<<<<>>, s>>}) = {<<<<>>, AsText(s)>>}
    BY DEF Own, Text, Range
  <2>8. leaves[2 * k][transformed[k][w]] = {<<<<>>, AsText(w.value)>>}
    BY <2>1, <2>3, <2>5
  <2> QED
    BY <2>6, <2>7, <2>8
<1>1. 0 \in S
  <2>1. \A w \in Values[0] : w.class = "scalar"
    BY ValueCases
  <2> QED
    BY <1>0, <2>1
<1>2. ASSUME NEW k \in Nat, k \in S PROVE k + 1 \in S
  <2> SUFFICES ASSUME NEW w \in Values[k+1]
               PROVE  Own(leaves[2 * (k+1)][transformed[k+1][w]]) = Text(Own(leaves[k+1][w]))
    OBVIOUS
  <2>1. CASE w.class = "scalar"
    BY <1>0, <2>1, k + 1 \in Nat
  <2>2. CASE w.class # "scalar"
    <3> DEFINE t == transformed[k+1][w]
               steps == Steps(w) \ AnsweredNames
    <3>1. PICK m \in Nat : m = 2 * k
      OBVIOUS
    <3>2. k + 1 \in Nat /\ (k + 1) - 1 = k /\ m + 1 \in Nat /\ 2 * (k + 1) = (m + 1) + 1
      BY <3>1
    <3>3. t \in Values[(m+1)+1]
      BY <3>2, transformedType
    <3>4. /\ t.class = w.class
          /\ Steps(t) \ AnsweredNames = steps
          /\ \A step \in steps : t.value[step] = transformed[k][w.value[step]]
      BY <2>2, transformedSteps
    <3> HIDE DEF t
    <3>5. \A step \in steps : w.value[step] \in Values[k] /\ step \in Names \cup Nat
      BY <2>2, <3>2, StepsType, StepsAreNames
    <3>6. ASSUME NEW step \in steps
          PROVE  Under(step, Own(leaves[m+1][t.value[step]]))
                   = Text(Under(step, Own(leaves[k][w.value[step]])))
      <4>1. transformed[k][w.value[step]] \in Values[m]
        BY <3>1, <3>5, transformedType
      <4>2. leaves[m+1][t.value[step]] = leaves[m][transformed[k][w.value[step]]]
        BY <3>2, <3>4, <4>1, leavesAnyDepth
      <4>3. Own(leaves[m][transformed[k][w.value[step]]]) = Text(Own(leaves[k][w.value[step]]))
        BY <1>2, <3>1, <3>5
      <4>4. Own(leaves[k][w.value[step]]) \subseteq Paths \X Scalars
        BY <3>5, leavesType DEF Own
      <4> QED
        BY <3>5, <4>2, <4>3, <4>4, UnderLeaves
    <3>7. Own(leaves[(m+1)+1][t]) = UNION {Under(step, Own(leaves[m+1][t.value[step]])) : step \in steps}
      <4>1. Own(leaves[(m+1)+1][t])
              = UNION {Under(step, Own(leaves[m+1][t.value[step]])) : step \in Steps(t) \ AnsweredNames}
        BY <2>2, <3>2, <3>3, <3>4, OwnNext
      <4> QED
        BY <3>4, <4>1
    <3>8. Own(leaves[k+1][w]) = UNION {Under(step, Own(leaves[k][w.value[step]])) : step \in steps}
      BY <2>2, OwnNext
    <3>9. Text(Own(leaves[k+1][w]))
            = UNION {Text(Under(step, Own(leaves[k][w.value[step]]))) : step \in steps}
      BY <3>8 DEF Text
    <3> QED
      BY <3>2, <3>6, <3>7, <3>9 DEF t
  <2> QED
    BY <2>1, <2>2
<1> HIDE DEF S
<1>3. Nat \subseteq S
  BY <1>1, <1>2, OnValues!NatSet
<1> QED
  BY <1>3 DEF S

-----------------------------------------------------------------------------
(* The scalars of what transformValue: returns.                            *)

ScalarsAt(n, v) == {leaf[2] : leaf \in leaves[n][v]}

AsTexts(scalars) == {AsText(s) : s \in scalars}

\* More scalars have more texts.
LEMMA AsTextsGrow ==
  ASSUME NEW lower, NEW upper, lower \subseteq upper
  PROVE  AsTexts(lower) \subseteq AsTexts(upper)
BY DEF AsTexts

\* A scalar is the only one of its value.
LEMMA ScalarsOfScalar ==
  ASSUME NEW n \in Nat, NEW s \in Scalars
  PROVE  ScalarsAt(n, Scalar(s)) = {s}
<1>1. Scalar(s) \in Values[n] /\ Scalar(s).class = "scalar" /\ Scalar(s).value = s
  BY ValueMade DEF Scalar
<1>2. leaves[n][Scalar(s)] = {<<<<>>, s>>}
  BY <1>1, leavesScalar
<1> QED
  BY <1>2 DEF ScalarsAt

\* The scalars of a value are those of the values in it.
LEMMA ScalarsNext ==
  ASSUME NEW n \in Nat, NEW v \in Values[n+1], v.class # "scalar"
  PROVE  ScalarsAt(n+1, v) = UNION {ScalarsAt(n, v.value[step]) : step \in Steps(v)}
<1>1. leaves[n+1][v] = UNION {Under(step, leaves[n][v.value[step]]) : step \in Steps(v)}
  BY leavesNext
<1>2. ScalarsAt(n+1, v)
        = UNION {{leaf[2] : leaf \in Under(step, leaves[n][v.value[step]])} : step \in Steps(v)}
  BY <1>1 DEF ScalarsAt
<1>3. ASSUME NEW step, NEW ls
      PROVE  {leaf[2] : leaf \in Under(step, ls)} = {leaf[2] : leaf \in ls}
  <2> DEFINE shifted(leaf) == <<<<step>> \o leaf[1], leaf[2]>>
  <2>1. \A leaf : shifted(leaf)[2] = leaf[2]
    OBVIOUS
  <2>2. Under(step, ls) = {shifted(leaf) : leaf \in ls}
    BY DEF Under
  <2> HIDE DEF shifted
  <2> QED
    BY <2>1, <2>2
<1>4. \A step : {leaf[2] : leaf \in Under(step, leaves[n][v.value[step]])} = ScalarsAt(n, v.value[step])
  BY <1>3 DEF ScalarsAt
<1> QED
  BY <1>2, <1>4

\* A value has the same scalars whatever depth it is taken to have.
LEMMA ScalarsAnyDepth ==
  ASSUME NEW m \in Nat, NEW n \in Nat, m <= n, NEW v \in Values[m]
  PROVE  ScalarsAt(n, v) = ScalarsAt(m, v)
BY leavesAnyDepth DEF ScalarsAt

\* The scalars of an answer are a dictionary's own or come with the answer.
LEMMA AnswerScalars ==
  ASSUME NEW n \in Nat, NEW v \in Values[n+1], v.class = "dictionary",
         NEW name \in Present(v), name \in AnsweredNames, valueForKey(v, name) # NoValue
  PROVE  ScalarsAt(n+1, valueForKey(v, name)) \subseteq ScalarsAt(n+1, v) \cup AnsweredScalars
<1>n. n + 1 \in Nat /\ (n + 1) - 1 = n /\ 1 <= n + 1
  OBVIOUS
<1>1. CASE name \in ListingNames
  <2>1. valueForKey(v, name) = allValues(v)
    BY <1>1 DEF valueForKey
  <2>2. /\ allValues(v) \in Values[n+1]
        /\ allValues(v).class = "array"
        /\ Elements(allValues(v)) = {v.value[nm] : nm \in Present(v)}
    BY <1>n, AllValuesElements
  <2>3. ScalarsAt(n+1, allValues(v))
          = UNION {ScalarsAt(n, allValues(v).value[i]) : i \in DOMAIN allValues(v).value}
    BY <2>2, ScalarsNext DEF Steps
  <2>4. \A i \in DOMAIN allValues(v).value : allValues(v).value[i] \in {v.value[nm] : nm \in Present(v)}
    BY <2>2 DEF Elements, Range
  <2>5. ScalarsAt(n+1, v) = UNION {ScalarsAt(n, v.value[nm]) : nm \in Present(v)}
    BY ScalarsNext DEF Steps
  <2> QED
    BY <2>1, <2>3, <2>4, <2>5
<1>2. CASE name \notin ListingNames
  <2> DEFINE a == Answer[name][Present(v)]
  <2>1. valueForKey(v, name) = a
    BY <1>2 DEF valueForKey
  <2>2. Present(v) \in SUBSET Names
    BY DEF Present
  <2>3. a \in Flat
    BY <1>2, <2>1, <2>2, EventAssumption
  <2>4. a \in Values[1]
    BY <2>3 DEF Flat
  <2>5. ScalarsAt(n+1, a) = ScalarsAt(1, a) /\ ScalarsAt(2 * MaxDepth, a) = ScalarsAt(1, a)
    BY <1>n, <2>4, ScalarsAnyDepth, EventAssumption
  <2>6. ScalarsOf(a) = ScalarsAt(2 * MaxDepth, a)
    BY DEF ScalarsOf, Leaves, ScalarsAt
  <2>7. ScalarsOf(a) \subseteq AnsweredScalars
    BY <1>2, <2>1, <2>2 DEF AnsweredScalars
  <2> QED
    BY <2>1, <2>5, <2>6, <2>7
<1> QED
  BY <1>1, <1>2

\* No scalar is made up but the texts of dates and what a name is answered with.
LEMMA transformedScalars ==
  ASSUME NEW n \in Nat, NEW v \in Values[n]
  PROVE  ScalarsAt(2 * n, transformed[n][v]) \subseteq AsTexts(ScalarsAt(n, v) \cup AnsweredScalars)
<1> DEFINE Good(k) == \A w \in Values[k] :
                        ScalarsAt(2 * k, transformed[k][w]) \subseteq AsTexts(ScalarsAt(k, w) \cup AnsweredScalars)
           S == {k \in Nat : Good(k)}
<1>0. ASSUME NEW k \in Nat, NEW s \in Scalars, NEW m \in Nat
      PROVE  ScalarsAt(m, Scalar(AsText(s))) = AsTexts(ScalarsAt(k, Scalar(s)))
  BY AsTextType, ScalarsOfScalar DEF AsTexts
<1>1. 0 \in S
  <2> SUFFICES ASSUME NEW w \in Values[0]
               PROVE  ScalarsAt(0, transformed[0][w]) \subseteq AsTexts(ScalarsAt(0, w) \cup AnsweredScalars)
    OBVIOUS
  <2>1. w.class = "scalar" /\ w = Scalar(w.value) /\ w.value \in Scalars
    BY ValueCases
  <2>2. transformed[0][w] = Scalar(AsText(w.value))
    BY <2>1, transformedScalar
  <2> QED
    BY <1>0, <2>1, <2>2 DEF AsTexts
<1>2. ASSUME NEW k \in Nat, k \in S PROVE k + 1 \in S
  <2>1. PICK m \in Nat : m = 2 * k
    OBVIOUS
  <2>2. k + 1 \in Nat /\ (k + 1) - 1 = k /\ m + 1 \in Nat /\ 2 * (k + 1) = (m + 1) + 1
    BY <2>1
  <2>3. \A w \in Values[k] : /\ transformed[k][w] \in Values[m]
                             /\ ScalarsAt(m, transformed[k][w]) \subseteq AsTexts(ScalarsAt(k, w) \cup AnsweredScalars)
    BY <1>2, <2>1, transformedType
  <2>4. ASSUME NEW v1 \in Answers(k+1), v1 # NoValue
        PROVE  LET t == transformFlat(v1, transformed[k])
               IN  /\ t \in Values[m+1]
                   /\ ScalarsAt(m+1, t) \subseteq AsTexts(ScalarsAt(k+1, v1) \cup AnsweredScalars)
    <3> DEFINE t == transformFlat(v1, transformed[k])
    <3>1. t \in Values[m+1]
      BY <2>3, <2>4, transformFlatType DEF Answers
    <3>2. CASE v1.class = "scalar"
      <4>1. v1 = Scalar(v1.value) /\ v1.value \in Scalars
        BY <2>2, <2>4, <3>2, ValueCases DEF Answers
      <4>2. t = Scalar(AsText(v1.value))
        BY <3>2, <4>1 DEF transformFlat, AsText
      <4>3. ScalarsAt(m+1, t) = AsTexts(ScalarsAt(k+1, v1))
        BY <1>0, <2>2, <4>1, <4>2
      <4> QED
        BY <3>1, <4>3 DEF AsTexts
    <3>3. CASE v1.class = "array"
      <4> DEFINE f == [i \in DOMAIN v1.value |-> transformed[k][v1.value[i]]]
      <4>1. v1 \in Values[k+1] /\ v1.value \in Seq(Values[k])
        BY <2>2, <2>4, <3>3, ValueCases DEF Answers
      <4>2. t = Array(f)
        BY <3>3 DEF transformFlat
      <4>3. t.class = "array" /\ t.value = f
        BY <4>2 DEF Array
      <4>4. Steps(t) = DOMAIN v1.value /\ Steps(v1) = DOMAIN v1.value
        BY <3>3, <4>3 DEF Steps
      <4>5. ScalarsAt(m+1, t) = UNION {ScalarsAt(m, f[i]) : i \in DOMAIN v1.value}
        BY <3>1, <4>3, <4>4, ScalarsNext
      <4>6. ScalarsAt(k+1, v1) = UNION {ScalarsAt(k, v1.value[i]) : i \in DOMAIN v1.value}
        BY <3>3, <4>1, <4>4, ScalarsNext
      <4>7. ASSUME NEW i \in DOMAIN v1.value
            PROVE  ScalarsAt(m, f[i]) \subseteq AsTexts(ScalarsAt(k+1, v1) \cup AnsweredScalars)
        <5>1. v1.value[i] \in Values[k] /\ f[i] = transformed[k][v1.value[i]]
          BY <4>1
        <5>2. ScalarsAt(m, f[i]) \subseteq AsTexts(ScalarsAt(k, v1.value[i]) \cup AnsweredScalars)
          BY <2>3, <5>1
        <5>3. ScalarsAt(k, v1.value[i]) \cup AnsweredScalars \subseteq ScalarsAt(k+1, v1) \cup AnsweredScalars
          BY <4>6
        <5> QED
          BY <5>2, <5>3, AsTextsGrow
      <4> HIDE DEF f
      <4> QED
        BY <3>1, <4>5, <4>7
    <3> QED
      BY <2>2, <2>4, <3>2, <3>3, ValueCases DEF Answers
  <2>5. ASSUME NEW w \in Values[k+1]
        PROVE  ScalarsAt((m+1)+1, transformed[k+1][w]) \subseteq AsTexts(ScalarsAt(k+1, w) \cup AnsweredScalars)
    <3> DEFINE t == transformed[k+1][w]
    <3>1. t \in Values[(m+1)+1]
      BY <2>2, transformedType
    <3>2. CASE w.class # "dictionary"
      <4>1. w \in Answers(k+1) /\ w # NoValue
        BY <2>2, <3>2, NilIsNoValue DEF Answers
      <4>2. t = transformFlat(w, transformed[k])
        BY <3>2, transformedNext DEF transformValue
      <4>3. t \in Values[m+1] /\ ScalarsAt(m+1, t) \subseteq AsTexts(ScalarsAt(k+1, w) \cup AnsweredScalars)
        BY <2>4, <4>1, <4>2
      <4>4. ScalarsAt((m+1)+1, t) = ScalarsAt(m+1, t)
        BY <2>2, <4>3, ScalarsAnyDepth
      <4> QED
        BY <4>3, <4>4
    <3>3. CASE w.class = "dictionary"
      <4>1. /\ t = Dictionary(t.value)
            /\ \A name \in Names :
                 /\ name \notin Present(w) => t.value[name] = NoValue
                 /\ name \in Present(w) /\ name \notin AnsweredNames
                      => t.value[name] = transformed[k][w.value[name]]
                 /\ name \in Present(w) /\ name \in AnsweredNames
                      => t.value[name] = transformFlat(valueForKey(w, name), transformed[k])
        BY <3>3, transformedDictionary
      <4> HIDE DEF t
      <4>2. t.class = "dictionary"
        BY <4>1 DEF Dictionary
      <4>3. Steps(t) = Present(t) /\ Steps(w) = Present(w)
        BY <3>3, <4>2 DEF Steps
      <4>4. ScalarsAt((m+1)+1, t) = UNION {ScalarsAt(m+1, t.value[name]) : name \in Present(t)}
        BY <2>2, <3>1, <4>2, <4>3, ScalarsNext
      <4>5. ScalarsAt(k+1, w) = UNION {ScalarsAt(k, w.value[name]) : name \in Present(w)}
        BY <3>3, <4>3, ScalarsNext
      <4>6. ASSUME NEW name \in Present(t)
            PROVE  ScalarsAt(m+1, t.value[name]) \subseteq AsTexts(ScalarsAt(k+1, w) \cup AnsweredScalars)
        <5>1. name \in Names /\ t.value[name] # NoValue /\ name \in Present(w)
          BY <4>1 DEF Present
        <5>2. CASE name \notin AnsweredNames
          <6>1. w.value[name] \in Values[k]
            BY <2>2, <3>3, <5>1, valueForKeyType
          <6>2. t.value[name] = transformed[k][w.value[name]]
            BY <4>1, <5>1, <5>2
          <6>3. t.value[name] \in Values[m]
            BY <2>3, <6>1, <6>2
          <6>4. ScalarsAt(m+1, t.value[name]) = ScalarsAt(m, t.value[name])
            BY <2>2, <6>3, ScalarsAnyDepth, m <= m + 1
          <6>5. ScalarsAt(k, w.value[name]) \cup AnsweredScalars \subseteq ScalarsAt(k+1, w) \cup AnsweredScalars
            BY <4>5, <5>1
          <6>6. ScalarsAt(m, t.value[name]) \subseteq AsTexts(ScalarsAt(k, w.value[name]) \cup AnsweredScalars)
            BY <2>3, <6>1, <6>2
          <6> QED
            BY <6>4, <6>5, <6>6, AsTextsGrow
        <5>3. CASE name \in AnsweredNames
          <6> DEFINE a == valueForKey(w, name)
          <6>1. a \in Answers(k+1)
            BY <2>2, <3>3, <5>1, <5>3, valueForKeyType
          <6>2. t.value[name] = transformFlat(a, transformed[k])
            BY <4>1, <5>1, <5>3
          <6>3. a # NoValue
            <7>1. transformFlat(NoValue, transformed[k]) = NoValue
              BY DEF transformFlat, NoValue
            <7> QED
              BY <5>1, <6>2, <7>1
          <6>4. ScalarsAt(k+1, a) \subseteq ScalarsAt(k+1, w) \cup AnsweredScalars
            BY <3>3, <5>1, <5>3, <6>3, AnswerScalars
          <6>5. ScalarsAt(m+1, t.value[name]) \subseteq AsTexts(ScalarsAt(k+1, a) \cup AnsweredScalars)
            BY <2>4, <6>1, <6>2, <6>3
          <6> QED
            BY <6>4, <6>5 DEF AsTexts
        <5> QED
          BY <5>2, <5>3
      <4>7. ScalarsAt((m+1)+1, t) \subseteq AsTexts(ScalarsAt(k+1, w) \cup AnsweredScalars)
        BY <4>4, <4>6
      <4> QED
        BY <4>7 DEF t
    <3> QED
      BY <3>2, <3>3
  <2>6. Good(k + 1)
    BY <2>2, <2>5
  <2> QED
    BY <2>2, <2>6
<1> HIDE DEF S
<1>3. Nat \subseteq S
  BY <1>1, <1>2, OnValues!NatSet
<1> QED
  BY <1>3 DEF S

-----------------------------------------------------------------------------
(* What was transformed can be transformed again.                          *)

\* An array or an object raises only if one of an array's elements does.
LEMMA FlatRaises ==
  ASSUME NEW n \in Nat, NEW v \in Values[n+1], v.class # "dictionary",
         \A part \in Elements(v) : ~raises[n][part]
  PROVE  ~raises[n+1][v]
BY raisesNext DEF Parts

\* What a fixed answer holds does not raise.
LEMMA FlatElements ==
  ASSUME NEW v \in Flat \cup {NoValue}, NEW n \in Nat
  PROVE  Elements(v) \subseteq Values[n] /\ \A part \in Elements(v) : ~raises[n][part]
<1>1. v \in Answers(1)
  BY DEF Flat, Answers
<1>2. Elements(v) \subseteq Values[0]
  BY <1>1, ElementsType, 1 - 1 = 0
<1>3. \A part \in Values[0] : part \in Values[n] /\ part.class = "scalar"
  BY ValuesGrow, ValueCases
<1> QED
  BY <1>2, <1>3, raisesScalar

\* An event that was processed raises as little when it is processed again.
LEMMA transformedRaises ==
  ASSUME NEW n \in Nat, NEW v \in Values[n], ~raises[n][v]
  PROVE  ~raises[2 * n][transformed[n][v]]
<1> DEFINE Good(k) == \A w \in Values[k] : ~raises[k][w] => ~raises[2 * k][transformed[k][w]]
           S == {k \in Nat : Good(k)}
<1>1. 0 \in S
  <2>1. ASSUME NEW w \in Values[0] PROVE ~raises[0][transformed[0][w]]
    <3>1. transformed[0][w] \in Values[0]
      BY transformedType, 2 * 0 = 0
    <3> QED
      BY <3>1, ValueCases, raisesScalar
  <2> QED
    BY <2>1
<1>2. ASSUME NEW k \in Nat, k \in S PROVE k + 1 \in S
  <2>1. PICK m \in Nat : m = 2 * k
    OBVIOUS
  <2>2. k + 1 \in Nat /\ (k + 1) - 1 = k /\ m + 1 \in Nat /\ (m + 1) - 1 = m /\ 2 * (k + 1) = (m + 1) + 1
    BY <2>1
  <2>3. \A w \in Values[k] : /\ transformed[k][w] \in Values[m]
                             /\ ~raises[k][w] => ~raises[m][transformed[k][w]]
    BY <1>2, <2>1, transformedType
  <2>4. ASSUME NEW a \in Answers(k+1), a # NoValue, \A part \in Elements(a) : ~raises[k][part]
        PROVE  LET t == transformFlat(a, transformed[k])
               IN  t \in Values[m+1] /\ ~raises[m+1][t]
    <3> DEFINE t == transformFlat(a, transformed[k])
    <3>1. t \in Values[m+1] /\ t.class # "dictionary"
      BY <2>3, <2>4, transformFlatType DEF Answers
    <3>2. ASSUME NEW part \in Elements(t) PROVE ~raises[m][part]
      <4>1. CASE a.class = "array"
        <5> DEFINE f == [i \in DOMAIN a.value |-> transformed[k][a.value[i]]]
        <5>1. t = Array(f)
          BY <4>1 DEF transformFlat
        <5>2. Elements(t) = {f[i] : i \in DOMAIN a.value}
          BY <5>1 DEF Elements, Array, Range
        <5>3. PICK i \in DOMAIN a.value : part = transformed[k][a.value[i]]
          BY <3>2, <5>2
        <5>4. a.value[i] \in Elements(a)
          BY <4>1 DEF Elements, Range
        <5>5. a.value[i] \in Values[k]
          BY <2>2, <5>4, ElementsType
        <5> QED
          BY <2>3, <2>4, <5>3, <5>4, <5>5
      <4>2. CASE a.class = "scalar"
        <5>1. t.class = "scalar"
          BY <4>2 DEF transformFlat, Scalar
        <5> QED
          BY <3>2, <5>1 DEF Elements
      <4> QED
        BY <2>2, <2>4, <4>1, <4>2, ValueCases DEF Answers
    <3> QED
      BY <3>1, <3>2, FlatRaises
  <2>5. ASSUME NEW w \in Values[k+1], ~raises[k+1][w]
        PROVE  ~raises[(m+1)+1][transformed[k+1][w]]
    <3> DEFINE t == transformed[k+1][w]
    <3>1. t \in Values[(m+1)+1]
      BY <2>2, transformedType
    <3>2. \A part \in Parts(w) : ~raises[k][part]
      BY <2>5, raisesNext
    <3>3. CASE w.class # "dictionary"
      <4>1. w \in Answers(k+1) /\ w # NoValue
        BY <2>2, <3>3, NilIsNoValue DEF Answers
      <4>2. t = transformFlat(w, transformed[k])
        BY <3>3, transformedNext DEF transformValue
      <4>3. t \in Values[m+1] /\ ~raises[m+1][t]
        BY <2>4, <3>2, <3>3, <4>1, <4>2 DEF Parts
      <4> QED
        BY <2>2, <4>3, raisesAnyDepth
    <3>4. CASE w.class = "dictionary"
      <4>1. /\ t = Dictionary(t.value)
            /\ \A name \in Names :
                 /\ name \notin Present(w) => t.value[name] = NoValue
                 /\ name \in Present(w) /\ name \notin AnsweredNames
                      => t.value[name] = transformed[k][w.value[name]]
                 /\ name \in Present(w) /\ name \in AnsweredNames
                      => t.value[name] = transformFlat(valueForKey(w, name), transformed[k])
        BY <3>4, transformedDictionary
      <4>2. Present(w) \cap OperatorNames = {}
        BY <2>5, <3>4, raisesNext
      <4> HIDE DEF t
      <4>3. t.class = "dictionary" /\ Present(t) \subseteq Present(w)
        BY <4>1 DEF Dictionary, Present
      <4>4. ASSUME NEW name \in Present(t)
            PROVE  t.value[name] \in Values[m+1] /\ ~raises[m+1][t.value[name]]
        <5>1. name \in Names /\ t.value[name] # NoValue /\ name \in Present(w)
          BY <4>3 DEF Present
        <5>2. CASE name \notin AnsweredNames
          <6>1. w.value[name] \in Values[k] /\ valueForKey(w, name) = w.value[name]
            BY <2>2, <3>4, <5>1, <5>2, valueForKeyType
          <6>2. w.value[name] \in Parts(w)
            BY <3>4, <5>1, <5>2, <6>1 DEF Parts
          <6>3. t.value[name] = transformed[k][w.value[name]]
            BY <4>1, <5>1, <5>2
          <6>4. t.value[name] \in Values[m] /\ ~raises[m][t.value[name]]
            BY <2>3, <3>2, <6>1, <6>2, <6>3
          <6>5. t.value[name] \in Values[m+1]
            BY <2>2, <6>4, ValuesGrow, m <= m + 1
          <6> QED
            BY <2>2, <6>4, <6>5, raisesAnyDepth, m <= m + 1
        <5>3. CASE name \in AnsweredNames
          <6> DEFINE a == valueForKey(w, name)
          <6>1. a \in Answers(k+1)
            BY <2>2, <3>4, <5>1, <5>3, valueForKeyType
          <6>2. t.value[name] = transformFlat(a, transformed[k])
            BY <4>1, <5>1, <5>3
          <6>3. a # NoValue
            <7>1. transformFlat(NoValue, transformed[k]) = NoValue
              BY DEF transformFlat, NoValue
            <7> QED
              BY <5>1, <6>2, <7>1
          <6>4. Elements(a) \subseteq Parts(w)
            BY <3>4, <5>1, <5>3 DEF Parts
          <6> QED
            BY <2>4, <3>2, <6>1, <6>2, <6>3, <6>4
        <5> QED
          BY <5>2, <5>3
      <4>5. ASSUME NEW name \in Present(t), name \in AnsweredNames,
                   NEW part \in Elements(valueForKey(t, name))
            PROVE  ~raises[m+1][part]
        <5>1. CASE name \in ListingNames
          <6>1. Elements(valueForKey(t, name)) = {t.value[nm] : nm \in Present(t)}
            BY <2>2, <3>1, <4>3, <5>1, AllValuesElements DEF valueForKey
          <6> QED
            BY <4>4, <4>5, <6>1
        <5>2. CASE name \notin ListingNames
          <6>1. Present(t) \in SUBSET Names
            BY DEF Present
          <6>2. valueForKey(t, name) \in Flat \cup {NoValue}
            BY <4>5, <5>2, <6>1, EventAssumption DEF valueForKey
          <6> QED
            BY <2>2, <4>5, <6>2, FlatElements
        <5> QED
          BY <5>1, <5>2
      <4>6. ASSUME NEW name \in Present(t), name \notin AnsweredNames
            PROVE  ~raises[m+1][valueForKey(t, name)]
        <5>1. valueForKey(t, name) = t.value[name]
          BY <4>6, EventAssumption DEF valueForKey
        <5> QED
          BY <4>4, <5>1
      <4>7. \A part \in Parts(t) : ~raises[m+1][part]
        BY <4>3, <4>5, <4>6 DEF Parts
      <4>8. Present(t) \cap OperatorNames = {}
        BY <4>2, <4>3
      <4>9. ~raises[(m+1)+1][t]
        BY <2>2, <3>1, <4>7, <4>8, raisesNext
      <4> QED
        BY <4>9 DEF t
    <3> QED
      BY <3>3, <3>4
  <2>6. Good(k + 1)
    BY <2>2, <2>5
  <2> QED
    BY <2>2, <2>6
<1> HIDE DEF S
<1>3. Nat \subseteq S
  BY <1>1, <1>2, OnValues!NatSet
<1> QED
  BY <1>3 DEF S

-----------------------------------------------------------------------------
(* The default properties.                                                 *)

\* Setting a property that is missing adds its leaf and nothing else.
LEMMA WithType ==
  ASSUME NEW n \in Nat, NEW p \in Values[n+1], p.class = "dictionary",
         NEW name \in Names, NEW s \in Scalars
  PROVE  LET q == With(p, name, Scalar(s))
         IN  /\ q \in Values[n+1]
             /\ q.class = "dictionary"
             /\ Present(q) = Present(p) \cup {name}
             /\ name \in Present(p) => q = p
             /\ leaves[n+1][q] = leaves[n+1][p] \cup
                  IF name \in Present(p) THEN {} ELSE {<<<<name>>, s>>}
<1> DEFINE q == With(p, name, Scalar(s))
<1>n. n + 1 \in Nat /\ (n + 1) - 1 = n
  OBVIOUS
<1>1. CASE name \in Present(p)
  <2>1. q = p
    BY <1>1 DEF With
  <2> QED
    BY <1>1, <2>1
<1>2. CASE name \notin Present(p)
  <2> DEFINE f == [p.value EXCEPT ![name] = Scalar(s)]
  <2>1. p.value \in [Names -> Values[n] \cup {NoValue}]
    BY <1>n, ValueCases
  <2>2. Scalar(s) \in Values[n] /\ Scalar(s) # NoValue
    BY ValueMade DEF Scalar, NoValue
  <2>3. f \in [Names -> Values[n] \cup {NoValue}]
    BY <2>1, <2>2
  <2>4. q = Dictionary(f)
    BY <1>2 DEF With
  <2>5. q \in Values[n+1] /\ q.class = "dictionary" /\ q.value = f
    BY <2>3, <2>4, ValueMade DEF Dictionary
  <2>6. f[name] = Scalar(s) /\ \A nm \in Names \ {name} : f[nm] = p.value[nm]
    BY <2>1
  <2> HIDE DEF f, q
  <2>7. Present(q) = Present(p) \cup {name}
    BY <2>2, <2>5, <2>6 DEF Present
  <2>8. Steps(q) = Present(p) \cup {name} /\ Steps(p) = Present(p)
    BY <2>5, <2>7 DEF Steps
  <2>9. leaves[n+1][q] = UNION {Under(step, leaves[n][f[step]]) : step \in Present(p) \cup {name}}
    <3>1. leaves[n+1][q] = UNION {Under(step, leaves[n][q.value[step]]) : step \in Steps(q)}
      BY <2>5, leavesNext
    <3> QED
      BY <2>5, <2>8, <3>1
  <2>10. leaves[n+1][p] = UNION {Under(step, leaves[n][p.value[step]]) : step \in Present(p)}
    BY <2>8, leavesNext
  <2>11. \A step \in Present(p) : f[step] = p.value[step]
    BY <1>2, <2>6 DEF Present
  <2>12. Under(name, leaves[n][f[name]]) = {<<<<name>>, s>>}
    <3>1. leaves[n][f[name]] = {<<<<>>, s>>}
      BY <2>2, <2>6, leavesScalar DEF Scalar
    <3>2. <<name>> \o <<>> = <<name>>
      OBVIOUS
    <3>3. <<<<>>, s>>[1] = <<>> /\ <<<<>>, s>>[2] = s
      OBVIOUS
    <3> QED
      BY <3>1, <3>2, <3>3 DEF Under
  <2>13. leaves[n+1][q] = (UNION {Under(step, leaves[n][f[step]]) : step \in Present(p)})
                            \cup Under(name, leaves[n][f[name]])
    BY <2>9
  <2>14. UNION {Under(step, leaves[n][f[step]]) : step \in Present(p)} = leaves[n+1][p]
    BY <2>10, <2>11
  <2>15. leaves[n+1][q] = leaves[n+1][p] \cup {<<<<name>>, s>>}
    BY <2>12, <2>13, <2>14
  <2> QED
    BY <1>2, <2>5, <2>7, <2>15 DEF q
<1> QED
  BY <1>1, <1>2

\* addDefaultProperties (TPEvent.m:111) adds at most an id and a timestamp.
LEMMA addDefaultPropertiesType ==
  ASSUME NEW n \in Nat, NEW p \in Values[n+1], p.class = "dictionary",
         NEW uuid \in UUIDs, NEW now \in Dates
  PROVE  LET q   == addDefaultProperties(p, uuid, now)
             new == leaves[n+1][q] \ leaves[n+1][p]
         IN  /\ q \in Values[n+1]
             /\ q.class = "dictionary"
             /\ Present(q) = Present(p) \cup {IdName, TimestampName}
             /\ {IdName, TimestampName} \subseteq Present(p) => q = p
             /\ leaves[n+1][p] \subseteq leaves[n+1][q]
             /\ \A leaf \in new : \E name \in {IdName, TimestampName} \ Present(p) : leaf[1] = <<name>>
             /\ \A leaf \in new : leaf[2] \in Strings \cup Dates
<1> DEFINE r == With(p, IdName, Scalar(uuid))
           q == With(r, TimestampName, Scalar(now))
<1>1. uuid \in Strings /\ uuid \in Scalars /\ now \in Scalars
  BY EventAssumption DEF Scalars
<1>2. IdName \in Names /\ TimestampName \in Names
  BY EventAssumption
<1>3. /\ r \in Values[n+1]
      /\ r.class = "dictionary"
      /\ Present(r) = Present(p) \cup {IdName}
      /\ IdName \in Present(p) => r = p
      /\ leaves[n+1][r] = leaves[n+1][p] \cup
           IF IdName \in Present(p) THEN {} ELSE {<<<<IdName>>, uuid>>}
  BY <1>1, <1>2, WithType
<1> HIDE DEF r
<1>4. /\ q \in Values[n+1]
      /\ q.class = "dictionary"
      /\ Present(q) = Present(r) \cup {TimestampName}
      /\ TimestampName \in Present(r) => q = r
      /\ leaves[n+1][q] = leaves[n+1][r] \cup
           IF TimestampName \in Present(r) THEN {} ELSE {<<<<TimestampName>>, now>>}
  <2>1. r \in Values[n+1] /\ r.class = "dictionary"
    BY <1>3
  <2>2. TimestampName \in Names /\ now \in Scalars
    BY <1>1, <1>2
  <2> QED
    BY <2>1, <2>2, WithType
<1> HIDE DEF q
<1>5. \A leaf \in leaves[n+1][q] \ leaves[n+1][p] :
        \/ IdName \notin Present(p) /\ leaf = <<<<IdName>>, uuid>>
        \/ TimestampName \notin Present(p) /\ leaf = <<<<TimestampName>>, now>>
  BY <1>3, <1>4
<1>6. addDefaultProperties(p, uuid, now) = q
  BY DEF addDefaultProperties, q, r
<1> QED
  BY <1>1, <1>3, <1>4, <1>5, <1>6

-----------------------------------------------------------------------------
(* The invariant.                                                          *)

TypeOK ==
  /\ given \in Inputs
  /\ DOMAIN event = {"collection", "properties"}
  /\ event.collection = given.collection
  /\ event.properties \in Values[2 * MaxDepth]
  /\ event.properties.class = "dictionary"
  /\ outcome \in {"none", "YES", "NO", "exception"}
  /\ outcome = "none" => event = given

\* What processing an event again leaves alone.
Settled ==
  /\ {IdName, TimestampName} \subseteq Present(event.properties)
  /\ validate(event)
  /\ ~raises[2 * MaxDepth][event.properties]
  /\ ScalarsOf(event.properties) \cap Dates = {}

Inv ==
  /\ TypeOK
  /\ outcome = "YES" => Settled
  /\ ReadyForSerialization
  /\ NothingElseChanges

Depth == 2 * MaxDepth

\* The depths there are.
LEMMA DepthType ==
  /\ Depth \in Nat /\ MaxDepth \in Nat /\ MaxDepth <= Depth
  /\ \E n \in Nat : MaxDepth = n + 1
<1>1. MaxDepth \in Nat \ {0}
  BY EventAssumption
<1>2. MaxDepth - 1 \in Nat /\ MaxDepth = (MaxDepth - 1) + 1
  BY <1>1
<1>3. \E n \in Nat : MaxDepth = n + 1
  BY <1>2
<1> QED
  BY <1>1, <1>3 DEF Depth

\* What names are answered with is made of scalars.
LEMMA AnsweredScalarsType == AnsweredScalars \subseteq Scalars
<1>1. ASSUME NEW a \in Flat PROVE ScalarsOf(a) \subseteq Scalars
  <2>1. a \in Values[1]
    BY DEF Flat
  <2>2. 1 <= Depth
    BY DepthType
  <2>3. a \in Values[Depth]
    BY <2>1, <2>2, DepthType, ValuesGrow
  <2>4. leaves[Depth][a] \subseteq Paths \X Scalars
    BY <2>3, DepthType, leavesType
  <2> QED
    BY <2>4 DEF ScalarsOf, Leaves, Depth
<1>2. \A name \in AnsweredNames \ ListingNames, names \in SUBSET Names :
        Answer[name][names] \in Flat \cup {NoValue}
  BY EventAssumption
<1> QED
  BY <1>1, <1>2 DEF AnsweredScalars

\* One run of the last two steps of process:, for properties of any depth it
\* is modelled for.
LEMMA ProcessResult ==
  ASSUME NEW p \in Values[MaxDepth], p.class = "dictionary",
         NEW uuid \in UUIDs, NEW now \in Dates,
         ~raises[MaxDepth][addDefaultProperties(p, uuid, now)]
  PROVE  LET q == addDefaultProperties(p, uuid, now)
             t == transformed[MaxDepth][q]
         IN  /\ t \in Values[Depth]
             /\ t.class = "dictionary"
             /\ {IdName, TimestampName} \subseteq Present(t)
             /\ Present(t) \subseteq Present(p) \cup {IdName, TimestampName}
             /\ ~raises[Depth][t]
             /\ ScalarsOf(t) \subseteq AsTexts(ScalarsOf(p) \cup Strings \cup Dates \cup AnsweredScalars)
             /\ Text(OwnLeaves(p)) \subseteq OwnLeaves(t)
             /\ \A leaf \in OwnLeaves(t) \ Text(OwnLeaves(p)) :
                  \E name \in {IdName, TimestampName} \ Present(p) : leaf[1] = <<name>>
             /\ {IdName, TimestampName} \subseteq Present(p) => OwnLeaves(t) = Text(OwnLeaves(p))
<1> DEFINE q == addDefaultProperties(p, uuid, now)
           t == transformed[MaxDepth][q]
<1>1. PICK n \in Nat : MaxDepth = n + 1
  BY DepthType
<1>2. /\ q \in Values[MaxDepth]
      /\ q.class = "dictionary"
      /\ Present(q) = Present(p) \cup {IdName, TimestampName}
      /\ {IdName, TimestampName} \subseteq Present(p) => q = p
      /\ leaves[MaxDepth][p] \subseteq leaves[MaxDepth][q]
      /\ \A leaf \in leaves[MaxDepth][q] \ leaves[MaxDepth][p] :
           /\ \E name \in {IdName, TimestampName} \ Present(p) : leaf[1] = <<name>>
           /\ leaf[2] \in Strings \cup Dates
  BY <1>1, addDefaultPropertiesType
<1> HIDE DEF q
<1>3. t \in Values[Depth]
  BY <1>2, DepthType, transformedType DEF Depth
<1>4. ~raises[Depth][t]
  BY <1>2, DepthType, transformedRaises DEF Depth, q
<1>5. /\ t = Dictionary(t.value)
      /\ \A name \in Names : name \notin Present(q) => t.value[name] = NoValue
  <2>1. t = transformed[n+1][q] /\ q \in Values[n+1]
    BY <1>1, <1>2
  <2> HIDE DEF t
  <2> QED
    BY <1>2, <2>1, transformedDictionary
<1>6. t.class = "dictionary" /\ Present(t) \subseteq Present(q)
  BY <1>5 DEF Dictionary, Present
<1>7. {IdName, TimestampName} \subseteq Present(t)
  <2>1. Steps(t) \ AnsweredNames = Steps(q) \ AnsweredNames
    BY <1>1, <1>2, transformedSteps
  <2>2. Steps(t) = Present(t) /\ Steps(q) = Present(q)
    BY <1>2, <1>6 DEF Steps
  <2>3. {IdName, TimestampName} \cap AnsweredNames = {}
    BY EventAssumption
  <2> QED
    BY <1>2, <2>1, <2>2, <2>3
<1>8. leaves[Depth][p] = leaves[MaxDepth][p]
  BY DepthType, leavesAnyDepth
<1>9. Own(leaves[Depth][t]) = Text(Own(leaves[MaxDepth][q]))
  BY <1>2, DepthType, transformedLeaves DEF Depth
<1>10. OwnLeaves(t) = Text(Own(leaves[MaxDepth][q])) /\ OwnLeaves(p) = Own(leaves[MaxDepth][p])
  BY <1>8, <1>9 DEF OwnLeaves, Leaves, Depth
<1>11. ScalarsOf(t) \subseteq AsTexts(ScalarsOf(p) \cup Strings \cup Dates \cup AnsweredScalars)
  <2>1. ScalarsAt(Depth, t) \subseteq AsTexts(ScalarsAt(MaxDepth, q) \cup AnsweredScalars)
    BY <1>2, DepthType, transformedScalars DEF Depth
  <2>2. ScalarsAt(MaxDepth, q) \subseteq ScalarsAt(MaxDepth, p) \cup Strings \cup Dates
    BY <1>2 DEF ScalarsAt
  <2>3. ScalarsOf(t) = ScalarsAt(Depth, t) /\ ScalarsOf(p) = ScalarsAt(MaxDepth, p)
    BY <1>8 DEF ScalarsOf, Leaves, ScalarsAt, Depth
  <2> QED
    BY <2>1, <2>2, <2>3, AsTextsGrow
<1>12. Text(OwnLeaves(p)) \subseteq OwnLeaves(t)
  <2>1. Own(leaves[MaxDepth][p]) \subseteq Own(leaves[MaxDepth][q])
    BY <1>2 DEF Own
  <2>2. Text(Own(leaves[MaxDepth][p])) \subseteq Text(Own(leaves[MaxDepth][q]))
    BY <2>1 DEF Text
  <2> QED
    BY <1>10, <2>2
<1>13. ASSUME NEW leaf \in OwnLeaves(t) \ Text(OwnLeaves(p))
       PROVE  \E name \in {IdName, TimestampName} \ Present(p) : leaf[1] = <<name>>
  <2>1. PICK l \in Own(leaves[MaxDepth][q]) : leaf = <<l[1], AsText(l[2])>>
    BY <1>10, <1>13 DEF Text
  <2>2. l \notin Own(leaves[MaxDepth][p])
    BY <1>10, <1>13, <2>1 DEF Text
  <2>3. l \in leaves[MaxDepth][q] \ leaves[MaxDepth][p]
    BY <2>1, <2>2 DEF Own
  <2>4. leaf[1] = l[1]
    BY <2>1
  <2> QED
    BY <1>2, <2>3, <2>4
<1>14. {IdName, TimestampName} \subseteq Present(p) => OwnLeaves(t) = Text(OwnLeaves(p))
  BY <1>2, <1>10
<1> QED
  BY <1>2, <1>3, <1>4, <1>6, <1>7, <1>11, <1>12, <1>13, <1>14 DEF q

\* Without dates there is nothing to turn into text.
LEMMA TextOfText ==
  ASSUME NEW ls, ls \subseteq Paths \X Scalars, \A leaf \in ls : leaf[2] \notin Dates
  PROVE  Text(ls) = ls
<1>1. \A leaf \in ls : <<leaf[1], AsText(leaf[2])>> = leaf
  BY DEF AsText
<1> QED
  BY <1>1 DEF Text

\* A run of process: that gets past validation keeps the types, and settles the
\* event it accepts.
LEMMA TypeStep ==
  ASSUME TypeOK, outcome \in {"none", "YES"}, outcome = "YES" => Settled,
         event.properties \in Values[MaxDepth],
         NEW uuid \in UUIDs, NEW now \in Dates, Process(uuid, now), given' = given
  PROVE  TypeOK' /\ (outcome' = "YES" => Settled')
<1> DEFINE p == event.properties
           q == addDefaultProperties(p, uuid, now)
           t == transformed[MaxDepth][q]
<1>1. p \in Values[MaxDepth] /\ p.class = "dictionary" /\ validate(event)
  BY DEF TypeOK, Process
<1>2. PICK n \in Nat : MaxDepth = n + 1
  BY DepthType
<1>3. /\ q \in Values[MaxDepth]
      /\ q.class = "dictionary"
      /\ Present(q) = Present(p) \cup {IdName, TimestampName}
  BY <1>1, <1>2, addDefaultPropertiesType
<1>4. Values[MaxDepth] \subseteq Values[Depth]
  BY DepthType, ValuesGrow
<1>5. CASE raises[MaxDepth][q]
  <2>1. event' = [event EXCEPT !.properties = q] /\ outcome' = "exception"
    BY <1>5 DEF Process
  <2> HIDE DEF q
  <2>2. DOMAIN event' = DOMAIN event /\ event'.properties = q /\ event'.collection = event.collection
    BY <2>1 DEF TypeOK
  <2> QED
    BY <1>3, <1>4, <2>1, <2>2 DEF TypeOK, Depth
<1>6. CASE ~raises[MaxDepth][q]
  <2>1. event' = [event EXCEPT !.properties = t] /\ outcome' = "YES"
    BY <1>6 DEF Process
  <2>2. /\ t \in Values[Depth]
        /\ t.class = "dictionary"
        /\ {IdName, TimestampName} \subseteq Present(t)
        /\ Present(t) \subseteq Present(p) \cup {IdName, TimestampName}
        /\ ~raises[Depth][t]
        /\ ScalarsOf(t) \subseteq AsTexts(ScalarsOf(p) \cup Strings \cup Dates \cup AnsweredScalars)
    BY <1>1, <1>6, ProcessResult
  <2>3. ScalarsOf(p) \cup Strings \cup Dates \cup AnsweredScalars \subseteq Scalars
    <3>1. p \in Values[Depth]
      BY <1>1, <1>4
    <3>2. leaves[Depth][p] \subseteq Paths \X Scalars
      BY <3>1, DepthType, leavesType
    <3>3. ScalarsOf(p) \subseteq Scalars
      BY <3>2 DEF ScalarsOf, Leaves, Depth
    <3> QED
      BY <3>3, AnsweredScalarsType DEF Scalars
  <2>4. ScalarsOf(t) \cap Dates = {}
    BY <2>2, <2>3, AsTextType DEF AsTexts
  <2> HIDE DEF t
  <2>5. DOMAIN event' = DOMAIN event /\ event'.properties = t /\ event'.collection = event.collection
    BY <2>1 DEF TypeOK
  <2>6. TypeOK'
    BY <2>1, <2>2, <2>5 DEF TypeOK, Depth
  <2>7. validate(event)'
    <3>1. Present(p) \cap ReservedNames = {} /\ event.collection # NoName
      BY <1>1 DEF validate
    <3>2. {IdName, TimestampName} \cap ReservedNames = {}
      BY EventAssumption
    <3> QED
      BY <2>2, <2>5, <3>1, <3>2 DEF validate
  <2> QED
    BY <2>2, <2>4, <2>5, <2>6, <2>7 DEF Settled, Depth
<1> QED
  BY <1>5, <1>6

\* It leaves no scalar that it should have converted.
LEMMA ReadyStep ==
  ASSUME TypeOK, outcome \in {"none", "YES"}, ReadyForSerialization,
         event.properties \in Values[MaxDepth],
         NEW uuid \in UUIDs, NEW now \in Dates, Process(uuid, now), given' = given
  PROVE  ReadyForSerialization'
<1> DEFINE p == event.properties
           q == addDefaultProperties(p, uuid, now)
           t == transformed[MaxDepth][q]
           allowed == Strings \cup Numbers
                        \cup ((ScalarsOf(given.properties) \cup AnsweredScalars) \cap (NotNumbers \cup Others))
<1>1. CASE raises[MaxDepth][q]
  BY <1>1 DEF Process, ReadyForSerialization
<1>2. CASE ~raises[MaxDepth][q]
  <2>1. event'.properties = t
    BY <1>2 DEF Process, TypeOK
  <2>2. ScalarsOf(t) \subseteq AsTexts(ScalarsOf(p) \cup Strings \cup Dates \cup AnsweredScalars)
    BY <1>2, ProcessResult DEF TypeOK
  <2>3. ScalarsOf(p) \subseteq Scalars
    <3>1. leaves[Depth][p] \subseteq Paths \X Scalars
      BY DepthType, leavesType DEF TypeOK, Depth
    <3> QED
      BY <3>1 DEF ScalarsOf, Leaves, Depth
  <2>4. ScalarsOf(p) \subseteq allowed \cup Dates
    <3>1. CASE outcome = "none"
      <4>1. p = given.properties
        BY <3>1 DEF TypeOK
      <4> QED
        BY <2>3, <4>1 DEF Scalars
    <3>2. CASE outcome = "YES"
      BY <3>2 DEF ReadyForSerialization
    <3> QED
      BY <3>1, <3>2
  <2>5. AnsweredScalars \subseteq allowed \cup Dates
    BY AnsweredScalarsType DEF Scalars
  <2>6. \A s \in allowed \cup Dates : AsText(s) \in allowed
    BY EventAssumption DEF AsText
  <2> HIDE DEF allowed, t
  <2>7. Strings \subseteq allowed
    BY DEF allowed
  <2>8. ScalarsOf(t) \subseteq allowed
    BY <2>2, <2>4, <2>5, <2>6, <2>7 DEF AsTexts
  <2> QED
    BY <2>1, <2>8 DEF ReadyForSerialization, allowed
<1> QED
  BY <1>1, <1>2

\* An event that was processed is processed again to the same own leaves.
LEMMA Again ==
  ASSUME TypeOK, outcome = "YES", Settled,
         event.properties \in Values[MaxDepth],
         NEW uuid \in UUIDs, NEW now \in Dates, Process(uuid, now)
  PROVE  outcome' = "YES" /\ OwnLeaves(event'.properties) = OwnLeaves(event.properties)
<1> DEFINE p == event.properties
           q == addDefaultProperties(p, uuid, now)
           t == transformed[MaxDepth][q]
<1>1. PICK n \in Nat : MaxDepth = n + 1
  BY DepthType
<1>2. q = p
  BY <1>1, addDefaultPropertiesType DEF TypeOK, Settled
<1>3. ~raises[MaxDepth][q]
  BY <1>2, DepthType, raisesAnyDepth DEF Settled, Depth
<1>4. outcome' = "YES" /\ event'.properties = t
  BY <1>3 DEF Process, TypeOK
<1>5. OwnLeaves(t) = Text(OwnLeaves(p))
  <2>1. p \in Values[MaxDepth] /\ p.class = "dictionary" /\ {IdName, TimestampName} \subseteq Present(p)
    BY DEF TypeOK, Settled
  <2> HIDE DEF p
  <2> QED
    BY <1>3, <2>1, ProcessResult
<1>6. Text(OwnLeaves(p)) = OwnLeaves(p)
  <2>1. leaves[Depth][p] \subseteq Paths \X Scalars
    BY DepthType, leavesType DEF TypeOK, Depth
  <2>2. OwnLeaves(p) \subseteq Paths \X Scalars
    BY <2>1 DEF OwnLeaves, Own, Leaves, Depth
  <2>3. \A leaf \in OwnLeaves(p) : leaf[2] \notin Dates
    BY DEF OwnLeaves, Own, Settled, ScalarsOf
  <2> QED
    BY <2>2, <2>3, TextOfText
<1> QED
  BY <1>4, <1>5, <1>6

\* It leaves every own leaf of what was given.
LEMMA NothingElseStep ==
  ASSUME TypeOK, outcome \in {"none", "YES"}, outcome = "YES" => Settled, NothingElseChanges,
         event.properties \in Values[MaxDepth],
         NEW uuid \in UUIDs, NEW now \in Dates, Process(uuid, now), given' = given
  PROVE  NothingElseChanges'
<1> DEFINE p == event.properties
           q == addDefaultProperties(p, uuid, now)
           t == transformed[MaxDepth][q]
<1>1. CASE outcome = "YES"
  <2>1. outcome' = "YES" /\ OwnLeaves(event'.properties) = OwnLeaves(event.properties)
    BY <1>1, Again
  <2> QED
    BY <1>1, <2>1 DEF NothingElseChanges
<1>2. CASE outcome = "none" /\ raises[MaxDepth][q]
  BY <1>2 DEF Process, NothingElseChanges
<1>3. CASE outcome = "none" /\ ~raises[MaxDepth][q]
  <2>1. p = given.properties
    BY <1>3 DEF TypeOK
  <2>2. event'.properties = t
    BY <1>3 DEF Process, TypeOK
  <2>3. /\ Text(OwnLeaves(p)) \subseteq OwnLeaves(t)
        /\ \A leaf \in OwnLeaves(t) \ Text(OwnLeaves(p)) :
             \E name \in {IdName, TimestampName} \ Present(p) : leaf[1] = <<name>>
    <3>1. p \in Values[MaxDepth] /\ p.class = "dictionary"
      BY DEF TypeOK
    <3> HIDE DEF p
    <3> QED
      BY <1>3, <3>1, ProcessResult
  <2> HIDE DEF t
  <2> QED
    BY <2>1, <2>2, <2>3 DEF NothingElseChanges
<1> QED
  BY <1>1, <1>2, <1>3

\* An event as created satisfies the invariant.
LEMMA InvInit == Init => Inv
<1> SUFFICES ASSUME Init PROVE Inv
  OBVIOUS
<1>1. Values[MaxDepth] \subseteq Values[2 * MaxDepth]
  BY DepthType, ValuesGrow DEF Depth
<1>2. TypeOK
  BY <1>1, EventAssumption DEF Init, TypeOK
<1> QED
  BY <1>2 DEF Init, Inv, ReadyForSerialization, NothingElseChanges

\* Every step preserves the invariant.
LEMMA InvNext == Inv /\ [Next]_vars => Inv'
<1> SUFFICES ASSUME Inv, [Next]_vars PROVE Inv'
  OBVIOUS
<1>1. CASE Next
  <2>1. outcome \in {"none", "YES"} /\ event.properties \in Values[MaxDepth] /\ given' = given
    BY <1>1 DEF Next, process
  <2>2. CASE Refuse
    BY <2>1, <2>2 DEF Refuse, Inv, TypeOK, Settled, ReadyForSerialization, NothingElseChanges
  <2>3. ASSUME NEW uuid \in UUIDs, NEW now \in Dates, Process(uuid, now) PROVE Inv'
    BY <2>1, <2>3, TypeStep, ReadyStep, NothingElseStep DEF Inv
  <2> QED
    BY <1>1, <2>2, <2>3 DEF Next, process
<1>2. CASE UNCHANGED vars
  BY <1>2 DEF vars, Inv, TypeOK, Settled, validate, ReadyForSerialization, NothingElseChanges
<1> QED
  BY <1>1, <1>2

\* The invariant of TPEvent.
LEMMA Invariance == Spec => []Inv
BY InvInit, InvNext, PTL DEF Spec

\* Every event a run of process: leaves is of the types TPEvent.m gives it.
THEOREM TypeCorrect == Spec => []TypeOK
<1>1. Inv => TypeOK
  BY DEF Inv
<1> QED
  BY <1>1, Invariance, PTL

\* "If -process: has been called these will be ready for serialization"
\* (TPEvent.h:43), for properties of every depth: the scalars of an accepted
\* event are expressible in JSON but for those that transformValue: is written
\* to let through.
THEOREM AcceptedIsReady == Spec => []ReadyForSerialization
<1>1. Inv => ReadyForSerialization
  BY DEF Inv
<1> QED
  BY <1>1, Invariance, PTL

\* For properties of every depth, each scalar the application gave is stored
\* where it was, dates as text, with at most an id and a timestamp added; what
\* valueForKey: (TPEvent.m:142) does to a name that begins with "@" stays
\* under that name.
THEOREM GivenIsStored == Spec => []NothingElseChanges
<1>1. Inv => NothingElseChanges
  BY DEF Inv
<1> QED
  BY <1>1, Invariance, PTL

\* For properties of every depth, processing an accepted event again neither
\* fails nor changes its id, its time or anything else under a plain name.
THEOREM AcceptedOnce == Spec => ProcessedOnce
<1>1. ASSUME Inv, [Next]_vars
      PROVE  [outcome = "YES" =>
                /\ outcome' = "YES"
                /\ OwnLeaves(event'.properties) = OwnLeaves(event.properties)]_vars
  <2>1. CASE Next /\ outcome = "YES"
    <3>1. event.properties \in Values[MaxDepth] /\ TypeOK /\ Settled
      BY <1>1, <2>1 DEF Next, Inv
    <3>2. ~Refuse
      BY <3>1 DEF Refuse, Settled
    <3>3. PICK uuid \in UUIDs, now \in Dates : Process(uuid, now)
      BY <2>1, <3>2 DEF Next, process
    <3>4. outcome' = "YES" /\ OwnLeaves(event'.properties) = OwnLeaves(event.properties)
      BY <2>1, <3>1, <3>3, Again
    <3> QED
      BY <3>4
  <2>2. CASE outcome # "YES"
    BY <2>2
  <2>3. CASE UNCHANGED vars
    BY <2>3
  <2> QED
    BY <1>1, <2>1, <2>2, <2>3
<1> QED
  BY <1>1, Invariance, PTL DEF Spec, ProcessedOnce
===============================================================================
