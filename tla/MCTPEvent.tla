------------------------------ MODULE MCTPEvent ------------------------------
(* Instances of TPEvent for TLC: trees of depth two below the top. *)
EXTENDS TPEvent

CONSTANTS s1, iso1, uuid1, uuid2, n1, nan1, class1, d1, d2,
          id, timestamp, plain, tp, at, answered, listing, c1

MCStrings == {s1, iso1, uuid1, uuid2}

\* The dates differ in less than a second.
MCISO8601 == [d \in {d1, d2} |-> iso1]

\* Like "@class" for some dictionaries, like "@allKeys" for the others.
MCAnswer ==
  [name \in {answered} |-> [names \in SUBSET Names |->
     IF id \in names THEN Array(<<Scalar(s1), Scalar(n1)>>)
     ELSE IF plain \in names THEN NoValue ELSE Scalar(class1)]]

OtherNames == Names \ {id, timestamp}

\* A dictionary from a function on the names it has.
Of(f) == Dictionary([name \in Names |-> IF name \in DOMAIN f THEN f[name] ELSE NoValue])

\* Dictionaries of at most two names, arrays of at most two values.
Dictionaries(values) ==
  {Of(f) : f \in UNION {[S -> values] : S \in {S \in SUBSET OtherNames : Cardinality(S) <= 2}}}
Arrays(values) == {Array(s) : s \in UNION {[1..n -> values] : n \in 0..2}}

MCScalars == {Scalar(s) : s \in {s1, d1, n1, nan1}}
Nested    == MCScalars \cup Arrays(MCScalars) \cup Dictionaries(MCScalars)
Deep      == Nested \cup {Array(<<v>>) : v \in Nested}

\* An id is a string; a timestamp is a date or a string.
MCInputs ==
  {[collection |-> c, properties |-> Of(i @@ t @@ f)] :
     c \in {c1, NoName},
     i \in {<<>>, id :> Scalar(s1)},
     t \in {<<>>, timestamp :> Scalar(d2), timestamp :> Scalar(s1)},
     f \in {<<>>} \cup {(name :> v) : name \in OtherNames, v \in Deep}}
=============================================================================
