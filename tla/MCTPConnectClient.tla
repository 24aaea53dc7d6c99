-------------------------- MODULE MCTPConnectClient --------------------------
(* Instances of TPConnectClient for TLC. *)
EXTENDS TPConnectClient

PushSymmetry == Permutations(Pushes)

\* No id is the application's: nothing tells apart pushes, ids or collections.
Symmetry ==
  Permutations(Pushes) \cup Permutations(Ids) \cup Permutations(Collections)

OnlyPending == [p \in Pushes |-> {"pending"}]

OnlyDirect == [p \in Pushes |-> {"event"}]

\* One push of each kind at a time, or two of the pending events.
Mixed ==
  LET one == CHOOSE p \in Pushes : TRUE
  IN  [p \in Pushes |-> {"pending", IF p = one THEN "event" ELSE "batch"}]
=============================================================================
