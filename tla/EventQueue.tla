----------------------------- MODULE EventQueue -----------------------------
(***************************************************************************)
(* What the Connect client promises for the events handed to addEvent:     *)
(* an item that was queued and not discarded by the application is either  *)
(* still on the device or recorded by Connect.  Nothing is said here of    *)
(* batches, replies, retries or crashes: TPConnectClient implements this.  *)
(***************************************************************************)
CONSTANT Items

VARIABLES
  owed,      \* items the application queued and did not discard since
  pending,   \* items held in the on-disk queue
  recorded   \* items Connect has recorded

vars == <<owed, pending, recorded>>

Init ==
  /\ owed = {}
  /\ pending = {}
  /\ recorded = {}

\* The application queues an item; one with the same identity is replaced.
Enqueue(i) ==
  /\ owed' = owed \cup {i}
  /\ pending' = pending \cup {i}
  /\ UNCHANGED recorded

\* The application withdraws some items from the queue.
Discard(S) ==
  /\ owed' = owed \ S
  /\ pending' = pending \ S
  /\ UNCHANGED recorded

\* Connect records some items.
Record(S) ==
  /\ recorded' = recorded \cup S
  /\ UNCHANGED <<owed, pending>>

\* The client takes an item off the queue by itself: only a recorded one.
Settle(i) ==
  /\ i \in recorded
  /\ pending' = pending \ {i}
  /\ UNCHANGED <<owed, recorded>>

Next ==
  \/ \E i \in Items : Enqueue(i) \/ Settle(i)
  \/ \E S \in SUBSET Items : Discard(S) \/ Record(S)

Spec == Init /\ [][Next]_vars

\* The promise: no item is lost between the application and Connect.
NothingLost == owed \subseteq pending \cup recorded

\* An item the application withdrew does not come back by itself.
NothingRevived == pending \subseteq owed
=============================================================================
