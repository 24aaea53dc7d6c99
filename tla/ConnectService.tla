--------------------------- MODULE ConnectService ---------------------------
(***************************************************************************)
(* The Connect service as the client relies on it.  It is not part of the  *)
(* repository: what is here is what TPConnectClient.m and TPConnectAPI.m   *)
(* read from its replies.  Events are identified by collection and id; the *)
(* first acceptable one with a given identity is recorded, a later one is  *)
(* answered "duplicate", and some events are answered with neither.  The   *)
(* client never sends two events with one identity in one batch.           *)
(***************************************************************************)
EXTENDS TPConnectAPI

CONSTANT Rejected   \* payloads the service does not accept

ASSUME ServiceAssumption == Rejected \subseteq Payloads

Acceptable(event) == event.properties \notin Rejected /\ event.id \in Ids

\* The verdict on an event sent to c.
Verdict(table, c, event) ==
  [success   |-> Acceptable(event) /\ <<c, event.id>> \notin Pending(table),
   duplicate |-> Acceptable(event) /\ <<c, event.id>> \in Pending(table)]

\* One array per collection, one answer per event, in the order sent.
Answer(table, batch) ==
  [c \in Collections |->
     [i \in 1..Len(batch[c]) |-> Verdict(table, c, batch[c][i])]]

\* The payloads of the acceptable events that a batch has for key k.
Offered(batch, k) ==
  {batch[k[1]][i].properties : i \in {i \in 1..Len(batch[k[1]]) :
     batch[k[1]][i].id = k[2] /\ Acceptable(batch[k[1]][i])}}

Record(table, batch) ==
  [k \in Keys |-> IF k \in Pending(table) \/ Offered(batch, k) = {}
                    THEN table[k]
                    ELSE CHOOSE v \in Offered(batch, k) : TRUE]

\* The endpoint for one event answers with a status alone: 200 when it was
\* recorded, a listed error code (409, 422) when it was a duplicate or was
\* rejected.
SingleStatus(table, batch) ==
  IF \A s \in Sent(batch) : Verdict(table, s[1], s[2]).success
    THEN "ok" ELSE "described"
=============================================================================
