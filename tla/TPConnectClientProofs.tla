------------------------ MODULE TPConnectClientProofs ------------------------
(***************************************************************************)
(* Theorems about TPConnectClient, for any collections, ids, payloads and  *)
(* number of concurrent pushes.                                            *)
(***************************************************************************)
EXTENDS TPConnectClient, TPConnectAPIProofs

USE DEF Keys

-----------------------------------------------------------------------------
(* What the operators of the component modules return. *)

LEMMA SingleType ==
  ASSUME NEW c \in Collections, NEW e \in Event
  PROVE  Single(c, e) \in Batch
<1>1. <<e>> \in Seq(Event)
  OBVIOUS
<1>2. NoBatch \in [Collections -> Seq(Event)]
  BY DEF NoBatch
<1> QED BY <1>1, <1>2 DEF Single, Batch

\* A request for one event carries this event.
LEMMA SingleSent ==
  ASSUME NEW c \in Collections, NEW e \in Event
  PROVE  Sent(Single(c, e)) = {<<c, e>>}
<1>1. /\ Single(c, e)[c] = <<e>>
      /\ \A d \in Collections : d # c => Single(c, e)[d] = <<>>
  BY DEF Single, NoBatch
<1>2. DOMAIN <<e>> = {1} /\ <<e>>[1] = e /\ DOMAIN <<>> = {}
  OBVIOUS
<1>3. \A s \in Sent(Single(c, e)) : s = <<c, e>>
  BY <1>1, <1>2 DEF Sent
<1>4. <<c, e>> \in Sent(Single(c, e))
  BY <1>1, <1>2 DEF Sent
<1> QED BY <1>3, <1>4

LEMMA NoBatchType == NoBatch \in Batch /\ NoBatch \in Body /\ NoBatch \in Results
BY DEF NoBatch, Batch, Body, Results

\* The events of a batch.
LEMMA EventType ==
  ASSUME NEW batch \in Batch, NEW c \in Collections
  PROVE  /\ batch[c] \in Seq(Event)
         /\ Len(batch[c]) \in Nat
         /\ \A i \in 1..Len(batch[c]) :
              /\ batch[c][i] \in Event
              /\ batch[c][i].id \in Ids \cup {NoId}
              /\ batch[c][i].properties \in Payloads
<1>1. batch[c] \in Seq(Event)
  BY DEF Batch
<1>2. \A i \in 1..Len(batch[c]) : batch[c][i] \in Event
  BY <1>1
<1> QED BY <1>1, <1>2 DEF Event

LEMMA OfferedType ==
  ASSUME NEW batch \in Batch, NEW k \in Keys
  PROVE  Offered(batch, k) \subseteq Payloads
<1>1. k[1] \in Collections
  OBVIOUS
<1> QED BY <1>1, EventType DEF Offered

\* Recording a batch keeps what was recorded.
LEMMA RecordGrows ==
  ASSUME NEW table \in Table, NEW batch \in Batch
  PROVE  /\ Record(table, batch) \in Table
         /\ Pending(table) \subseteq Pending(Record(table, batch))
<1>1. ASSUME NEW k \in Keys PROVE Record(table, batch)[k] \in Payloads \cup {NoPayload}
  BY OfferedType DEF Record, Table
<1>2. Record(table, batch) \in Table
  BY <1>1 DEF Record, Table
<1>3. \A k \in Pending(table) : Record(table, batch)[k] = table[k]
  BY DEF Record, Pending
<1> QED BY <1>2, <1>3 DEF Pending

\* An answer has one element per event, and what it settles is recorded.
LEMMA AnswerTrue ==
  ASSUME NEW table \in Table, NEW batch \in Batch
  PROVE  /\ Answer(table, batch) \in Body
         /\ \A c \in Collections :
              /\ Len(Answer(table, batch)[c]) = Len(batch[c])
              /\ \A i \in 1..Len(batch[c]) :
                   Settled(Answer(table, batch)[c][i])
                     => <<c, batch[c][i].id>> \in Pending(Record(table, batch))
<1>1. \A c \in Collections, e \in Event : Verdict(table, c, e) \in EventJSON
  BY DEF Verdict, EventJSON
<1>2. ASSUME NEW c \in Collections
      PROVE  /\ Answer(table, batch)[c] \in Seq(EventJSON)
             /\ Len(Answer(table, batch)[c]) = Len(batch[c])
             /\ \A i \in 1..Len(batch[c]) :
                  Answer(table, batch)[c][i] = Verdict(table, c, batch[c][i])
  BY <1>1, EventType DEF Answer
<1>3. ASSUME NEW c \in Collections, NEW i \in 1..Len(batch[c]),
             Settled(Answer(table, batch)[c][i])
      PROVE  <<c, batch[c][i].id>> \in Pending(Record(table, batch))
  <2> DEFINE k == <<c, batch[c][i].id>>
  <2>1. Settled(Verdict(table, c, batch[c][i]))
    BY <1>2, <1>3
  <2>2. Acceptable(batch[c][i])
    BY <2>1 DEF Verdict, Settled
  <2>3. k \in Keys
    BY <2>2 DEF Acceptable
  <2>4. CASE k \in Pending(table)
    BY <2>4, RecordGrows
  <2>5. CASE k \notin Pending(table)
    <3>1. batch[c][i].properties \in Offered(batch, k)
      BY <2>2 DEF Offered
    <3>2. Record(table, batch)[k] \in Payloads
      BY <2>3, <2>5, <3>1, OfferedType DEF Record
    <3> QED BY <2>3, <3>2, StoreAssumption DEF Pending
  <2> QED BY <2>4, <2>5
<1>4. Answer(table, batch) \in Body
  BY <1>2 DEF Answer, Body
<1> QED BY <1>2, <1>3, <1>4

\* Results pair each answer with the event at its position.
LEMMA ResultsPair ==
  ASSUME NEW body \in Body, NEW batch \in Batch,
         \A c \in Collections : Len(body[c]) <= Len(batch[c])
  PROVE  /\ processBatchResponse(body, batch) \in Results
         /\ \A c \in Collections :
              LET results == processBatchResponse(body, batch)[c]
              IN  /\ Len(results) = Len(body[c])
                  /\ \A i \in 1..Len(body[c]) :
                       /\ results[i].event = batch[c][i]
                       /\ Settled(results[i]) <=> Settled(body[c][i])
<1> DEFINE R == processBatchResponse(body, batch)
<1>1. ASSUME NEW c \in Collections
      PROVE  /\ body[c] \in Seq(EventJSON)
             /\ Len(body[c]) \in Nat
             /\ \A i \in 1..Len(body[c]) :
                  /\ body[c][i] \in EventJSON
                  /\ batch[c][i] \in Event
  BY EventType DEF Body
<1>2. ASSUME NEW c \in Collections, NEW i \in 1..Len(body[c])
      PROVE  eventAPIResponseFromJSON(body[c][i], batch[c][i]) \in EventAPIResponse
  BY <1>1 DEF eventAPIResponseFromJSON, EventAPIResponse, EventJSON
<1>3. ASSUME NEW c \in Collections
      PROVE  /\ R[c] \in Seq(EventAPIResponse)
             /\ Len(R[c]) = Len(body[c])
             /\ \A i \in 1..Len(body[c]) :
                  R[c][i] = eventAPIResponseFromJSON(body[c][i], batch[c][i])
  <2>1. R[c] = [i \in 1..Len(body[c]) |->
                  eventAPIResponseFromJSON(body[c][i], batch[c][i])]
    BY DEF processBatchResponse
  <2> HIDE DEF R
  <2>2. R[c] \in [1..Len(body[c]) -> EventAPIResponse]
    BY <1>2, <2>1
  <2>3. Len(body[c]) \in Nat
    BY <1>1
  <2>4. R[c] \in Seq(EventAPIResponse) /\ Len(R[c]) = Len(body[c])
    BY <2>2, <2>3
  <2> QED BY <2>1, <2>4
<1>4. R \in Results
  BY <1>3 DEF processBatchResponse, Results
<1> HIDE DEF R
<1>5. ASSUME NEW c \in Collections, NEW i \in 1..Len(body[c])
      PROVE  /\ R[c][i].event = batch[c][i]
             /\ Settled(R[c][i]) <=> Settled(body[c][i])
  <2>1. R[c][i] = [event     |-> batch[c][i],
                   success   |-> body[c][i].success,
                   duplicate |-> body[c][i].duplicate]
    BY <1>3 DEF eventAPIResponseFromJSON
  <2>2. /\ R[c][i].event = batch[c][i]
        /\ R[c][i].success = body[c][i].success
        /\ R[c][i].duplicate = body[c][i].duplicate
    BY <2>1
  <2> QED BY <2>2 DEF Settled
<1> QED BY <1>3, <1>4, <1>5 DEF R

-----------------------------------------------------------------------------
(***************************************************************************)
(* The inductive invariant.  Kept alone is not inductive: that a removal   *)
(* is justified rests on what the results in hand say, these on the reply  *)
(* they were made from, and the reply on the batch that was sent being the *)
(* batch that the push remembers.                                          *)
(***************************************************************************)

\* A request somebody waits for carries the batch of the push that waits, and
\* has not been answered.
RequestsMatch ==
  \A r \in requests :
    r.owner # NoPush =>
      /\ calls[r.owner].phase = "sent"
      /\ calls[r.owner].reply = NoReply
      /\ calls[r.owner].batch = r.batch

\* All that a push was told to be settled is recorded in the table.
Honest(push, table) ==
  /\ \A c \in Collections :
       /\ Len(push.reply.body[c]) <= Len(push.batch[c])
       /\ \A i \in 1..Len(push.reply.body[c]) :
            Settled(push.reply.body[c][i])
              => <<c, push.batch[c][i].id>> \in Pending(table)
  /\ \A c \in Collections : \A i \in 1..Len(push.results[c]) :
       Settled(push.results[c][i])
         => <<c, push.results[c][i].event.id>> \in Pending(table)
  /\ \A i \in 1..Len(push.work) :
       Settled(push.work[i][2])
         => <<push.work[i][1], push.work[i][2].event.id>> \in Pending(table)

CallsOK ==
  /\ calls \in [Pushes -> Push]
  /\ requests \subseteq Request
  /\ RequestsMatch
  /\ \A p \in Pushes : Honest(calls[p], connect)

QueueOK ==
  /\ store \in Table
  /\ used \subseteq Ids
  /\ connect \in Table
  /\ queued \in Table
  /\ Kept

IInv == CallsOK /\ QueueOK

LEMMA ToldType == Success \in Told /\ Failure \in Told
BY DEF Success, Failure, Told

\* A push with nothing answered is honest.
LEMMA IdleHonest ==
  ASSUME NEW kind \in {"event", "batch", "pending", "none"}, NEW told \in Seq(Told),
         NEW table
  PROVE  Idle(kind, told) \in Push /\ Honest(Idle(kind, told), table)
<1>1. NoReply \in Reply
  BY NoBatchType DEF NoReply, Reply
<1>2. Idle(kind, told) \in Push
  BY <1>1, NoBatchType DEF Idle, Push
<1>3. Honest(Idle(kind, told), table)
  BY DEF Honest, Idle, NoReply, NoBatch
<1> QED BY <1>2, <1>3

LEMMA InFlightHonest ==
  ASSUME NEW kind \in {"event", "batch", "pending"}, NEW told \in Seq(Told),
         NEW batch \in Batch, NEW table
  PROVE  /\ InFlight(kind, batch, told) \in Push
         /\ Honest(InFlight(kind, batch, told), table)
         /\ InFlight(kind, batch, told).phase = "sent"
         /\ InFlight(kind, batch, told).reply = NoReply
         /\ InFlight(kind, batch, told).batch = batch
<1>1. Idle(kind, told) \in Push /\ Honest(Idle(kind, told), table)
  BY IdleHonest
<1>2. InFlight(kind, batch, told) \in Push
  BY <1>1 DEF InFlight, Push
<1>3. \A c \in Collections : Len(batch[c]) \in Nat
  BY EventType
<1>4. Honest(InFlight(kind, batch, told), table)
  BY <1>3 DEF Honest, InFlight, Idle, NoReply, NoBatch
<1> QED BY <1>2, <1>4 DEF InFlight, Idle

\* What is recorded only grows, so honesty lasts.
LEMMA HonestLasts ==
  ASSUME NEW push, NEW table1, NEW table2,
         Pending(table1) \subseteq Pending(table2), Honest(push, table1)
  PROVE  Honest(push, table2)
BY DEF Honest

-----------------------------------------------------------------------------
(* How the pieces the actions are made of keep CallsOK. *)

\* One push moves on, the requests stay.
LEMMA MoveKeeps ==
  ASSUME CallsOK, NEW p \in Pushes, NEW push \in Push,
         Honest(push, connect), calls' = [calls EXCEPT ![p] = push],
         \A r \in requests : r.owner # p, UNCHANGED <<requests, connect>>
  PROVE  CallsOK'
<1>1. calls' \in [Pushes -> Push]
  BY DEF CallsOK
<1>2. \A q \in Pushes : calls'[q] = IF q = p THEN push ELSE calls[q]
  BY DEF CallsOK
<1>3. RequestsMatch'
  BY <1>2 DEF RequestsMatch, CallsOK, Request
<1> QED BY <1>1, <1>2, <1>3 DEF CallsOK

\* A push that is not waiting for an answer owns no request.
LEMMA OwnsNothing ==
  ASSUME CallsOK, NEW p \in Pushes,
         calls[p].phase # "sent" \/ calls[p].reply.status # "none"
  PROVE  \A r \in requests : r.owner # p
BY ClientAssumption DEF CallsOK, RequestsMatch, NoReply

LEMMA OrphanedType ==
  ASSUME CallsOK, NEW P \in SUBSET Pushes
  PROVE  /\ Orphaned(P) \subseteq Request
         /\ \A r \in Orphaned(P) : r.owner \notin P
         /\ \A r \in Orphaned(P) : r.owner # NoPush => r \in requests
BY ClientAssumption DEF CallsOK, Orphaned, Request

LEMMA DeathKeeps ==
  ASSUME CallsOK, Dies, UNCHANGED connect
  PROVE  CallsOK'
<1>1. <<>> \in Seq(Told)
  OBVIOUS
<1>2. \A p \in Pushes : calls'[p] = Idle("none", <<>>)
  BY DEF Dies, AllIdle
<1>3. calls' \in [Pushes -> Push]
  BY <1>1, IdleHonest DEF Dies, AllIdle
<1>4. requests' \subseteq Request /\ \A r \in requests' : r.owner = NoPush
  BY OrphanedType DEF Dies, Request
<1>5. RequestsMatch'
  BY <1>4 DEF RequestsMatch
<1> QED BY <1>1, <1>2, <1>3, <1>4, <1>5, IdleHonest DEF CallsOK

LEMMA SendKeeps ==
  ASSUME CallsOK, NEW p \in Pushes, NEW kind \in {"event", "batch", "pending"},
         NEW batch \in Batch, NEW told \in Seq(Told),
         calls[p].phase = "idle", Send(p, kind, batch, told), UNCHANGED connect
  PROVE  CallsOK'
<1>0. \A r \in requests : r.owner # p
  BY OwnsNothing
<1>1. CASE /\ calls' = [calls EXCEPT ![p] = InFlight(kind, batch, told)]
           /\ requests' = requests \cup {[owner |-> p, batch |-> batch]}
  <2> DEFINE push == InFlight(kind, batch, told)
  <2>1. /\ push \in Push /\ Honest(push, connect) /\ push.phase = "sent"
        /\ push.reply = NoReply /\ push.batch = batch
    BY InFlightHonest
  <2> HIDE DEF push
  <2>2. calls' \in [Pushes -> Push]
    BY <1>1, <2>1 DEF CallsOK, push
  <2>3. \A q \in Pushes : calls'[q] = IF q = p THEN push ELSE calls[q]
    BY <1>1 DEF CallsOK, push
  <2>4. requests' \subseteq Request
    BY <1>1 DEF CallsOK, Request
  <2>5. ASSUME NEW r \in requests', r.owner # NoPush
        PROVE  /\ calls'[r.owner].phase = "sent"
               /\ calls'[r.owner].reply = NoReply
               /\ calls'[r.owner].batch = r.batch
    <3>1. CASE r = [owner |-> p, batch |-> batch]
      BY <2>1, <2>3, <3>1
    <3>2. CASE r \in requests
      <4>1. r.owner \in Pushes
        BY <2>5, <3>2 DEF CallsOK, Request
      <4> QED BY <1>0, <2>3, <2>5, <3>2, <4>1 DEF CallsOK, RequestsMatch
    <3> QED BY <1>1, <3>1, <3>2
  <2> QED BY <2>1, <2>2, <2>3, <2>4, <2>5 DEF CallsOK, RequestsMatch
<1>2. CASE /\ calls' = [calls EXCEPT ![p] = Idle(kind, Append(told, Failure))]
           /\ UNCHANGED requests
  <2>1. Append(told, Failure) \in Seq(Told)
    BY ToldType
  <2> QED BY <1>0, <1>2, <2>1, IdleHonest, MoveKeeps
<1>3. CASE Dies
  BY <1>3, DeathKeeps
<1> QED BY <1>1, <1>2, <1>3 DEF Send

\* The end of a push that owns no request any more.
LEMMA TellKeeps ==
  ASSUME CallsOK, NEW p \in Pushes, NEW told \in Told, Tell(p, told),
         \A r \in requests : r.owner # p, UNCHANGED <<requests, connect>>
  PROVE  CallsOK'
<1>1. /\ calls[p].kind \in {"event", "batch", "pending", "none"}
      /\ Append(calls[p].told, told) \in Seq(Told)
  BY DEF CallsOK, Push
<1> QED BY <1>1, IdleHonest, MoveKeeps DEF Tell

-----------------------------------------------------------------------------
(* Actions. *)

\* The application's actions touch the queue or start a push.
LEMMA AddEventKeeps ==
  ASSUME IInv, NEW c \in Collections, NEW v \in Payloads, AddEvent(c, v)
  PROVE  IInv'
<1>1. CallsOK'
  BY DEF IInv, CallsOK, AddEvent, RequestsMatch
<1>2. PICK i \in Ids :
        /\ DrawId(i)
        /\ store' = [store EXCEPT ![<<c, i>>] = v]
        /\ queued' = [queued EXCEPT ![<<c, i>>] = v]
  BY DEF AddEvent, addEvent
<1>3. /\ store \in Table /\ queued \in Table /\ used \subseteq Ids
      /\ connect \in Table /\ connect' = connect
      /\ \A k \in Keys : queued[k] # NoPayload =>
           store[k] # NoPayload \/ connect[k] # NoPayload
  BY DEF IInv, QueueOK, Kept, Pending, AddEvent
<1>4. store' \in Table /\ queued' \in Table /\ used' \subseteq Ids
  BY <1>2, <1>3 DEF Table, DrawId
<1>5. ASSUME NEW k \in Keys, queued'[k] # NoPayload
      PROVE  store'[k] # NoPayload \/ connect'[k] # NoPayload
  BY <1>2, <1>3, <1>5, StoreAssumption DEF Table
<1>6. Kept'
  BY <1>5 DEF Kept, Pending
<1> QED BY <1>1, <1>3, <1>4, <1>6 DEF IInv, QueueOK

LEMMA RemoveKeeps ==
  ASSUME IInv,
         \/ \E c \in Collections, i \in Ids : RemovePendingEvent(c, i)
         \/ RemoveAllPendingEvents
  PROVE  IInv'
<1>1. CallsOK'
  BY DEF IInv, CallsOK, RemovePendingEvent, RemoveAllPendingEvents, RequestsMatch
<1>2. /\ store \in Table /\ queued \in Table /\ used' = used
      /\ connect \in Table /\ connect' = connect
      /\ \A k \in Keys : queued[k] # NoPayload =>
           store[k] # NoPayload \/ connect[k] # NoPayload
  BY DEF IInv, QueueOK, Kept, Pending, RemovePendingEvent, RemoveAllPendingEvents
<1>3. CASE \E c \in Collections, i \in Ids : RemovePendingEvent(c, i)
  <2>1. PICK c \in Collections, i \in Ids :
          /\ store' = [store EXCEPT ![<<c, i>>] = NoPayload]
          /\ queued' = [queued EXCEPT ![<<c, i>>] = NoPayload]
    BY <1>3 DEF RemovePendingEvent, removeEventWithId
  <2>2. store' \in Table /\ queued' \in Table
    BY <1>2, <2>1 DEF Table
  <2>3. \A k \in Keys : queued'[k] # NoPayload =>
           store'[k] # NoPayload \/ connect'[k] # NoPayload
    BY <1>2, <2>1 DEF Table
  <2> QED BY <1>1, <1>2, <2>2, <2>3 DEF IInv, QueueOK, Kept, Pending
<1>4. CASE RemoveAllPendingEvents
  <2>1. store' = EmptyTable /\ queued' = EmptyTable
    BY <1>4 DEF RemoveAllPendingEvents, deleteAllPendingEvents, EmptyTable
  <2> QED BY <1>1, <1>2, <2>1 DEF IInv, QueueOK, Kept, Pending, Table, EmptyTable
<1> QED BY <1>3, <1>4

LEMMA PushKeeps ==
  ASSUME IInv, NEW p \in Pushes, NEW c \in Collections, NEW v \in Payloads,
         PushEvent(p, c, v) \/ PushInvalidEvent(p, c, v)
  PROVE  IInv'
<1>1. QueueOK'
  BY DEF IInv, QueueOK, Kept, PushEvent, PushInvalidEvent, DrawId
<1>2. \A i \in Ids \cup {NoId} : Single(c, [id |-> i, properties |-> v]) \in Batch
  BY SingleType DEF Event
<1>3. <<>> \in Seq(Told) /\ <<Failure>> \in Seq(Told)
  BY ToldType
<1>4. CASE PushEvent(p, c, v)
  BY <1>1, <1>2, <1>3, <1>4, SendKeeps DEF PushEvent, Free, IInv
<1>5. CASE PushInvalidEvent(p, c, v)
  BY <1>1, <1>2, <1>3, <1>5, SendKeeps, ClientAssumption
     DEF PushInvalidEvent, Free, IInv
<1> QED BY <1>4, <1>5

LEMMA PushBatchKeeps ==
  ASSUME IInv, NEW p \in Pushes, NEW table \in Table, PushEventBatch(p, table)
  PROVE  IInv'
<1>1. QueueOK'
  <2>1. \A k \in Pending(table) : k[2] \in Ids
    BY DEF Pending
  <2>2. used' \subseteq Ids
    BY <2>1 DEF PushEventBatch, IInv, QueueOK
  <2> QED BY <2>2 DEF PushEventBatch, IInv, QueueOK, Kept
<1>2. <<>> \in Seq(Told) /\ <<Failure>> \in Seq(Told)
  BY ToldType
<1>3. PICK batch \in Batch :
        \/ /\ calls' = [calls EXCEPT ![p] = Idle("batch", <<Failure>>)]
           /\ UNCHANGED requests
        \/ Send(p, "batch", batch, <<>>)
  BY FetchType DEF PushEventBatch
<1>4. \A r \in requests : r.owner # p
  BY OwnsNothing DEF PushEventBatch, Free, IInv
<1>5. CallsOK'
  BY <1>2, <1>3, <1>4, SendKeeps, MoveKeeps, IdleHonest
     DEF PushEventBatch, Free, IInv
<1> QED BY <1>1, <1>5 DEF IInv

LEMMA PushPendingKeeps ==
  ASSUME IInv, NEW p \in Pushes, PushAllPendingEvents(p)
  PROVE  IInv'
<1>1. QueueOK'
  BY DEF IInv, QueueOK, Kept, PushAllPendingEvents
<1>2. PICK batch \in Batch : Send(p, "pending", batch, <<>>)
  BY FetchType DEF PushAllPendingEvents, IInv, QueueOK
<1>3. <<>> \in Seq(Told)
  OBVIOUS
<1> QED BY <1>1, <1>2, <1>3, SendKeeps DEF PushAllPendingEvents, Free, IInv

\* A reply that is honest about its request keeps the push honest.
LEMMA DeliverKeeps ==
  ASSUME IInv, NEW r \in requests, NEW reply \in Reply, Deliver(r, reply),
         connect' \in Table, Pending(connect) \subseteq Pending(connect'),
         \A c \in Collections :
           /\ Len(reply.body[c]) <= Len(r.batch[c])
           /\ \A i \in 1..Len(reply.body[c]) :
                Settled(reply.body[c][i])
                  => <<c, r.batch[c][i].id>> \in Pending(connect'),
         UNCHANGED <<store, used, queued>>
  PROVE  IInv'
<1>1. QueueOK'
  BY DEF IInv, QueueOK, Kept
<1>2. \A p \in Pushes : calls[p] \in Push /\ Honest(calls[p], connect')
  BY HonestLasts DEF IInv, CallsOK
<1>3. requests' \subseteq Request
  BY DEF Deliver, IInv, CallsOK
<1>4. CASE r.owner = NoPush
  BY <1>1, <1>2, <1>3, <1>4 DEF IInv, CallsOK, RequestsMatch, Deliver
<1>5. CASE r.owner # NoPush
  <2> DEFINE p == r.owner
             push == [calls[p] EXCEPT !.reply = reply]
  <2>1. p \in Pushes /\ calls[p].batch = r.batch
    BY <1>5 DEF IInv, CallsOK, RequestsMatch, Request
  <2>2. push \in Push
    BY <1>2, <2>1 DEF Push
  <2>3. Honest(push, connect')
    BY <1>2, <2>1 DEF Honest, Push
  <2>4. /\ calls' \in [Pushes -> Push]
        /\ \A q \in Pushes : calls'[q] = IF q = p THEN push ELSE calls[q]
    BY <1>5, <2>1, <2>2 DEF Deliver, IInv, CallsOK
  <2>5. ASSUME NEW other \in requests', other.owner # NoPush
        PROVE  other.owner # p
    <3>1. other \in requests /\ other # r
      BY DEF Deliver
    <3>2. other.owner = p => other.batch = r.batch
      BY <2>1, <2>5, <3>1 DEF IInv, CallsOK, RequestsMatch
    <3>3. other = [owner |-> other.owner, batch |-> other.batch]
          /\ r = [owner |-> r.owner, batch |-> r.batch]
      BY <3>1 DEF IInv, CallsOK, Request
    <3> QED BY <3>1, <3>2, <3>3
  <2>6. RequestsMatch'
    <3> SUFFICES ASSUME NEW other \in requests', other.owner # NoPush
                 PROVE  /\ calls'[other.owner].phase = "sent"
                        /\ calls'[other.owner].reply = NoReply
                        /\ calls'[other.owner].batch = other.batch
      BY DEF RequestsMatch
    <3>1. other.owner \in Pushes /\ calls'[other.owner] = calls[other.owner]
      BY <1>3, <2>4, <2>5 DEF Request
    <3>2. other \in requests
      BY DEF Deliver
    <3> QED BY <3>1, <3>2 DEF IInv, CallsOK, RequestsMatch
  <2>7. \A q \in Pushes : Honest(calls'[q], connect')
    BY <1>2, <2>3, <2>4
  <2> QED BY <1>1, <1>3, <2>4, <2>6, <2>7 DEF IInv, CallsOK
<1> QED BY <1>4, <1>5

LEMMA ServiceKeeps ==
  ASSUME IInv, NEW r \in requests, ServiceAnswers(r) \/ ServiceFails(r)
  PROVE  IInv'
<1>1. r.batch \in Batch /\ connect \in Table
  BY DEF IInv, CallsOK, QueueOK, Request
<1>2. connect' \in Table /\ Pending(connect) \subseteq Pending(connect')
  BY <1>1, RecordGrows DEF ServiceAnswers, ServiceFails
<1>3. UNCHANGED <<store, used, queued>>
  BY DEF ServiceAnswers, ServiceFails
<1>4. \A c \in Collections : Len(r.batch[c]) \in Nat
  BY <1>1, EventType
<1>5. ASSUME NEW status \in TPHTTPStatusCode, Deliver(r, [NoReply EXCEPT !.status = status])
      PROVE  IInv'
  <2> DEFINE reply == [NoReply EXCEPT !.status = status]
  <2>1. reply \in Reply /\ reply.body = NoBatch
    BY NoBatchType DEF NoReply, Reply
  <2>2. \A c \in Collections : Len(reply.body[c]) = 0
    BY <2>1 DEF NoBatch
  <2> HIDE DEF reply
  <2>3. Deliver(r, reply)
    BY <1>5 DEF reply
  <2> QED BY <1>2, <1>3, <1>4, <2>1, <2>2, <2>3, DeliverKeeps
<1>6. ASSUME Deliver(r, [status |-> "ok", body |-> Answer(connect, r.batch)]),
             connect' = Record(connect, r.batch)
      PROVE  IInv'
  <2> DEFINE reply == [status |-> "ok", body |-> Answer(connect, r.batch)]
  <2>1. reply \in Reply
    BY <1>1, AnswerTrue DEF Reply, TPHTTPStatusCode
  <2>2. \A c \in Collections :
          /\ Len(reply.body[c]) <= Len(r.batch[c])
          /\ \A i \in 1..Len(reply.body[c]) :
               Settled(reply.body[c][i])
                 => <<c, r.batch[c][i].id>> \in Pending(connect')
    BY <1>1, <1>4, <1>6, AnswerTrue
  <2> HIDE DEF reply
  <2>3. Deliver(r, reply)
    BY <1>6 DEF reply
  <2> QED BY <1>2, <1>3, <2>1, <2>2, <2>3, DeliverKeeps
<1>7. SingleStatus(connect, r.batch) \in TPHTTPStatusCode
  BY DEF SingleStatus, TPHTTPStatusCode
<1>8. CASE ServiceAnswers(r)
  BY <1>5, <1>6, <1>7, <1>8 DEF ServiceAnswers
<1>9. CASE ServiceFails(r)
  BY <1>5, <1>9, ClientAssumption DEF ServiceFails
<1> QED BY <1>8, <1>9

LEMMA RequestLostKeeps ==
  ASSUME IInv, NEW r \in requests, RequestLost(r)
  PROVE  IInv'
BY DEF IInv, CallsOK, QueueOK, Kept, RequestsMatch, RequestLost

\* Completion blocks.
LEMMA NetworkFailureKeeps ==
  ASSUME IInv, NEW p \in Pushes, NetworkFailure(p)
  PROVE  IInv'
<1> DEFINE push == Idle(calls[p].kind, Append(calls[p].told, Failure))
<1>1. QueueOK'
  BY DEF IInv, QueueOK, Kept, NetworkFailure
<1>2. /\ calls[p].kind \in {"event", "batch", "pending", "none"}
      /\ Append(calls[p].told, Failure) \in Seq(Told)
  BY ToldType DEF IInv, CallsOK, Push
<1>3. push \in Push /\ Honest(push, connect')
  BY <1>2, IdleHonest
<1> HIDE DEF push
<1>4. /\ calls' \in [Pushes -> Push]
      /\ \A q \in Pushes : calls'[q] = IF q = p THEN push ELSE calls[q]
  BY <1>3 DEF NetworkFailure, Tell, IInv, CallsOK, push
<1>5. /\ requests' \subseteq Request
      /\ \A r \in requests' : r.owner # p
      /\ \A r \in requests' : r.owner # NoPush => r \in requests
  BY OrphanedType DEF NetworkFailure, IInv
<1>6. RequestsMatch'
  BY <1>4, <1>5 DEF RequestsMatch, IInv, CallsOK, Request
<1>7. \A q \in Pushes : Honest(calls'[q], connect')
  BY <1>3, <1>4 DEF NetworkFailure, IInv, CallsOK
<1> QED BY <1>1, <1>4, <1>5, <1>6, <1>7 DEF IInv, CallsOK

LEMMA CompleteKeeps ==
  ASSUME IInv, NEW p \in Pushes, CompleteEvent(p) \/ CompleteBatch(p)
  PROVE  IInv'
<1>1. QueueOK'
  BY DEF IInv, QueueOK, Kept, CompleteEvent, CompleteBatch
<1>2. \A r \in requests : r.owner # p
  BY OwnsNothing DEF CompleteEvent, CompleteBatch, IInv
<1>3. \A status : pushEventTold(status) \in Told /\ pushEventBatchTold(status) \in Told
  BY ToldType DEF pushEventTold, pushEventBatchTold, Told
<1>4. CASE CompleteEvent(p)
  BY <1>1, <1>2, <1>3, <1>4, TellKeeps, DeathKeeps DEF CompleteEvent, IInv
<1>5. CASE CompleteBatch(p)
  BY <1>1, <1>2, <1>3, <1>5, TellKeeps DEF CompleteBatch, IInv
<1> QED BY <1>4, <1>5

LEMMA CompletePendingKeeps ==
  ASSUME IInv, NEW p \in Pushes, CompletePending(p)
  PROVE  IInv'
<1> DEFINE call == calls[p]
           results == processBatchResponse(call.reply.body, call.batch)
           base == InFlight("pending", call.batch, call.told)
           push == [base EXCEPT !.phase = "looping", !.results = results]
<1>1. QueueOK'
  BY DEF IInv, QueueOK, Kept, CompletePending
<1>2. \A r \in requests : r.owner # p
  BY OwnsNothing DEF CompletePending, IInv
<1>3. /\ call \in Push /\ Honest(call, connect)
      /\ call.batch \in Batch /\ call.told \in Seq(Told) /\ call.reply.body \in Body
  BY DEF IInv, CallsOK, Push, Reply
<1>4. base \in Push /\ Honest(base, connect)
  BY <1>3, InFlightHonest
<1>5. /\ results \in Results
      /\ \A c \in Collections :
           /\ Len(results[c]) = Len(call.reply.body[c])
           /\ \A i \in 1..Len(call.reply.body[c]) :
                /\ results[c][i].event = call.batch[c][i]
                /\ Settled(results[c][i]) => Settled(call.reply.body[c][i])
  <2>1. \A c \in Collections : Len(call.reply.body[c]) <= Len(call.batch[c])
    BY <1>3 DEF Honest
  <2> HIDE DEF call
  <2> QED BY <1>3, <2>1, ResultsPair
<1> HIDE DEF results, base
<1>6. push \in Push
  BY <1>4, <1>5 DEF Push
<1>7. \A c \in Collections : \A i \in 1..Len(results[c]) :
        Settled(results[c][i]) => <<c, results[c][i].event.id>> \in Pending(connect)
  <2> SUFFICES ASSUME NEW c \in Collections, NEW i \in 1..Len(results[c]), Settled(results[c][i])
               PROVE  <<c, results[c][i].event.id>> \in Pending(connect)
    OBVIOUS
  <2>1. /\ i \in 1..Len(call.reply.body[c])
        /\ results[c][i].event = call.batch[c][i] /\ Settled(call.reply.body[c][i])
    BY <1>5
  <2> QED BY <1>3, <2>1 DEF Honest
<1>8. Honest(push, connect)
  BY <1>4, <1>7 DEF Honest, Push
<1>9. calls' = [calls EXCEPT ![p] = push] /\ UNCHANGED <<requests, connect>>
  BY DEF CompletePending, results, base
<1> HIDE DEF push
<1> QED BY <1>1, <1>2, <1>6, <1>8, <1>9, MoveKeeps DEF IInv

\* The loops.
LEMMA NextCollectionKeeps ==
  ASSUME IInv, NEW p \in Pushes, NextCollection(p)
  PROVE  IInv'
<1>1. QueueOK'
  BY DEF IInv, QueueOK, Kept, NextCollection
<1>2. \A r \in requests : r.owner # p
  BY OwnsNothing DEF NextCollection, Looping, IInv
<1>3. PICK c \in Collections :
        calls' = [calls EXCEPT ![p] =
          [calls[p] EXCEPT
             !.work    = [i \in 1..Len(calls[p].results[c]) |->
                            <<c, calls[p].results[c][i]>>],
             !.results = [calls[p].results EXCEPT ![c] = <<>>]]]
  BY DEF NextCollection
<1> DEFINE call == calls[p]
           work == [i \in 1..Len(call.results[c]) |-> <<c, call.results[c][i]>>]
           left == [call.results EXCEPT ![c] = <<>>]
           push == [call EXCEPT !.work = work, !.results = left]
<1>4. call \in Push /\ Honest(call, connect)
  BY DEF IInv, CallsOK
<1>5. /\ call.results[c] \in Seq(EventAPIResponse)
      /\ Len(call.results[c]) \in Nat
  BY <1>4 DEF Push, Results
<1>6. /\ work \in Seq(Collections \X EventAPIResponse)
      /\ Len(work) = Len(call.results[c])
      /\ \A i \in 1..Len(work) : work[i][1] = c /\ work[i][2] = call.results[c][i]
  BY <1>5
<1>7. /\ left \in Results
      /\ \A d \in Collections :
           left[d] = IF d = c THEN <<>> ELSE call.results[d]
  BY <1>4 DEF Push, Results
<1>8. \A d \in Collections : \A i \in 1..Len(left[d]) :
        d # c /\ left[d] = call.results[d]
  BY <1>7
<1>9. calls' = [calls EXCEPT ![p] = push] /\ UNCHANGED <<requests, connect>>
  BY <1>3 DEF NextCollection
<1> HIDE DEF work, left
<1>10. push \in Push
  BY <1>4, <1>6, <1>7 DEF Push
<1>11. Honest(push, connect)
  <2>1. /\ push.work = work /\ push.results = left
        /\ push.reply = call.reply /\ push.batch = call.batch
    BY <1>4 DEF Push
  <2> HIDE DEF push, call
  <2>2. \A d \in Collections : \A i \in 1..Len(push.results[d]) :
          Settled(push.results[d][i])
            => <<d, push.results[d][i].event.id>> \in Pending(connect)
    BY <1>4, <1>8, <2>1 DEF Honest
  <2>3. ASSUME NEW i \in 1..Len(push.work), Settled(push.work[i][2])
        PROVE  <<push.work[i][1], push.work[i][2].event.id>> \in Pending(connect)
    <3>1. i \in 1..Len(call.results[c])
      BY <1>6, <2>1
    <3>2. push.work[i][1] = c /\ push.work[i][2] = call.results[c][i]
      BY <1>6, <2>1
    <3> QED BY <1>4, <2>3, <3>1, <3>2 DEF Honest
  <2> QED BY <1>4, <2>1, <2>2, <2>3 DEF Honest
<1> HIDE DEF push
<1> QED BY <1>1, <1>2, <1>9, <1>10, <1>11, MoveKeeps DEF IInv

LEMMA HandleResponseKeeps ==
  ASSUME IInv, NEW p \in Pushes, HandleResponse(p)
  PROVE  IInv'
<1> DEFINE work == calls[p].work
           c == Head(work)[1]
           response == Head(work)[2]
           push == [calls[p] EXCEPT !.work = Tail(work)]
<1>1. calls[p] \in Push /\ Honest(calls[p], connect)
  BY DEF IInv, CallsOK
<1>2. /\ work \in Seq(Collections \X EventAPIResponse)
      /\ work # <<>> /\ Len(work) \in Nat \ {0}
  BY <1>1 DEF HandleResponse, Push
<1>3. Settled(response) => <<c, response.event.id>> \in Pending(connect)
  BY <1>1, <1>2 DEF Honest
<1>4. /\ Tail(work) \in Seq(Collections \X EventAPIResponse)
      /\ Len(Tail(work)) = Len(work) - 1
      /\ \A i \in 1..Len(Tail(work)) : Tail(work)[i] = work[i + 1]
  BY <1>2
<1>5. push \in Push
  BY <1>1, <1>4 DEF Push
<1>6. Honest(push, connect)
  <2>1. /\ push.work = Tail(work) /\ push.results = calls[p].results
        /\ push.reply = calls[p].reply /\ push.batch = calls[p].batch
    BY <1>1 DEF Push
  <2>2. ASSUME NEW i \in 1..Len(Tail(work)), Settled(Tail(work)[i][2])
        PROVE  <<Tail(work)[i][1], Tail(work)[i][2].event.id>> \in Pending(connect)
    <3>1. i + 1 \in 1..Len(work) /\ Tail(work)[i] = work[i + 1]
      BY <1>2, <1>4
    <3> QED BY <1>1, <2>2, <3>1 DEF Honest
  <2> HIDE DEF push
  <2> QED BY <1>1, <2>1, <2>2 DEF Honest
<1>7. \A r \in requests : r.owner # p
  BY OwnsNothing DEF HandleResponse, Looping, IInv
<1>8. CallsOK'
  BY <1>5, <1>6, <1>7, MoveKeeps DEF HandleResponse, IInv
<1>9. QueueOK'
  <2>1. /\ store \in Table /\ queued' = queued /\ connect' = connect /\ used' = used
        /\ \A k \in Keys : queued[k] # NoPayload =>
             store[k] # NoPayload \/ connect[k] # NoPayload
    BY DEF IInv, QueueOK, Kept, Pending, HandleResponse
  <2>2. store' = IF Settled(response)
                   THEN [store EXCEPT ![<<c, response.event.id>>] = NoPayload]
                   ELSE store
    BY DEF HandleResponse, removeEventWithId
  <2>3. store' \in Table
    BY <2>1, <2>2 DEF Table
  <2>4. \A k \in Keys : store'[k] = store[k] \/ k \in Pending(connect)
    BY <1>3, <2>1, <2>2 DEF Table
  <2>5. Kept'
    BY <2>1, <2>4 DEF Kept, Pending
  <2> QED BY <2>1, <2>3, <2>5 DEF IInv, QueueOK
<1> QED BY <1>8, <1>9 DEF IInv

LEMMA FinishPushKeeps ==
  ASSUME IInv, NEW p \in Pushes, FinishPush(p)
  PROVE  IInv'
<1>1. QueueOK'
  BY DEF IInv, QueueOK, Kept, FinishPush
<1>2. \A r \in requests : r.owner # p
  BY OwnsNothing DEF FinishPush, Looping, IInv
<1> QED BY <1>1, <1>2, TellKeeps, ToldType DEF FinishPush, IInv

LEMMA CrashKeeps ==
  ASSUME IInv, Crash
  PROVE  IInv'
<1>1. QueueOK'
  BY DEF IInv, QueueOK, Kept, Crash
<1> QED BY <1>1, DeathKeeps DEF Crash, IInv

-----------------------------------------------------------------------------
LEMMA Initially == Init => IInv
<1> SUFFICES ASSUME Init PROVE IInv
  OBVIOUS
<1>1. <<>> \in Seq(Told)
  OBVIOUS
<1>2. CallsOK
  BY <1>1, IdleHonest DEF Init, AllIdle, CallsOK, RequestsMatch
<1>3. QueueOK
  BY DEF Init, QueueOK, Kept, Pending, EmptyTable, Table
<1> QED BY <1>2, <1>3 DEF IInv

LEMMA Inductive == IInv /\ [Next]_vars => IInv'
<1> SUFFICES ASSUME IInv, [Next]_vars PROVE IInv'
  OBVIOUS
<1>1. CASE Application
  BY <1>1, AddEventKeeps, RemoveKeeps, PushKeeps, PushBatchKeeps, PushPendingKeeps
     DEF Application
<1>2. CASE Network
  BY <1>2, ServiceKeeps, RequestLostKeeps DEF Network
<1>3. CASE \E p \in Pushes : Ends(p)
  BY <1>3, NetworkFailureKeeps, CompleteKeeps, CompletePendingKeeps DEF Ends
<1>4. CASE \E p \in Pushes : Loops(p)
  BY <1>4, NextCollectionKeeps, HandleResponseKeeps, FinishPushKeeps DEF Loops
<1>5. CASE Crash
  BY <1>5, CrashKeeps
<1>6. CASE UNCHANGED vars
  BY <1>6 DEF vars, IInv, CallsOK, QueueOK, Kept, RequestsMatch
<1> QED BY <1>1, <1>2, <1>3, <1>4, <1>5, <1>6 DEF Next

LEMMA Invariance == Spec => []IInv
BY Initially, Inductive, PTL DEF Spec

\* Every state of the client is of the types stated, whatever the interleaving
\* of the application's calls, the service, the completion blocks and crashes.
THEOREM TypeCorrect == Spec => []TypeOK
<1>1. IInv => TypeOK
  BY DEF IInv, CallsOK, QueueOK, TypeOK
<1> QED BY <1>1, Invariance, PTL

\* No event that addEvent took is lost: until the application removes it, it
\* is in the queue on disk or Connect has recorded one with its identity.
THEOREM NothingLost == Spec => []Kept
<1>1. IInv => Kept
  BY DEF IInv, QueueOK
<1> QED BY <1>1, Invariance, PTL

-----------------------------------------------------------------------------
(* The client implements the abstract queue of keys. *)

\* Writing and erasing a row, seen as sets of keys.
LEMMA WriteRow ==
  ASSUME NEW table \in Table, NEW k \in Keys, NEW v \in Payloads
  PROVE  /\ Pending([table EXCEPT ![k] = v]) = Pending(table) \cup {k}
         /\ Pending([table EXCEPT ![k] = NoPayload]) = Pending(table) \ {k}
BY StoreAssumption DEF Table, Pending

LEMMA AddEventMaps ==
  ASSUME IInv, NEW c \in Collections, NEW v \in Payloads, AddEvent(c, v)
  PROVE  \E k \in Keys : ByKey!Enqueue(k)
<1>1. PICK i \in Ids :
        /\ store' = addEvent(store, [id |-> i, properties |-> v], c)
        /\ queued' = [queued EXCEPT ![<<c, i>>] = v]
  BY DEF AddEvent
<1>2. store' = [store EXCEPT ![<<c, i>>] = v] /\ <<c, i>> \in Keys
  BY <1>1 DEF addEvent
<1>3. store \in Table /\ queued \in Table
  BY DEF IInv, QueueOK
<1>4. /\ Pending([store EXCEPT ![<<c, i>>] = v]) = Pending(store) \cup {<<c, i>>}
      /\ Pending([queued EXCEPT ![<<c, i>>] = v]) = Pending(queued) \cup {<<c, i>>}
  BY <1>2, <1>3, WriteRow
<1>5. UNCHANGED connect
  BY DEF AddEvent
<1>6. ByKey!Enqueue(<<c, i>>)
  BY <1>1, <1>2, <1>4, <1>5 DEF ByKey!Enqueue, Pending
<1> QED BY <1>2, <1>6

LEMMA RemoveMaps ==
  ASSUME IInv,
         \/ \E c \in Collections, i \in Ids : RemovePendingEvent(c, i)
         \/ RemoveAllPendingEvents
  PROVE  \E S \in SUBSET Keys : ByKey!Discard(S)
<1>1. store \in Table /\ queued \in Table
  BY DEF IInv, QueueOK
<1>2. ASSUME NEW c \in Collections, NEW i \in Ids, RemovePendingEvent(c, i)
      PROVE  ByKey!Discard({<<c, i>>})
  <2>1. /\ store' = [store EXCEPT ![<<c, i>>] = NoPayload]
        /\ queued' = [queued EXCEPT ![<<c, i>>] = NoPayload]
        /\ UNCHANGED connect
    BY <1>2 DEF RemovePendingEvent, removeEventWithId
  <2>2. /\ Pending(store') = Pending(store) \ {<<c, i>>}
        /\ Pending(queued') = Pending(queued) \ {<<c, i>>}
    <3>1. \E v \in Payloads : TRUE
      BY <1>1, <1>2 DEF RemovePendingEvent, Pending, Table
    <3> QED BY <1>1, <2>1, <3>1, WriteRow
  <2> QED BY <2>1, <2>2 DEF ByKey!Discard, Pending
<1>3. ASSUME RemoveAllPendingEvents PROVE ByKey!Discard(Keys)
  <2>1. Pending(store') = {} /\ Pending(queued') = {} /\ UNCHANGED connect
    BY <1>3 DEF RemoveAllPendingEvents, deleteAllPendingEvents, EmptyTable, Pending
  <2> QED BY <2>1 DEF ByKey!Discard, Pending
<1>4. ASSUME NEW c \in Collections, NEW i \in Ids, RemovePendingEvent(c, i)
      PROVE  \E S \in SUBSET Keys : ByKey!Discard(S)
  <2>1. {<<c, i>>} \in SUBSET Keys
    OBVIOUS
  <2> WITNESS {<<c, i>>} \in SUBSET Keys
  <2> QED BY <1>2, <1>4
<1>5. ASSUME RemoveAllPendingEvents PROVE \E S \in SUBSET Keys : ByKey!Discard(S)
  <2>1. Keys \in SUBSET Keys
    OBVIOUS
  <2> WITNESS Keys \in SUBSET Keys
  <2> QED BY <1>3, <1>5
<1> QED BY <1>4, <1>5

LEMMA ServiceMaps ==
  ASSUME IInv, NEW r \in requests, ServiceAnswers(r) \/ ServiceFails(r)
  PROVE  \E S \in SUBSET Keys : ByKey!Record(S)
<1>1. connect \in Table /\ r.batch \in Batch
  BY DEF IInv, CallsOK, QueueOK, Request
<1>2. Pending(connect) \subseteq Pending(connect')
  BY <1>1, RecordGrows DEF ServiceAnswers, ServiceFails
<1>3. UNCHANGED <<store, queued>>
  BY DEF ServiceAnswers, ServiceFails
<1>4. ByKey!Record(Pending(connect'))
  BY <1>2, <1>3 DEF ByKey!Record, Pending
<1>5. Pending(connect') \in SUBSET Keys
  BY DEF Pending
<1> WITNESS Pending(connect') \in SUBSET Keys
<1> QED BY <1>4

LEMMA HandleResponseMaps ==
  ASSUME IInv, NEW p \in Pushes, HandleResponse(p)
  PROVE  UNCHANGED ByKey!vars \/ \E k \in Keys : ByKey!Settle(k)
<1> DEFINE work == calls[p].work
           c == Head(work)[1]
           response == Head(work)[2]
           k == <<c, response.event.id>>
<1>1. /\ UNCHANGED <<connect, queued>>
      /\ store' = IF Settled(response) THEN [store EXCEPT ![k] = NoPayload] ELSE store
  BY DEF HandleResponse, removeEventWithId
<1>2. /\ work \in Seq(Collections \X EventAPIResponse)
      /\ work # <<>> /\ Len(work) \in Nat \ {0}
  BY DEF HandleResponse, IInv, CallsOK, Push
<1>3. Settled(response) => k \in Pending(connect)
  BY <1>2 DEF IInv, CallsOK, Honest
<1> HIDE DEF k, response
<1>4. CASE Settled(response)
  <2>1. k \in Pending(connect) /\ k \in Keys /\ connect \in Table /\ store \in Table
    BY <1>3, <1>4 DEF Pending, IInv, QueueOK
  <2>2. \E v \in Payloads : TRUE
    BY <2>1 DEF Pending, Table
  <2>3. Pending(store') = Pending(store) \ {k}
    BY <1>1, <1>4, <2>1, <2>2, WriteRow
  <2> QED BY <1>1, <2>1, <2>3 DEF ByKey!Settle, Pending
<1>5. CASE ~Settled(response)
  BY <1>1, <1>5 DEF ByKey!vars, Pending
<1> QED BY <1>4, <1>5

\* Every step of the client is a step of the abstract queue or leaves it alone.
LEMMA StepMaps == IInv /\ [Next]_vars => [ByKey!Next]_(ByKey!vars)
<1> SUFFICES ASSUME IInv, [Next]_vars PROVE ByKey!Next \/ UNCHANGED ByKey!vars
  OBVIOUS
<1>1. UNCHANGED <<store, connect, queued>> => UNCHANGED ByKey!vars
  BY DEF ByKey!vars, Pending
<1>2. CASE Application
  <2>1. ASSUME NEW c \in Collections, NEW v \in Payloads, AddEvent(c, v) PROVE ByKey!Next
    BY <2>1, AddEventMaps DEF ByKey!Next
  <2>2. ASSUME \/ \E c \in Collections, i \in Ids : RemovePendingEvent(c, i)
               \/ RemoveAllPendingEvents
        PROVE  ByKey!Next
    BY <2>2, RemoveMaps DEF ByKey!Next
  <2>3. ASSUME \/ \E p \in Pushes, c \in Collections, v \in Payloads :
                    PushEvent(p, c, v) \/ PushInvalidEvent(p, c, v)
               \/ \E p \in Pushes, table \in Table : PushEventBatch(p, table)
               \/ \E p \in Pushes : PushAllPendingEvents(p)
        PROVE  UNCHANGED <<store, connect, queued>>
    BY <2>3 DEF PushEvent, PushInvalidEvent, PushEventBatch, PushAllPendingEvents
  <2> QED BY <1>1, <1>2, <2>1, <2>2, <2>3 DEF Application
<1>3. CASE Network
  <2>1. ASSUME NEW r \in requests, RequestLost(r) PROVE UNCHANGED <<store, connect, queued>>
    BY <2>1 DEF RequestLost
  <2>2. ASSUME NEW r \in requests, ServiceAnswers(r) \/ ServiceFails(r) PROVE ByKey!Next
    BY <2>2, ServiceMaps DEF ByKey!Next
  <2> QED BY <1>1, <1>3, <2>1, <2>2 DEF Network
<1>4. ASSUME NEW p \in Pushes, Ends(p) PROVE UNCHANGED <<store, connect, queued>>
  BY <1>4 DEF Ends, NetworkFailure, CompleteEvent, CompleteBatch, CompletePending
<1>5. ASSUME NEW p \in Pushes, Loops(p) PROVE ByKey!Next \/ UNCHANGED ByKey!vars
  <2>1. CASE HandleResponse(p)
    BY <2>1, HandleResponseMaps DEF ByKey!Next
  <2>2. CASE NextCollection(p) \/ FinishPush(p)
    BY <1>1, <2>2 DEF NextCollection, FinishPush
  <2> QED BY <1>5, <2>1, <2>2 DEF Loops
<1>6. Crash \/ UNCHANGED vars => UNCHANGED <<store, connect, queued>>
  BY DEF Crash, vars
<1> QED BY <1>1, <1>2, <1>3, <1>4, <1>5, <1>6 DEF Next

\* TPConnectClient, with all its pushes, replies and crashes, is an event queue
\* of identities: an item leaves the device only when Connect has recorded it
\* or the application withdraws it, and none comes back.
THEOREM ClientImplementsQueue == Spec => ImplementsKeyQueue
<1>1. Init => ByKey!Init
  BY DEF Init, ByKey!Init, EmptyTable, Pending
<1> QED BY <1>1, StepMaps, Invariance, PTL DEF Spec, ImplementsKeyQueue, ByKey!Spec

-----------------------------------------------------------------------------
(* What the completion handlers of pushes are told, for any number of      *)
(* concurrent pushes.                                                      *)

-----------------------------------------------------------------------------
(* The steps of one push, apart from dying.  The record of a push is what  *)
(* the block of its task has captured: its kind, its batch, its handler.   *)

Method == {"event", "batch", "pending"}

\* Only pushEvent calls its handler before the task is started.
Starts(p) ==
  /\ calls[p].phase = "idle"
  /\ \E kind \in Method, batch \in Batch, told \in {<<>>, <<Failure>>} :
       /\ kind # "event" => told = <<>>
       /\ calls'[p] \in {InFlight(kind, batch, told), Idle(kind, Append(told, Failure))}

\* All events of the batch are recorded.
AllRecorded(batch, table) == \A s \in Sent(batch) : <<s[1], s[2].id>> \in Pending(table)

Answered(p) ==
  \E reply \in Reply :
    /\ calls[p].phase = "sent"
    /\ calls'[p] = [calls[p] EXCEPT !.reply = reply]
    /\ calls[p].kind = "event" /\ reply.status = "ok"
         => AllRecorded(calls[p].batch, connect')

\* The replies after which pushEvent gives its handler neither YES nor an error.
Unexplained(p) ==
  CompleteEvent(p) /\ calls[p].reply.status \notin {"ok", "unauthorised", "garbled"}

\* The task's completion block calls the handler and is done.
Completes(p) ==
  \E told \in Told :
    /\ calls[p].phase = "sent"
    /\ calls'[p] = Idle(calls[p].kind, Append(calls[p].told, told))
    /\ calls[p].kind = "event" /\ told = Success => calls[p].reply.status = "ok"
    /\ told \in {Success, Failure} \/ Unexplained(p)

\* The block of a push of the pending events: in the loops.
Loop(p) ==
  /\ calls[p].kind = "pending" /\ calls[p].phase # "idle"
  /\ calls'[p] \in Push
  /\ calls'[p].phase = "looping" /\ calls'[p].kind = "pending"
  /\ calls'[p].told = calls[p].told

Finishes(p) ==
  /\ calls[p].phase = "looping"
  /\ calls'[p] = Idle(calls[p].kind, Append(calls[p].told, Success))

Moves(p) ==
  \/ calls'[p] = calls[p]
  \/ calls'[p] = Idle("none", <<>>)
  \/ Starts(p) \/ Answered(p) \/ Completes(p) \/ Loop(p) \/ Finishes(p)

(***************************************************************************)
(* The inductive invariant: the handler of a batch has been called once    *)
(* when the push is over and not before, what it was told is a success or  *)
(* an explained failure, and a pushEvent that was answered 200 has been    *)
(* recorded.  What is idle and was never pushed in this process has no     *)
(* handler to call.                                                        *)
(***************************************************************************)
HandlerOK(push, table) ==
  /\ push.kind # "event" =>
       /\ IF push.phase = "idle" /\ push.kind # "none" THEN Len(push.told) = 1
                                                     ELSE push.told = <<>>
       /\ \A i \in 1 .. Len(push.told) : push.told[i] \in {Success, Failure}
  /\ push.kind = "none" => push.phase = "idle"
  /\ push.phase = "looping" => push.kind = "pending"
  /\ push.phase = "sent" => \A i \in 1 .. Len(push.told) : push.told[i] # Success
  /\ push.phase = "sent" /\ push.kind = "event" /\ push.reply.status = "ok"
       => AllRecorded(push.batch, table)

HandlersOK == \A p \in Pushes : HandlerOK(calls[p], connect)

-----------------------------------------------------------------------------
(* Every step of the client is one of these for each push. *)

LEMMA DeathMoves ==
  ASSUME Dies, NEW p \in Pushes
  PROVE  Moves(p)
BY DEF Dies, AllIdle, Moves

\* A step that replaces the record of one push.
LEMMA OneMoves ==
  ASSUME IInv, NEW p \in Pushes, NEW push, calls' = [calls EXCEPT ![p] = push]
  PROVE  /\ calls'[p] = push
         /\ \A q \in Pushes : q # p => calls'[q] = calls[q]
BY DEF IInv, CallsOK

LEMMA SendMoves ==
  ASSUME IInv, NEW p \in Pushes, NEW kind \in Method, NEW batch \in Batch,
         NEW told \in {<<>>, <<Failure>>}, kind # "event" => told = <<>>,
         calls[p].phase = "idle", Send(p, kind, batch, told)
  PROVE  \A q \in Pushes : Moves(q)
<1>1. CASE Dies
  BY <1>1, DeathMoves
<1>2. CASE calls' = [calls EXCEPT ![p] = InFlight(kind, batch, told)]
  BY <1>2, OneMoves DEF Moves, Starts
<1>3. CASE calls' = [calls EXCEPT ![p] = Idle(kind, Append(told, Failure))]
  BY <1>3, OneMoves DEF Moves, Starts
<1> QED BY <1>1, <1>2, <1>3 DEF Send

LEMMA StartMoves ==
  ASSUME IInv, NEW p \in Pushes,
         \/ \E c \in Collections, v \in Payloads : PushEvent(p, c, v) \/ PushInvalidEvent(p, c, v)
         \/ \E table \in Table : PushEventBatch(p, table)
         \/ PushAllPendingEvents(p)
  PROVE  \A q \in Pushes : Moves(q)
<1>1. ASSUME NEW c \in Collections, NEW v \in Payloads, PushEvent(p, c, v) \/ PushInvalidEvent(p, c, v)
      PROVE  \A q \in Pushes : Moves(q)
  <2>1. \A i \in Ids \cup {NoId} : Single(c, [id |-> i, properties |-> v]) \in Batch
    BY SingleType DEF Event
  <2>2. PICK i \in Ids \cup {NoId}, told \in {<<>>, <<Failure>>} :
          Send(p, "event", Single(c, [id |-> i, properties |-> v]), told)
    BY <1>1, ClientAssumption DEF PushEvent, PushInvalidEvent
  <2>3. calls[p].phase = "idle"
    BY <1>1 DEF PushEvent, PushInvalidEvent, Free
  <2> QED BY <2>1, <2>2, <2>3, SendMoves DEF Method
<1>2. ASSUME NEW table \in Table, PushEventBatch(p, table)
      PROVE  \A q \in Pushes : Moves(q)
  <2>1. PICK batch \in Batch :
          \/ calls' = [calls EXCEPT ![p] = Idle("batch", <<Failure>>)]
          \/ Send(p, "batch", batch, <<>>)
    BY <1>2, FetchType DEF PushEventBatch
  <2>2. calls[p].phase = "idle"
    BY <1>2 DEF PushEventBatch, Free
  <2>3. <<Failure>> = Append(<<>>, Failure)
    OBVIOUS
  <2>4. CASE calls' = [calls EXCEPT ![p] = Idle("batch", <<Failure>>)]
    <3>1. Starts(p)
      <4>1. calls'[p] = Idle("batch", Append(<<>>, Failure))
        BY <2>3, <2>4, OneMoves
      <4> QED BY <2>2, <4>1 DEF Starts, Method
    <3> QED BY <2>4, <3>1, OneMoves DEF Moves
  <2>5. CASE Send(p, "batch", batch, <<>>)
    BY <2>2, <2>5, SendMoves DEF Method
  <2> QED BY <2>1, <2>4, <2>5
<1>3. ASSUME PushAllPendingEvents(p) PROVE \A q \in Pushes : Moves(q)
  <2>1. PICK batch \in Batch : Send(p, "pending", batch, <<>>)
    BY <1>3, FetchType DEF PushAllPendingEvents, IInv, QueueOK
  <2>2. calls[p].phase = "idle"
    BY <1>3 DEF PushAllPendingEvents, Free
  <2> QED BY <2>1, <2>2, SendMoves DEF Method
<1> QED BY <1>1, <1>2, <1>3

\* A pushEvent is answered 200 when its event was acceptable and new.
LEMMA SuccessRecords ==
  ASSUME NEW table \in Table, NEW batch \in Batch, SingleStatus(table, batch) = "ok"
  PROVE  AllRecorded(batch, Record(table, batch))
<1> SUFFICES ASSUME NEW c \in Collections, NEW i \in DOMAIN batch[c]
             PROVE  <<c, batch[c][i].id>> \in Pending(Record(table, batch))
  BY DEF AllRecorded, Sent
<1> DEFINE e == batch[c][i]
<1>1. i \in 1 .. Len(batch[c])
  BY EventType
<1>2. <<c, e>> \in Sent(batch)
  BY DEF Sent
<1>3. Verdict(table, c, e).success
  <2>1. Verdict(table, <<c, e>>[1], <<c, e>>[2]).success
    BY <1>2 DEF SingleStatus
  <2> QED BY <2>1
<1>4. Settled(Answer(table, batch)[c][i])
  BY <1>1, <1>3 DEF Answer, Settled
<1> QED BY <1>1, <1>4, AnswerTrue

LEMMA ServiceMoves ==
  ASSUME IInv, NEW r \in requests, ServiceAnswers(r) \/ ServiceFails(r)
  PROVE  \A q \in Pushes : Moves(q)
<1>1. r.batch \in Batch /\ connect \in Table /\ r.owner \in Pushes \cup {NoPush}
  BY DEF IInv, CallsOK, QueueOK, Request
<1>2. CASE r.owner = NoPush
  BY <1>2 DEF ServiceAnswers, ServiceFails, Deliver, Moves
<1>3. CASE r.owner # NoPush
  <2> DEFINE p == r.owner
  <2>1. p \in Pushes /\ calls[p].phase = "sent" /\ calls[p].batch = r.batch
    BY <1>1, <1>3 DEF IInv, CallsOK, RequestsMatch
  <2>2. PICK reply \in Reply :
          /\ Deliver(r, reply)
          /\ calls[p].kind = "event" /\ reply.status = "ok" => AllRecorded(r.batch, connect')
    <3>1. \A status \in TPHTTPStatusCode :
            /\ [NoReply EXCEPT !.status = status] \in Reply
            /\ [NoReply EXCEPT !.status = status].status = status
      BY NoBatchType DEF NoReply, Reply
    <3>2. CASE ServiceFails(r)
      <4>1. PICK status \in Statuses : Deliver(r, [NoReply EXCEPT !.status = status])
        BY <3>2 DEF ServiceFails
      <4>2. status \in TPHTTPStatusCode /\ status # "ok"
        BY ClientAssumption
      <4> QED BY <3>1, <4>1, <4>2
    <3>3. CASE ServiceAnswers(r) /\ calls[p].kind = "event"
      <4>1. /\ Deliver(r, [NoReply EXCEPT !.status = SingleStatus(connect, r.batch)])
            /\ connect' = Record(connect, r.batch)
        BY <1>3, <3>3 DEF ServiceAnswers
      <4>2. SingleStatus(connect, r.batch) \in TPHTTPStatusCode
        BY DEF SingleStatus, TPHTTPStatusCode
      <4> QED BY <1>1, <3>1, <4>1, <4>2, SuccessRecords
    <3>4. CASE ServiceAnswers(r) /\ calls[p].kind # "event"
      <4>1. Deliver(r, [status |-> "ok", body |-> Answer(connect, r.batch)])
        BY <3>4 DEF ServiceAnswers
      <4>2. [status |-> "ok", body |-> Answer(connect, r.batch)] \in Reply
        BY <1>1, AnswerTrue DEF Reply, TPHTTPStatusCode
      <4> QED BY <3>4, <4>1, <4>2
    <3> QED BY <3>2, <3>3, <3>4
  <2>3. calls' = [calls EXCEPT ![p] = [calls[p] EXCEPT !.reply = reply]]
    BY <1>3, <2>1, <2>2 DEF Deliver, IInv, CallsOK
  <2>4. Answered(p)
    BY <2>1, <2>2, <2>3, OneMoves DEF Answered
  <2> QED BY <2>1, <2>3, <2>4, OneMoves DEF Moves
<1> QED BY <1>1, <1>2, <1>3

\* A completion block that calls its handler.
LEMMA TellMoves ==
  ASSUME IInv, NEW p \in Pushes, NEW told \in Told, calls[p].phase = "sent", Tell(p, told),
         calls[p].kind = "event" /\ told = Success => calls[p].reply.status = "ok",
         told \in {Success, Failure} \/ Unexplained(p)
  PROVE  \A q \in Pushes : Moves(q)
BY OneMoves DEF Tell, Moves, Completes

LEMMA EndMoves ==
  ASSUME IInv, NEW p \in Pushes, Ends(p)
  PROVE  \A q \in Pushes : Moves(q)
<1>1. \A status : pushEventTold(status) \in Told /\ pushEventBatchTold(status) \in Told
  BY ToldType DEF pushEventTold, pushEventBatchTold, Told
<1>2. calls[p].phase = "sent" /\ calls[p] \in Push
  BY DEF Ends, NetworkFailure, CompleteEvent, CompleteBatch, CompletePending, Waiting,
         IInv, CallsOK
<1>3. CASE NetworkFailure(p)
  BY <1>2, <1>3, ToldType, TellMoves DEF NetworkFailure, Success, Failure
<1>4. CASE CompleteEvent(p)
  <2>1. pushEventTold(calls[p].reply.status) = Success => calls[p].reply.status = "ok"
    BY DEF pushEventTold, Success, Failure
  <2>2. pushEventTold(calls[p].reply.status) \in {Success, Failure} \/ Unexplained(p)
    BY <1>4 DEF Unexplained, pushEventTold
  <2> QED BY <1>1, <1>2, <1>4, <2>1, <2>2, TellMoves, DeathMoves DEF CompleteEvent
<1>5. CASE CompleteBatch(p)
  <2>1. pushEventBatchTold(calls[p].reply.status) = Success => calls[p].reply.status = "ok"
    BY DEF pushEventBatchTold, Success, Failure
  <2>2. pushEventBatchTold(calls[p].reply.status) \in {Success, Failure}
    BY DEF pushEventBatchTold
  <2> QED BY <1>1, <1>2, <1>5, <2>1, <2>2, TellMoves DEF CompleteBatch
<1>6. CASE CompletePending(p)
  <2> DEFINE results == processBatchResponse(calls[p].reply.body, calls[p].batch)
             base == InFlight("pending", calls[p].batch, calls[p].told)
             push == [base EXCEPT !.phase = "looping", !.results = results]
  <2>1. /\ calls[p].kind = "pending"
        /\ calls' = [calls EXCEPT ![p] = push]
    BY <1>6 DEF CompletePending
  <2>2. /\ push.phase = "looping" /\ push.kind = "pending" /\ push.told = calls[p].told
    BY DEF InFlight, Idle
  <2>3. calls'[p] = push
    BY <2>1, OneMoves
  <2> HIDE DEF push
  <2>4. IInv'
    BY <1>6, CompletePendingKeeps
  <2>5. calls'[p] \in Push
    BY <2>4 DEF IInv, CallsOK
  <2>6. Loop(p)
    BY <1>2, <2>1, <2>2, <2>3, <2>5 DEF Loop
  <2> QED BY <2>1, <2>6, OneMoves DEF Moves
<1> QED BY <1>3, <1>4, <1>5, <1>6 DEF Ends

LEMMA LoopMoves ==
  ASSUME IInv, HandlersOK, NEW p \in Pushes, Loops(p)
  PROVE  \A q \in Pushes : Moves(q)
<1>1. calls[p].phase = "looping" /\ calls[p] \in Push
  BY DEF Loops, NextCollection, HandleResponse, FinishPush, Looping, IInv, CallsOK
<1>2. CASE NextCollection(p) \/ HandleResponse(p)
  <2>1. IInv'
    BY <1>2, NextCollectionKeeps, HandleResponseKeeps
  <2>2. PICK push :
          /\ calls' = [calls EXCEPT ![p] = push]
          /\ push.phase = calls[p].phase /\ push.kind = calls[p].kind
          /\ push.told = calls[p].told
    <3>1. CASE NextCollection(p)
      <4>1. PICK work, results :
              calls' = [calls EXCEPT ![p] =
                          [calls[p] EXCEPT !.work = work, !.results = results]]
        BY <3>1 DEF NextCollection
      <4> DEFINE push == [calls[p] EXCEPT !.work = work, !.results = results]
      <4> WITNESS push
      <4> QED BY <1>1, <4>1 DEF Push
    <3>2. CASE HandleResponse(p)
      <4> DEFINE push == [calls[p] EXCEPT !.work = Tail(calls[p].work)]
      <4>1. calls' = [calls EXCEPT ![p] = push]
        BY <3>2 DEF HandleResponse, IInv, CallsOK
      <4> WITNESS push
      <4> QED BY <1>1, <4>1 DEF Push
    <3> QED BY <1>2, <3>1, <3>2
  <2>3. calls'[p] \in Push
    BY <2>1 DEF IInv, CallsOK
  <2>4. calls[p].kind = "pending"
    BY <1>1 DEF HandlersOK, HandlerOK, Push
  <2> QED BY <1>1, <2>2, <2>3, <2>4, OneMoves DEF Moves, Loop
<1>3. CASE FinishPush(p)
  BY <1>1, <1>3, OneMoves DEF FinishPush, Tell, Moves, Finishes
<1> QED BY <1>2, <1>3 DEF Loops

\* What is recorded stays.
LEMMA ConnectGrows ==
  ASSUME IInv, [Next]_vars
  PROVE  Pending(connect) \subseteq Pending(connect')
<1>1. ASSUME NEW r \in requests, ServiceAnswers(r) \/ ServiceFails(r)
      PROVE  Pending(connect) \subseteq Pending(connect')
  <2>1. connect \in Table /\ r.batch \in Batch
    BY DEF IInv, CallsOK, QueueOK, Request
  <2> QED BY <1>1, <2>1, RecordGrows DEF ServiceAnswers, ServiceFails
<1>2. CASE UNCHANGED connect
  BY <1>2
<1>3. Application \/ Crash \/ UNCHANGED vars => UNCHANGED connect
  BY DEF Application, AddEvent, RemovePendingEvent, RemoveAllPendingEvents, PushEvent,
         PushInvalidEvent, PushEventBatch, PushAllPendingEvents, Crash, vars
<1>4. ASSUME NEW p \in Pushes, Ends(p) \/ Loops(p) PROVE UNCHANGED connect
  BY <1>4 DEF Ends, Loops, NetworkFailure, CompleteEvent, CompleteBatch, CompletePending,
              NextCollection, HandleResponse, FinishPush
<1>5. ASSUME NEW r \in requests, RequestLost(r) PROVE UNCHANGED connect
  BY <1>5 DEF RequestLost
<1> QED BY <1>1, <1>2, <1>3, <1>4, <1>5 DEF Next, Network

LEMMA AllMove ==
  ASSUME IInv, HandlersOK, [Next]_vars
  PROVE  \A p \in Pushes : Moves(p)
<1>1. CASE Application
  <2>1. CASE \/ \E c \in Collections, v \in Payloads : AddEvent(c, v)
             \/ \E c \in Collections, i \in Ids : RemovePendingEvent(c, i)
             \/ RemoveAllPendingEvents
    BY <2>1 DEF AddEvent, RemovePendingEvent, RemoveAllPendingEvents, Moves
  <2> QED BY <1>1, <2>1, StartMoves DEF Application
<1>2. CASE Network
  <2>1. ASSUME NEW r \in requests, RequestLost(r) PROVE \A p \in Pushes : Moves(p)
    BY <2>1 DEF RequestLost, Moves
  <2> QED BY <1>2, <2>1, ServiceMoves DEF Network
<1>3. CASE \E p \in Pushes : Ends(p)
  BY <1>3, EndMoves
<1>4. CASE \E p \in Pushes : Loops(p)
  BY <1>4, LoopMoves
<1>5. CASE Crash
  BY <1>5, DeathMoves DEF Crash
<1>6. CASE UNCHANGED vars
  BY <1>6 DEF vars, Moves
<1> QED BY <1>1, <1>2, <1>3, <1>4, <1>5, <1>6 DEF Next

-----------------------------------------------------------------------------
(* Each of them keeps the invariant. *)

LEMMA Appended ==
  ASSUME NEW told \in Seq(Told), NEW t \in Told
  PROVE  /\ Len(Append(told, t)) = Len(told) + 1
         /\ \A i \in 1 .. Len(Append(told, t)) :
              Append(told, t)[i] = t \/ (i \in 1 .. Len(told) /\ Append(told, t)[i] = told[i])
<1>1. Len(told) \in Nat /\ Len(Append(told, t)) = Len(told) + 1
  OBVIOUS
<1>2. ASSUME NEW i \in 1 .. Len(told) + 1
      PROVE  Append(told, t)[i] = IF i = Len(told) + 1 THEN t ELSE told[i]
  BY <1>1
<1> QED BY <1>1, <1>2

LEMMA MovesKeep ==
  ASSUME IInv, NEW p \in Pushes, HandlerOK(calls[p], connect), Moves(p),
         Pending(connect) \subseteq Pending(connect')
  PROVE  HandlerOK(calls'[p], connect')
<1>0. calls[p] \in Push /\ calls[p].told \in Seq(Told)
  BY DEF IInv, CallsOK, Push
<1>1. CASE calls'[p] = calls[p]
  BY <1>1 DEF HandlerOK, AllRecorded
<1>2. CASE calls'[p] = Idle("none", <<>>)
  BY <1>2 DEF HandlerOK, Idle
<1>3. CASE Starts(p)
  <2>1. PICK kind \in Method, batch \in Batch, told \in {<<>>, <<Failure>>} :
          /\ kind # "event" => told = <<>>
          /\ calls'[p] \in {InFlight(kind, batch, told), Idle(kind, Append(told, Failure))}
    BY <1>3 DEF Starts
  <2>2. /\ told \in Seq(Told)
        /\ \A i \in 1 .. Len(told) : told[i] # Success
        /\ told = <<>> => Len(Append(told, Failure)) = 1
        /\ told = <<>> => \A i \in 1 .. Len(told) : told[i] \in {Success, Failure}
        /\ told = <<>> => \A i \in 1 .. Len(Append(told, Failure)) :
                             Append(told, Failure)[i] \in {Success, Failure}
    <3>1. Success # Failure
      BY DEF Success, Failure
    <3>2. CASE told = <<>>
      BY <3>2
    <3>3. CASE told = <<Failure>>
      BY <3>1, <3>3, ToldType
    <3> QED BY <3>2, <3>3
  <2>3. CASE calls'[p] = InFlight(kind, batch, told)
    <3>1. /\ calls'[p].phase = "sent" /\ calls'[p].kind = kind /\ calls'[p].told = told
          /\ calls'[p].reply.status = "none"
      BY <2>3 DEF InFlight, Idle, NoReply
    <3> QED BY <2>1, <2>2, <3>1 DEF HandlerOK, Method
  <2>4. CASE calls'[p] = Idle(kind, Append(told, Failure))
    <3>1. /\ calls'[p].phase = "idle" /\ calls'[p].kind = kind
          /\ calls'[p].told = Append(told, Failure)
      BY <2>4 DEF Idle
    <3> QED BY <2>1, <2>2, <3>1 DEF HandlerOK, Method
  <2> QED BY <2>1, <2>3, <2>4
<1>4. CASE Answered(p)
  <2>1. PICK reply \in Reply :
          /\ calls[p].phase = "sent"
          /\ calls'[p] = [calls[p] EXCEPT !.reply = reply]
          /\ calls[p].kind = "event" /\ reply.status = "ok"
               => AllRecorded(calls[p].batch, connect')
    BY <1>4 DEF Answered
  <2>2. /\ calls'[p].phase = calls[p].phase /\ calls'[p].kind = calls[p].kind
        /\ calls'[p].told = calls[p].told /\ calls'[p].batch = calls[p].batch
        /\ calls'[p].reply = reply
    BY <1>0, <2>1 DEF Push
  <2> QED BY <2>1, <2>2 DEF HandlerOK
<1>5. CASE Completes(p) \/ Finishes(p)
  <2>1. PICK told \in Told :
          /\ calls'[p] = Idle(calls[p].kind, Append(calls[p].told, told))
          /\ calls[p].kind # "event" => told \in {Success, Failure}
    BY <1>5, ToldType DEF Completes, Finishes, Unexplained, CompleteEvent
  <2>2. /\ calls[p].kind # "event" => calls[p].told = <<>>
        /\ calls[p].kind # "none"
    BY <1>5 DEF HandlerOK, Completes, Finishes
  <2>3. calls[p].told = <<>> =>
          /\ Len(Append(calls[p].told, told)) = 1
          /\ \A i \in 1 .. Len(Append(calls[p].told, told)) :
               Append(calls[p].told, told)[i] = told
    BY <1>0, Appended
  <2>4. /\ calls'[p].phase = "idle" /\ calls'[p].kind = calls[p].kind
        /\ calls'[p].told = Append(calls[p].told, told)
    BY <2>1 DEF Idle
  <2> QED BY <2>1, <2>2, <2>3, <2>4 DEF HandlerOK
<1>6. CASE Loop(p)
  BY <1>6 DEF HandlerOK, Loop
<1> QED BY <1>1, <1>2, <1>3, <1>4, <1>5, <1>6 DEF Moves

\* A handler hears YES of an event only after the event was recorded.
LEMMA YesIsTrue ==
  ASSUME IInv, NEW p \in Pushes, HandlerOK(calls[p], connect), Moves(p),
         calls[p].kind = "event", calls[p].phase = "sent", Success \in Range(calls'[p].told)
  PROVE  AllRecorded(calls[p].batch, connect)
<1>0. calls[p] \in Push /\ calls[p].told \in Seq(Told)
  BY DEF IInv, CallsOK, Push
<1>1. PICK i \in DOMAIN calls'[p].told : calls'[p].told[i] = Success
  BY DEF Range
<1>2. \A j \in 1 .. Len(calls[p].told) : calls[p].told[j] # Success
  BY DEF HandlerOK
<1>3. calls'[p].told # calls[p].told
  BY <1>0, <1>1, <1>2
<1>4. CASE Completes(p)
  <2>1. PICK told \in Told :
          /\ calls'[p] = Idle(calls[p].kind, Append(calls[p].told, told))
          /\ told = Success => calls[p].reply.status = "ok"
    BY <1>4 DEF Completes
  <2>2. calls'[p].told = Append(calls[p].told, told)
    BY <2>1 DEF Idle
  <2>3. i \in 1 .. Len(Append(calls[p].told, told))
    BY <1>0, <1>1, <2>2
  <2>4. told = Success
    BY <1>0, <1>1, <1>2, <2>2, <2>3, Appended
  <2> QED BY <2>1, <2>4 DEF HandlerOK
<1>5. calls'[p] # calls[p] /\ ~Starts(p) /\ ~Loop(p) /\ ~Finishes(p)
  BY <1>3 DEF Starts, Loop, Finishes
<1>6. ~Answered(p)
  BY <1>0, <1>3 DEF Answered, Push
<1>7. calls'[p] # Idle("none", <<>>)
  BY <1>1 DEF Idle
<1> QED BY <1>4, <1>5, <1>6, <1>7 DEF Moves

LEMMA HandlersInitially == Init => HandlersOK
BY DEF Init, AllIdle, Idle, HandlersOK, HandlerOK

LEMMA HandlersStay == IInv /\ HandlersOK /\ [Next]_vars => HandlersOK'
<1> SUFFICES ASSUME IInv, HandlersOK, [Next]_vars, NEW p \in Pushes
             PROVE  HandlerOK(calls'[p], connect')
  BY DEF HandlersOK
<1> QED BY AllMove, ConnectGrows, MovesKeep DEF HandlersOK

LEMMA HandlersInvariance == Spec => []HandlersOK
BY HandlersInitially, HandlersStay, Invariance, PTL DEF Spec

\* The handler of -pushEventBatch: and of -pushAllPendingEvents is called
\* exactly once for each call: when the push ends, on whichever of its exits,
\* and not before.
THEOREM HandlerOnce == Spec => []BatchHandlerCalledOnce
<1>1. IInv /\ HandlersOK => BatchHandlerCalledOnce
  <2> SUFFICES ASSUME IInv, HandlersOK, NEW p \in Pushes,
                      calls[p].kind \in {"batch", "pending"}
               PROVE  Len(calls[p].told) = IF calls[p].phase = "idle" THEN 1 ELSE 0
    BY DEF BatchHandlerCalledOnce
  <2>1. Len(<<>>) = 0
    OBVIOUS
  <2> QED BY <2>1 DEF HandlersOK, HandlerOK
<1> QED BY <1>1, Invariance, HandlersInvariance, PTL

\* Whatever ends a push, of a single event, of an invalid one, of a batch or of
\* the pending events, is one more call of its handler, or the death of the
\* process: the safety half of EveryPushEnds.
THEOREM NoSilentEnd == Spec => [][\A p \in Pushes : EndIsTold(p)]_vars
<1>1. IInv /\ HandlersOK /\ [Next]_vars => \A p \in Pushes : EndIsTold(p)
  <2> SUFFICES ASSUME IInv, HandlersOK, [Next]_vars, NEW p \in Pushes,
                      calls[p].phase # "idle", calls'[p].phase = "idle",
                      calls'[p] # Idle("none", <<>>)
               PROVE  Len(calls'[p].told) = Len(calls[p].told) + 1
    BY DEF EndIsTold
  <2>1. calls[p] \in Push /\ calls[p].told \in Seq(Told)
    BY DEF IInv, CallsOK, Push
  <2>2. Completes(p) \/ Finishes(p)
    <3>1. Moves(p)
      BY AllMove
    <3>2. calls'[p] # calls[p] /\ ~Starts(p) /\ ~Loop(p)
      BY DEF Starts, Loop
    <3>3. ~Answered(p)
      BY <2>1 DEF Answered, Push
    <3> QED BY <3>1, <3>2, <3>3 DEF Moves
  <2>3. PICK told \in Told : calls'[p] = Idle(calls[p].kind, Append(calls[p].told, told))
    BY <2>2, ToldType DEF Completes, Finishes
  <2> QED BY <2>1, <2>3 DEF Idle
<1> QED BY <1>1, Invariance, HandlersInvariance, PTL DEF Spec

\* A batch that was not pushed is explained to its handler: on every exit of the
\* two methods it is given results without an error or an error without results.
THEOREM BatchExplained == Spec => []BatchFailureExplained
<1>1. IInv /\ HandlersOK => BatchFailureExplained
  <2> SUFFICES ASSUME IInv, HandlersOK, NEW p \in Pushes, calls[p].kind # "event",
                      NEW t \in Range(calls[p].told)
               PROVE  t.success # t.error
    BY DEF BatchFailureExplained
  <2>1. calls[p].told \in Seq(Told)
    BY DEF IInv, CallsOK, Push
  <2>2. PICK i \in 1 .. Len(calls[p].told) : t = calls[p].told[i]
    BY <2>1 DEF Range
  <2>3. t \in {Success, Failure}
    BY <2>2 DEF HandlersOK, HandlerOK
  <2> QED BY <2>3 DEF Success, Failure
<1> QED BY <1>1, Invariance, HandlersInvariance, PTL

\* The handler of -pushEvent: is called with YES only when Connect has recorded
\* the event.
THEOREM YesIsRecorded == Spec => YesMeansRecorded
<1>1. IInv /\ HandlersOK /\ [Next]_vars =>
        \A p \in Pushes :
          calls[p].kind = "event" /\ calls[p].phase = "sent"
            /\ Success \in Range(calls'[p].told)
          => \A s \in Sent(calls[p].batch) : <<s[1], s[2].id>> \in Pending(connect)
  <2> SUFFICES ASSUME IInv, HandlersOK, [Next]_vars, NEW p \in Pushes,
                      calls[p].kind = "event", calls[p].phase = "sent",
                      Success \in Range(calls'[p].told)
               PROVE  AllRecorded(calls[p].batch, connect)
    BY DEF AllRecorded
  <2> QED BY AllMove, YesIsTrue DEF HandlersOK
<1> QED BY <1>1, Invariance, HandlersInvariance, PTL DEF Spec, YesMeansRecorded
-----------------------------------------------------------------------------
(* The promises of the abstract queue, and the client's with them. *)

LEMMA QueueKeeps ==
  ASSUME ByKey!NothingLost, ByKey!NothingRevived, [ByKey!Next]_(ByKey!vars)
  PROVE  ByKey!NothingLost' /\ ByKey!NothingRevived'
<1> USE DEF ByKey!NothingLost, ByKey!NothingRevived
<1>1. CASE \E i \in Keys : ByKey!Enqueue(i)
  BY <1>1 DEF ByKey!Enqueue
<1>2. CASE \E i \in Keys : ByKey!Settle(i)
  BY <1>2 DEF ByKey!Settle
<1>3. CASE \E S \in SUBSET Keys : ByKey!Discard(S)
  BY <1>3 DEF ByKey!Discard
<1>4. CASE \E S \in SUBSET Keys : ByKey!Record(S)
  BY <1>4 DEF ByKey!Record
<1>5. CASE UNCHANGED ByKey!vars
  BY <1>5 DEF ByKey!vars
<1> QED BY <1>1, <1>2, <1>3, <1>4, <1>5 DEF ByKey!Next

\* What the application queued and did not withdraw is on the device or
\* recorded, and what it withdrew does not come back to the device: no late
\* reply, no retry and no restart puts a removed event into the queue again.
THEOREM QueuePromises == Spec => [](ByKey!NothingLost /\ ByKey!NothingRevived)
<1>1. ByKey!Init => ByKey!NothingLost /\ ByKey!NothingRevived
  BY DEF ByKey!Init, ByKey!NothingLost, ByKey!NothingRevived
<1>2. /\ ByKey!NothingLost /\ ByKey!NothingRevived
      /\ [ByKey!Next]_(ByKey!vars)
      => ByKey!NothingLost' /\ ByKey!NothingRevived'
  BY QueueKeeps
<1> QED BY <1>1, <1>2, ClientImplementsQueue, PTL DEF ImplementsKeyQueue, ByKey!Spec

-----------------------------------------------------------------------------
(***************************************************************************)
(* Which events get as far as a request.  Three findings say that an event *)
(* that did not validate can be sent, that one that cannot be serialised   *)
(* can block the queue, and that a failure can go unexplained; here is     *)
(* what remains true, and that nothing else is in the way.                 *)
(***************************************************************************)

\* Only events that validated are in the queue.
StoreValid == \A k \in Pending(store) : store[k] \notin Invalid

LEMMA StoreStaysValid ==
  ASSUME IInv, StoreValid, [Next]_vars
  PROVE  StoreValid'
<1>1. store \in Table
  BY DEF IInv, QueueOK
<1>2. ASSUME NEW c \in Collections, NEW v \in Payloads, AddEvent(c, v)
      PROVE  StoreValid'
  <2>1. PICK i \in Ids : store' = [store EXCEPT ![<<c, i>>] = v]
    BY <1>2 DEF AddEvent, addEvent
  <2>2. v \notin Invalid
    BY <1>2 DEF AddEvent
  <2>3. \A k \in Keys : store'[k] = IF k = <<c, i>> THEN v ELSE store[k]
    BY <1>1, <2>1 DEF Table
  <2> QED BY <2>2, <2>3 DEF StoreValid, Pending
<1>3. ASSUME NEW c \in Collections, NEW i, store' = removeEventWithId(store, i, c)
      PROVE  StoreValid'
  <2>1. \A k \in Keys : store'[k] \in {store[k], NoPayload}
    BY <1>1, <1>3 DEF Table, removeEventWithId
  <2> QED BY <2>1 DEF StoreValid, Pending
<1>4. CASE RemoveAllPendingEvents
  BY <1>4 DEF RemoveAllPendingEvents, deleteAllPendingEvents, StoreValid, Pending
<1>5. CASE UNCHANGED store
  BY <1>5 DEF StoreValid
<1>6. CASE Application
  BY <1>2, <1>3, <1>4, <1>5, <1>6
     DEF Application, RemovePendingEvent, PushEvent, PushInvalidEvent, PushEventBatch,
         PushAllPendingEvents
<1>7. ASSUME NEW p \in Pushes, HandleResponse(p)
      PROVE  StoreValid'
  <2>1. calls[p].work \in Seq(Collections \X EventAPIResponse) /\ calls[p].work # <<>>
    BY <1>7 DEF HandleResponse, IInv, CallsOK, Push
  <2>2. Head(calls[p].work)[1] \in Collections
    BY <2>1
  <2> QED BY <1>3, <1>5, <1>7, <2>2 DEF HandleResponse
<1>8. ASSUME NEW p \in Pushes, Ends(p) \/ NextCollection(p) \/ FinishPush(p)
      PROVE  UNCHANGED store
  BY <1>8 DEF Ends, NetworkFailure, CompleteEvent, CompleteBatch, CompletePending,
              NextCollection, FinishPush
<1>9. Network \/ Crash \/ UNCHANGED vars => UNCHANGED store
  BY DEF Network, ServiceAnswers, ServiceFails, RequestLost, Crash, vars
<1> QED BY <1>5, <1>6, <1>7, <1>8, <1>9 DEF Next, Loops

LEMMA StoreInvariance == Spec => []StoreValid
<1>1. Init => StoreValid
  BY DEF Init, StoreValid, EmptyTable, Pending
<1>2. IInv /\ StoreValid /\ [Next]_vars => StoreValid'
  BY StoreStaysValid
<1> QED BY <1>1, <1>2, Invariance, PTL DEF Spec

\* What is fetched from a table of events that validated validates.
LEMMA FetchedValid ==
  ASSUME NEW table \in Table, \A k \in Pending(table) : table[k] \notin Invalid,
         NEW batch \in fetchPendingEvents(table)
  PROVE  processEvents(batch)
<1>1. ASSUME NEW s \in Sent(batch)
      PROVE  s[2].properties \notin Invalid
  <2>1. PICK k \in Pending(table) :
          s = <<k[1], [id |-> k[2], properties |-> table[k]]>>
    BY FetchedRows
  <2> QED BY <2>1
<1> QED BY <1>1 DEF processEvents, SentPayloads

\* If all payloads that cannot be serialised were refused by validate:, the
\* pending events could always be sent: nothing in the queue could end the
\* process or keep a push from leaving.  The run "poison" shows what happens
\* as long as validate: lets one of them through.
THEOREM QueueSerialises ==
  ASSUME Throws \cup Fails \subseteq Invalid
  PROVE  Spec => [](\A batch \in fetchPendingEvents(store) : processBatch(batch) = {"data"})
<1>1. ASSUME IInv, StoreValid, NEW batch \in fetchPendingEvents(store)
      PROVE  processBatch(batch) = {"data"}
  <2>1. processEvents(batch)
    BY <1>1, FetchedValid DEF IInv, QueueOK, StoreValid
  <2>2. SentPayloads(batch) \cap Throws = {} /\ SentPayloads(batch) \cap Fails = {}
    BY <2>1 DEF processEvents
  <2> QED BY <2>2 DEF processBatch
<1>2. IInv /\ StoreValid =>
        \A batch \in fetchPendingEvents(store) : processBatch(batch) = {"data"}
  BY <1>1
<1> QED BY <1>2, Invariance, StoreInvariance, PTL

\* A request that nobody waits for any more carries the batch it carried.
LEMMA OrphanedBatches ==
  ASSUME IInv, NEW P
  PROVE  \A r \in Orphaned(P) : \E q \in requests : r.batch = q.batch
BY DEF Orphaned, IInv, CallsOK, Request

LEMMA SendValid ==
  ASSUME IInv, InvalidNeverSent, NEW p \in Pushes, NEW kind, NEW batch, NEW told,
         Send(p, kind, batch, told), processEvents(batch)
  PROVE  InvalidNeverSent'
<1>1. CASE requests' = requests \cup {[owner |-> p, batch |-> batch]}
  BY <1>1 DEF InvalidNeverSent, processEvents
<1>2. CASE UNCHANGED requests
  BY <1>2 DEF InvalidNeverSent
<1>3. CASE Dies
  BY <1>3, OrphanedBatches DEF Dies, InvalidNeverSent
<1> QED BY <1>1, <1>2, <1>3 DEF Send

LEMMA NeverSentStays ==
  ASSUME IInv, StoreValid, InvalidNeverSent, [Next]_vars,
         ~\E p \in Pushes, c \in Collections, v \in Payloads : PushInvalidEvent(p, c, v)
  PROVE  InvalidNeverSent'
<1>1. CASE UNCHANGED requests
  BY <1>1 DEF InvalidNeverSent
<1>2. ASSUME NEW p \in Pushes, NEW c \in Collections, NEW v \in Payloads, PushEvent(p, c, v)
      PROVE  InvalidNeverSent'
  <2>1. PICK i \in Ids : Send(p, "event", Single(c, [id |-> i, properties |-> v]), <<>>)
    BY <1>2 DEF PushEvent
  <2> DEFINE e == [id |-> i, properties |-> v]
  <2>2. e \in Event /\ e.properties \notin Invalid
    BY <1>2 DEF Event, PushEvent
  <2> HIDE DEF e
  <2>3. \A s \in Sent(Single(c, e)) : s[2].properties \notin Invalid
    BY <2>2, SingleSent
  <2>4. processEvents(Single(c, e))
    BY <2>3 DEF processEvents, SentPayloads
  <2> QED BY <2>1, <2>4, SendValid DEF e
<1>3. ASSUME NEW p \in Pushes, NEW table \in Table, PushEventBatch(p, table)
      PROVE  InvalidNeverSent'
  BY <1>1, <1>3, SendValid DEF PushEventBatch
<1>4. ASSUME NEW p \in Pushes, PushAllPendingEvents(p)
      PROVE  InvalidNeverSent'
  BY <1>4, FetchedValid, SendValid DEF PushAllPendingEvents, StoreValid, IInv, QueueOK
<1>5. CASE Application
  BY <1>1, <1>2, <1>3, <1>4, <1>5
     DEF Application, AddEvent, RemovePendingEvent, RemoveAllPendingEvents
<1>6. CASE Network
  BY <1>6 DEF Network, ServiceAnswers, ServiceFails, RequestLost, Deliver, InvalidNeverSent
<1>7. ASSUME NEW P, requests' = Orphaned(P)
      PROVE  InvalidNeverSent'
  BY <1>7, OrphanedBatches DEF InvalidNeverSent
<1>8. ASSUME NEW p \in Pushes, Ends(p) \/ Loops(p)
      PROVE  InvalidNeverSent'
  BY <1>1, <1>7, <1>8
     DEF Ends, Loops, NetworkFailure, CompleteEvent, CompleteBatch, CompletePending, Dies,
         NextCollection, HandleResponse, FinishPush
<1>9. CASE Crash
  BY <1>7, <1>9 DEF Crash, Dies
<1>10. CASE UNCHANGED vars
  BY <1>1, <1>10 DEF vars
<1> QED BY <1>5, <1>6, <1>8, <1>9, <1>10 DEF Next

\* -pushEvent: of an event that does not validate is the one way for such an
\* event to Connect: no batch, no pending event and no retry carries one.  The
\* run "invalid_sent" shows that way.
THEOREM OnlyPushEventSendsInvalid ==
  Spec /\ [][~\E p \in Pushes, c \in Collections, v \in Payloads :
                PushInvalidEvent(p, c, v)]_vars
    => []InvalidNeverSent
<1> DEFINE Refused == ~\E p \in Pushes, c \in Collections, v \in Payloads :
                         PushInvalidEvent(p, c, v)
<1>1. Init => InvalidNeverSent
  BY DEF Init, InvalidNeverSent
<1>2. IInv /\ StoreValid /\ InvalidNeverSent /\ [Next]_vars /\ [Refused]_vars
        => InvalidNeverSent'
  <2>1. UNCHANGED vars /\ InvalidNeverSent => InvalidNeverSent'
    BY DEF vars, InvalidNeverSent
  <2> QED BY <2>1, NeverSentStays
<1> QED BY <1>1, <1>2, Invariance, StoreInvariance, PTL DEF Spec
-----------------------------------------------------------------------------
\* A handler that was not called was told nothing.
LEMMA NothingTold == Range(<<>>) = {}
<1>1. DOMAIN <<>> = {}
  OBVIOUS
<1> QED BY <1>1 DEF Range

LEMMA ToldAlready ==
  ASSUME FailureExplained, NEW p \in Pushes, calls[p].told \in Seq(Told),
         NEW told \in {Success, Failure}
  PROVE  \A t \in Range(Append(calls[p].told, told)) : t.success \/ t.error
<1>1. told \in Told /\ (told.success \/ told.error)
  <2>1. Success.success /\ Failure.error
    BY DEF Success, Failure
  <2> QED BY <2>1, ToldType
<1>2. Append(calls[p].told, told) \in Seq(Told)
  BY <1>1
<1>3. \A i \in 1 .. Len(calls[p].told) : calls[p].told[i].success \/ calls[p].told[i].error
  BY DEF FailureExplained, Range
<1> QED BY <1>1, <1>2, <1>3, Appended DEF Range

LEMMA ExplainedStays ==
  ASSUME IInv, HandlersOK, FailureExplained, [Next]_vars,
         ~\E p \in Pushes : Unexplained(p)
  PROVE  FailureExplained'
<1> SUFFICES ASSUME NEW p \in Pushes
             PROVE  \A t \in Range(calls'[p].told) : t.success \/ t.error
  BY DEF FailureExplained
<1>1. calls[p] \in Push /\ calls[p].told \in Seq(Told)
  BY DEF IInv, CallsOK, Push
<1>2. Moves(p)
  BY AllMove
<1>3. CASE calls'[p].told = calls[p].told
  BY <1>3 DEF FailureExplained
<1>4. ASSUME NEW told \in {Success, Failure}, calls'[p].told = Append(calls[p].told, told)
      PROVE  \A t \in Range(calls'[p].told) : t.success \/ t.error
  BY <1>1, <1>4, ToldAlready
<1>5. CASE calls'[p] = Idle("none", <<>>)
  <2>1. calls'[p].told = <<>>
    BY <1>5 DEF Idle
  <2> QED BY <2>1, NothingTold
<1>6. CASE Starts(p)
  <2>1. PICK kind \in Method, batch \in Batch, told \in {<<>>, <<Failure>>} :
          calls'[p] \in {InFlight(kind, batch, told), Idle(kind, Append(told, Failure))}
    BY <1>6 DEF Starts
  <2>2. calls'[p].told \in {told, Append(told, Failure)}
    <3>1. InFlight(kind, batch, told).told = told
      BY DEF InFlight, Idle
    <3>2. Idle(kind, Append(told, Failure)).told = Append(told, Failure)
      BY DEF Idle
    <3> QED BY <2>1, <3>1, <3>2
  <2>3. told \in Seq(Told) /\ \A i \in 1 .. Len(told) : told[i] = Failure
    <3>1. CASE told = <<>>
      BY <3>1
    <3>2. CASE told = <<Failure>>
      BY <3>2, ToldType
    <3> QED BY <3>1, <3>2
  <2>4. /\ Append(told, Failure) \in Seq(Told)
        /\ \A i \in 1 .. Len(Append(told, Failure)) : Append(told, Failure)[i] = Failure
    BY <2>3, ToldType, Appended
  <2>5. \A t \in Range(calls'[p].told) : t = Failure
    BY <2>2, <2>3, <2>4 DEF Range
  <2> QED BY <2>5 DEF Failure
<1>7. CASE Answered(p)
  BY <1>1, <1>3, <1>7 DEF Answered, Push
<1>8. CASE Completes(p) \/ Finishes(p)
  <2>1. PICK told \in {Success, Failure} :
          calls'[p] = Idle(calls[p].kind, Append(calls[p].told, told))
    BY <1>8 DEF Completes, Finishes
  <2> QED BY <1>4, <2>1 DEF Idle
<1>9. CASE Loop(p)
  BY <1>3, <1>9 DEF Loop
<1> QED BY <1>2, <1>3, <1>5, <1>6, <1>7, <1>8, <1>9 DEF Moves

\* -pushEvent:, told 409, 422, 400 or 500 or a code it does not know, is the one
\* method that may leave a failure unexplained, and only on that exit: every
\* other failure comes with an error.  The run "unexplained" shows that exit.
THEOREM OnlyRepliesUnexplained ==
  Spec /\ [][~\E p \in Pushes : Unexplained(p)]_vars => []FailureExplained
<1> DEFINE Excluded == ~\E p \in Pushes : Unexplained(p)
<1>1. Init => FailureExplained
  BY NothingTold DEF Init, AllIdle, Idle, FailureExplained
<1>2. IInv /\ HandlersOK /\ FailureExplained /\ [Next]_vars /\ [Excluded]_vars
        => FailureExplained'
  <2>1. UNCHANGED vars /\ FailureExplained => FailureExplained'
    BY DEF vars, FailureExplained
  <2> QED BY <2>1, ExplainedStays
<1> QED BY <1>1, <1>2, Invariance, HandlersInvariance, PTL DEF Spec
===============================================================================
