---------------------------- MODULE GeneratedIds ----------------------------
(***************************************************************************)
(* What holds of TPConnectClient when the application puts no ids into its *)
(* events (CallerIds = {}), and every id is therefore drawn by NSUUID: the *)
(* queue is one of events and not only of their identities.                *)
(***************************************************************************)
EXTENDS TPConnectClientProofs

USE DEF Keys

-----------------------------------------------------------------------------
(***************************************************************************)
(* The inductive invariant.  An id names one event wherever it is met: on  *)
(* disk, in the batch of a push, in a request that its push has long given *)
(* up, or at the service.  That an answer is about the event that is in    *)
(* the queue follows from this, not from anything the code compares.       *)
(***************************************************************************)

\* The events of a batch that have an id, as rows.
CarriedBy(batch) ==
  {s \in Keys \X Payloads :
     <<s[1][1], [id |-> s[1][2], properties |-> s[2]]>> \in Sent(batch)}

Batches == {calls[p].batch : p \in Pushes} \cup {r.batch : r \in requests}

Carried ==
  Rows(store) \cup Rows(queued) \cup Rows(connect) \cup UNION {CarriedBy(b) : b \in Batches}

OneEventPerId ==
  /\ \A s \in Carried : s[1][2] \in used
  /\ \A s, t \in Carried : s[1] = t[1] => s[2] = t[2]

-----------------------------------------------------------------------------
(* Rows. *)

LEMMA RowsType ==
  ASSUME NEW table \in Table
  PROVE  /\ Rows(table) \subseteq Keys \X Payloads
         /\ \A k \in Keys, v \in Payloads : <<k, v>> \in Rows(table) <=> table[k] = v
<1>1. \A k \in Keys : table[k] \in Payloads \cup {NoPayload}
  BY DEF Table
<1>2. \A k \in Pending(table) : k \in Keys /\ table[k] \in Payloads
  BY <1>1 DEF Pending
<1>3. ASSUME NEW k \in Keys, NEW v \in Payloads, table[k] = v PROVE <<k, v>> \in Rows(table)
  <2>1. k \in Pending(table)
    BY <1>3, StoreAssumption DEF Pending
  <2> QED BY <1>3, <2>1 DEF Rows
<1>4. ASSUME NEW k \in Keys, NEW v \in Payloads, <<k, v>> \in Rows(table) PROVE table[k] = v
  BY <1>4 DEF Rows
<1> QED BY <1>2, <1>3, <1>4 DEF Rows

LEMMA WrittenRow ==
  ASSUME NEW table \in Table, NEW k \in Keys, NEW v \in Payloads \cup {NoPayload}
  PROVE  /\ [table EXCEPT ![k] = v] \in Table
         /\ Rows([table EXCEPT ![k] = v]) \subseteq Rows(table) \cup {<<k, v>>}
<1>1. \A l \in Keys : [table EXCEPT ![k] = v][l] = IF l = k THEN v ELSE table[l]
  BY DEF Table
<1> QED BY <1>1 DEF Table, Rows, Pending

LEMMA ErasedRow ==
  ASSUME NEW table \in Table, NEW k
  PROVE  Rows([table EXCEPT ![k] = NoPayload]) \subseteq Rows(table)
<1>1. \A l \in Keys : [table EXCEPT ![k] = NoPayload][l] = IF l = k THEN NoPayload ELSE table[l]
  BY DEF Table
<1> QED BY <1>1 DEF Table, Rows, Pending

\* The service records events of the batch under their own keys.
LEMMA RecordedRows ==
  ASSUME NEW table \in Table, NEW batch \in Batch
  PROVE  Rows(Record(table, batch)) \subseteq Rows(table) \cup CarriedBy(batch)
<1> SUFFICES ASSUME NEW k \in Pending(Record(table, batch)), k \notin Pending(table)
             PROVE  <<k, Record(table, batch)[k]>> \in CarriedBy(batch)
  BY DEF Rows, Record, Pending
<1> DEFINE v == Record(table, batch)[k]
<1>1. k \in Keys
  BY DEF Pending
<1>2. v # NoPayload
  BY DEF Pending
<1>3. table[k] = NoPayload
  BY <1>1 DEF Pending
<1>4. v \in Offered(batch, k)
  BY <1>1, <1>2, <1>3 DEF Record
<1>5. PICK i \in 1 .. Len(batch[k[1]]) :
        batch[k[1]][i].id = k[2] /\ batch[k[1]][i].properties = v
  BY <1>4 DEF Offered
<1> HIDE DEF v
<1>6. k[1] \in Collections /\ k = <<k[1], k[2]>>
  BY <1>1
<1>7. batch[k[1]][i] \in Event /\ i \in DOMAIN batch[k[1]]
  BY <1>6, EventType
<1>8. batch[k[1]][i] = [id |-> k[2], properties |-> v] /\ v \in Payloads
  BY <1>5, <1>7 DEF Event
<1>9. <<k[1], [id |-> k[2], properties |-> v]>> \in Sent(batch)
  BY <1>6, <1>7, <1>8 DEF Sent
<1> QED BY <1>1, <1>8, <1>9 DEF CarriedBy, v

LEMMA NothingCarried == CarriedBy(NoBatch) = {}
BY DEF CarriedBy, Sent, NoBatch

\* A fetched batch carries the rows of the table.
LEMMA FetchedCarry ==
  ASSUME NEW table \in Table, NEW batch \in fetchPendingEvents(table)
  PROVE  CarriedBy(batch) = Rows(table)
<1>1. \A k \in Keys, v \in Payloads :
        <<k, v>> \in CarriedBy(batch) <=> <<k[1], [id |-> k[2], properties |-> v]>> \in Sent(batch)
  BY DEF CarriedBy
<1>2. ASSUME NEW k \in Keys, NEW v \in Payloads
      PROVE  <<k[1], [id |-> k[2], properties |-> v]>> \in Sent(batch) <=> table[k] = v
  <2> DEFINE row(l, w) == <<l[1], [id |-> l[2], properties |-> w]>>
  <2>1. \A l \in Keys : \A w : row(l, w) = row(k, v) => l = k /\ w = v
    <3> SUFFICES ASSUME NEW l \in Keys, NEW w, row(l, w) = row(k, v) PROVE l = k /\ w = v
      OBVIOUS
    <3>1. l[1] = k[1] /\ [id |-> l[2], properties |-> w] = [id |-> k[2], properties |-> v]
      OBVIOUS
    <3>2. l[2] = k[2] /\ w = v
      BY <3>1
    <3> QED BY <3>1, <3>2
  <2>2. Sent(batch) = {row(l, table[l]) : l \in Pending(table)}
    BY FetchedRows
  <2> HIDE DEF row
  <2>3. row(k, v) \in Sent(batch) <=> (k \in Pending(table) /\ table[k] = v)
    BY <2>1, <2>2 DEF Pending
  <2>4. table[k] = v => k \in Pending(table)
    BY StoreAssumption DEF Pending
  <2>5. row(k, v) \in Sent(batch) <=> table[k] = v
    BY <2>3, <2>4
  <2> QED BY <2>5 DEF row
<1>3. CarriedBy(batch) \subseteq Keys \X Payloads
  BY DEF CarriedBy
<1>4. \A k \in Keys, v \in Payloads : <<k, v>> \in CarriedBy(batch) <=> <<k, v>> \in Rows(table)
  <2> SUFFICES ASSUME NEW k \in Keys, NEW v \in Payloads
               PROVE  <<k, v>> \in CarriedBy(batch) <=> <<k, v>> \in Rows(table)
    OBVIOUS
  <2>1. <<k, v>> \in CarriedBy(batch) <=> table[k] = v
    BY <1>1, <1>2
  <2>2. <<k, v>> \in Rows(table) <=> table[k] = v
    BY RowsType
  <2> QED BY <2>1, <2>2
<1>5. Rows(table) \subseteq Keys \X Payloads
  BY RowsType
<1> HIDE DEF Keys
<1> QED BY <1>3, <1>4, <1>5

-----------------------------------------------------------------------------
(* What batches a step adds. *)

LEMMA DeathBatches ==
  ASSUME IInv, Dies
  PROVE  Batches' \subseteq Batches \cup {NoBatch}
<1>1. \A p \in Pushes : calls'[p].batch = NoBatch
  BY DEF Dies, AllIdle, Idle
<1>2. \A r \in requests' : \E q \in requests : r.batch = q.batch
  BY OrphanedBatches DEF Dies
<1> QED BY <1>1, <1>2 DEF Batches

\* One push takes another record, no request is added.
LEMMA OneBatches ==
  ASSUME IInv, NEW p \in Pushes, NEW push, calls' = [calls EXCEPT ![p] = push],
         push.batch \in {calls[p].batch, NoBatch},
         \A r \in requests' : \E q \in requests : r.batch = q.batch
  PROVE  Batches' \subseteq Batches \cup {NoBatch}
<1>1. \A q \in Pushes : calls'[q] = IF q = p THEN push ELSE calls[q]
  BY OneMoves
<1> QED BY <1>1 DEF Batches

LEMMA SendBatches ==
  ASSUME IInv, NEW p \in Pushes, NEW kind, NEW batch, NEW told, Send(p, kind, batch, told)
  PROVE  Batches' \subseteq Batches \cup {NoBatch, batch}
<1>1. CASE /\ calls' = [calls EXCEPT ![p] = InFlight(kind, batch, told)]
           /\ requests' = requests \cup {[owner |-> p, batch |-> batch]}
  <2>1. InFlight(kind, batch, told).batch = batch
    BY DEF InFlight, Idle
  <2>2. \A q \in Pushes : calls'[q] = IF q = p THEN InFlight(kind, batch, told) ELSE calls[q]
    BY <1>1, OneMoves
  <2> QED BY <1>1, <2>1, <2>2 DEF Batches
<1>2. CASE /\ calls' = [calls EXCEPT ![p] = Idle(kind, Append(told, Failure))]
           /\ UNCHANGED requests
  <2>1. Idle(kind, Append(told, Failure)).batch = NoBatch
    BY DEF Idle
  <2> QED BY <1>2, <2>1, OneBatches
<1>3. CASE Dies
  BY <1>3, DeathBatches
<1> QED BY <1>1, <1>2, <1>3 DEF Send

-----------------------------------------------------------------------------
(* A step keeps the invariant when what it carries was carried before, or  *)
(* has ids that were not drawn before.                                     *)

Grows(N) ==
  /\ Rows(store') \cup Rows(queued') \cup Rows(connect') \subseteq Carried \cup N
  /\ \A b \in Batches' : CarriedBy(b) \subseteq Carried \cup N

Fresh(N) ==
  /\ \A s \in N : s[1][2] \in used' \ used
  /\ \A s, t \in N : s[1] = t[1] => s[2] = t[2]

LEMMA GrowthKeeps ==
  ASSUME OneEventPerId, NEW N, Grows(N), Fresh(N), used \subseteq used'
  PROVE  OneEventPerId'
<1>1. Carried' \subseteq Carried \cup N
  BY DEF Carried, Grows
<1>2. \A s \in Carried' : s[1][2] \in used'
  BY <1>1 DEF OneEventPerId, Fresh
<1>3. ASSUME NEW s \in Carried', NEW t \in Carried', s[1] = t[1]
      PROVE  s[2] = t[2]
  <2>1. CASE s \in N \/ t \in N
    BY <1>1, <1>3, <2>1 DEF OneEventPerId, Fresh
  <2>2. CASE s \in Carried /\ t \in Carried
    BY <1>3, <2>2 DEF OneEventPerId
  <2> QED BY <1>1, <2>1, <2>2
<1> QED BY <1>2, <1>3 DEF OneEventPerId

LEMMA CarriedNow ==
  /\ Rows(store) \cup Rows(queued) \cup Rows(connect) \subseteq Carried
  /\ \A b \in Batches : CarriedBy(b) \subseteq Carried
BY DEF Carried

\* A step that carries nothing new.
LEMMA QuietKeeps ==
  ASSUME OneEventPerId, Batches' \subseteq Batches \cup {NoBatch},
         Rows(store') \cup Rows(queued') \cup Rows(connect') \subseteq Carried,
         used \subseteq used'
  PROVE  OneEventPerId'
<1>1. Grows({})
  BY CarriedNow, NothingCarried DEF Grows
<1>2. Fresh({})
  BY DEF Fresh
<1> QED BY <1>1, <1>2, GrowthKeeps
-----------------------------------------------------------------------------
(* The steps of the client. *)

\* The application puts no ids into its events.
Generated == CallerIds = {}

LEMMA Drawn ==
  ASSUME Generated, NEW i \in Ids, DrawId(i)
  PROVE  i \in used' \ used /\ used \subseteq used'
BY DEF Generated, DrawId

LEMMA AddEventAgrees ==
  ASSUME Generated, IInv, OneEventPerId, NEW c \in Collections, NEW v \in Payloads, AddEvent(c, v)
  PROVE  OneEventPerId'
<1>1. PICK i \in Ids :
        /\ DrawId(i)
        /\ store' = [store EXCEPT ![<<c, i>>] = v]
        /\ queued' = [queued EXCEPT ![<<c, i>>] = v]
  BY DEF AddEvent, addEvent
<1> DEFINE N == {<<<<c, i>>, v>>}
<1>2. /\ store \in Table /\ queued \in Table
      /\ UNCHANGED <<calls, requests, connect>>
  BY DEF IInv, QueueOK, AddEvent
<1>3. /\ Rows(store') \subseteq Rows(store) \cup N
      /\ Rows(queued') \subseteq Rows(queued) \cup N
  BY <1>1, <1>2, WrittenRow
<1>4. Batches' = Batches /\ Rows(connect') = Rows(connect)
  BY <1>2 DEF Batches, Rows, Pending
<1>5. Fresh(N)
  BY <1>1, Drawn DEF Fresh
<1> HIDE DEF N
<1>6. Grows(N)
  BY <1>3, <1>4, CarriedNow DEF Grows
<1> QED BY <1>1, <1>5, <1>6, Drawn, GrowthKeeps

LEMMA RemoveAgrees ==
  ASSUME IInv, OneEventPerId,
         \/ \E c \in Collections, i \in Ids : RemovePendingEvent(c, i)
         \/ RemoveAllPendingEvents
  PROVE  OneEventPerId'
<1>1. /\ store \in Table /\ queued \in Table
      /\ UNCHANGED <<used, calls, requests, connect>>
  BY DEF IInv, QueueOK, RemovePendingEvent, RemoveAllPendingEvents
<1>2. Rows(store') \subseteq Rows(store) /\ Rows(queued') \subseteq Rows(queued)
  <2>1. CASE RemoveAllPendingEvents
    BY <2>1 DEF RemoveAllPendingEvents, deleteAllPendingEvents, EmptyTable, Rows, Pending
  <2>2. ASSUME NEW c \in Collections, NEW i \in Ids, RemovePendingEvent(c, i)
        PROVE  Rows(store') \subseteq Rows(store) /\ Rows(queued') \subseteq Rows(queued)
    BY <1>1, <2>2, ErasedRow DEF RemovePendingEvent, removeEventWithId
  <2> QED BY <2>1, <2>2
<1>3. Batches' = Batches /\ Rows(connect') = Rows(connect)
  BY <1>1 DEF Batches, Rows, Pending
<1> QED BY <1>1, <1>2, <1>3, CarriedNow, QuietKeeps

\* What the three tables carry when only pushes and requests move.
LEMMA SameTables ==
  ASSUME UNCHANGED <<store, queued, connect>>
  PROVE  Rows(store') \cup Rows(queued') \cup Rows(connect') \subseteq Carried
BY DEF Carried, Rows, Pending

LEMMA PushAgrees ==
  ASSUME Generated, IInv, OneEventPerId, NEW p \in Pushes, NEW c \in Collections,
         NEW v \in Payloads, PushEvent(p, c, v) \/ PushInvalidEvent(p, c, v)
  PROVE  OneEventPerId'
<1> DEFINE batch(i) == Single(c, [id |-> i, properties |-> v])
<1>0. UNCHANGED <<store, queued, connect>>
  BY DEF PushEvent, PushInvalidEvent
<1>1. \A i \in Ids \cup {NoId} : Sent(batch(i)) = {<<c, [id |-> i, properties |-> v]>>}
  BY SingleSent DEF Event
<1>2. \A i \in Ids : CarriedBy(batch(i)) \subseteq {<<<<c, i>>, v>>}
  BY <1>1 DEF CarriedBy
<1>3. CarriedBy(batch(NoId)) = {}
  BY <1>1, StoreAssumption DEF CarriedBy
<1> HIDE DEF batch
<1>4. CASE PushEvent(p, c, v)
  <2>1. PICK i \in Ids : DrawId(i) /\ Send(p, "event", batch(i), <<>>)
    BY <1>4 DEF PushEvent, batch
  <2> DEFINE N == {<<<<c, i>>, v>>}
  <2>2. Fresh(N)
    BY <2>1, Drawn DEF Fresh
  <2>3. Batches' \subseteq Batches \cup {NoBatch, batch(i)}
    BY <2>1, SendBatches
  <2>4. CarriedBy(batch(i)) \subseteq N
    BY <1>2
  <2> HIDE DEF N
  <2>5. Grows(N)
    BY <1>0, <2>3, <2>4, CarriedNow, NothingCarried, SameTables DEF Grows
  <2> QED BY <2>1, <2>2, <2>5, Drawn, GrowthKeeps
<1>5. CASE PushInvalidEvent(p, c, v)
  <2>1. Send(p, "event", batch(NoId), <<Failure>>) /\ UNCHANGED used
    BY <1>5 DEF PushInvalidEvent, Generated, batch
  <2>2. Batches' \subseteq Batches \cup {NoBatch, batch(NoId)}
    BY <2>1, SendBatches
  <2>3. Grows({})
    BY <1>0, <1>3, <2>2, CarriedNow, NothingCarried, SameTables DEF Grows
  <2>4. Fresh({})
    BY DEF Fresh
  <2> QED BY <2>1, <2>3, <2>4, GrowthKeeps
<1> QED BY <1>4, <1>5

LEMMA PushBatchAgrees ==
  ASSUME Generated, IInv, OneEventPerId, NEW p \in Pushes, NEW table \in Table,
         PushEventBatch(p, table)
  PROVE  OneEventPerId'
<1>0. UNCHANGED <<store, queued, connect>>
  BY DEF PushEventBatch
<1>1. \A k \in Pending(table) : k[2] \notin used
  BY DEF PushEventBatch, Generated
<1>2. CASE calls' = [calls EXCEPT ![p] = Idle("batch", <<Failure>>)] /\ UNCHANGED <<used, requests>>
  <2>1. Idle("batch", <<Failure>>).batch = NoBatch
    BY DEF Idle
  <2>2. Batches' \subseteq Batches \cup {NoBatch}
    BY <1>2, <2>1, OneBatches
  <2> QED BY <1>0, <1>2, <2>2, SameTables, QuietKeeps
<1>3. ASSUME NEW batch \in fetchPendingEvents(table), Send(p, "batch", batch, <<>>),
             used' = used \cup {k[2] : k \in Pending(table)}
      PROVE  OneEventPerId'
  <2>1. CarriedBy(batch) = Rows(table)
    BY FetchedCarry
  <2>2. \A s \in Rows(table) : s[1] \in Pending(table) /\ s[2] = table[s[1]]
    BY DEF Rows
  <2>3. Fresh(Rows(table))
    BY <1>1, <1>3, <2>2 DEF Fresh
  <2>4. Batches' \subseteq Batches \cup {NoBatch, batch}
    BY <1>3, SendBatches
  <2>5. Grows(Rows(table))
    BY <1>0, <2>1, <2>4, CarriedNow, NothingCarried, SameTables DEF Grows
  <2> QED BY <1>3, <2>3, <2>5, GrowthKeeps
<1>4. {k \in Pending(table) : k[2] \notin CallerIds} = Pending(table)
  BY DEF Generated
<1>5. \E batch \in fetchPendingEvents(table) :
        \/ calls' = [calls EXCEPT ![p] = Idle("batch", <<Failure>>)] /\ UNCHANGED <<used, requests>>
        \/ Send(p, "batch", batch, <<>>) /\ used' = used \cup {k[2] : k \in Pending(table)}
  BY <1>4 DEF PushEventBatch
<1> QED BY <1>2, <1>3, <1>5

LEMMA PushPendingAgrees ==
  ASSUME IInv, OneEventPerId, NEW p \in Pushes, PushAllPendingEvents(p)
  PROVE  OneEventPerId'
<1>1. PICK batch \in fetchPendingEvents(store) : Send(p, "pending", batch, <<>>)
  BY DEF PushAllPendingEvents
<1>2. UNCHANGED <<store, queued, connect, used>> /\ store \in Table
  BY DEF PushAllPendingEvents, IInv, QueueOK
<1>3. CarriedBy(batch) = Rows(store)
  BY <1>2, FetchedCarry
<1>4. Batches' \subseteq Batches \cup {NoBatch, batch}
  BY <1>1, SendBatches
<1>5. Grows({})
  BY <1>2, <1>3, <1>4, CarriedNow, NothingCarried, SameTables DEF Grows
<1>6. Fresh({})
  BY DEF Fresh
<1> QED BY <1>2, <1>5, <1>6, GrowthKeeps
LEMMA DeliverBatches ==
  ASSUME IInv, NEW r \in requests, NEW reply, Deliver(r, reply)
  PROVE  Batches' \subseteq Batches \cup {NoBatch}
<1>1. requests' = requests \ {r}
  BY DEF Deliver
<1>2. CASE r.owner = NoPush
  BY <1>1, <1>2 DEF Deliver, Batches
<1>3. CASE r.owner # NoPush
  <2>1. r.owner \in Pushes
    BY <1>3 DEF IInv, CallsOK, Request
  <2> DEFINE push == [calls[r.owner] EXCEPT !.reply = reply]
  <2>2. calls' = [calls EXCEPT ![r.owner] = push]
    BY <1>3, <2>1 DEF Deliver, IInv, CallsOK
  <2>3. push.batch = calls[r.owner].batch
    BY <2>1 DEF IInv, CallsOK, Push
  <2> HIDE DEF push
  <2> QED BY <1>1, <2>1, <2>2, <2>3, OneBatches
<1> QED BY <1>2, <1>3

LEMMA ServiceAgrees ==
  ASSUME IInv, OneEventPerId, NEW r \in requests, ServiceAnswers(r) \/ ServiceFails(r)
  PROVE  OneEventPerId'
<1>1. /\ UNCHANGED <<store, used, queued>> /\ connect' \in {connect, Record(connect, r.batch)}
      /\ \E reply : Deliver(r, reply)
  BY DEF ServiceAnswers, ServiceFails
<1>2. connect \in Table /\ r.batch \in Batch
  BY DEF IInv, CallsOK, QueueOK, Request
<1>3. Rows(connect') \subseteq Rows(connect) \cup CarriedBy(r.batch)
  BY <1>1, <1>2, RecordedRows
<1>4. CarriedBy(r.batch) \subseteq Carried
  BY DEF Carried, Batches
<1>5. Batches' \subseteq Batches \cup {NoBatch}
  BY <1>1, DeliverBatches
<1>6. Rows(store') = Rows(store) /\ Rows(queued') = Rows(queued)
  BY <1>1 DEF Rows, Pending
<1> QED BY <1>1, <1>3, <1>4, <1>5, <1>6, CarriedNow, QuietKeeps

LEMMA RequestLostAgrees ==
  ASSUME OneEventPerId, NEW r \in requests, RequestLost(r)
  PROVE  OneEventPerId'
<1>1. UNCHANGED <<store, used, queued, connect>> /\ Batches' \subseteq Batches
  BY DEF RequestLost, Batches
<1> QED BY <1>1, SameTables, QuietKeeps

LEMMA EndAgrees ==
  ASSUME IInv, OneEventPerId, NEW p \in Pushes, Ends(p)
  PROVE  OneEventPerId'
<1>1. UNCHANGED <<store, used, queued, connect>>
  BY DEF Ends, NetworkFailure, CompleteEvent, CompleteBatch, CompletePending
<1>2. \A told : Tell(p, told) /\ (\A r \in requests' : \E q \in requests : r.batch = q.batch)
        => Batches' \subseteq Batches \cup {NoBatch}
  <2>1. \A kind, told : Idle(kind, told).batch = NoBatch
    BY DEF Idle
  <2> QED BY <2>1, OneBatches DEF Tell
<1>3. ASSUME NetworkFailure(p) PROVE Batches' \subseteq Batches \cup {NoBatch}
  BY <1>2, <1>3, OrphanedBatches DEF NetworkFailure
<1>4. ASSUME CompleteEvent(p) \/ CompleteBatch(p) PROVE Batches' \subseteq Batches \cup {NoBatch}
  BY <1>2, <1>4, DeathBatches DEF CompleteEvent, CompleteBatch
<1>5. ASSUME CompletePending(p) PROVE Batches' \subseteq Batches \cup {NoBatch}
  <2> DEFINE base == InFlight("pending", calls[p].batch, calls[p].told)
  <2>1. PICK results :
          /\ calls' = [calls EXCEPT ![p] = [base EXCEPT !.phase = "looping", !.results = results]]
          /\ UNCHANGED requests
    BY <1>5 DEF CompletePending
  <2>2. [base EXCEPT !.phase = "looping", !.results = results].batch = calls[p].batch
    BY DEF InFlight, Idle
  <2> HIDE DEF base
  <2> QED BY <2>1, <2>2, OneBatches
<1>6. Batches' \subseteq Batches \cup {NoBatch}
  BY <1>3, <1>4, <1>5 DEF Ends
<1> QED BY <1>1, <1>6, SameTables, QuietKeeps

LEMMA LoopAgrees ==
  ASSUME IInv, OneEventPerId, NEW p \in Pushes, Loops(p)
  PROVE  OneEventPerId'
<1>0. UNCHANGED <<used, queued, connect, requests>> /\ calls[p] \in Push
  BY DEF Loops, NextCollection, HandleResponse, FinishPush, IInv, CallsOK
<1>1. Rows(store') \subseteq Rows(store)
  <2>1. CASE UNCHANGED store
    BY <2>1 DEF Rows, Pending
  <2>2. CASE \E k : store' = [store EXCEPT ![k] = NoPayload]
    BY <2>2, ErasedRow DEF IInv, QueueOK
  <2> QED BY <2>1, <2>2
          DEF Loops, NextCollection, HandleResponse, FinishPush, removeEventWithId
<1>2. CASE NextCollection(p)
  <2>1. PICK work, results :
          calls' = [calls EXCEPT ![p] = [calls[p] EXCEPT !.work = work, !.results = results]]
    BY <1>2 DEF NextCollection
  <2>2. [calls[p] EXCEPT !.work = work, !.results = results].batch = calls[p].batch
    BY <1>0 DEF Push
  <2>3. Batches' \subseteq Batches \cup {NoBatch}
    BY <1>0, <2>1, <2>2, OneBatches
  <2> QED BY <1>0, <1>1, <2>3, CarriedNow, QuietKeeps DEF Rows, Pending
<1>3. CASE HandleResponse(p)
  <2> DEFINE push == [calls[p] EXCEPT !.work = Tail(calls[p].work)]
  <2>1. calls' = [calls EXCEPT ![p] = push]
    BY <1>3 DEF HandleResponse, IInv, CallsOK
  <2>2. push.batch = calls[p].batch
    BY <1>0 DEF Push
  <2> HIDE DEF push
  <2>3. Batches' \subseteq Batches \cup {NoBatch}
    BY <1>0, <2>1, <2>2, OneBatches
  <2> QED BY <1>0, <1>1, <2>3, CarriedNow, QuietKeeps DEF Rows, Pending
<1>4. CASE FinishPush(p)
  <2>1. \A kind, told : Idle(kind, told).batch = NoBatch
    BY DEF Idle
  <2>2. Batches' \subseteq Batches \cup {NoBatch}
    BY <1>0, <1>4, <2>1, OneBatches DEF FinishPush, Tell
  <2> QED BY <1>0, <1>1, <2>2, CarriedNow, QuietKeeps DEF Rows, Pending
<1> QED BY <1>2, <1>3, <1>4 DEF Loops

LEMMA AgreesInitially == Init => OneEventPerId
<1> SUFFICES ASSUME Init PROVE OneEventPerId
  OBVIOUS
<1>1. Rows(store) = {} /\ Rows(queued) = {} /\ Rows(connect) = {}
  BY DEF Init, EmptyTable, Rows, Pending
<1>2. \A b \in Batches : b = NoBatch
  BY DEF Init, AllIdle, Idle, Batches
<1>3. Carried = {}
  BY <1>1, <1>2, NothingCarried DEF Carried
<1> QED BY <1>3 DEF OneEventPerId

LEMMA AgreesAlways ==
  ASSUME Generated, IInv, OneEventPerId, [Next]_vars
  PROVE  OneEventPerId'
<1>1. CASE Application
  BY <1>1, AddEventAgrees, RemoveAgrees, PushAgrees, PushBatchAgrees, PushPendingAgrees
     DEF Application
<1>2. CASE Network
  BY <1>2, ServiceAgrees, RequestLostAgrees DEF Network
<1>3. CASE \E p \in Pushes : Ends(p)
  BY <1>3, EndAgrees
<1>4. CASE \E p \in Pushes : Loops(p)
  BY <1>4, LoopAgrees
<1>5. CASE Crash
  BY <1>5, DeathBatches, SameTables, QuietKeeps DEF Crash
<1>6. CASE UNCHANGED vars
  <2>1. Batches' = Batches /\ UNCHANGED <<store, used, queued, connect>>
    BY <1>6 DEF vars, Batches
  <2> QED BY <2>1, SameTables, QuietKeeps
<1> QED BY <1>1, <1>2, <1>3, <1>4, <1>5, <1>6 DEF Next

LEMMA Agreement ==
  ASSUME Generated
  PROVE  Spec => []OneEventPerId
<1>1. IInv /\ OneEventPerId /\ [Next]_vars => OneEventPerId'
  BY AgreesAlways
<1> QED BY <1>1, AgreesInitially, Invariance, PTL DEF Spec

\* With ids drawn by NSUUID it is the very event addEvent took, with its
\* properties, that stays in the queue until Connect has recorded it.
THEOREM EventsKept ==
  ASSUME CallerIds = {}
  PROVE  Spec => []KeptAsQueued
<1>1. IInv /\ OneEventPerId => KeptAsQueued
  <2> SUFFICES ASSUME IInv, OneEventPerId, NEW k \in Pending(queued)
               PROVE  queued[k] \in {store[k], connect[k]}
    BY DEF KeptAsQueued
  <2>1. k \in Pending(store) \cup Pending(connect)
    BY DEF IInv, QueueOK, Kept, Pending
  <2>2. <<k, queued[k]>> \in Carried
    BY DEF Carried, Rows
  <2>3. /\ k \in Pending(store) => <<k, store[k]>> \in Carried
        /\ k \in Pending(connect) => <<k, connect[k]>> \in Carried
    BY DEF Carried, Rows
  <2> QED BY <2>1, <2>2, <2>3 DEF OneEventPerId
<1>2. Generated
  BY DEF Generated
<1> QED BY <1>1, <1>2, Invariance, Agreement, PTL
-----------------------------------------------------------------------------
(***************************************************************************)
(* How a push of the pending events goes through what it sent: its results *)
(* are about events of its batch, every event the service did not reject   *)
(* is answered, and in the loops each of these is still to come or gone.   *)
(***************************************************************************)
FromBatch(push) ==
  /\ \A c \in Collections : \A i \in 1 .. Len(push.results[c]) :
       <<c, push.results[c][i].event>> \in Sent(push.batch)
  /\ \A i \in 1 .. Len(push.work) :
       <<push.work[i][1], push.work[i][2].event>> \in Sent(push.batch)

HasIds(push) == push.kind = "pending" => \A s \in Sent(push.batch) : s[2].id \in Ids

AnsweredInFull(push) ==
  push.phase = "sent" /\ push.kind = "pending" /\ push.reply.status = "ok" =>
    \A c \in Collections :
      /\ Len(push.reply.body[c]) = Len(push.batch[c])
      /\ \A i \in 1 .. Len(push.batch[c]) :
           Acceptable(push.batch[c][i]) => Settled(push.reply.body[c][i])

Follows(push) == FromBatch(push) /\ HasIds(push) /\ AnsweredInFull(push)

\* A result that will take event e of collection c off the queue.
ToCome(push, c, e) ==
  \/ \E j \in 1 .. Len(push.results[c]) :
       push.results[c][j].event = e /\ Settled(push.results[c][j])
  \/ \E j \in 1 .. Len(push.work) :
       push.work[j][1] = c /\ push.work[j][2].event = e /\ Settled(push.work[j][2])

Covers(push, table) ==
  push.phase = "looping" =>
    \A c \in Collections : \A i \in 1 .. Len(push.batch[c]) :
      Acceptable(push.batch[c][i]) =>
        \/ ToCome(push, c, push.batch[c][i])
        \/ table[<<c, push.batch[c][i].id>>] = NoPayload

LoopsOK == \A p \in Pushes : Follows(calls[p]) /\ Covers(calls[p], store)

\* A push that has not been answered.
LEMMA Unanswered ==
  ASSUME NEW push, NEW table,
         \/ \E kind, told : push = Idle(kind, told)
         \/ \E kind, batch, told :
              push = InFlight(kind, batch, told) /\ HasIds(push)
  PROVE  Follows(push) /\ Covers(push, table)
<1>1. Sent(NoBatch) = {}
  BY DEF Sent, NoBatch
<1>2. /\ push.results = NoBatch /\ push.work = <<>> /\ push.reply = NoReply
      /\ push.phase # "looping" /\ HasIds(push)
  <2>1. ASSUME NEW kind, NEW told, push = Idle(kind, told)
        PROVE  /\ push.results = NoBatch /\ push.work = <<>> /\ push.reply = NoReply
               /\ push.phase # "looping" /\ push.batch = NoBatch
    BY <2>1 DEF Idle
  <2>2. ASSUME NEW kind, NEW batch, NEW told, push = InFlight(kind, batch, told)
        PROVE  /\ push.results = NoBatch /\ push.work = <<>> /\ push.reply = NoReply
               /\ push.phase # "looping"
    BY <2>2 DEF Idle, InFlight
  <2> QED BY <1>1, <2>1, <2>2 DEF HasIds
<1> QED BY <1>2 DEF Follows, FromBatch, AnsweredInFull, Covers, NoBatch, NoReply

\* A key of an id that was drawn does not come back into the queue.
LEMMA StaysOut ==
  ASSUME Generated, IInv, [Next]_vars, NEW k \in Keys, k[2] \in used, store[k] = NoPayload
  PROVE  store'[k] = NoPayload
<1>1. store \in Table
  BY DEF IInv, QueueOK
<1>2. ASSUME NEW c \in Collections, NEW v \in Payloads, AddEvent(c, v)
      PROVE  store'[k] = NoPayload
  <2>1. PICK i \in Ids : DrawId(i) /\ store' = [store EXCEPT ![<<c, i>>] = v]
    BY <1>2 DEF AddEvent, addEvent
  <2>2. k # <<c, i>>
    BY <2>1, Drawn
  <2> QED BY <1>1, <2>1, <2>2 DEF Table
<1>3. CASE UNCHANGED store
  BY <1>3
<1>4. ASSUME NEW l, store' = [store EXCEPT ![l] = NoPayload] PROVE store'[k] = NoPayload
  BY <1>1, <1>4 DEF Table
<1>5. CASE Application
  <2>1. CASE RemoveAllPendingEvents
    BY <2>1 DEF RemoveAllPendingEvents, deleteAllPendingEvents
  <2>2. ASSUME NEW c \in Collections, NEW i \in Ids, RemovePendingEvent(c, i)
        PROVE  store'[k] = NoPayload
    BY <1>4, <2>2 DEF RemovePendingEvent, removeEventWithId
  <2>3. CASE \/ \E p \in Pushes, c \in Collections, v \in Payloads :
                  PushEvent(p, c, v) \/ PushInvalidEvent(p, c, v)
             \/ \E p \in Pushes, table \in Table : PushEventBatch(p, table)
             \/ \E p \in Pushes : PushAllPendingEvents(p)
    BY <1>3, <2>3 DEF PushEvent, PushInvalidEvent, PushEventBatch, PushAllPendingEvents
  <2> QED BY <1>2, <1>5, <2>1, <2>2, <2>3 DEF Application
<1>6. CASE Network \/ Crash \/ UNCHANGED vars
  BY <1>3, <1>6 DEF Network, ServiceAnswers, ServiceFails, RequestLost, Crash, vars
<1>7. ASSUME NEW p \in Pushes, Ends(p) PROVE UNCHANGED store
  BY <1>7 DEF Ends, NetworkFailure, CompleteEvent, CompleteBatch, CompletePending
<1>8. ASSUME NEW p \in Pushes, Loops(p)
      PROVE  UNCHANGED store \/ \E l : store' = [store EXCEPT ![l] = NoPayload]
  BY <1>8 DEF Loops, NextCollection, HandleResponse, FinishPush, removeEventWithId
<1> QED BY <1>3, <1>4, <1>5, <1>6, <1>7, <1>8 DEF Next

\* What has left the queue for a push stays out, whatever the others do.
LEMMA CoverLasts ==
  ASSUME Generated, IInv, OneEventPerId, [Next]_vars, NEW p \in Pushes,
         Covers(calls[p], store)
  PROVE  Covers(calls[p], store')
<1> SUFFICES ASSUME calls[p].phase = "looping",
                    NEW c \in Collections, NEW i \in 1 .. Len(calls[p].batch[c]),
                    Acceptable(calls[p].batch[c][i]),
                    store[<<c, calls[p].batch[c][i].id>>] = NoPayload
             PROVE  store'[<<c, calls[p].batch[c][i].id>>] = NoPayload
  BY DEF Covers
<1> DEFINE e == calls[p].batch[c][i]
           k == <<c, e.id>>
<1>1. calls[p].batch \in Batch
  BY DEF IInv, CallsOK, Push
<1>2. e \in Event /\ i \in DOMAIN calls[p].batch[c]
  BY <1>1, EventType
<1>3. k \in Keys /\ e.properties \in Payloads /\ e = [id |-> e.id, properties |-> e.properties]
  BY <1>2 DEF Acceptable, Event
<1>4. <<c, e>> \in Sent(calls[p].batch)
  BY <1>2 DEF Sent
<1> HIDE DEF e
<1>5. <<k, e.properties>> \in CarriedBy(calls[p].batch)
  <2>1. k[1] = c /\ k[2] = e.id
    OBVIOUS
  <2>2. <<k[1], [id |-> k[2], properties |-> e.properties]>> \in Sent(calls[p].batch)
    BY <1>3, <1>4, <2>1
  <2>3. k \in Keys /\ e.properties \in Payloads
    BY <1>3
  <2> HIDE DEF k
  <2>4. <<k, e.properties>> \in Keys \X Payloads
    BY <2>3
  <2>5. <<k, e.properties>>[1] = k /\ <<k, e.properties>>[2] = e.properties
    OBVIOUS
  <2> HIDE DEF Keys
  <2> QED BY <2>2, <2>4, <2>5 DEF CarriedBy
<1>6. k[2] \in used
  BY <1>5, CarriedNow DEF OneEventPerId, Batches
<1>7. store[k] = NoPayload
  BY DEF e
<1> HIDE DEF k
<1>8. store'[k] = NoPayload
  BY <1>3, <1>6, <1>7, StaysOut
<1> QED BY <1>8 DEF k, e
-----------------------------------------------------------------------------
(* The steps of one push. *)

\* A push that starts.
LEMMA StartFollows ==
  ASSUME IInv, NEW p \in Pushes,
         \/ \E c \in Collections, v \in Payloads : PushEvent(p, c, v) \/ PushInvalidEvent(p, c, v)
         \/ \E table \in Table : PushEventBatch(p, table)
         \/ PushAllPendingEvents(p)
  PROVE  \A q \in Pushes :
           \/ calls'[q] = calls[q]
           \/ Follows(calls'[q]) /\ Covers(calls'[q], store')
<1>1. ASSUME NEW kind, NEW batch, NEW told, Send(p, kind, batch, told),
             kind = "pending" => \A s \in Sent(batch) : s[2].id \in Ids
      PROVE  \A q \in Pushes :
               \/ calls'[q] = calls[q]
               \/ Follows(calls'[q]) /\ Covers(calls'[q], store')
  <2>1. InFlight(kind, batch, told).kind = kind /\ InFlight(kind, batch, told).batch = batch
    BY DEF InFlight, Idle
  <2>2. HasIds(InFlight(kind, batch, told))
    BY <1>1, <2>1 DEF HasIds
  <2>3. CASE calls' = [calls EXCEPT ![p] = InFlight(kind, batch, told)]
    BY <2>2, <2>3, OneMoves, Unanswered
  <2>4. CASE calls' = [calls EXCEPT ![p] = Idle(kind, Append(told, Failure))]
    BY <2>4, OneMoves, Unanswered
  <2>5. CASE Dies
    BY <2>5, Unanswered DEF Dies, AllIdle
  <2> QED BY <1>1, <2>3, <2>4, <2>5 DEF Send
<1>2. CASE \E c \in Collections, v \in Payloads : PushEvent(p, c, v) \/ PushInvalidEvent(p, c, v)
  <2>1. \E batch, told : Send(p, "event", batch, told)
    BY <1>2 DEF PushEvent, PushInvalidEvent
  <2> QED BY <1>1, <2>1
<1>3. CASE \E table \in Table : PushEventBatch(p, table)
  <2>1. \/ \E batch : Send(p, "batch", batch, <<>>)
        \/ calls' = [calls EXCEPT ![p] = Idle("batch", <<Failure>>)]
    BY <1>3 DEF PushEventBatch
  <2> QED BY <1>1, <2>1, OneMoves, Unanswered
<1>4. CASE PushAllPendingEvents(p)
  <2>1. PICK batch \in fetchPendingEvents(store) : Send(p, "pending", batch, <<>>)
    BY <1>4 DEF PushAllPendingEvents
  <2>2. store \in Table
    BY DEF IInv, QueueOK
  <2>3. Sent(batch) = {<<k[1], [id |-> k[2], properties |-> store[k]]>> : k \in Pending(store)}
    BY <2>2, FetchedRows
  <2>4. \A s \in Sent(batch) : s[2].id \in Ids
    BY <2>3 DEF Pending
  <2> QED BY <1>1, <2>1, <2>4
<1> QED BY <1>2, <1>3, <1>4

\* A push that is answered: only a full answer has the status 200.
LEMMA ServiceFollows ==
  ASSUME IInv, NEW r \in requests, ServiceAnswers(r) \/ ServiceFails(r),
         \A q \in Pushes : Follows(calls[q])
  PROVE  \A q \in Pushes :
           \/ calls'[q] = calls[q]
           \/ Follows(calls'[q]) /\ Covers(calls'[q], store')
<1>1. r.batch \in Batch /\ connect \in Table
  BY DEF IInv, CallsOK, QueueOK, Request
<1>2. CASE r.owner = NoPush
  BY <1>2 DEF ServiceAnswers, ServiceFails, Deliver
<1>3. CASE r.owner # NoPush
  <2> DEFINE p == r.owner
  <2>1. p \in Pushes /\ calls[p].phase = "sent" /\ calls[p].batch = r.batch /\ calls[p] \in Push
    BY <1>3 DEF IInv, CallsOK, RequestsMatch, Request
  <2>2. PICK reply :
          /\ Deliver(r, reply)
          /\ calls[p].kind = "pending" /\ reply.status = "ok" => reply.body = Answer(connect, r.batch)
    <3>1. \A status : [NoReply EXCEPT !.status = status].status = status
      BY DEF NoReply
    <3>2. CASE ServiceFails(r)
      <4>1. PICK status \in Statuses : Deliver(r, [NoReply EXCEPT !.status = status])
        BY <3>2 DEF ServiceFails
      <4>2. status # "ok"
        BY ClientAssumption
      <4> QED BY <3>1, <4>1, <4>2
    <3>3. CASE ServiceAnswers(r) /\ calls[p].kind = "event"
      <4>1. Deliver(r, [NoReply EXCEPT !.status = SingleStatus(connect, r.batch)])
        BY <1>3, <3>3 DEF ServiceAnswers
      <4> QED BY <3>3, <4>1
    <3>4. CASE ServiceAnswers(r) /\ calls[p].kind # "event"
      <4>1. Deliver(r, [status |-> "ok", body |-> Answer(connect, r.batch)])
        BY <3>4 DEF ServiceAnswers
      <4> QED BY <4>1
    <3> QED BY <3>2, <3>3, <3>4
  <2> DEFINE push == [calls[p] EXCEPT !.reply = reply]
  <2>3. calls' = [calls EXCEPT ![p] = push]
    BY <1>3, <2>1, <2>2 DEF Deliver, IInv, CallsOK
  <2>4. /\ push.phase = "sent" /\ push.kind = calls[p].kind /\ push.batch = calls[p].batch
        /\ push.results = calls[p].results /\ push.work = calls[p].work /\ push.reply = reply
    BY <2>1 DEF Push
  <2> HIDE DEF push
  <2>5. ASSUME push.kind = "pending", push.reply.status = "ok", NEW c \in Collections
        PROVE  /\ Len(push.reply.body[c]) = Len(push.batch[c])
               /\ \A i \in 1 .. Len(push.batch[c]) :
                    Acceptable(push.batch[c][i]) => Settled(push.reply.body[c][i])
    <3>1. push.reply.body = Answer(connect, r.batch) /\ push.batch = r.batch
      BY <2>1, <2>2, <2>4, <2>5
    <3>2. Len(Answer(connect, r.batch)[c]) = Len(r.batch[c])
      BY <1>1, AnswerTrue
    <3>3. \A i \in 1 .. Len(r.batch[c]) :
            Acceptable(r.batch[c][i]) => Settled(Answer(connect, r.batch)[c][i])
      BY DEF Answer, Verdict, Settled
    <3> QED BY <3>1, <3>2, <3>3
  <2>6. Follows(push)
    <3>1. Follows(calls[p])
      BY <2>1
    <3>2. FromBatch(push) /\ HasIds(push)
      BY <2>4, <3>1 DEF Follows, FromBatch, HasIds
    <3>3. AnsweredInFull(push)
      BY <2>5 DEF AnsweredInFull
    <3> QED BY <3>2, <3>3 DEF Follows
  <2>7. Covers(push, store')
    BY <2>4 DEF Covers
  <2> QED BY <2>1, <2>3, <2>6, <2>7, OneMoves
<1> QED BY <1>2, <1>3
\* The results of a push of the pending events are about its batch, and those
\* that are to be removed are among them.
LEMMA CompletePendingFollows ==
  ASSUME IInv, NEW p \in Pushes, CompletePending(p), Follows(calls[p])
  PROVE  Follows(calls'[p]) /\ Covers(calls'[p], store)
<1> DEFINE call == calls[p]
           results == processBatchResponse(call.reply.body, call.batch)
           push == [InFlight("pending", call.batch, call.told) EXCEPT
                      !.phase = "looping", !.results = results]
<1>1. /\ call \in Push /\ call.batch \in Batch /\ call.reply.body \in Body
      /\ \A c \in Collections : Len(call.reply.body[c]) <= Len(call.batch[c])
      /\ call.phase = "sent" /\ call.kind = "pending" /\ call.reply.status = "ok"
  BY DEF IInv, CallsOK, Honest, Push, Reply, CompletePending, Waiting
<1>2. \A c \in Collections :
        /\ Len(results[c]) = Len(call.reply.body[c])
        /\ \A i \in 1 .. Len(call.reply.body[c]) :
             /\ results[c][i].event = call.batch[c][i]
             /\ Settled(results[c][i]) <=> Settled(call.reply.body[c][i])
  <2> HIDE DEF call
  <2> QED BY <1>1, ResultsPair
<1>3. calls' = [calls EXCEPT ![p] = push]
  BY DEF CompletePending
<1>4. calls'[p] = push
  BY <1>3, OneMoves
<1>5. /\ push.phase = "looping" /\ push.kind = "pending" /\ push.batch = call.batch
      /\ push.results = results /\ push.work = <<>>
  BY DEF InFlight, Idle
<1>6. /\ \A s \in Sent(call.batch) : s[2].id \in Ids
      /\ \A c \in Collections :
           /\ Len(call.reply.body[c]) = Len(call.batch[c])
           /\ \A i \in 1 .. Len(call.batch[c]) :
                Acceptable(call.batch[c][i]) => Settled(call.reply.body[c][i])
  BY <1>1 DEF Follows, HasIds, AnsweredInFull
<1> HIDE DEF call, results, push
<1>7. ASSUME NEW c \in Collections, NEW i \in 1 .. Len(results[c])
      PROVE  <<c, results[c][i].event>> \in Sent(call.batch)
  <2>1. i \in DOMAIN call.batch[c] /\ results[c][i].event = call.batch[c][i]
    BY <1>1, <1>2, <1>6, EventType
  <2> QED BY <2>1 DEF Sent
<1>8. Follows(push)
  BY <1>5, <1>6, <1>7 DEF Follows, FromBatch, HasIds, AnsweredInFull
<1>9. ASSUME NEW c \in Collections, NEW i \in 1 .. Len(call.batch[c]),
             Acceptable(call.batch[c][i])
      PROVE  ToCome(push, c, call.batch[c][i])
  <2>1. i \in 1 .. Len(call.reply.body[c]) /\ Settled(call.reply.body[c][i])
    BY <1>6, <1>9
  <2>2. /\ i \in 1 .. Len(results[c]) /\ results[c][i].event = call.batch[c][i]
        /\ Settled(results[c][i])
    BY <1>2, <2>1
  <2> QED BY <1>5, <2>2 DEF ToCome
<1> QED BY <1>4, <1>5, <1>8, <1>9 DEF Covers

LEMMA NextCollectionFollows ==
  ASSUME IInv, NEW p \in Pushes, NextCollection(p),
         Follows(calls[p]), Covers(calls[p], store)
  PROVE  Follows(calls'[p]) /\ Covers(calls'[p], store)
<1>1. PICK c \in Collections :
        calls' = [calls EXCEPT ![p] =
          [calls[p] EXCEPT
             !.work    = [i \in 1..Len(calls[p].results[c]) |->
                            <<c, calls[p].results[c][i]>>],
             !.results = [calls[p].results EXCEPT ![c] = <<>>]]]
  BY DEF NextCollection
<1> DEFINE call == calls[p]
           work == [i \in 1..Len(call.results[c]) |-> <<c, call.results[c][i]>>]
           left == [call.results EXCEPT ![c] = <<>>]
           push == [call EXCEPT !.work = work, !.results = left]
<1>2. call \in Push /\ call.work = <<>> /\ call.phase = "looping"
  BY DEF IInv, CallsOK, NextCollection, Looping
<1>3. call.results[c] \in Seq(EventAPIResponse) /\ Len(call.results[c]) \in Nat
  BY <1>2 DEF Push, Results
<1>4. /\ Len(work) = Len(call.results[c])
      /\ \A i \in 1 .. Len(work) : work[i][1] = c /\ work[i][2] = call.results[c][i]
  BY <1>3
<1>5. \A d \in Collections : left[d] = IF d = c THEN <<>> ELSE call.results[d]
  BY <1>2 DEF Push, Results
<1>6. calls'[p] = push
  BY <1>1, OneMoves
<1> HIDE DEF work, left
<1>7. /\ push.phase = "looping" /\ push.kind = call.kind /\ push.batch = call.batch
      /\ push.results = left /\ push.work = work
  BY <1>2 DEF Push
<1> HIDE DEF call, push
<1>8. FromBatch(call) /\ HasIds(call)
  BY DEF Follows, call
<1>9. Follows(push)
  <2>1. \A d \in Collections : \A i \in 1 .. Len(left[d]) : d # c /\ left[d] = call.results[d]
    BY <1>5
  <2>2. FromBatch(push)
    BY <1>4, <1>7, <1>8, <2>1 DEF FromBatch
  <2> QED BY <1>7, <1>8, <2>2 DEF Follows, HasIds, AnsweredInFull
<1>10. ASSUME NEW d \in Collections, NEW e, ToCome(call, d, e)
       PROVE  ToCome(push, d, e)
  <2>1. PICK j \in 1 .. Len(call.results[d]) :
          call.results[d][j].event = e /\ Settled(call.results[d][j])
    BY <1>2, <1>10 DEF ToCome
  <2>2. CASE d = c
    <3>1. j \in 1 .. Len(work) /\ work[j][1] = d /\ work[j][2] = call.results[d][j]
      BY <1>4, <2>1, <2>2
    <3> QED BY <1>7, <2>1, <3>1 DEF ToCome
  <2>3. CASE d # c
    BY <1>5, <1>7, <2>1, <2>3 DEF ToCome
  <2> QED BY <2>2, <2>3
<1>11. Covers(call, store)
  BY DEF call
<1> QED BY <1>2, <1>6, <1>7, <1>9, <1>10, <1>11 DEF Covers

LEMMA HandleResponseFollows ==
  ASSUME IInv, NEW p \in Pushes, HandleResponse(p),
         Follows(calls[p]), Covers(calls[p], store)
  PROVE  Follows(calls'[p]) /\ Covers(calls'[p], store')
<1> DEFINE call == calls[p]
           work == call.work
           push == [call EXCEPT !.work = Tail(work)]
           c == Head(work)[1]
           response == Head(work)[2]
<1>1. call \in Push /\ work # <<>> /\ call.phase = "looping" /\ store \in Table
  BY DEF IInv, CallsOK, QueueOK, HandleResponse, Looping
<1>2. /\ work \in Seq(Collections \X EventAPIResponse) /\ Len(work) \in Nat \ {0}
      /\ Head(work) = work[1]
  BY <1>1 DEF Push
<1>3. /\ Len(Tail(work)) = Len(work) - 1
      /\ \A i \in 1 .. Len(Tail(work)) : Tail(work)[i] = work[i + 1] /\ i + 1 \in 1 .. Len(work)
  BY <1>2
<1>4. calls'[p] = push
  BY OneMoves DEF HandleResponse, IInv, CallsOK
<1>5. store' = IF Settled(response)
                 THEN [store EXCEPT ![<<c, response.event.id>>] = NoPayload]
                 ELSE store
  BY DEF HandleResponse, removeEventWithId
<1>6. /\ push.phase = "looping" /\ push.kind = call.kind /\ push.batch = call.batch
      /\ push.results = call.results /\ push.work = Tail(work)
  BY <1>1 DEF Push
<1>7. FromBatch(call) /\ HasIds(call) /\ Covers(call, store)
  BY DEF Follows
<1>8. Follows(push)
  <2> HIDE DEF push
  <2>1. FromBatch(push)
    BY <1>3, <1>6, <1>7 DEF FromBatch
  <2> QED BY <1>6, <1>7, <2>1 DEF Follows, HasIds, AnsweredInFull
<1>9. ASSUME NEW d \in Collections, NEW i \in 1 .. Len(push.batch[d]),
             Acceptable(push.batch[d][i])
      PROVE  \/ ToCome(push, d, push.batch[d][i])
             \/ store'[<<d, push.batch[d][i].id>>] = NoPayload
  <2> DEFINE e == call.batch[d][i]
  <2>1. push.batch[d][i] = e /\ i \in 1 .. Len(call.batch[d]) /\ Acceptable(e)
    BY <1>6, <1>9
  <2>2. <<d, e.id>> \in Keys
    BY <2>1 DEF Acceptable
  <2> HIDE DEF push
  <2>3. CASE store[<<d, e.id>>] = NoPayload
    BY <1>1, <1>5, <2>1, <2>2, <2>3 DEF Table
  <2>4. ASSUME NEW j \in 1 .. Len(call.results[d]),
               call.results[d][j].event = e, Settled(call.results[d][j])
        PROVE  ToCome(push, d, e)
    BY <1>6, <2>4 DEF ToCome
  <2>5. ASSUME NEW j \in 1 .. Len(work), work[j][1] = d, work[j][2].event = e, Settled(work[j][2])
        PROVE  ToCome(push, d, e) \/ store'[<<d, e.id>>] = NoPayload
    <3>1. CASE j = 1
      <4>1. c = d /\ response.event = e /\ Settled(response)
        BY <1>2, <2>5, <3>1
      <4> QED BY <1>1, <1>5, <2>2, <4>1 DEF Table
    <3>2. CASE j # 1
      <4>1. j - 1 \in 1 .. Len(Tail(work)) /\ Tail(work)[j - 1] = work[j]
        BY <1>2, <1>3, <3>2
      <4> QED BY <1>6, <2>5, <4>1 DEF ToCome
    <3> QED BY <3>1, <3>2
  <2>6. ToCome(call, d, e) \/ store[<<d, e.id>>] = NoPayload
    BY <1>1, <1>7, <2>1 DEF Covers
  <2> QED BY <2>1, <2>3, <2>4, <2>5, <2>6 DEF ToCome
<1> HIDE DEF push
<1> QED BY <1>4, <1>8, <1>9 DEF Covers
\* Whatever the step, a push keeps its record, or has one that is in order.
LEMMA RecordFollows ==
  ASSUME Generated, IInv, LoopsOK, [Next]_vars, NEW q \in Pushes
  PROVE  \/ calls'[q] = calls[q]
         \/ Follows(calls'[q]) /\ Covers(calls'[q], store')
<1> DEFINE Fine(x) == calls'[x] = calls[x] \/ (Follows(calls'[x]) /\ Covers(calls'[x], store'))
<1>0. \A p \in Pushes : Follows(calls[p]) /\ Covers(calls[p], store)
  BY DEF LoopsOK
<1>1. CASE Dies
  <2>1. calls'[q] = Idle("none", <<>>)
    BY <1>1 DEF Dies, AllIdle
  <2> QED BY <2>1, Unanswered
<1>2. ASSUME NEW p \in Pushes, NEW told, Tell(p, told)
      PROVE  Fine(q)
  <2>1. calls'[p] = Idle(calls[p].kind, Append(calls[p].told, told)) /\ (q # p => calls'[q] = calls[q])
    BY <1>2, OneMoves DEF Tell
  <2> QED BY <2>1, Unanswered
<1>3. CASE Application
  <2>1. CASE \/ \E c \in Collections, v \in Payloads : AddEvent(c, v)
             \/ \E c \in Collections, i \in Ids : RemovePendingEvent(c, i)
             \/ RemoveAllPendingEvents
    BY <2>1 DEF AddEvent, RemovePendingEvent, RemoveAllPendingEvents
  <2>2. ASSUME NEW p \in Pushes,
               \/ \E c \in Collections, v \in Payloads :
                    PushEvent(p, c, v) \/ PushInvalidEvent(p, c, v)
               \/ \E table \in Table : PushEventBatch(p, table)
               \/ PushAllPendingEvents(p)
        PROVE  Fine(q)
    <3>1. UNCHANGED store
      BY <2>2 DEF PushEvent, PushInvalidEvent, PushEventBatch, PushAllPendingEvents
    <3> QED BY <2>2, <3>1, StartFollows
  <2> QED BY <1>3, <2>1, <2>2 DEF Application
<1>4. CASE Network
  <2>1. ASSUME NEW r \in requests, ServiceAnswers(r) \/ ServiceFails(r) PROVE Fine(q)
    <3>1. UNCHANGED store
      BY <2>1 DEF ServiceAnswers, ServiceFails
    <3> QED BY <1>0, <2>1, <3>1, ServiceFollows
  <2>2. ASSUME NEW r \in requests, RequestLost(r) PROVE Fine(q)
    BY <2>2 DEF RequestLost
  <2> QED BY <1>4, <2>1, <2>2 DEF Network
<1>5. ASSUME NEW p \in Pushes, Ends(p) PROVE Fine(q)
  <2>1. CASE CompletePending(p)
    <3>1. UNCHANGED store /\ (q # p => calls'[q] = calls[q])
      BY <2>1, OneMoves DEF CompletePending
    <3> QED BY <1>0, <2>1, <3>1, CompletePendingFollows
  <2>2. CASE NetworkFailure(p) \/ CompleteEvent(p) \/ CompleteBatch(p)
    BY <1>1, <1>2, <2>2 DEF NetworkFailure, CompleteEvent, CompleteBatch
  <2> QED BY <1>5, <2>1, <2>2 DEF Ends
<1>6. ASSUME NEW p \in Pushes, Loops(p) PROVE Fine(q)
  <2>1. CASE NextCollection(p)
    <3>1. UNCHANGED store /\ (q # p => calls'[q] = calls[q])
      BY <2>1, OneMoves DEF NextCollection
    <3> QED BY <1>0, <2>1, <3>1, NextCollectionFollows
  <2>2. CASE HandleResponse(p)
    <3>1. q # p => calls'[q] = calls[q]
      BY <2>2 DEF HandleResponse, IInv, CallsOK
    <3> QED BY <1>0, <2>2, <3>1, HandleResponseFollows
  <2>3. CASE FinishPush(p)
    BY <1>2, <2>3 DEF FinishPush
  <2> QED BY <1>6, <2>1, <2>2, <2>3 DEF Loops
<1>7. CASE Crash
  BY <1>1, <1>7 DEF Crash
<1>8. CASE UNCHANGED vars
  BY <1>8 DEF vars
<1> QED BY <1>3, <1>4, <1>5, <1>6, <1>7, <1>8 DEF Next

LEMMA LoopsStay ==
  ASSUME Generated, IInv, OneEventPerId, LoopsOK, [Next]_vars
  PROVE  LoopsOK'
<1> SUFFICES ASSUME NEW p \in Pushes PROVE Follows(calls'[p]) /\ Covers(calls'[p], store')
  BY DEF LoopsOK
<1>1. Follows(calls[p]) /\ Covers(calls[p], store)
  BY DEF LoopsOK
<1>2. Covers(calls[p], store')
  BY <1>1, CoverLasts
<1> QED BY <1>1, <1>2, RecordFollows

LEMMA LoopsInvariance ==
  ASSUME Generated
  PROVE  Spec => []LoopsOK
<1>1. Init => LoopsOK
  <2> SUFFICES ASSUME Init, NEW p \in Pushes PROVE Follows(calls[p]) /\ Covers(calls[p], store)
    BY DEF LoopsOK
  <2>1. calls[p] = Idle("none", <<>>)
    BY DEF Init, AllIdle
  <2> QED BY <2>1, Unanswered
<1>2. IInv /\ OneEventPerId /\ LoopsOK /\ [Next]_vars => LoopsOK'
  BY LoopsStay
<1> QED BY <1>1, <1>2, Invariance, Agreement, PTL DEF Spec

-----------------------------------------------------------------------------
(* An answer is about the event that is in the queue. *)

LEMMA ResultIsSent ==
  ASSUME IInv, OneEventPerId, LoopsOK, NEW p \in Pushes, HandleResponse(p),
         NEW k \in Pending(store), store'[k] = NoPayload
  PROVE  <<k[1], [id |-> k[2], properties |-> store[k]]>> \in Sent(calls[p].batch)
<1> DEFINE c == Head(calls[p].work)[1]
           e == Head(calls[p].work)[2].event
<1>1. /\ store \in Table /\ calls[p].batch \in Batch
      /\ calls[p].work \in Seq(Collections \X EventAPIResponse) /\ calls[p].work # <<>>
  BY DEF IInv, QueueOK, CallsOK, Push, HandleResponse
<1>2. k = <<c, e.id>> /\ k \in Keys
  BY <1>1 DEF HandleResponse, removeEventWithId, Pending, Table
<1>3. <<c, e>> \in Sent(calls[p].batch)
  <2>1. 1 \in 1 .. Len(calls[p].work) /\ Head(calls[p].work) = calls[p].work[1]
    BY <1>1
  <2> QED BY <2>1 DEF LoopsOK, Follows, FromBatch
<1>4. e \in Event
  <2>0. PICK d \in Collections :
          \E i \in DOMAIN calls[p].batch[d] : <<c, e>> = <<d, calls[p].batch[d][i]>>
    BY <1>3 DEF Sent
  <2>1. PICK i \in DOMAIN calls[p].batch[d] : <<c, e>> = <<d, calls[p].batch[d][i]>>
    BY <2>0
  <2>2. i \in 1 .. Len(calls[p].batch[d]) /\ e = calls[p].batch[d][i]
    BY <1>1, <2>1, EventType
  <2> QED BY <1>1, <2>2, EventType
<1> HIDE DEF c, e
<1>5. k[1] = c /\ k[2] = e.id /\ e = [id |-> k[2], properties |-> e.properties] /\ e.properties \in Payloads
  BY <1>2, <1>4 DEF Event
<1>6. <<k, e.properties>> \in Carried
  <2>1. <<k[1], [id |-> k[2], properties |-> e.properties]>> \in Sent(calls[p].batch)
    BY <1>3, <1>5
  <2>2. /\ <<k, e.properties>> \in Keys \X Payloads
        /\ <<k, e.properties>>[1] = k /\ <<k, e.properties>>[2] = e.properties
    BY <1>2, <1>5
  <2>3. <<k, e.properties>> \in CarriedBy(calls[p].batch)
    <3> HIDE DEF Keys
    <3> QED BY <2>1, <2>2 DEF CarriedBy
  <2> QED BY <2>3, CarriedNow DEF Batches
<1>7. <<k, store[k]>> \in Carried
  BY DEF Carried, Rows
<1>8. store[k] = e.properties
  BY <1>6, <1>7 DEF OneEventPerId
<1> QED BY <1>3, <1>5, <1>8

\* Only the loops of a push take an event off the queue that the application
\* has not removed.
LEMMA OnlyLoopsRemove ==
  ASSUME IInv, [Next]_vars, NEW k \in Pending(store),
         store'[k] = NoPayload, queued'[k] # NoPayload
  PROVE  \E p \in Pushes : HandleResponse(p)
<1>0. store \in Table /\ queued \in Table /\ k \in Keys /\ store[k] # NoPayload
  BY DEF IInv, QueueOK, Pending
<1>1. store' # store
  BY <1>0
<1>2. ASSUME NEW c \in Collections, NEW v \in Payloads, AddEvent(c, v) PROVE FALSE
  BY <1>0, <1>2, StoreAssumption DEF AddEvent, addEvent, Table
<1>3. ASSUME NEW c \in Collections, NEW i \in Ids, RemovePendingEvent(c, i) PROVE FALSE
  BY <1>0, <1>3 DEF RemovePendingEvent, removeEventWithId, Table
<1>4. ~RemoveAllPendingEvents
  BY <1>0 DEF RemoveAllPendingEvents, EmptyTable
<1>5. ~Application
  BY <1>1, <1>2, <1>3, <1>4
     DEF Application, PushEvent, PushInvalidEvent, PushEventBatch, PushAllPendingEvents
<1>6. ~Network /\ ~Crash /\ ~UNCHANGED vars
  BY <1>1 DEF Network, ServiceAnswers, ServiceFails, RequestLost, Crash, vars
<1>7. \A p \in Pushes : ~Ends(p) /\ ~NextCollection(p) /\ ~FinishPush(p)
  BY <1>1 DEF Ends, NetworkFailure, CompleteEvent, CompleteBatch, CompletePending,
              NextCollection, FinishPush
<1> QED BY <1>5, <1>6, <1>7 DEF Next, Loops

\* With ids drawn by NSUUID, an event the client takes off the queue is one
\* that the push whose results it goes through has sent, with its properties:
\* that push, and not only another one that is under way.
THEOREM OnlySentRemoved ==
  ASSUME CallerIds = {}
  PROVE  Spec => RemovesWhatItSent
<1>1. IInv /\ OneEventPerId /\ LoopsOK /\ [Next]_vars =>
        \A k \in Pending(store) :
          store'[k] = NoPayload /\ queued'[k] # NoPayload =>
            \E p \in Pushes :
              /\ Looping(p)
              /\ <<k[1], [id |-> k[2], properties |-> store[k]]>> \in Sent(calls[p].batch)
  <2>1. \A p \in Pushes : HandleResponse(p) => Looping(p)
    BY DEF HandleResponse
  <2> QED BY <2>1, OnlyLoopsRemove, ResultIsSent
<1>2. Generated
  BY DEF Generated
<1> QED BY <1>1, <1>2, Invariance, Agreement, LoopsInvariance, PTL DEF Spec, RemovesWhatItSent
-----------------------------------------------------------------------------
(* What a successful push leaves behind. *)

LEMMA OnlyFinishTells ==
  ASSUME IInv, [Next]_vars, NEW p \in Pushes, Looping(p),
         calls'[p].phase = "idle", Success \in Range(calls'[p].told)
  PROVE  FinishPush(p)
<1>0. calls[p].phase = "looping" /\ calls[p] \in Push
  BY DEF Looping, IInv, CallsOK
<1>1. calls'[p] # calls[p]
  BY <1>0
<1>2. ~Dies
  <2>1. Idle("none", <<>>).told = <<>>
    BY DEF Idle
  <2>2. Success \notin Range(<<>>)
    BY DEF Range
  <2> QED BY <2>1, <2>2 DEF Dies, AllIdle
<1>3. ASSUME NEW q \in Pushes, NEW push, calls' = [calls EXCEPT ![q] = push] PROVE q = p
  BY <1>1, <1>3, OneMoves
<1>4. ASSUME NEW q \in Pushes, NEW kind, NEW batch, NEW told, Send(q, kind, batch, told),
             calls[q].phase = "idle"
      PROVE  FALSE
  BY <1>0, <1>2, <1>3, <1>4 DEF Send
<1>5. ~Application
  <2>1. ~(\E c \in Collections, v \in Payloads : AddEvent(c, v)) /\ ~RemoveAllPendingEvents
        /\ ~(\E c \in Collections, i \in Ids : RemovePendingEvent(c, i))
    BY <1>1 DEF AddEvent, RemovePendingEvent, RemoveAllPendingEvents
  <2>2. ASSUME NEW q \in Pushes, NEW c \in Collections, NEW v \in Payloads,
               PushEvent(q, c, v) \/ PushInvalidEvent(q, c, v)
        PROVE  FALSE
    BY <1>4, <2>2 DEF PushEvent, PushInvalidEvent, Free
  <2>3. ASSUME NEW q \in Pushes, NEW table \in Table, PushEventBatch(q, table) PROVE FALSE
    BY <1>0, <1>3, <1>4, <2>3 DEF PushEventBatch, Free
  <2>4. ASSUME NEW q \in Pushes, PushAllPendingEvents(q) PROVE FALSE
    BY <1>4, <2>4 DEF PushAllPendingEvents, Free
  <2> QED BY <2>1, <2>2, <2>3, <2>4 DEF Application
<1>6. ~Network
  <2>1. ASSUME NEW r \in requests, NEW reply, Deliver(r, reply) PROVE FALSE
    <3>1. r.owner # NoPush /\ r.owner \in Pushes /\ calls[r.owner].phase = "sent"
      BY <1>1, <2>1 DEF Deliver, IInv, CallsOK, RequestsMatch, Request
    <3>2. r.owner # p
      BY <1>0, <3>1
    <3> QED BY <1>1, <2>1, <3>1, <3>2 DEF Deliver, IInv, CallsOK
  <2> QED BY <1>1, <2>1 DEF Network, ServiceAnswers, ServiceFails, RequestLost
<1>7. \A q \in Pushes : ~Ends(q)
  BY <1>0 DEF Ends, NetworkFailure, CompleteEvent, CompleteBatch, CompletePending,
              Waiting, DelegateIdle
<1>8. ASSUME NEW q \in Pushes, NextCollection(q) PROVE FALSE
  <2>1. PICK work, results :
          calls' = [calls EXCEPT ![q] = [calls[q] EXCEPT !.work = work, !.results = results]]
    BY <1>8 DEF NextCollection
  <2>2. q = p
    BY <1>3, <2>1
  <2>3. calls'[p] = [calls[p] EXCEPT !.work = work, !.results = results]
    BY <2>1, <2>2, OneMoves
  <2> QED BY <1>0, <2>3 DEF Push
<1>9. ASSUME NEW q \in Pushes, HandleResponse(q) PROVE FALSE
  BY <1>0, <1>9 DEF HandleResponse, IInv, CallsOK, Push
<1>10. ASSUME NEW q \in Pushes, FinishPush(q) PROVE q = p
  BY <1>3, <1>10 DEF FinishPush, Tell
<1>11. ~Crash /\ ~UNCHANGED vars
  BY <1>1, <1>2 DEF Crash, vars
<1> QED BY <1>5, <1>6, <1>7, <1>8, <1>9, <1>10, <1>11 DEF Next, Loops

LEMMA FinishedIsSettled ==
  ASSUME IInv, HandlersOK, LoopsOK, NEW p \in Pushes, FinishPush(p),
         NEW s \in Sent(calls[p].batch), s[2].properties \notin Rejected
  PROVE  store'[<<s[1], s[2].id>>] # s[2].properties
<1>0. /\ calls[p].phase = "looping" /\ calls[p].work = <<>> /\ calls[p].results = NoBatch
      /\ UNCHANGED store /\ calls[p].batch \in Batch
  BY DEF FinishPush, Looping, IInv, CallsOK, Push
<1>1. PICK c \in Collections : \E j \in DOMAIN calls[p].batch[c] : s = <<c, calls[p].batch[c][j]>>
  BY DEF Sent
<1>2. PICK i \in DOMAIN calls[p].batch[c] : s = <<c, calls[p].batch[c][i]>>
  BY <1>1
<1> DEFINE e == calls[p].batch[c][i]
<1>3. i \in 1 .. Len(calls[p].batch[c]) /\ e.properties \in Payloads /\ s[1] = c /\ s[2] = e
  BY <1>0, <1>2, EventType
<1>4. s[2].id \in Ids
  BY <1>0 DEF HandlersOK, HandlerOK, LoopsOK, Follows, HasIds
<1> HIDE DEF e
<1>5. Acceptable(e)
  BY <1>3, <1>4 DEF Acceptable
<1>6. ~ToCome(calls[p], c, e)
  BY <1>0 DEF ToCome, NoBatch
<1>7. store[<<c, e.id>>] = NoPayload
  BY <1>0, <1>3, <1>5, <1>6 DEF LoopsOK, Covers, e
<1> QED BY <1>0, <1>3, <1>7, StoreAssumption

\* With ids drawn by NSUUID, when the handler of -pushAllPendingEvents: is given
\* results, no event of that push is left in the queue but those that Connect
\* rejected, whatever was added, removed and pushed meanwhile.
THEOREM PushSettles ==
  ASSUME CallerIds = {}
  PROVE  Spec => SuccessSettles
<1>1. IInv /\ HandlersOK /\ LoopsOK /\ [Next]_vars =>
        \A p \in Pushes :
          Looping(p) /\ calls'[p].phase = "idle" /\ Success \in Range(calls'[p].told) =>
            \A s \in Sent(calls[p].batch) :
              s[2].properties \notin Rejected
                => store'[<<s[1], s[2].id>>] # s[2].properties
  BY OnlyFinishTells, FinishedIsSettled
<1>2. Generated
  BY DEF Generated
<1> QED BY <1>1, <1>2, Invariance, HandlersInvariance, LoopsInvariance, PTL
        DEF Spec, SuccessSettles

-----------------------------------------------------------------------------
(* The client implements the abstract queue of events. *)

LEMMA AddEventRefines ==
  ASSUME Generated, IInv, OneEventPerId, NEW c \in Collections, NEW v \in Payloads, AddEvent(c, v)
  PROVE  \E s \in Keys \X Payloads : ByEvent!Enqueue(s)
<1>1. PICK i \in Ids :
        /\ DrawId(i)
        /\ store' = [store EXCEPT ![<<c, i>>] = v]
        /\ queued' = [queued EXCEPT ![<<c, i>>] = v]
  BY DEF AddEvent, addEvent
<1> DEFINE k == <<c, i>>
<1>2. store \in Table /\ queued \in Table /\ UNCHANGED connect /\ k \in Keys
  BY DEF IInv, QueueOK, AddEvent
<1>3. i \notin used
  BY <1>1, Drawn
<1>4. ASSUME NEW table \in Table, Rows(table) \subseteq Carried
      PROVE  Rows([table EXCEPT ![k] = v]) = Rows(table) \cup {<<k, v>>}
  <2>1. k \notin Pending(table)
    <3>1. k \in Pending(table) => <<k, table[k]>> \in Carried
      BY <1>4 DEF Rows
    <3> QED BY <1>3, <3>1 DEF OneEventPerId
  <2>2. \A l \in Keys : [table EXCEPT ![k] = v][l] = IF l = k THEN v ELSE table[l]
    BY DEF Table
  <2> HIDE DEF k
  <2> QED BY <1>2, <2>1, <2>2, StoreAssumption DEF Rows, Pending
<1> HIDE DEF k
<1>5. Rows(store') = Rows(store) \cup {<<k, v>>} /\ Rows(queued') = Rows(queued) \cup {<<k, v>>}
  BY <1>1, <1>2, <1>4, CarriedNow DEF k
<1>6. <<k, v>> \in Keys \X Payloads
  BY <1>2
<1>7. ByEvent!Enqueue(<<k, v>>)
  BY <1>2, <1>5 DEF ByEvent!Enqueue, Rows, Pending
<1> HIDE DEF Keys
<1> QED BY <1>6, <1>7

LEMMA RemoveRefines ==
  ASSUME IInv,
         \/ \E c \in Collections, i \in Ids : RemovePendingEvent(c, i)
         \/ RemoveAllPendingEvents
  PROVE  \E S \in SUBSET (Keys \X Payloads) : ByEvent!Discard(S)
<1>1. /\ store \in Table /\ queued \in Table /\ UNCHANGED connect
  BY DEF IInv, QueueOK, RemovePendingEvent, RemoveAllPendingEvents
<1>2. Rows(connect') = Rows(connect)
  BY <1>1 DEF Rows, Pending
<1> DEFINE Without(L) ==
             /\ store' = [l \in Keys |-> IF l \in L THEN NoPayload ELSE store[l]]
             /\ queued' = [l \in Keys |-> IF l \in L THEN NoPayload ELSE queued[l]]
<1>3. PICK L \in SUBSET Keys : Without(L)
  <2>1. ASSUME NEW c \in Collections, NEW i \in Ids, RemovePendingEvent(c, i)
        PROVE  Without({<<c, i>>})
    BY <1>1, <2>1 DEF RemovePendingEvent, removeEventWithId, Table
  <2>2. ASSUME RemoveAllPendingEvents PROVE Without(Keys)
    BY <2>2 DEF RemoveAllPendingEvents, deleteAllPendingEvents, EmptyTable
  <2>3. \A c \in Collections, i \in Ids : {<<c, i>>} \in SUBSET Keys
    OBVIOUS
  <2>4. Keys \in SUBSET Keys
    OBVIOUS
  <2> HIDE DEF Without, Keys
  <2> QED BY <2>1, <2>2, <2>3, <2>4
<1> DEFINE S == L \X Payloads
<1>4. ASSUME NEW table \in Table
      PROVE  Rows([l \in Keys |-> IF l \in L THEN NoPayload ELSE table[l]]) = Rows(table) \ S
  <2> DEFINE new == [l \in Keys |-> IF l \in L THEN NoPayload ELSE table[l]]
  <2>1. new \in Table
    BY DEF Table
  <2>2. \A l \in Keys : new[l] = IF l \in L THEN NoPayload ELSE table[l]
    OBVIOUS
  <2> HIDE DEF new
  <2>3. Rows(new) \subseteq Keys \X Payloads /\ Rows(table) \subseteq Keys \X Payloads
    BY <2>1, RowsType
  <2>4. ASSUME NEW l \in Keys, NEW v \in Payloads
        PROVE  <<l, v>> \in Rows(new) <=> (<<l, v>> \in Rows(table) /\ <<l, v>> \notin S)
    <3>1. (<<l, v>> \in Rows(new) <=> new[l] = v) /\ (<<l, v>> \in Rows(table) <=> table[l] = v)
      BY <2>1, RowsType
    <3> QED BY <2>2, <3>1, StoreAssumption
  <2> HIDE DEF Keys, S
  <2> QED BY <2>3, <2>4 DEF new
<1>5. Rows(store') = Rows(store) \ S /\ Rows(queued') = Rows(queued) \ S
  BY <1>1, <1>3, <1>4
<1>6. S \in SUBSET (Keys \X Payloads)
  OBVIOUS
<1>7. ByEvent!Discard(S)
  <2> HIDE DEF S
  <2> QED BY <1>2, <1>5 DEF ByEvent!Discard, Rows
<1> HIDE DEF S, Keys
<1> QED BY <1>6, <1>7
LEMMA ServiceRefines ==
  ASSUME IInv, NEW r \in requests, ServiceAnswers(r) \/ ServiceFails(r)
  PROVE  \E S \in SUBSET (Keys \X Payloads) : ByEvent!Record(S)
<1>1. /\ connect \in Table /\ r.batch \in Batch /\ UNCHANGED <<store, queued>>
      /\ connect' \in {connect, Record(connect, r.batch)}
  BY DEF IInv, CallsOK, QueueOK, Request, ServiceAnswers, ServiceFails
<1>2. connect' \in Table
  BY <1>1, RecordGrows
<1>3. Rows(connect) \subseteq Rows(connect')
  <2>1. \A k \in Pending(connect) : connect'[k] = connect[k]
    BY <1>1 DEF Record, Pending
  <2> QED BY <2>1 DEF Rows, Pending
<1>4. ByEvent!Record(Rows(connect'))
  BY <1>1, <1>3 DEF ByEvent!Record, Rows, Pending
<1>5. Rows(connect') \in SUBSET (Keys \X Payloads)
  BY <1>2, RowsType
<1> HIDE DEF Keys
<1> QED BY <1>4, <1>5

LEMMA HandleResponseRefines ==
  ASSUME IInv, OneEventPerId, NEW p \in Pushes, HandleResponse(p)
  PROVE  UNCHANGED ByEvent!vars \/ \E s \in Keys \X Payloads : ByEvent!Settle(s)
<1> DEFINE work == calls[p].work
           response == Head(work)[2]
           k == <<Head(work)[1], response.event.id>>
<1>1. /\ UNCHANGED <<connect, queued>>
      /\ store' = IF Settled(response) THEN [store EXCEPT ![k] = NoPayload] ELSE store
  BY DEF HandleResponse, removeEventWithId
<1>2. /\ work \in Seq(Collections \X EventAPIResponse)
      /\ work # <<>> /\ Len(work) \in Nat \ {0}
  BY DEF HandleResponse, IInv, CallsOK, Push
<1>3. Settled(response) => k \in Pending(connect)
  BY <1>2 DEF IInv, CallsOK, Honest
<1>4. store \in Table /\ connect \in Table
  BY DEF IInv, QueueOK
<1> HIDE DEF k, response
<1>5. CASE ~Settled(response) \/ k \notin Pending(store)
  <2>1. store' = store
    BY <1>1, <1>3, <1>4, <1>5 DEF Table, Pending
  <2> QED BY <1>1, <2>1 DEF ByEvent!vars, Rows, Pending
<1>6. CASE Settled(response) /\ k \in Pending(store)
  <2>1. k \in Pending(connect) /\ k \in Keys /\ store[k] \in Payloads
    BY <1>3, <1>4, <1>6 DEF Pending, Table
  <2>2. <<k, store[k]>> \in Carried /\ <<k, connect[k]>> \in Carried
    BY <1>6, <2>1 DEF Carried, Rows
  <2>3. connect[k] = store[k]
    BY <2>2 DEF OneEventPerId
  <2>4. <<k, store[k]>> \in Rows(connect)
    BY <2>1, <2>3 DEF Rows
  <2>5. Rows(store') = Rows(store) \ {<<k, store[k]>>}
    <3>1. \A l \in Keys : store'[l] = IF l = k THEN NoPayload ELSE store[l]
      BY <1>1, <1>4, <1>6 DEF Table
    <3> QED BY <1>6, <2>1, <3>1 DEF Rows, Pending
  <2>6. ByEvent!Settle(<<k, store[k]>>)
    BY <1>1, <2>4, <2>5 DEF ByEvent!Settle, Rows, Pending
  <2>7. <<k, store[k]>> \in Keys \X Payloads
    BY <2>1
  <2> HIDE DEF Keys
  <2> QED BY <2>6, <2>7
<1> QED BY <1>5, <1>6

\* Every step is a step of the abstract queue of events or leaves it alone.
LEMMA StepRefines ==
  ASSUME Generated, IInv, OneEventPerId, [Next]_vars
  PROVE  ByEvent!Next \/ UNCHANGED ByEvent!vars
<1>1. UNCHANGED <<store, connect, queued>> => UNCHANGED ByEvent!vars
  BY DEF ByEvent!vars, Rows, Pending
<1>2. CASE Application
  <2>1. ASSUME NEW c \in Collections, NEW v \in Payloads, AddEvent(c, v) PROVE ByEvent!Next
    BY <2>1, AddEventRefines DEF ByEvent!Next
  <2>2. ASSUME \/ \E c \in Collections, i \in Ids : RemovePendingEvent(c, i)
               \/ RemoveAllPendingEvents
        PROVE  ByEvent!Next
    BY <2>2, RemoveRefines DEF ByEvent!Next
  <2>3. ASSUME \/ \E p \in Pushes, c \in Collections, v \in Payloads :
                    PushEvent(p, c, v) \/ PushInvalidEvent(p, c, v)
               \/ \E p \in Pushes, table \in Table : PushEventBatch(p, table)
               \/ \E p \in Pushes : PushAllPendingEvents(p)
        PROVE  UNCHANGED <<store, connect, queued>>
    BY <2>3 DEF PushEvent, PushInvalidEvent, PushEventBatch, PushAllPendingEvents
  <2> QED BY <1>1, <1>2, <2>1, <2>2, <2>3 DEF Application
<1>3. CASE Network
  <2>1. ASSUME NEW r \in requests, RequestLost(r) PROVE UNCHANGED <<store, connect, queued>>
    BY <2>1 DEF RequestLost
  <2>2. ASSUME NEW r \in requests, ServiceAnswers(r) \/ ServiceFails(r) PROVE ByEvent!Next
    BY <2>2, ServiceRefines DEF ByEvent!Next
  <2> QED BY <1>1, <1>3, <2>1, <2>2 DEF Network
<1>4. ASSUME NEW p \in Pushes, Ends(p) PROVE UNCHANGED <<store, connect, queued>>
  BY <1>4 DEF Ends, NetworkFailure, CompleteEvent, CompleteBatch, CompletePending
<1>5. ASSUME NEW p \in Pushes, Loops(p) PROVE ByEvent!Next \/ UNCHANGED ByEvent!vars
  <2>1. CASE HandleResponse(p)
    BY <2>1, HandleResponseRefines DEF ByEvent!Next
  <2>2. CASE NextCollection(p) \/ FinishPush(p)
    BY <1>1, <2>2 DEF NextCollection, FinishPush
  <2> QED BY <1>5, <2>1, <2>2 DEF Loops
<1>6. Crash \/ UNCHANGED vars => UNCHANGED <<store, connect, queued>>
  BY DEF Crash, vars
<1> QED BY <1>1, <1>2, <1>3, <1>4, <1>5, <1>6 DEF Next

\* With ids drawn by NSUUID the client is a queue of events, properties and all:
\* an event leaves the device only when this very event is recorded or the
\* application withdraws it.
THEOREM ClientImplementsEvents ==
  ASSUME CallerIds = {}
  PROVE  Spec => ImplementsEventQueue
<1>1. Init => ByEvent!Init
  BY DEF Init, ByEvent!Init, EmptyTable, Rows, Pending
<1>2. IInv /\ OneEventPerId /\ [Next]_vars => [ByEvent!Next]_(ByEvent!vars)
  <2>1. Generated
    BY DEF Generated
  <2> QED BY <2>1, StepRefines
<1>3. Generated
  BY DEF Generated
<1> QED BY <1>1, <1>2, <1>3, Invariance, Agreement, PTL
        DEF Spec, ImplementsEventQueue, ByEvent!Spec
=============================================================================
