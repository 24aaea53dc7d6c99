------------------------ MODULE StoreConnectionProofs ------------------------
(***************************************************************************)
(* Theorems about StoreConnection, for any collections, ids, payloads and  *)
(* number of threads.                                                      *)
(***************************************************************************)
EXTENDS StoreConnection, TPConnectAPIProofs

USE DEF Keys

-----------------------------------------------------------------------------
(***************************************************************************)
(* The inductive invariant.  That a handler sees what is on disk rests on  *)
(* the cache being right, which in turn is about what the transaction that *)
(* runs has written, and on there being one transaction at a time.         *)
(***************************************************************************)

InQueue == {"waiting", "handler", "refused", "committing", "entered"}
Running == {"handler", "refused", "committing", "entered"}

QueueOK ==
  /\ \A t \in Threads :
       t \in Range(connectionQueue) <=> calls[t].step \in InQueue
  /\ \A t \in Threads : calls[t].step \in Running => Runs(t)
  /\ \A i, j \in 1 .. Len(connectionQueue) :
       i # j /\ connectionQueue[i] = connectionQueue[j]
         => calls[connectionQueue[i]].step = "entered"

MethodOK ==
  \A t \in Threads :
    /\ calls[t].step # "idle" => calls[t].call \in Method
    /\ calls[t].step \in {"refused", "committing"} => ~Is(t, "fetchPendingEvents")

Writes(t) ==
  calls[t].step \in {"handler", "committing"} /\ ~Is(t, "fetchPendingEvents")

Applied(write, table) ==
  [k \in Keys |-> IF k \in DOMAIN write THEN write[k] ELSE table[k]]

\* The rows the connection sees.
Rows == IF \E t \in Threads : Writes(t) THEN working ELSE disk

DataOK ==
  /\ \A t \in Threads : Writes(t) => working = Applied(Changes(calls[t].call), disk)
  /\ faults = 0 =>
       \A k \in Keys : objectCache[k] # NoPayload => objectCache[k] = Rows[k]

IInv == TypeOK /\ QueueOK /\ MethodOK /\ DataOK /\ HandlerSeesStore

-----------------------------------------------------------------------------
(* The pieces the actions are made of. *)

\* A thread moves to another step, all else of it and of the others stays.
LEMMA Moves ==
  ASSUME TypeOK, NEW t \in Threads, NEW s \in Step, To(t, s)
  PROVE  /\ calls' \in [Threads -> [step : Step, call : Method \cup {NoCall}, batch : Batch]]
         /\ \A u \in Threads :
              /\ calls'[u].step = IF u = t THEN s ELSE calls[u].step
              /\ calls'[u].call = calls[u].call
              /\ calls'[u].batch = calls[u].batch
<1>1. calls' = [calls EXCEPT ![t].step = s]
  BY DEF To
<1> QED BY <1>1 DEF TypeOK

\* The thread at the head goes on to another step of its transaction.
LEMMA StaysInQueue ==
  ASSUME QueueOK, connectionQueue \in Seq(Threads), NEW t \in Threads, Runs(t), UNCHANGED connectionQueue,
         calls[t].step \in InQueue \ {"entered"}, calls'[t].step \in InQueue,
         \A u \in Threads \ {t} : calls'[u].step = calls[u].step
  PROVE  QueueOK'
<1>1. \A u \in Threads : u \in Range(connectionQueue') <=> calls'[u].step \in InQueue
  BY DEF QueueOK
<1>2. \A u \in Threads : calls'[u].step \in Running => Runs(u)'
  BY DEF QueueOK, Runs
<1>3. \A i \in 1 .. Len(connectionQueue) : connectionQueue[i] \in Threads
  OBVIOUS
<1>4. \A i, j \in 1 .. Len(connectionQueue) :
        i # j /\ connectionQueue[i] = connectionQueue[j]
          => calls'[connectionQueue[i]].step = "entered"
  BY <1>3 DEF QueueOK
<1> QED BY <1>1, <1>2, <1>4 DEF QueueOK

\* The thread at the head leaves the queue.
LEMMA LeavesQueue ==
  ASSUME QueueOK, connectionQueue \in Seq(Threads), NEW t \in Threads, Runs(t),
         calls[t].step \in InQueue \ {"entered"}, calls'[t].step = "returning",
         \A u \in Threads \ {t} : calls'[u].step = calls[u].step,
         connectionQueue' = Tail(connectionQueue)
  PROVE  QueueOK' /\ connectionQueue' \in Seq(Threads)
<1> DEFINE q == connectionQueue
           n == Len(q)
<1>1. /\ n \in Nat \ {0} /\ q[1] = t
      /\ Len(Tail(q)) = n - 1
      /\ \A i \in 1 .. n - 1 : Tail(q)[i] = q[i + 1]
      /\ Tail(q) \in Seq(Threads)
      /\ \A i \in 1 .. n : q[i] \in Threads
  BY DEF Runs
<1>2. \A i, j \in 1 .. n : i # j /\ q[i] = q[j] => calls[q[i]].step = "entered"
  BY DEF QueueOK
<1>3. \A i \in 1 .. n - 1 : q[i + 1] # t
  BY <1>1, <1>2
<1>4. \A u : u \in Range(Tail(q)) <=> u \in Range(q) /\ u # t
  <2>1. \A u : u \in Range(q) <=> \E i \in 1 .. n : q[i] = u
    BY DEF Range
  <2>2. \A u : u \in Range(Tail(q)) <=> \E i \in 1 .. n - 1 : q[i + 1] = u
    <3> HIDE DEF q, n
    <3>1. \A u : u \in Range(Tail(q)) <=> \E i \in 1 .. n - 1 : Tail(q)[i] = u
      <4>1. DOMAIN Tail(q) = 1 .. n - 1
        BY <1>1
      <4> QED BY <4>1 DEF Range
    <3> QED BY <1>1, <3>1
  <2>3. ASSUME NEW u, u # t, NEW i \in 1 .. n, q[i] = u
        PROVE  \E j \in 1 .. n - 1 : q[j + 1] = u
    <3>1. i # 1
      BY <1>1, <2>3
    <3>2. i - 1 \in 1 .. n - 1 /\ q[(i - 1) + 1] = u
      BY <1>1, <2>3, <3>1
    <3> QED BY <3>2
  <2>4. \A u : (\E i \in 1 .. n - 1 : q[i + 1] = u) => u # t /\ \E i \in 1 .. n : q[i] = u
    BY <1>1, <1>3
  <2> QED BY <2>1, <2>2, <2>3, <2>4
<1>5. \A u \in Threads : u \in Range(connectionQueue') <=> calls'[u].step \in InQueue
  BY <1>4 DEF QueueOK, InQueue
<1>6. \A u \in Threads : calls'[u].step \notin Running
  BY DEF QueueOK, Runs, Running
<1>7. \A i, j \in 1 .. Len(connectionQueue') :
        i # j /\ connectionQueue'[i] = connectionQueue'[j]
          => calls'[connectionQueue'[i]].step = "entered"
  <2> SUFFICES ASSUME NEW i \in 1 .. n - 1, NEW j \in 1 .. n - 1,
                      i # j, q[i + 1] = q[j + 1]
               PROVE  calls'[q[i + 1]].step = "entered"
    BY <1>1
  <2>1. calls[q[i + 1]].step = "entered"
    BY <1>1, <1>2
  <2> QED BY <1>1, <1>3, <2>1
<1> QED BY <1>1, <1>5, <1>6, <1>7 DEF QueueOK

\* A thread joins the queue at its end.
LEMMA JoinsQueue ==
  ASSUME QueueOK, connectionQueue \in Seq(Threads), NEW t \in Threads,
         \/ calls[t].step = "idle" /\ calls'[t].step = "waiting"
         \/ Runs(t) /\ calls[t].step = "handler" /\ calls'[t].step = "entered",
         \A u \in Threads \ {t} : calls'[u].step = calls[u].step,
         connectionQueue' = Append(connectionQueue, t)
  PROVE  QueueOK' /\ connectionQueue' \in Seq(Threads)
<1> DEFINE q == connectionQueue
           n == Len(q)
<1>1. /\ n \in Nat /\ Len(Append(q, t)) = n + 1
      /\ \A i \in 1 .. n : Append(q, t)[i] = q[i] /\ q[i] \in Threads
      /\ Append(q, t)[n + 1] = t
      /\ Append(q, t) \in Seq(Threads)
      /\ DOMAIN Append(q, t) = 1 .. n + 1 /\ DOMAIN q = 1 .. n
  OBVIOUS
<1> DEFINE r == Append(q, t)
<1>2. connectionQueue' = r
  OBVIOUS
<1>3. \A u : u \in Range(q) <=> \E i \in 1 .. n : q[i] = u
  BY DEF Range
<1> HIDE DEF r, q, n
<1>4. \A u : u \in Range(r) <=> u \in Range(q) \/ u = t
  <2>1. \A u : u \in Range(r) <=> \E i \in 1 .. n + 1 : r[i] = u
    BY <1>1 DEF Range, r
  <2>2. \A i \in 1 .. n + 1 : i \in 1 .. n \/ i = n + 1
    BY <1>1
  <2>3. n + 1 \in 1 .. n + 1 /\ \A i \in 1 .. n : i \in 1 .. n + 1
    BY <1>1
  <2> QED BY <1>1, <1>3, <2>1, <2>2, <2>3 DEF r
<1>5. \A u \in Threads : u \in Range(connectionQueue') <=> calls'[u].step \in InQueue
  BY <1>2, <1>4 DEF QueueOK, InQueue, q
<1>6. n > 0 => r # <<>> /\ Head(r) = Head(q)
  BY <1>1 DEF r, q, n
<1>7. \A u \in Threads : calls'[u].step \in Running => Runs(u)'
  <2>1. \A u \in Threads : calls'[u].step \in Running => Runs(u)
    BY DEF QueueOK, Running
  <2>2. \A u \in Threads : Runs(u) => n > 0
    BY <1>1 DEF Runs, q, n
  <2> QED BY <1>2, <1>6, <2>1, <2>2 DEF Runs, q
<1>8. \A i, j \in 1 .. n + 1 :
        i # j /\ r[i] = r[j] => calls'[r[i]].step = "entered"
  <2> SUFFICES ASSUME NEW i \in 1 .. n + 1, NEW j \in 1 .. n + 1, i # j, r[i] = r[j]
               PROVE  calls'[r[i]].step = "entered"
    OBVIOUS
  <2>1. CASE i \in 1 .. n /\ j \in 1 .. n
    <3>1. q[i] = r[i] /\ q[j] = r[j] /\ q[i] \in Threads
      BY <1>1, <2>1 DEF r
    <3>2. calls[q[i]].step = "entered"
      BY <2>1, <3>1 DEF QueueOK, q, n
    <3> QED BY <3>1, <3>2
  <2>2. CASE i = n + 1 \/ j = n + 1
    <3>1. PICK k \in 1 .. n : q[k] = t
      BY <1>1, <2>2 DEF r
    <3>2. r[i] = t
      BY <1>1, <2>2 DEF r
    <3>3. t \in Range(q)
      BY <1>3, <3>1
    <3>4. calls[t].step # "idle"
      BY <3>3 DEF QueueOK, InQueue, q
    <3> QED BY <3>2, <3>4
  <2> QED BY <1>1, <2>1, <2>2
<1> QED BY <1>1, <1>2, <1>5, <1>7, <1>8 DEF QueueOK, r

\* One transaction runs at a time.
LEMMA OneRuns ==
  ASSUME QueueOK, NEW t \in Threads, Runs(t), NEW u \in Threads \ {t}
  PROVE  calls[u].step \notin Running
BY DEF QueueOK, Runs

-----------------------------------------------------------------------------
(* What the methods do to a table, as values for keys. *)

LEMMA AddApplies ==
  ASSUME NEW call \in Method, call.method = "addEvent", NEW table \in Table
  PROVE  /\ addEvent(table, call.event, call.collection) = Applied(Changes(call), table)
         /\ Applied(Changes(call), table) \in Table
         /\ Changes(call) \in [{<<call.collection, call.event.id>>} -> Payloads]
         /\ <<call.collection, call.event.id>> \in Keys
<1> DEFINE k == <<call.collection, call.event.id>>
<1>1. call.event.id \in Ids /\ call.event.properties \in Payloads /\ call.collection \in Collections
  BY DEF Method
<1>2. k \in Keys
  BY <1>1
<1>3. Changes(call) = [x \in {k} |-> call.event.properties]
  BY DEF Changes
<1> QED BY <1>1, <1>2, <1>3 DEF addEvent, Applied, Table

LEMMA RemoveApplies ==
  ASSUME NEW call \in Method, call.method = "removeEventWithId", NEW table \in Table
  PROVE  /\ removeEventWithId(table, call.id, call.collection) = Applied(Changes(call), table)
         /\ Applied(Changes(call), table) \in Table
         /\ Changes(call) = [x \in {<<call.collection, call.id>>} |-> NoPayload]
         /\ <<call.collection, call.id>> \in Keys
<1> DEFINE k == <<call.collection, call.id>>
<1>1. call.id \in Ids /\ call.collection \in Collections
  BY DEF Method
<1>2. k \in Keys
  BY <1>1
<1>3. Changes(call) = [x \in {k} |-> NoPayload]
  BY DEF Changes
<1> QED BY <1>2, <1>3 DEF removeEventWithId, Applied, Table

LEMMA DeleteApplies ==
  ASSUME NEW call, call.method = "deleteAllPendingEvents", NEW table \in Table
  PROVE  /\ deleteAllPendingEvents(table) = Applied(Changes(call), table)
         /\ Applied(Changes(call), table) \in Table
         /\ Changes(call) = EmptyTable
<1>1. Changes(call) = EmptyTable
  BY DEF Changes
<1> QED BY <1>1 DEF deleteAllPendingEvents, Applied, Table, EmptyTable

-----------------------------------------------------------------------------
(* Every step keeps the invariant. *)

LEMMA TypeParts ==
  ASSUME TypeOK
  PROVE  /\ disk \in Table /\ working \in Table /\ objectCache \in Table
         /\ connectionQueue \in Seq(Threads) /\ faults \in 0 .. MaxFaults
         /\ \A t \in Threads : calls[t].step \in Step /\ calls[t].batch \in Batch
BY DEF TypeOK

\* The block of a write.
LEMMA WriteBegins ==
  ASSUME IInv, NEW t \in Threads, Starts(t), ~Is(t, "fetchPendingEvents"),
         To(t, "handler"), working' \in Table, objectCache' \in Table,
         working' = Applied(Changes(calls[t].call), disk),
         faults = 0 => \A k \in Keys :
           objectCache'[k] # NoPayload => objectCache'[k] = working'[k],
         UNCHANGED <<disk, connectionQueue, faults>>
  PROVE  IInv'
<1>1. Runs(t) /\ calls[t].step = "waiting"
  BY DEF Starts
<1>2. /\ calls' \in [Threads -> [step : Step, call : Method \cup {NoCall}, batch : Batch]]
      /\ \A u \in Threads :
           /\ calls'[u].step = IF u = t THEN "handler" ELSE calls[u].step
           /\ calls'[u].call = calls[u].call
           /\ calls'[u].batch = calls[u].batch
  BY Moves DEF IInv, Step
<1>3. TypeOK'
  BY <1>2, TypeParts DEF IInv, TypeOK
<1>4. QueueOK'
  BY <1>1, <1>2, StaysInQueue, TypeParts DEF IInv, InQueue
<1>5. MethodOK'
  BY <1>1, <1>2 DEF IInv, MethodOK, Is
<1>6. \A u \in Threads \ {t} : calls[u].step \notin Running
  BY <1>1, OneRuns DEF IInv
<1>7. \A u \in Threads : Writes(u)' <=> u = t
  BY <1>2, <1>6 DEF Writes, Running, Is
<1>8. Rows' = working'
  BY <1>7 DEF Rows
<1>9. DataOK'
  BY <1>2, <1>7, <1>8 DEF DataOK
<1>10. HandlerSeesStore'
  BY <1>2, <1>6 DEF HandlerSeesStore, Running, Is
<1> QED BY <1>3, <1>4, <1>5, <1>9, <1>10 DEF IInv

LEMMA AddEventKeeps ==
  ASSUME IInv, NEW t \in Threads, AddEvent(t)
  PROVE  IInv'
<1> DEFINE call == calls[t].call
<1>1. call \in Method /\ call.method = "addEvent"
  BY DEF AddEvent, Starts, Is, IInv, MethodOK
<1>2. Runs(t) /\ calls[t].step = "waiting"
  BY DEF AddEvent, Starts
<1>3. disk \in Table /\ objectCache \in Table
  BY TypeParts DEF IInv
<1>4. /\ working' = Applied(Changes(call), disk) /\ working' \in Table
      /\ objectCache' = Applied(Changes(call), objectCache) /\ objectCache' \in Table
  BY <1>1, <1>3, AddApplies DEF AddEvent
<1>5. ~\E u \in Threads : Writes(u)
  BY <1>2, OneRuns DEF IInv, Writes, Running
<1>6. faults = 0 => \A k \in Keys :
        objectCache'[k] # NoPayload => objectCache'[k] = working'[k]
  BY <1>4, <1>5 DEF IInv, DataOK, Rows, Applied
<1> QED BY <1>1, <1>4, <1>6, WriteBegins DEF AddEvent, Is

LEMMA RemoveEventWithIdKeeps ==
  ASSUME IInv, NEW t \in Threads, RemoveEventWithId(t)
  PROVE  IInv'
<1> DEFINE call == calls[t].call
           key == <<call.collection, call.id>>
<1>1. call \in Method /\ call.method = "removeEventWithId"
  BY DEF RemoveEventWithId, Starts, Is, IInv, MethodOK
<1>2. Runs(t) /\ calls[t].step = "waiting"
  BY DEF RemoveEventWithId, Starts
<1>3. disk \in Table /\ objectCache \in Table
  BY TypeParts DEF IInv
<1>4. /\ working' = Applied(Changes(call), disk) /\ working' \in Table
      /\ objectCache' \in Table
      /\ objectCache' = IF key \in Pending(disk) THEN Applied(Changes(call), objectCache)
                        ELSE objectCache
      /\ Changes(call) = [x \in {key} |-> NoPayload]
      /\ key \in Keys
  BY <1>1, <1>3, RemoveApplies DEF RemoveEventWithId
<1>5. ~\E u \in Threads : Writes(u)
  BY <1>2, OneRuns DEF IInv, Writes, Running
<1>6. faults = 0 => \A k \in Keys :
        objectCache'[k] # NoPayload => objectCache'[k] = working'[k]
  <2>1. faults = 0 => \A k \in Keys :
          objectCache[k] # NoPayload => objectCache[k] = disk[k]
    BY <1>5 DEF IInv, DataOK, Rows
  <2>2. \A k \in Keys : working'[k] = IF k = key THEN NoPayload ELSE disk[k]
    BY <1>4 DEF Applied
  <2>3. CASE key \in Pending(disk)
    BY <1>4, <2>1, <2>2, <2>3 DEF Applied
  <2>4. CASE key \notin Pending(disk)
    BY <1>4, <2>1, <2>2, <2>4 DEF Pending
  <2> QED BY <2>3, <2>4
<1> QED BY <1>1, <1>4, <1>6, WriteBegins DEF RemoveEventWithId, Is

LEMMA DeleteAllPendingEventsKeeps ==
  ASSUME IInv, NEW t \in Threads, DeleteAllPendingEvents(t)
  PROVE  IInv'
<1> DEFINE call == calls[t].call
<1>1. call.method = "deleteAllPendingEvents"
  BY DEF DeleteAllPendingEvents, Is
<1>2. disk \in Table /\ objectCache \in Table
  BY TypeParts DEF IInv
<1>3. working' = Applied(Changes(call), disk) /\ working' \in Table
  BY <1>1, <1>2, DeleteApplies DEF DeleteAllPendingEvents
<1>4. objectCache' = EmptyTable
  BY DEF DeleteAllPendingEvents, deleteAllPendingEvents, EmptyTable
<1>5. objectCache' \in Table /\ \A k \in Keys : objectCache'[k] = NoPayload
  BY <1>4 DEF EmptyTable, Table
<1> QED BY <1>1, <1>3, <1>5, WriteBegins DEF DeleteAllPendingEvents, Is

LEMMA NoBatchIsBatch == NoBatch \in Batch
BY DEF NoBatch, Batch

LEMMA EmptyTableType == EmptyTable \in Table /\ \A k \in Keys : EmptyTable[k] = NoPayload
BY DEF EmptyTable, Table

LEMMA StatementFailsKeeps ==
  ASSUME IInv, NEW t \in Threads, StatementFails(t)
  PROVE  IInv'
<1>1. /\ Runs(t) /\ calls[t].step = "waiting" /\ ~Is(t, "fetchPendingEvents")
      /\ To(t, "refused") /\ UNCHANGED <<disk, working, connectionQueue>>
  BY DEF StatementFails, Starts
<1>2. /\ calls' \in [Threads -> [step : Step, call : Method \cup {NoCall}, batch : Batch]]
      /\ \A u \in Threads :
           /\ calls'[u].step = IF u = t THEN "refused" ELSE calls[u].step
           /\ calls'[u].call = calls[u].call
           /\ calls'[u].batch = calls[u].batch
  BY <1>1, Moves DEF IInv, Step
<1>3. faults' \in 0 .. MaxFaults /\ faults' # 0
  BY TypeParts, ConnectionAssumption DEF StatementFails, IInv
<1>4. objectCache' \in Table
  BY TypeParts, EmptyTableType DEF StatementFails, IInv
<1>5. TypeOK'
  BY <1>1, <1>2, <1>3, <1>4, TypeParts DEF IInv, TypeOK
<1>6. QueueOK'
  BY <1>1, <1>2, StaysInQueue, TypeParts DEF IInv, InQueue
<1>7. MethodOK'
  BY <1>1, <1>2 DEF IInv, MethodOK, Is
<1>8. \A u \in Threads : ~Writes(u)'
  BY <1>1, <1>2, OneRuns DEF IInv, Writes, Running, Is
<1>9. DataOK' /\ HandlerSeesStore'
  BY <1>3, <1>8 DEF DataOK, HandlerSeesStore
<1> QED BY <1>5, <1>6, <1>7, <1>9 DEF IInv

\* What the connection shows has the rows of the table, and their objects
\* too as long as the cache is right.
LEMMA ShownRows ==
  ASSUME IInv, NEW t \in Threads, Runs(t), ~Writes(t)
  PROVE  /\ Shown \in Table
         /\ Pending(Shown) = Pending(disk)
         /\ Rows = disk
         /\ faults = 0 => Shown = disk
<1>1. disk \in Table /\ objectCache \in Table
  BY TypeParts DEF IInv
<1>2. Shown \in Table /\ Pending(Shown) = Pending(disk)
  BY <1>1 DEF Shown, Table, Pending
<1>3. Rows = disk
  BY OneRuns DEF IInv, Rows, Writes, Running
<1>4. faults = 0 => \A k \in Keys : Shown[k] = disk[k]
  BY <1>3 DEF IInv, DataOK, Shown
<1> QED BY <1>1, <1>2, <1>3, <1>4 DEF Table

LEMMA FetchPendingEventsKeeps ==
  ASSUME IInv, NEW t \in Threads, FetchPendingEvents(t)
  PROVE  IInv'
<1>1. /\ Runs(t) /\ calls[t].step = "waiting" /\ Is(t, "fetchPendingEvents")
      /\ UNCHANGED <<disk, working, connectionQueue, faults>>
  BY DEF FetchPendingEvents, Starts
<1>2. PICK batch \in fetchPendingEvents(Shown) :
        calls' = [calls EXCEPT ![t].step = "handler", ![t].batch = batch]
  BY DEF FetchPendingEvents
<1>3. ~Writes(t)
  BY <1>1 DEF Writes
<1>4. /\ Shown \in Table /\ Rows = disk
      /\ faults = 0 => Shown = disk
  BY <1>1, <1>3, ShownRows
<1>5. batch \in Batch /\ Sent(batch) = RowsOf(Shown)
  BY <1>4, FetchType, FetchedRows DEF RowsOf
<1>6. /\ calls' \in [Threads -> [step : Step, call : Method \cup {NoCall}, batch : Batch]]
      /\ \A u \in Threads :
           /\ calls'[u].step = IF u = t THEN "handler" ELSE calls[u].step
           /\ calls'[u].call = calls[u].call
           /\ calls'[u].batch = IF u = t THEN batch ELSE calls[u].batch
  BY <1>2, <1>5 DEF IInv, TypeOK, Step
<1>7. objectCache' = [k \in Keys |-> IF disk[k] # NoPayload THEN Shown[k] ELSE objectCache[k]]
  BY DEF FetchPendingEvents
<1>8. objectCache' \in Table
  BY <1>4, <1>7, TypeParts DEF IInv, Table
<1>9. TypeOK'
  BY <1>1, <1>6, <1>8, TypeParts DEF IInv, TypeOK
<1>10. QueueOK'
  BY <1>1, <1>6, StaysInQueue, TypeParts DEF IInv, InQueue
<1>11. MethodOK'
  BY <1>1, <1>6 DEF IInv, MethodOK, Is
<1>12. \A u \in Threads \ {t} : calls[u].step \notin Running
  BY <1>1, OneRuns DEF IInv
<1>13. \A u \in Threads : ~Writes(u)'
  BY <1>1, <1>6, <1>12 DEF Writes, Running, Is
<1>14. DataOK'
  <2>1. faults = 0 => \A k \in Keys : objectCache'[k] # NoPayload => objectCache'[k] = disk[k]
    BY <1>4, <1>7 DEF IInv, DataOK
  <2> QED BY <1>1, <1>13, <2>1 DEF DataOK, Rows
<1>15. HandlerSeesStore'
  <2>1. RowsOf(disk)' = RowsOf(disk)
    BY <1>1 DEF RowsOf
  <2>2. faults = 0 => Sent(batch) = RowsOf(disk)
    BY <1>4, <1>5
  <2>3. Sent(calls'[t].batch) = Sent(batch)
    BY <1>6
  <2> QED BY <1>1, <1>6, <1>12, <2>1, <2>2, <2>3 DEF HandlerSeesStore, Running
<1> QED BY <1>9, <1>10, <1>11, <1>14, <1>15 DEF IInv

\* A transaction ends, with a table on disk that is the one its connection
\* has seen or after a failure.
LEMMA LeaveKeeps ==
  ASSUME IInv, NEW t \in Threads, Runs(t), Leave(t),
         calls[t].step \in {"handler", "refused", "committing"},
         UNCHANGED <<working, objectCache>>,
         disk' \in Table, faults' \in 0 .. MaxFaults,
         faults' = 0 => faults = 0 /\ disk' = Rows
  PROVE  IInv'
<1>1. /\ calls' \in [Threads -> [step : Step, call : Method \cup {NoCall}, batch : Batch]]
      /\ \A u \in Threads :
           /\ calls'[u].step = IF u = t THEN "returning" ELSE calls[u].step
           /\ calls'[u].call = calls[u].call
           /\ calls'[u].batch = calls[u].batch
  BY Moves DEF IInv, Step, Leave
<1>2. QueueOK' /\ connectionQueue' \in Seq(Threads)
  BY <1>1, LeavesQueue, TypeParts DEF IInv, InQueue, Leave
<1>3. TypeOK'
  BY <1>1, <1>2, TypeParts DEF IInv, TypeOK
<1>4. MethodOK'
  BY <1>1 DEF IInv, MethodOK, Is
<1>5. \A u \in Threads : calls'[u].step \notin Running
  BY <1>1, OneRuns DEF IInv, Running
<1>6. \A u \in Threads : ~Writes(u)'
  BY <1>5 DEF Writes, Running
<1>7. Rows' = disk'
  BY <1>6 DEF Rows
<1>8. DataOK'
  BY <1>6, <1>7 DEF DataOK, IInv
<1>9. HandlerSeesStore'
  BY <1>5 DEF HandlerSeesStore, Running
<1> QED BY <1>2, <1>3, <1>4, <1>8, <1>9 DEF IInv

\* What a transaction that is about to commit has made of the rows.
LEMMA WriterRows ==
  ASSUME IInv, NEW t \in Threads, Writes(t)
  PROVE  Rows = working
BY DEF Rows

LEMMA EndsKeep ==
  ASSUME IInv, NEW t \in Threads,
         RefusedWriteReturns(t) \/ FetchHandlerReturns(t) \/ Commit(t) \/ CommitFails(t)
  PROVE  IInv'
<1>0. disk \in Table /\ working \in Table /\ faults \in 0 .. MaxFaults
  BY TypeParts DEF IInv
<1>1. CASE RefusedWriteReturns(t)
  <2>1. ~Writes(t) /\ Runs(t)
    BY <1>1 DEF RefusedWriteReturns, Writes
  <2>2. Rows = disk
    BY <2>1, ShownRows
  <2> QED BY <1>0, <1>1, <2>2, LeaveKeeps DEF RefusedWriteReturns
<1>2. CASE FetchHandlerReturns(t)
  <2>1. ~Writes(t) /\ Runs(t)
    BY <1>2 DEF FetchHandlerReturns, InHandler, Writes
  <2>2. Rows = disk
    BY <2>1, ShownRows
  <2> QED BY <1>0, <1>2, <2>2, LeaveKeeps DEF FetchHandlerReturns, InHandler
<1>3. CASE Commit(t)
  <2>1. Writes(t)
    BY <1>3 DEF Commit, Writes, IInv, MethodOK
  <2>2. Rows = working
    BY <2>1, WriterRows
  <2> QED BY <1>0, <1>3, <2>2, LeaveKeeps DEF Commit
<1>4. CASE CommitFails(t)
  <2>1. faults' \in 0 .. MaxFaults /\ faults' # 0
    BY <1>0, <1>4, ConnectionAssumption DEF CommitFails
  <2> QED BY <1>0, <1>4, <2>1, LeaveKeeps DEF CommitFails
<1> QED BY <1>1, <1>2, <1>3, <1>4

LEMMA WriteHandlerReturnsKeeps ==
  ASSUME IInv, NEW t \in Threads, WriteHandlerReturns(t)
  PROVE  IInv'
<1>1. /\ Runs(t) /\ calls[t].step = "handler" /\ ~Is(t, "fetchPendingEvents")
      /\ To(t, "committing")
      /\ UNCHANGED <<disk, working, objectCache, connectionQueue, faults>>
  BY DEF WriteHandlerReturns, InHandler
<1>2. /\ calls' \in [Threads -> [step : Step, call : Method \cup {NoCall}, batch : Batch]]
      /\ \A u \in Threads :
           /\ calls'[u].step = IF u = t THEN "committing" ELSE calls[u].step
           /\ calls'[u].call = calls[u].call
           /\ calls'[u].batch = calls[u].batch
  BY <1>1, Moves DEF IInv, Step
<1>3. TypeOK'
  BY <1>1, <1>2, TypeParts DEF IInv, TypeOK
<1>4. QueueOK'
  BY <1>1, <1>2, StaysInQueue, TypeParts DEF IInv, InQueue
<1>5. MethodOK'
  BY <1>1, <1>2 DEF IInv, MethodOK, Is
<1>6. \A u \in Threads : Writes(u)' <=> Writes(u)
  BY <1>1, <1>2 DEF Writes, Is
<1>7. Rows' = Rows
  BY <1>1, <1>6 DEF Rows
<1>8. DataOK'
  BY <1>1, <1>2, <1>6, <1>7 DEF IInv, DataOK
<1>9. HandlerSeesStore'
  BY <1>1, <1>2 DEF IInv, HandlerSeesStore, RowsOf, Is
<1> QED BY <1>3, <1>4, <1>5, <1>8, <1>9 DEF IInv

\* A thread that is in no transaction, or will not come out of it, changes
\* nothing of the data.
LEMMA DataStays ==
  ASSUME IInv, NEW t \in Threads,
         \A u \in Threads \ {t} : calls'[u] = calls[u],
         ~Writes(t), ~Writes(t)', calls'[t].step # "handler",
         UNCHANGED <<disk, working, objectCache, faults>>
  PROVE  DataOK' /\ HandlerSeesStore'
<1>1. \A u \in Threads : Writes(u)' <=> Writes(u)
  BY DEF Writes, Is
<1>2. Rows' = Rows
  BY <1>1 DEF Rows
<1>3. DataOK'
  BY <1>1, <1>2 DEF IInv, DataOK, Writes
<1>4. HandlerSeesStore'
  BY DEF IInv, HandlerSeesStore, RowsOf, Is
<1> QED BY <1>3, <1>4

LEMMA CallKeeps ==
  ASSUME IInv, NEW t \in Threads, NEW call \in Method, Call(t, call)
  PROVE  IInv'
<1>1. /\ calls' \in [Threads -> [step : Step, call : Method \cup {NoCall}, batch : Batch]]
      /\ calls'[t] = [step |-> "waiting", call |-> call, batch |-> NoBatch]
      /\ \A u \in Threads \ {t} : calls'[u] = calls[u]
  BY NoBatchIsBatch DEF Call, IInv, TypeOK, Step
<1>2. QueueOK' /\ connectionQueue' \in Seq(Threads)
  BY <1>1, JoinsQueue, TypeParts DEF Call, IInv
<1>3. TypeOK'
  BY <1>1, <1>2, TypeParts DEF Call, IInv, TypeOK
<1>4. MethodOK'
  BY <1>1 DEF IInv, MethodOK, Is
<1>5. DataOK' /\ HandlerSeesStore'
  BY <1>1, DataStays DEF Call, Writes
<1> QED BY <1>2, <1>3, <1>4, <1>5 DEF IInv

LEMMA HandlerCallsClientKeeps ==
  ASSUME IInv, NEW t \in Threads, HandlerCallsClient(t)
  PROVE  IInv'
<1>1. /\ Runs(t) /\ calls[t].step = "handler" /\ Is(t, "fetchPendingEvents")
      /\ To(t, "entered") /\ connectionQueue' = Append(connectionQueue, t)
      /\ UNCHANGED <<disk, working, objectCache, faults>>
  BY DEF HandlerCallsClient, InHandler
<1>2. /\ calls' \in [Threads -> [step : Step, call : Method \cup {NoCall}, batch : Batch]]
      /\ calls'[t].step = "entered" /\ calls'[t].call = calls[t].call
      /\ \A u \in Threads \ {t} : calls'[u] = calls[u]
  BY <1>1 DEF To, IInv, TypeOK, Step
<1>3. QueueOK' /\ connectionQueue' \in Seq(Threads)
  BY <1>1, <1>2, JoinsQueue, TypeParts DEF IInv
<1>4. TypeOK'
  BY <1>1, <1>2, <1>3, TypeParts DEF IInv, TypeOK
<1>5. MethodOK'
  BY <1>1, <1>2 DEF IInv, MethodOK, Is
<1>6. DataOK' /\ HandlerSeesStore'
  BY <1>1, <1>2, DataStays DEF Writes
<1> QED BY <1>3, <1>4, <1>5, <1>6 DEF IInv

LEMMA ReturnKeeps ==
  ASSUME IInv, NEW t \in Threads, Return(t)
  PROVE  IInv'
<1>0. NoBatch \in Batch
  BY NoBatchIsBatch
<1>1. /\ calls' \in [Threads -> [step : Step, call : Method \cup {NoCall}, batch : Batch]]
      /\ calls[t].step = "returning" /\ calls'[t].step = "idle"
      /\ \A u \in Threads \ {t} : calls'[u] = calls[u]
      /\ UNCHANGED <<disk, working, objectCache, connectionQueue, faults>>
  BY <1>0 DEF Return, Idle, IInv, TypeOK, Step
<1>2. QueueOK'
  <2>1. \A i \in 1 .. Len(connectionQueue) : connectionQueue[i] \in Threads
    BY TypeParts DEF IInv
  <2> QED BY <1>1, <2>1 DEF IInv, QueueOK, InQueue, Running, Runs
<1>3. TypeOK'
  BY <1>1, TypeParts DEF IInv, TypeOK
<1>4. MethodOK'
  BY <1>1 DEF IInv, MethodOK, Is
<1>5. DataOK' /\ HandlerSeesStore'
  BY <1>1, DataStays DEF Writes
<1> QED BY <1>2, <1>3, <1>4, <1>5 DEF IInv

LEMMA FlushKeeps ==
  ASSUME IInv, flushMemory
  PROVE  IInv'
<1>1. /\ UNCHANGED <<disk, working, connectionQueue, calls, faults>>
      /\ objectCache' = EmptyTable
  BY DEF flushMemory
<1>2. TypeOK'
  BY <1>1, EmptyTableType DEF IInv, TypeOK
<1>3. QueueOK' /\ MethodOK'
  BY <1>1 DEF IInv, QueueOK, MethodOK, Runs, Is
<1>4. DataOK'
  BY <1>1, EmptyTableType DEF IInv, DataOK, Writes, Is
<1>5. HandlerSeesStore'
  BY <1>1 DEF IInv, HandlerSeesStore, RowsOf, Is
<1> QED BY <1>2, <1>3, <1>4, <1>5 DEF IInv

\* A process that has just been started.
LEMMA FreshOK ==
  ASSUME NEW table \in Table, disk' = table, working' \in Table,
         objectCache' = EmptyTable, connectionQueue' = <<>>,
         calls' = [t \in Threads |-> Idle], faults' = 0
  PROVE  IInv'
<1>0. NoBatch \in Batch
  BY NoBatchIsBatch
<1>1. /\ calls' \in [Threads -> [step : Step, call : Method \cup {NoCall}, batch : Batch]]
      /\ \A t \in Threads : calls'[t].step = "idle"
  BY <1>0 DEF Idle, Step
<1>2. 0 \in 0 .. MaxFaults /\ <<>> \in Seq(Threads) /\ Len(<<>>) = 0
  BY ConnectionAssumption
<1>3. TypeOK'
  BY <1>1, <1>2, EmptyTableType DEF TypeOK
<1>4. \A t : t \notin Range(connectionQueue')
  BY DEF Range
<1>5. QueueOK'
  BY <1>1, <1>2, <1>4 DEF QueueOK, InQueue, Running
<1>6. MethodOK' /\ HandlerSeesStore'
  BY <1>1 DEF MethodOK, HandlerSeesStore
<1>7. DataOK'
  BY <1>1, EmptyTableType DEF DataOK, Writes
<1> QED BY <1>3, <1>5, <1>6, <1>7 DEF IInv

LEMMA DiesKeeps ==
  ASSUME IInv, Dies
  PROVE  IInv'
BY FreshOK, TypeParts DEF IInv, Dies

LEMMA Init_IInv == Init => IInv
<1> SUFFICES ASSUME Init PROVE IInv
  OBVIOUS
<1>0. NoBatch \in Batch
  BY NoBatchIsBatch
<1>1. /\ calls \in [Threads -> [step : Step, call : Method \cup {NoCall}, batch : Batch]]
      /\ \A t \in Threads : calls[t].step = "idle"
  BY <1>0 DEF Init, Idle, Step
<1>2. 0 \in 0 .. MaxFaults /\ <<>> \in Seq(Threads) /\ Len(<<>>) = 0
  BY ConnectionAssumption
<1>3. TypeOK
  BY <1>1, <1>2, EmptyTableType DEF Init, TypeOK
<1>4. \A t : t \notin Range(connectionQueue)
  BY DEF Init, Range
<1>5. QueueOK
  BY <1>1, <1>2, <1>4 DEF Init, QueueOK, InQueue, Running
<1>6. MethodOK /\ HandlerSeesStore
  BY <1>1 DEF MethodOK, HandlerSeesStore
<1>7. DataOK
  BY <1>1, EmptyTableType DEF Init, DataOK, Writes
<1> QED BY <1>3, <1>5, <1>6, <1>7 DEF IInv

LEMMA Next_IInv == IInv /\ [Next]_vars => IInv'
<1> SUFFICES ASSUME IInv, [Next]_vars PROVE IInv'
  OBVIOUS
<1>1. ASSUME NEW t \in Threads, NEW call \in Method, Call(t, call) PROVE IInv'
  BY <1>1, CallKeeps
<1>2. ASSUME NEW t \in Threads, Block(t) PROVE IInv'
  BY <1>2, AddEventKeeps, RemoveEventWithIdKeeps, DeleteAllPendingEventsKeeps,
     StatementFailsKeeps, FetchPendingEventsKeeps DEF Block
<1>3. ASSUME NEW t \in Threads, HandlerCallsClient(t) PROVE IInv'
  BY <1>3, HandlerCallsClientKeeps
<1>4. ASSUME NEW t \in Threads, Ends(t) PROVE IInv'
  BY <1>4, WriteHandlerReturnsKeeps, EndsKeep, ReturnKeeps, DiesKeeps
     DEF Ends, FetchHandlerRaises
<1>5. CASE flushMemory
  BY <1>5, FlushKeeps
<1>6. CASE Crash
  BY <1>6, DiesKeeps DEF Crash
<1>7. CASE UNCHANGED vars
  BY <1>7 DEF vars, IInv, TypeOK, QueueOK, MethodOK, DataOK, HandlerSeesStore,
              Runs, Is, Writes, Rows, RowsOf
<1> QED BY <1>1, <1>2, <1>3, <1>4, <1>5, <1>6, <1>7 DEF Next

LEMMA Invariance == Spec => []IInv
BY Init_IInv, Next_IInv, PTL DEF Spec

-----------------------------------------------------------------------------
(* Theorems. *)

\* Every variable keeps its type: batches are batches of stored events, and
\* tables hold what events have.
THEOREM TypeCorrect == Spec => []TypeOK
<1>1. IInv => TypeOK
  BY DEF IInv
<1> QED BY <1>1, Invariance, PTL

\* The handler of a fetch, which runs inside the transaction, works on what
\* is on disk until it returns (TPEventStore.m:95).
THEOREM HandlersSeeStore == Spec => []HandlerSeesStore
<1>1. IInv => HandlerSeesStore
  BY DEF IInv
<1> QED BY <1>1, Invariance, PTL

\* Every way out of a transaction frees the queue, so that whoever waits for
\* the store waits for a thread that can go on, or for one that waits for itself
\* (TPEventStore.m:95).
THEOREM OnlyReentryBlocks == Spec => []QueueMoves
<1>1. ASSUME IInv, NEW t \in Threads, calls[t].step = "waiting"
      PROVE  \E u \in Threads :
               /\ Runs(u)
               /\ calls[u].step \in {"waiting", "handler", "refused", "committing", "entered"}
  <2>1. connectionQueue \in Seq(Threads) /\ t \in Range(connectionQueue)
    BY <1>1 DEF IInv, TypeOK, QueueOK, InQueue
  <2>2. connectionQueue # <<>> /\ 1 \in DOMAIN connectionQueue
    BY <2>1 DEF Range
  <2>3. /\ Head(connectionQueue) \in Threads
        /\ Head(connectionQueue) \in Range(connectionQueue)
    BY <2>1, <2>2 DEF Range
  <2> QED
    BY <1>1, <2>2, <2>3 DEF IInv, QueueOK, InQueue, Runs
<1>2. IInv => QueueMoves
  BY <1>1 DEF QueueMoves
<1> QED BY <1>2, Invariance, PTL

-----------------------------------------------------------------------------
(***************************************************************************)
(* The refinement.  A write takes effect when it is committed or fails, a  *)
(* fetch when its rows are read.                                           *)
(***************************************************************************)

acalls == [t \in Threads |-> AbstractCall(t)]

RowsIn(batch) == {<<<<s[1], s[2].id>>, s[2].properties>> : s \in Sent(batch)}

State(t) == IF Done(t) THEN "done" ELSE "called"

LEMMA RowsInType ==
  ASSUME NEW batch \in Batch
  PROVE  RowsIn(batch) \subseteq (Collections \X (Ids \cup {NoId})) \X Payloads
<1>1. ASSUME NEW c \in Collections, NEW i \in DOMAIN batch[c]
      PROVE  batch[c][i].id \in Ids \cup {NoId} /\ batch[c][i].properties \in Payloads
  <2>1. batch[c] \in Seq(Event)
    BY DEF Batch
  <2>2. batch[c][i] \in Event
    BY <2>1
  <2> QED BY <2>2 DEF Event
<1>2. ASSUME NEW s \in Sent(batch)
      PROVE  s[1] \in Collections /\ s[2].id \in Ids \cup {NoId} /\ s[2].properties \in Payloads
  BY <1>1 DEF Sent
<1> QED BY <1>2 DEF RowsIn

TablesOver(K) == [K -> Payloads \cup {NoPayload}]

LEMMA ChangesType ==
  ASSUME NEW call \in Method
  PROVE  /\ Changes(call) \in UNION {[K -> Payloads \cup {NoPayload}] : K \in SUBSET Keys}
         /\ DOMAIN Changes(call) = {} <=> call.method = "fetchPendingEvents"
<1>1. EmptyTable \in Table
  BY EmptyTableType
<1> USE DEF TablesOver
<1>2. CASE call.method = "addEvent"
  <2> DEFINE k == <<call.collection, call.event.id>>
  <2>1. Changes(call) \in [{k} -> Payloads] /\ k \in Keys
    BY <1>1, <1>2, AddApplies
  <2> HIDE DEF k
  <2>2. Changes(call) \in TablesOver({k}) /\ {k} \in SUBSET Keys /\ DOMAIN Changes(call) # {}
    BY <2>1
  <2> QED BY <1>2, <2>2
<1>3. CASE call.method = "removeEventWithId"
  <2> DEFINE k == <<call.collection, call.id>>
  <2>1. Changes(call) = [x \in {k} |-> NoPayload] /\ k \in Keys
    BY <1>1, <1>3, RemoveApplies
  <2> HIDE DEF k
  <2>2. Changes(call) \in TablesOver({k}) /\ {k} \in SUBSET Keys /\ DOMAIN Changes(call) # {}
    BY <2>1
  <2> QED BY <1>3, <2>2
<1>4. CASE call.method = "deleteAllPendingEvents"
  <2>1. Changes(call) = EmptyTable /\ DOMAIN EmptyTable = Keys
    BY <1>1, <1>4, DeleteApplies DEF EmptyTable
  <2>2. Changes(call) \in TablesOver(Keys) /\ Keys \in SUBSET Keys /\ DOMAIN Changes(call) # {}
    BY <1>1, <2>1, ConnectionAssumption DEF Table
  <2> QED BY <1>4, <2>2
<1>5. CASE call.method = "fetchPendingEvents"
  <2>1. Changes(call) = <<>>
    BY <1>5 DEF Changes
  <2>2. Changes(call) \in TablesOver({}) /\ {} \in SUBSET Keys /\ DOMAIN Changes(call) = {}
    BY <2>1
  <2> QED BY <1>5, <2>2
<1>6. call.method \in {"addEvent", "removeEventWithId", "deleteAllPendingEvents",
                       "fetchPendingEvents"}
  BY DEF Method
<1> QED BY <1>2, <1>3, <1>4, <1>5, <1>6

\* What a thread's call is for the abstract table.
LEMMA AbstractCallIs ==
  ASSUME TypeOK, MethodOK, NEW t \in Threads, calls[t].step # "idle"
  PROVE  /\ AbstractCall(t) = [write |-> Changes(calls[t].call), state |-> State(t),
                               rows |-> RowsIn(calls[t].batch)]
         /\ acalls[t] = AbstractCall(t)
         /\ AbstractCall(t) # NoCall
         /\ State(t) = IF Done(t) THEN "done" ELSE "called"
<1>1. AbstractCall(t) = [write |-> Changes(calls[t].call), state |-> State(t),
                         rows |-> RowsIn(calls[t].batch)]
  BY DEF AbstractCall, RowsIn, State
<1>2. calls[t].batch \in Batch /\ calls[t].call \in Method
  BY DEF TypeOK, MethodOK
<1>3. State(t) \in {"called", "done"}
  BY DEF State
<1>4. AbstractCall(t) # NoCall
  BY <1>1, <1>2, <1>3, ChangesType, RowsInType, ConnectionAssumption
<1> QED BY <1>1, <1>4 DEF acalls, State

\* A step of one thread changes no other abstract call.
LEMMA OthersStay ==
  ASSUME NEW t \in Threads, NEW new, AbstractCall(t)' = new,
         \A u \in Threads \ {t} : calls'[u] = calls[u]
  PROVE  acalls' = [acalls EXCEPT ![t] = new]
<1>1. \A u \in Threads \ {t} : AbstractCall(u)' = AbstractCall(u)
  BY DEF AbstractCall, Done, Is
<1> QED BY <1>1 DEF acalls

\* A step between two steps at which a call is in the same abstract state.
LEMMA SameCall ==
  ASSUME NEW t \in Threads, calls[t].step # "idle", calls'[t].step # "idle",
         calls'[t].call = calls[t].call, calls'[t].batch = calls[t].batch,
         Done(t)' = Done(t),
         \A u \in Threads \ {t} : calls'[u] = calls[u]
  PROVE  acalls' = acalls
<1>1. AbstractCall(t)' = AbstractCall(t)
  BY DEF AbstractCall
<1>2. \A u \in Threads \ {t} : AbstractCall(u)' = AbstractCall(u)
  BY DEF AbstractCall, Done, Is
<1> QED BY <1>1, <1>2 DEF acalls

\* A write takes effect or fails.
LEMMA BecomesDone ==
  ASSUME TypeOK, MethodOK, TypeOK', MethodOK', NEW t \in Threads,
         calls[t].step # "idle", calls'[t].step # "idle",
         calls'[t].call = calls[t].call, calls'[t].batch = calls[t].batch,
         ~Done(t), Done(t)',
         \A u \in Threads \ {t} : calls'[u] = calls[u]
  PROVE  /\ acalls' = [acalls EXCEPT ![t].state = "done"]
         /\ acalls[t] # NoCall /\ acalls[t].state = "called"
         /\ acalls[t].write = Changes(calls[t].call)
<1>1. /\ acalls[t] = [write |-> Changes(calls[t].call), state |-> "called",
                       rows |-> RowsIn(calls[t].batch)]
      /\ acalls[t] # NoCall
  BY AbstractCallIs DEF State
<1>2. AbstractCall(t)' = [write |-> Changes(calls[t].call), state |-> "done",
                          rows |-> RowsIn(calls[t].batch)]
  <2>1. AbstractCall(t)' = [write |-> Changes(calls'[t].call), state |-> State(t)',
                            rows |-> RowsIn(calls'[t].batch)]
    BY DEF AbstractCall, RowsIn, State
  <2>2. State(t)' = "done"
    BY DEF State
  <2> QED BY <2>1, <2>2
<1>3. acalls' = [acalls EXCEPT ![t] = [write |-> Changes(calls[t].call), state |-> "done",
                                       rows |-> RowsIn(calls[t].batch)]]
  BY <1>2, OthersStay
<1>4. [acalls[t] EXCEPT !.state = "done"]
        = [write |-> Changes(calls[t].call), state |-> "done",
           rows |-> RowsIn(calls[t].batch)]
  BY <1>1
<1>5. acalls' = [acalls EXCEPT ![t].state = "done"]
  BY <1>3, <1>4, Zenon
<1> QED BY <1>1, <1>5

LEMMA Init_Abstract == Init => Abstract!Init
<1> SUFFICES ASSUME Init PROVE Abstract!Init
  OBVIOUS
<1>1. \A t \in Threads : AbstractCall(t) = NoCall
  BY DEF Init, Idle, AbstractCall
<1> QED BY <1>1 DEF Init, Abstract!Init, EmptyTable

LEMMA CallRefines ==
  ASSUME IInv, NEW t \in Threads, NEW call \in Method, Call(t, call)
  PROVE  Abstract!Call(t)
<1>1. /\ calls[t].step = "idle"
      /\ calls'[t] = [step |-> "waiting", call |-> call, batch |-> NoBatch]
      /\ \A u \in Threads \ {t} : calls'[u] = calls[u]
      /\ UNCHANGED <<disk, faults>>
  BY DEF Call, IInv, TypeOK
<1>2. acalls[t] = NoCall
  BY <1>1 DEF acalls, AbstractCall
<1>3. RowsIn(NoBatch) = {}
  BY DEF RowsIn, Sent, NoBatch
<1>4. AbstractCall(t)' = [write |-> Changes(call), state |-> "called", rows |-> {}]
  <2>1. ~Done(t)'
    BY <1>1 DEF Done, Is
  <2>2. State(t)' = "called"
    BY <2>1 DEF State
  <2>3. AbstractCall(t)' = [write |-> Changes(calls'[t].call), state |-> State(t)',
                            rows |-> RowsIn(calls'[t].batch)]
    BY <1>1 DEF AbstractCall, RowsIn, State
  <2>4. calls'[t].call = call /\ calls'[t].batch = NoBatch
    BY <1>1
  <2> QED BY <1>3, <2>2, <2>3, <2>4
<1>5. acalls' = [acalls EXCEPT ![t] = [write |-> Changes(call), state |-> "called", rows |-> {}]]
  BY <1>1, <1>4, OthersStay
<1>6. Changes(call) \in Abstract!Write
  BY ChangesType DEF Abstract!Write
<1> QED BY <1>1, <1>2, <1>5, <1>6 DEF Abstract!Call, acalls

\* The block of a write does not show yet.
LEMMA WriteBlockRefines ==
  ASSUME IInv, NEW t \in Threads,
         AddEvent(t) \/ RemoveEventWithId(t) \/ DeleteAllPendingEvents(t)
                     \/ WriteHandlerReturns(t)
  PROVE  acalls' = acalls /\ UNCHANGED <<disk, faults>>
<1>1. /\ calls[t].step \in {"waiting", "handler"}
      /\ calls'[t].step \in {"handler", "committing"}
      /\ ~Is(t, "fetchPendingEvents")
      /\ calls'[t].call = calls[t].call /\ calls'[t].batch = calls[t].batch
      /\ \A u \in Threads \ {t} : calls'[u] = calls[u]
      /\ UNCHANGED <<disk, faults>>
  BY DEF AddEvent, RemoveEventWithId, DeleteAllPendingEvents, WriteHandlerReturns,
         Starts, InHandler, To, Is, IInv, TypeOK
<1>2. Done(t)' = Done(t)
  BY <1>1 DEF Done, Is
<1> QED BY <1>1, <1>2, SameCall

LEMMA FailRefines ==
  ASSUME IInv, IInv', NEW t \in Threads, StatementFails(t) \/ CommitFails(t)
  PROVE  Abstract!Fail(t)
<1>1. /\ calls[t].step \in {"waiting", "committing"} /\ calls[t].call \in Method
      /\ calls'[t].step \in {"refused", "returning"}
      /\ ~Is(t, "fetchPendingEvents")
      /\ calls'[t].call = calls[t].call /\ calls'[t].batch = calls[t].batch
      /\ \A u \in Threads \ {t} : calls'[u] = calls[u]
      /\ UNCHANGED disk /\ faults' = faults + 1
  BY DEF StatementFails, CommitFails, Starts, Leave, To, Is, IInv, TypeOK, MethodOK
<1>2. ~Done(t) /\ Done(t)'
  BY <1>1 DEF Done, Is
<1>3. /\ acalls' = [acalls EXCEPT ![t].state = "done"]
      /\ acalls[t] # NoCall /\ acalls[t].state = "called"
      /\ acalls[t].write = Changes(calls[t].call)
  BY <1>1, <1>2, BecomesDone DEF IInv
<1>4. DOMAIN acalls[t].write # {}
  BY <1>1, <1>3, ChangesType DEF Is
<1> QED BY <1>1, <1>3, <1>4 DEF Abstract!Fail, Abstract!Pending, Abstract!IsFetch, acalls

LEMMA CommitRefines ==
  ASSUME IInv, IInv', NEW t \in Threads, Commit(t)
  PROVE  Abstract!TakeEffect(t)
<1>1. /\ calls[t].step = "committing" /\ calls[t].call \in Method
      /\ calls'[t].step = "returning"
      /\ ~Is(t, "fetchPendingEvents")
      /\ calls'[t].call = calls[t].call /\ calls'[t].batch = calls[t].batch
      /\ \A u \in Threads \ {t} : calls'[u] = calls[u]
      /\ disk' = working /\ UNCHANGED faults
  BY DEF Commit, Leave, To, Is, IInv, TypeOK, MethodOK
<1>2. ~Done(t) /\ Done(t)'
  BY <1>1 DEF Done, Is
<1>3. /\ acalls' = [acalls EXCEPT ![t].state = "done"]
      /\ acalls[t] # NoCall /\ acalls[t].state = "called"
      /\ acalls[t].write = Changes(calls[t].call)
  BY <1>1, <1>2, BecomesDone DEF IInv
<1>4. DOMAIN acalls[t].write # {}
  BY <1>1, <1>3, ChangesType DEF Is
<1>5. disk' = [k \in Keys |-> IF k \in DOMAIN acalls[t].write THEN acalls[t].write[k]
                               ELSE disk[k]]
  <2>1. Writes(t)
    BY <1>1 DEF Writes
  <2>2. working = Applied(Changes(calls[t].call), disk)
    BY <2>1 DEF IInv, DataOK
  <2> QED BY <1>1, <1>3, <2>2 DEF Applied
<1> QED BY <1>1, <1>3, <1>4, <1>5
        DEF Abstract!TakeEffect, Abstract!Pending, Abstract!IsFetch, acalls

LEMMA KeysOfRows ==
  ASSUME NEW table \in Table, NEW rows,
         rows = {<<k, table[k]>> : k \in Pending(table)}
  PROVE  Abstract!KeysOf(rows) = Pending(table)
<1> DEFINE K == Pending(table)
<1>1. \A k \in K : <<k, table[k]>> \in rows /\ <<k, table[k]>>[1] = k
  OBVIOUS
<1>2. \A r \in rows : r[1] \in K
  <2>1. ASSUME NEW k \in K PROVE <<k, table[k]>>[1] \in K
    OBVIOUS
  <2> QED BY <2>1
<1> HIDE DEF K
<1>3. ASSUME NEW x \in K PROVE x \in {r[1] : r \in rows}
  BY <1>1
<1>4. {r[1] : r \in rows} \subseteq K
  BY <1>2
<1>5. {r[1] : r \in rows} = K
  BY <1>3, <1>4
<1> QED BY <1>5 DEF K, Abstract!KeysOf

LEMMA FetchRefines ==
  ASSUME IInv, IInv', NEW t \in Threads, FetchPendingEvents(t)
  PROVE  Abstract!Fetch(t)
<1>1. /\ Runs(t) /\ calls[t].step = "waiting" /\ Is(t, "fetchPendingEvents")
      /\ UNCHANGED <<disk, faults>>
  BY DEF FetchPendingEvents, Starts
<1>2. PICK batch \in fetchPendingEvents(Shown) :
        calls' = [calls EXCEPT ![t].step = "handler", ![t].batch = batch]
  BY DEF FetchPendingEvents
<1>3. /\ Shown \in Table /\ Pending(Shown) = Pending(disk)
      /\ faults = 0 => Shown = disk
  BY <1>1, ShownRows DEF Writes
<1>4. Sent(batch) = RowsOf(Shown)
  BY <1>3, FetchedRows DEF RowsOf
<1>5. RowsIn(batch) = {<<k, Shown[k]>> : k \in Pending(Shown)}
  <2> DEFINE row(k) == <<k[1], [id |-> k[2], properties |-> Shown[k]]>>
             P == Pending(Shown)
             key(s) == <<<<s[1], s[2].id>>, s[2].properties>>
  <2>1. \A k \in P : key(row(k)) = <<k, Shown[k]>>
    BY DEF Pending
  <2>2. Sent(batch) = {row(k) : k \in P}
    BY <1>4 DEF RowsOf
  <2>3. RowsIn(batch) = {key(s) : s \in Sent(batch)}
    BY DEF RowsIn
  <2> HIDE DEF row, key, P
  <2>4. RowsIn(batch) = {key(row(k)) : k \in P}
    BY <2>2, <2>3
  <2>5. RowsIn(batch) = {<<k, Shown[k]>> : k \in P}
    BY <2>1, <2>4
  <2> QED BY <2>5 DEF P
<1>6. /\ calls'[t].step = "handler" /\ calls'[t].call = calls[t].call
      /\ calls'[t].batch = batch
      /\ \A u \in Threads \ {t} : calls'[u] = calls[u]
      /\ calls[t].call \in Method
  BY <1>1, <1>2 DEF IInv, TypeOK, MethodOK
<1>7. ~Done(t) /\ Done(t)'
  BY <1>1, <1>6 DEF Done, Is
<1>8. /\ acalls[t] = [write |-> Changes(calls[t].call), state |-> "called",
                       rows |-> RowsIn(calls[t].batch)]
      /\ acalls[t] # NoCall
  BY <1>1, <1>7, AbstractCallIs DEF IInv, State
<1>9. AbstractCall(t)' = [write |-> Changes(calls[t].call), state |-> "done",
                          rows |-> RowsIn(batch)]
  <2>1. State(t)' = "done"
    BY <1>7 DEF State
  <2> QED BY <1>6, <2>1 DEF AbstractCall, RowsIn, State
<1>10. acalls' = [acalls EXCEPT ![t] = [write |-> acalls[t].write, state |-> "done",
                                         rows |-> RowsIn(batch)]]
  <2>1. acalls[t].write = Changes(calls[t].call)
    BY <1>8
  <2> QED BY <1>6, <1>9, <2>1, OthersStay
<1>11. DOMAIN acalls[t].write = {}
  BY <1>1, <1>6, <1>8, ChangesType DEF Is
<1>12. RowsIn(batch) \in SUBSET (Keys \X Payloads)
  <2>1. \A k \in Pending(Shown) : k \in Keys /\ Shown[k] \in Payloads
    BY <1>3 DEF Pending, Table
  <2> QED BY <1>5, <2>1
<1>13. Abstract!Rows(disk) = {<<k, disk[k]>> : k \in Pending(disk)}
  BY DEF Abstract!Rows, Pending
<1>14. IF faults = 0 THEN RowsIn(batch) = Abstract!Rows(disk)
       ELSE Abstract!KeysOf(RowsIn(batch)) = Abstract!KeysOf(Abstract!Rows(disk))
  <2>1. CASE faults = 0
    BY <1>3, <1>5, <1>13, <2>1
  <2>2. CASE faults # 0
    <3>1. Abstract!KeysOf(RowsIn(batch)) = Pending(Shown)
      BY <1>3, <1>5, KeysOfRows
    <3>2. Abstract!KeysOf(Abstract!Rows(disk)) = Pending(disk)
      BY <1>13, KeysOfRows, TypeParts DEF IInv
    <3> QED BY <1>3, <2>2, <3>1, <3>2
  <2> QED BY <2>1, <2>2
<1>15. Abstract!Pending(t) /\ Abstract!IsFetch(acalls[t].write)
  BY <1>8, <1>11 DEF Abstract!Pending, Abstract!IsFetch, acalls
<1> QED BY <1>1, <1>10, <1>12, <1>14, <1>15 DEF Abstract!Fetch, acalls

\* A call that has taken effect moves on.
LEMMA DoneStays ==
  ASSUME IInv, NEW t \in Threads,
         RefusedWriteReturns(t) \/ FetchHandlerReturns(t) \/ HandlerCallsClient(t)
  PROVE  acalls' = acalls /\ UNCHANGED <<disk, faults>>
<1>1. /\ \/ calls[t].step = "refused" /\ calls'[t].step = "returning"
            /\ ~Is(t, "fetchPendingEvents")
         \/ /\ calls[t].step = "handler" /\ calls'[t].step \in {"returning", "entered"}
            /\ Is(t, "fetchPendingEvents")
      /\ calls'[t].call = calls[t].call /\ calls'[t].batch = calls[t].batch
      /\ \A u \in Threads \ {t} : calls'[u] = calls[u]
      /\ UNCHANGED <<disk, faults>>
  BY DEF RefusedWriteReturns, FetchHandlerReturns, HandlerCallsClient, InHandler,
         Leave, To, Is, IInv, TypeOK, MethodOK
<1>2. Done(t)' = Done(t)
  BY <1>1 DEF Done, Is
<1> QED BY <1>1, <1>2, SameCall

LEMMA ReturnRefines ==
  ASSUME IInv, NEW t \in Threads, Return(t)
  PROVE  Abstract!Return(t)
<1>1. /\ calls[t].step = "returning" /\ calls'[t] = Idle
      /\ \A u \in Threads \ {t} : calls'[u] = calls[u]
      /\ UNCHANGED <<disk, faults>>
  BY DEF Return, IInv, TypeOK
<1>2. Done(t)
  BY <1>1 DEF Done
<1>3. acalls[t] # NoCall /\ acalls[t].state = "done"
  BY <1>1, <1>2, AbstractCallIs DEF IInv, State
<1>4. AbstractCall(t)' = NoCall
  BY <1>1 DEF AbstractCall, Idle
<1>5. acalls' = [acalls EXCEPT ![t] = NoCall]
  BY <1>1, <1>4, OthersStay
<1> QED BY <1>1, <1>3, <1>5 DEF Abstract!Return, acalls

LEMMA DiesRefines ==
  ASSUME Dies
  PROVE  Abstract!Crash
<1>1. \A t \in Threads : AbstractCall(t)' = NoCall
  BY DEF Dies, Idle, AbstractCall
<1> QED BY <1>1 DEF Dies, Abstract!Crash

LEMMA Next_Abstract ==
  IInv /\ IInv' /\ [Next]_vars => [Abstract!Next]_(Abstract!vars)
<1> SUFFICES ASSUME IInv, IInv', [Next]_vars
             PROVE  Abstract!Next \/ UNCHANGED Abstract!vars
  OBVIOUS
<1>0. ASSUME acalls' = acalls, UNCHANGED <<disk, faults>> PROVE UNCHANGED Abstract!vars
  BY <1>0 DEF Abstract!vars, acalls
<1>1. ASSUME NEW t \in Threads, NEW call \in Method, Call(t, call) PROVE Abstract!Next
  BY <1>1, CallRefines DEF Abstract!Next
<1>2. ASSUME NEW t \in Threads, Block(t) PROVE Abstract!Next \/ UNCHANGED Abstract!vars
  <2>1. CASE AddEvent(t) \/ RemoveEventWithId(t) \/ DeleteAllPendingEvents(t)
    BY <1>0, <2>1, WriteBlockRefines
  <2>2. CASE StatementFails(t)
    BY <2>2, FailRefines DEF Abstract!Next
  <2>3. CASE FetchPendingEvents(t)
    BY <2>3, FetchRefines DEF Abstract!Next
  <2> QED BY <1>2, <2>1, <2>2, <2>3 DEF Block
<1>3. ASSUME NEW t \in Threads, HandlerCallsClient(t) PROVE UNCHANGED Abstract!vars
  BY <1>0, <1>3, DoneStays
<1>4. ASSUME NEW t \in Threads, Ends(t) PROVE Abstract!Next \/ UNCHANGED Abstract!vars
  <2>1. CASE WriteHandlerReturns(t)
    BY <1>0, <2>1, WriteBlockRefines
  <2>2. CASE RefusedWriteReturns(t) \/ FetchHandlerReturns(t)
    BY <1>0, <2>2, DoneStays
  <2>3. CASE FetchHandlerRaises(t)
    BY <2>3, DiesRefines DEF FetchHandlerRaises, Abstract!Next
  <2>4. CASE Commit(t)
    BY <2>4, CommitRefines DEF Abstract!Next
  <2>5. CASE CommitFails(t)
    BY <2>5, FailRefines DEF Abstract!Next
  <2>6. CASE Return(t)
    BY <2>6, ReturnRefines DEF Abstract!Next
  <2> QED BY <1>4, <2>1, <2>2, <2>3, <2>4, <2>5, <2>6 DEF Ends
<1>5. CASE flushMemory
  <2>1. calls' = calls /\ UNCHANGED <<disk, faults>>
    BY <1>5 DEF flushMemory
  <2>2. acalls' = acalls
    BY <2>1 DEF acalls, AbstractCall, Done, Is
  <2> QED BY <1>0, <2>1, <2>2
<1>6. CASE Crash
  BY <1>6, DiesRefines DEF Crash, Abstract!Next
<1>7. CASE UNCHANGED vars
  <2>1. calls' = calls /\ UNCHANGED <<disk, faults>>
    BY <1>7 DEF vars
  <2>2. acalls' = acalls
    BY <2>1 DEF acalls, AbstractCall, Done, Is
  <2> QED BY <1>0, <2>1, <2>2
<1> QED BY <1>1, <1>2, <1>3, <1>4, <1>5, <1>6, <1>7 DEF Next

\* The store is a durable table: every call takes effect at one moment before
\* it returns, for any number of threads and any crashes, and fetches are
\* right about every row while SQLite has failed no write.
THEOREM StoreIsDurable == Spec => ImplementsDurableTable
BY Init_Abstract, Next_Abstract, Invariance, PTL
   DEF Spec, ImplementsDurableTable, Abstract!Spec
=============================================================================
