-------------------------- MODULE StoreConnection --------------------------
(***************************************************************************)
(* How the methods of TPEventStore run.  All of them go through the one    *)
(* connection of the store: the caller waits on its serial queue, the      *)
(* block of the transaction runs on it, and a write is committed when the  *)
(* block has returned.  The handlers the methods take run inside the       *)
(* block.  The one of fetchPendingEvents serialises the batch and, when    *)
(* that fails, calls the application there.  TPConnectClient takes each    *)
(* method for one step; this module is why it may.                         *)
(*                                                                         *)
(* YapDatabase keeps the objects it has written or read in a cache, and    *)
(* serves those for rows that exist.  With one connection nothing else     *)
(* changes the rows; YapDatabase models what several would do.             *)
(***************************************************************************)
EXTENDS TPConnectAPI

CONSTANTS
  Threads,
  NoCall,
  MaxFaults   \* bound on the writes SQLite fails in one life of the process

ASSUME ConnectionAssumption ==
  /\ Keys # {}
  /\ NoCall \notin [write : UNION {[K -> Payloads \cup {NoPayload}] : K \in SUBSET Keys},
                   state : {"called", "done"},
                   rows : SUBSET ((Collections \X (Ids \cup {NoId})) \X Payloads)]
  /\ MaxFaults \in Nat

VARIABLES
  disk,             \* what SQLite has committed
  working,          \* what the write transaction that runs has made of it
  objectCache,
  connectionQueue,  \* threads in dispatch_sync, the one that runs first
  calls,            \* what each thread is doing
  faults            \* writes that SQLite failed in this life of the process

vars == <<disk, working, objectCache, connectionQueue, calls, faults>>

Method ==
       [method : {"addEvent"}, event : [id : Ids, properties : Payloads],
        collection : Collections]
  \cup [method : {"removeEventWithId"}, id : Ids, collection : Collections]
  \cup [method : {"deleteAllPendingEvents", "fetchPendingEvents"}]

\* "entered" is a call from inside a handler: of the queue it runs on.
Step == {"idle", "waiting", "handler", "refused", "committing", "returning", "entered"}

Idle == [step |-> "idle", call |-> NoCall, batch |-> NoBatch]

TypeOK ==
  /\ disk \in Table
  /\ working \in Table
  /\ objectCache \in Table
  /\ connectionQueue \in Seq(Threads)
  /\ calls \in [Threads -> [step : Step, call : Method \cup {NoCall}, batch : Batch]]
  /\ faults \in 0 .. MaxFaults

Init ==
  /\ disk = EmptyTable
  /\ working = EmptyTable
  /\ objectCache = EmptyTable
  /\ connectionQueue = <<>>
  /\ calls = [t \in Threads |-> Idle]
  /\ faults = 0

Is(t, method) == calls[t].call.method = method

-----------------------------------------------------------------------------
\* readWithBlock: and readWriteWithBlock: up to dispatch_sync.
Call(t, call) ==
  /\ calls[t].step = "idle"
  /\ calls' = [calls EXCEPT ![t] = [step |-> "waiting", call |-> call, batch |-> NoBatch]]
  /\ connectionQueue' = Append(connectionQueue, t)
  /\ UNCHANGED <<disk, working, objectCache, faults>>

\* Faulty: a concurrent queue.
Runs_Concurrent(t) == t \in Range(connectionQueue)

\* The queue is serial.
Runs(t) == connectionQueue # <<>> /\ Head(connectionQueue) = t

Starts(t) == Runs(t) /\ calls[t].step = "waiting"

To(t, step) == calls' = [calls EXCEPT ![t].step = step]

\* The block of addEvent:withCompletionHandler:.
AddEvent(t) ==
  LET call == calls[t].call
  IN  /\ Starts(t) /\ Is(t, "addEvent")
      /\ working' = addEvent(disk, call.event, call.collection)
      /\ objectCache' = addEvent(objectCache, call.event, call.collection)
      /\ To(t, "handler")
      /\ UNCHANGED <<disk, connectionQueue, faults>>

\* The block of removeEventWithId:fromCollection:.  Without a row the cache
\* is not touched.
RemoveEventWithId(t) ==
  LET call == calls[t].call
  IN  /\ Starts(t) /\ Is(t, "removeEventWithId")
      /\ working' = removeEventWithId(disk, call.id, call.collection)
      /\ objectCache' = IF <<call.collection, call.id>> \in Pending(disk)
                          THEN removeEventWithId(objectCache, call.id, call.collection)
                          ELSE objectCache
      /\ To(t, "handler")
      /\ UNCHANGED <<disk, connectionQueue, faults>>

\* The block of deleteAllPendingEvents:.
DeleteAllPendingEvents(t) ==
  /\ Starts(t) /\ Is(t, "deleteAllPendingEvents")
  /\ working' = deleteAllPendingEvents(disk)
  /\ objectCache' = deleteAllPendingEvents(objectCache)
  /\ To(t, "handler")
  /\ UNCHANGED <<disk, connectionQueue, faults>>

\* SQLite refuses the INSERT or the DELETE.  That is logged, and the block goes
\* on without; the one that deletes everything empties the cache all the same.
StatementFails(t) ==
  LET call == calls[t].call
  IN  /\ Starts(t) /\ ~Is(t, "fetchPendingEvents")
      /\ Is(t, "removeEventWithId") => <<call.collection, call.id>> \in Pending(disk)
      /\ faults < MaxFaults
      /\ faults' = faults + 1
      /\ objectCache' = IF Is(t, "deleteAllPendingEvents") THEN EmptyTable ELSE objectCache
      /\ To(t, "refused")
      /\ UNCHANGED <<disk, working, connectionQueue>>

\* Faulty: objects of the cache whether there is a row or not.
Shown_Cached == [k \in Keys |-> IF objectCache[k] # NoPayload THEN objectCache[k]
                                ELSE disk[k]]

\* What the enumeration of the rows yields: cached objects come first.
Shown == [k \in Keys |-> IF disk[k] # NoPayload /\ objectCache[k] # NoPayload
                           THEN objectCache[k] ELSE disk[k]]

\* The block of fetchPendingEventsWithCompletionHandler:, up to its handler.
FetchPendingEvents(t) ==
  /\ Starts(t) /\ Is(t, "fetchPendingEvents")
  /\ \E batch \in fetchPendingEvents(Shown) :
       calls' = [calls EXCEPT ![t].step = "handler", ![t].batch = batch]
  /\ objectCache' = [k \in Keys |-> IF disk[k] # NoPayload THEN Shown[k]
                                    ELSE objectCache[k]]
  /\ UNCHANGED <<disk, working, connectionQueue, faults>>

-----------------------------------------------------------------------------
(* Inside the transaction. *)

InHandler(t) == Runs(t) /\ calls[t].step = "handler"

Leave(t) ==
  /\ To(t, "returning")
  /\ connectionQueue' = Tail(connectionQueue)

\* The handlers of the writes are empty or nil.
WriteHandlerReturns(t) ==
  /\ InHandler(t) /\ ~Is(t, "fetchPendingEvents")
  /\ To(t, "committing")
  /\ UNCHANGED <<disk, working, objectCache, connectionQueue, faults>>

\* Then there is nothing to commit.
RefusedWriteReturns(t) ==
  /\ Runs(t) /\ calls[t].step = "refused"
  /\ Leave(t)
  /\ UNCHANGED <<disk, working, objectCache, faults>>

\* The request is started, or the application's handler told the error; that
\* handler returns without calling the client.
FetchHandlerReturns(t) ==
  /\ InHandler(t) /\ Is(t, "fetchPendingEvents")
  /\ processBatch(calls[t].batch) # {"exception"}
  /\ Leave(t)
  /\ UNCHANGED <<disk, working, objectCache, faults>>

\* The application's handler, told the error, calls the client: dispatch_sync
\* from the queue's own block.  (Newer versions of libdispatch end the
\* process instead of waiting for ever, which Crash stands for.)
HandlerCallsClient(t) ==
  /\ InHandler(t) /\ Is(t, "fetchPendingEvents")
  /\ "error" \in processBatch(calls[t].batch)
  /\ To(t, "entered")
  /\ connectionQueue' = Append(connectionQueue, t)
  /\ UNCHANGED <<disk, working, objectCache, faults>>

Commit(t) ==
  /\ Runs(t) /\ calls[t].step = "committing"
  /\ disk' = working
  /\ Leave(t)
  /\ UNCHANGED <<working, objectCache, faults>>

\* Faulty: the error path leaves the queue occupied.
CommitFails_Occupied(t) ==
  /\ Runs(t) /\ calls[t].step = "committing"
  /\ faults < MaxFaults
  /\ faults' = faults + 1
  /\ To(t, "returning")
  /\ UNCHANGED <<disk, working, objectCache, connectionQueue>>

\* COMMIT fails and SQLite rolls back.  That is logged; the cache is kept.
CommitFails(t) ==
  /\ Runs(t) /\ calls[t].step = "committing"
  /\ faults < MaxFaults
  /\ faults' = faults + 1
  /\ Leave(t)
  /\ UNCHANGED <<disk, working, objectCache>>

\* For addEvent:toCollection:withError: the answer is YES.
Return(t) ==
  /\ calls[t].step = "returning"
  /\ calls' = [calls EXCEPT ![t] = Idle]
  /\ UNCHANGED <<disk, working, objectCache, connectionQueue, faults>>

-----------------------------------------------------------------------------
\* A memory warning: a block of its own on the queue.
flushMemory ==
  /\ \A t \in Threads : Runs(t) => calls[t].step = "waiting"
  /\ objectCache' = EmptyTable
  /\ UNCHANGED <<disk, working, connectionQueue, calls, faults>>

Dies ==
  /\ working' = disk
  /\ objectCache' = EmptyTable
  /\ connectionQueue' = <<>>
  /\ calls' = [t \in Threads |-> Idle]
  /\ faults' = 0
  /\ UNCHANGED disk

\* Killed, at any moment.
Crash == Dies

\* Nobody catches what serialising the batch raises.
FetchHandlerRaises(t) ==
  /\ InHandler(t) /\ Is(t, "fetchPendingEvents")
  /\ "exception" \in processBatch(calls[t].batch)
  /\ Dies

Block(t) ==
  \/ AddEvent(t) \/ RemoveEventWithId(t) \/ DeleteAllPendingEvents(t)
  \/ StatementFails(t) \/ FetchPendingEvents(t)

Ends(t) ==
  \/ WriteHandlerReturns(t) \/ RefusedWriteReturns(t)
  \/ FetchHandlerReturns(t) \/ FetchHandlerRaises(t)
  \/ Commit(t) \/ CommitFails(t) \/ Return(t)

Next ==
  \/ \E t \in Threads :
       \/ \E call \in Method : Call(t, call)
       \/ Block(t)
       \/ HandlerCallsClient(t)
       \/ Ends(t)
  \/ flushMemory
  \/ Crash

Spec == Init /\ [][Next]_vars

\* A thread that can run does, and a handler that does not call the client
\* returns.
FairSpec ==
  /\ Spec
  /\ \A t \in Threads : WF_vars(Block(t)) /\ WF_vars(Ends(t))
-----------------------------------------------------------------------------
RowsOf(table) ==
  {<<k[1], [id |-> k[2], properties |-> table[k]]>> : k \in Pending(table)}

(***************************************************************************)
(* What the handler of a fetch was given is what is on disk for as long as *)
(* the handler runs, other threads' adds and removals notwithstanding, and *)
(* though objects come from the cache: unless SQLite failed a write of     *)
(* this process.  (TPEventStore.m:95)                                      *)
(***************************************************************************)
HandlerSeesStore ==
  \A t \in Threads :
    calls[t].step = "handler" /\ Is(t, "fetchPendingEvents") /\ faults = 0 =>
      Sent(calls[t].batch) = RowsOf(disk)

(***************************************************************************)
(* Whoever waits for the store waits for a block that can go on: on every  *)
(* way out of a transaction, refused statements, failed commits and        *)
(* exceptions included, the thread leaves the queue.  The exception is the *)
(* thread whose own handler called the client.  (TPEventStore.m:95)        *)
(***************************************************************************)
QueueMoves ==
  \A t \in Threads : calls[t].step = "waiting" =>
    \E u \in Threads :
      /\ Runs(u)
      /\ calls[u].step \in {"waiting", "handler", "refused", "committing", "entered"}

(***************************************************************************)
(* Calls of the store take effect at one moment each, before they return,  *)
(* in spite of the handlers that run before the commit, of crashes at any  *)
(* moment and of a cache that forgets.  (TPEventStore.m:61-106)  A write   *)
(* that SQLite refused has no effect and its caller is not told, addEvent  *)
(* answers YES: only while there is none may a caller take a method for    *)
(* one step that succeeds.                                                 *)
(***************************************************************************)
Changes(call) ==
  CASE call.method = "addEvent" ->
         [k \in {<<call.collection, call.event.id>>} |-> call.event.properties]
    [] call.method = "removeEventWithId" ->
         [k \in {<<call.collection, call.id>>} |-> NoPayload]
    [] call.method = "deleteAllPendingEvents" -> EmptyTable
    [] call.method = "fetchPendingEvents" -> <<>>

Done(t) ==
  IF Is(t, "fetchPendingEvents") THEN calls[t].step # "waiting"
  ELSE calls[t].step \in {"refused", "returning"}

AbstractCall(t) ==
  IF calls[t].step = "idle" THEN NoCall
  ELSE [write |-> Changes(calls[t].call),
        state |-> IF Done(t) THEN "done" ELSE "called",
        rows  |-> {<<<<s[1], s[2].id>>, s[2].properties>> : s \in Sent(calls[t].batch)}]

Abstract == INSTANCE DurableTable WITH
  Callers <- Threads,
  Values <- Payloads,
  NoValue <- NoPayload,
  table <- disk,
  calls <- [t \in Threads |-> AbstractCall(t)]

ImplementsDurableTable == Abstract!Spec

(***************************************************************************)
(* Nothing but a handler that calls the client from inside its transaction *)
(* makes a call hang: while that does not happen every call returns, or    *)
(* the process dies.                                                       *)
(***************************************************************************)
Entered == \E t \in Threads : calls[t].step = "entered"

EveryCallReturns ==
  [](~Entered) =>
    \A t \in Threads : calls[t].step = "waiting" ~> calls[t].step = "idle"
=============================================================================
