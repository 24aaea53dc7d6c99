--------------------------- MODULE TPConnectClient ---------------------------
(***************************************************************************)
(* The client (TPConnectClient.m) with its queue on disk, its requests in  *)
(* flight and the Connect service.  The application's threads call the     *)
(* client's methods at any time; NSURLSession runs the completion blocks   *)
(* of the requests one at a time, on its serial delegate queue; a block    *)
(* that removes several events does so in one transaction per event, and   *)
(* anything may happen between two of them, the death of the process       *)
(* included.  SQLite refuses no write here: what the store then does is in *)
(* StoreConnection, and no property below is about it.                     *)
(***************************************************************************)
EXTENDS ConnectService

CONSTANTS
  Pushes,      \* pushes that may be under way at the same time (a bound)
  NoPush,      \* owner of a request nobody waits for any more
  Invalid,     \* payloads validate: refuses
  CallerIds,   \* ids the application puts into events itself
  Kinds,       \* the methods each of them pushes with
  Statuses     \* the replies other than 200 that the service gives

ASSUME ClientAssumption ==
  /\ Invalid \subseteq Payloads
  /\ CallerIds \subseteq Ids
  /\ NoPush \notin Pushes
  /\ Kinds \in [Pushes -> SUBSET {"event", "batch", "pending"}]
  /\ Statuses \subseteq TPHTTPStatusCode \ {"ok"}

VARIABLES
  store,     \* the queue on disk
  used,      \* ids drawn by NSUUID so far: never drawn again
  calls,     \* what each push is doing
  requests,  \* requests on their way to the service
  connect,   \* what the service has recorded
  queued     \* observation: payload last queued for a key and not discarded

vars == <<store, used, calls, requests, connect, queued>>

(***************************************************************************)
(* A push: idle, or sent and waiting for its completion block, or in the   *)
(* loops of lines 136-143 of TPConnectClient.m with the results of the     *)
(* collections it has not reached and, of the one it is in, those it has   *)
(* not handled.  "told" observes the calls of the completion handler of    *)
(* the last push; "none" says that there was none in this process.         *)
(***************************************************************************)
Push == [phase   : {"idle", "sent", "looping"},
         kind    : {"event", "batch", "pending", "none"},
         batch   : Batch,
         reply   : Reply,
         results : Results,
         work    : Seq(Collections \X EventAPIResponse),
         told    : Seq(Told)]

Request == [owner : Pushes \cup {NoPush}, batch : Batch]

Idle(kind, told) ==
  [phase |-> "idle", kind |-> kind, batch |-> NoBatch, reply |-> NoReply,
   results |-> NoBatch, work |-> <<>>, told |-> told]

InFlight(kind, batch, told) ==
  [Idle(kind, told) EXCEPT !.phase = "sent", !.batch = batch]

AllIdle == [p \in Pushes |-> Idle("none", <<>>)]

TypeOK ==
  /\ store \in Table
  /\ used \subseteq Ids
  /\ calls \in [Pushes -> Push]
  /\ requests \subseteq Request
  /\ connect \in Table
  /\ queued \in Table

Init ==
  /\ store = EmptyTable
  /\ used = {}
  /\ calls = AllIdle
  /\ requests = {}
  /\ connect = EmptyTable
  /\ queued = EmptyTable

-----------------------------------------------------------------------------
(* The queue. *)

\* An id the properties carry already, or one that NSUUID just drew.
DrawId(i) ==
  \/ i \in CallerIds /\ UNCHANGED used
  \/ i \in Ids \ (CallerIds \cup used) /\ used' = used \cup {i}

\* addEvent:toCollection:withError: (for invalid properties it returns NO and
\* changes nothing).
AddEvent(c, v) ==
  /\ v \notin Invalid
  /\ \E i \in Ids :
       /\ DrawId(i)
       /\ store' = addEvent(store, [id |-> i, properties |-> v], c)
       /\ queued' = [queued EXCEPT ![<<c, i>>] = v]
  /\ UNCHANGED <<calls, requests, connect>>

RemovePendingEvent(c, i) ==
  /\ <<c, i>> \in Pending(store)
  /\ store' = removeEventWithId(store, i, c)
  /\ queued' = [queued EXCEPT ![<<c, i>>] = NoPayload]
  /\ UNCHANGED <<used, calls, requests, connect>>

RemoveAllPendingEvents ==
  /\ Pending(store) # {}
  /\ store' = deleteAllPendingEvents(store)
  /\ queued' = EmptyTable
  /\ UNCHANGED <<used, calls, requests, connect>>

-----------------------------------------------------------------------------
(* Pushing: the part of the methods that runs on the caller's thread. *)

\* A request outlives the push that sent it: a timeout or the death of the
\* process does not take it back.
Orphaned(P) ==
  {IF r.owner \in P THEN [r EXCEPT !.owner = NoPush] ELSE r : r \in requests}

\* The process ends; its queue is on disk.
Dies ==
  /\ calls' = AllIdle
  /\ requests' = Orphaned(Pushes)

\* Serialise and start the task.  When there is no body the handler is told
\* at once; an NSInvalidArgumentException is caught by nobody.
Send(p, kind, batch, told) ==
  \/ /\ "data" \in processBatch(batch)
     /\ calls' = [calls EXCEPT ![p] = InFlight(kind, batch, told)]
     /\ requests' = requests \cup {[owner |-> p, batch |-> batch]}
  \/ /\ "error" \in processBatch(batch)
     /\ calls' = [calls EXCEPT ![p] = Idle(kind, Append(told, Failure))]
     /\ UNCHANGED requests
  \/ /\ "exception" \in processBatch(batch)
     /\ Dies

Free(p, kind) == kind \in Kinds[p] /\ calls[p].phase = "idle"

\* pushEvent:toCollection:completionHandler: of an event that validates.
PushEvent(p, c, v) ==
  /\ Free(p, "event") /\ v \notin Invalid
  /\ \E i \in Ids :
       /\ DrawId(i)
       /\ Send(p, "event", Single(c, [id |-> i, properties |-> v]), <<>>)
  /\ UNCHANGED <<store, connect, queued>>

\* The same method, of one that does not: the handler is told, and the event
\* is sent all the same, with the same handler.
PushInvalidEvent(p, c, v) ==
  /\ Free(p, "event") /\ v \in Invalid
  /\ \E i \in CallerIds \cup {NoId} :
       Send(p, "event", Single(c, [id |-> i, properties |-> v]), <<Failure>>)
  /\ UNCHANGED <<store, used, connect, queued>>

\* Faulty: does not return after it reported the invalid event.
PushEventBatch_Continues(p, table) ==
  /\ Free(p, "batch")
  /\ \E batch \in fetchPendingEvents(table) :
       Send(p, "batch", batch,
            IF SentPayloads(batch) \cap Invalid = {} THEN <<>> ELSE <<Failure>>)
  /\ UNCHANGED <<store, used, connect, queued>>

\* TPEvent's processBatch: one event that does not validate refuses them all.
processEvents(batch) == SentPayloads(batch) \cap Invalid = {}

\* The application's batches: any set of events, in a collection each with an
\* id of its own (the code takes an id twice; no property turns on it).
PushEventBatch(p, table) ==
  LET drawn == {k \in Pending(table) : k[2] \notin CallerIds}
  IN  /\ Free(p, "batch")
      /\ \A k \in drawn : k[2] \notin used
      /\ \A k, l \in drawn : k[2] = l[2] => k = l
      /\ \E batch \in fetchPendingEvents(table) :
           \/ /\ ~processEvents(batch)
              /\ calls' = [calls EXCEPT ![p] = Idle("batch", <<Failure>>)]
              /\ UNCHANGED <<used, requests>>
           \/ /\ processEvents(batch)
              /\ used' = used \cup {k[2] : k \in drawn}
              /\ Send(p, "batch", batch, <<>>)
      /\ UNCHANGED <<store, connect, queued>>

\* pushAllPendingEventsWithCompletionHandler:.  The fetch, the serialisation
\* and, when that fails, the handler all run inside one read transaction.
PushAllPendingEvents(p) ==
  /\ Free(p, "pending")
  /\ \E batch \in fetchPendingEvents(store) : Send(p, "pending", batch, <<>>)
  /\ UNCHANGED <<store, used, connect, queued>>

-----------------------------------------------------------------------------
(* The service and the network. *)

Deliver(r, reply) ==
  /\ requests' = requests \ {r}
  /\ calls' = IF r.owner = NoPush THEN calls
                ELSE [calls EXCEPT ![r.owner].reply = reply]

\* The service takes the request and answers in full.
ServiceAnswers(r) ==
  /\ r \in requests
  /\ connect' = Record(connect, r.batch)
  /\ Deliver(r, IF r.owner # NoPush /\ calls[r.owner].kind = "event"
                  THEN [NoReply EXCEPT !.status = SingleStatus(connect, r.batch)]
                  ELSE [status |-> "ok", body |-> Answer(connect, r.batch)])
  /\ UNCHANGED <<store, used, queued>>

\* The reply is an error or cannot be read; the service may have recorded
\* the events before that.
ServiceFails(r) ==
  /\ r \in requests
  /\ connect' \in {connect, Record(connect, r.batch)}
  /\ \E status \in Statuses :
       Deliver(r, [NoReply EXCEPT !.status = status])
  /\ UNCHANGED <<store, used, queued>>

RequestLost(r) ==
  /\ r \in requests
  /\ requests' = requests \ {r}
  /\ UNCHANGED <<store, used, calls, connect, queued>>

-----------------------------------------------------------------------------
(* Completion blocks, on the session's serial delegate queue. *)

DelegateIdle == \A p \in Pushes : calls[p].phase # "looping"

Waiting(p) == calls[p].phase = "sent" /\ DelegateIdle

Tell(p, told) ==
  calls' = [calls EXCEPT ![p] = Idle(calls[p].kind, Append(calls[p].told, told))]

\* No connection, a timeout, or a reply that never arrived.
NetworkFailure(p) ==
  /\ Waiting(p)
  /\ Tell(p, Failure)
  /\ requests' = Orphaned({p})
  /\ UNCHANGED <<store, used, connect, queued>>

CompleteEvent(p) ==
  /\ Waiting(p) /\ calls[p].kind = "event" /\ calls[p].reply.status # "none"
  /\ \/ /\ calls[p].reply.status \notin pushEventDies
        /\ Tell(p, pushEventTold(calls[p].reply.status))
        /\ UNCHANGED requests
     \/ /\ calls[p].reply.status \in pushEventMayDie
        /\ Dies
  /\ UNCHANGED <<store, used, connect, queued>>

\* A batch the application pushed itself, and a push of the pending events
\* that did not go through.
CompleteBatch(p) ==
  /\ Waiting(p) /\ calls[p].reply.status # "none"
  /\ \/ calls[p].kind = "batch"
     \/ calls[p].kind = "pending" /\ calls[p].reply.status # "ok"
  /\ Tell(p, pushEventBatchTold(calls[p].reply.status))
  /\ UNCHANGED <<store, used, requests, connect, queued>>

\* A push of the pending events that did: the results are worked out and the
\* loops entered.
CompletePending(p) ==
  /\ Waiting(p) /\ calls[p].kind = "pending" /\ calls[p].reply.status = "ok"
  /\ calls' = [calls EXCEPT ![p] =
       [InFlight("pending", calls[p].batch, calls[p].told) EXCEPT
          !.phase   = "looping",
          !.results = processBatchResponse(calls[p].reply.body, calls[p].batch)]]
  /\ UNCHANGED <<store, used, requests, connect, queued>>

\* Faulty: whatever was answered leaves the queue.
Settled_Always(response) == TRUE

\* Faulty: an event Connect had already stays in the queue.
Settled_SuccessOnly(response) == response.success

\* The service has the event: it may leave the queue.
Settled(response) == response.success \/ response.duplicate

Looping(p) == calls[p].phase = "looping"

\* The outer loop takes up a collection.
NextCollection(p) ==
  /\ Looping(p) /\ calls[p].work = <<>>
  /\ \E c \in Collections :
       /\ calls[p].results[c] # <<>>
       /\ calls' = [calls EXCEPT ![p] =
            [calls[p] EXCEPT
               !.work    = [i \in 1..Len(calls[p].results[c]) |->
                              <<c, calls[p].results[c][i]>>],
               !.results = [calls[p].results EXCEPT ![c] = <<>>]]]
  /\ UNCHANGED <<store, used, requests, connect, queued>>

\* Faulty: a rejected event is met again and again.
HandleResponse_Stuck(p) ==
  /\ Looping(p) /\ calls[p].work # <<>>
  /\ Settled(Head(calls[p].work)[2])
  /\ store' = removeEventWithId(store, Head(calls[p].work)[2].event.id,
                                Head(calls[p].work)[1])
  /\ calls' = [calls EXCEPT ![p].work = Tail(@)]
  /\ UNCHANGED <<used, requests, connect, queued>>

\* One turn of the inner loop: one transaction on the store, or none.
HandleResponse(p) ==
  /\ Looping(p) /\ calls[p].work # <<>>
  /\ LET c        == Head(calls[p].work)[1]
         response == Head(calls[p].work)[2]
     IN  store' = IF Settled(response)
                    THEN removeEventWithId(store, response.event.id, c)
                    ELSE store
  /\ calls' = [calls EXCEPT ![p].work = Tail(@)]
  /\ UNCHANGED <<used, requests, connect, queued>>

\* Faulty: the handler is not called of a push that had nothing to send.
FinishPush_Silent(p) ==
  /\ Looping(p) /\ calls[p].work = <<>> /\ calls[p].results = NoBatch
  /\ IF calls[p].batch # NoBatch
       THEN Tell(p, Success)
       ELSE calls' = [calls EXCEPT ![p] = Idle(calls[p].kind, calls[p].told)]
  /\ UNCHANGED <<store, used, requests, connect, queued>>

FinishPush(p) ==
  /\ Looping(p) /\ calls[p].work = <<>> /\ calls[p].results = NoBatch
  /\ Tell(p, Success)
  /\ UNCHANGED <<store, used, requests, connect, queued>>

\* The application is killed, at any moment, and started again.
Crash ==
  /\ Dies
  /\ UNCHANGED <<store, used, connect, queued>>

-----------------------------------------------------------------------------
Application ==
  \/ \E c \in Collections, v \in Payloads : AddEvent(c, v)
  \/ \E c \in Collections, i \in Ids : RemovePendingEvent(c, i)
  \/ RemoveAllPendingEvents
  \/ \E p \in Pushes, c \in Collections, v \in Payloads :
       PushEvent(p, c, v) \/ PushInvalidEvent(p, c, v)
  \/ \E p \in Pushes, table \in Table : PushEventBatch(p, table)
  \/ \E p \in Pushes : PushAllPendingEvents(p)

Network ==
  \E r \in requests : ServiceAnswers(r) \/ ServiceFails(r) \/ RequestLost(r)

Ends(p) ==
  NetworkFailure(p) \/ CompleteEvent(p) \/ CompleteBatch(p) \/ CompletePending(p)

Loops(p) == NextCollection(p) \/ HandleResponse(p) \/ FinishPush(p)

Next ==
  \/ Application
  \/ Network
  \/ \E p \in Pushes : Ends(p) \/ Loops(p)
  \/ Crash

Spec == Init /\ [][Next]_vars

\* What the runtime guarantees: NSURLSession calls the completion block of
\* every task (with an error when its timeout expires), its queue is first in
\* first out, and a block that runs gets to its end unless the process dies.
FairSpec ==
  /\ Spec
  /\ \A p \in Pushes : SF_vars(Ends(p)) /\ WF_vars(Loops(p))

ServiceAnswersTo(p) ==
  \E r \in requests : r.owner = p /\ ServiceAnswers(r)

\* Besides, the application pushes its pending events again and again, and
\* neither the service nor the network fails every time.
OnlineSpec ==
  /\ FairSpec
  /\ \A p \in Pushes :
       /\ WF_vars(PushAllPendingEvents(p))
       /\ SF_vars(ServiceAnswersTo(p))
       /\ SF_vars(CompletePending(p))

-----------------------------------------------------------------------------
(* Safety, as long as SQLite refuses no write: no step here does, and what  *)
(* is lost when one is refused is in StoreConnection.                       *)

\* An event that addEvent took is in the queue on disk or recorded by Connect,
\* under every order of adds, pushes, replies and crashes, unless the
\* application removed it; ids that the application reuses included.  This is
\* about identities: which event is under one is RemovesWhatItSent's.
Kept == \A k \in Keys : k \in Pending(queued) => k \in Pending(store) \cup Pending(connect)

\* With ids drawn by NSUUID it is this very event, with its properties, that
\* is in the queue or recorded.
KeptAsQueued ==
  \A k \in Pending(queued) : queued[k] \in {store[k], connect[k]}

\* When the client takes an event off the queue by itself, the reply that
\* made it do so was about the event that is there: the same properties were
\* sent by the push whose results it goes through, not only by another one.
RemovesWhatItSent ==
  [][\A k \in Pending(store) :
       store'[k] = NoPayload /\ queued'[k] # NoPayload =>
         \E p \in Pushes :
           /\ Looping(p)
           /\ <<k[1], [id |-> k[2], properties |-> store[k]]>> \in Sent(calls[p].batch)]_vars

\* When the handler of a push of the pending events is given results, each
\* event of that push has left the queue, unless the service rejected it.
SuccessSettles ==
  [][\A p \in Pushes :
       Looping(p) /\ calls'[p].phase = "idle" /\ Success \in Range(calls'[p].told) =>
         \A s \in Sent(calls[p].batch) :
           s[2].properties \notin Rejected
             => store'[<<s[1], s[2].id>>] # s[2].properties]_vars

\* pushEvent's handler hears YES only of an event that Connect has recorded.
YesMeansRecorded ==
  [][\A p \in Pushes :
       calls[p].kind = "event" /\ calls[p].phase = "sent"
         /\ Success \in Range(calls'[p].told) =>
         \A s \in Sent(calls[p].batch) : <<s[1], s[2].id>> \in Pending(connect)]_vars

\* TPConnectClient.h:85,112: the handler of the two batch methods is called
\* once, with the outcome, when the push ends and not before.  pushEvent's is
\* called twice for an invalid event.
BatchHandlerCalledOnce ==
  \A p \in Pushes : calls[p].kind \in {"batch", "pending"} =>
    Len(calls[p].told) = IF calls[p].phase = "idle" THEN 1 ELSE 0

\* A failed push of a batch is explained: the handler gets results or an error,
\* whichever of its exits the push takes.  pushEvent's may get neither.
BatchFailureExplained ==
  \A p \in Pushes : calls[p].kind # "event" =>
    \A t \in Range(calls[p].told) : t.success # t.error

\* TPEvent.m:92,98: an event that does not validate "cannot be sent".
InvalidNeverSent ==
  \A r \in requests : SentPayloads(r.batch) \cap Invalid = {}

\* TPConnectClient.h:73: "otherwise an error informing why not".
FailureExplained ==
  \A p \in Pushes : \A t \in Range(calls[p].told) : t.success \/ t.error

\* The client implements the abstract queue: of keys, for any ids, and of
\* events with their properties, for ids drawn by NSUUID.
ByKey == INSTANCE EventQueue WITH
  Items <- Keys, owed <- Pending(queued), pending <- Pending(store),
  recorded <- Pending(connect)

Rows(table) == {<<k, table[k]>> : k \in Pending(table)}

ByEvent == INSTANCE EventQueue WITH
  Items <- Keys \X Payloads, owed <- Rows(queued), pending <- Rows(store),
  recorded <- Rows(connect)

ImplementsKeyQueue == ByKey!Spec
ImplementsEventQueue == ByEvent!Spec

-----------------------------------------------------------------------------
(* Liveness. *)

\* The step that ends a push calls its handler, unless the process dies with
\* it.
EndIsTold(p) ==
  calls[p].phase # "idle" /\ calls'[p].phase = "idle" =>
    \/ Len(calls'[p].told) = Len(calls[p].told) + 1
    \/ calls'[p] = Idle("none", <<>>)

\* A push that was sent comes to an end, and what ends it is a call of its
\* handler or the death of the process: no exit of a completion block is
\* silent.
EveryPushEnds ==
  /\ [][\A p \in Pushes : EndIsTold(p)]_vars
  /\ \A p \in Pushes : calls[p].phase # "idle" ~> calls[p].phase = "idle"

Expected(k) == k \in Pending(queued) /\ queued[k] \notin Rejected

\* "This pushes all added events to Connect" (TPConnectClient.h:93): a queued
\* event that the service accepts is recorded in the end, through crashes,
\* lost requests and lost replies, unless the application removes it.
EventuallyRecorded ==
  \A k \in Keys : Expected(k) ~> k \in Pending(connect) \/ k \notin Pending(queued)

\* And, when the process is not killed for ever, it leaves the queue.
EventuallySettled ==
  <>[][~Crash]_vars =>
    \A k \in Keys : Expected(k) ~> k \notin Pending(store)
=============================================================================
