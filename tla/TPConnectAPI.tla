---------------------------- MODULE TPConnectAPI ----------------------------
(***************************************************************************)
(* The HTTP layer (TPConnectAPI.m, TPEventAPIResponse.m): how a batch      *)
(* becomes a request body, and how a reply becomes the arguments of the    *)
(* caller's completion handler.  The class keeps no state between calls;   *)
(* what is in flight belongs to TPConnectClient.                           *)
(***************************************************************************)
EXTENDS TPEventStore

CONSTANTS
  Throws,   \* payloads on which NSJSONSerialization raises an exception
  Fails     \* payloads for which NSJSONSerialization returns an NSError

ASSUME APIAssumption == Throws \cup Fails \subseteq Payloads

-----------------------------------------------------------------------------
(* Requests. *)

\* The events of a batch with the collection each is sent to.
Sent(batch) ==
  UNION {{<<c, batch[c][i]>> : i \in DOMAIN batch[c]} : c \in Collections}

SentPayloads(batch) == {s[2].properties : s \in Sent(batch)}

\* What serialising these payloads may end in.  Which of two bad payloads is
\* met first depends on the enumeration order of a dictionary.
processBatch(batch) ==
  LET bad == (IF SentPayloads(batch) \cap Throws # {} THEN {"exception"} ELSE {})
             \cup (IF SentPayloads(batch) \cap Fails # {} THEN {"error"} ELSE {})
  IN  IF bad = {} THEN {"data"} ELSE bad

\* The body of a single-event request, seen as a batch of one.
Single(collection, event) == [NoBatch EXCEPT ![collection] = <<event>>]

-----------------------------------------------------------------------------
(* Replies. *)

\* What the switch on the status code and the reading of the body tell apart:
\* 200; a body that is not JSON where JSON is read; 401; a listed error code
\* whose body has the fields read from it; 409, 400 or 500 without
\* "errorMessage"; any other code.
TPHTTPStatusCode ==
  {"ok", "garbled", "unauthorised", "described", "undescribed", "unlisted"}

\* One element of the arrays of a 200 body.
EventJSON == [success : BOOLEAN, duplicate : BOOLEAN]

Body == [Collections -> Seq(EventJSON)]

Reply == [status : TPHTTPStatusCode \cup {"none"}, body : Body]

NoReply == [status |-> "none", body |-> NoBatch]

\* TPEventAPIResponse
EventAPIResponse == [event : Event, success : BOOLEAN, duplicate : BOOLEAN]

Results == [Collections -> Seq(EventAPIResponse)]

\* Faulty: takes the presence of "duplicate" for its value.
eventAPIResponseFromJSON_Presence(json, event) ==
  [event |-> event, success |-> json.success, duplicate |-> TRUE]

\* eventAPIResponseFromJSON:forEvent:
eventAPIResponseFromJSON(json, event) ==
  [event |-> event, success |-> json.success, duplicate |-> json.duplicate]

\* Faulty: pairs the answers with the events from the end.
processBatchResponse_Reversed(response, events) ==
  [c \in Collections |->
     [i \in 1..Len(response[c]) |->
        eventAPIResponseFromJSON(response[c][i], events[c][Len(events[c]) + 1 - i])]]

\* Replies name no event: the i-th answer of a collection is taken to be
\* about the i-th event of that collection in the batch that was sent.
processBatchResponse(response, events) ==
  [c \in Collections |->
     [i \in 1..Len(response[c]) |->
        eventAPIResponseFromJSON(response[c][i], events[c][i])]]

\* The arguments of one call of a completion handler, as far as they tell
\* success from failure and an explained failure from a silent one.
Told == [success : BOOLEAN, error : BOOLEAN]

Success == [success |-> TRUE, error |-> FALSE]
Failure == [success |-> FALSE, error |-> TRUE]

\* Faulty: no transport error means success.
pushEventTold_Transport(status) ==
  IF status \in {"unauthorised", "garbled"} THEN Failure ELSE Success

\* pushEvent:completionHandler:, the task's completion block.  For a listed
\* error code and for an unlisted one the handler gets the transport's error,
\* which is nil on this path, and never the error made from the reply.
pushEventTold(status) ==
  CASE status = "ok" -> Success
    [] status \in {"unauthorised", "garbled"} -> Failure
    [] OTHER -> [success |-> FALSE, error |-> FALSE]

\* Replies that may end the process instead.  Without "errorMessage" a nil
\* goes into a dictionary literal; for an unlisted code the switch of
\* errorForHTTPStatusCode:details: runs off the end of a function that
\* returns a value, and what the caller then retains is anything.
pushEventMayDie == {"undescribed", "unlisted"}
pushEventDies   == {"undescribed"}

\* Faulty: passes on the transport's error, as pushEvent does.
pushEventBatchTold_Transport(status) ==
  IF status = "ok" THEN Success ELSE [success |-> FALSE, error |-> FALSE]

\* pushEventBatch:completionHandler:, the task's completion block, for every
\* reply that does not yield results.
pushEventBatchTold(status) ==
  IF status = "ok" THEN Success ELSE Failure
=============================================================================
