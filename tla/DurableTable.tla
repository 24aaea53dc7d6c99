---------------------------- MODULE DurableTable ----------------------------
(***************************************************************************)
(* What the event store promises its callers: a method that returns has    *)
(* taken effect, at one moment between its call and its return, and the    *)
(* effect outlives the process; a fetch gets the rows of one moment.  When *)
(* SQLite fails a write has no effect, nobody is told, and until the       *)
(* process is started anew a fetch is right about the keys only.  Nothing  *)
(* is said here of queues, transactions and caches.                        *)
(***************************************************************************)
EXTENDS Naturals

CONSTANTS Callers, Keys, Values, NoValue, NoCall

VARIABLES
  table,   \* what is on disk
  calls,   \* the call each caller is in, and whether it has taken effect
  faults   \* writes SQLite failed since the process was started

vars == <<table, calls, faults>>

Rows(t) == {<<k, t[k]>> : k \in {k \in Keys : t[k] # NoValue}}

KeysOf(rows) == {r[1] : r \in rows}

\* A write is the values it gives to keys; the empty one is a fetch.
Write == UNION {[K -> Values \cup {NoValue}] : K \in SUBSET Keys}

IsFetch(write) == DOMAIN write = {}

Pending(t) == calls[t] # NoCall /\ calls[t].state = "called"

Init ==
  /\ table = [k \in Keys |-> NoValue]
  /\ calls = [t \in Callers |-> NoCall]
  /\ faults = 0

Call(t) ==
  /\ calls[t] = NoCall
  /\ \E write \in Write :
       calls' = [calls EXCEPT ![t] = [write |-> write, state |-> "called", rows |-> {}]]
  /\ UNCHANGED <<table, faults>>

TakeEffect(t) ==
  /\ Pending(t) /\ ~IsFetch(calls[t].write)
  /\ table' = [k \in Keys |-> IF k \in DOMAIN calls[t].write THEN calls[t].write[k]
                              ELSE table[k]]
  /\ calls' = [calls EXCEPT ![t].state = "done"]
  /\ UNCHANGED faults

Fail(t) ==
  /\ Pending(t) /\ ~IsFetch(calls[t].write)
  /\ calls' = [calls EXCEPT ![t].state = "done"]
  /\ faults' = faults + 1
  /\ UNCHANGED table

Fetch(t) ==
  /\ Pending(t) /\ IsFetch(calls[t].write)
  /\ \E rows \in SUBSET (Keys \X Values) :
       /\ IF faults = 0 THEN rows = Rows(table)
          ELSE KeysOf(rows) = KeysOf(Rows(table))
       /\ calls' = [calls EXCEPT ![t] = [write |-> @.write, state |-> "done", rows |-> rows]]
  /\ UNCHANGED <<table, faults>>

Return(t) ==
  /\ calls[t] # NoCall /\ calls[t].state = "done"
  /\ calls' = [calls EXCEPT ![t] = NoCall]
  /\ UNCHANGED <<table, faults>>

Crash ==
  /\ calls' = [t \in Callers |-> NoCall]
  /\ faults' = 0
  /\ UNCHANGED table

Next ==
  \/ \E t \in Callers : Call(t) \/ TakeEffect(t) \/ Fail(t) \/ Fetch(t) \/ Return(t)
  \/ Crash

Spec == Init /\ [][Next]_vars
=============================================================================
