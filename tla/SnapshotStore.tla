---------------------------- MODULE SnapshotStore ----------------------------
(***************************************************************************)
(* What YapDatabase promises the users of its connections: a transaction   *)
(* works on the table as it was when the transaction began, one connection *)
(* writes at a time, and what it wrote becomes visible to transactions     *)
(* that begin later, all at once, when it commits.  Nothing is said here   *)
(* of caches, locks or change sets: YapDatabase implements this.           *)
(***************************************************************************)
CONSTANTS Connections, Keys, Values, NoValue, NoTransaction, NoConnection

VARIABLES
  table,    \* what the last commit left
  working,  \* the table each transaction works on
  writer    \* the connection in a read-write transaction

vars == <<table, working, writer>>

Table == [Keys -> Values \cup {NoValue}]

Init ==
  /\ table \in Table
  /\ working = [c \in Connections |-> NoTransaction]
  /\ writer = NoConnection

Begin(c) ==
  /\ working[c] = NoTransaction
  /\ working' = [working EXCEPT ![c] = table]
  /\ UNCHANGED table

BeginRead(c) == Begin(c) /\ UNCHANGED writer

BeginWrite(c) == writer = NoConnection /\ Begin(c) /\ writer' = c

Change(c) ==
  /\ writer = c
  /\ \E t \in Table : working' = [working EXCEPT ![c] = t]
  /\ UNCHANGED <<table, writer>>

\* A read transaction ends, or a read-write transaction is rolled back.
End(c) ==
  /\ working[c] # NoTransaction
  /\ working' = [working EXCEPT ![c] = NoTransaction]
  /\ writer' = IF writer = c THEN NoConnection ELSE writer
  /\ UNCHANGED table

Commit(c) ==
  /\ writer = c
  /\ table' = working[c]
  /\ working' = [working EXCEPT ![c] = NoTransaction]
  /\ writer' = NoConnection

Next ==
  \E c \in Connections :
    BeginRead(c) \/ BeginWrite(c) \/ Change(c) \/ End(c) \/ Commit(c)

Spec == Init /\ [][Next]_vars
=============================================================================
