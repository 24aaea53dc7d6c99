----------------------------- MODULE YapDatabase -----------------------------
(***************************************************************************)
(* The transactions of the vendored YapDatabase, on which the event store  *)
(* relies.  Every connection has a serial queue, a cache of objects and    *)
(* the number of the snapshot the cache belongs to.  SQLite isolates what  *)
(* transactions read from disk; the protocol here keeps each cache in step *)
(* with it.  A read transaction begins without touching the disk, so a     *)
(* commit has to wait for those that have not got their SQLite snapshot    *)
(* yet; a commit tells the other connections which keys it changed; one    *)
(* that begins before it has heard looks up what it missed.                *)
(*                                                                         *)
(* What runs in database->snapshotQueue is one action.  Left out, as the   *)
(* event store does not use them: touching, metadata, extensions,          *)
(* long-lived read transactions; and checkpoints, which do not change what *)
(* the database holds.                                                     *)
(***************************************************************************)
EXTENDS Naturals, Sequences

CONSTANTS
  Connections,
  Keys,         \* pairs of a collection and a key
  Values,
  NoValue,      \* absent from a table or a cache
  NoConnection,
  NoView,       \* a transaction that has read nothing from disk
  MaxSnapshot   \* bound on the commits that change something

ASSUME DatabaseAssumption ==
  /\ Keys # {}
  /\ NoValue \notin Values
  /\ NoConnection \notin Connections
  /\ NoView \notin [snapshot : Nat, table : [Keys -> Values \cup {NoValue}]]
  /\ NoView \notin [Keys -> Values \cup {NoValue}]
  /\ MaxSnapshot \in Nat

VARIABLES
  disk,        \* SQLite's last commit
  snapshot,    \* of the database: the last commit that is announced
  changesets,  \* those some connection may have to look up
  groups,      \* snapshots whose change set waits for the other connections
  writeQueue,  \* the connection in database->writeQueue
  phase,       \* where the connection's queue is in a transaction
  lock,        \* the lock flags of the connection's state
  waitingForWriteLock,
  writeSemaphore,
  signalling,  \* the connection this one is about to signal
  current,     \* snapshot of the connection
  objectCache,
  view,        \* what SQLite shows the connection's transaction
  changes,     \* objectChanges, removedKeys and allKeysRemoved
  inbox        \* change sets queued on connectionQueue

database == <<disk, snapshot, changesets, groups>>
state == <<lock, waitingForWriteLock, writeSemaphore>>
connection == <<current, objectCache, view, changes, inbox>>
vars == <<database, writeQueue, phase, state, signalling, connection>>

Table == [Keys -> Values \cup {NoValue}]

Version == [snapshot : Nat, table : Table]

Changeset == [snapshot : Nat, keys : SUBSET Keys]

(***************************************************************************)
(* The flags of YapDatabaseConnectionState: "shared" is                    *)
(* yapLevelSharedReadLock alone, "sql" both shared read locks, "exclusive" *)
(* yapLevelExclusiveWriteLock.  needsMarkSqlLevelSharedReadLock of a       *)
(* reader is lock = "shared".                                              *)
(***************************************************************************)
Lock == {"none", "shared", "sql", "exclusive"}

Phase == {"closed", "idle", "reading", "selected", "writing", "checking",
          "waiting", "committing", "committed", "rollingBack"}

TypeOK ==
  /\ disk \in Version
  /\ snapshot \in Nat
  /\ changesets \in Seq(Changeset)
  /\ groups \subseteq Nat
  /\ writeQueue \in Connections \cup {NoConnection}
  /\ phase \in [Connections -> Phase]
  /\ lock \in [Connections -> Lock]
  /\ waitingForWriteLock \in [Connections -> BOOLEAN]
  /\ writeSemaphore \in [Connections -> Nat]
  /\ signalling \in [Connections -> Connections \cup {NoConnection}]
  /\ current \in [Connections -> Nat]
  /\ objectCache \in [Connections -> Table]
  /\ view \in [Connections -> Version \cup {NoView}]
  /\ changes \in [Connections -> SUBSET Keys]
  /\ inbox \in [Connections -> Seq(Changeset)]

Nothing == [k \in Keys |-> NoValue]

\* prepare: the snapshot restarts at 0, whatever the file holds.
Init ==
  /\ disk \in [snapshot : {0}, table : Table]
  /\ snapshot = 0
  /\ changesets = <<>>
  /\ groups = {}
  /\ writeQueue = NoConnection
  /\ phase = [c \in Connections |-> "closed"]
  /\ lock = [c \in Connections |-> "none"]
  /\ waitingForWriteLock = [c \in Connections |-> FALSE]
  /\ writeSemaphore = [c \in Connections |-> 0]
  /\ signalling = [c \in Connections |-> NoConnection]
  /\ current = [c \in Connections |-> 0]
  /\ objectCache = [c \in Connections |-> Nothing]
  /\ view = [c \in Connections |-> NoView]
  /\ changes = [c \in Connections |-> {}]
  /\ inbox = [c \in Connections |-> <<>>]

-----------------------------------------------------------------------------
(* Change sets. *)

\* pendingAndCommittedChangesSince:until:, as indices.
Missed(c, until) ==
  {i \in DOMAIN changesets :
     current[c] < changesets[i].snapshot /\ changesets[i].snapshot <= until}

Latest(S) == CHOOSE i \in S : \A j \in S : j <= i

\* processChangeset:, with the default policy: what changed leaves the cache.
Forget(cache, keys) == [k \in Keys |-> IF k \in keys THEN NoValue ELSE cache[k]]

\* Faulty: takes the number over and leaves the cache as it is.
CatchUp_KeepCache(c, until) ==
  LET missed == Missed(c, until)
  IN  /\ current' = IF missed = {} THEN current
                    ELSE [current EXCEPT ![c] = changesets[Latest(missed)].snapshot]
      /\ UNCHANGED objectCache

\* A transaction that begins processes what its connection has not yet.
CatchUp(c, until) ==
  LET missed == Missed(c, until)
  IN  /\ current' = IF missed = {} THEN current
                    ELSE [current EXCEPT ![c] = changesets[Latest(missed)].snapshot]
      /\ objectCache' = [objectCache EXCEPT ![c] =
                           Forget(@, UNION {changesets[i].keys : i \in missed})]

\* The block noteCommittedChanges:fromConnection: put on connectionQueue.
noteCommittedChanges(c) ==
  LET changeset == Head(inbox[c])
  IN  /\ phase[c] = "idle" /\ signalling[c] = NoConnection
      /\ inbox[c] # <<>>
      /\ inbox' = [inbox EXCEPT ![c] = Tail(@)]
      /\ IF changeset.snapshot <= current[c]
           THEN UNCHANGED <<current, objectCache>>
           ELSE /\ current' = [current EXCEPT ![c] = changeset.snapshot]
                /\ objectCache' = [objectCache EXCEPT ![c] = Forget(@, changeset.keys)]
      /\ UNCHANGED <<database, writeQueue, phase, state, signalling, view, changes>>

Queued(c) == {inbox[c][i].snapshot : i \in DOMAIN inbox[c]}

\* Faulty: does not wait for the other connections.
DropChangeset_Early(n) ==
  /\ n \in groups
  /\ groups' = groups \ {n}
  /\ changesets' = Tail(changesets)
  /\ UNCHANGED <<disk, snapshot, writeQueue, phase, state, signalling, connection>>

\* The block of dispatch_group_notify: whichever group it is that is through,
\* the oldest change set goes.
DropChangeset(n) ==
  /\ n \in groups
  /\ \A c \in Connections : n \notin Queued(c)
  /\ groups' = groups \ {n}
  /\ changesets' = Tail(changesets)
  /\ UNCHANGED <<disk, snapshot, writeQueue, phase, state, signalling, connection>>

-----------------------------------------------------------------------------
(* Read transactions. *)

\* Its queue is free for a transaction.
Free(c) == phase[c] = "idle" /\ signalling[c] = NoConnection

ActiveWriter(c) == \E d \in Connections \ {c} : lock[d] = "exclusive"

\* Faulty: does not look whether somebody writes.
BeginRead_Deferred(c) ==
  /\ Free(c)
  /\ lock' = [lock EXCEPT ![c] = "shared"]
  /\ CatchUp(c, snapshot)
  /\ phase' = [phase EXCEPT ![c] = "reading"]
  /\ UNCHANGED <<database, writeQueue, waitingForWriteLock, writeSemaphore,
                 signalling, view, changes, inbox>>

\* preReadTransaction:.  While somebody writes the snapshot is read from disk
\* at once; otherwise SQLite's transaction stays deferred.
BeginRead(c) ==
  /\ Free(c)
  /\ IF ActiveWriter(c)
       THEN /\ lock' = [lock EXCEPT ![c] = "sql"]
            /\ view' = [view EXCEPT ![c] = disk]
            /\ CatchUp(c, disk.snapshot)
       ELSE /\ lock' = [lock EXCEPT ![c] = "shared"]
            /\ CatchUp(c, snapshot)
            /\ UNCHANGED view
  /\ phase' = [phase EXCEPT ![c] = "reading"]
  /\ UNCHANGED <<database, writeQueue, waitingForWriteLock, writeSemaphore,
                 signalling, changes, inbox>>

\* What a select of the connection's transaction is answered from.
Seen(c) == IF view[c] = NoView THEN disk ELSE view[c]

\* A select, for an object that is not cached or by an enumeration, which
\* selects the cached ones too; the first one gets SQLite's snapshot, and one
\* that finds a row has yet to mark that.
Select(c, k) ==
  /\ phase[c] \in {"reading", "writing"} /\ signalling[c] = NoConnection
  /\ view' = [view EXCEPT ![c] = Seen(c)]
  /\ objectCache' = IF objectCache[c][k] = NoValue
                      THEN [objectCache EXCEPT ![c][k] = Seen(c).table[k]]
                      ELSE objectCache
  /\ phase' = [phase EXCEPT ![c] =
                 IF lock[c] = "shared" /\ Seen(c).table[k] # NoValue
                   THEN "selected" ELSE @]
  /\ UNCHANGED <<database, writeQueue, state, signalling, current, changes, inbox>>

\* Read transactions that have no SQLite snapshot, as far as the table tells.
Deferred(c) == {d \in Connections \ {c} : lock[d] = "shared"}

Waiting == {d \in Connections : waitingForWriteLock[d]}

\* The writer a reader has to signal when it stops holding it up.
ToSignal(c) ==
  IF Deferred(c) = {} /\ Waiting # {} THEN CHOOSE d \in Waiting : TRUE ELSE NoConnection

markSqlLevelSharedReadLockAcquired(c) ==
  /\ phase[c] = "selected"
  /\ lock' = [lock EXCEPT ![c] = "sql"]
  /\ signalling' = [signalling EXCEPT ![c] = ToSignal(c)]
  /\ phase' = [phase EXCEPT ![c] = "reading"]
  /\ UNCHANGED <<database, writeQueue, waitingForWriteLock, writeSemaphore, connection>>

\* Faulty: only the mark wakes a writer.
EndRead_Silent(c) ==
  /\ phase[c] = "reading" /\ signalling[c] = NoConnection
  /\ view' = [view EXCEPT ![c] = NoView]
  /\ lock' = [lock EXCEPT ![c] = "none"]
  /\ phase' = [phase EXCEPT ![c] = "idle"]
  /\ UNCHANGED <<database, writeQueue, waitingForWriteLock, writeSemaphore,
                 signalling, current, objectCache, changes, inbox>>

\* postReadTransaction:.
EndRead(c) ==
  /\ phase[c] = "reading" /\ signalling[c] = NoConnection
  /\ view' = [view EXCEPT ![c] = NoView]
  /\ lock' = [lock EXCEPT ![c] = "none"]
  /\ signalling' = [signalling EXCEPT ![c] =
                      IF lock[c] = "shared" THEN ToSignal(c) ELSE NoConnection]
  /\ phase' = [phase EXCEPT ![c] = "idle"]
  /\ UNCHANGED <<database, writeQueue, waitingForWriteLock, writeSemaphore,
                 current, objectCache, changes, inbox>>

\* signalWriteLock, outside of the snapshot queue.
SignalWriteLock(c) ==
  /\ signalling[c] # NoConnection
  /\ writeSemaphore' = [writeSemaphore EXCEPT ![signalling[c]] = @ + 1]
  /\ signalling' = [signalling EXCEPT ![c] = NoConnection]
  /\ UNCHANGED <<database, writeQueue, phase, lock, waitingForWriteLock, connection>>

-----------------------------------------------------------------------------
(* Read-write transactions. *)

\* preReadWriteTransaction:.  Nobody else can commit from here on, so it does
\* not matter when SQLite takes its snapshot.
BeginWrite(c) ==
  /\ Free(c)
  /\ writeQueue = NoConnection
  /\ writeQueue' = c
  /\ lock' = [lock EXCEPT ![c] = "exclusive"]
  /\ CatchUp(c, snapshot)
  /\ view' = [view EXCEPT ![c] = disk]
  /\ phase' = [phase EXCEPT ![c] = "writing"]
  /\ UNCHANGED <<database, waitingForWriteLock, writeSemaphore, signalling,
                 changes, inbox>>

\* The keys K of the table and of the cache get the value v.
Write(c, K, v) ==
  /\ phase[c] = "writing"
  /\ current[c] < MaxSnapshot
  /\ view' = [view EXCEPT ![c].table = [k \in Keys |-> IF k \in K THEN v ELSE @[k]]]
  /\ objectCache' = [objectCache EXCEPT ![c] =
                       [k \in Keys |-> IF k \in K THEN v ELSE @[k]]]
  /\ changes' = [changes EXCEPT ![c] = @ \cup K]
  /\ UNCHANGED <<database, writeQueue, phase, state, signalling, current, inbox>>

SetObject(c, k) == \E v \in Values : Write(c, {k}, v)

\* One that has no row is left alone.
RemoveObject(c, k) ==
  /\ phase[c] = "writing" /\ view[c].table[k] # NoValue
  /\ Write(c, {k}, NoValue)

RemoveAllObjects(c) == Write(c, Keys, NoValue)

\* postReadWriteTransaction: until it looks whether it may commit.
IncrementSnapshot(c) ==
  /\ phase[c] = "writing"
  /\ phase' = [phase EXCEPT ![c] = "checking"]
  /\ IF changes[c] = {}
       THEN UNCHANGED <<current, view>>
       ELSE /\ current' = [current EXCEPT ![c] = @ + 1]
            /\ view' = [view EXCEPT ![c].snapshot = current[c] + 1]
  /\ UNCHANGED <<database, writeQueue, state, signalling, objectCache, changes, inbox>>

\* Read transactions without an SQLite snapshot hold it up.  Otherwise the
\* change set is registered before the commit (notePendingChanges:).
CheckReaders(c) ==
  /\ phase[c] = "checking"
  /\ IF Deferred(c) # {}
       THEN /\ waitingForWriteLock' = [waitingForWriteLock EXCEPT ![c] = TRUE]
            /\ phase' = [phase EXCEPT ![c] = "waiting"]
            /\ UNCHANGED changesets
       ELSE /\ waitingForWriteLock' = [waitingForWriteLock EXCEPT ![c] = FALSE]
            /\ phase' = [phase EXCEPT ![c] = "committing"]
            /\ changesets' =
                 IF changes[c] = {} THEN changesets
                 ELSE Append(changesets, [snapshot |-> current[c], keys |-> changes[c]])
  /\ UNCHANGED <<disk, snapshot, groups, writeQueue, lock, writeSemaphore,
                 signalling, connection>>

\* Faulty: goes on without having been signalled.
WaitForWriteLock_TimesOut(c) ==
  /\ phase[c] = "waiting"
  /\ writeSemaphore' = [writeSemaphore EXCEPT ![c] = @ - 1]
  /\ phase' = [phase EXCEPT ![c] = "checking"]
  /\ UNCHANGED <<database, writeQueue, lock, waitingForWriteLock, signalling, connection>>

WaitForWriteLock(c) ==
  /\ phase[c] = "waiting"
  /\ writeSemaphore[c] > 0
  /\ writeSemaphore' = [writeSemaphore EXCEPT ![c] = @ - 1]
  /\ phase' = [phase EXCEPT ![c] = "checking"]
  /\ UNCHANGED <<database, writeQueue, lock, waitingForWriteLock, signalling, connection>>

\* SQLite's COMMIT.
Commit(c) ==
  /\ phase[c] = "committing"
  /\ disk' = view[c]
  /\ view' = [view EXCEPT ![c] = NoView]
  /\ phase' = [phase EXCEPT ![c] = "committed"]
  /\ UNCHANGED <<snapshot, changesets, groups, writeQueue, state, signalling,
                 current, objectCache, changes, inbox>>

Siblings(c) == {d \in Connections \ {c} : phase[d] # "closed"}

\* noteCommittedChanges:fromConnection:, and the end of the transaction.
\* Without siblings the change set goes at once.
NoteCommitted(c) ==
  LET changeset == [snapshot |-> current[c], keys |-> changes[c]]
  IN  /\ phase[c] = "committed"
      /\ IF changes[c] = {}
           THEN UNCHANGED <<snapshot, inbox, groups, changesets>>
           ELSE /\ snapshot' = current[c]
                /\ inbox' = [d \in Connections |->
                               IF d \in Siblings(c) THEN Append(inbox[d], changeset)
                               ELSE inbox[d]]
                /\ IF Siblings(c) = {}
                     THEN changesets' = Tail(changesets) /\ UNCHANGED groups
                     ELSE groups' = groups \cup {current[c]} /\ UNCHANGED changesets
      /\ lock' = [lock EXCEPT ![c] = "none"]
      /\ waitingForWriteLock' = [waitingForWriteLock EXCEPT ![c] = FALSE]
      /\ changes' = [changes EXCEPT ![c] = {}]
      /\ phase' = [phase EXCEPT ![c] = "idle"]
      /\ writeQueue' = NoConnection
      /\ UNCHANGED <<disk, writeSemaphore, signalling, current, objectCache, view>>

\* The block asked for a rollback.
Rollback(c) ==
  /\ phase[c] = "writing"
  /\ lock' = [lock EXCEPT ![c] = "none"]
  /\ phase' = [phase EXCEPT ![c] = "rollingBack"]
  /\ UNCHANGED <<database, writeQueue, waitingForWriteLock, writeSemaphore,
                 signalling, connection>>

\* rollbackTransaction, and postRollbackCleanup.
FinishRollback(c) ==
  /\ phase[c] = "rollingBack"
  /\ view' = [view EXCEPT ![c] = NoView]
  /\ objectCache' = [objectCache EXCEPT ![c] = Nothing]
  /\ changes' = [changes EXCEPT ![c] = {}]
  /\ phase' = [phase EXCEPT ![c] = "idle"]
  /\ writeQueue' = NoConnection
  /\ UNCHANGED <<database, state, signalling, current, inbox>>

-----------------------------------------------------------------------------
(* Connections come and go. *)

\* addConnection: and prepare.
Open(c) ==
  /\ phase[c] = "closed"
  /\ current' = [current EXCEPT ![c] = snapshot]
  /\ phase' = [phase EXCEPT ![c] = "idle"]
  /\ UNCHANGED <<database, writeQueue, state, signalling, objectCache, view,
                 changes, inbox>>

\* dealloc and removeConnection:.  Blocks on its queue keep it alive; its
\* cache goes with it.
Close(c) ==
  /\ Free(c)
  /\ inbox[c] = <<>>
  /\ objectCache' = [objectCache EXCEPT ![c] = Nothing]
  /\ phase' = [phase EXCEPT ![c] = "closed"]
  /\ UNCHANGED <<database, writeQueue, state, signalling, current, view, changes, inbox>>

\* A memory warning: a block of its own on the connection's queue.
flushMemory(c) ==
  /\ Free(c)
  /\ objectCache' = [objectCache EXCEPT ![c] = Nothing]
  /\ UNCHANGED <<database, writeQueue, phase, state, signalling, current, view,
                 changes, inbox>>

ReadStep(c) ==
  \/ BeginRead(c)
  \/ \E k \in Keys : Select(c, k)
  \/ markSqlLevelSharedReadLockAcquired(c)
  \/ EndRead(c)
  \/ SignalWriteLock(c)

WriteStep(c) ==
  \/ BeginWrite(c)
  \/ \E k \in Keys : SetObject(c, k) \/ RemoveObject(c, k)
  \/ RemoveAllObjects(c)
  \/ IncrementSnapshot(c)
  \/ CheckReaders(c)
  \/ WaitForWriteLock(c)
  \/ Commit(c)
  \/ NoteCommitted(c)
  \/ Rollback(c)
  \/ FinishRollback(c)

Next ==
  \/ \E c \in Connections :
       \/ ReadStep(c) \/ WriteStep(c)
       \/ Open(c) \/ Close(c) \/ flushMemory(c) \/ noteCommittedChanges(c)
  \/ \E n \in 1 .. MaxSnapshot : DropChangeset(n)

Spec == Init /\ [][Next]_vars

\* The library's own steps follow each other, and the block of a read
\* transaction returns.  Nothing makes a connection begin a transaction, and
\* nothing is assumed of the blocks queued on it.
FairSpec ==
  /\ Spec
  /\ \A c \in Connections :
       WF_vars(   markSqlLevelSharedReadLockAcquired(c) \/ EndRead(c)
               \/ SignalWriteLock(c) \/ CheckReaders(c) \/ WaitForWriteLock(c)
               \/ Commit(c) \/ NoteCommitted(c))
-----------------------------------------------------------------------------
(***************************************************************************)
(* A connection can always process everything between its own snapshot and *)
(* the one its next transaction works on: no change set is dropped before  *)
(* each connection that is behind it has had it.  Groups may finish in     *)
(* another order than the commits, and the block that runs then drops the  *)
(* oldest change set whichever group it belongs to.  These are the         *)
(* assertions of preReadTransaction: and preReadWriteTransaction:.         *)
(***************************************************************************)
CanCatchUp ==
  \A c \in Connections : \A n \in 1 .. disk.snapshot :
    phase[c] = "idle" /\ current[c] < n =>
      \E i \in DOMAIN changesets : changesets[i].snapshot = n

(***************************************************************************)
(* A signal the writer has not consumed is never out of date: whoever was  *)
(* holding it up still does not when it wakes, as read transactions that   *)
(* begin meanwhile get their SQLite snapshot at once.  ("We avoid writer   *)
(* starvation by enforcing ...", postReadWriteTransaction:)                *)
(***************************************************************************)
SignalledMeansSafe ==
  \A c \in Connections : writeSemaphore[c] > 0 =>
    phase[c] = "waiting" /\ Deferred(c) = {}

(***************************************************************************)
(* No wake-up is lost: a writer that waits has its signal, or a reader     *)
(* about to send it, or one that still holds it up and is going to.  The   *)
(* look at the readers, the flag the readers look at, the wait and the     *)
(* signal are four steps, and only two of them in the snapshot queue.      *)
(***************************************************************************)
NoWakeUpLost ==
  \A c \in Connections : phase[c] = "waiting" =>
    \/ writeSemaphore[c] > 0
    \/ \E d \in Connections : signalling[d] = c
    \/ Deferred(c) # {}

(***************************************************************************)
(* A transaction works on one snapshot however long it runs and whatever   *)
(* is committed meanwhile, whether its objects come from the cache or from *)
(* the disk; writers exclude each other, and a commit appears at once and  *)
(* stays.                                                                  *)
(***************************************************************************)
Works(c) == phase[c] \in {"reading", "selected", "writing", "checking",
                          "waiting", "committing"}

\* The table a transaction works on, from the cache where it has an object.
Working(c) ==
  IF Works(c)
    THEN [k \in Keys |-> IF objectCache[c][k] # NoValue THEN objectCache[c][k]
                         ELSE Seen(c).table[k]]
    ELSE NoView

Writer ==
  IF writeQueue # NoConnection /\ Works(writeQueue) THEN writeQueue ELSE NoConnection

Store == INSTANCE SnapshotStore WITH
  table <- disk.table,
  working <- [c \in Connections |-> Working(c)],
  writer <- Writer,
  NoTransaction <- NoView

ImplementsSnapshotStore == Store!Spec

(***************************************************************************)
(* A writer that has finished its changes commits, though readers keep     *)
(* coming: the wake-up is never lost between its look at the readers and   *)
(* its wait.                                                               *)
(***************************************************************************)
WriterCommits ==
  \A c \in Connections : phase[c] = "checking" ~> phase[c] = "idle"
=============================================================================
