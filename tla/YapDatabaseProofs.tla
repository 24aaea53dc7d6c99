-------------------------- MODULE YapDatabaseProofs --------------------------
(***************************************************************************)
(* Theorems about YapDatabase, for any connections, keys, values and       *)
(* number of commits.  First the protocol of the locks, which does not     *)
(* depend on what is stored; then what is stored and shown: the invariant  *)
(* that relates snapshots, change sets, caches and views, and what follows *)
(* from it.                                                                *)
(***************************************************************************)
EXTENDS YapDatabase, FiniteSetTheorems, TLAPS

-----------------------------------------------------------------------------
(* The locks.                                                              *)

Exclusive == {"writing", "checking", "waiting", "committing", "committed"}
Reading   == {"reading", "selected"}

LockType ==
  /\ writeQueue \in Connections \cup {NoConnection}
  /\ phase \in [Connections -> Phase]
  /\ lock \in [Connections -> Lock]
  /\ waitingForWriteLock \in [Connections -> BOOLEAN]
  /\ writeSemaphore \in [Connections -> Nat]
  /\ signalling \in [Connections -> Connections \cup {NoConnection}]

\* The flags of a connection say what its transaction does.
FlagsFit ==
  \A c \in Connections :
    /\ lock[c] = "exclusive" <=> phase[c] \in Exclusive
    /\ lock[c] \in {"shared", "sql"} <=> phase[c] \in Reading
    /\ phase[c] = "selected" => lock[c] = "shared"
    /\ phase[c] \in Exclusive \cup {"rollingBack"} <=> writeQueue = c
    /\ signalling[c] # NoConnection => phase[c] \in {"idle", "reading"}
    /\ waitingForWriteLock[c] => phase[c] \in {"checking", "waiting"}

NoneDeferred(c) == \A d \in Connections : d # c => lock[d] # "shared"

\* A writer is signalled at most once for each time it waits, by the last
\* reader that holds it up, and no reader comes to hold it up after that.
SignalsFit ==
  \A c \in Connections :
    /\ writeSemaphore[c] > 0 => phase[c] = "waiting" /\ NoneDeferred(c)
    /\ \A d \in Connections :
         signalling[d] = c => phase[c] = "waiting" /\ NoneDeferred(c)
    /\ writeSemaphore[c] \in {0, 1}
    /\ \A d \in Connections : signalling[d] = c =>
         /\ writeSemaphore[c] = 0
         /\ \A e \in Connections : signalling[e] = c => d = e
    /\ phase[c] = "checking" /\ waitingForWriteLock[c] => NoneDeferred(c)
    /\ phase[c] \in {"committing", "committed"} => NoneDeferred(c)

Locks == LockType /\ FlagsFit /\ SignalsFit

LEMMA DeferredEmpty ==
  ASSUME NEW c \in Connections
  PROVE  Deferred(c) = {} <=> NoneDeferred(c)
BY DEF Deferred, NoneDeferred

LEMMA Init_Locks == Init => Locks
BY DatabaseAssumption DEF Init, Locks, LockType, FlagsFit, SignalsFit, Exclusive, Reading,
   Phase, Lock

LEMMA BeginRead_Locks ==
  ASSUME Locks, NEW c \in Connections, BeginRead(c)
  PROVE  Locks'
<1>1. /\ phase[c] = "idle" /\ signalling[c] = NoConnection
      /\ phase' = [phase EXCEPT ![c] = "reading"]
      /\ UNCHANGED <<writeQueue, waitingForWriteLock, writeSemaphore, signalling>>
  BY DEF BeginRead, Free
<1>2. \/ /\ lock' = [lock EXCEPT ![c] = "sql"]
      \/ /\ lock' = [lock EXCEPT ![c] = "shared"]
         /\ \A d \in Connections \ {c} : lock[d] # "exclusive"
  BY DEF BeginRead, ActiveWriter
<1>3. LockType'
  BY <1>1, <1>2 DEF Locks, LockType, Phase, Lock
<1>4. FlagsFit'
  BY <1>1, <1>2 DEF Locks, LockType, FlagsFit, Exclusive, Reading
<1>5. SignalsFit'
  BY <1>1, <1>2 DEF Locks, LockType, FlagsFit, SignalsFit, NoneDeferred, Exclusive
<1> QED BY <1>3, <1>4, <1>5 DEF Locks

LEMMA Select_Locks ==
  ASSUME Locks, NEW c \in Connections, NEW k \in Keys, Select(c, k)
  PROVE  Locks'
<1>1. /\ phase[c] \in {"reading", "writing"} /\ signalling[c] = NoConnection
      /\ \/ UNCHANGED phase
         \/ phase' = [phase EXCEPT ![c] = "selected"] /\ lock[c] = "shared"
      /\ UNCHANGED <<writeQueue, lock, waitingForWriteLock, writeSemaphore, signalling>>
  BY DEF Select, state, Locks, LockType
<1>2. LockType'
  BY <1>1 DEF Locks, LockType, Phase
<1>3. FlagsFit'
  BY <1>1 DEF Locks, LockType, FlagsFit, Exclusive, Reading
<1>4. SignalsFit'
  BY <1>1 DEF Locks, LockType, FlagsFit, SignalsFit, NoneDeferred, Exclusive
<1> QED BY <1>2, <1>3, <1>4 DEF Locks

\* A reader that stops holding up a writer signals the one that waits.
LEMMA StopsHolding ==
  ASSUME Locks, NEW c \in Connections, lock[c] = "shared",
         ToSignal(c) # NoConnection
  PROVE  /\ ToSignal(c) \in Connections /\ ToSignal(c) # c
         /\ phase[ToSignal(c)] = "waiting"
         /\ \A d \in Connections : d # c => lock[d] # "shared"
         /\ writeSemaphore[ToSignal(c)] = 0
         /\ \A d \in Connections : signalling[d] # ToSignal(c)
<1>1. Deferred(c) = {} /\ Waiting # {} /\ ToSignal(c) \in Waiting
  BY DEF ToSignal
<1>2. NoneDeferred(c)
  BY <1>1, DeferredEmpty
<1>3. ToSignal(c) \in Connections /\ waitingForWriteLock[ToSignal(c)]
  BY <1>1 DEF Waiting
<1> DEFINE w == ToSignal(c)
<1> HIDE DEF w
<1>4. w \in Connections /\ phase[w] \in {"checking", "waiting"}
  BY <1>3 DEF Locks, FlagsFit, w
<1>5. w # c
  BY <1>4 DEF Locks, FlagsFit, Exclusive
<1>6. ~NoneDeferred(w)
  BY <1>5 DEF NoneDeferred
<1>7. phase[w] = "waiting"
  BY <1>3, <1>4, <1>6 DEF Locks, SignalsFit, w
<1>8. writeSemaphore[w] = 0 /\ \A d \in Connections : signalling[d] # w
  BY <1>4, <1>6 DEF Locks, SignalsFit
<1> QED BY <1>2, <1>4, <1>5, <1>7, <1>8 DEF NoneDeferred, w

LEMMA Mark_Locks ==
  ASSUME Locks, NEW c \in Connections, markSqlLevelSharedReadLockAcquired(c)
  PROVE  Locks'
<1>1. /\ phase[c] = "selected" /\ lock[c] = "shared"
      /\ lock' = [lock EXCEPT ![c] = "sql"]
      /\ signalling' = [signalling EXCEPT ![c] = ToSignal(c)]
      /\ phase' = [phase EXCEPT ![c] = "reading"]
      /\ UNCHANGED <<writeQueue, waitingForWriteLock, writeSemaphore>>
  BY DEF markSqlLevelSharedReadLockAcquired, Locks, FlagsFit
<1>2. ToSignal(c) # NoConnection =>
        /\ ToSignal(c) \in Connections /\ ToSignal(c) # c
        /\ phase[ToSignal(c)] = "waiting"
        /\ \A d \in Connections : d # c => lock[d] # "shared"
        /\ writeSemaphore[ToSignal(c)] = 0
        /\ \A d \in Connections : signalling[d] # ToSignal(c)
  BY <1>1, StopsHolding
<1>3. LockType'
  BY <1>1, <1>2 DEF Locks, LockType, Phase, Lock
<1>4. FlagsFit'
  BY <1>1 DEF Locks, LockType, FlagsFit, Exclusive, Reading
<1>5. SignalsFit'
  BY <1>1, <1>2, DatabaseAssumption
     DEF Locks, LockType, FlagsFit, SignalsFit, NoneDeferred, Exclusive
<1> QED BY <1>3, <1>4, <1>5 DEF Locks

LEMMA EndRead_Locks ==
  ASSUME Locks, NEW c \in Connections, EndRead(c)
  PROVE  Locks'
<1> DEFINE w == IF lock[c] = "shared" THEN ToSignal(c) ELSE NoConnection
<1>1. /\ phase[c] = "reading" /\ signalling[c] = NoConnection
      /\ lock' = [lock EXCEPT ![c] = "none"]
      /\ signalling' = [signalling EXCEPT ![c] = w]
      /\ phase' = [phase EXCEPT ![c] = "idle"]
      /\ UNCHANGED <<writeQueue, waitingForWriteLock, writeSemaphore>>
  BY DEF EndRead
<1>2. w # NoConnection =>
        /\ w \in Connections /\ w # c
        /\ phase[w] = "waiting"
        /\ \A d \in Connections : d # c => lock[d] # "shared"
        /\ writeSemaphore[w] = 0
        /\ \A d \in Connections : signalling[d] # w
  BY <1>1, StopsHolding
<1> HIDE DEF w
<1>3. LockType'
  BY <1>1, <1>2 DEF Locks, LockType, Phase, Lock
<1>4. FlagsFit'
  BY <1>1 DEF Locks, LockType, FlagsFit, Exclusive, Reading
<1>5. SignalsFit'
  BY <1>1, <1>2, DatabaseAssumption
     DEF Locks, LockType, FlagsFit, SignalsFit, NoneDeferred, Exclusive
<1> QED BY <1>3, <1>4, <1>5 DEF Locks

LEMMA Signal_Locks ==
  ASSUME Locks, NEW c \in Connections, SignalWriteLock(c)
  PROVE  Locks'
<1>1. /\ signalling[c] # NoConnection
      /\ writeSemaphore' = [writeSemaphore EXCEPT ![signalling[c]] = @ + 1]
      /\ signalling' = [signalling EXCEPT ![c] = NoConnection]
      /\ UNCHANGED <<writeQueue, phase, lock, waitingForWriteLock>>
  BY DEF SignalWriteLock
<1>2. signalling[c] \in Connections /\ writeSemaphore[signalling[c]] = 0
  BY <1>1 DEF Locks, LockType, SignalsFit
<1>3. LockType'
  BY <1>1, <1>2 DEF Locks, LockType
<1>4. FlagsFit'
  BY <1>1 DEF Locks, LockType, FlagsFit
<1>5. SignalsFit'
  BY <1>1, <1>2, DatabaseAssumption DEF Locks, LockType, SignalsFit, NoneDeferred
<1> QED BY <1>3, <1>4, <1>5 DEF Locks

LEMMA BeginWrite_Locks ==
  ASSUME Locks, NEW c \in Connections, BeginWrite(c)
  PROVE  Locks'
<1>1. /\ phase[c] = "idle" /\ signalling[c] = NoConnection
      /\ writeQueue = NoConnection /\ writeQueue' = c
      /\ lock' = [lock EXCEPT ![c] = "exclusive"]
      /\ phase' = [phase EXCEPT ![c] = "writing"]
      /\ UNCHANGED <<waitingForWriteLock, writeSemaphore, signalling>>
  BY DEF BeginWrite, Free
<1>2. LockType'
  BY <1>1 DEF Locks, LockType, Phase, Lock
<1>3. FlagsFit'
  BY <1>1, DatabaseAssumption DEF Locks, LockType, FlagsFit, Exclusive, Reading
<1>4. SignalsFit'
  BY <1>1 DEF Locks, LockType, FlagsFit, SignalsFit, NoneDeferred, Exclusive
<1> QED BY <1>2, <1>3, <1>4 DEF Locks

\* A writer goes on, holding on to its lock.
LEMMA Increment_Locks ==
  ASSUME Locks, NEW c \in Connections, IncrementSnapshot(c) \/ Commit(c)
  PROVE  Locks'
<1>1. /\ \/ phase[c] = "writing" /\ phase' = [phase EXCEPT ![c] = "checking"]
         \/ phase[c] = "committing" /\ phase' = [phase EXCEPT ![c] = "committed"]
      /\ UNCHANGED <<writeQueue, lock, waitingForWriteLock, writeSemaphore, signalling>>
  BY DEF IncrementSnapshot, Commit, state
<1>2. LockType'
  BY <1>1 DEF Locks, LockType, Phase
<1>3. FlagsFit'
  BY <1>1 DEF Locks, LockType, FlagsFit, Exclusive, Reading
<1>4. SignalsFit'
  BY <1>1 DEF Locks, LockType, FlagsFit, SignalsFit, NoneDeferred, Exclusive
<1> QED BY <1>2, <1>3, <1>4 DEF Locks

LEMMA CheckReaders_Locks ==
  ASSUME Locks, NEW c \in Connections, CheckReaders(c)
  PROVE  Locks'
<1>1. /\ phase[c] = "checking"
      /\ \/ /\ phase' = [phase EXCEPT ![c] = "waiting"]
            /\ waitingForWriteLock' = [waitingForWriteLock EXCEPT ![c] = TRUE]
         \/ /\ NoneDeferred(c)
            /\ phase' = [phase EXCEPT ![c] = "committing"]
            /\ waitingForWriteLock' = [waitingForWriteLock EXCEPT ![c] = FALSE]
      /\ UNCHANGED <<writeQueue, lock, writeSemaphore, signalling>>
  BY DeferredEmpty DEF CheckReaders
<1>2. LockType'
  BY <1>1 DEF Locks, LockType, Phase
<1>3. FlagsFit'
  BY <1>1 DEF Locks, LockType, FlagsFit, Exclusive, Reading
<1>4. SignalsFit'
  BY <1>1 DEF Locks, LockType, FlagsFit, SignalsFit, NoneDeferred, Exclusive
<1> QED BY <1>2, <1>3, <1>4 DEF Locks

LEMMA Wait_Locks ==
  ASSUME Locks, NEW c \in Connections, WaitForWriteLock(c)
  PROVE  Locks'
<1>1. /\ phase[c] = "waiting" /\ writeSemaphore[c] > 0
      /\ writeSemaphore' = [writeSemaphore EXCEPT ![c] = @ - 1]
      /\ phase' = [phase EXCEPT ![c] = "checking"]
      /\ UNCHANGED <<writeQueue, lock, waitingForWriteLock, signalling>>
  BY DEF WaitForWriteLock
<1>2. LockType'
  BY <1>1 DEF Locks, LockType, Phase
<1>3. FlagsFit'
  BY <1>1 DEF Locks, LockType, FlagsFit, Exclusive, Reading
<1>4. SignalsFit'
  <2>1. writeSemaphore[c] = 1 /\ \A d \in Connections : signalling[d] # c
    BY <1>1 DEF Locks, LockType, SignalsFit
  <2> QED BY <1>1, <2>1 DEF Locks, LockType, FlagsFit, SignalsFit, NoneDeferred, Exclusive
<1> QED BY <1>2, <1>3, <1>4 DEF Locks

\* A writer is through.
LEMMA WriterEnds_Locks ==
  ASSUME Locks, NEW c \in Connections, NoteCommitted(c) \/ Rollback(c) \/ FinishRollback(c)
  PROVE  Locks'
<1>1. /\ \/ /\ phase[c] = "committed" /\ writeQueue' = NoConnection
            /\ phase' = [phase EXCEPT ![c] = "idle"]
            /\ lock' = [lock EXCEPT ![c] = "none"]
            /\ waitingForWriteLock' = [waitingForWriteLock EXCEPT ![c] = FALSE]
         \/ /\ phase[c] = "writing" /\ UNCHANGED writeQueue
            /\ phase' = [phase EXCEPT ![c] = "rollingBack"]
            /\ lock' = [lock EXCEPT ![c] = "none"]
            /\ UNCHANGED waitingForWriteLock
         \/ /\ phase[c] = "rollingBack" /\ writeQueue' = NoConnection
            /\ phase' = [phase EXCEPT ![c] = "idle"]
            /\ UNCHANGED <<lock, waitingForWriteLock>>
      /\ UNCHANGED <<writeSemaphore, signalling>>
  BY DEF NoteCommitted, Rollback, FinishRollback, state
<1>2. writeQueue = c
  BY <1>1 DEF Locks, FlagsFit, Exclusive
<1>3. LockType'
  BY <1>1 DEF Locks, LockType, Phase, Lock
<1>4. FlagsFit'
  BY <1>1, <1>2, DatabaseAssumption DEF Locks, LockType, FlagsFit, Exclusive, Reading
<1>5. SignalsFit'
  BY <1>1 DEF Locks, LockType, FlagsFit, SignalsFit, NoneDeferred, Exclusive
<1> QED BY <1>3, <1>4, <1>5 DEF Locks

LEMMA ComeAndGo_Locks ==
  ASSUME Locks, NEW c \in Connections, Open(c) \/ Close(c)
  PROVE  Locks'
<1>1. /\ \/ phase[c] = "closed" /\ phase' = [phase EXCEPT ![c] = "idle"]
         \/ /\ phase[c] = "idle" /\ signalling[c] = NoConnection
            /\ phase' = [phase EXCEPT ![c] = "closed"]
      /\ UNCHANGED <<writeQueue, lock, waitingForWriteLock, writeSemaphore, signalling>>
  BY DEF Open, Close, Free, state
<1>2. LockType'
  BY <1>1 DEF Locks, LockType, Phase
<1>3. FlagsFit'
  BY <1>1 DEF Locks, LockType, FlagsFit, Exclusive, Reading
<1>4. SignalsFit'
  BY <1>1 DEF Locks, LockType, FlagsFit, SignalsFit, NoneDeferred, Exclusive
<1> QED BY <1>2, <1>3, <1>4 DEF Locks

LEMMA Next_Locks == Locks /\ [Next]_vars => Locks'
<1> SUFFICES ASSUME Locks, [Next]_vars PROVE Locks'
  OBVIOUS
<1>0. ASSUME UNCHANGED <<writeQueue, phase, state, signalling>> PROVE Locks'
  BY <1>0 DEF state, Locks, LockType, FlagsFit, SignalsFit, NoneDeferred
<1>1. ASSUME NEW c \in Connections, ReadStep(c) PROVE Locks'
  BY <1>1, BeginRead_Locks, Select_Locks, Mark_Locks, EndRead_Locks, Signal_Locks
     DEF ReadStep
<1>2. ASSUME NEW c \in Connections, WriteStep(c) PROVE Locks'
  <2>1. ASSUME NEW k \in Keys, SetObject(c, k) \/ RemoveObject(c, k) PROVE Locks'
    BY <1>0, <2>1 DEF SetObject, RemoveObject, Write
  <2>2. CASE RemoveAllObjects(c)
    BY <1>0, <2>2 DEF RemoveAllObjects, Write
  <2> QED BY <1>2, <2>1, <2>2, BeginWrite_Locks, Increment_Locks, CheckReaders_Locks,
             Wait_Locks, WriterEnds_Locks DEF WriteStep
<1>3. ASSUME NEW c \in Connections, Open(c) \/ Close(c) PROVE Locks'
  BY <1>3, ComeAndGo_Locks
<1>4. ASSUME NEW c \in Connections, flushMemory(c) \/ noteCommittedChanges(c) PROVE Locks'
  BY <1>0, <1>4 DEF flushMemory, noteCommittedChanges
<1>5. ASSUME NEW n \in 1 .. MaxSnapshot, DropChangeset(n) PROVE Locks'
  BY <1>0, <1>5 DEF DropChangeset
<1>6. CASE UNCHANGED vars
  BY <1>0, <1>6 DEF vars
<1> QED BY <1>1, <1>2, <1>3, <1>4, <1>5, <1>6 DEF Next

\* A signal the writer has not consumed is never out of date.
THEOREM SignalsSafe == Spec => []SignalledMeansSafe
<1>1. Locks => SignalledMeansSafe
  BY DeferredEmpty DEF Locks, SignalsFit, SignalledMeansSafe
<1> QED BY <1>1, Init_Locks, Next_Locks, PTL DEF Spec

\* A writer that waits has let the readers know, and will be woken.
Awaited ==
  /\ NoWakeUpLost
  /\ \A c \in Connections : phase[c] = "waiting" => waitingForWriteLock[c]

\* The reader that was the last to hold up a writer signals that one, as no
\* other can be waiting.
LEMMA LastSignals ==
  ASSUME Locks, Awaited, NEW c \in Connections, phase[c] = "waiting",
         NEW d \in Connections, d # c, Deferred(c) \subseteq {d}
  PROVE  ToSignal(d) = c
<1>1. c \in Waiting
  BY DEF Awaited, Waiting
<1>2. \A e \in Waiting : e = c
  BY DEF Waiting, Locks, FlagsFit, Exclusive
<1>3. lock[c] # "shared"
  BY DEF Locks, FlagsFit, Exclusive
<1>4. Deferred(d) = {}
  BY <1>3 DEF Deferred
<1> QED BY <1>1, <1>2, <1>4 DEF ToSignal

\* Besides the one that moves, nobody comes to wait or loses its signal.
LEMMA StillAwaited ==
  ASSUME Locks, Awaited, NEW c \in Connections,
         phase[c] # "waiting", phase'[c] # "waiting",
         \A d \in Connections \ {c} :
           /\ phase'[d] = phase[d]
           /\ waitingForWriteLock'[d] = waitingForWriteLock[d]
           /\ lock'[d] = lock[d]
           /\ signalling'[d] = signalling[d],
         lock[c] = "shared" => lock'[c] = "shared",
         signalling'[c] = signalling[c],
         UNCHANGED writeSemaphore
  PROVE  Awaited'
<1>1. \A d \in Connections \ {c} : Deferred(d) \subseteq Deferred(d)'
  BY DEF Deferred
<1>2. ASSUME NEW d \in Connections, phase'[d] = "waiting"
      PROVE  /\ \/ writeSemaphore'[d] > 0
                \/ \E e \in Connections : signalling'[e] = d
                \/ Deferred(d)' # {}
             /\ waitingForWriteLock'[d]
  <2>1. d # c /\ phase[d] = "waiting"
    BY <1>2
  <2> QED BY <1>1, <2>1 DEF Awaited, NoWakeUpLost
<1> QED BY <1>2 DEF Awaited, NoWakeUpLost

\* A reader stops holding up writers.
LEMMA StopsHolding_Awaited ==
  ASSUME Locks, Awaited, NEW c \in Connections,
         markSqlLevelSharedReadLockAcquired(c) \/ EndRead(c)
  PROVE  Awaited'
<1>1. /\ phase[c] \in Reading /\ signalling[c] = NoConnection
      /\ \E new \in {"none", "sql"} : lock' = [lock EXCEPT ![c] = new]
      /\ signalling' = [signalling EXCEPT ![c] =
                          IF lock[c] = "shared" THEN ToSignal(c) ELSE NoConnection]
      /\ \E new \in {"reading", "idle"} : phase' = [phase EXCEPT ![c] = new]
      /\ UNCHANGED <<waitingForWriteLock, writeSemaphore>>
  BY DEF markSqlLevelSharedReadLockAcquired, EndRead, Reading, Locks, LockType, FlagsFit
<1>2. ASSUME NEW d \in Connections, phase'[d] = "waiting"
      PROVE  /\ \/ writeSemaphore'[d] > 0
                \/ \E e \in Connections : signalling'[e] = d
                \/ Deferred(d)' # {}
             /\ waitingForWriteLock'[d]
  <2>1. d # c /\ phase[d] = "waiting"
    BY <1>1, <1>2 DEF Reading, Locks, LockType
  <2>2. waitingForWriteLock'[d]
    BY <1>1, <2>1 DEF Awaited
  <2>3. CASE Deferred(d) \subseteq {c} /\ lock[c] = "shared"
    <3>1. ToSignal(c) = d
      BY <2>1, <2>3, LastSignals
    <3>2. signalling'[c] = d
      BY <1>1, <2>3, <3>1 DEF Locks, LockType
    <3> QED BY <2>2, <3>2
  <2>4. CASE Deferred(d) \subseteq {c} /\ lock[c] # "shared"
    <3>1. Deferred(d) = {}
      BY <2>4 DEF Deferred
    <3>2. writeSemaphore[d] > 0 \/ \E e \in Connections : signalling[e] = d
      BY <2>1, <3>1 DEF Awaited, NoWakeUpLost
    <3>3. \A e \in Connections : signalling[e] = d => signalling'[e] = d
      BY <1>1, DatabaseAssumption DEF Locks, LockType
    <3> QED BY <1>1, <2>2, <3>2, <3>3
  <2>5. CASE ~(Deferred(d) \subseteq {c})
    <3>1. PICK e \in Deferred(d) : e # c
      BY <2>5
    <3>2. e \in Deferred(d)'
      BY <1>1, <3>1 DEF Deferred, Locks, LockType
    <3> QED BY <2>2, <3>2
  <2> QED BY <2>3, <2>4, <2>5
<1> QED BY <1>2 DEF Awaited, NoWakeUpLost

LEMMA Next_Awaited == Locks /\ Awaited /\ [Next]_vars => Awaited'
<1> SUFFICES ASSUME Locks, Awaited, [Next]_vars PROVE Awaited'
  OBVIOUS
<1>0. ASSUME UNCHANGED <<phase, state, signalling>> PROVE Awaited'
  BY <1>0 DEF state, Awaited, NoWakeUpLost, Deferred
<1>1. ASSUME NEW c \in Connections, BeginRead(c) PROVE Awaited'
  <2>1. /\ phase[c] = "idle" /\ phase' = [phase EXCEPT ![c] = "reading"]
        /\ \E new \in {"sql", "shared"} : lock' = [lock EXCEPT ![c] = new]
        /\ UNCHANGED <<waitingForWriteLock, writeSemaphore, signalling>>
    BY <1>1 DEF BeginRead, Free
  <2> QED BY <2>1, StillAwaited DEF Locks, LockType, FlagsFit, Reading
<1>2. ASSUME NEW c \in Connections, NEW k \in Keys, Select(c, k) PROVE Awaited'
  <2>1. /\ phase[c] \in {"reading", "writing"}
        /\ phase' = phase \/ phase' = [phase EXCEPT ![c] = "selected"]
        /\ UNCHANGED <<lock, waitingForWriteLock, writeSemaphore, signalling>>
    BY <1>2 DEF Select, state, Locks, LockType
  <2> QED BY <2>1, StillAwaited DEF Locks, LockType
<1>3. ASSUME NEW c \in Connections, SignalWriteLock(c) PROVE Awaited'
  <2>1. /\ signalling[c] \in Connections
        /\ writeSemaphore' = [writeSemaphore EXCEPT ![signalling[c]] = @ + 1]
        /\ signalling' = [signalling EXCEPT ![c] = NoConnection]
        /\ UNCHANGED <<phase, lock, waitingForWriteLock>>
    BY <1>3 DEF SignalWriteLock, Locks, LockType
  <2>2. \A d \in Connections :
          /\ writeSemaphore[d] > 0 => writeSemaphore'[d] > 0
          /\ signalling[c] = d => writeSemaphore'[d] > 0
          /\ d # c => signalling'[d] = signalling[d]
    BY <2>1 DEF Locks, LockType
  <2> QED BY <2>1, <2>2 DEF Awaited, NoWakeUpLost, Deferred
<1>4. ASSUME NEW c \in Connections,
             \/ BeginWrite(c) \/ IncrementSnapshot(c) \/ Commit(c)
             \/ NoteCommitted(c) \/ Rollback(c) \/ FinishRollback(c)
      PROVE  Awaited'
  <2>1. /\ phase[c] \in {"idle", "writing", "committing", "committed", "rollingBack"}
        /\ \E new \in {"writing", "checking", "committed", "idle", "rollingBack"} :
             phase' = [phase EXCEPT ![c] = new]
        /\ lock' = lock \/ \E new \in {"exclusive", "none"} : lock' = [lock EXCEPT ![c] = new]
        /\ \/ UNCHANGED waitingForWriteLock
           \/ waitingForWriteLock' = [waitingForWriteLock EXCEPT ![c] = FALSE]
        /\ UNCHANGED <<writeSemaphore, signalling>>
    BY <1>4 DEF BeginWrite, IncrementSnapshot, Commit, NoteCommitted, Rollback,
                FinishRollback, Free, state
  <2>2. lock[c] # "shared"
    BY <2>1 DEF Locks, FlagsFit, Reading
  <2> QED BY <2>1, <2>2, StillAwaited DEF Locks, LockType
<1>5. ASSUME NEW c \in Connections, CheckReaders(c) PROVE Awaited'
  <2>1. /\ phase[c] = "checking"
        /\ UNCHANGED <<lock, writeSemaphore, signalling>>
        /\ \/ /\ Deferred(c) # {}
              /\ waitingForWriteLock' = [waitingForWriteLock EXCEPT ![c] = TRUE]
              /\ phase' = [phase EXCEPT ![c] = "waiting"]
           \/ /\ waitingForWriteLock' = [waitingForWriteLock EXCEPT ![c] = FALSE]
              /\ phase' = [phase EXCEPT ![c] = "committing"]
    BY <1>5 DEF CheckReaders
  <2>2. \A d \in Connections : Deferred(d)' = Deferred(d)
    BY <2>1 DEF Deferred
  <2> QED BY <2>1, <2>2 DEF Locks, LockType, Awaited, NoWakeUpLost
<1>6. ASSUME NEW c \in Connections, WaitForWriteLock(c) PROVE Awaited'
  <2>1. /\ phase[c] = "waiting" /\ phase' = [phase EXCEPT ![c] = "checking"]
        /\ writeSemaphore' = [writeSemaphore EXCEPT ![c] = @ - 1]
        /\ UNCHANGED <<lock, waitingForWriteLock, signalling>>
    BY <1>6 DEF WaitForWriteLock
  <2>2. \A d \in Connections : Deferred(d)' = Deferred(d)
    BY <2>1 DEF Deferred
  <2> QED BY <2>1, <2>2 DEF Locks, LockType, Awaited, NoWakeUpLost
<1>7. ASSUME NEW c \in Connections, Open(c) \/ Close(c) PROVE Awaited'
  <2>1. /\ phase[c] \in {"closed", "idle"}
        /\ \E new \in {"closed", "idle"} : phase' = [phase EXCEPT ![c] = new]
        /\ UNCHANGED <<lock, waitingForWriteLock, writeSemaphore, signalling>>
    BY <1>7 DEF Open, Close, Free, state
  <2> QED BY <2>1, StillAwaited DEF Locks, LockType
<1>8. ASSUME NEW c \in Connections, NEW k \in Keys, SetObject(c, k) \/ RemoveObject(c, k)
      PROVE  Awaited'
  BY <1>0, <1>8 DEF SetObject, RemoveObject, Write
<1>9. ASSUME NEW c \in Connections,
             RemoveAllObjects(c) \/ flushMemory(c) \/ noteCommittedChanges(c)
      PROVE  Awaited'
  BY <1>0, <1>9 DEF RemoveAllObjects, Write, flushMemory, noteCommittedChanges
<1>10. ASSUME NEW n \in 1 .. MaxSnapshot, DropChangeset(n) PROVE Awaited'
  BY <1>0, <1>10 DEF DropChangeset
<1>11. CASE UNCHANGED vars
  BY <1>0, <1>11 DEF vars, state
<1> QED BY <1>1, <1>2, <1>3, <1>4, <1>5, <1>6, <1>7, <1>8, <1>9, <1>10, <1>11,
           StopsHolding_Awaited DEF Next, ReadStep, WriteStep

\* While a writer waits somebody is bound to wake it: its signal is there or
\* on its way, or a reader holds it up that is going to send it.
THEOREM NoSleepForever == Spec => []NoWakeUpLost
<1>1. Init => Awaited
  BY DEF Init, Awaited, NoWakeUpLost
<1>2. Awaited => NoWakeUpLost
  BY DEF Awaited
<1> QED BY <1>1, <1>2, Init_Locks, Next_Locks, Next_Awaited, PTL DEF Spec

-----------------------------------------------------------------------------
(* What is stored and shown.                                               *)

DataType ==
  /\ disk \in Version
  /\ snapshot \in Nat
  /\ changesets \in Seq(Changeset)
  /\ groups \subseteq Nat
  /\ current \in [Connections -> Nat]
  /\ objectCache \in [Connections -> Table]
  /\ view \in [Connections -> Version \cup {NoView}]
  /\ changes \in [Connections -> SUBSET Keys]
  /\ inbox \in [Connections -> Seq(Changeset)]

Writing == {"writing", "checking", "waiting", "committing"}

\* Its change set has a number, is in the list, is on disk.
Numbered(c) ==
  phase[c] \in {"checking", "waiting", "committing", "committed"} /\ changes[c] # {}
Registered(c) == phase[c] \in {"committing", "committed"} /\ changes[c] # {}
Announcing(c) == phase[c] = "committed" /\ changes[c] # {}

OneIf(P) == IF P THEN 1 ELSE 0

AnyRegistered == \E c \in Connections : Registered(c)
AnyAnnouncing == \E c \in Connections : Announcing(c)

(***************************************************************************)
(* The numbers of the snapshots.  A writer's own is ahead of the           *)
(* database's from when it counts its commit until that is announced.      *)
(***************************************************************************)
NumbersFit ==
  /\ disk.snapshot = snapshot + OneIf(AnyAnnouncing)
  /\ \A c \in Connections :
       /\ ~Numbered(c) => current[c] <= disk.snapshot
       /\ phase[c] \in Exclusive => current[c] = snapshot + OneIf(Numbered(c))

\* What SQLite shows a connection.
ViewFit(c) ==
  /\ phase[c] \in Writing => view[c] \in Version /\ view[c].snapshot = current[c]
  /\ phase[c] \in {"closed", "idle", "committed"} => view[c] = NoView
  /\ phase[c] \in Reading /\ view[c] = NoView => phase[c] = "reading" /\ lock[c] = "shared"
  /\ phase[c] \notin Exclusive \cup {"rollingBack"} => changes[c] = {}

ViewsFit == \A c \in Connections : ViewFit(c)

\* Change sets up to this number have been dropped.
Dropped == snapshot - Cardinality(groups)

(***************************************************************************)
(* Whichever group is through first, as many change sets are kept as there *)
(* are groups that are not, the last ones.                                 *)
(***************************************************************************)
ChangesetsFit ==
  /\ groups \subseteq 1 .. snapshot
  /\ Len(changesets) = Cardinality(groups) + OneIf(AnyRegistered)
  /\ \A i \in 1 .. Len(changesets) : changesets[i].snapshot = Dropped + i
  /\ \A c \in Connections :
       Registered(c) => changesets[Len(changesets)].keys = changes[c]

(***************************************************************************)
(* Every number a connection has yet to hear of is that of a group that is *)
(* not through.  So the change sets it may have to look up are there.      *)
(***************************************************************************)
InboxFit(c) ==
  /\ phase[c] = "closed" => inbox[c] = <<>>
  /\ \A i, j \in 1 .. Len(inbox[c]) :
       i < j => inbox[c][i].snapshot < inbox[c][j].snapshot
  /\ \A i \in 1 .. Len(inbox[c]) : inbox[c][i].snapshot \in groups
  /\ phase[c] # "closed" =>
       \A n \in 1 .. snapshot : current[c] < n =>
         \E i \in 1 .. Len(inbox[c]) : inbox[c][i].snapshot = n
  /\ \A i \in 1 .. Len(inbox[c]) :
       inbox[c][i].snapshot > current[c] =>
         \E j \in 1 .. Len(changesets) : changesets[j] = inbox[c][i]

InboxesFit == \A c \in Connections : InboxFit(c)

\* A connection that is at its own snapshot can tell that the key may have
\* changed since.
Explained(c, k) ==
  \E i \in 1 .. Len(changesets) :
    /\ current[c] < changesets[i].snapshot /\ changesets[i].snapshot <= disk.snapshot
    /\ k \in changesets[i].keys

(***************************************************************************)
(* The data.  In a transaction the cache is right about what SQLite shows; *)
(* between transactions it is wrong only about keys of change sets the     *)
(* connection has not processed, and so is an old view.                    *)
(***************************************************************************)
Cached(c, k) == objectCache[c][k] # NoValue

DataFit(c, k) ==
  /\ phase[c] = "closed" => ~Cached(c, k)
  /\ Works(c) /\ Cached(c, k) => objectCache[c][k] = Seen(c).table[k]
  /\ phase[c] = "idle" /\ Cached(c, k) =>
       objectCache[c][k] = disk.table[k] \/ Explained(c, k)
  /\ phase[c] \in Reading /\ view[c] # NoView =>
       view[c].table[k] = disk.table[k] \/ Explained(c, k)
  /\ phase[c] = "committed" /\ Cached(c, k) => objectCache[c][k] = disk.table[k]
  /\ phase[c] \in Writing /\ k \notin changes[c] =>
       view[c].table[k] = disk.table[k]

DataFits == \A c \in Connections, k \in Keys : DataFit(c, k)

Data ==
  DataType /\ NumbersFit /\ ViewsFit /\ ChangesetsFit /\ InboxesFit /\ DataFits

IInv == Locks /\ Data

-----------------------------------------------------------------------------
\* If the numbers after m are in S, at least that many are.
LEMMA Counting ==
  ASSUME NEW n \in Nat, NEW S \in SUBSET (1 .. n)
  PROVE  /\ IsFiniteSet(S) /\ Cardinality(S) \in Nat /\ Cardinality(S) <= n
         /\ \A m \in Nat : (\A i \in 1 .. n : m < i => i \in S) => n - Cardinality(S) <= m
<1>1. IsFiniteSet(1 .. n) /\ Cardinality(1 .. n) = n
  BY FS_Interval
<1>2. IsFiniteSet(S) /\ Cardinality(S) \in Nat /\ Cardinality(S) <= n
  BY <1>1, FS_Subset, FS_CardinalityType
<1>3. ASSUME NEW m \in Nat, \A i \in 1 .. n : m < i => i \in S
      PROVE  n - Cardinality(S) <= m
  <2>1. CASE n <= m
    BY <1>2, <2>1
  <2>2. CASE m < n
    <3>1. m + 1 .. n \subseteq S
      BY <1>3
    <3>2. Cardinality(m + 1 .. n) = n - m
      BY <2>2, FS_Interval
    <3>3. Cardinality(m + 1 .. n) <= Cardinality(S)
      BY <1>2, <3>1, FS_Subset
    <3> QED BY <1>2, <3>2, <3>3
  <2> QED BY <1>2, <2>1, <2>2
<1> QED BY <1>2, <1>3

\* The number up to which change sets are dropped, and a connection's own.
LEMMA DroppedBound ==
  ASSUME DataType, ChangesetsFit, InboxesFit
  PROVE  /\ Cardinality(groups) \in Nat /\ Dropped \in Nat /\ Dropped <= snapshot
         /\ \A c \in Connections : phase[c] # "closed" => Dropped <= current[c]
<1>1. snapshot \in Nat /\ groups \in SUBSET (1 .. snapshot)
  BY DEF DataType, ChangesetsFit
<1>2. Cardinality(groups) \in Nat /\ Cardinality(groups) <= snapshot
  BY <1>1, Counting
<1>3. ASSUME NEW c \in Connections, phase[c] # "closed" PROVE Dropped <= current[c]
  <2>1. \A i \in 1 .. snapshot : current[c] < i => i \in groups
    BY <1>3 DEF InboxesFit, InboxFit
  <2>2. current[c] \in Nat
    BY DEF DataType
  <2> QED BY <1>1, <2>1, <2>2, Counting DEF Dropped
<1> QED BY <1>1, <1>2, <1>3 DEF Dropped

LEMMA OneWriter ==
  ASSUME Locks, NEW c \in Connections,
         phase[c] \in Exclusive \cup {"rollingBack"}
  PROVE  /\ writeQueue = c
         /\ \A d \in Connections : d # c =>
              phase[d] \in {"closed", "idle", "reading", "selected"}
BY DEF Locks, LockType, FlagsFit, Phase, Exclusive

\* What processing the missed change sets amounts to for a transaction.
LEMMA CatchesUpToDisk ==
  ASSUME IInv, NEW c \in Connections, phase[c] = "idle", CatchUp(c, disk.snapshot)
  PROVE  /\ current' = [current EXCEPT ![c] = disk.snapshot]
         /\ objectCache' \in [Connections -> Table]
         /\ \A d \in Connections : d # c => objectCache'[d] = objectCache[d]
         /\ \A k \in Keys : objectCache'[c][k] \in {NoValue, disk.table[k]}
<1> DEFINE D == disk.snapshot
           missed == Missed(c, D)
           K == UNION {changesets[i].keys : i \in missed}
<1>0. /\ Locks /\ DataType /\ NumbersFit /\ ViewsFit
      /\ ChangesetsFit /\ InboxesFit /\ DataFits
  BY DEF IInv, Data
<1>1. /\ D \in Nat /\ current[c] \in Nat /\ current[c] <= D
      /\ changesets \in Seq(Changeset)
      /\ Dropped \in Nat /\ Dropped <= current[c]
  BY <1>0, DroppedBound DEF DataType, Version, NumbersFit, Numbered
<1>2. Dropped + Len(changesets) >= D
  <2>1. AnyAnnouncing => AnyRegistered
    BY <1>0 DEF AnyAnnouncing, AnyRegistered, Announcing, Registered
  <2>2. /\ OneIf(AnyAnnouncing) \in Nat /\ OneIf(AnyRegistered) \in Nat
        /\ OneIf(AnyAnnouncing) <= OneIf(AnyRegistered)
    BY <2>1 DEF OneIf
  <2>3. D = snapshot + OneIf(AnyAnnouncing)
    BY <1>0 DEF NumbersFit
  <2>4. Len(changesets) = Cardinality(groups) + OneIf(AnyRegistered)
    BY <1>0 DEF ChangesetsFit
  <2>5. snapshot \in Nat /\ Cardinality(groups) \in Nat
    BY <1>0, DroppedBound DEF DataType
  <2> QED BY <2>2, <2>3, <2>4, <2>5 DEF Dropped
<1>3. \A i \in 1 .. Len(changesets) : changesets[i].snapshot = Dropped + i
  BY <1>0 DEF ChangesetsFit
<1>4. missed = {i \in 1 .. Len(changesets) : current[c] < Dropped + i /\ Dropped + i <= D}
  <2>1. DOMAIN changesets = 1 .. Len(changesets)
    BY <1>0, <1>1
  <2> QED BY <1>0, <1>3, <2>1 DEF Missed
<1> HIDE DEF D, missed
<1>5. current' = [current EXCEPT ![c] = D]
  <2>1. current' = IF missed = {} THEN current
                   ELSE [current EXCEPT ![c] = changesets[Latest(missed)].snapshot]
    BY <1>0 DEF CatchUp, missed, D
  <2>2. CASE current[c] = D
    <3>1. missed = {}
      BY <1>0, <1>1, <1>4, <2>2
    <3> QED BY <1>0, <2>1, <2>2, <3>1 DEF DataType
  <2>3. CASE current[c] < D
    <3>1. D - Dropped \in missed /\ \A j \in missed : j <= D - Dropped
      BY <1>0, <1>1, <1>2, <1>4, <2>3
    <3>2. Latest(missed) \in missed /\ \A j \in missed : j <= Latest(missed)
      BY <1>0, <3>1 DEF Latest
    <3>3. missed \subseteq Int
      BY <1>0, <1>4
    <3>4. Latest(missed) = D - Dropped
      <4>1. Latest(missed) \in Int
        BY <1>0, <3>2, <3>3
      <4>3. D - Dropped \in Int
        BY <1>0, <1>1
      <4>2. Latest(missed) <= D - Dropped /\ D - Dropped <= Latest(missed)
        BY <1>0, <3>1, <3>2
      <4> QED BY <1>0, <4>1, <4>2, <4>3
    <3>5. changesets[Latest(missed)].snapshot = D
      BY <1>0, <1>1, <1>3, <1>4, <3>1, <3>4
    <3> QED BY <1>0, <2>1, <3>1, <3>5
  <2> QED BY <1>0, <1>1, <2>2, <2>3
<1>6. objectCache' = [objectCache EXCEPT ![c] = Forget(@, K)]
  BY <1>0 DEF CatchUp, missed, D
<1>7. \A k \in Keys : Explained(c, k) => k \in K
  BY <1>0, <1>3, <1>4, <1>1 DEF Explained, D
<1> HIDE DEF K
<1>8. Forget(objectCache[c], K) \in Table
  BY <1>0 DEF DataType, Table, Forget
<1>9. \A k \in Keys : Forget(objectCache[c], K)[k] \in {NoValue, disk.table[k]}
  BY <1>0, <1>7 DEF DataFits, DataFit, Cached, Forget
<1> QED BY <1>0, <1>5, <1>6, <1>8, <1>9 DEF DataType, D

-----------------------------------------------------------------------------
\* Connections that an action has nothing to do with.
LEMMA InboxUntouched ==
  ASSUME NEW c \in Connections, InboxFit(c), UNCHANGED <<snapshot, changesets, groups>>,
         phase'[c] = phase[c], inbox'[c] = inbox[c], current'[c] = current[c]
  PROVE  InboxFit(c)'
BY DEF InboxFit

LEMMA DataUntouched ==
  ASSUME NEW c \in Connections, NEW k \in Keys, DataFit(c, k), UNCHANGED disk,
         Explained(c, k) => Explained(c, k)',
         phase'[c] = phase[c], view'[c] = view[c], objectCache'[c] = objectCache[c],
         changes'[c] = changes[c]
  PROVE  DataFit(c, k)'
BY DEF DataFit, Cached, Works, Seen

LEMMA ExplainedStill ==
  ASSUME NEW c \in Connections, NEW k \in Keys, UNCHANGED <<disk, changesets>>,
         current'[c] = current[c]
  PROVE  Explained(c, k) => Explained(c, k)'
BY DEF Explained

LEMMA Init_Data == Init => Data
<1> SUFFICES ASSUME Init PROVE Data
  OBVIOUS
<1>1. DataType
  BY DEF Init, DataType, Version, Table, Nothing
<1>2. NumbersFit /\ ViewsFit
  BY DEF Init, NumbersFit, ViewsFit, ViewFit, Numbered, OneIf, AnyAnnouncing, Announcing,
         Exclusive, Writing, Reading
<1>3. ChangesetsFit
  BY FS_EmptySet DEF Init, ChangesetsFit, OneIf, AnyRegistered, Registered, Dropped
<1>4. InboxesFit /\ DataFits
  BY DEF Init, InboxesFit, InboxFit, DataFits, DataFit, Cached, Nothing, Works, Reading, Writing
<1> QED BY <1>1, <1>2, <1>3, <1>4 DEF Data

\* A connection that begins a transaction.
LEMMA Begin_Data ==
  ASSUME IInv, NEW c \in Connections, BeginRead(c) \/ BeginWrite(c)
  PROVE  Data'
<1>0. /\ Locks /\ DataType /\ NumbersFit /\ ViewsFit
      /\ ChangesetsFit /\ InboxesFit /\ DataFits
  BY DEF IInv, Data
<1>1. /\ phase[c] = "idle"
      /\ UNCHANGED <<disk, snapshot, changesets, groups, changes, inbox>>
      /\ \/ /\ phase' = [phase EXCEPT ![c] = "reading"]
            /\ lock' = [lock EXCEPT ![c] = "shared"]
            /\ UNCHANGED view
         \/ /\ phase' = [phase EXCEPT ![c] = "reading"]
            /\ lock' = [lock EXCEPT ![c] = "sql"]
            /\ view' = [view EXCEPT ![c] = disk]
         \/ /\ phase' = [phase EXCEPT ![c] = "writing"]
            /\ lock' = [lock EXCEPT ![c] = "exclusive"]
            /\ view' = [view EXCEPT ![c] = disk]
            /\ writeQueue = NoConnection
  BY <1>0 DEF BeginRead, BeginWrite, Free, database
<1>2. CatchUp(c, disk.snapshot)
  <2>1. ASSUME \A d \in Connections \ {c} : phase[d] \notin Exclusive
        PROVE  disk.snapshot = snapshot
    <3>1. ~AnyAnnouncing
      BY <1>0, <1>1, <2>1 DEF AnyAnnouncing, Announcing, Exclusive
    <3> QED BY <1>0, <3>1 DEF NumbersFit, OneIf, DataType
  <2>2. CASE BeginWrite(c)
    <3>1. \A d \in Connections \ {c} : phase[d] \notin Exclusive
      BY <1>0, <2>2, DatabaseAssumption DEF BeginWrite, Locks, FlagsFit
    <3> QED BY <1>0, <2>1, <2>2, <3>1 DEF BeginWrite
  <2>3. CASE BeginRead(c) /\ ActiveWriter(c)
    BY <1>0, <2>3 DEF BeginRead
  <2>4. CASE BeginRead(c) /\ ~ActiveWriter(c)
    <3>1. \A d \in Connections \ {c} : phase[d] \notin Exclusive
      BY <1>0, <2>4 DEF ActiveWriter, Locks, FlagsFit
    <3> QED BY <1>0, <2>1, <2>4, <3>1 DEF BeginRead
  <2> QED BY <1>0, <2>2, <2>3, <2>4
<1>3. /\ current' = [current EXCEPT ![c] = disk.snapshot]
      /\ objectCache' \in [Connections -> Table]
      /\ \A d \in Connections : d # c => objectCache'[d] = objectCache[d]
      /\ \A k \in Keys : objectCache'[c][k] \in {NoValue, disk.table[k]}
  BY <1>0, <1>1, <1>2, CatchesUpToDisk
<1>4. disk \in Version /\ disk.snapshot \in Nat /\ disk # NoView
  BY <1>0, DatabaseAssumption DEF DataType, Version, Table
<1>41. view[c] = NoView /\ changes[c] = {}
  BY <1>0, <1>1 DEF ViewsFit, ViewFit, Exclusive
<1>42. current[c] \in Nat /\ current[c] <= disk.snapshot
  BY <1>0, <1>1 DEF DataType, NumbersFit, Numbered
<1>43. snapshot \in Nat /\ snapshot <= disk.snapshot
  BY <1>0, <1>4 DEF DataType, NumbersFit, OneIf
<1>5. DataType'
  BY <1>0, <1>1, <1>3, <1>4, <1>41, <1>42, <1>43 DEF DataType
<1>6. /\ AnyAnnouncing' <=> AnyAnnouncing
      /\ AnyRegistered' <=> AnyRegistered
      /\ \A d \in Connections : Registered(d)' <=> Registered(d)
      /\ \A d \in Connections : Numbered(d)' <=> Numbered(d)
  BY <1>0, <1>1 DEF AnyAnnouncing, AnyRegistered, Announcing, Registered, Numbered, Locks, LockType
<1>7. NumbersFit'
  <2>1. phase'[c] = "writing" => disk.snapshot = snapshot
    <3>1. writeQueue = NoConnection => ~AnyAnnouncing
      BY <1>0, DatabaseAssumption DEF Locks, FlagsFit, AnyAnnouncing, Announcing, Exclusive
    <3> QED BY <1>0, <1>1, <3>1 DEF Locks, LockType, Data, NumbersFit, OneIf, DataType
  <2>2. ~Numbered(c)
    BY <1>0, <1>1 DEF Numbered
  <2> QED BY <1>0, <1>1, <1>3, <1>4, <1>41, <1>42, <1>43, <1>6, <2>1, <2>2
          DEF NumbersFit, Exclusive, Locks, LockType, OneIf, DataType
<1>8. ViewsFit'
  BY <1>0, <1>1, <1>3, <1>4, <1>41, <1>42, <1>43 DEF ViewsFit, ViewFit, Exclusive, Writing, Reading, Locks, LockType, DataType
<1>9. ChangesetsFit'
  BY <1>0, <1>1, <1>6 DEF ChangesetsFit, Dropped, OneIf
<1>10. InboxesFit'
  <2> SUFFICES ASSUME NEW d \in Connections PROVE InboxFit(d)'
    BY DEF InboxesFit
  <2>1. InboxFit(d)
    BY <1>0 DEF InboxesFit
  <2>2. CASE d = c
    <3>1. /\ current'[c] = disk.snapshot /\ phase'[c] # "closed" /\ phase[c] # "closed"
      BY <1>0, <1>1, <1>3 DEF DataType, Locks, LockType
    <3>2. \A i \in 1 .. Len(inbox[c]) : inbox[c][i].snapshot \in Nat
      BY <1>0, <2>1, <2>2 DEF InboxFit, DataType
    <3> QED BY <1>1, <1>42, <1>43, <1>4, <2>1, <2>2, <3>1, <3>2 DEF InboxFit
  <2>3. CASE d # c
    BY <1>0, <1>1, <1>3, <2>1, <2>3, InboxUntouched DEF DataType, Locks, LockType
  <2> QED BY <2>2, <2>3
<1>11. DataFits'
  <2> SUFFICES ASSUME NEW d \in Connections, NEW k \in Keys PROVE DataFit(d, k)'
    BY DEF DataFits
  <2>1. CASE d = c
    BY <1>0, <1>1, <1>3, <1>4, <1>41, <1>42, <1>43, <2>1
       DEF DataFit, Cached, Works, Seen, Reading, Writing, Locks, LockType, DataType
  <2>2. CASE d # c
    <3>1. /\ DataFit(d, k)
          /\ phase'[d] = phase[d] /\ view'[d] = view[d] /\ objectCache'[d] = objectCache[d]
          /\ current'[d] = current[d] /\ changes'[d] = changes[d]
      BY <1>0, <1>1, <1>3, <2>2 DEF DataFits, Locks, LockType, DataType
    <3> QED BY <1>1, <3>1, ExplainedStill, DataUntouched
  <2> QED BY <2>1, <2>2
<1> QED BY <1>5, <1>7, <1>8, <1>9, <1>10, <1>11 DEF Data

\* Steps that only move a transaction on.
LEMMA MovesOn_Data ==
  ASSUME IInv, NEW c \in Connections,
         \/ markSqlLevelSharedReadLockAcquired(c) \/ SignalWriteLock(c)
         \/ WaitForWriteLock(c) \/ Rollback(c)
  PROVE  Data'
<1>0. /\ Locks /\ DataType /\ NumbersFit /\ ViewsFit
      /\ ChangesetsFit /\ InboxesFit /\ DataFits
  BY DEF IInv, Data
<1>1. /\ UNCHANGED <<disk, snapshot, changesets, groups, current, objectCache, view,
                     changes, inbox>>
      /\ \/ UNCHANGED <<phase, lock>>
         \/ /\ phase[c] = "selected" /\ phase' = [phase EXCEPT ![c] = "reading"]
            /\ lock' = [lock EXCEPT ![c] = "sql"]
         \/ /\ phase[c] = "waiting" /\ phase' = [phase EXCEPT ![c] = "checking"]
            /\ UNCHANGED lock
         \/ /\ phase[c] = "writing" /\ phase' = [phase EXCEPT ![c] = "rollingBack"]
            /\ lock' = [lock EXCEPT ![c] = "none"]
  BY DEF markSqlLevelSharedReadLockAcquired, SignalWriteLock, WaitForWriteLock, Rollback,
         database, connection
<1>2. phase \in [Connections -> Phase] /\ lock \in [Connections -> Lock]
  BY <1>0 DEF Locks, LockType
<1>3. DataType'
  BY <1>0, <1>1 DEF DataType
<1>4. \A d \in Connections :
        /\ Announcing(d)' <=> Announcing(d)
        /\ Registered(d)' <=> Registered(d)
        /\ Numbered(d)' <=> Numbered(d)
  BY <1>1, <1>2 DEF Announcing, Registered, Numbered
<1>5. (AnyAnnouncing' <=> AnyAnnouncing) /\ (AnyRegistered' <=> AnyRegistered)
  BY <1>4 DEF AnyAnnouncing, AnyRegistered
<1>6. NumbersFit'
  BY <1>0, <1>1, <1>2, <1>4, <1>5 DEF NumbersFit, Exclusive, OneIf
<1>7. ViewsFit'
  BY <1>0, <1>1, <1>2 DEF ViewsFit, ViewFit, Exclusive, Writing, Reading
<1>8. ChangesetsFit'
  BY <1>0, <1>1, <1>4, <1>5 DEF ChangesetsFit, Dropped, OneIf
<1>9. InboxesFit'
  BY <1>0, <1>1, <1>2 DEF InboxesFit, InboxFit
<1>10. DataFits'
  <2> SUFFICES ASSUME NEW d \in Connections, NEW k \in Keys PROVE DataFit(d, k)'
    BY DEF DataFits
  <2>1. DataFit(d, k) /\ (Explained(d, k) => Explained(d, k)')
    BY <1>0, <1>1, ExplainedStill DEF DataFits
  <2> QED BY <1>1, <1>2, <2>1 DEF DataFit, Cached, Works, Seen, Reading, Writing
<1> QED BY <1>3, <1>6, <1>7, <1>8, <1>9, <1>10 DEF Data

LEMMA Select_Data ==
  ASSUME IInv, NEW c \in Connections, NEW q \in Keys, Select(c, q)
  PROVE  Data'
<1>0. /\ Locks /\ DataType /\ NumbersFit /\ ViewsFit
      /\ ChangesetsFit /\ InboxesFit /\ DataFits
  BY DEF IInv, Data
<1>1. /\ phase[c] \in {"reading", "writing"}
      /\ UNCHANGED <<disk, snapshot, changesets, groups, lock, current, changes, inbox>>
      /\ view' = [view EXCEPT ![c] = Seen(c)]
      /\ objectCache' \in {objectCache, [objectCache EXCEPT ![c][q] = Seen(c).table[q]]}
      /\ \/ UNCHANGED phase
         \/ phase[c] = "reading" /\ phase' = [phase EXCEPT ![c] = "selected"]
  <2>1. lock[c] = "shared" => phase[c] # "writing"
    BY <1>0 DEF Locks, FlagsFit, Reading
  <2> QED BY <1>0, <2>1 DEF Select, database, state, Locks, LockType
<1>2. phase \in [Connections -> Phase]
  BY <1>0 DEF Locks, LockType
<1>3. /\ Seen(c) \in Version /\ Seen(c) # NoView /\ Seen(c).table[q] \in Values \cup {NoValue}
      /\ Seen(c).table \in Table
      /\ phase[c] = "writing" => Seen(c) = view[c]
      /\ Seen(c) = view[c] \/ (view[c] = NoView /\ Seen(c) = disk)
  <2>1. Seen(c) \in Version
    BY <1>0 DEF Seen, DataType
  <2>2. Seen(c) # NoView /\ \A v \in Version : v # NoView
    BY <2>1, DatabaseAssumption DEF Version, Table
  <2>3. phase[c] = "writing" => view[c] \in Version
    BY <1>0 DEF ViewsFit, ViewFit, Writing
  <2>4. Seen(c).table \in Table
    BY <2>1 DEF Version
  <2>5. Seen(c).table[q] \in Values \cup {NoValue}
    BY <2>4 DEF Table
  <2>6. Seen(c) = view[c] \/ (view[c] = NoView /\ Seen(c) = disk)
    BY DEF Seen
  <2>7. phase[c] = "writing" => Seen(c) = view[c]
    BY <2>2, <2>3 DEF Seen
  <2> QED BY <2>1, <2>2, <2>4, <2>5, <2>6, <2>7
<1> DEFINE shown == Seen(c)
<1> HIDE DEF shown
<1>31. /\ shown \in Version /\ shown # NoView /\ shown.table[q] \in Values \cup {NoValue}
       /\ phase[c] = "writing" => shown = view[c]
       /\ shown = view[c] \/ (view[c] = NoView /\ shown = disk)
       /\ view' = [view EXCEPT ![c] = shown]
       /\ objectCache' \in {objectCache, [objectCache EXCEPT ![c][q] = shown.table[q]]}
  BY <1>1, <1>3 DEF shown
<1>4. DataType'
  <2>1. objectCache' \in [Connections -> Table]
    <3>1. objectCache \in [Connections -> Table]
      BY <1>0 DEF DataType
    <3>2. [objectCache EXCEPT ![c][q] = shown.table[q]] \in [Connections -> Table]
      BY <1>31, <3>1 DEF Table
    <3> QED BY <1>31, <3>1, <3>2
  <2>2. view' \in [Connections -> Version \cup {NoView}]
    BY <1>0, <1>31 DEF DataType
  <2> QED BY <1>0, <1>1, <2>1, <2>2 DEF DataType
<1>5. \A d \in Connections :
        /\ Announcing(d)' <=> Announcing(d)
        /\ Registered(d)' <=> Registered(d)
        /\ Numbered(d)' <=> Numbered(d)
  BY <1>1, <1>2 DEF Announcing, Registered, Numbered
<1>6. (AnyAnnouncing' <=> AnyAnnouncing) /\ (AnyRegistered' <=> AnyRegistered)
  BY <1>5 DEF AnyAnnouncing, AnyRegistered
<1>7. NumbersFit'
  BY <1>0, <1>1, <1>2, <1>5, <1>6 DEF NumbersFit, Exclusive, OneIf
<1>8. ViewsFit'
  <2> SUFFICES ASSUME NEW d \in Connections PROVE ViewFit(d)'
    BY DEF ViewsFit
  <2>1. ViewFit(d)
    BY <1>0 DEF ViewsFit
  <2>2. view'[d] = IF d = c THEN shown ELSE view[d]
    BY <1>0, <1>31 DEF DataType
  <2> QED BY <1>1, <1>2, <1>31, <2>1, <2>2 DEF ViewFit, Exclusive, Writing, Reading
<1>9. ChangesetsFit'
  BY <1>0, <1>1, <1>5, <1>6 DEF ChangesetsFit, Dropped, OneIf
<1>10. InboxesFit'
  BY <1>0, <1>1, <1>2 DEF InboxesFit, InboxFit
<1>11. DataFits'
  <2> SUFFICES ASSUME NEW d \in Connections, NEW k \in Keys PROVE DataFit(d, k)'
    BY DEF DataFits
  <2>1. DataFit(d, k) /\ (Explained(d, k) => Explained(d, k)')
    BY <1>0, <1>1, ExplainedStill DEF DataFits
  <2>2. CASE d # c
    <3>1. phase'[d] = phase[d] /\ view'[d] = view[d] /\ objectCache'[d] = objectCache[d]
      BY <1>0, <1>1, <1>2, <1>31, <2>2 DEF DataType
    <3> QED BY <1>1, <2>1, <3>1, DataUntouched
  <2>3. CASE d = c
    <3>1. /\ view'[c] = shown /\ phase'[c] \in {phase[c], "selected"}
          /\ phase'[c] = "selected" => phase[c] \in {"reading", "selected"}
      BY <1>0, <1>1, <1>2, <1>31 DEF DataType
    <3>4. \/ objectCache'[c][k] = objectCache[c][k]
          \/ objectCache'[c][k] = shown.table[k]
      <4>1. objectCache'[c] \in {objectCache[c], [objectCache[c] EXCEPT ![q] = shown.table[q]]}
        BY <1>0, <1>31 DEF DataType
      <4>2. objectCache[c] \in [Keys -> Values \cup {NoValue}]
        BY <1>0 DEF DataType, Table
      <4> QED BY <4>1, <4>2
    <3>2. objectCache'[c][k] # NoValue => objectCache'[c][k] = shown.table[k]
      BY <1>1, <1>3, <2>1, <2>3, <3>4 DEF DataFit, Cached, Works, shown
    <3> QED BY <1>1, <1>31, <2>1, <2>3, <3>1, <3>2
            DEF DataFit, Cached, Works, Seen, Reading, Writing
  <2> QED BY <2>2, <2>3
<1> QED BY <1>4, <1>7, <1>8, <1>9, <1>10, <1>11 DEF Data

LEMMA EndRead_Data ==
  ASSUME IInv, NEW c \in Connections, EndRead(c)
  PROVE  Data'
<1>0. /\ Locks /\ DataType /\ NumbersFit /\ ViewsFit
      /\ ChangesetsFit /\ InboxesFit /\ DataFits
  BY DEF IInv, Data
<1>1. /\ phase[c] = "reading" /\ phase' = [phase EXCEPT ![c] = "idle"]
      /\ view' = [view EXCEPT ![c] = NoView]
      /\ lock' = [lock EXCEPT ![c] = "none"]
      /\ UNCHANGED <<disk, snapshot, changesets, groups, current, objectCache, changes, inbox>>
  BY DEF EndRead, database
<1>2. phase \in [Connections -> Phase] /\ lock \in [Connections -> Lock]
  BY <1>0 DEF Locks, LockType
<1>3. DataType'
  BY <1>0, <1>1 DEF DataType
<1>4. \A d \in Connections :
        /\ Announcing(d)' <=> Announcing(d)
        /\ Registered(d)' <=> Registered(d)
        /\ Numbered(d)' <=> Numbered(d)
  BY <1>1, <1>2 DEF Announcing, Registered, Numbered
<1>5. (AnyAnnouncing' <=> AnyAnnouncing) /\ (AnyRegistered' <=> AnyRegistered)
  BY <1>4 DEF AnyAnnouncing, AnyRegistered
<1>6. NumbersFit'
  BY <1>0, <1>1, <1>2, <1>4, <1>5 DEF NumbersFit, Exclusive, OneIf
<1>7. ViewsFit'
  BY <1>0, <1>1, <1>2 DEF ViewsFit, ViewFit, Exclusive, Writing, Reading, DataType
<1>8. ChangesetsFit'
  BY <1>0, <1>1, <1>4, <1>5 DEF ChangesetsFit, Dropped, OneIf
<1>9. InboxesFit'
  BY <1>0, <1>1, <1>2 DEF InboxesFit, InboxFit
<1>10. DataFits'
  <2> SUFFICES ASSUME NEW d \in Connections, NEW k \in Keys PROVE DataFit(d, k)'
    BY DEF DataFits
  <2>1. DataFit(d, k) /\ (Explained(d, k) => Explained(d, k)')
    BY <1>0, <1>1, ExplainedStill DEF DataFits
  <2>2. CASE d # c
    <3>1. phase'[d] = phase[d] /\ view'[d] = view[d]
      BY <1>0, <1>1, <1>2, <2>2 DEF DataType
    <3> QED BY <1>1, <2>1, <3>1, DataUntouched
  <2>3. CASE d = c
    BY <1>1, <1>2, <2>1, <2>3 DEF DataFit, Cached, Works, Seen, Reading, Writing
  <2> QED BY <2>2, <2>3
<1> QED BY <1>3, <1>6, <1>7, <1>8, <1>9, <1>10 DEF Data

-----------------------------------------------------------------------------
\* What a writer changes is in its cache and its view, and recorded.
LEMMA Write_Data ==
  ASSUME IInv, NEW c \in Connections, NEW K \in SUBSET Keys,
         NEW v \in Values \cup {NoValue}, Write(c, K, v)
  PROVE  Data'
<1>0. /\ Locks /\ DataType /\ NumbersFit /\ ViewsFit
      /\ ChangesetsFit /\ InboxesFit /\ DataFits
  BY DEF IInv, Data
<1> DEFINE T == [k \in Keys |-> IF k \in K THEN v ELSE view[c].table[k]]
           C == [k \in Keys |-> IF k \in K THEN v ELSE objectCache[c][k]]
<1>1. /\ phase[c] = "writing"
      /\ UNCHANGED <<disk, snapshot, changesets, groups, phase, lock, current, inbox>>
      /\ view' = [view EXCEPT ![c].table = T]
      /\ objectCache' = [objectCache EXCEPT ![c] = C]
      /\ changes' = [changes EXCEPT ![c] = @ \cup K]
  BY DEF Write, database, state
<1>2. phase \in [Connections -> Phase] /\ view[c] \in Version
  BY <1>0, <1>1 DEF Locks, LockType, ViewsFit, ViewFit, Writing
<1>3. T \in Table /\ C \in Table
  <2>1. view[c].table \in [Keys -> Values \cup {NoValue}]
    BY <1>2 DEF Version, Table
  <2>2. objectCache[c] \in [Keys -> Values \cup {NoValue}]
    BY <1>0 DEF DataType, Table
  <2> QED BY <2>1, <2>2 DEF Table
<1>4. \A k \in Keys : /\ T[k] = IF k \in K THEN v ELSE view[c].table[k]
                      /\ C[k] = IF k \in K THEN v ELSE objectCache[c][k]
  OBVIOUS
<1> HIDE DEF T, C
<1>5. /\ view'[c] \in Version /\ view'[c].table = T
      /\ view'[c].snapshot = view[c].snapshot
      /\ \A d \in Connections : d # c => view'[d] = view[d]
      /\ view' \in [Connections -> Version \cup {NoView}]
  <2>1. view'[c] = [view[c] EXCEPT !.table = T]
    BY <1>0, <1>1 DEF DataType
  <2>2. view'[c] \in Version /\ view'[c].table = T /\ view'[c].snapshot = view[c].snapshot
    BY <1>2, <1>3, <2>1 DEF Version
  <2>3. view' = [view EXCEPT ![c] = view'[c]]
    BY <1>0, <1>1 DEF DataType
  <2> QED BY <1>0, <2>2, <2>3 DEF DataType
<1>6. DataType'
  BY <1>0, <1>1, <1>3, <1>5 DEF DataType
<1>7. \A d \in Connections :
        /\ Announcing(d)' <=> Announcing(d)
        /\ Registered(d)' <=> Registered(d)
        /\ Numbered(d)' <=> Numbered(d)
  BY <1>0, <1>1 DEF Announcing, Registered, Numbered, DataType
<1>8. (AnyAnnouncing' <=> AnyAnnouncing) /\ (AnyRegistered' <=> AnyRegistered)
  BY <1>7 DEF AnyAnnouncing, AnyRegistered
<1>9. NumbersFit'
  BY <1>0, <1>1, <1>7, <1>8 DEF NumbersFit, OneIf
<1>10. ViewsFit'
  <2> SUFFICES ASSUME NEW d \in Connections PROVE ViewFit(d)'
    BY DEF ViewsFit
  <2>1. ViewFit(d) /\ (d # c => changes'[d] = changes[d])
    BY <1>0, <1>1 DEF ViewsFit, DataType
  <2>2. view'[c] # NoView
    BY <1>5, DatabaseAssumption DEF Version, Table
  <2>3. CASE d = c
    BY <1>1, <1>5, <2>1, <2>2, <2>3 DEF ViewFit, Exclusive, Writing, Reading
  <2>4. CASE d # c
    BY <1>1, <1>5, <2>1, <2>4 DEF ViewFit
  <2> QED BY <2>3, <2>4
<1>11. ChangesetsFit'
  <2>1. \A d \in Connections : Registered(d) => changes'[d] = changes[d]
    BY <1>0, <1>1 DEF Registered, DataType
  <2> QED BY <1>0, <1>1, <1>7, <1>8, <2>1 DEF ChangesetsFit, Dropped, OneIf
<1>12. InboxesFit'
  BY <1>0, <1>1 DEF InboxesFit, InboxFit
<1>13. DataFits'
  <2> SUFFICES ASSUME NEW d \in Connections, NEW k \in Keys PROVE DataFit(d, k)'
    BY DEF DataFits
  <2>1. DataFit(d, k) /\ (Explained(d, k) => Explained(d, k)')
    BY <1>0, <1>1, ExplainedStill DEF DataFits
  <2>2. CASE d # c
    <3>1. view'[d] = view[d] /\ objectCache'[d] = objectCache[d] /\ changes'[d] = changes[d]
      BY <1>0, <1>1, <1>5, <2>2 DEF DataType
    <3> QED BY <1>1, <2>1, <3>1, DataUntouched
  <2>3. CASE d = c
    <3>1. objectCache'[c] = C /\ changes'[c] = changes[c] \cup K
      BY <1>0, <1>1 DEF DataType
    <3>2. view'[c] # NoView /\ view[c] # NoView
      BY <1>2, <1>5, DatabaseAssumption DEF Version, Table
    <3>3. objectCache'[c][k] # NoValue => objectCache'[c][k] = view'[c].table[k]
      BY <1>1, <1>4, <1>5, <2>1, <2>3, <3>1, <3>2 DEF DataFit, Cached, Works, Seen
    <3>4. k \notin changes'[c] => view'[c].table[k] = disk.table[k]
      BY <1>1, <1>4, <1>5, <2>1, <2>3, <3>1 DEF DataFit, Writing
    <3> QED BY <1>1, <2>3, <3>2, <3>3, <3>4
            DEF DataFit, Cached, Works, Seen, Reading, Writing
  <2> QED BY <2>2, <2>3
<1> QED BY <1>6, <1>9, <1>10, <1>11, <1>12, <1>13 DEF Data

\* The cache is emptied, between transactions.
LEMMA Emptied_Data ==
  ASSUME IInv, NEW c \in Connections, FinishRollback(c) \/ Close(c) \/ flushMemory(c)
  PROVE  Data'
<1>0. /\ Locks /\ DataType /\ NumbersFit /\ ViewsFit
      /\ ChangesetsFit /\ InboxesFit /\ DataFits
  BY DEF IInv, Data
<1>1. /\ UNCHANGED <<disk, snapshot, changesets, groups, lock, current, inbox>>
      /\ objectCache' = [objectCache EXCEPT ![c] = Nothing]
      /\ \/ /\ phase[c] = "rollingBack" /\ phase' = [phase EXCEPT ![c] = "idle"]
            /\ view' = [view EXCEPT ![c] = NoView]
            /\ changes' = [changes EXCEPT ![c] = {}]
         \/ /\ phase[c] = "idle" /\ inbox[c] = <<>>
            /\ phase' = [phase EXCEPT ![c] = "closed"]
            /\ UNCHANGED <<view, changes>>
         \/ phase[c] = "idle" /\ UNCHANGED <<phase, view, changes>>
  BY DEF FinishRollback, Close, flushMemory, Free, database, state
<1>2. phase \in [Connections -> Phase] /\ Nothing \in Table
  BY <1>0 DEF Locks, LockType, Nothing, Table
<1>3. DataType'
  BY <1>0, <1>1, <1>2 DEF DataType
<1>4. \A d \in Connections :
        /\ Announcing(d)' <=> Announcing(d)
        /\ Registered(d)' <=> Registered(d)
        /\ Numbered(d)' <=> Numbered(d)
  BY <1>0, <1>1, <1>2 DEF Announcing, Registered, Numbered, DataType
<1>5. (AnyAnnouncing' <=> AnyAnnouncing) /\ (AnyRegistered' <=> AnyRegistered)
  BY <1>4 DEF AnyAnnouncing, AnyRegistered
<1>6. NumbersFit'
  BY <1>0, <1>1, <1>2, <1>4, <1>5 DEF NumbersFit, Exclusive, OneIf
<1>7. ViewsFit'
  <2> SUFFICES ASSUME NEW d \in Connections PROVE ViewFit(d)'
    BY DEF ViewsFit
  <2>1. ViewFit(d)
    BY <1>0 DEF ViewsFit
  <2>2. d # c => view'[d] = view[d] /\ changes'[d] = changes[d]
    BY <1>0, <1>1 DEF DataType
  <2>3. phase'[c] \in {"idle", "closed"} /\ view'[c] = NoView /\ changes'[c] = {}
    <3>1. ViewFit(c)
      BY <1>0 DEF ViewsFit
    <3> QED BY <1>0, <1>1, <1>2, <3>1 DEF ViewFit, DataType, Exclusive
  <2>4. CASE d = c
    BY <2>3, <2>4 DEF ViewFit, Exclusive, Writing, Reading
  <2>5. CASE d # c
    BY <1>1, <1>2, <2>1, <2>2, <2>5 DEF ViewFit
  <2> QED BY <2>4, <2>5
<1>8. ChangesetsFit'
  <2>1. \A d \in Connections : Registered(d) => changes'[d] = changes[d]
    BY <1>0, <1>1 DEF Registered, DataType
  <2> QED BY <1>0, <1>1, <1>4, <1>5, <2>1 DEF ChangesetsFit, Dropped, OneIf
<1>9. InboxesFit'
  BY <1>0, <1>1, <1>2 DEF InboxesFit, InboxFit
<1>10. DataFits'
  <2> SUFFICES ASSUME NEW d \in Connections, NEW k \in Keys PROVE DataFit(d, k)'
    BY DEF DataFits
  <2>1. DataFit(d, k) /\ (Explained(d, k) => Explained(d, k)')
    BY <1>0, <1>1, ExplainedStill DEF DataFits
  <2>2. CASE d # c
    <3>1. /\ phase'[d] = phase[d] /\ view'[d] = view[d]
          /\ objectCache'[d] = objectCache[d] /\ changes'[d] = changes[d]
      BY <1>0, <1>1, <1>2, <2>2 DEF DataType
    <3> QED BY <1>1, <2>1, <3>1, DataUntouched
  <2>3. CASE d = c
    <3>1. phase'[c] \in {"idle", "closed"} /\ objectCache'[c][k] = NoValue
      BY <1>0, <1>1, <1>2 DEF DataType, Nothing
    <3> QED BY <2>3, <3>1 DEF DataFit, Cached, Works, Reading, Writing
  <2> QED BY <2>2, <2>3
<1> QED BY <1>3, <1>6, <1>7, <1>8, <1>9, <1>10 DEF Data

LEMMA Open_Data ==
  ASSUME IInv, NEW c \in Connections, Open(c)
  PROVE  Data'
<1>0. /\ Locks /\ DataType /\ NumbersFit /\ ViewsFit
      /\ ChangesetsFit /\ InboxesFit /\ DataFits
  BY DEF IInv, Data
<1>1. /\ phase[c] = "closed" /\ phase' = [phase EXCEPT ![c] = "idle"]
      /\ current' = [current EXCEPT ![c] = snapshot]
      /\ UNCHANGED <<disk, snapshot, changesets, groups, lock, objectCache, view,
                     changes, inbox>>
  BY DEF Open, database, state
<1>2. phase \in [Connections -> Phase] /\ snapshot \in Nat
  BY <1>0 DEF Locks, LockType, DataType
<1>3. DataType'
  BY <1>0, <1>1 DEF DataType
<1>4. \A d \in Connections :
        /\ Announcing(d)' <=> Announcing(d)
        /\ Registered(d)' <=> Registered(d)
        /\ Numbered(d)' <=> Numbered(d)
  BY <1>1, <1>2 DEF Announcing, Registered, Numbered
<1>5. (AnyAnnouncing' <=> AnyAnnouncing) /\ (AnyRegistered' <=> AnyRegistered)
  BY <1>4 DEF AnyAnnouncing, AnyRegistered
<1>6. NumbersFit'
  <2>1. snapshot <= disk.snapshot
    BY <1>0, <1>2 DEF NumbersFit, OneIf
  <2>2. \A d \in Connections : current'[d] = IF d = c THEN snapshot ELSE current[d]
    BY <1>0, <1>1 DEF DataType
  <2> QED BY <1>0, <1>1, <1>2, <1>4, <1>5, <2>1, <2>2 DEF NumbersFit, Exclusive, OneIf
<1>7. ViewsFit'
  <2> SUFFICES ASSUME NEW d \in Connections PROVE ViewFit(d)'
    BY DEF ViewsFit
  <2>1. ViewFit(d)
    BY <1>0 DEF ViewsFit
  <2>2. current'[d] = IF d = c THEN snapshot ELSE current[d]
    BY <1>0, <1>1 DEF DataType
  <2> QED BY <1>1, <1>2, <2>1, <2>2 DEF ViewFit, Exclusive, Writing, Reading
<1>8. ChangesetsFit'
  BY <1>0, <1>1, <1>4, <1>5 DEF ChangesetsFit, Dropped, OneIf
<1>9. InboxesFit'
  <2> SUFFICES ASSUME NEW d \in Connections PROVE InboxFit(d)'
    BY DEF InboxesFit
  <2>1. InboxFit(d)
    BY <1>0 DEF InboxesFit
  <2>2. CASE d # c
    <3>1. current'[d] = current[d] /\ phase'[d] = phase[d]
      BY <1>0, <1>1, <1>2, <2>2 DEF DataType
    <3> QED BY <1>1, <2>1, <3>1, InboxUntouched
  <2>3. CASE d = c
    <3>1. inbox'[c] = <<>> /\ current'[c] = snapshot /\ phase'[c] # "closed"
      BY <1>0, <1>1, <1>2, <2>1, <2>3 DEF DataType, InboxFit
    <3> QED BY <1>1, <1>2, <2>3, <3>1 DEF InboxFit
  <2> QED BY <2>2, <2>3
<1>10. DataFits'
  <2> SUFFICES ASSUME NEW d \in Connections, NEW k \in Keys PROVE DataFit(d, k)'
    BY DEF DataFits
  <2>1. DataFit(d, k)
    BY <1>0 DEF DataFits
  <2>2. CASE d # c
    <3>1. current'[d] = current[d] /\ phase'[d] = phase[d]
      BY <1>0, <1>1, <1>2, <2>2 DEF DataType
    <3> QED BY <1>1, <2>1, <3>1, ExplainedStill, DataUntouched
  <2>3. CASE d = c
    BY <1>1, <1>2, <2>1, <2>3 DEF DataFit, Cached, Works, Reading, Writing
  <2> QED BY <2>2, <2>3
<1> QED BY <1>3, <1>6, <1>7, <1>8, <1>9, <1>10 DEF Data

-----------------------------------------------------------------------------
\* The steps of a commit.
LEMMA IncrementSnapshot_Data ==
  ASSUME IInv, NEW c \in Connections, IncrementSnapshot(c)
  PROVE  Data'
<1>0. /\ Locks /\ DataType /\ NumbersFit /\ ViewsFit
      /\ ChangesetsFit /\ InboxesFit /\ DataFits
  BY DEF IInv, Data
<1>1. /\ phase[c] = "writing" /\ phase' = [phase EXCEPT ![c] = "checking"]
      /\ UNCHANGED <<disk, snapshot, changesets, groups, lock, objectCache, changes, inbox>>
      /\ \/ changes[c] = {} /\ UNCHANGED <<current, view>>
         \/ /\ changes[c] # {}
            /\ current' = [current EXCEPT ![c] = @ + 1]
            /\ view' = [view EXCEPT ![c].snapshot = current[c] + 1]
  BY DEF IncrementSnapshot, database, state
<1>2. /\ phase \in [Connections -> Phase] /\ view[c] \in Version
      /\ view[c].snapshot = current[c] /\ current[c] = snapshot
      /\ snapshot \in Nat
  <2>1. phase \in [Connections -> Phase] /\ view[c] \in Version /\ view[c].snapshot = current[c]
    BY <1>0, <1>1 DEF Locks, LockType, ViewsFit, ViewFit, Writing
  <2>2. current[c] = snapshot + OneIf(Numbered(c)) /\ ~Numbered(c)
    BY <1>0, <1>1 DEF NumbersFit, Exclusive, Numbered
  <2> QED BY <1>0, <2>1, <2>2 DEF OneIf, DataType
<1>3. /\ \A d \in Connections : d # c => view'[d] = view[d] /\ current'[d] = current[d]
      /\ view'[c] \in Version /\ view'[c].table = view[c].table
      /\ view'[c].snapshot = current'[c]
      /\ current'[c] = snapshot + OneIf(changes[c] # {})
      /\ view' \in [Connections -> Version \cup {NoView}]
      /\ current' \in [Connections -> Nat]
  <2>1. CASE changes[c] = {}
    BY <1>0, <1>1, <1>2, <2>1 DEF DataType, OneIf
  <2>2. CASE changes[c] # {}
    <3>1. /\ current'[c] = snapshot + 1 /\ current' = [current EXCEPT ![c] = snapshot + 1]
          /\ view'[c] = [view[c] EXCEPT !.snapshot = snapshot + 1]
      BY <1>0, <1>1, <1>2, <2>2 DEF DataType
    <3>2. /\ view'[c] \in Version /\ view'[c].table = view[c].table
          /\ view'[c].snapshot = snapshot + 1
      BY <1>2, <3>1 DEF Version
    <3>3. view' = [view EXCEPT ![c] = view'[c]]
      BY <1>0, <1>1, <2>2 DEF DataType
    <3>4. OneIf(changes[c] # {}) = 1
      BY <2>2 DEF OneIf
    <3>5. current' \in [Connections -> Nat]
      BY <1>0, <1>2, <3>1 DEF DataType
    <3>7. view' \in [Connections -> Version \cup {NoView}]
      BY <1>0, <3>2, <3>3 DEF DataType
    <3>6. \A d \in Connections : d # c => view'[d] = view[d] /\ current'[d] = current[d]
      BY <1>0, <3>1, <3>3 DEF DataType
    <3> QED BY <3>1, <3>2, <3>4, <3>5, <3>6, <3>7
  <2> QED BY <2>1, <2>2
<1>4. DataType'
  BY <1>0, <1>1, <1>3 DEF DataType
<1>5. \A d \in Connections :
        /\ Announcing(d)' <=> Announcing(d)
        /\ Registered(d)' <=> Registered(d)
        /\ d # c => (Numbered(d)' <=> Numbered(d))
  BY <1>1, <1>2 DEF Announcing, Registered, Numbered
<1>6. /\ AnyAnnouncing' <=> AnyAnnouncing
      /\ AnyRegistered' <=> AnyRegistered
      /\ Numbered(c)' <=> changes[c] # {}
  BY <1>1, <1>2, <1>5 DEF AnyAnnouncing, AnyRegistered, Numbered
<1>7. NumbersFit'
  <2>1. disk'.snapshot = snapshot' + OneIf(AnyAnnouncing)'
    BY <1>0, <1>1, <1>6 DEF NumbersFit, OneIf
  <2>2. snapshot <= disk.snapshot
    BY <1>0, <1>2 DEF NumbersFit, OneIf
  <2>3. ASSUME NEW d \in Connections
        PROVE  /\ ~Numbered(d)' => current'[d] <= disk'.snapshot
               /\ phase'[d] \in Exclusive => current'[d] = snapshot' + OneIf(Numbered(d))'
    <3>1. CASE d = c
      BY <1>1, <1>2, <1>3, <1>6, <2>2, <3>1 DEF OneIf
    <3>2. CASE d # c
      BY <1>0, <1>1, <1>2, <1>3, <1>5, <3>2 DEF NumbersFit, OneIf
    <3> QED BY <3>1, <3>2
  <2> QED BY <2>1, <2>3 DEF NumbersFit
<1>8. ViewsFit'
  <2> SUFFICES ASSUME NEW d \in Connections PROVE ViewFit(d)'
    BY DEF ViewsFit
  <2>1. ViewFit(d)
    BY <1>0 DEF ViewsFit
  <2>2. CASE d = c
    BY <1>1, <1>2, <1>3, <2>1, <2>2 DEF ViewFit, Exclusive, Writing, Reading
  <2>3. CASE d # c
    BY <1>1, <1>2, <1>3, <2>1, <2>3 DEF ViewFit
  <2> QED BY <2>2, <2>3
<1>9. ChangesetsFit'
  BY <1>0, <1>1, <1>5, <1>6 DEF ChangesetsFit, Dropped, OneIf
<1>10. InboxesFit'
  <2> SUFFICES ASSUME NEW d \in Connections PROVE InboxFit(d)'
    BY DEF InboxesFit
  <2>1. InboxFit(d)
    BY <1>0 DEF InboxesFit
  <2>2. CASE d # c
    BY <1>1, <1>2, <1>3, <2>1, <2>2, InboxUntouched
  <2>3. CASE d = c
    <3>1. /\ current'[c] \in Nat /\ current'[c] >= snapshot /\ phase'[c] # "closed"
          /\ snapshot' = snapshot /\ inbox' = inbox /\ groups' = groups
      BY <1>1, <1>2, <1>3 DEF OneIf
    <3>2. \A i \in 1 .. Len(inbox[c]) : inbox[c][i].snapshot \in 1 .. snapshot
      BY <1>0, <2>1, <2>3 DEF InboxFit, ChangesetsFit
    <3> QED BY <1>1, <1>2, <2>1, <2>3, <3>1, <3>2 DEF InboxFit
  <2> QED BY <2>2, <2>3
<1>11. DataFits'
  <2> SUFFICES ASSUME NEW d \in Connections, NEW k \in Keys PROVE DataFit(d, k)'
    BY DEF DataFits
  <2>1. DataFit(d, k)
    BY <1>0 DEF DataFits
  <2>2. CASE d # c
    <3>1. phase'[d] = phase[d]
      BY <1>1, <1>2, <2>2
    <3> QED BY <1>1, <1>3, <2>1, <2>2, <3>1, ExplainedStill, DataUntouched
  <2>3. CASE d = c
    <3>1. view'[c] # NoView /\ view[c] # NoView
      BY <1>2, <1>3, DatabaseAssumption DEF Version, Table
    <3> QED BY <1>1, <1>2, <1>3, <2>1, <2>3, <3>1
            DEF DataFit, Cached, Works, Seen, Reading, Writing
  <2> QED BY <2>2, <2>3
<1> QED BY <1>4, <1>7, <1>8, <1>9, <1>10, <1>11 DEF Data

\* Registering a change set explains no less.
LEMMA CheckReaders_Data ==
  ASSUME IInv, NEW c \in Connections, CheckReaders(c)
  PROVE  Data'
<1>0. /\ Locks /\ DataType /\ NumbersFit /\ ViewsFit
      /\ ChangesetsFit /\ InboxesFit /\ DataFits
  BY DEF IInv, Data
<1> DEFINE own == [snapshot |-> current[c], keys |-> changes[c]]
<1>1. /\ phase[c] = "checking"
      /\ UNCHANGED <<disk, snapshot, groups, lock, current, objectCache, view, changes, inbox>>
      /\ \/ phase' = [phase EXCEPT ![c] = "waiting"] /\ UNCHANGED changesets
         \/ /\ phase' = [phase EXCEPT ![c] = "committing"]
            /\ changes[c] = {} /\ UNCHANGED changesets
         \/ /\ phase' = [phase EXCEPT ![c] = "committing"]
            /\ changes[c] # {} /\ changesets' = Append(changesets, own)
  BY DEF CheckReaders, connection
<1>2. /\ phase \in [Connections -> Phase] /\ changesets \in Seq(Changeset)
      /\ own \in Changeset /\ Cardinality(groups) \in Nat /\ snapshot \in Nat
  BY <1>0, DroppedBound DEF Locks, LockType, DataType, Changeset
<1>3. /\ changesets' \in Seq(Changeset)
      /\ \A i \in 1 .. Len(changesets) :
           i \in 1 .. Len(changesets') /\ changesets'[i] = changesets[i]
  <2>1. CASE changesets' = changesets
    BY <1>2, <2>1
  <2>2. CASE changesets' = Append(changesets, own)
    <3> HIDE DEF own
    <3> QED BY <1>2, <2>2
  <2> QED BY <1>1, <2>1, <2>2
<1>4. DataType'
  BY <1>0, <1>1, <1>3 DEF DataType
<1>5. \A d \in Connections :
        /\ Announcing(d)' <=> Announcing(d)
        /\ d # c => (Registered(d)' <=> Registered(d))
        /\ Numbered(d)' <=> Numbered(d)
  BY <1>1, <1>2 DEF Announcing, Registered, Numbered
<1>6. AnyAnnouncing' <=> AnyAnnouncing
  BY <1>5 DEF AnyAnnouncing
<1>7. NumbersFit'
  BY <1>0, <1>1, <1>2, <1>5, <1>6 DEF NumbersFit, Exclusive, OneIf
<1>8. ViewsFit'
  BY <1>0, <1>1, <1>2 DEF ViewsFit, ViewFit, Exclusive, Writing, Reading
<1>9. ChangesetsFit'
  <2>1. ~Registered(c) /\ \A d \in Connections : d # c => ~Registered(d)
    BY <1>0, <1>1, OneWriter DEF Registered, Exclusive
  <2>2. ~AnyRegistered
    BY <2>1 DEF AnyRegistered
  <2>3. CASE UNCHANGED changesets
    <3>1. ~Registered(c)' /\ ~AnyRegistered'
      BY <1>1, <1>2, <1>5, <2>1, <2>3 DEF Registered, AnyRegistered
    <3> QED BY <1>0, <1>1, <1>5, <2>1, <2>2, <2>3, <3>1 DEF ChangesetsFit, Dropped, OneIf
  <2>4. ASSUME changesets' = Append(changesets, own), changes[c] # {},
               phase' = [phase EXCEPT ![c] = "committing"]
        PROVE  ChangesetsFit'
    <3>1. Registered(c)' /\ AnyRegistered'
      BY <1>1, <1>2, <2>4 DEF Registered, AnyRegistered
    <3>2. current[c] = snapshot + 1
      BY <1>0, <1>1, <2>4 DEF NumbersFit, Exclusive, Numbered, OneIf
    <3>3. Len(changesets) = Cardinality(groups)
      BY <1>0, <1>2, <2>2 DEF ChangesetsFit, OneIf
    <3>4. /\ Len(changesets') = Cardinality(groups) + 1
          /\ changesets'[Cardinality(groups) + 1] = own
      BY <1>2, <2>4, <3>3
    <3>5. ASSUME NEW i \in 1 .. Len(changesets')
          PROVE  changesets'[i].snapshot = Dropped' + i
      <4>1. Dropped' = snapshot - Cardinality(groups)
        BY <1>1 DEF Dropped
      <4>2. CASE i = Cardinality(groups) + 1
        <5>1. changesets'[i].snapshot = snapshot + 1
          BY <3>2, <3>4, <4>2
        <5> QED BY <1>2, <4>1, <4>2, <5>1
      <4>3. CASE i \in 1 .. Cardinality(groups)
        <5>1. changesets'[i].snapshot = Dropped + i
          BY <1>0, <1>3, <3>3, <4>3 DEF ChangesetsFit
        <5> QED BY <4>1, <5>1 DEF Dropped
      <4> QED BY <1>2, <3>4, <4>2, <4>3
    <3>6. ASSUME NEW d \in Connections, Registered(d)'
          PROVE  changesets'[Len(changesets')].keys = changes'[d]
      <4>1. d = c
        BY <1>5, <2>1, <3>6
      <4> QED BY <1>1, <3>4, <4>1
    <3>7. /\ groups' \subseteq 1 .. snapshot'
          /\ Len(changesets') = Cardinality(groups') + OneIf(AnyRegistered)'
      BY <1>0, <1>1, <3>1, <3>4 DEF ChangesetsFit, OneIf
    <3> QED BY <3>5, <3>6, <3>7 DEF ChangesetsFit
  <2> QED BY <1>1, <2>3, <2>4
<1>10. InboxesFit'
  <2> SUFFICES ASSUME NEW d \in Connections PROVE InboxFit(d)'
    BY DEF InboxesFit
  <2>1. InboxFit(d)
    BY <1>0 DEF InboxesFit
  <2>2. phase'[d] = "closed" <=> phase[d] = "closed"
    BY <1>1, <1>2
  <2>3. \A i \in 1 .. Len(inbox[d]) : inbox[d][i].snapshot > current[d] =>
          \E j \in 1 .. Len(changesets') : changesets'[j] = inbox[d][i]
    <3> SUFFICES ASSUME NEW i \in 1 .. Len(inbox[d]), inbox[d][i].snapshot > current[d]
                 PROVE  \E j \in 1 .. Len(changesets') : changesets'[j] = inbox[d][i]
      OBVIOUS
    <3>1. PICK j \in 1 .. Len(changesets) : changesets[j] = inbox[d][i]
      BY <2>1 DEF InboxFit
    <3> QED BY <1>3, <3>1
  <2> QED BY <1>1, <2>1, <2>2, <2>3 DEF InboxFit
<1>11. DataFits'
  <2> SUFFICES ASSUME NEW d \in Connections, NEW k \in Keys PROVE DataFit(d, k)'
    BY DEF DataFits
  <2>1. DataFit(d, k)
    BY <1>0 DEF DataFits
  <2>2. Explained(d, k) => Explained(d, k)'
    BY <1>1, <1>3 DEF Explained
  <2> QED BY <1>1, <1>2, <2>1, <2>2 DEF DataFit, Cached, Works, Seen, Reading, Writing
<1> QED BY <1>4, <1>7, <1>8, <1>9, <1>10, <1>11 DEF Data

\* What is on disk changes only in keys of the last change set.
LEMMA Commit_Data ==
  ASSUME IInv, NEW c \in Connections, Commit(c)
  PROVE  Data'
<1>0. /\ Locks /\ DataType /\ NumbersFit /\ ViewsFit
      /\ ChangesetsFit /\ InboxesFit /\ DataFits
  BY DEF IInv, Data
<1>1. /\ phase[c] = "committing" /\ phase' = [phase EXCEPT ![c] = "committed"]
      /\ disk' = view[c] /\ view' = [view EXCEPT ![c] = NoView]
      /\ UNCHANGED <<snapshot, changesets, groups, lock, current, objectCache, changes, inbox>>
  BY DEF Commit, state
<1>2. /\ phase \in [Connections -> Phase] /\ view[c] \in Version
      /\ view[c].snapshot = current[c] /\ current[c] = snapshot + OneIf(Numbered(c))
      /\ snapshot \in Nat /\ Dropped \in Nat /\ Cardinality(groups) \in Nat
  BY <1>0, <1>1, DroppedBound
     DEF Locks, LockType, ViewsFit, ViewFit, Writing, NumbersFit, Exclusive, DataType
<1>3. \A d \in Connections : d # c => phase[d] \in {"closed", "idle", "reading", "selected"}
  BY <1>0, <1>1, OneWriter DEF Exclusive
<1>4. disk.snapshot = snapshot
  <2>1. ~AnyAnnouncing
    BY <1>1, <1>3 DEF AnyAnnouncing, Announcing
  <2> QED BY <1>0, <1>2, <2>1 DEF NumbersFit, OneIf
<1>5. DataType'
  BY <1>0, <1>1, <1>2 DEF DataType
<1>6. \A d \in Connections :
        /\ Registered(d)' <=> Registered(d)
        /\ Numbered(d)' <=> Numbered(d)
  BY <1>1, <1>2 DEF Registered, Numbered
<1>7. AnyRegistered' <=> AnyRegistered
  BY <1>6 DEF AnyRegistered
<1>8. AnyAnnouncing' <=> Numbered(c)
  BY <1>1, <1>2, <1>3 DEF AnyAnnouncing, Announcing, Numbered
<1>9. NumbersFit'
  <2>1. disk'.snapshot = snapshot' + OneIf(AnyAnnouncing)'
    BY <1>1, <1>2, <1>8 DEF OneIf
  <2>2. disk.snapshot <= disk'.snapshot /\ disk'.snapshot = current[c]
    BY <1>1, <1>2, <1>4 DEF OneIf
  <2>4. disk'.snapshot \in Nat /\ disk.snapshot \in Nat
    BY <1>1, <1>2, <1>4 DEF Version
  <2>3. ASSUME NEW d \in Connections
        PROVE  /\ ~Numbered(d)' => current'[d] <= disk'.snapshot
               /\ phase'[d] \in Exclusive => current'[d] = snapshot' + OneIf(Numbered(d))'
    <3>1. CASE d = c
      BY <1>1, <1>2, <1>6, <2>2, <3>1 DEF OneIf
    <3>2. CASE d # c
      <4>1. phase'[d] \notin Exclusive /\ current'[d] = current[d] /\ current[d] \in Nat
        BY <1>0, <1>1, <1>2, <1>3, <3>2 DEF Exclusive, DataType
      <4>2. ~Numbered(d)' => current[d] <= disk.snapshot
        BY <1>0, <1>6 DEF NumbersFit
      <4> QED BY <2>2, <2>4, <4>1, <4>2
    <3> QED BY <3>1, <3>2
  <2> QED BY <2>1, <2>3 DEF NumbersFit
<1>10. ViewsFit'
  BY <1>0, <1>1, <1>2 DEF ViewsFit, ViewFit, Exclusive, Writing, Reading, DataType
<1>11. ChangesetsFit'
  BY <1>0, <1>1, <1>6, <1>7 DEF ChangesetsFit, Dropped, OneIf
<1>12. InboxesFit'
  BY <1>0, <1>1, <1>2 DEF InboxesFit, InboxFit
<1>13. DataFits'
  <2> SUFFICES ASSUME NEW d \in Connections, NEW k \in Keys PROVE DataFit(d, k)'
    BY DEF DataFits
  <2>1. DataFit(d, k) /\ DataFit(c, k)
    BY <1>0 DEF DataFits
  <2>2. CASE d = c
    BY <1>1, <1>2, <2>1, <2>2, DatabaseAssumption
       DEF DataFit, Cached, Works, Seen, Reading, Writing, Version, Table
  <2>3. CASE d # c
    <3>1. phase'[d] = phase[d] /\ view'[d] = view[d]
      BY <1>0, <1>1, <1>2, <2>3 DEF DataType
    <3>2. phase[d] \in Reading => view[d] # NoView
      <4>1. NoneDeferred(c)
        BY <1>0, <1>1 DEF Locks, SignalsFit
      <4>2. phase[d] \in Reading /\ view[d] = NoView => lock[d] = "shared"
        BY <1>0 DEF ViewsFit, ViewFit
      <4> QED BY <2>3, <4>1, <4>2 DEF NoneDeferred
    <3>3. k \notin changes[c] => disk'.table[k] = disk.table[k]
      BY <1>1, <2>1 DEF DataFit, Writing
    <3>4. ASSUME k \in changes[c], phase[d] # "closed" PROVE Explained(d, k)'
      <4>1. Numbered(c) /\ Registered(c) /\ AnyRegistered
        BY <1>1, <3>4 DEF Numbered, Registered, AnyRegistered
      <4> DEFINE L == Cardinality(groups) + 1
      <4>2. Len(changesets) = L /\ changesets[L].keys = changes[c]
        BY <1>0, <4>1 DEF ChangesetsFit, OneIf
      <4>3. L \in 1 .. Len(changesets) /\ changesets[L].snapshot = Dropped + L
        BY <1>0, <1>2, <4>2 DEF ChangesetsFit
      <4>4. changesets[L].snapshot = snapshot + 1
        BY <1>2, <4>3 DEF Dropped
      <4>5. disk'.snapshot = snapshot + 1
        BY <1>1, <1>2, <4>1 DEF OneIf
      <4>6. ~Numbered(d) /\ current[d] \in Nat /\ current[d] <= snapshot
        BY <1>0, <1>3, <1>4, <2>3 DEF NumbersFit, Numbered, DataType
      <4> HIDE DEF L
      <4>7. current'[d] < changesets[L].snapshot /\ changesets[L].snapshot <= disk'.snapshot
        BY <1>1, <1>2, <4>4, <4>5, <4>6
      <4> QED BY <1>1, <3>4, <4>2, <4>3, <4>7 DEF Explained
    <3>5. Explained(d, k) => Explained(d, k)'
      <4>1. disk'.snapshot >= disk.snapshot
        BY <1>1, <1>2, <1>4 DEF OneIf
      <4>4. changesets \in Seq(Changeset)
        BY <1>0 DEF DataType
      <4>5. \A i \in 1 .. Len(changesets) : changesets[i] \in Changeset
        BY <4>4
      <4>2. \A i \in 1 .. Len(changesets) : changesets[i].snapshot \in Nat
        BY <4>5 DEF Changeset
      <4>3. disk'.snapshot \in Nat /\ disk.snapshot \in Nat
        BY <1>1, <1>2, <1>4 DEF Version
      <4> QED BY <1>1, <4>1, <4>2, <4>3 DEF Explained
    <3>6. phase[d] = "idle" /\ Cached(d, k) =>
            objectCache[d][k] = disk'.table[k] \/ Explained(d, k)'
      BY <2>1, <3>3, <3>4, <3>5 DEF DataFit
    <3>7. phase[d] \in Reading => view[d].table[k] = disk'.table[k] \/ Explained(d, k)'
      BY <2>1, <3>2, <3>3, <3>4, <3>5 DEF DataFit, Reading
    <3>8. Works(d) => view[d] # NoView
      BY <1>3, <2>3, <3>2 DEF Works, Reading
    <3> QED BY <1>1, <1>3, <2>1, <2>3, <3>1, <3>6, <3>7, <3>8
            DEF DataFit, Cached, Works, Seen, Reading, Writing
  <2> QED BY <2>2, <2>3
<1> QED BY <1>5, <1>9, <1>10, <1>11, <1>12, <1>13 DEF Data

\* The change set of an announced commit waits for the other connections, or
\* goes at once if there are none.
LEMMA NoteCommitted_Data ==
  ASSUME IInv, NEW c \in Connections, NoteCommitted(c)
  PROVE  Data'
<1>0. /\ Locks /\ DataType /\ NumbersFit /\ ViewsFit
      /\ ChangesetsFit /\ InboxesFit /\ DataFits
  BY DEF IInv, Data
<1> DEFINE own == [snapshot |-> current[c], keys |-> changes[c]]
           Quiet == /\ changes[c] = {}
                    /\ UNCHANGED <<snapshot, inbox, groups, changesets>>
           Alone == /\ changes[c] # {} /\ Siblings(c) = {}
                    /\ snapshot' = current[c]
                    /\ changesets' = Tail(changesets)
                    /\ UNCHANGED <<groups, inbox>>
           Shared == /\ changes[c] # {} /\ Siblings(c) # {}
                     /\ snapshot' = current[c]
                     /\ groups' = groups \cup {current[c]}
                     /\ inbox' = [d \in Connections |->
                                    IF d \in Siblings(c) THEN Append(inbox[d], own)
                                    ELSE inbox[d]]
                     /\ UNCHANGED changesets
<1>1. /\ phase[c] = "committed" /\ phase' = [phase EXCEPT ![c] = "idle"]
      /\ lock' = [lock EXCEPT ![c] = "none"]
      /\ changes' = [changes EXCEPT ![c] = {}]
      /\ UNCHANGED <<disk, current, objectCache, view>>
  BY DEF NoteCommitted
<1>2. Quiet \/ Alone \/ Shared
  <2>1. inbox = [d \in Connections |-> inbox[d]]
    BY <1>0 DEF DataType
  <2>2. CASE changes[c] = {}
    BY <2>2 DEF NoteCommitted
  <2>3. CASE changes[c] # {} /\ Siblings(c) = {}
    BY <2>1, <2>3 DEF NoteCommitted
  <2>4. CASE changes[c] # {} /\ Siblings(c) # {}
    BY <2>4 DEF NoteCommitted
  <2> QED BY <2>2, <2>3, <2>4
<1> HIDE DEF Quiet, Alone, Shared
<1>3. /\ phase \in [Connections -> Phase] /\ snapshot \in Nat /\ changesets \in Seq(Changeset)
      /\ own \in Changeset
      /\ groups \subseteq 1 .. snapshot /\ Cardinality(groups) \in Nat /\ Dropped \in Nat
      /\ view[c] = NoView
  BY <1>0, <1>1, DroppedBound
     DEF Locks, LockType, DataType, Changeset, ChangesetsFit, ViewsFit, ViewFit
<1>4. \A d \in Connections : d # c => phase[d] \in {"closed", "idle", "reading", "selected"}
  BY <1>0, <1>1, OneWriter DEF Exclusive
<1>5. /\ \A d \in Connections : ~Announcing(d)' /\ ~Registered(d)' /\ ~Numbered(d)'
      /\ ~AnyAnnouncing' /\ ~AnyRegistered'
  BY <1>1, <1>3, <1>4 DEF AnyAnnouncing, AnyRegistered, Announcing, Registered, Numbered
<1>6. disk.snapshot = current[c] /\ snapshot' = current[c]
  <2>1. current[c] = snapshot + OneIf(Numbered(c))
    BY <1>0, <1>1 DEF NumbersFit, Exclusive
  <2>2. AnyAnnouncing <=> changes[c] # {}
    BY <1>1, <1>4 DEF AnyAnnouncing, Announcing
  <2>3. Numbered(c) <=> changes[c] # {}
    BY <1>1 DEF Numbered
  <2>4. disk.snapshot = current[c]
    BY <1>0, <2>1, <2>2, <2>3 DEF NumbersFit, OneIf
  <2>5. changes[c] = {} => current[c] = snapshot
    BY <1>3, <2>1, <2>3 DEF OneIf
  <2> QED BY <1>2, <2>4, <2>5 DEF Quiet, Alone, Shared
<1>7. changes[c] # {} => current[c] = snapshot + 1
  BY <1>0, <1>1 DEF NumbersFit, Exclusive, Numbered, OneIf
<1>8. changes[c] # {} =>
        /\ Len(changesets) = Cardinality(groups) + 1
        /\ changesets[Len(changesets)] = own
  <2> SUFFICES ASSUME changes[c] # {}
               PROVE  /\ Len(changesets) = Cardinality(groups) + 1
                      /\ changesets[Len(changesets)] = own
    OBVIOUS
  <2>1. Registered(c) /\ AnyRegistered
    BY <1>1 DEF Registered, AnyRegistered
  <2>2. Len(changesets) = Cardinality(groups) + 1 /\ changesets[Len(changesets)].keys = changes[c]
    BY <1>0, <2>1 DEF ChangesetsFit, OneIf
  <2>3. Len(changesets) \in 1 .. Len(changesets)
    BY <1>3, <2>2
  <2>4. changesets[Len(changesets)].snapshot = Dropped + Len(changesets)
    BY <1>0, <2>3 DEF ChangesetsFit
  <2>5. changesets[Len(changesets)].snapshot = current[c]
    BY <1>3, <1>7, <2>2, <2>4 DEF Dropped
  <2>6. changesets[Len(changesets)] \in Changeset
    BY <1>3, <2>3
  <2> QED BY <2>2, <2>5, <2>6 DEF Changeset
<1>9. DataType'
  <2>1. current[c] \in Nat
    BY <1>0 DEF DataType
  <2>2. changesets' \in Seq(Changeset) /\ groups' \subseteq Nat
    <3>1. CASE Alone
      <4>1. changesets # <<>> /\ groups \subseteq Nat
        BY <1>3, <1>8, <3>1 DEF Alone
      <4> QED BY <1>3, <3>1, <4>1 DEF Alone
    <3>2. CASE Quiet \/ Shared
      BY <1>3, <2>1, <3>2 DEF Quiet, Shared
    <3> QED BY <1>2, <3>1, <3>2
  <2>3. inbox' \in [Connections -> Seq(Changeset)]
    <3> HIDE DEF own
    <3>1. \A d \in Connections : inbox[d] \in Seq(Changeset)
      BY <1>0 DEF DataType
    <3>2. ASSUME NEW d \in Connections PROVE Append(inbox[d], own) \in Seq(Changeset)
      <4>1. inbox[d] \in Seq(Changeset) /\ own \in Changeset
        BY <1>3, <3>1
      <4> QED BY <4>1
    <3> QED BY <1>0, <1>2, <3>1, <3>2 DEF Quiet, Alone, Shared, DataType
  <2> QED BY <1>0, <1>1, <1>6, <2>1, <2>2, <2>3 DEF DataType
<1>10. NumbersFit'
  <2>1. \A d \in Connections : current[d] \in Nat /\ current[d] <= disk.snapshot
    <3>1. \A d \in Connections : d # c => ~Numbered(d)
      BY <1>4 DEF Numbered
    <3> QED BY <1>0, <1>6, <3>1 DEF NumbersFit, DataType
  <2>2. \A d \in Connections : phase'[d] \notin Exclusive
    BY <1>1, <1>3, <1>4 DEF Exclusive
  <2>3. disk'.snapshot = snapshot' + OneIf(AnyAnnouncing)'
    <3>1. OneIf(AnyAnnouncing)' = 0
      BY <1>5 DEF OneIf
    <3> QED BY <1>1, <1>6, <2>1, <3>1
  <2> QED BY <1>1, <2>1, <2>2, <2>3 DEF NumbersFit
<1>11. ViewsFit'
  BY <1>0, <1>1, <1>3 DEF ViewsFit, ViewFit, Exclusive, Writing, Reading, DataType
<1>12. ChangesetsFit'
  <2>1. OneIf(AnyRegistered)' = 0
    BY <1>5 DEF OneIf
  <2>2. CASE Quiet
    <3>1. ~AnyRegistered
      BY <1>1, <1>4, <2>2 DEF Quiet, AnyRegistered, Registered
    <3> QED BY <1>0, <1>5, <2>1, <2>2, <3>1 DEF Quiet, ChangesetsFit, Dropped, OneIf
  <2>3. CASE Alone
    <3>1. /\ Len(changesets') = Cardinality(groups)
          /\ \A i \in 1 .. Len(changesets') : changesets'[i] = changesets[i + 1]
      BY <1>3, <1>8, <2>3 DEF Alone
    <3>2. Dropped' = Dropped + 1
      BY <1>3, <1>7, <2>3 DEF Alone, Dropped
    <3>3. ASSUME NEW i \in 1 .. Len(changesets') PROVE changesets'[i].snapshot = Dropped' + i
      <4>1. i \in Nat /\ i + 1 \in 1 .. Len(changesets)
        BY <1>3, <1>8, <2>3, <3>1 DEF Alone
      <4>2. changesets[i + 1].snapshot = Dropped + (i + 1)
        BY <1>0, <4>1 DEF ChangesetsFit
      <4> QED BY <1>3, <3>1, <3>2, <4>1, <4>2
    <3>4. groups' \subseteq 1 .. snapshot'
      BY <1>3, <1>7, <2>3 DEF Alone
    <3>5. Len(changesets') = Cardinality(groups') + OneIf(AnyRegistered)'
      BY <1>3, <2>1, <2>3, <3>1 DEF Alone
    <3> QED BY <1>5, <3>3, <3>4, <3>5 DEF ChangesetsFit
  <2>4. CASE Shared
    <3>1. current[c] \notin groups /\ IsFiniteSet(groups)
      <4>1. IsFiniteSet(groups)
        BY <1>3, Counting
      <4>2. current[c] = snapshot + 1
        BY <1>7, <2>4 DEF Shared
      <4> QED BY <1>3, <4>1, <4>2
    <3>2. Cardinality(groups') = Cardinality(groups) + 1
      BY <2>4, <3>1, FS_AddElement DEF Shared
    <3>3. Dropped' = Dropped
      BY <1>3, <1>7, <2>4, <3>2 DEF Shared, Dropped
    <3>4. groups' \subseteq 1 .. snapshot'
      BY <1>3, <1>7, <2>4 DEF Shared
    <3>5. Len(changesets') = Cardinality(groups')
      BY <1>8, <2>4, <3>2 DEF Shared
    <3>6. \A i \in 1 .. Len(changesets') : changesets'[i].snapshot = Dropped' + i
      BY <1>0, <2>4, <3>3 DEF Shared, ChangesetsFit
    <3> QED BY <1>3, <1>5, <2>1, <2>4, <3>2, <3>4, <3>5, <3>6 DEF ChangesetsFit
  <2> QED BY <1>2, <2>2, <2>3, <2>4
<1>13. InboxesFit'
  <2> SUFFICES ASSUME NEW d \in Connections PROVE InboxFit(d)'
    BY DEF InboxesFit
  <2>1. InboxFit(d) /\ inbox[d] \in Seq(Changeset) /\ current[d] \in Nat
    BY <1>0 DEF InboxesFit, DataType
  <2>2. CASE Quiet
    BY <1>1, <1>3, <2>1, <2>2 DEF Quiet, InboxFit
  <2>3. \A i \in 1 .. Len(inbox[d]) :
          inbox[d][i].snapshot \in groups /\ inbox[d][i].snapshot \in 1 .. snapshot
    BY <1>3, <2>1 DEF InboxFit
  <2>4. CASE ~Quiet /\ d = c
    <3>1. /\ inbox'[c] = inbox[c] /\ groups \subseteq groups' /\ current' = current
          /\ snapshot' = current[c] /\ current[c] = snapshot + 1 /\ phase'[c] # "closed"
      BY <1>0, <1>1, <1>2, <1>3, <1>7, <2>4 DEF Alone, Shared, Siblings
    <3> QED BY <1>3, <2>1, <2>3, <2>4, <3>1 DEF InboxFit
  <2>5. CASE ~Quiet /\ d # c /\ phase[d] = "closed"
    <3>1. inbox'[d] = <<>> /\ phase'[d] = "closed"
      BY <1>0, <1>1, <1>2, <1>3, <2>1, <2>5 DEF Alone, Shared, Siblings, InboxFit
    <3> QED BY <3>1 DEF InboxFit
  <2>6. CASE ~Quiet /\ d # c /\ phase[d] # "closed"
    <3>1. Shared /\ d \in Siblings(c)
      BY <1>2, <2>6 DEF Alone, Siblings
    <3> DEFINE L == Len(inbox[d])
    <3>2. /\ inbox'[d] = Append(inbox[d], own) /\ current' = current
          /\ snapshot' = snapshot + 1 /\ groups' = groups \cup {snapshot + 1}
          /\ changesets' = changesets /\ current[c] = snapshot + 1
          /\ phase'[d] = phase[d]
      BY <1>1, <1>3, <1>7, <2>6, <3>1 DEF Shared
    <3>3. /\ Len(inbox'[d]) = L + 1 /\ L \in Nat
          /\ \A i \in 1 .. L : inbox'[d][i] = inbox[d][i]
          /\ inbox'[d][L + 1] = own /\ own.snapshot = snapshot + 1
      BY <1>3, <2>1, <3>2
    <3> HIDE DEF L, own
    <3>4. ASSUME NEW i \in 1 .. L + 1
          PROVE  \/ i \in 1 .. L /\ inbox'[d][i] = inbox[d][i]
                 \/ i = L + 1 /\ inbox'[d][i] = own
      BY <3>3
    <3>5. \A i, j \in 1 .. L + 1 : i < j => inbox'[d][i].snapshot < inbox'[d][j].snapshot
      <4> SUFFICES ASSUME NEW i \in 1 .. L + 1, NEW j \in 1 .. L + 1, i < j
                   PROVE  inbox'[d][i].snapshot < inbox'[d][j].snapshot
        OBVIOUS
      <4>1. i \in 1 .. L /\ inbox'[d][i] = inbox[d][i]
        BY <3>3
      <4>2. CASE j \in 1 .. L
        BY <2>1, <3>3, <4>1, <4>2 DEF InboxFit, L
      <4>3. CASE j = L + 1
        <5>1. inbox[d][i].snapshot \in 1 .. snapshot
          BY <2>3, <4>1 DEF L
        <5> QED BY <1>3, <3>3, <4>1, <4>3, <5>1
      <4> QED BY <3>3, <4>2, <4>3
    <3>6. \A i \in 1 .. L + 1 : inbox'[d][i].snapshot \in groups'
      BY <2>3, <3>2, <3>3, <3>4 DEF L
    <3>7. \A n \in 1 .. snapshot + 1 : current[d] < n =>
            \E i \in 1 .. L + 1 : inbox'[d][i].snapshot = n
      <4> SUFFICES ASSUME NEW n \in 1 .. snapshot + 1, current[d] < n
                   PROVE  \E i \in 1 .. L + 1 : inbox'[d][i].snapshot = n
        OBVIOUS
      <4>1. CASE n = snapshot + 1
        BY <3>3, <4>1
      <4>2. CASE n \in 1 .. snapshot
        <5>1. PICK i \in 1 .. L : inbox[d][i].snapshot = n
          BY <2>1, <2>6, <4>2 DEF InboxFit, L
        <5> QED BY <3>3, <5>1
      <4> QED BY <1>3, <4>1, <4>2
    <3>8. \A i \in 1 .. L + 1 : inbox'[d][i].snapshot > current[d] =>
            \E j \in 1 .. Len(changesets) : changesets[j] = inbox'[d][i]
      <4> SUFFICES ASSUME NEW i \in 1 .. L + 1, inbox'[d][i].snapshot > current[d]
                   PROVE  \E j \in 1 .. Len(changesets) : changesets[j] = inbox'[d][i]
        OBVIOUS
      <4>1. CASE i \in 1 .. L
        BY <2>1, <3>3, <4>1 DEF InboxFit, L
      <4>2. CASE i = L + 1
        <5>1. changesets[Len(changesets)] = own /\ Len(changesets) = Cardinality(groups) + 1
          BY <1>8, <3>1 DEF Shared, own
        <5>2. Len(changesets) \in 1 .. Len(changesets)
          BY <1>3, <5>1
        <5> QED BY <3>3, <4>2, <5>1, <5>2
      <4> QED BY <3>3, <4>1, <4>2
    <3> QED BY <2>6, <3>2, <3>3, <3>5, <3>6, <3>7, <3>8 DEF InboxFit
  <2> QED BY <2>2, <2>4, <2>5, <2>6
<1>14. DataFits'
  <2> SUFFICES ASSUME NEW d \in Connections, NEW k \in Keys PROVE DataFit(d, k)'
    BY DEF DataFits
  <2>1. DataFit(d, k)
    BY <1>0 DEF DataFits
  <2>2. CASE d = c
    BY <1>1, <1>3, <2>1, <2>2 DEF DataFit, Cached, Works, Reading, Writing
  <2>3. CASE d # c /\ Alone
    <3>1. phase[d] = "closed" /\ phase'[d] = "closed"
      BY <1>1, <1>3, <2>3 DEF Alone, Siblings
    <3> QED BY <1>1, <2>1, <3>1 DEF DataFit, Cached, Works, Reading, Writing
  <2>4. CASE d # c /\ ~Alone
    <3>1. phase'[d] = phase[d] /\ changes'[d] = changes[d] /\ UNCHANGED changesets
      BY <1>0, <1>1, <1>2, <1>3, <2>4 DEF Quiet, Shared, DataType
    <3> QED BY <1>1, <2>1, <3>1, ExplainedStill, DataUntouched
  <2> QED BY <2>2, <2>3, <2>4
<1> QED BY <1>9, <1>10, <1>11, <1>12, <1>13, <1>14 DEF Data

-----------------------------------------------------------------------------
\* A connection hears of commits in their order, each one or later ones.
LEMMA noteCommittedChanges_Data ==
  ASSUME IInv, NEW c \in Connections, noteCommittedChanges(c)
  PROVE  Data'
<1>0. /\ Locks /\ DataType /\ NumbersFit /\ ViewsFit
      /\ ChangesetsFit /\ InboxesFit /\ DataFits
  BY DEF IInv, Data
<1> DEFINE head == Head(inbox[c])
           L == Len(inbox[c])
           Late == head.snapshot <= current[c]
<1>1. /\ phase[c] = "idle" /\ inbox[c] # <<>>
      /\ UNCHANGED <<disk, snapshot, changesets, groups, phase, lock, view, changes>>
      /\ inbox' = [inbox EXCEPT ![c] = Tail(@)]
      /\ \/ Late /\ UNCHANGED <<current, objectCache>>
         \/ /\ ~Late
            /\ current' = [current EXCEPT ![c] = head.snapshot]
            /\ objectCache' = [objectCache EXCEPT ![c] = Forget(@, head.keys)]
  BY DEF noteCommittedChanges, database, state
<1>2. InboxFit(c) /\ inbox[c] \in Seq(Changeset) /\ current[c] \in Nat
  BY <1>0 DEF InboxesFit, DataType
<1>3. /\ L \in Nat /\ L > 0 /\ head = inbox[c][1] /\ head \in Changeset
      /\ inbox'[c] = Tail(inbox[c]) /\ Len(inbox'[c]) = L - 1
      /\ \A i \in 1 .. L - 1 : inbox'[c][i] = inbox[c][i + 1]
  <2>1. inbox'[c] = Tail(inbox[c])
    BY <1>0, <1>1 DEF DataType
  <2>2. head = inbox[c][1] /\ head \in Changeset /\ L \in Nat /\ L > 0
    BY <1>1, <1>2
  <2>3. Len(Tail(inbox[c])) = L - 1 /\ \A i \in 1 .. L - 1 : Tail(inbox[c])[i] = inbox[c][i + 1]
    BY <1>1, <1>2
  <2> HIDE DEF L, head
  <2> QED BY <2>1, <2>2, <2>3
<1> HIDE DEF L, head
<1>4. head.snapshot \in Nat /\ head.keys \in SUBSET Keys
  BY <1>3 DEF Changeset
<1>5. snapshot \in Nat /\ head.snapshot \in 1 .. snapshot
  <2>1. head.snapshot \in groups
    BY <1>2, <1>3 DEF InboxFit, L
  <2> QED BY <1>0, <2>1 DEF ChangesetsFit, DataType
\* Its own number does not go back.
<1>6. current'[c] >= current[c] /\ current'[c] >= head.snapshot /\ current'[c] \in Nat
      /\ (~Late => current'[c] = head.snapshot)
  BY <1>0, <1>1, <1>2, <1>4 DEF DataType
<1>7. DataType'
  <2>1. inbox' \in [Connections -> Seq(Changeset)]
    <3>1. Tail(inbox[c]) \in Seq(Changeset)
      BY <1>1, <1>2
    <3> QED BY <1>0, <1>1, <3>1 DEF DataType
  <2>2. Forget(objectCache[c], head.keys) \in Table
    <3>1. objectCache[c] \in [Keys -> Values \cup {NoValue}]
      BY <1>0 DEF DataType, Table
    <3> QED BY <3>1 DEF Forget, Table
  <2> QED BY <1>0, <1>1, <1>4, <2>1, <2>2 DEF DataType
<1>8. \A d \in Connections :
        /\ Announcing(d)' <=> Announcing(d)
        /\ Registered(d)' <=> Registered(d)
        /\ Numbered(d)' <=> Numbered(d)
  BY <1>1 DEF Announcing, Registered, Numbered
<1>9. (AnyAnnouncing' <=> AnyAnnouncing) /\ (AnyRegistered' <=> AnyRegistered)
  BY <1>8 DEF AnyAnnouncing, AnyRegistered
<1>10. \A d \in Connections : d # c =>
         current'[d] = current[d] /\ objectCache'[d] = objectCache[d] /\ inbox'[d] = inbox[d]
  BY <1>0, <1>1 DEF DataType
<1>11. NumbersFit'
  <2>1. disk'.snapshot = snapshot' + OneIf(AnyAnnouncing)'
    BY <1>0, <1>1, <1>9 DEF NumbersFit, OneIf
  <2>2. snapshot <= disk.snapshot /\ disk.snapshot \in Nat
    BY <1>0, <1>5 DEF NumbersFit, OneIf, DataType, Version
  <2>3. ~Numbered(c) => current[c] <= disk.snapshot
    BY <1>0 DEF NumbersFit
  <2>4. ~Numbered(c) => current'[c] <= disk.snapshot
    <3>1. CASE Late
      BY <1>1, <2>3, <3>1
    <3>2. CASE ~Late
      BY <1>5, <1>6, <2>2, <3>2
    <3> QED BY <3>1, <3>2
  <2>5. ASSUME NEW d \in Connections
        PROVE  /\ ~Numbered(d)' => current'[d] <= disk'.snapshot
               /\ phase'[d] \in Exclusive => current'[d] = snapshot' + OneIf(Numbered(d))'
    <3>1. CASE d = c
      BY <1>1, <1>8, <2>4, <3>1 DEF Exclusive
    <3>2. CASE d # c
      BY <1>0, <1>1, <1>8, <1>10, <3>2 DEF NumbersFit, OneIf
    <3> QED BY <3>1, <3>2
  <2> QED BY <2>1, <2>5 DEF NumbersFit
<1>12. ViewsFit'
  BY <1>0, <1>1, <1>10 DEF ViewsFit, ViewFit, Writing
<1>13. ChangesetsFit'
  BY <1>0, <1>1, <1>8, <1>9 DEF ChangesetsFit, Dropped, OneIf
<1>14. InboxesFit'
  <2> SUFFICES ASSUME NEW d \in Connections PROVE InboxFit(d)'
    BY DEF InboxesFit
  <2>1. InboxFit(d)
    BY <1>0 DEF InboxesFit
  <2>2. CASE d # c
    BY <1>1, <1>10, <2>1, <2>2, InboxUntouched
  <2>3. CASE d = c
    <3>1. \A i \in 1 .. L - 1 : i + 1 \in 1 .. L
      BY <1>3
    <3>2. \A i, j \in 1 .. L - 1 : i < j => inbox'[c][i].snapshot < inbox'[c][j].snapshot
      BY <1>2, <1>3, <3>1 DEF InboxFit, L
    <3>3. \A i \in 1 .. L - 1 : inbox'[c][i].snapshot \in groups
      BY <1>2, <1>3, <3>1 DEF InboxFit, L
    <3>4. ASSUME NEW n \in 1 .. snapshot, current'[c] < n
          PROVE  \E i \in 1 .. L - 1 : inbox'[c][i].snapshot = n
      <4>1. current[c] < n /\ head.snapshot # n
        BY <1>2, <1>4, <1>5, <1>6, <3>4
      <4>2. PICK i \in 1 .. L : inbox[c][i].snapshot = n
        BY <1>1, <1>2, <4>1 DEF InboxFit, L
      <4>3. i # 1
        BY <1>3, <4>1, <4>2
      <4>4. i - 1 \in 1 .. L - 1 /\ (i - 1) + 1 = i
        BY <1>3, <4>3
      <4>5. inbox'[c][i - 1].snapshot = n
        BY <1>3, <4>2, <4>4
      <4> QED BY <4>4, <4>5
    <3>5. ASSUME NEW i \in 1 .. L - 1, inbox'[c][i].snapshot > current'[c]
          PROVE  \E j \in 1 .. Len(changesets) : changesets[j] = inbox'[c][i]
      <4>1. inbox[c][i + 1] = inbox'[c][i] /\ i + 1 \in 1 .. L
        BY <1>3, <3>1
      <4>4. inbox'[c][i].snapshot \in 1 .. snapshot
        BY <1>0, <3>3 DEF ChangesetsFit
      <4>2. inbox'[c][i].snapshot \in Nat
        BY <1>5, <4>4
      <4>3. inbox[c][i + 1].snapshot > current[c]
        BY <1>2, <1>6, <3>5, <4>1, <4>2
      <4> QED BY <1>2, <4>1, <4>3 DEF InboxFit, L
    <3>6. /\ groups' = groups /\ snapshot' = snapshot /\ changesets' = changesets
          /\ phase'[c] = "idle" /\ Len(inbox'[c]) = L - 1
      BY <1>1, <1>3
    <3> QED BY <2>3, <3>2, <3>3, <3>4, <3>5, <3>6 DEF InboxFit
  <2> QED BY <2>2, <2>3
<1>15. DataFits'
  <2> SUFFICES ASSUME NEW d \in Connections, NEW k \in Keys PROVE DataFit(d, k)'
    BY DEF DataFits
  <2>1. DataFit(d, k)
    BY <1>0 DEF DataFits
  <2>2. CASE d # c
    <3>1. Explained(d, k) => Explained(d, k)'
      BY <1>1, <1>10, <2>2, ExplainedStill
    <3> QED BY <1>1, <1>10, <2>1, <2>2, <3>1, DataUntouched
  <2>3. CASE d = c /\ Late
    <3>1. Explained(c, k) => Explained(c, k)'
      BY <1>1, <2>3, ExplainedStill
    <3>2. UNCHANGED objectCache
      BY <1>1, <2>3
    <3> QED BY <1>1, <2>1, <2>3, <3>1, <3>2, DataUntouched
  <2>4. CASE d = c /\ ~Late
    <3>1. objectCache'[c][k] = IF k \in head.keys THEN NoValue ELSE objectCache[c][k]
      BY <1>0, <1>1, <2>4 DEF DataType, Forget
    \* What is still explained by an earlier change set is not cached any more.
    <3>2. ASSUME Explained(c, k), k \notin head.keys PROVE Explained(c, k)'
      <4>1. PICK i \in 1 .. Len(changesets) :
              /\ current[c] < changesets[i].snapshot
              /\ changesets[i].snapshot <= disk.snapshot
              /\ k \in changesets[i].keys
        BY <3>2 DEF Explained
      <4> DEFINE n == changesets[i].snapshot
      <4>2. n = Dropped + i /\ n \in Nat /\ Dropped \in Nat
        BY <1>0, <4>1, DroppedBound DEF ChangesetsFit
      <4>3. n # head.snapshot
        <5>1. PICK j \in 1 .. Len(changesets) : changesets[j] = head
          BY <1>2, <1>3, <1>4, <2>4 DEF InboxFit, L
        <5>2. head.snapshot = Dropped + j
          BY <1>0, <5>1 DEF ChangesetsFit
        <5> QED BY <3>2, <4>1, <4>2, <5>1, <5>2
      <4>4. ~ n < head.snapshot
        <5> SUFFICES ASSUME n < head.snapshot PROVE FALSE
          OBVIOUS
        <5>1. n \in 1 .. snapshot
          BY <1>2, <1>4, <1>5, <4>1, <4>2
        <5>2. PICK j \in 1 .. L : inbox[c][j].snapshot = n
          BY <1>1, <1>2, <4>1, <5>1 DEF InboxFit, L
        <5>3. j = 1 \/ head.snapshot < inbox[c][j].snapshot
          BY <1>2, <1>3, <5>2 DEF InboxFit, L
        <5> QED BY <1>3, <1>4, <4>2, <5>2, <5>3
      <4>5. current'[c] < n
        BY <1>4, <1>6, <2>4, <4>2, <4>3, <4>4
      <4> QED BY <1>1, <4>1, <4>5 DEF Explained
    <3>3. phase'[c] = "idle"
      BY <1>1
    <3>4. objectCache'[c][k] # NoValue =>
            objectCache'[c][k] = disk.table[k] \/ Explained(c, k)'
      BY <1>1, <2>1, <2>4, <3>1, <3>2 DEF DataFit, Cached
    <3> QED BY <1>1, <2>4, <3>3, <3>4 DEF DataFit, Cached, Works, Reading, Writing
  <2> QED BY <2>2, <2>3, <2>4
<1> QED BY <1>7, <1>11, <1>12, <1>13, <1>14, <1>15 DEF Data

\* Whichever group is through: the change set that goes is one that every
\* connection has had.
LEMMA DropChangeset_Data ==
  ASSUME IInv, NEW n \in Nat, DropChangeset(n)
  PROVE  Data'
<1>0. /\ Locks /\ DataType /\ NumbersFit /\ ViewsFit
      /\ ChangesetsFit /\ InboxesFit /\ DataFits
  BY DEF IInv, Data
<1>1. /\ n \in groups /\ groups' = groups \ {n}
      /\ \A d \in Connections : n \notin Queued(d)
      /\ changesets' = Tail(changesets)
      /\ UNCHANGED <<disk, snapshot, phase, lock, current, objectCache, view, changes, inbox>>
  BY DEF DropChangeset, connection, state
<1>2. /\ snapshot \in Nat /\ groups \in SUBSET (1 .. snapshot) /\ IsFiniteSet(groups)
      /\ Cardinality(groups) \in Nat /\ Dropped \in Nat /\ changesets \in Seq(Changeset)
  BY <1>0, DroppedBound, Counting DEF DataType, ChangesetsFit
<1>3. Cardinality(groups') = Cardinality(groups) - 1
  BY <1>1, <1>2, FS_RemoveElement
<1>31. Cardinality(groups') \in Nat /\ groups' \in SUBSET (1 .. snapshot)
  BY <1>1, <1>2, Counting
<1>4. Dropped' = Dropped + 1
  BY <1>1, <1>2, <1>3 DEF Dropped
<1>5. Len(changesets) = Cardinality(groups) + OneIf(AnyRegistered)
  BY <1>0 DEF ChangesetsFit
<1>6. /\ changesets # <<>> /\ changesets' \in Seq(Changeset)
      /\ Len(changesets') = Len(changesets) - 1
      /\ \A i \in 1 .. Len(changesets') : changesets'[i] = changesets[i + 1]
  <2>1. OneIf(AnyRegistered) \in Nat
    BY DEF OneIf
  <2>2. changesets # <<>>
    BY <1>2, <1>3, <1>31, <1>5, <2>1
  <2> QED BY <1>1, <1>2, <2>2
<1>7. \A d \in Connections : \A i \in 1 .. Len(inbox[d]) : inbox[d][i].snapshot # n
  <2>1. \A d \in Connections : DOMAIN inbox[d] = 1 .. Len(inbox[d])
    BY <1>0 DEF DataType
  <2> QED BY <1>1, <2>1 DEF Queued
<1>8. \A d \in Connections : phase[d] # "closed" => Dropped + 1 <= current[d]
  <2> SUFFICES ASSUME NEW d \in Connections, phase[d] # "closed"
               PROVE  Dropped + 1 <= current[d]
    OBVIOUS
  <2>1. \A i \in 1 .. snapshot : current[d] < i => i \in groups'
    BY <1>0, <1>1, <1>7 DEF InboxesFit, InboxFit
  <2>2. current[d] \in Nat
    BY <1>0 DEF DataType
  <2>3. snapshot - Cardinality(groups') <= current[d]
    BY <1>2, <1>31, <2>1, <2>2, Counting
  <2> QED BY <1>1, <1>4, <2>3 DEF Dropped
<1>9. DataType'
  BY <1>0, <1>1, <1>6 DEF DataType
<1>10. \A d \in Connections :
         /\ Announcing(d)' <=> Announcing(d)
         /\ Registered(d)' <=> Registered(d)
         /\ Numbered(d)' <=> Numbered(d)
  BY <1>1 DEF Announcing, Registered, Numbered
<1>11. (AnyAnnouncing' <=> AnyAnnouncing) /\ (AnyRegistered' <=> AnyRegistered)
  BY <1>10 DEF AnyAnnouncing, AnyRegistered
<1>12. NumbersFit'
  BY <1>0, <1>1, <1>10, <1>11 DEF NumbersFit, OneIf
<1>13. ViewsFit'
  BY <1>0, <1>1 DEF ViewsFit, ViewFit
<1>14. ChangesetsFit'
  <2>1. Len(changesets') = Cardinality(groups') + OneIf(AnyRegistered)'
    <3>1. OneIf(AnyRegistered)' = OneIf(AnyRegistered) /\ OneIf(AnyRegistered) \in Nat
      BY <1>11 DEF OneIf
    <3> QED BY <1>2, <1>3, <1>5, <1>6, <3>1
  <2>2. ASSUME NEW i \in 1 .. Len(changesets') PROVE changesets'[i].snapshot = Dropped' + i
    <3>1. i \in Nat /\ i + 1 \in 1 .. Len(changesets)
      BY <1>2, <1>6
    <3>2. changesets[i + 1].snapshot = Dropped + (i + 1)
      BY <1>0, <3>1 DEF ChangesetsFit
    <3> QED BY <1>2, <1>4, <1>6, <3>1, <3>2
  <2>3. ASSUME NEW d \in Connections, Registered(d)'
        PROVE  changesets'[Len(changesets')].keys = changes'[d]
    <3>1. Registered(d) /\ AnyRegistered
      BY <1>10, <2>3 DEF AnyRegistered
    <3>2. Len(changesets) = Cardinality(groups) + 1
      BY <1>5, <3>1 DEF OneIf
    <3>3. Len(changesets') \in 1 .. Len(changesets') /\ Len(changesets') + 1 = Len(changesets)
      BY <1>1, <1>2, <1>3, <1>31, <1>6, <3>2
    <3>4. changesets'[Len(changesets')] = changesets[Len(changesets)]
      BY <1>6, <3>3
    <3> QED BY <1>0, <1>1, <3>1, <3>4 DEF ChangesetsFit
  <2>4. groups' \subseteq 1 .. snapshot'
    BY <1>1, <1>2
  <2> QED BY <2>1, <2>2, <2>3, <2>4 DEF ChangesetsFit
\* An entry that some connection may still need is not the first.
<1>15. ASSUME NEW d \in Connections, phase[d] # "closed",
              NEW j \in 1 .. Len(changesets), current[d] < changesets[j].snapshot
       PROVE  j - 1 \in 1 .. Len(changesets') /\ changesets'[j - 1] = changesets[j]
  <2>1. changesets[j].snapshot = Dropped + j /\ current[d] \in Nat
    BY <1>0 DEF ChangesetsFit, DataType
  <2>2. Dropped + 1 <= current[d]
    BY <1>8, <1>15
  <2>3. j # 1
    BY <1>2, <1>15, <2>1, <2>2
  <2>4. j - 1 \in 1 .. Len(changesets') /\ (j - 1) + 1 = j
    BY <1>2, <1>6, <2>3
  <2> QED BY <1>6, <2>4
<1>16. InboxesFit'
  <2> SUFFICES ASSUME NEW d \in Connections PROVE InboxFit(d)'
    BY DEF InboxesFit
  <2>1. InboxFit(d)
    BY <1>0 DEF InboxesFit
  <2>2. CASE phase[d] = "closed"
    BY <1>1, <2>1, <2>2 DEF InboxFit
  <2>3. CASE phase[d] # "closed"
    <3>1. \A i \in 1 .. Len(inbox[d]) : inbox[d][i].snapshot \in groups'
      BY <1>1, <1>7, <2>1 DEF InboxFit
    <3>2. ASSUME NEW i \in 1 .. Len(inbox[d]), inbox[d][i].snapshot > current[d]
          PROVE  \E j \in 1 .. Len(changesets') : changesets'[j] = inbox[d][i]
      <4>1. PICK j \in 1 .. Len(changesets) : changesets[j] = inbox[d][i]
        BY <2>1, <3>2 DEF InboxFit
      <4>2. current[d] < changesets[j].snapshot
        BY <3>2, <4>1
      <4> QED BY <1>15, <2>3, <4>1, <4>2
    <3> QED BY <1>1, <2>1, <2>3, <3>1, <3>2 DEF InboxFit
  <2> QED BY <2>2, <2>3
<1>17. DataFits'
  <2> SUFFICES ASSUME NEW d \in Connections, NEW k \in Keys PROVE DataFit(d, k)'
    BY DEF DataFits
  <2>1. DataFit(d, k)
    BY <1>0 DEF DataFits
  <2>2. CASE phase[d] = "closed"
    BY <1>1, <2>1, <2>2 DEF DataFit, Cached, Works, Reading, Writing
  <2>3. CASE phase[d] # "closed"
    <3>1. ASSUME Explained(d, k) PROVE Explained(d, k)'
      <4>1. PICK j \in 1 .. Len(changesets) :
              /\ current[d] < changesets[j].snapshot
              /\ changesets[j].snapshot <= disk.snapshot
              /\ k \in changesets[j].keys
        BY <3>1 DEF Explained
      <4>2. j - 1 \in 1 .. Len(changesets') /\ changesets'[j - 1] = changesets[j]
        BY <1>15, <2>3, <4>1
      <4> QED BY <1>1, <4>1, <4>2 DEF Explained
    <3> QED BY <1>1, <2>1, <3>1, DataUntouched
  <2> QED BY <2>2, <2>3
<1> QED BY <1>9, <1>12, <1>13, <1>14, <1>16, <1>17 DEF Data

-----------------------------------------------------------------------------
LEMMA Next_IInv == IInv /\ [Next]_vars => IInv'
<1> SUFFICES ASSUME IInv, [Next]_vars PROVE Data'
  BY Next_Locks DEF IInv
<1>1. ASSUME NEW c \in Connections, ReadStep(c) PROVE Data'
  BY <1>1, Begin_Data, Select_Data, MovesOn_Data, EndRead_Data DEF ReadStep
<1>2. ASSUME NEW c \in Connections, WriteStep(c) PROVE Data'
  <2>1. ASSUME NEW k \in Keys, SetObject(c, k) \/ RemoveObject(c, k) PROVE Data'
    BY <2>1, Write_Data DEF SetObject, RemoveObject
  <2>2. CASE RemoveAllObjects(c)
    BY <2>2, Write_Data DEF RemoveAllObjects
  <2> QED BY <1>2, <2>1, <2>2, Begin_Data, IncrementSnapshot_Data, CheckReaders_Data,
             MovesOn_Data, Commit_Data, NoteCommitted_Data, Emptied_Data DEF WriteStep
<1>3. ASSUME NEW c \in Connections,
             Open(c) \/ Close(c) \/ flushMemory(c) \/ noteCommittedChanges(c)
      PROVE  Data'
  BY <1>3, Open_Data, Emptied_Data, noteCommittedChanges_Data
<1>4. ASSUME NEW n \in 1 .. MaxSnapshot, DropChangeset(n) PROVE Data'
  BY <1>4, DropChangeset_Data
<1>5. CASE UNCHANGED vars
  <2>1. UNCHANGED <<disk, snapshot, changesets, groups, phase, lock, current, objectCache,
                    view, changes, inbox>>
    BY <1>5 DEF vars, database, state, connection
  <2>2. DataType' /\ ViewsFit' /\ InboxesFit'
    BY <2>1 DEF IInv, Data, DataType, ViewsFit, ViewFit, InboxesFit, InboxFit
  <2>3. NumbersFit' /\ ChangesetsFit'
    BY <2>1 DEF IInv, Data, NumbersFit, ChangesetsFit, Dropped, OneIf, AnyRegistered,
                AnyAnnouncing, Registered, Announcing, Numbered
  <2>4. DataFits'
    BY <2>1 DEF IInv, Data, DataFits, DataFit, Explained, Cached, Works, Seen
  <2> QED BY <2>2, <2>3, <2>4 DEF Data
<1> QED BY <1>1, <1>2, <1>3, <1>4, <1>5 DEF Next

LEMMA Invariance == Spec => []IInv
<1>1. Init => IInv
  BY Init_Locks, Init_Data DEF IInv
<1> QED BY <1>1, Next_IInv, PTL DEF Spec

\* Every variable keeps the type of what it stands for.
THEOREM TypeCorrect == Spec => []TypeOK
<1>1. IInv => TypeOK
  BY DEF IInv, Locks, LockType, Data, DataType, TypeOK
<1> QED BY <1>1, Invariance, PTL

\* No change set is dropped before each connection that is behind it has had
\* it: what preReadTransaction: and preReadWriteTransaction: assert.
THEOREM CatchesUp == Spec => []CanCatchUp
<1>1. IInv => CanCatchUp
  <2> SUFFICES ASSUME IInv, NEW c \in Connections, NEW n \in 1 .. disk.snapshot,
                      phase[c] = "idle", current[c] < n
               PROVE  \E i \in DOMAIN changesets : changesets[i].snapshot = n
    BY DEF CanCatchUp
  <2>1. DataType /\ NumbersFit /\ ChangesetsFit /\ InboxesFit
    BY DEF IInv, Data
  <2>2. /\ Dropped \in Nat /\ Dropped <= current[c] /\ Cardinality(groups) \in Nat
        /\ current[c] \in Nat /\ snapshot \in Nat
    BY <2>1, DroppedBound DEF DataType
  <2>3. OneIf(AnyAnnouncing) <= OneIf(AnyRegistered) /\ OneIf(AnyAnnouncing) \in Nat
        /\ OneIf(AnyRegistered) \in Nat
    <3>1. AnyAnnouncing => AnyRegistered
      BY DEF AnyAnnouncing, AnyRegistered, Announcing, Registered
    <3> QED BY <3>1 DEF OneIf
  <2>4. disk.snapshot = snapshot + OneIf(AnyAnnouncing)
    BY <2>1 DEF NumbersFit
  <2>5. Len(changesets) = Cardinality(groups) + OneIf(AnyRegistered)
    BY <2>1 DEF ChangesetsFit
  <2>6. n - Dropped \in 1 .. Len(changesets)
    BY <2>2, <2>3, <2>4, <2>5 DEF Dropped
  <2>7. changesets[n - Dropped].snapshot = Dropped + (n - Dropped)
    BY <2>1, <2>6 DEF ChangesetsFit
  <2>8. DOMAIN changesets = 1 .. Len(changesets)
    BY <2>1 DEF DataType
  <2> QED BY <2>2, <2>6, <2>7, <2>8
<1> QED BY <1>1, Invariance, PTL

-----------------------------------------------------------------------------
(***************************************************************************)
(* The refinement.  A transaction works on what SQLite shows it, wherever  *)
(* its objects come from; Commit, EndRead and Rollback end it.             *)
(***************************************************************************)
WorkingFit ==
  \A c \in Connections :
    /\ Works(c) => Working(c) = Seen(c).table /\ Working(c) \in Table /\ Working(c) # NoView
    /\ ~Works(c) => Working(c) = NoView

tables == [c \in Connections |-> Working(c)]

LEMMA WorkingIsSeen == IInv => WorkingFit
<1> SUFFICES ASSUME IInv, NEW c \in Connections, Works(c)
             PROVE  Working(c) = Seen(c).table /\ Working(c) \in Table /\ Working(c) # NoView
  BY DEF WorkingFit, Working
<1>1. Seen(c).table \in [Keys -> Values \cup {NoValue}]
  BY DEF IInv, Data, DataType, Seen, Version, Table
<1>2. \A k \in Keys : objectCache[c][k] # NoValue => objectCache[c][k] = Seen(c).table[k]
  BY DEF IInv, Data, DataFits, DataFit, Cached
<1>3. Working(c) = [k \in Keys |-> Seen(c).table[k]]
  BY <1>2 DEF Working
<1>4. Working(c) = Seen(c).table
  BY <1>1, <1>3
<1> QED BY <1>1, <1>4, DatabaseAssumption DEF Table

WriterFit ==
  /\ \A c \in Connections : Writer = c <=> phase[c] \in Writing
  /\ Writer = NoConnection <=> \A c \in Connections : phase[c] \notin Writing

LEMMA WriterIsWriting == IInv => WriterFit
<1> SUFFICES ASSUME IInv PROVE WriterFit
  OBVIOUS
<1>1. \A c \in Connections : phase[c] \in Exclusive \cup {"rollingBack"} <=> writeQueue = c
  BY DEF IInv, Locks, FlagsFit
<1>2. writeQueue \in Connections \cup {NoConnection} /\ NoConnection \notin Connections
  BY DatabaseAssumption DEF IInv, Locks, LockType
<1>3. \A c \in Connections : writeQueue = c => (Works(c) <=> phase[c] \in Writing)
  BY <1>1 DEF Works, Writing, Exclusive
<1>4. \A c \in Connections : phase[c] \in Writing => writeQueue = c
  BY <1>1 DEF Writing, Exclusive
<1> QED BY <1>2, <1>3, <1>4 DEF Writer, WriterFit

Mapped == IInv /\ WorkingFit /\ WriterFit

LEMMA SameWorking ==
  ASSUME Mapped, Mapped', NEW c \in Connections, phase'[c] = phase[c],
         view'[c] = view[c], disk' = disk
  PROVE  Working(c)' = Working(c)
BY DEF Mapped, WorkingFit, Works, Seen

\* The others go on while one begins, changes what it works on, or ends.
LEMMA OneMoves ==
  ASSUME NEW c \in Connections, \A d \in Connections : d # c => Working(d)' = Working(d)
  PROVE  tables' = [tables EXCEPT ![c] = Working(c)']
BY DEF tables

\* Who writes and what they see stays the same.
LEMMA Stutters ==
  ASSUME Mapped, Mapped', disk' = disk,
         \A c \in Connections :
           /\ Works(c)' <=> Works(c)
           /\ phase'[c] \in Writing <=> phase[c] \in Writing
           /\ Works(c) => Seen(c)'.table = Seen(c).table
  PROVE  UNCHANGED Store!vars
<1>1. \A c \in Connections : Working(c)' = Working(c)
  BY DEF Mapped, WorkingFit
<1>2. tables' = tables
  BY <1>1 DEF tables
<1>3. Writer' = Writer
  <2>1. CASE \E c \in Connections : phase[c] \in Writing
    BY <2>1 DEF Mapped, WriterFit
  <2>2. CASE \A c \in Connections : phase[c] \notin Writing
    BY <2>2 DEF Mapped, WriterFit
  <2> QED BY <2>1, <2>2
<1> QED BY <1>2, <1>3 DEF Store!vars, tables

LEMMA BeginRefines ==
  ASSUME Mapped, Mapped', NEW c \in Connections, BeginRead(c) \/ BeginWrite(c)
  PROVE  Store!BeginRead(c) \/ Store!BeginWrite(c)
<1>1. /\ phase[c] = "idle" /\ disk' = disk
      /\ view' = view \/ view' = [view EXCEPT ![c] = disk]
      /\ \/ phase' = [phase EXCEPT ![c] = "reading"] /\ BeginRead(c)
         \/ /\ phase' = [phase EXCEPT ![c] = "writing"] /\ BeginWrite(c)
            /\ writeQueue = NoConnection
  BY DEF BeginRead, BeginWrite, Free, database
<1>2. /\ phase \in [Connections -> Phase] /\ view \in [Connections -> Version \cup {NoView}]
      /\ view[c] = NoView
  BY <1>1 DEF Mapped, IInv, Locks, LockType, Data, DataType, ViewsFit, ViewFit
<1>3. Working(c) = NoView
  BY <1>1 DEF Mapped, WorkingFit, Works
<1>4. Working(c)' = disk.table
  <2>1. Works(c)'
    BY <1>1, <1>2 DEF Works
  <2>2. Seen(c)' = disk
    BY <1>1, <1>2 DEF Seen
  <2> QED BY <2>1, <2>2 DEF Mapped, WorkingFit
<1>5. \A d \in Connections : d # c => Working(d)' = Working(d)
  BY <1>1, <1>2, SameWorking
<1>6. tables' = [tables EXCEPT ![c] = disk.table] /\ tables[c] = NoView
  BY <1>3, <1>4, <1>5, OneMoves DEF tables
<1>7. CASE BeginRead(c) /\ phase' = [phase EXCEPT ![c] = "reading"]
  <2>1. \A d \in Connections : phase'[d] \in Writing <=> phase[d] \in Writing
    BY <1>1, <1>2, <1>7 DEF Writing
  <2>2. Writer' = Writer
    <3>1. CASE \E d \in Connections : phase[d] \in Writing
      BY <2>1, <3>1 DEF Mapped, WriterFit
    <3>2. CASE \A d \in Connections : phase[d] \notin Writing
      BY <2>1, <3>2 DEF Mapped, WriterFit
    <3> QED BY <3>1, <3>2
  <2> QED BY <1>1, <1>6, <2>2 DEF Store!BeginRead, Store!Begin, tables
<1>8. CASE BeginWrite(c) /\ phase' = [phase EXCEPT ![c] = "writing"]
  <2>1. Writer = NoConnection
    BY <1>8 DEF BeginWrite, Writer
  <2>2. Writer' = c
    BY <1>2, <1>8 DEF Mapped, WriterFit, Writing
  <2> QED BY <1>1, <1>6, <2>1, <2>2 DEF Store!BeginWrite, Store!Begin, tables
<1> QED BY <1>1, <1>7, <1>8

LEMMA WriteRefines ==
  ASSUME Mapped, Mapped', NEW c \in Connections, NEW K \in SUBSET Keys,
         NEW v \in Values \cup {NoValue}, Write(c, K, v)
  PROVE  Store!Change(c)
<1>1. /\ phase[c] = "writing" /\ phase' = phase /\ disk' = disk
      /\ writeQueue' = writeQueue
      /\ \A d \in Connections : d # c => view'[d] = view[d]
  BY DEF Write, database, Mapped, IInv, Data, DataType
<1>2. Writer = c /\ Writer' = c
  BY <1>1 DEF Mapped, WriterFit, Writing
<1>3. Working(c)' \in Store!Table
  BY <1>1 DEF Mapped, WorkingFit, Works, Table, Store!Table
<1>4. tables' = [tables EXCEPT ![c] = Working(c)']
  BY <1>1, SameWorking, OneMoves
<1> QED BY <1>1, <1>2, <1>3, <1>4 DEF Store!Change, tables

LEMMA EndRefines ==
  ASSUME Mapped, Mapped', NEW c \in Connections, EndRead(c) \/ Rollback(c)
  PROVE  Store!End(c)
<1>1. /\ disk' = disk
      /\ \A d \in Connections : d # c => view'[d] = view[d]
      /\ \/ phase[c] = "reading" /\ phase' = [phase EXCEPT ![c] = "idle"]
         \/ phase[c] = "writing" /\ phase' = [phase EXCEPT ![c] = "rollingBack"]
  BY DEF EndRead, Rollback, database, connection, Mapped, IInv, Data, DataType
<1>2. phase \in [Connections -> Phase]
  BY DEF Mapped, IInv, Locks, LockType
<1>3. Working(c) # NoView /\ Working(c)' = NoView
  BY <1>1, <1>2 DEF Mapped, WorkingFit, Works
<1>4. tables' = [tables EXCEPT ![c] = NoView] /\ tables[c] # NoView
  BY <1>1, <1>2, <1>3, SameWorking, OneMoves DEF tables
<1>5. Writer' = IF Writer = c THEN NoConnection ELSE Writer
  <2>1. phase'[c] \notin Writing /\ \A d \in Connections : d # c => phase'[d] = phase[d]
    BY <1>1, <1>2 DEF Writing
  <2>2. CASE phase[c] \in Writing
    <3>1. \A d \in Connections : d # c => phase[d] \notin Writing
      BY <2>2, OneWriter DEF Mapped, IInv, Writing, Exclusive
    <3> QED BY <2>1, <2>2, <3>1 DEF Mapped, WriterFit
  <2>3. CASE phase[c] \notin Writing /\ \E d \in Connections : phase[d] \in Writing
    BY <2>1, <2>3 DEF Mapped, WriterFit
  <2>4. CASE \A d \in Connections : phase[d] \notin Writing
    BY <2>1, <2>4 DEF Mapped, WriterFit
  <2> QED BY <2>2, <2>3, <2>4
<1> QED BY <1>1, <1>4, <1>5 DEF Store!End, tables

LEMMA CommitRefines ==
  ASSUME Mapped, Mapped', NEW c \in Connections, Commit(c)
  PROVE  Store!Commit(c)
<1>1. /\ phase[c] = "committing" /\ phase' = [phase EXCEPT ![c] = "committed"]
      /\ disk' = view[c]
      /\ \A d \in Connections : d # c => view'[d] = view[d]
  BY DEF Commit, Mapped, IInv, Data, DataType
<1>2. phase \in [Connections -> Phase] /\ view[c] # NoView
  BY <1>1, DatabaseAssumption
     DEF Mapped, IInv, Locks, LockType, Data, ViewsFit, ViewFit, Writing, Version, Table
<1>3. Working(c) = disk'.table /\ Working(c)' = NoView
  BY <1>1, <1>2 DEF Mapped, WorkingFit, Works, Seen
\* Nobody else has a transaction that has not got its snapshot.
<1>4. ASSUME NEW d \in Connections, d # c PROVE Working(d)' = Working(d)
  <2>1. phase[d] \in {"closed", "idle", "reading", "selected"}
    BY <1>1, <1>4, OneWriter DEF Mapped, IInv, Exclusive
  <2>2. phase[d] \in Reading => view[d] # NoView
    <3>1. NoneDeferred(c)
      BY <1>1 DEF Mapped, IInv, Locks, SignalsFit
    <3>2. phase[d] \in Reading /\ view[d] = NoView => lock[d] = "shared"
      BY DEF Mapped, IInv, Data, ViewsFit, ViewFit
    <3> QED BY <1>4, <3>1, <3>2 DEF NoneDeferred
  <2>3. phase'[d] = phase[d] /\ view'[d] = view[d]
    BY <1>1, <1>2, <1>4
  <2> QED BY <2>1, <2>2, <2>3 DEF Mapped, WorkingFit, Works, Seen, Reading
<1>5. tables' = [tables EXCEPT ![c] = NoView] /\ tables[c] = disk'.table
  BY <1>3, <1>4, OneMoves DEF tables
<1>6. Writer = c
  BY <1>1 DEF Mapped, WriterFit, Writing
<1>7. Writer' = NoConnection
  <2>1. \A d \in Connections : d # c => phase[d] \notin Writing
    BY <1>1, OneWriter DEF Mapped, IInv, Exclusive, Writing
  <2> QED BY <1>1, <1>2, <2>1 DEF Mapped, WriterFit, Writing
<1> QED BY <1>5, <1>6, <1>7 DEF Store!Commit, tables

\* Steps inside a transaction, and between transactions.
LEMMA MovesOnStutters ==
  ASSUME Mapped, Mapped', NEW c \in Connections,
         \/ markSqlLevelSharedReadLockAcquired(c) \/ SignalWriteLock(c) \/ CheckReaders(c)
         \/ WaitForWriteLock(c) \/ NoteCommitted(c) \/ FinishRollback(c)
         \/ Open(c) \/ Close(c) \/ flushMemory(c) \/ noteCommittedChanges(c)
  PROVE  UNCHANGED Store!vars
<1>1. /\ disk' = disk
      /\ \/ phase' = phase
         \/ phase[c] = "selected" /\ phase' = [phase EXCEPT ![c] = "reading"]
         \/ phase[c] = "checking" /\ phase' = [phase EXCEPT ![c] = "waiting"]
         \/ phase[c] = "checking" /\ phase' = [phase EXCEPT ![c] = "committing"]
         \/ phase[c] = "waiting" /\ phase' = [phase EXCEPT ![c] = "checking"]
         \/ phase[c] \in {"committed", "rollingBack", "closed"}
            /\ phase' = [phase EXCEPT ![c] = "idle"]
         \/ phase[c] = "idle" /\ phase' = [phase EXCEPT ![c] = "closed"]
      /\ \/ view' = view
         \/ phase[c] = "rollingBack" /\ view' = [view EXCEPT ![c] = NoView]
  BY DEF markSqlLevelSharedReadLockAcquired, SignalWriteLock, CheckReaders, WaitForWriteLock,
         NoteCommitted, FinishRollback, Open, Close, flushMemory, noteCommittedChanges, Free,
         database, connection
<1>2. phase \in [Connections -> Phase] /\ view \in [Connections -> Version \cup {NoView}]
  BY DEF Mapped, IInv, Locks, LockType, Data, DataType
<1>3. \A d \in Connections : /\ Works(d)' <=> Works(d)
                             /\ phase'[d] \in Writing <=> phase[d] \in Writing
  BY <1>1, <1>2 DEF Works, Writing
<1>4. \A d \in Connections : Works(d) => Seen(d)' = Seen(d)
  BY <1>1, <1>2 DEF Works, Seen
<1> QED BY <1>1, <1>3, <1>4, Stutters

LEMMA SelectStutters ==
  ASSUME Mapped, Mapped', NEW c \in Connections, NEW k \in Keys, Select(c, k)
  PROVE  UNCHANGED Store!vars
<1>1. /\ disk' = disk /\ view' = [view EXCEPT ![c] = Seen(c)]
      /\ phase' = phase \/ phase' = [phase EXCEPT ![c] = "selected"]
      /\ phase[c] \in {"reading", "writing"}
      /\ phase' # phase => lock[c] = "shared"
  BY DEF Select, database, Mapped, IInv, Locks, LockType
<1>2. phase \in [Connections -> Phase] /\ view \in [Connections -> Version \cup {NoView}]
  BY DEF Mapped, IInv, Locks, LockType, Data, DataType
<1>3. lock[c] = "shared" => phase[c] = "reading"
  BY <1>1 DEF Mapped, IInv, Locks, FlagsFit, Reading
<1>4. \A d \in Connections : /\ Works(d)' <=> Works(d)
                             /\ phase'[d] \in Writing <=> phase[d] \in Writing
  BY <1>1, <1>2, <1>3 DEF Works, Writing
<1>5. \A d \in Connections : Seen(d)' = Seen(d)
  BY <1>1, <1>2 DEF Seen
<1> QED BY <1>1, <1>4, <1>5, Stutters

LEMMA IncrementStutters ==
  ASSUME Mapped, Mapped', NEW c \in Connections, IncrementSnapshot(c)
  PROVE  UNCHANGED Store!vars
<1>1. /\ disk' = disk /\ phase[c] = "writing" /\ phase' = [phase EXCEPT ![c] = "checking"]
      /\ view' = view \/ view' = [view EXCEPT ![c].snapshot = current[c] + 1]
  BY DEF IncrementSnapshot, database
<1>2. phase \in [Connections -> Phase] /\ view[c] \in Version
  BY <1>1 DEF Mapped, IInv, Locks, LockType, Data, ViewsFit, ViewFit, Writing
<1>3. view \in [Connections -> Version \cup {NoView}]
  BY DEF Mapped, IInv, Data, DataType
<1>4. \A d \in Connections : /\ Works(d)' <=> Works(d)
                             /\ phase'[d] \in Writing <=> phase[d] \in Writing
  BY <1>1, <1>2 DEF Works, Writing
<1>5. view'[c] # NoView /\ view[c] # NoView
  <2>1. view'[c] \in Version
    BY <1>1 , <1>4 DEF Mapped, IInv, Data, ViewsFit, ViewFit, Writing
  <2> QED BY <1>2, <2>1, DatabaseAssumption DEF Version, Table
<1>6. view'[c].table = view[c].table
  <2>1. CASE view' = view
    BY <2>1
  <2>2. CASE view' = [view EXCEPT ![c].snapshot = current[c] + 1]
    <3>1. view'[c] = [view[c] EXCEPT !.snapshot = current[c] + 1]
      BY <1>3, <2>2
    <3> QED BY <1>2, <3>1 DEF Version
  <2> QED BY <1>1, <2>1, <2>2
<1>7. \A d \in Connections : d # c => view'[d] = view[d]
  BY <1>1, <1>3
<1>8. \A d \in Connections : Seen(d)'.table = Seen(d).table
  BY <1>1, <1>5, <1>6, <1>7 DEF Seen
<1> QED BY <1>1, <1>4, <1>8, Stutters

LEMMA Init_Store == Init => Store!Init
<1> SUFFICES ASSUME Init PROVE Store!Init
  OBVIOUS
<1>1. disk.table \in Store!Table
  BY DEF Init, Table, Store!Table
<1>2. \A c \in Connections : Working(c) = NoView
  BY DEF Init, Working, Works
<1>3. Writer = NoConnection
  BY DEF Init, Writer
<1> QED BY <1>1, <1>2, <1>3 DEF Store!Init

LEMMA Next_Store ==
  Mapped /\ Mapped' /\ [Next]_vars => [Store!Next]_(Store!vars)
<1> SUFFICES ASSUME Mapped, Mapped', [Next]_vars
             PROVE  Store!Next \/ UNCHANGED Store!vars
  OBVIOUS
<1>1. ASSUME NEW c \in Connections, ReadStep(c) PROVE Store!Next \/ UNCHANGED Store!vars
  BY <1>1, BeginRefines, SelectStutters, MovesOnStutters, EndRefines
     DEF ReadStep, Store!Next
<1>2. ASSUME NEW c \in Connections, WriteStep(c) PROVE Store!Next \/ UNCHANGED Store!vars
  <2>1. ASSUME NEW k \in Keys, SetObject(c, k) \/ RemoveObject(c, k) PROVE Store!Change(c)
    BY <2>1, WriteRefines DEF SetObject, RemoveObject
  <2>2. CASE RemoveAllObjects(c)
    BY <2>2, WriteRefines DEF RemoveAllObjects, Store!Next
  <2> QED BY <1>2, <2>1, <2>2, BeginRefines, IncrementStutters, MovesOnStutters,
             CommitRefines, EndRefines DEF WriteStep, Store!Next
<1>3. ASSUME NEW c \in Connections,
             Open(c) \/ Close(c) \/ flushMemory(c) \/ noteCommittedChanges(c)
      PROVE  UNCHANGED Store!vars
  BY <1>3, MovesOnStutters
<1>4. ASSUME NEW n \in 1 .. MaxSnapshot, DropChangeset(n) PROVE UNCHANGED Store!vars
  <2>1. UNCHANGED <<disk, phase, view>>
    BY <1>4 DEF DropChangeset, connection
  <2> QED BY <2>1, Stutters DEF Works, Seen
<1>5. CASE UNCHANGED vars
  <2>1. UNCHANGED <<disk, phase, view>>
    BY <1>5 DEF vars, database, connection
  <2> QED BY <2>1, Stutters DEF Works, Seen
<1> QED BY <1>1, <1>2, <1>3, <1>4, <1>5 DEF Next

\* A transaction works on one snapshot, writers exclude each other, and a
\* commit appears at once and stays, for any number of connections: what the
\* protocol of the caches, change sets and locks is for.
THEOREM SnapshotIsolation == Spec => ImplementsSnapshotStore
<1>1. IInv => Mapped
  BY WorkingIsSeen, WriterIsWriting DEF Mapped
<1> QED BY <1>1, Init_Store, Next_Store, Invariance, PTL
           DEF Spec, ImplementsSnapshotStore, Store!Spec
===============================================================================
