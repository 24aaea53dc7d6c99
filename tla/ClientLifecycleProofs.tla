------------------------ MODULE ClientLifecycleProofs ------------------------
(***************************************************************************)
(* Proofs about ClientLifecycle, for any threads, client objects, projects *)
(* and events.                                                             *)
(***************************************************************************)
EXTENDS ClientLifecycle, TLAPS

-----------------------------------------------------------------------------
(* The inductive invariant. *)

\* A project's database is registered exactly while a live client has it.
RegistryOK ==
  /\ \A k \in Clients : Live(k) /\ objects[k].database => objects[k].project \in registered
  /\ \A project \in registered :
       \E k \in LiveIn(project) : objects[k].database

\* A client that was made alone got the database.
LoneHasDatabase ==
  \A k \in Clients :
    objects[k].state # "unused" /\ k \notin overlapped => objects[k].database

\* Who took an event has been made, and if alone, holds it in its own queue.
OwedOK ==
  \A e \in Events : owed[e] # NoClient =>
    /\ objects[owed[e]].state # "unused"
    /\ owed[e] \notin overlapped => e \in stored[objects[owed[e]].project]

\* dispatch_once: one thread in the block, no result before its end, and a
\* client after it.
OnceOK ==
  /\ \A t \in Threads : threads[t].at = "inside" => onceToken = "running"
  /\ \A t, u \in Threads :
       threads[t].at = "inside" /\ threads[u].at = "inside" => t = u
  /\ onceToken # "done" => returned = {}
  /\ onceToken = "done" => sharedClient # NoClient

QueueInv == TypeOK /\ OneOwner /\ RegistryOK /\ LoneHasDatabase /\ OwedOK

SharedInv == TypeOK /\ OnceOK /\ OneSharedClient

LEMMA AnyProjectOK == AnyProject \in Projects
  BY LifecycleAssumption DEF AnyProject

-----------------------------------------------------------------------------
(* Types. *)

LEMMA TypeInit == Init => TypeOK
  BY AnyProjectOK DEF Init, TypeOK, Object, Thread, Live

LEMMA TypeMake ==
  ASSUME TypeOK, NEW k \in Clients, NEW project \in Projects,
         initWithProjectId(k, project)
  PROVE  /\ objects' \in [Clients -> Object]
         /\ registered' \subseteq Projects
         /\ overlapped' \subseteq Clients
         /\ \A j \in Clients : Live(j) => Live(j)'
         /\ Live(k)'
<1>1. objects' \in [Clients -> Object]
  BY DEF TypeOK, initWithProjectId, Object
<1>2. registered' \subseteq Projects /\ overlapped' \subseteq Clients
  BY DEF TypeOK, initWithProjectId
<1>3. (\A j \in Clients : Live(j) => Live(j)') /\ Live(k)'
  BY DEF TypeOK, initWithProjectId, Live
<1> QED BY <1>1, <1>2, <1>3

LEMMA TypeStep == TypeOK /\ [Next]_vars => TypeOK'
<1> SUFFICES ASSUME TypeOK, [Next]_vars PROVE TypeOK'
  OBVIOUS
<1>1. ASSUME NEW k \in Clients, NEW project \in Projects, clientWithProjectId(k, project)
      PROVE  TypeOK'
  BY <1>1, TypeMake DEF clientWithProjectId, TypeOK
<1>2. ASSUME NEW t \in Threads, NEW project \in Projects, CallShared(t, project)
      PROVE  TypeOK'
  BY <1>2 DEF CallShared, TypeOK, Thread, Live
<1>3. ASSUME NEW t \in Threads, EnterOnce(t) PROVE TypeOK'
  BY <1>3 DEF EnterOnce, TypeOK, Thread, Live
<1>4. ASSUME NEW t \in Threads, PassOnce(t) PROVE TypeOK'
  BY <1>4 DEF PassOnce, TypeOK, Thread, Live
<1>5. ASSUME NEW t \in Threads, NEW k \in Clients, RunOnce(t, k) PROVE TypeOK'
  <2>1. threads[t].project \in Projects
    BY DEF TypeOK, Thread
  <2>2. initWithProjectId(k, threads[t].project)
    BY <1>5 DEF RunOnce
  <2>3. threads' \in [Threads -> Thread] /\ returned' \subseteq Clients \cup {NoClient}
    BY <1>5 DEF RunOnce, TypeOK, Thread
  <2> QED BY <1>5, <2>1, <2>2, <2>3, TypeMake DEF RunOnce, TypeOK
<1>6. ASSUME NEW k \in Clients, NEW e \in Events, AddEvent(k, e) PROVE TypeOK'
  <2>1. objects[k].project \in Projects
    BY DEF TypeOK, Object
  <2> QED BY <1>6, <2>1 DEF AddEvent, process, TypeOK, Live
<1>7. ASSUME NEW k \in Clients, PushAllPendingEvents(k) PROVE TypeOK'
  <2>1. objects[k].project \in Projects
    BY DEF TypeOK, Object
  <2> QED BY <1>7, <2>1 DEF PushAllPendingEvents, Usable, TypeOK, Live
<1>8. ASSUME NEW k \in Clients, NEW S \in SUBSET sent[k], PushEnds(k, S) PROVE TypeOK'
  <2>1. objects[k].project \in Projects
    BY DEF TypeOK, Object
  <2> QED BY <1>8, <2>1 DEF PushEnds, TypeOK, Live
<1>9. ASSUME NEW k \in Clients, Release(k) PROVE TypeOK'
  BY <1>9 DEF Release, TypeOK, Live
<1>10. ASSUME NEW k \in Clients, Deallocate(k) PROVE TypeOK'
  <2>1. objects' \in [Clients -> Object]
    BY <1>10 DEF Deallocate, TypeOK, Object
  <2>2. \A j \in Clients \ {k} : Live(j) => Live(j)'
    BY <1>10 DEF Deallocate, TypeOK, Live
  <2> QED BY <1>10, <2>1, <2>2 DEF Deallocate, Unreferenced, TypeOK
<1>11. ASSUME Crash PROVE TypeOK'
  <2>1. objects' \in [Clients -> Object]
    BY <1>11 DEF Crash, TypeOK, Object
  <2> QED BY <1>11, <2>1, AnyProjectOK DEF Crash, TypeOK, Thread
<1>12. ASSUME UNCHANGED vars PROVE TypeOK'
  BY <1>12 DEF vars, process, TypeOK, Live
<1> QED
  BY <1>1, <1>2, <1>3, <1>4, <1>5, <1>6, <1>7, <1>8, <1>9, <1>10, <1>11, <1>12 DEF Next

-----------------------------------------------------------------------------
(* Databases and the queue. *)

LEMMA QueueInit == Init => QueueInv
<1> SUFFICES ASSUME Init PROVE QueueInv
  OBVIOUS
<1>1. TypeOK
  BY TypeInit
<1>2. OneOwner /\ RegistryOK /\ LoneHasDatabase
  BY DEF Init, OneOwner, RegistryOK, LoneHasDatabase, Live, LiveIn
<1>3. OwedOK
  BY DEF Init, OwedOK
<1> QED BY <1>1, <1>2, <1>3 DEF QueueInv

\* A client is made: it gets the database exactly if nobody has it.
LEMMA MakeKeepsQueue ==
  ASSUME QueueInv, NEW k \in Clients, NEW project \in Projects,
         initWithProjectId(k, project), UNCHANGED <<stored, owed>>
  PROVE  OneOwner' /\ RegistryOK' /\ LoneHasDatabase' /\ OwedOK'
<1> DEFINE new == [state |-> "live", project |-> project, database |-> project \notin registered]
<1>1. /\ objects' = [objects EXCEPT ![k] = new]
      /\ objects[k].state = "unused"
      /\ registered' = registered \cup {project}
      /\ objects \in [Clients -> Object]
      /\ registered \subseteq Projects
  BY DEF initWithProjectId, QueueInv, TypeOK
<1>2. /\ objects'[k] = new
      /\ \A j \in Clients \ {k} : objects'[j] = objects[j]
  BY <1>1
<1>3. /\ objects'[k].state = "live" /\ objects'[k].project = project
      /\ objects'[k].database = (project \notin registered)
  BY <1>2
<1> HIDE DEF new
<1>4. OneOwner'
  <2> SUFFICES ASSUME NEW i \in Clients, NEW j \in Clients,
                      Live(i)', objects'[i].database, Live(j)', objects'[j].database,
                      objects'[i].project = objects'[j].project
               PROVE  i = j
    BY DEF OneOwner
  <2>1. CASE i # k /\ j # k
    BY <1>2, <2>1 DEF QueueInv, OneOwner, Live
  <2>2. CASE i = k /\ j # k
    BY <1>2, <1>3, <2>2 DEF QueueInv, RegistryOK, Live
  <2>3. CASE i # k /\ j = k
    BY <1>2, <1>3, <2>3 DEF QueueInv, RegistryOK, Live
  <2> QED BY <2>1, <2>2, <2>3
<1>5. RegistryOK'
  <2>1. ASSUME NEW j \in Clients, Live(j)', objects'[j].database
        PROVE  objects'[j].project \in registered'
    BY <1>1, <1>2, <1>3, <2>1 DEF QueueInv, RegistryOK, Live
  <2>2. ASSUME NEW pr \in registered' PROVE \E j \in LiveIn(pr)' : objects'[j].database
    <3>1. CASE pr \in registered
      <4>1. PICK j \in LiveIn(pr) : objects[j].database
        BY <3>1 DEF QueueInv, RegistryOK
      <4>2. j # k /\ j \in Clients
        BY <1>1 DEF LiveIn, Live
      <4>3. j \in LiveIn(pr)' /\ objects'[j].database
        BY <1>2, <4>1, <4>2 DEF LiveIn, Live
      <4> QED BY <4>3
    <3>2. CASE pr \notin registered
      BY <1>1, <1>3, <3>2 DEF LiveIn, Live
    <3> QED BY <3>1, <3>2
  <2> QED BY <2>1, <2>2 DEF RegistryOK
<1>6. LoneHasDatabase'
  <2> SUFFICES ASSUME NEW j \in Clients, objects'[j].state # "unused", j \notin overlapped'
               PROVE  objects'[j].database
    BY DEF LoneHasDatabase
  <2>1. overlapped \subseteq overlapped'
    BY DEF initWithProjectId
  <2>2. CASE j # k
    BY <1>2, <2>1, <2>2 DEF QueueInv, LoneHasDatabase
  <2>3. CASE j = k
    <3>1. LiveIn(project) = {}
      BY <2>3 DEF initWithProjectId
    <3>2. project \notin registered
      BY <3>1 DEF QueueInv, RegistryOK
    <3> QED BY <1>3, <2>3, <3>2
  <2> QED BY <2>2, <2>3
<1>7. OwedOK'
  <2> SUFFICES ASSUME NEW e \in Events, owed[e] # NoClient
               PROVE  /\ objects'[owed[e]].state # "unused"
                      /\ owed[e] \notin overlapped' => e \in stored[objects'[owed[e]].project]
    BY DEF OwedOK
  <2>1. owed[e] \in Clients \ {k}
    BY <1>1 DEF QueueInv, OwedOK, TypeOK
  <2>2. overlapped \subseteq overlapped'
    BY DEF initWithProjectId
  <2> QED BY <1>2, <2>1, <2>2 DEF QueueInv, OwedOK
<1> QED BY <1>4, <1>5, <1>6, <1>7

\* Steps that make and end no client and leave the queue alone.
LEMMA OthersKeepQueue ==
  ASSUME QueueInv, UNCHANGED <<objects, registered, overlapped, stored, owed>>
  PROVE  OneOwner' /\ RegistryOK' /\ LoneHasDatabase' /\ OwedOK'
<1>1. OneOwner' /\ RegistryOK'
  BY DEF QueueInv, OneOwner, RegistryOK, Live, LiveIn
<1>2. LoneHasDatabase' /\ OwedOK'
  BY DEF QueueInv, LoneHasDatabase, OwedOK
<1> QED BY <1>1, <1>2

LEMMA AddKeepsQueue ==
  ASSUME QueueInv, NEW k \in Clients, NEW e \in Events, AddEvent(k, e)
  PROVE  OneOwner' /\ RegistryOK' /\ LoneHasDatabase' /\ OwedOK'
<1>1. UNCHANGED <<objects, registered, overlapped>>
  BY DEF AddEvent, process
<1>2. OneOwner' /\ RegistryOK' /\ LoneHasDatabase'
  BY <1>1 DEF QueueInv, OneOwner, RegistryOK, LoneHasDatabase, Live, LiveIn
<1>3. OwedOK'
  <2> SUFFICES ASSUME NEW f \in Events, owed'[f] # NoClient
               PROVE  /\ objects[owed'[f]].state # "unused"
                      /\ owed'[f] \notin overlapped => f \in stored'[objects[owed'[f]].project]
    BY <1>1 DEF OwedOK
  <2>1. /\ owed' = [owed EXCEPT ![e] = k]
        /\ owed \in [Events -> Clients \cup {NoClient}]
        /\ stored \in [Projects -> SUBSET Events]
        /\ objects[k].state = "live"
        /\ objects[k].project \in Projects
    BY DEF AddEvent, Usable, Live, QueueInv, TypeOK, Object
  <2>2. \A project \in Projects : stored[project] \subseteq stored'[project]
    BY <2>1 DEF AddEvent
  <2>3. CASE f = e
    <3>1. owed'[f] = k
      BY <2>1, <2>3
    <3>2. k \notin overlapped => objects[k].database
      BY <2>1 DEF QueueInv, LoneHasDatabase
    <3>3. objects[k].database => e \in stored'[objects[k].project]
      BY <2>1 DEF AddEvent
    <3> QED BY <2>1, <2>3, <3>1, <3>2, <3>3
  <2>4. CASE f # e
    <3>1. owed'[f] = owed[f]
      BY <2>1, <2>4
    <3>2. /\ objects[owed[f]].state # "unused"
          /\ owed[f] \notin overlapped => f \in stored[objects[owed[f]].project]
      BY <3>1 DEF QueueInv, OwedOK
    <3>3. objects[owed[f]].project \in Projects
      BY <2>1, <3>1 DEF QueueInv, TypeOK, Object
    <3> QED BY <2>2, <3>1, <3>2, <3>3
  <2> QED BY <2>3, <2>4
<1> QED BY <1>2, <1>3

LEMMA PushEndsKeepsQueue ==
  ASSUME QueueInv, NEW k \in Clients, NEW S \in SUBSET sent[k], PushEnds(k, S)
  PROVE  OneOwner' /\ RegistryOK' /\ LoneHasDatabase' /\ OwedOK'
<1>1. UNCHANGED <<objects, registered, overlapped>>
  BY DEF PushEnds
<1>2. OneOwner' /\ RegistryOK' /\ LoneHasDatabase'
  BY <1>1 DEF QueueInv, OneOwner, RegistryOK, LoneHasDatabase, Live, LiveIn
<1>3. OwedOK'
  <2> SUFFICES ASSUME NEW e \in Events, owed'[e] # NoClient
               PROVE  /\ objects[owed'[e]].state # "unused"
                      /\ owed'[e] \notin overlapped => e \in stored'[objects[owed'[e]].project]
    BY <1>1 DEF OwedOK
  <2>1. e \notin S /\ owed'[e] = owed[e]
    BY DEF PushEnds
  <2>2. /\ objects[owed[e]].state # "unused"
        /\ owed[e] \notin overlapped => e \in stored[objects[owed[e]].project]
    BY <2>1 DEF QueueInv, OwedOK
  <2>3. objects[owed[e]].project \in Projects
    BY <2>1 DEF QueueInv, TypeOK, Object
  <2>4. \A project \in Projects : stored[project] \ S \subseteq stored'[project]
    BY DEF PushEnds, QueueInv, TypeOK
  <2> QED BY <2>1, <2>2, <2>3, <2>4
<1> QED BY <1>2, <1>3

\* The last of a client: its database is closed if it had one.
LEMMA DeallocateKeepsQueue ==
  ASSUME QueueInv, NEW k \in Clients, Deallocate(k)
  PROVE  OneOwner' /\ RegistryOK' /\ LoneHasDatabase' /\ OwedOK'
<1>1. /\ objects \in [Clients -> Object]
      /\ objects' = [objects EXCEPT ![k].state = "gone"]
      /\ UNCHANGED <<stored, owed, overlapped>>
      /\ Live(k)
  BY DEF Deallocate, Unreferenced, QueueInv, TypeOK
<1>2. /\ \A j \in Clients \ {k} : objects'[j] = objects[j]
      /\ objects'[k].state = "gone"
      /\ objects'[k].project = objects[k].project
      /\ objects'[k].database = objects[k].database
  BY <1>1 DEF Object
<1>3. \A j \in Clients : objects'[j].project = objects[j].project
                         /\ objects'[j].database = objects[j].database
  BY <1>2
<1>4. \A j \in Clients : Live(j)' <=> Live(j) /\ j # k
  BY <1>2 DEF Live
<1>5. OneOwner'
  BY <1>3, <1>4 DEF QueueInv, OneOwner
<1>6. RegistryOK'
  <2>1. ASSUME NEW j \in Clients, Live(j)', objects'[j].database
        PROVE  objects'[j].project \in registered'
    <3>1. Live(j) /\ j # k /\ objects[j].database
      BY <1>3, <1>4, <2>1
    <3>2. objects[j].project \in registered
      BY <3>1 DEF QueueInv, RegistryOK
    <3>3. objects[k].database => objects[j].project # objects[k].project
      BY <1>1, <3>1 DEF QueueInv, OneOwner
    <3> QED BY <1>3, <3>2, <3>3 DEF Deallocate
  <2>2. ASSUME NEW pr \in registered' PROVE \E j \in LiveIn(pr)' : objects'[j].database
    <3>1. pr \in registered /\ (objects[k].database => pr # objects[k].project)
      BY DEF Deallocate
    <3>2. PICK j \in LiveIn(pr) : objects[j].database
      BY <3>1 DEF QueueInv, RegistryOK
    <3>3. j # k
      BY <3>1, <3>2 DEF LiveIn
    <3> QED BY <1>3, <1>4, <3>2, <3>3 DEF LiveIn
  <2> QED BY <2>1, <2>2 DEF RegistryOK
<1>7. LoneHasDatabase'
  BY <1>1, <1>2 DEF QueueInv, LoneHasDatabase, Live
<1>8. OwedOK'
  <2> SUFFICES ASSUME NEW e \in Events, owed[e] # NoClient
               PROVE  /\ objects'[owed[e]].state # "unused"
                      /\ owed[e] \notin overlapped => e \in stored[objects'[owed[e]].project]
    BY <1>1 DEF OwedOK
  <2>1. owed[e] \in Clients
    BY DEF QueueInv, TypeOK
  <2>2. /\ objects[owed[e]].state # "unused"
        /\ owed[e] \notin overlapped => e \in stored[objects[owed[e]].project]
    BY DEF QueueInv, OwedOK
  <2> QED BY <1>2, <1>3, <2>1, <2>2
<1> QED BY <1>5, <1>6, <1>7, <1>8

LEMMA CrashKeepsQueue ==
  ASSUME QueueInv, Crash
  PROVE  OneOwner' /\ RegistryOK' /\ LoneHasDatabase' /\ OwedOK'
<1>1. /\ objects \in [Clients -> Object]
      /\ registered' = {}
      /\ UNCHANGED <<stored, owed, overlapped>>
  BY DEF Crash, QueueInv, TypeOK
<1>2. \A k \in Clients :
        /\ objects'[k].state = IF Live(k) THEN "gone" ELSE objects[k].state
        /\ objects'[k].project = objects[k].project
        /\ objects'[k].database = objects[k].database
  BY <1>1 DEF Crash, Object
<1>3. \A k \in Clients : ~Live(k)'
  BY <1>2 DEF Live
<1>4. OneOwner' /\ RegistryOK'
  BY <1>1, <1>3 DEF OneOwner, RegistryOK
<1>5. \A k \in Clients : objects'[k].state = "unused" <=> objects[k].state = "unused"
  BY <1>2 DEF Live
<1>6. LoneHasDatabase'
  BY <1>1, <1>2, <1>5 DEF QueueInv, LoneHasDatabase
<1>7. OwedOK'
  <2> SUFFICES ASSUME NEW e \in Events, owed[e] # NoClient
               PROVE  /\ objects'[owed[e]].state # "unused"
                      /\ owed[e] \notin overlapped => e \in stored[objects'[owed[e]].project]
    BY <1>1 DEF OwedOK
  <2>1. owed[e] \in Clients
    BY DEF QueueInv, TypeOK
  <2> QED BY <1>2, <1>5, <2>1 DEF QueueInv, OwedOK
<1> QED BY <1>4, <1>6, <1>7

LEMMA QueueStep == QueueInv /\ [Next]_vars => QueueInv'
<1> SUFFICES ASSUME QueueInv, [Next]_vars
             PROVE  OneOwner' /\ RegistryOK' /\ LoneHasDatabase' /\ OwedOK'
  BY TypeStep DEF QueueInv
<1> DEFINE Kept == OneOwner' /\ RegistryOK' /\ LoneHasDatabase' /\ OwedOK'
<1>1. ASSUME NEW k \in Clients, NEW project \in Projects, clientWithProjectId(k, project)
      PROVE  Kept
  BY <1>1, MakeKeepsQueue DEF clientWithProjectId
<1>2. ASSUME NEW t \in Threads, NEW k \in Clients, RunOnce(t, k) PROVE Kept
  <2>1. threads[t].project \in Projects
    BY DEF QueueInv, TypeOK, Thread
  <2> QED BY <1>2, <2>1, MakeKeepsQueue DEF RunOnce
<1>3. ASSUME NEW t \in Threads, NEW project \in Projects, CallShared(t, project) PROVE Kept
  BY <1>3, OthersKeepQueue DEF CallShared
<1>4. ASSUME NEW t \in Threads, EnterOnce(t) \/ PassOnce(t) PROVE Kept
  BY <1>4, OthersKeepQueue DEF EnterOnce, PassOnce
<1>5. ASSUME NEW k \in Clients, PushAllPendingEvents(k) \/ Release(k) PROVE Kept
  BY <1>5, OthersKeepQueue DEF PushAllPendingEvents, Release
<1>6. ASSUME NEW k \in Clients, Deallocate(k) PROVE Kept
  BY <1>6, DeallocateKeepsQueue
<1>7. ASSUME NEW k \in Clients, NEW e \in Events, AddEvent(k, e) PROVE Kept
  BY <1>7, AddKeepsQueue
<1>8. ASSUME NEW k \in Clients, NEW S \in SUBSET sent[k], PushEnds(k, S) PROVE Kept
  BY <1>8, PushEndsKeepsQueue
<1>9. ASSUME Crash PROVE Kept
  BY <1>9, CrashKeepsQueue
<1>10. ASSUME UNCHANGED vars PROVE Kept
  BY <1>10, OthersKeepQueue DEF vars, process
<1> HIDE DEF Kept
<1>11. Kept
  BY <1>1, <1>2, <1>3, <1>4, <1>5, <1>6, <1>7, <1>8, <1>9, <1>10 DEF Next
<1> QED BY <1>11 DEF Kept

-----------------------------------------------------------------------------
(* The shared client. *)

LEMMA SharedInit == Init => SharedInv
  BY TypeInit DEF Init, SharedInv, OnceOK, OneSharedClient

\* Steps outside dispatch_once.
LEMMA OthersKeepShared ==
  ASSUME SharedInv, UNCHANGED <<onceToken, sharedClient, threads, returned>>
  PROVE  OnceOK' /\ OneSharedClient'
  BY DEF SharedInv, OnceOK, OneSharedClient

LEMMA SharedStep == SharedInv /\ [Next]_vars => SharedInv'
<1> SUFFICES ASSUME SharedInv, [Next]_vars PROVE OnceOK' /\ OneSharedClient'
  BY TypeStep DEF SharedInv
<1> DEFINE Kept == OnceOK' /\ OneSharedClient'
<1>1. threads \in [Threads -> Thread]
  BY DEF SharedInv, TypeOK
<1>2. ASSUME NEW k \in Clients, NEW project \in Projects, clientWithProjectId(k, project)
      PROVE  Kept
  BY <1>2, OthersKeepShared DEF clientWithProjectId
<1>3. ASSUME NEW t \in Threads, NEW project \in Projects, CallShared(t, project) PROVE Kept
  <2>1. /\ threads'[t].at = "called"
        /\ \A u \in Threads \ {t} : threads'[u] = threads[u]
    BY <1>1, <1>3 DEF CallShared
  <2> QED BY <1>3, <2>1 DEF CallShared, SharedInv, OnceOK, OneSharedClient
<1>4. ASSUME NEW t \in Threads, EnterOnce(t) PROVE Kept
  <2>1. /\ threads'[t].at = "inside"
        /\ \A u \in Threads \ {t} : threads'[u] = threads[u]
        /\ onceToken = "unset" /\ onceToken' = "running"
    BY <1>1, <1>4 DEF EnterOnce, Thread
  <2>2. \A u \in Threads \ {t} : threads'[u].at # "inside"
    BY <2>1 DEF SharedInv, OnceOK
  <2> QED BY <1>4, <2>1, <2>2 DEF EnterOnce, SharedInv, OnceOK, OneSharedClient
<1>5. ASSUME NEW t \in Threads, PassOnce(t) PROVE Kept
  <2>1. /\ threads'[t].at = "outside"
        /\ \A u \in Threads \ {t} : threads'[u] = threads[u]
        /\ onceToken = "done"
    BY <1>1, <1>5 DEF PassOnce, Thread
  <2>2. OnceOK'
    BY <1>5, <2>1 DEF PassOnce, SharedInv, OnceOK
  <2>3. OneSharedClient'
    BY <1>5, <2>1 DEF PassOnce, SharedInv, OnceOK, OneSharedClient
  <2> QED BY <2>2, <2>3
<1>6. ASSUME NEW t \in Threads, NEW k \in Clients, RunOnce(t, k) PROVE Kept
  <2>1. /\ threads'[t].at = "outside"
        /\ \A u \in Threads \ {t} : threads'[u] = threads[u]
        /\ threads[t].at = "inside"
    BY <1>1, <1>6 DEF RunOnce, Thread
  <2>2. onceToken = "running" /\ returned = {}
    BY <2>1 DEF SharedInv, OnceOK
  <2>3. \A u \in Threads : threads'[u].at # "inside"
    BY <2>1 DEF SharedInv, OnceOK
  <2>4. sharedClient' = k /\ onceToken' = "done" /\ returned' = {k}
    BY <1>6, <2>2 DEF RunOnce
  <2>5. k # NoClient
    BY LifecycleAssumption
  <2> QED BY <2>3, <2>4, <2>5 DEF OnceOK, OneSharedClient
<1>7. ASSUME NEW k \in Clients, PushAllPendingEvents(k) \/ Release(k) \/ Deallocate(k)
      PROVE  Kept
  BY <1>7, OthersKeepShared DEF PushAllPendingEvents, Release, Deallocate
<1>8. ASSUME NEW k \in Clients, NEW e \in Events, AddEvent(k, e) PROVE Kept
  BY <1>8, OthersKeepShared DEF AddEvent, process
<1>9. ASSUME NEW k \in Clients, NEW S \in SUBSET sent[k], PushEnds(k, S) PROVE Kept
  BY <1>9, OthersKeepShared DEF PushEnds
<1>10. ASSUME Crash PROVE Kept
  BY <1>10 DEF Crash, OnceOK, OneSharedClient
<1>11. ASSUME UNCHANGED vars PROVE Kept
  BY <1>11, OthersKeepShared DEF vars, process
<1> HIDE DEF Kept
<1>12. Kept
  BY <1>2, <1>3, <1>4, <1>5, <1>6, <1>7, <1>8, <1>9, <1>10, <1>11 DEF Next
<1> QED BY <1>12 DEF Kept

-----------------------------------------------------------------------------
\* Every variable keeps its type, for any threads, clients, projects and events;
\* the clients that the application holds or a push retains are alive.
THEOREM TypeCorrect == Spec => []TypeOK
  BY TypeInit, TypeStep, PTL DEF Spec

\* An event that a client took which was alone in its project when it was made
\* is on disk until Connect settles it, whatever becomes of the client: released,
\* kept by a push, replaced, killed.
THEOREM LoneClientKeeps == Spec => []LoneClientStores
<1>1. QueueInv => LoneClientStores
  <2> SUFFICES ASSUME QueueInv, NEW e \in Events, owed[e] # NoClient, owed[e] \notin overlapped
               PROVE  e \in Stored
    BY DEF LoneClientStores
  <2>1. e \in stored[objects[owed[e]].project]
    BY DEF QueueInv, OwedOK
  <2>2. objects[owed[e]].project \in Projects
    BY DEF QueueInv, TypeOK, Object
  <2> QED BY <2>1, <2>2 DEF Stored
<1> QED BY <1>1, QueueInit, QueueStep, PTL DEF Spec

\* However clients are made and released, no two have one project's database.
THEOREM DatabaseOwnedOnce == Spec => []OneOwner
<1>1. QueueInv => OneOwner
  BY DEF QueueInv
<1> QED BY <1>1, QueueInit, QueueStep, PTL DEF Spec

\* dispatch_once gives one shared client to any number of threads, and nil to
\* none of them.
THEOREM SharedByAll == Spec => []OneSharedClient
<1>1. SharedInv => OneSharedClient
  BY DEF SharedInv
<1> QED BY <1>1, SharedInit, SharedStep, PTL DEF Spec
=============================================================================
