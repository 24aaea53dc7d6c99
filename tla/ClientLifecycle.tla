--------------------------- MODULE ClientLifecycle ---------------------------
(***************************************************************************)
(* The life of client objects (TPConnectClient.m:30-64): how they are made,*)
(* shared and released, and what that means for the queue on disk.  The    *)
(* store of a client opens the database of its project; YapDatabase allows *)
(* one open database per file, and for a second one its initialiser        *)
(* returns nil, which TPEventStore does not look at: all messages to that  *)
(* store go to nil.  TPConnectClient models one client that has its        *)
(* database; this module says when a client has.                           *)
(***************************************************************************)

CONSTANTS
  Threads,
  Clients,    \* client objects, each used once (a bound)
  Projects,
  Events,     \* events, each with an id of its own
  NoClient

ASSUME LifecycleAssumption ==
  /\ NoClient \notin Clients
  /\ Projects # {}

VARIABLES
  objects,      \* the client objects
  held,         \* those the application keeps a reference to
  retained,     \* those a push in flight keeps: its block uses self.eventStore
  sent,         \* what the push of each contains
  onceToken,    \* of the dispatch_once in sharedClientWithProjectId:apiKey:
  sharedClient,
  threads,      \* where each thread is in that method
  registered,   \* projects whose database is open in this process
  stored,       \* the queue on disk, of every project
  owed,         \* observation: which client took an event that is not settled
  overlapped,   \* observation: clients made before others of their project had gone
  returned      \* observation: what that method has returned in this process

process == <<objects, held, retained, sent, onceToken, sharedClient, threads, registered>>
vars == <<process, stored, owed, overlapped, returned>>

Object == [state : {"unused", "live", "gone"}, project : Projects, database : BOOLEAN]

Thread == [at : {"outside", "called", "inside"}, project : Projects]

Live(k) == objects[k].state = "live"

LiveIn(project) == {k \in Clients : Live(k) /\ objects[k].project = project}

\* A reference is to a client that lives.
TypeOK ==
  /\ objects \in [Clients -> Object]
  /\ held \cup retained \subseteq {k \in Clients : Live(k)}
  /\ sent \in [Clients -> SUBSET Events]
  /\ onceToken \in {"unset", "running", "done"}
  /\ sharedClient \in Clients \cup {NoClient}
  /\ threads \in [Threads -> Thread]
  /\ registered \subseteq Projects
  /\ stored \in [Projects -> SUBSET Events]
  /\ owed \in [Events -> Clients \cup {NoClient}]
  /\ overlapped \subseteq Clients
  /\ returned \subseteq Clients \cup {NoClient}

AnyProject == CHOOSE project \in Projects : TRUE

Init ==
  /\ objects = [k \in Clients |-> [state |-> "unused", project |-> AnyProject,
                                   database |-> FALSE]]
  /\ held = {}
  /\ retained = {}
  /\ sent = [k \in Clients |-> {}]
  /\ onceToken = "unset"
  /\ sharedClient = NoClient
  /\ threads = [t \in Threads |-> [at |-> "outside", project |-> AnyProject]]
  /\ registered = {}
  /\ stored = [project \in Projects |-> {}]
  /\ owed = [e \in Events |-> NoClient]
  /\ overlapped = {}
  /\ returned = {}

-----------------------------------------------------------------------------
(* Making clients. *)

\* initWithProjectId:apiKey:, with the store and its database: what several
\* threads share, the registry of open files, is under a lock.
initWithProjectId(k, project) ==
  /\ objects[k].state = "unused"
  /\ objects' = [objects EXCEPT ![k] =
       [state |-> "live", project |-> project, database |-> project \notin registered]]
  /\ registered' = registered \cup {project}
  /\ overlapped' = IF LiveIn(project) = {} THEN overlapped ELSE overlapped \cup {k}

clientWithProjectId(k, project) ==
  /\ initWithProjectId(k, project)
  /\ held' = held \cup {k}
  /\ UNCHANGED <<retained, sent, onceToken, sharedClient, threads, stored, owed, returned>>

CallShared(t, project) ==
  /\ threads[t].at = "outside"
  /\ threads' = [threads EXCEPT ![t] = [at |-> "called", project |-> project]]
  /\ UNCHANGED <<objects, held, retained, sent, onceToken, sharedClient, registered,
                 stored, owed, overlapped, returned>>

\* Faulty: if (!sharedClient) in place of dispatch_once.
EnterOnce_Check(t) ==
  /\ threads[t].at = "called" /\ sharedClient = NoClient
  /\ threads' = [threads EXCEPT ![t].at = "inside"]
  /\ onceToken' = "running"
  /\ UNCHANGED <<objects, held, retained, sent, sharedClient, registered, stored, owed,
                 overlapped, returned>>

\* The first thread runs the block of dispatch_once; others wait for its end.
EnterOnce(t) ==
  /\ threads[t].at = "called" /\ onceToken = "unset"
  /\ threads' = [threads EXCEPT ![t].at = "inside"]
  /\ onceToken' = "running"
  /\ UNCHANGED <<objects, held, retained, sent, sharedClient, registered, stored, owed,
                 overlapped, returned>>

RunOnce(t, k) ==
  /\ threads[t].at = "inside"
  /\ initWithProjectId(k, threads[t].project)
  /\ sharedClient' = k
  /\ onceToken' = "done"
  /\ threads' = [threads EXCEPT ![t].at = "outside"]
  /\ returned' = returned \cup {k}
  /\ UNCHANGED <<held, retained, sent, stored, owed>>

\* Faulty: does not wait for the block that runs.
PassOnce_Early(t) ==
  /\ threads[t].at = "called" /\ onceToken # "unset"
  /\ threads' = [threads EXCEPT ![t].at = "outside"]
  /\ returned' = returned \cup {sharedClient}
  /\ UNCHANGED <<objects, held, retained, sent, onceToken, sharedClient, registered,
                 stored, owed, overlapped>>

PassOnce(t) ==
  /\ threads[t].at = "called" /\ onceToken = "done"
  /\ threads' = [threads EXCEPT ![t].at = "outside"]
  /\ returned' = returned \cup {sharedClient}
  /\ UNCHANGED <<objects, held, retained, sent, onceToken, sharedClient, registered,
                 stored, owed, overlapped>>

-----------------------------------------------------------------------------
(* Using them, as far as the queue goes. *)

Usable(k) == Live(k) /\ (k \in held \/ k = sharedClient)

\* addEvent:toCollection:withError: answers YES, whether there is a database
\* to store the event in or not.
AddEvent(k, e) ==
  /\ Usable(k)
  /\ e \notin (UNION {stored[project] : project \in Projects}) \cup (UNION {sent[j] : j \in Clients})
  /\ owed[e] = NoClient
  /\ owed' = [owed EXCEPT ![e] = k]
  /\ stored' = IF objects[k].database
                 THEN [stored EXCEPT ![objects[k].project] = @ \cup {e}]
                 ELSE stored
  /\ UNCHANGED <<process, overlapped, returned>>

\* pushAllPendingEvents.  Without a database it does nothing at all.
PushAllPendingEvents(k) ==
  /\ Usable(k) /\ objects[k].database /\ k \notin retained
  /\ retained' = retained \cup {k}
  /\ sent' = [sent EXCEPT ![k] = stored[objects[k].project]]
  /\ UNCHANGED <<objects, held, onceToken, sharedClient, threads, registered, stored, owed,
                 overlapped, returned>>

\* The push ends; S is what Connect settled.
PushEnds(k, S) ==
  /\ k \in retained
  /\ retained' = retained \ {k}
  /\ sent' = [sent EXCEPT ![k] = {}]
  /\ stored' = [stored EXCEPT ![objects[k].project] = @ \ S]
  /\ owed' = [e \in Events |-> IF e \in S THEN NoClient ELSE owed[e]]
  /\ UNCHANGED <<objects, held, onceToken, sharedClient, threads, registered, overlapped,
                 returned>>

-----------------------------------------------------------------------------
(* Releasing them. *)

Release(k) ==
  /\ k \in held
  /\ held' = held \ {k}
  /\ UNCHANGED <<objects, retained, sent, onceToken, sharedClient, threads, registered, stored,
                 owed, overlapped, returned>>

\* Faulty: the block of a push does not retain the client.
Unreferenced_Weak(k) == Live(k) /\ k \notin held /\ k # sharedClient

Unreferenced(k) == Live(k) /\ k \notin held \cup retained /\ k # sharedClient

\* Faulty: the file stays registered.
Deallocate_Registered(k) ==
  /\ Unreferenced(k)
  /\ objects' = [objects EXCEPT ![k].state = "gone"]
  /\ UNCHANGED <<held, retained, sent, onceToken, sharedClient, threads, registered, stored,
                 owed, overlapped, returned>>

\* Faulty: the file is taken off the registry by a client that never opened it.
Deallocate_Any(k) ==
  /\ Unreferenced(k)
  /\ objects' = [objects EXCEPT ![k].state = "gone"]
  /\ registered' = registered \ {objects[k].project}
  /\ UNCHANGED <<held, retained, sent, onceToken, sharedClient, threads, stored, owed,
                 overlapped, returned>>

\* Some time after the last reference is gone the client, the store and the
\* connection go, and at last the database, which YapDatabase's own queues may
\* keep for a while: it closes the file.  Until then the client counts as live.
Deallocate(k) ==
  /\ Unreferenced(k)
  /\ objects' = [objects EXCEPT ![k].state = "gone"]
  /\ registered' = IF objects[k].database THEN registered \ {objects[k].project} ELSE registered
  /\ UNCHANGED <<held, retained, sent, onceToken, sharedClient, threads, stored, owed,
                 overlapped, returned>>

Crash ==
  /\ objects' = [k \in Clients |-> IF Live(k) THEN [objects[k] EXCEPT !.state = "gone"]
                                   ELSE objects[k]]
  /\ held' = {}
  /\ retained' = {}
  /\ sent' = [k \in Clients |-> {}]
  /\ onceToken' = "unset"
  /\ sharedClient' = NoClient
  /\ threads' = [t \in Threads |-> [at |-> "outside", project |-> AnyProject]]
  /\ registered' = {}
  /\ returned' = {}
  /\ UNCHANGED <<stored, owed, overlapped>>

Next ==
  \/ \E k \in Clients, project \in Projects : clientWithProjectId(k, project)
  \/ \E t \in Threads, project \in Projects : CallShared(t, project)
  \/ \E t \in Threads : EnterOnce(t) \/ PassOnce(t)
  \/ \E t \in Threads, k \in Clients : RunOnce(t, k)
  \/ \E k \in Clients, e \in Events : AddEvent(k, e)
  \/ \E k \in Clients : PushAllPendingEvents(k) \/ Release(k) \/ Deallocate(k)
  \/ \E k \in Clients : \E S \in SUBSET sent[k] : PushEnds(k, S)
  \/ Crash

Spec == Init /\ [][Next]_vars

-----------------------------------------------------------------------------
Stored == UNION {stored[project] : project \in Projects}

\* TPConnectClient.h:53: "The event will be stored on the disk until a call to
\* -pushAllPendingEvents is succesful".
StoredUntilPushed ==
  \A e \in Events : owed[e] # NoClient => e \in Stored

\* So it is, across releases, pushes in flight and crashes, for the events of
\* every client that was the only one of its project when it was made.
LoneClientStores ==
  \A e \in Events : owed[e] # NoClient /\ owed[e] \notin overlapped => e \in Stored

\* No two live clients have the database of one project: the operations of
\* the store on it go through one connection, one at a time.
OneOwner ==
  \A k, j \in {k \in Clients : Live(k) /\ objects[k].database} :
    objects[k].project = objects[j].project => k = j

\* sharedClientWithProjectId:apiKey: returns one and the same client to every
\* thread for the life of the process, and never nil.
OneSharedClient == returned \subseteq {sharedClient} \ {NoClient}
=============================================================================
