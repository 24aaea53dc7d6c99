# A TLA+ model of the Connect client for iOS and OS X

This directory holds a TLA+ model of the SDK in `src/`, the TLC
configurations that check it on small instances, and proofs that TLAPS checks
for every instance. File names without a directory are those of `src/`.

## The system

The SDK takes events (dictionaries) from an application, keeps them in a queue
on disk, and pushes them over HTTP to the Connect service, in one batch when
the application asks for it. Events may also be pushed directly.

| part | state | operations |
|---|---|---|
| `TPConnectClient` | the API client, the event store, the shared instance | `addEvent`, `pushEvent`, `pushEventBatch`, `pushAllPendingEvents`, `removePendingEventWithId`, `removeAllPendingEvents`, `sharedClient...` |
| `TPConnectAPI` | an `NSURLSession` with a serial delegate queue; its tasks | `pushEvent`, `pushEventBatch`, the tasks' completion blocks, `processBatch`, `processBatchResponse`, `errorForHTTPStatusCode` |
| `TPEventAPIResponse` | immutable | `eventAPIResponseFromJSON` |
| `TPEventStore` | a YapDatabase table `(collection, id) -> properties`, durable | `addEvent`, `removeEventWithId`, `fetchPendingEvents`, `deleteAllPendingEvents` |
| `TPEvent` | a collection name and a tree of property values | `process` (`validate`, `addDefaultProperties`, `transformValue`), `processBatch` |
| `Utilities` | a shared date formatter | dates to text, constructors of errors |
| Connect service | the events it has recorded (external) | answers each event of a batch with *success*, *duplicate* or neither |
| Example application | - | queues an event on a tap, pushes on entering the background |
| YapDatabase (vendored) | per database: SQLite's file, the snapshot number, change sets, the write queue; per connection: a serial queue, a cache of objects, lock flags; the registry of open files | transactions, `noteCommittedChanges`, connections opened and closed, `flushMemory` |
| other pods | - | logging and the tests' helpers |

How they interact. The application's threads call the client. `addEvent`
processes the event and stores it in one transaction. `pushAllPendingEvents`
fetches the table and serialises it inside one read transaction, and starts a
task; nothing is held while the request is in flight, so events are added and
removed, further pushes started and the process killed meanwhile. The task's
completion block runs on the session's delegate queue, one block at a time. It
pairs the answers with the events *by position*, then removes each settled
event in a transaction of its own, then calls the application's handler.

Below that, a method of the store waits for the serial queue of the store's one
connection, and its block runs there inside a transaction of YapDatabase. The
handlers the methods take run inside the block, before the commit; the one of a
fetch serialises the batch and, if that fails, calls the application. A
connection serves objects from its cache where a row exists. When there are
several connections, each has a cache of its own, and a protocol of snapshot
numbers, change sets, lock flags and a semaphore keeps each in step with what
SQLite shows it.

What makes it hard: answers applied to a queue that has changed since the
request was made; a reply lost after the service recorded the batch, and the
retry that follows; a request that arrives after its retry; a death between two
removals; events the service rejects and events that cannot be serialised, all
in the one batch; handlers that must be called once on each of many exits; handlers
that run inside a transaction, and may call the client again or die with it; a
commit that SQLite refuses while the cache keeps what was written; read
transactions that begin between a writer's look at the other connections and its
commit; change sets that are dropped in another order than they were made.
`PROJECT.json` lists these hazards, each at its line.

What makes each part correct:

* client and store: no queued event is lost; none leaves the queue because of an
  answer about another; a successful push leaves nothing it settled behind; in
  the end everything acceptable is recorded and leaves the queue;
* API: a handler is called once, with YES only for what was recorded and with
  an error when it failed; every push ends;
* life cycle: a client that says it took an event has a database to keep it in, a
  database is open once, and there is one shared client;
* event: what is stored is what was given, ready for serialisation, and does not
  change when processed again;
* store: a method takes effect at one moment before it returns, and the effect
  outlives the process; a call hangs only if a handler calls the client;
* database: a transaction works on one snapshot, writers exclude each other, a
  commit appears at once and stays, no writer waits for ever.

## The modules

| module | models | kind |
|---|---|---|
| `EventQueue` | what the client promises for queued items, and nothing of how | abstract specification |
| `TPEventStore` | `TPEventStore.m`: the methods as operators on the value of the table | operators |
| `TPConnectAPI` | `TPConnectAPI.m`, `TPEventAPIResponse.m`: bodies, replies, completion arguments | operators |
| `ConnectService` | the service, external, as the client relies on it | operators |
| `TPConnectClient` | `TPConnectClient.m` with requests in flight, the delegate queue, crashes, the service | state machine |
| `ClientLifecycle` | the constructors, the shared client, several clients of one project, the stores' databases | state machine |
| `TPEvent` | `TPEvent.m`: processing over trees of values | state machine over inputs |
| `DurableTable` | what the store promises its callers | abstract specification |
| `StoreConnection` | how the methods of `TPEventStore.m` run on the store's connection | state machine |
| `SnapshotStore` | what YapDatabase promises the users of its connections | abstract specification |
| `YapDatabase` | the transactions of several connections: `YapDatabase.m`, `YapDatabaseConnection.m`, the parts they use | state machine |
| `MCTPConnectClient`, `MCClientLifecycle`, `MCTPEvent` | instances for TLC | |
| `TPConnectAPIProofs`, `TPConnectClientProofs`, `GeneratedIds`, `ClientLifecycleProofs`, `StoreConnectionProofs`, `YapDatabaseProofs`, `NatRecursion`, `TPEventProofs` | theorems and proofs | |

`TPEventStore <- TPConnectAPI <- ConnectService <- TPConnectClient` is a chain
of EXTENDS: the first three give the vocabulary and the computations, the last
the state and the actions. `StoreConnection` extends `TPConnectAPI` too: it uses
the same operators for the methods of the store and for serialisation.

The modules are layers. `TPConnectClient` takes a method of the store for one
step that succeeds; `StoreConnection` shows that it may take it for one step
(`ImplementsDurableTable`), and that the step succeeds as long as SQLite refuses no
write. When SQLite refuses one, `DurableTable` allows what the code does: nothing
is stored or removed, and `addEvent` answers YES. `TPConnectClient` has no such
step, so what is said of it below, by runs and by theorems, is said of processes
in which SQLite refuses no write. That concerns `Kept`, `KeptAsQueued`,
`SuccessSettles` and both refinements of `EventQueue`: a refused INSERT would break
the first two, a refused DELETE the third.
`StoreConnection` takes the cache of the connection and SQLite's rows for all
there is, since the store has one connection; `YapDatabase` shows what the
library does where there are several. `ClientLifecycle` says when a client has a
database at all. The runs check the layers one by one: a product of all of them
is out of TLC's reach, and each hides from the one above exactly what its
abstract specification leaves out.

### TPConnectClient

State: `store`, the table on disk; `used`, the ids NSUUID has drawn (they never
come again); `calls[p]`, a record of the push under way, or of the last one in
this process (`kind` is `"none"` when there was none); `requests`, those on
their way to the service, with the push that waits for each; `connect`, what the
service has recorded. `queued` and the field `told` only observe: the payload
last queued for each key and not removed by the application, and the calls of a
push's handler. No other variable depends on them.

| action | code |
|---|---|
| `AddEvent`, `RemovePendingEvent`, `RemoveAllPendingEvents` | the methods of the same names; one transaction each |
| `PushEvent`, `PushInvalidEvent` | `pushEvent:` of an event that validates, and of one that does not; the latter is sent as well, as in the code |
| `PushEventBatch` | `pushEventBatch:`; one invalid event refuses the batch |
| `PushAllPendingEvents` | fetch and serialisation in one read transaction, then the task; when serialisation fails the handler is told at once, when it raises the process dies |
| `ServiceAnswers`, `ServiceFails`, `RequestLost` | the service and the network; a failing service may have recorded the batch |
| `NetworkFailure` | the completion block with an error; the request may still arrive later |
| `CompleteEvent`, `CompleteBatch`, `CompletePending` | the completion blocks with a reply |
| `NextCollection`, `HandleResponse`, `FinishPush` | the two loops over the results, one transaction per settled event, and the handler |
| `Crash` | the process is killed; the table, the service and the requests that left stay |

`RemovesWhatItSent` asks that the push whose batch held the removed event is in its
loops, not only under way; as only one can be, it is the one that goes through its
results. `Kept` is about identities and would not notice a replacement that is removed
unsent: an identity that was recorded once counts as kept, and the run `stale_answer` is a
behaviour of `reuse` that satisfies `Kept`. `BatchHandlerCalledOnce` counts exactly:
no call while the push is under way, and one when it is over. `EveryPushEnds` asks
that a push ends, and that the step which ends it calls the handler or is the death
of the process, for single events too, where the handler of an invalid one has been
called before. A completion block with a silent exit violates both.

Only one push is in its loops at a time (`DelegateIdle`): the session is created
without a delegate queue of its own, and then has a serial one. The order in
which dictionaries are enumerated is left open. Payloads stand for all the other
properties of an event and fall into classes: `Invalid` (refused by `validate`),
`Throws` and `Fails` (serialisation raises, or returns an error), `Rejected` (the
service accepts neither as new nor as duplicate).

### ClientLifecycle

`TPConnectClient` describes one client that has its database. This module says
when a client has it. YapDatabase registers the file of each open database and
returns nil to whoever opens it a second time; `TPEventStore` takes the nil, and
all its messages then go to nil: `addEvent` answers YES and stores nothing, and
`pushAllPendingEvents` never calls its handler.

State: `objects`, each client object with its project, whether it lives and
whether it has a database; who refers to it: the application (`held`), the block
of a push in flight, which uses `self.eventStore` (`retained`), or `sharedClient`;
`onceToken` and `threads` for `dispatch_once`; `registered`, the open files;
`stored`, the queues on disk. `owed`, `overlapped` and `returned` only observe; the
last is all that calls for the shared client have returned in this process, a nil
included, which a thread gets that does not wait for the block of `dispatch_once`.

| action | code |
|---|---|
| `clientWithProjectId` | the constructors of client, store and database; the registry is under a lock, so one step |
| `CallShared`, `EnterOnce`, `RunOnce`, `PassOnce` | `sharedClientWithProjectId:apiKey:`: call, entering the block of `dispatch_once`, its run, and the return of a thread that waited or came late |
| `AddEvent`, `PushAllPendingEvents`, `PushEnds` | the queue as far as the life of clients touches it; any part of what was sent may be settled |
| `Release`, `Deallocate` | the last reference goes; some time later the client, store, connection and database go and the file is closed |
| `Crash` | all objects and the registry go, the files stay |

### TPEvent

A value is tagged with its class: a scalar, an array of values, or a dictionary,
a function from names in which `NoValue` stands where there is no such key.
`Values[n]` are those at most `n` levels deep. `transformValue:` calls itself on
the elements of an array and on what a dictionary answers for its keys, which are
one level down; so one call is an operator, `transformValue(value, deeper)`, that
is given the results of the calls below, and `transformed[n]` ties the knot.
`raises[n]` says in the same way whether some call on the way down raises, and
`leaves[n]`, for the properties, which scalars a value has and where.

The state is the event, what it was given, and what `process:` did (`outcome`).
The actions are `Refuse` (`validate:` finds fault, nothing changes) and `Process`
(default properties, then the transformation; an exception on the way leaves the
default properties in the event). An event is processed once, and again when the
application queues the properties that came back with the results of a push.

`valueForKey:` is modelled by what it does with names that begin with `@`: it
raises for those in `OperatorNames`; for those in `AnsweredNames`, such as
`@count`, the dictionary answers about itself and the answer takes the value's
place. The ones in `ListingNames`, such as `@allValues`, are answered with the
values themselves, the others with what `Answer` says, a function of the names that
are present. How deep the damage goes is what `NothingElseChanges` and
`ProcessedOnce` say.

### StoreConnection

State: `disk`, what SQLite has committed; `working`, what the running write
transaction has made of it; `objectCache`; `connectionQueue`, the threads in
`dispatch_sync`, the first of which runs; `calls[t]`, the method thread `t` is in
and how far; `faults`, the writes that SQLite failed since the process began.

| action | code |
|---|---|
| `Call` | `readWithBlock:`, `readWriteWithBlock:`, up to the queue |
| `AddEvent`, `RemoveEventWithId`, `DeleteAllPendingEvents`, `FetchPendingEvents` | the blocks of the methods, up to the handler; with the object cache, which a remove without a row does not touch |
| `StatementFails` | SQLite refuses the INSERT or DELETE: logged, and the block goes on |
| `WriteHandlerReturns`, `RefusedWriteReturns`, `FetchHandlerReturns` | the handler returns; a fetch and a write that changed nothing leave the queue |
| `FetchHandlerRaises` | serialisation raises and nobody catches it: the process dies |
| `HandlerCallsClient` | the application's handler, told of an error, calls the client from inside the transaction: `dispatch_sync` to the queue it runs on |
| `Commit`, `CommitFails` | SQLite's COMMIT; a failed one is logged, and the cache kept |
| `Return` | the caller goes on; `addEvent` answers YES on all ways |
| `flushMemory` | a memory warning empties the cache |
| `Crash` | the process is killed; only `disk` stays |

The question what a handler has been told when the process dies before the commit
is answered by `ImplementsDurableTable`: the handlers of the writes are empty or
nil in this code, and a caller is told after the commit only. The question whether
a handler that calls the client waits for its own queue is answered by the guard
of `EveryCallReturns`: it does, for ever, and nothing else makes a call hang.
`QueueMoves` is the safety half of that: whoever waits, waits for a block that can
go on or for such a handler, however the calls before it ended.

### YapDatabase

State: `disk`, SQLite's last commit with its snapshot number; `snapshot`, the last
commit announced to the connections; `changesets`, kept for those that may have to
look them up; `groups`, the commits whose change set waits for some connection;
`writeQueue`, who is in it. For each connection: `phase`, `lock` (the flags of
`YapDatabaseConnectionState`), `waitingForWriteLock`, `writeSemaphore`,
`signalling`, `current` (its snapshot number), `objectCache`, `view` (what SQLite
shows its transaction), `changes`, and `inbox`, the change sets queued on it.
What runs in the database's snapshot queue is one action.

| action | code |
|---|---|
| `BeginRead` | `preReadTransaction:`: deferred, or with SQLite's snapshot at once while somebody writes; change sets it missed are processed |
| `Select`, `markSqlLevelSharedReadLockAcquired` | the first read, by an enumeration of cached rows too, gets SQLite's snapshot, and then marks that |
| `EndRead`, `SignalWriteLock` | `postReadTransaction:`, and the signal, sent outside of the snapshot queue |
| `BeginWrite`, `SetObject`, `RemoveObject`, `RemoveAllObjects` | `preReadWriteTransaction:` and the changes |
| `IncrementSnapshot`, `CheckReaders`, `WaitForWriteLock`, `Commit`, `NoteCommitted` | `postReadWriteTransaction:`, step by step |
| `Rollback`, `FinishRollback` | the block asked for a rollback |
| `noteCommittedChanges` | the block on a connection's queue that processes a sibling's change set |
| `DropChangeset` | the block of `dispatch_group_notify`, which drops the oldest change set |
| `Open`, `Close`, `flushMemory` | `addConnection:`, `removeConnection:`, a memory warning |

The client uses one connection, and relies on this protocol only through the
snapshot of its transactions. It is modelled because it is the part of what the
repository ships that is hardest to get right, and because an application that
opens a second connection on the store relies on all of it.

## The runs

| run | question | instance |
|---|---|---|
| `queue` | does the client implement `EventQueue` on events with generated ids, with nothing lost and nothing removed but what was answered? | 2 collections, 2 ids, an acceptable and a rejected payload, 2 pushes |
| `reuse` | what is left of this when the application reuses an id, are the handlers of all kinds of pushes told the truth, exactly once, with an error where a batch failed, and does every push end, never without a word? | 1 key, 4 classes of payload, all statuses, 2 pushes of different kinds |
| `online` | does everything get recorded, and leave the queue? | 2 collections, 2 ids, 1 push |
| `properties` | is processing sound, for every small tree? | trees up to 3 levels deep given, up to 5 processed, 7 names, 3 of them beginning with `@` |
| `lifecycle` | does a client that is alone in its project store what it takes, is a database ever open twice, do all get one shared client, and never nil? | 3 client objects, 2 threads, 2 projects, 2 events |
| `store` | does each method of the store take effect at one moment, leave the queue on each way out, and return? | 2 threads, 2 keys, an event that serialises and one that does not, 1 fault |
| `database` | do the caches, change sets and locks give snapshot isolation, is a writer's wake-up ever lost, and does every writer commit? | 3 connections, 1 key, 1 value, 2 commits |
| `stale_answer`, `invalid_sent`, `unexplained`, `poison`, `second_client` | findings, see below | smallest that shows it |

Bounds. The number of pushes under way is a constant: two are enough for an
answer to meet a queue another push has changed, and a slot is used again and
again. Ids drawn by NSUUID are never drawn again, so two ids bound the number of
events in `queue` to two, enough for a batch in which one event is settled and
one is not, and for a batch that leaves out an event added later; with two
collections they may be in one array or in two. `reuse` lets one id be queued any
number of times, and `Kinds` says which methods a slot may be used for: there, the
pending events in both, single events in one and batches in the other. `Statuses`
bounds the error replies: a push of pending events treats all of them alike, so
one stands for all where only these are made. Symmetry is used in runs without
liveness only: of pushes, ids and collections in `queue`, where no id is the
application's and nothing tells them apart; of pushes in three of the findings;
of clients, threads and events in the two runs of `ClientLifecycle`. No run disables
the deadlock check but `properties`, where a computation ends.

Client objects are used once in `lifecycle`; three allow a client to be replaced
by one made too early and then by one made in time, or two clients of the
application beside the shared one.

`MaxFaults` in `store` bounds the failures of one life of the process: after one
the cache is no longer trusted, and a further one adds nothing but another such
key. `MaxSnapshot` in `database` bounds the commits: with two, groups finish in
either order and a connection can be two behind. Three connections are needed for
a third to begin between the steps of a writer and of the reader that holds it up,
and for two readers to end at once. One key and one value are enough to see a
stale object, as it is there or not. That a commit appears at once on *several* keys
is therefore not seen in this run; it rests on the theorem `SnapshotIsolation`, which
like the others is for any number of all these.
`MaxDepth` in `properties` bounds how deep the trees are that are processed:
`@allValues` puts a dictionary's values under a key of their own, so that each time
such an event is processed it grows deeper, and one that has grown beyond the bound
is not processed again.

Fairness. `TPConnectClient!FairSpec` assumes what the runtime gives: the session calls the
completion block of every task sooner or later, because a request has a timeout
and the delegate queue is first in, first out (strong fairness, since a block may
have to wait for another one again and again), and a block that has started goes
on (weak fairness). `OnlineSpec` adds what "until a call to
-pushAllPendingEvents is succesful" takes for granted: the application pushes
again, and a service that is asked again and again answers, and its answer
arrives, again and again (strong fairness: both may fail any number of times).
`EventuallySettled` supposes besides that the process stops being killed: else
it may die each time before the first removal. `StoreConnection!FairSpec`: the thread
whose block is first in the queue runs, and a handler that does not call the
client returns. `YapDatabase!FairSpec`: the library's own steps follow each other,
and the block of a read transaction returns. Nothing is assumed there of beginning
transactions, of blocks queued on other connections, or of a read-write block's
return: `WriterCommits` is about a writer that has left its block.

## Findings

* `stale_answer`: an id given by the application and queued again while its first
  event is in flight: the answer about the first removes the second, unsent
  (`TPConnectClient.m:138`). With generated ids this cannot happen (`queue`).
* `invalid_sent`: `pushEvent:` does not return after a validation error
  (`TPConnectClient.m:94`); the event is sent and the handler called twice.
* `unexplained`: for a listed HTTP error the handler gets a nil error
  (`TPConnectAPI.m:155`).
* `poison`: one event JSON cannot express, such as NaN, which `process:` lets
  through, keeps all events from being sent, after each restart again
  (`TPConnectAPI.m:272`).
* `second_client`: a client made while an earlier one of its project still lives
  has no database (`TPEventStore.m:48`). Replacing a client by a new one is
  enough, since the new one is made before the old one has gone; so is a push in
  flight, which keeps the old one.

## The proofs

Proofs hold for every value of the constants under the assumptions the modules
state: the classes of payloads are payloads, the `No...` values are none of the
values they stand beside, ids are finite in number, and there is at least one key
where the queue or the database is proved about. `GeneratedIds` assumes besides
`CallerIds = {}`, in each theorem's statement: the application chooses no ids.

**The client** (`TPConnectClientProofs`), caller-chosen ids included:
`TypeCorrect` (`[]TypeOK`), `NothingLost` (`[]Kept`), `ClientImplementsQueue`
(the refinement of `EventQueue` by identities). All follow from one inductive
invariant, `IInv`. `Kept` alone is not inductive: that removing an event is
justified rests on the results in hand, these on the reply they were made from,
and the reply on the batch the service answered being the batch the push
remembers. So `IInv` says besides that a request somebody waits for carries the
batch of the push that waits and is unanswered (`RequestsMatch`), and that
whatever a push holds as settled, in its reply, its results or its remaining work,
is recorded (`Honest`). That the service's record only grows (`RecordGrows`) and
that its answers are true of it (`AnswerTrue`) is what is used of the service.
Type correctness needs the same invariant, as an answer longer than its batch
would index beyond it. There is one lemma per action, resting on lemmas on how a
push moves, ends, is sent or dies. For the refinement each action is mapped:
adding to `Enqueue`, removing to `Discard`, the service's steps to `Record`, a turn
of the inner loop to `Settle` (allowed by `Honest`) or to a stutter, everything
else to a stutter.

`QueuePromises` draws the conclusion: the client keeps both promises of
`EventQueue`, that nothing queued is lost and that nothing withdrawn comes back.

**Handlers** (also in `TPConnectClientProofs`): `HandlerOnce`
(`[]BatchHandlerCalledOnce`), `NoSilentEnd` (the safety half of `EveryPushEnds`),
`BatchExplained` (`[]BatchFailureExplained`) and
`YesIsRecorded` (`YesMeansRecorded`). The invariant `HandlersOK` says of each push
that the handler of a batch method has not been called while the push is under
way, has been called once when it is over, and was told a success or an explained
failure, and that a `pushEvent` with reply 200 has been recorded. The steps of the
client are sorted by what they do to one push (`Moves`): nothing, death, start, answer,
completion, a turn of the loop, end; the invariant is shown for these seven, and a push
under way is ended by death, completion or end only (`NoSilentEnd`).

**Around the findings** (also in `TPConnectClientProofs`): the runs that expect a
violation show that something can go wrong; these theorems say that it goes wrong
there only. `OnlyPushEventSendsInvalid`: in a behaviour without a `pushEvent` of an
event that fails validation, no request carries one (`[]InvalidNeverSent`); it
rests on `StoreValid`, that only validated events are stored. With the same
invariant `QueueSerialises`: if validation refused all that cannot be serialised,
which the code does not do, every batch that can be fetched from the queue could
be sent; its hypothesis is the repair that `poison` asks for.
`OnlyRepliesUnexplained`: in a behaviour in which no `pushEvent` completes with an
HTTP error other than 401, every failure comes with an error
(`[]FailureExplained`). For `stale_answer` this is `OnlySentRemoved` below, for
`second_client` it is `LoneClientKeeps`.

**Generated ids** (`GeneratedIds`): `EventsKept` (`[]KeptAsQueued`),
`OnlySentRemoved` (`RemovesWhatItSent`), `PushSettles` (`SuccessSettles`),
`ClientImplementsEvents` (the refinement of `EventQueue` by whole events). The
code never compares an answer's event with the one in the queue; that the two
are the same follows from `OneEventPerId`: an id names one event wherever it is met,
on disk, in the batch of a push, in a request its push has given up, or at the
service. `LoopsOK` adds that the results and the work of a push are about its
batch, that every event of it is answered, and that an event of the batch that is
still on disk during the loops, and is not rejected, is yet to be removed. The run `stale_answer` shows that
the assumption cannot be dropped.

**Life cycle** (`ClientLifecycleProofs`): `TypeCorrect`, `LoneClientKeeps`
(`[]LoneClientStores`), `DatabaseOwnedOnce` (`[]OneOwner`), `SharedByAll`
(`[]OneSharedClient`). The queue rests on `QueueInv`: a file is registered
exactly while a live client has its database (`RegistryOK`; without "exactly" a
client made alone might find the file still registered), a client made alone has
the database (`LoneHasDatabase`), and what it took and was not settled is in its
own project's queue (`OwedOK`). The shared client rests on `OnceOK`: at most one
thread is in the block of `dispatch_once`, only while it runs, nothing is returned
before its end, and after it there is a client to return.

**The store's connection** (`StoreConnectionProofs`): `TypeCorrect`,
`HandlersSeeStore` (`[]HandlerSeesStore`), `OnlyReentryBlocks` (`[]QueueMoves`),
`StoreIsDurable` (`ImplementsDurableTable`). `IInv` adds to the properties that the threads in the
queue are those whose calls say so, each once but for one that entered its own
queue, and only the first runs (`QueueOK`), and that the running write
has made of the disk exactly what its call says, while the cache agrees with the
rows as long as nothing failed (`DataOK`). After a failed write only the keys of a
fetch are right, which is what `DurableTable` promises then.

**The database** (`YapDatabaseProofs`): `SignalsSafe`
(`[]SignalledMeansSafe`), `NoSleepForever` (`[]NoWakeUpLost`), `TypeCorrect`,
`CatchesUp` (`[]CanCatchUp`), `SnapshotIsolation` (`ImplementsSnapshotStore`). The locks are proved by
themselves, as they do not depend on what is stored: `Locks` says that the flags
of a connection fit its phase (`FlagsFit`), and that a writer is signalled at most
once for each wait, by the last reader that holds it up, after which none comes to
(`SignalsFit`). `Awaited` adds to `NoWakeUpLost` that a writer's
flag is up for as long as it waits, so that the last reader to leave sees it. This
is the safety half of `WriterCommits`.
On `Locks` rests `Data`. `NumbersFit` relates the numbers of the disk,
the database and the connections. `ChangesetsFit` is why it does no harm that
whichever group is through drops the *oldest* change set: as many are kept as
there are groups that are not through, the last ones. `InboxesFit` says that each
number a connection has not heard of is that of such a group. `DataFits` is the
heart: in a transaction the cache agrees with what SQLite shows; between
transactions it is wrong only about keys of change sets the connection has not
processed (`Explained`), and so is an old view. For the refinement the table a
transaction works on, from cache or disk, is shown to be what SQLite shows it.

**Events** (`NatRecursion`, `TPEventProofs`): `TypeCorrect` (`[]TypeOK`),
`AcceptedIsReady` (`[]ReadyForSerialization`), `GivenIsStored`
(`[]NothingElseChanges`), `AcceptedOnce` (`ProcessedOnce`), for trees of any depth,
width, names and answers. TLA+ defines a recursive function as one chosen among
those that satisfy its equation. That there is one is a theorem
(`NatRecursion!Recursion`): the set of finite pieces of the function is put together,
with `NatSet`, induction stated for a set of numbers in place of an operator. From
it follow the equations of `Values`, `transformed`, `raises` and `leaves`. Each fact
about processing is then shown by induction on depth: what the transformation
returns is a value, at most twice as deep (`@allValues` moves a level down); its
scalars are expressible but for those it was given or answered with; its own leaves,
those no `@` name stands on the way to, are the ones given with dates as text; and
what it returned once it neither changes nor raises upon the second time. The
invariant, `Inv`, adds to the properties that an accepted event is `Settled`:
validated, with an id and a timestamp, without dates and without names that
raise at any depth.

Every invariant and action property of the passing runs, and each of the four
refinements, is stated by a theorem. Only model-checked: all liveness (under
fairness, out of the prover's reach).
The findings are counterexamples of TLC's.

## Not modelled

Wording of errors, URLs and headers; the Example's user interface; the other
pods. Replies that are JSON but of another shape than the service's (a longer
array, a string in place of a dictionary) are outside `ConnectService`. A batch in
which the application gives `pushEventBatch:` one id twice in a collection, which the
code takes, is left out of `PushEventBatch`. Names that
begin with `@` are modelled for properties, in `TPEvent`, and not for collections
(`TPConnectAPI.m:243`), which are model values.

Of YapDatabase: extensions, views and relationships, secondary indexes, metadata,
touching, long-lived read transactions, limits of the caches, object policies other
than the default, checkpoints, the pool of `sqlite3` handles, compiled statements.
The event store uses none of them, and they are most of the pod's lines, much of
them declarations and documentation in headers. Of SQLite it is assumed that a
COMMIT that fails leaves nothing of its transaction, and that the snapshot of a
transaction is taken by its first read. The case of a COMMIT that answers
SQLITE_BUSY and leaves the transaction open is left out: the connection is the only
one of the file.
Statements and commits that fail are in `StoreConnection`, with one connection, and
in neither `YapDatabase` nor `TPConnectClient`.

## Plan

1. Done: the client, its life cycle, event processing, the store's connection, the
   database's transactions, and proofs of every safety property of
   all five.
2. What could follow: several clients of one project on `YapDatabase` instead of on
   a registry; long-lived read transactions and `YapDatabaseModifiedNotification`
   for applications that show the queue; replies of other shapes.
