# Verification of livon-ts

TLA+ models of livon-ts: its packages, the command line and the tools that keep
state, TLC configurations that check them on small instances, and proofs, checked
by TLAPS, that hold for every value of the constants. Paths below are relative to
`src/` of the repository; `packages/sync/README.md:176` is a file and a line.

    tlasany M.tla                               parse a module
    tlc -workers 2 -config X.cfg M              model-check (X.cfg and M: table of runs)
    tlapm EntityStoreProofs.tla                 check the proofs of a module

Contents: 1 the system, 2 plan, 3 modules, 4 runs (bounds, deadlock, fairness),
5 what is proved, 6 where the code and its documentation differ, 7 not modelled.

## 1. The system

livon connects client state to a server by events. On the client, `@livon/sync`
keeps entities in one store per entity type and lets *units* (sources, actions,
streams, views, transforms, drafts) read and write them; a transport carries
requests and events; on the server a runtime runs modules (schema, transport,
dead letters) whose hooks surround every event. A contract (`@livon/schema`) is
served by the schema module; the command `livon` fetches its tree and generates the
client that calls it.

All of it is JavaScript: a call runs to completion, and concurrency is what
happens between calls, that is promises that settle in any order, timers,
microtasks and socket events. A step of every model is therefore one call, one
callback or one continuation between two awaits; what may happen between two steps
is unrestricted. Processes (client, server, command line, release tools) run beside
each other and may be killed between any two steps.

### Inventory

| Component | State | Operations | What is hard |
|---|---|---|---|
| Entity store `packages/sync/src/entity` | entities by id; membership per unit and its reverse index; orphan expiries and one sweep timer; dirty units and the queued flush; drafts | upsertOne/Many, deleteOne/Many, register/unregister/set/clear membership, orphan sweep, flush, draft set/clear/commit | units join and leave while the timer runs; one timer for all orphans; two indexes that must agree; batched notification |
| Units on the store `packages/sync/src/utils/entity*.ts` | a unit's own list of ids, mode, mode lock, value | upsert, delete, setMany, getValue of a run context | the list is kept beside the store's record; values are refreshed lazily (source) or eagerly (action, stream) |
| Source units `packages/sync/src/source` | payload, run sequence, runs in flight, status, cleanup, cache record, index of recent records | load, refetch, force, set, reset, subscribe | overlapping runs of several payloads, joining, overtaken runs, resets in between, deferred cache writes, copies of the index |
| Action and stream units `packages/sync/src/action`, `stream` | runs, status, cleanup, listeners | submit; start, stop, unsubscribe | overlapping runs, stop before a run has settled |
| Lazy units `streamLazy.ts`, `actionLazy.ts`, `sourceLazy.ts` | the imported unit, waiting calls, listeners, the bridge | start, submit or load, subscribe, getSnapshot, stop | listeners and calls before the import is over, an import that fails |
| Views, transforms `view.ts`, `transform.ts` | dependencies and their snapshots, recompute flags | get, apply, recompute, refresh | dependencies change while a recomputation reads them |
| Drafts `draft/`, `entity/entity.ts` | a draft, its owner and mode, a queued draft | set, clear, reset, commit | two identities edit one entity; commits and deletes in between |
| Client transport `packages/client-ws-transport` | current socket, queue, pending requests, timeouts, two reconnect timers | request, connect, close, socket events | replaced sockets keep their listeners; answers, timeouts and close race; send throws half way |
| Source cache storage `utils/indexedDbCacheStorage.ts` | in-memory mirror, pending reads and writes, failure budget | getItem, setItem, removeItem, flushes, reconnect | failed batches put back, late successes, disabled storage |
| Runtime queue, bounded caches `runtimeQueue/`, `utils/*Cache.ts` | keyed task queue; entries by key and their order | enqueue, flush; get, set, delete, clear | coalescing; a task that enqueues or flushes; eviction order |
| Tracking `tracking/` | plans to destroy units and one timeout; one snapshot per unit | schedule, sweep; read, tell | one timeout for all plans; several adapters of one unit |
| Serialisation `utils/structuredSerialization.ts` | none (a format) | serialise, deserialise, stable key | cycles, sharing, special numbers, data that looks like marks |
| Adaptive read/write `utils/adaptiveReadWrite.ts` | a matrix of measurements | choose batch and subview per operation | what a configuration leaves open |
| Runtime `packages/runtime` | registries of hooks | emitReceive/Send/Publish/Error, register | hooks that call next twice, later or not at all; failures of error hooks |
| Server transport `packages/server-ws-transport` | clients by socket | connection, message, broadcast, ping | clients that leave during a broadcast |
| Dead letters `packages/dlq-module` | stored events, ticker, tickRunning | store, tick, replay | store against tick, attempts and giving up |
| Schema `packages/schema` | none; the contract | parse, compose, describe, run an operation | values parsed again and again; names that collide |
| Client generator and client `packages/client` | the client's methods; handlers per place and topic | generate types; call, hydrate, subscribe, dispatch | names made from names; toggles before and after registration |
| Command line `packages/cli` | four files on disk, checksum, polling, the linked command | read arguments, sync, build, poll | crashes between writes; failures between steps; answers to others |
| Link check `tools/policies/link-check.ts` | list of URLs and a shared index | read, resolve, fetch | runners that interleave; fallbacks |
| Release tools `tools/release` | manifests, their backups, versions | sanitise, pack, publish, restore, bump | failures and kills between manifests |
| React bindings, policy and README checks, benchmarks, examples, website | | | section 7 |

### How they interact

A run context of a unit calls the store twice per write: first the upsert (or
delete), then the membership of the unit. The store answers by notifying the units
that refer to the entities, at once or in a microtask of the runtime queue; a unit
then refreshes its value (action, stream) or marks it dirty (source) and tells its
listeners. A source's `run` is usually a transport request, which settles when the
server answers, when a timeout fires, or when its socket closes. The transports
hand what they receive to the runtime's hooks; the schema module's hook runs the
operation the event names, publishes, and emits the answer to all clients, which
pick theirs by its correlation; a hook that fails ends in the error hooks, and the
dead-letter module stores and later replays the event. The command line asks the
server for the contract's tree over the same broadcast.

### What makes each part correct

* Store: the indexes agree; an entity somebody refers to never expires; whatever
  waits for a sweep has a timer; every change is told to every unit concerned.
* Units: a unit shows what the store has for its list, or knows that it does not;
  an entity a unit lists does not vanish because another unit let go of it.
* Sources: one run per payload at a time; the newest run decides; no cleanup is
  lost; a unit that says it is loading is; the cache ends up with what is shown.
* Lazy, derived and draft units: listeners know what the unit shows; a view follows
  what it was computed from; a draft has one owner and nothing waits for nobody.
* Transport: every request is in one place until it is settled, and is settled
  once; a pending request is tied to a connection that will report its end; the
  transport never gives up reconnecting while a connection is wanted.
* Storage, queue, scheduler, caches: what is put off is done, what is bounded keeps
  what was used last, what is saved comes back as it was.
* Server: a failure is reported or kept and replayed up to its attempts; what an
  envelope holds comes to whom it is for.
* Contract and client: parsing settles; a call runs the operation it is meant for;
  the generated types say what the schemas say.
* Tools: files are whole after a success whatever failed before; manifests come back.

Further hazards, line by line, are in `PROJECT.json` ("hazards").

## 2. Plan

| # | Modules | State |
|---|---|---|
| 1 | `EntityStore`, `EntityStoreProofs`; `ReadWrite` for its batching | done, proved |
| 2 | `EntityUnits`, `EntityUnitsProofs`: units composed with the store | done, proved |
| 3 | `SourceUnit`, `SourceUnitProofs` | done, proved |
| 4 | `ClientTransport`, `ClientTransportProofs`, with `RequestLife` as its abstract specification | done, proved, with the refinement |
| 5 | `LazyUnit` with `StreamUnit`, `ActionUnit` and `LazySource`; `DerivedUnit`; `Drafts`; `TrackedUnits` | checked together in `MCApplication`, proved in `ApplicationProofs` |
| 6 | `RuntimeHooks`; `DeadLetterQueue` composed into `Service`; `SchemaSync` | checked together in `MCServices`, proved in `ServicesProofs` |
| 7 | `CacheStorage`, `SourceCacheIndex`, `RuntimeQueue`, `DestroyScheduler`, `KeyCaches` against `RecentKeys` | checked together in `MCSupport`, proved in `SupportProofs` |
| 8 | `ClientEvents`, `Exchange` | the same |
| 9 | `LinkCheck`, `Releases`, `CommandLine` | checked in `MCSupport`, proved in `ToolsProofs` |
| 10 | `Schema`, `Client`, `Serialization` | model-checked on samples, in `MCSamples` |

What is left: which hooks of a chain are called when some unsubscribe, and what the two liveness
properties about one step at a time (`DeferredWorkIsDone`, `LoadingEnds`) rest on, as invariants.

## 3. Modules

Definitions that begin with the comment "Mutant" are deliberately wrong variants of a
definition next to them; they show that a property notices the mistake and are not part of
any `Next`. History variables, that is variables the code does not have, say so in their
comment.

`MCEntityStore`, `MCEntityUnits` and `MCSourceUnit` name the values of constants and the
symmetries; the four kinds of transport are named at the end of `ClientTransport`.
`MCApplication`, `MCSupport` and `MCServices` hold several
components that share no state: a variable (`instance` or `part`) is chosen once, the chosen
component acts, the others stay in their first state. `MCSamples` extends `MCSupport` with what
its parts work on (sample schemas, contracts, objects, command lines, documents, workspaces) and
with three more parts that are mostly functions of their samples, many of them recursive: schemas,
the contract and saved values. They are kept apart because nothing can be
proved where recursive operators are in reach. Every behaviour of `SamplesSpec` is one of
`MCSpec`, of which the theorems speak. The modules that end in `Proofs` hold theorems and what
they need, and are read last.

### The store and its units

**EntityStore** (`packages/sync/src/entity`). State, named as in the code: `entitiesById`,
`membershipIds` (per unit), `unitKeysById` (the reverse index), `orphanExpiresAtById`,
`orphanNextSweepAt` (when the one timer fires), `dirtyUnitKeys`, `flushQueued`, the clock
`now`, and the history variable `outdated`: the units with a changed entity that were not
told. Every exported operation is an action with its whole effect: `RegisterUnit`,
`UnregisterUnit`, `ClearUnitMembership`, `SetUnitMembership`, `UpsertOne`, `UpsertMany`,
`DeleteOne`, `DeleteMany`, plus `SweepTimerFires`, `ReadSweeps` (getById on a platform without
timers), `FlushDirtyUnits` and `Tick`. The orphan bookkeeping (`LetGo`, `MoveUnitKey`,
`OrphansDropped`, `OrphansScheduled`, `TimersAfterAdopting`, `SyncedByScan`) follows
`createOrphanMethods.ts`, also where the code is economical: the timer is re-synchronised only
if the entry that was removed is the one it waits for. Lists are sets with a length, because
`setUnitMembership` compares a size with a length (`LooksUnchanged`). Where the result depends
on the order of the list (a new orphan arms the timer), the model allows every order.

**ReadWrite** (`utils/adaptiveReadWrite.ts`, `entity/createEntityReadWriteStrategies.ts`). What
a configuration and the measured matrix choose for each operation. `EntityStore.cfg` takes
`BatchOne` and `BatchMany` from it, and the assumption `ChoicesAreHonoured` checks that what
the application says is what is chosen.

**EntityUnits** (`utils/entityMembership.ts`, `entityMode.ts`, `entityRunContextMethods.ts`).
Extends `EntityStore` with the units' own state: `ownIds` (internal.membershipIds, a list, not a
set), `hasValue`, `value`, `dirty` (isValueDirty), `pending` (hasPendingRefresh of the run
context), `heard` (the last snapshot listeners got), and `call`: the second half of a run
context's write. A write is two store calls in one synchronous stretch, so while `call` is set
nothing but its second half can happen. `JoinUnit` is setManyEntityMembership with its early
return for an unchanged list (`LooksJoined`), `UpsertForUnit` (with `ApplyRunResult`) and
`DeleteForUnit` the run context's methods, `RunSettles` the part of executeRun that refreshes
the value, `NotifyUnits` and `Flush` the notification with the units' onChange. Units are of
mode `many`.

**Drafts** (`entity/entity.ts`, `draft/`). One entity and the draft units of three modes over it.
A version is the set of edits merged into an object, with the step that made the object,
because a source of one compares fields and a source of many objects. `Set`, `SetNothing`,
`Clear`, `Commit`, `Upsert`, `Delete` are the operations; `draft`, `owner`, `draftMode`, `local`
and `queued` are the store's records of it, `heard` is what listeners were told. A deletion goes in
two halves: first the entity, while the draft is still there, and the units' sources, which are
members no more, are told of it; then the draft, and nobody is told (6). `held` says that the
sources are members; afterwards each computes its value once more, when it is read, and keeps it
(`settled`, `frozen`). That a later run of a source takes the entity up again is not modelled here,
nor that a store with 32 member units and more puts the notification off to a microtask, which then
comes after both halves.

### Runs of units

**SourceUnit** (`source/source.ts`). One unit. A run is a record: phase (none, starting, running,
settled, done), sequence number, payload, how it is tracked (the single slot or the map by payload),
whether it wrote, whether it returned a cleanup. `settled` and `done` are different phases
because the `finally` handler that frees the slot runs in a later microtask than the `then`
that sets the status. `Load(p)`, `LoadAgain`, `ForceAgain` are the ways into executeRun:
`JoinRun`, the ttl's `UseTtl` (which takes a sequence number first), `StartRun`. A run that is
*starting* has been called (`source.ts:875`) and is not tracked yet: it may `Write` and `Reset`
before it returns its promise, which `Track` then puts into the slot or the map (`:939-948`), or it
throws (`RunThrows`). Nothing else acts meanwhile (`Quiet`): a run that calls load of its own unit
before its first await, or a listener that does, is left out. `Write` is a set or upsert of the run
context, gated by `ActiveContext`: runs of one payload share a context whose gate belongs to the run
started last. It asks for the cache record as set does; the upserts ask for it only through the
change of a member (`:730-743`). `Fulfil`, `Fail`, `Finish` are the
handlers of the promise; `Reset` is resetState; `Expire` the end of the ttl. Data are abstracted
to the payload and the epoch (number of resets) they come from. `options` is rigid: one run
checks several kinds of source.

**SourceCacheIndex** (`source/source.ts`, the list of recent records). `index` is the list in the
storage, `records` the records, `copies` each unit's own copy of the list, loaded when it first
uses it. `Hydrate`, `Write`, `Clear`, `Age` are a unit's operations and its record's ttl,
`Restart` a new start of the application. `outdated` remembers that a copy was used that was
not the list in the storage any more (6).

**LazyUnit** (`streamLazy.ts`, `actionLazy.ts`, `sourceLazy.ts`) has what the wrappers share.
`unit` is how far the import is, `asked` the calls that await it, `listeners` the wrapper's and
`attached` whether its bridge is the unit's listener. `status`, `value` and `kept` are the
unit's state and its cached snapshot; `kept.told` says that this very snapshot is the one told
last, which the code compares by identity. `member`, `entity` and `due` stand for the store:
the entity the unit shows and the notification it owes. `Ask`, `Import`, `ImportFails`,
`Subscribe`, `Leave`, `GetSnapshot`, `OnChange` are the handlers; `NotifyUnit` is notifyUnit
with the assignments before it. `heard` and `quiet` are history.
**StreamUnit** adds the runs of `stream/stream.ts`: `TakeUpStart` is a start that got the unit, up
to the promise of its run; `Succeeds` and `Fails` its settling; `Stop` the wrapper's stop;
`Unsubscribe` a listener's leaving with all that follows. A stream's run contexts are always active
(`stream.ts:213`), so `RunWrites` asks for nothing but that a run began. **ActionUnit**
(`action/action.ts`) adds runs with their sharing and their gate, followed through settling and
finally handler as in `SourceUnit`. **LazySource** adds the loads as the wrapper meets them:
`TakeUp`, `TakeUpCached` (answered from the ttl), `ImportHydrated` (the unit comes with its cached
value), `RunWrites`, `Settles`, `SettlesOvertaken`; how runs join and overtake is `SourceUnit`'s.
`RunWrites` sets the value at once; a run's upserts do so with the next refresh (`source.ts:326`,
`:876`).

**DerivedUnit** (`view.ts`, `transform.ts`). `dependencies` is the unit's record of each
dependency: known, snapshot, subscribed, dirty. `computing` is the application's `out` under way
with what it has read; what a computation returns is what it read. `Get` reads the record, or
the unit if there is none; `Change` is a dependency's change with the effect it has on its
subscriber; `Succeeds` and `Fails` end a computation and call `SyncDependencies`;
`QueuedRecompute` is the microtask, `Refresh` the method. Transforms add `Apply`, `Applied` and
`ApplyFails`. That a set which fails sets the status "error" a second time, a microtask later
(`transform.ts:652-656`), is left out.

**TrackedUnits** (`tracking/snapshotStore.ts`, `subscribeTrackedUnit.ts`, `resetTrackedUnit.ts`):
several adapters read one unit through a snapshot kept per unit; `Change` calls the adapters one
by one (`Tell`), and any of them may read in between.

### What units rest on

**CacheStorage** (`utils/indexedDbCacheStorage.ts`). `valuesByKey` and `missingKeys` are what
memory knows, `pendingReadKeys` and `pendingWrites` the two queues, `readsScheduled` and
`writesScheduled` the microtasks; `reads` and `writes` are the one batch each that may be under
way, with the phase it is in: waiting for the database, given it, in its transaction, or refused
it. `database` is databasePromise, `older` remembers whose transaction was created first,
because the database runs overlapping ones in that order. `GetItem`, `Write` (setItem, or
removeItem with no record) and `Flush` are the calls; `RunReadsTask`/`RunWritesTask`,
`BeginReads`/`BeginWrites`, `Reconnects`/`ReconnectFails` the stretches of code between two
awaits; `ReadsSucceed`, `WritesSucceed`, `ReadsFail`, `WritesFail`, `OpenSucceeds`, `OpenFails`
and `ReconnectTimerFires` what comes from outside, followed by the code up to the next await.
`HandleFailure` is handleStorageFailure with all it calls. `wanted` and `reverted` are history:
the last operation asked for per key since the storage was last disabled, and the keys where a
failed batch replaced it by an older one.

**RuntimeQueue** (`runtimeQueue/createRuntimeQueue.ts`): one channel; a task that runs may
enqueue and flush, so what runs is a stack (`Enqueue`, `Flush`, `Callback`, `RunTask`,
`TaskEnds`, `BatchEnds`). **DestroyScheduler** (`tracking/destroyScheduler.ts`): plans and their
one timeout; a sweep calls the units one by one (`Sweep`, `Destroy`, `DestroyThrows`,
`SweepEnds`), and each may plan again. **KeyCaches** (`utils/*Cache.ts`,
`utils/runContextEntryCache.ts`): five bounded caches, each run beside the abstract list
**RecentKeys** (`recent`). `UndefinedKey` is the payload undefined, which the eviction of two of them
takes for an empty order (6). **Serialization** (`utils/structuredSerialization.ts`,
`utils/cloneValue.ts`): a program builds graphs of objects (`Push`, `SetEntry`, `Assign`); what is
written, what is read back and the stable key are functions of the graph.

### Client and server

**ClientTransport** (`packages/client-ws-transport/src/index.ts`). Every socket ever opened is a
state machine of its own with its listeners: the model needs several because `ensureSocket`
replaces a socket that is still connecting and leaves the old one's listeners in place.
`attempt` is the promise of the connection attempt, `awaits` who waits for it, `tasks` the
continuations that are ready. Timers and socket events wait until the microtasks are done
(`Quiet`); calls of the application need not. `queued`, `pending`, `timers` (the running request
timeouts) and the two reconnect timers are the code's; `settled` counts calls of resolve and
reject. `Answer` is a message; `garbled` records requests whose answer failed to decode, which
the code removes from `pending` and never settles (6). **RequestLife** is what all of that
promises of one request: it waits, is sent at most once, and is settled at most once; only a
request that was sent may be lost. `Promised` maps the queue, the pending requests and
the settlements to it.

**Exchange** follows envelopes instead of sockets, which stay open: `Request`, `Deliver`,
`TimesOut` at the clients, `Receive` and the hooks that pass, refuse or throw at the server,
`Publish` and `Answer` of the operation, and `Replay` of what was reported. What a message leaves
out of an envelope (an error beside a payload, a context) is modelled.

**RuntimeHooks** (`packages/runtime/src/runtime.ts`): one emit through the live array of hooks,
each of one of eight behaviours (pass, later, answer, drop, twice, once, throw, reject); the
calls under way form a stack.

**DeadLetterQueue** (`packages/dlq-module/src/index.ts`): reports, the application's asynchronous
store, the ticker, ticks and replays. A count or load that rejects ends the tick; that its promise,
which the ticker ignores (`:295`), is then an unhandled rejection is not shown. **Service** composes
it with the server transport (`packages/server-ws-transport`) and the schema module as `apps/server`
builds them: `Connects`, `StartsClosing`, `Closes`, `Message`, `Echo`, `Undecodable`, `Throws`,
`Pipeline` (the execution, its publications one after the other, the answer), `Replay` and `Resend`.
That the server application also emits an event when a client has left
(`apps/server/src/server.ts:130-139`) is left out.

**Schema** (`packages/schema`): `Validate` for every form of schema, `Conforms` what the inferred
type means; `Parse` parses again what the last parse returned, as the server does between an
operation and its subscribers. Of `api.ts` and `schemaModule.ts` the same module has operations,
field operations and subscriptions, their tree (`Root`), what a module serves (`Served`) and which
operation an event names (`Resolve`). **Client** (`packages/client/src`): the declarations
`generate.ts` makes from the tree, and what each admits; of `client.ts` `Start`, `Connect`, calls of
operations and of field operations on the entities of the last answer, `Serve`.
**ClientEvents**: `Register`, `Toggle`, `Dispatch` of handlers by room and topic. Handlers do not
throw: one of a room that does keeps the global ones from being called (`client.ts:431-440`).

### Tools

**SchemaSync** (`packages/cli/src/index.ts`): the steps of one sync with the four files it writes
one after the other, `Exits` (killed at any step), `Starts`, answers to other processes
(`AnotherIsNotModified`, `AnotherGetsSchema`), failures of requests, writes and builds.
**CommandLine**: readCliArgs one argument at a time (`ReadValued`, `ReadSwitch`, `ReadUnknown`,
`ReadCommand`; a switch that is written with a value is unknown, `KnownAs`), `Finish` with
readCliInput's defaults and checks, among them that a port needs an endpoint that is the URL of a
socket (`Sockets`), the linked command, and the package that is generated. What the line says is
defined a second time without reading it in order (`At`, `LastOf`, `CommandAt`), for the property to
compare with.
**LinkCheck** (`tools/policies/link-check.ts`): `ReadFile`, `Sort`, `Take` (a runner's await-free
taking of the next URL), `Attempt`, `Report`; what was found is a set, because only its members
and, of a list of URLs, some order are used. A path is a folder, a name and an ending, and
`LocalCandidates` the paths that are tried for a target (`Bases`, `Written`, and for modules
`ScriptBase`). **Releases** (`tools/release`): `Begin`, `ApplyOne`,
`PackOne`, `PublishOne`, `RestoreOne`, `SyncOne` one manifest at a time, with failures and
`Killed` between any two, and `Bump` by hand; `Newer` is compareVersions, of versions whose
identifiers are numbers or words (`IsVersion`).

## 4. Runs

| Run (module, configuration) | Bounds | Properties | Question |
|---|---|---|---|
| `store` (`MCEntityStore`, `EntityStore`) | 2 entities, 2 units, 2 contents, retention 1, clock to 3, batches from 2 | `TypeOK` `IndexesAgree` `OnlyOrphansExpire` `NoMemberLosesItsEntity` `RetentionHonoured` `DeferredWorkIsDone` | all of the store, with its liveness |
| `units` (`MCEntityUnits`, `EntityUnits`) | 1 entity, a source and a listened-to stream, retention 1, clock to 2; three instances: with timers, without, and without deletes | `StalenessIsKnown` `ListsAreReplaced` `SettledRunIsHeard` `EntitiesStay` | units know what is old; listed entities stay |
| `units_deleted` | 2 entities, no retention | `ListedEntitiesStay`, violated | finding 1 |
| `source` (`MCSourceUnit`, `SourceUnitRuns`) | 2 payloads, 3 runs, 3 sequence numbers, 1 reset; four sources: plain, with a cache, with a cache and a ttl, with a run that may throw; all but the plain one reset | `TypeOK` `RunsAreShared` `NewestRunWins` `CleanupsRunOnce` `CacheCatchesUp` `LoadingEnds` | all of a source |
| `source_latest` | a plain source, 3 loads | `LatestLoadWins`, violated | finding 2 |
| `transport` (`ClientTransport`) | 2 requests, 3 sockets, 1 continuation waiting; four kinds of transport | `RequestsAreKept` `PendingIsWatched` `ReconnectIsArmed` `ImplementsRequestLife` | all of the transport, and the refinement |
| `transport_close` | the plain transport, 2 sockets | `CloseRejectsEverything`, violated | finding 3 |
| `application` (`MCApplication`, `Application`) | streams, actions, sources and views with 2 calls and 2 listeners; streams and actions with 3 calls and none; transforms with one apply; drafts with 2 edits of three units and 3 of two; 2 adapters of a unit with 3 snapshots | `ListenersAreCurrent` `RunsAreCleanedUp` `OneRunPerPayload` `LoadingIsUnderWay` `DerivedUnitsFollow` `DraftsAreOwned` | what an application calls |
| `view` | a view, 2 changes | `RecomputesFromDependencies`, violated | finding 4 |
| `support` (`MCSamples`, `Support`) | storage: 1 key, 2 records, 3 failures; index: 3 units, 2 entries, 2 starts; queue: 3 keys, 4 tasks, batches of 2; plans: 3 units, delays 0 to 2, clock to 4; caches: 4 keys, limit 2; 3 parses; 2 calls; 3 steps of registering; 2 puts into 2 objects; 2 clients with 2 requests and a replay; 2 runners; 2 starts of a release | `NoWriteIsLost` `CallsRevive` `QueuedWritesAreTaken` `NothingScheduledIsLost` `CachesKeepRecent` `EventsArrive` `ToolsFinish` `ToolsDoTheirWork` `ValuesAreKept` `ClientsFollowTheApi` | what the units rest on, the contract and the tools |
| `services` (`MCServices`, `Services`) | four servers (one to two clients, one to two requests, two or three attempts); 3 hooks of 8 behaviours, 5 calls; 2 schemas, 2 changes, failures, attempts and starts | `HooksAreHonoured` `FailedEventsAreReplayed` `SyncedIsWhole` `ServicesSettle` | the processes around the client |
| `sync_built` | the command line alone | `SyncIsBuilt`, violated | finding 5 |

A property of `MCApplication`, `MCSupport`, `MCSamples` or `MCServices` is the conjunction of its parts'
properties, which are stated and explained in their modules (`DerivedUnit!FollowsItsDependencies`
and so on); the names are in the comments of the four modules.

### Bounds and why they are enough

* Two units are enough for an entity to be shared, adopted and let go of by one while the other
  keeps it; two entities are enough for one timer to serve two expiries and for lists to differ
  in part, in order and in length. Retention 1 with a clock to 3 lets an orphan expire, be
  adopted before and after its expiry, and be orphaned again while another is waiting
  (`WithinHorizon` keeps expiries below the end of the clock). `BatchThreshold` is 2 (32 in the
  code), so that both ways of notifying happen.
* `units` uses one entity: staleness concerns one list at a time, and lists with repetition need
  the state space.
* Three runs of two payloads are the least with which a load can join a run that another one
  overtook, and with which the slot and the map are in use together. One reset suffices to have
  runs of before and after.
* Three sockets: a current one, one that was replaced while connecting, and one that closes. Two
  requests with queues of size 1 and 2 fill the queue and let two requests wait. `MaxTasks`
  bounds how many continuations the application lets pile up before it yields: one is enough for
  a call to slip between a socket's opening and the flush.
* Two listeners are needed for one to leave while the other stays, two calls for runs that
  overlap. Three calls are the least with which a run ends while one tracked by its payload goes
  on and another submit comes; what listeners hear does not depend on that. A view has two
  dependencies, the second read only if the first has a certain value, so that a computation
  gives one up; two changes put one between a computation's read and its end.
* Once the entity of the draft units is deleted, the two units do anything, and the three of the
  other instance only edit, which keeps that instance small.
* One key and two records tell an older from a newer operation, and a write from a delete; keys do
  not interact but for being taken in one batch. A budget of three failures lets the storage
  degrade twice in a row before it is disabled; nothing bounds failures, reconnections or calls.
* Three records with a limit of two, four keys with a limit of two: the oldest goes, and a hit
  changes which one that is. Two starts let a record of before be found.
* Three parses are what the server makes of a published result. Schemas and values in
  `MCSamples` have every form of schema at least once, nested, and values of and not of each.
* Two attempts and a failure more than a test would write let a file be whole, half written and
  stale; two clients let a broadcast fail for one.

### Deadlock

Checked in the runs of the store, of the units and of the transport, where a call is always
possible. Not in the others, because the systems stop when the bounded inputs are used up, or by
their nature: all runs of a source are done; three calls have failed with nobody listening; a
disabled storage ignores every call; a value has been parsed; an emit is over; a tool has ended.

### Fairness

Only what the event loop and the outside world guarantee; no call of the application is ever
forced.

* `EntityStore!FairSpec`: due timers and queued microtasks run, time passes.
* `SourceUnit!FairSpec`: run returns or throws, a run that was tracked settles some day and its
  finally handler runs (the request a run makes ends by an answer, a timeout or the closing of its
  socket); neither in the middle of another call of run (`Quiet`).
* `CacheStorage`, in `MCSupport!StorageFairness`: every microtask runs, and an event (of the
  database or a timer) that is due time and again has its turn; that is strong fairness, because
  calls in between may queue microtasks that the event must wait for. `QueuedWritesAreTaken` has the
  premise that the microtask queue runs dry time and again: an application that queues a microtask
  from every microtask starves the database.
* `Service!Fairness`: the interval timer fires, the application's callbacks settle, replays are
  emitted, and an operation that was started ends.
* `MCServices!SyncFairness`: requests of the command line are answered or time out, and writes and
  builds end. The symmetry of `Services.cfg` permutes hooks only; in the parts that liveness
  speaks of the hooks stay as they were, so that no behaviour is confused with another.

### Abstract specifications

* `ImplementsRequestLife` (run `transport`): every step of `ClientTransport` moves each request
  along `RequestLife!Moves` or leaves it where it is, also when closing settles several at once.
* `CachesKeepRecent` (run `support`): `recent` is moved by `RecentKeys` alone, and each of the five
  caches holds that list, at most `Limit` long, in its own two maps, one map or two slots, and no
  other keys unless the payload undefined has an entry.

Both are proved as well.

## 5. What is proved

The theorems hold for all sets of entities, units, payloads, keys, requests, hooks, listeners,
files and packages, finite or not, all retentions, batching strategies and configurations, and
any bounds. All the safety properties of the passing runs, invariants and action properties alike,
are proved but for the two that only `MCSamples` has. Each is proved the usual way: an
inductive invariant (the name that ends in `Inv`), one lemma for each action or for each group of
alike ones, and a last step in temporal logic.

What is assumed of the constants is what the modules say of them: `StoreAssumption` and
`UnitsAssumption` (lists are sequences of ids; the threshold of batches is above one),
`SourceAssumption`, `TransportAssumption`, `LazyAssumption`, `ServiceAssumption` and
`QueueAssumption` (payloads differ from the mark for none, ids of events from those of requests,
bounds are numbers), `StorageAssumption` (the failure budget is not empty), `ApplicationConstants`,
`ServicesConstants` and `SupportConstants` (the same of the components they hold, and that
documents have finitely many lines and workspaces finitely many packages, that versions are what
parseVersion makes, that no ending is among the endings that are tried, and that no word of a line
is the mark for no value). TLC evaluates them in
every run. No theorem assumes anything of the state but `MembersKeepTheirEntities`, which is about
platforms with timers (`HasTimeoutRuntime`).

Two compositions fix more than their constants. `MCServices` and `MCApplication` also say who
acts (`Instances`; the three units of drafts, two of them of one identity), and the theorems about
them are of those behaviours, for any payloads, requests, hooks, values and bounds. The lemmas on
the steps of the parts (`ServerStep` for `Service!Next`, and the like) do not use these
restrictions.

`EntityStoreProofs`
* `TypeCorrect`, from one lemma per kind of step. The hardest leaf is that `EarliestExpiry` is a
  number: a CHOOSE over a set that may be infinite, by well-foundedness of the naturals.
* `IndexesAlwaysAgree`: `IndexesAgree` is inductive with the type invariant.
* `OnlyOrphansEverExpire`: inductive with the above: an entry is only made where the reverse index
  has become empty, and every adoption removes it.
* `MembersKeepTheirEntities`, `RetentionIsHonoured`: action properties, from the two above. What
  drops an entity is a delete, a sweep that finds it due, or the release of its last unit.
* `SweepIsAlwaysArmed`: the invariant `Covers` (an armed timer not later than any expiry) survives
  the economical re-synchronisation: if the removed entry was not the one the timer waits for,
  the timer was not later than what is left.
* `NoChangeStaysSilent`: needs `SilenceInv`, that only registered units are outdated.

`EntityUnitsProofs`
* `UnitsUseTheStore`: the units with their store implement a store and its callers (`StoreUse`):
  every step of a unit is one operation of the store or nothing to it. All step lemmas above are
  about the operations and not about who calls them, so all of the above holds of the store under
  the units as well, without the bound on the clock: `TheStoreHoldsUnderUnits`.
* `StalenessIsAlwaysKnown`: `UnitsInv` adds that a unit without a registration has no value, and
  that the call under way is of a registered unit; `KnownInv` holds between the two halves of a
  call as well. `SettledRunsAreHeard` follows step by step.
* `ListsAreAlwaysReplaced` and `EntitiesAlwaysStay`: `PlainInv`, that a unit's record in the store
  is the set of its own list and nothing waits for a sweep, for any units but two ids, without
  deletes and retention. With deletes it is false (finding 1).

`SourceUnitProofs`
* `TypeCorrect`; in particular the count of active runs never goes below zero.
* `NoCleanupIsLost`: inductive with `OnlySettledRunsReturn`.
* `LoadsShareRunsInFlight`: what is tracked is in flight, was tracked since the last reset and is
  found under its own payload, but for a run that reset the unit before it was tracked; and runs of
  one payload are shared. `TrackingInv` adds to what is tracked *how* it is tracked, because
  `Finish` frees the slot by that; `StartingInv` that at most one run is starting, that the place it
  will be tracked in is free, and that the unit's payload is the run's or, once that has reset the
  unit, none. Only that run acts before it returns, so this is kept; `SlotsInv` is both together.
  `SharingInv` adds that until the first reset every promised run is tracked (`AllTracked`). After a
  reset this is false (6).
* `LoadingAlwaysMeansRunning`: `LoadingInv` adds that nothing is fresh without a ttl.
* `TheNewestRunWins`: `SequenceInv` adds that sequence numbers differ and none is ahead of the
  unit's.
* `TheCacheCatchesUp`: `RecordInv`. The count of active runs is the number of unfinished ones, by
  the theorems on cardinalities; so the last to finish finds the count at one and writes.

`ClientTransportProofs`
* `TypeCorrect`; in particular the queue never exceeds its configured size.
* `EveryPendingRequestIsWatched`, `TheTransportNeverGivesUp`: one invariant, `Watched`. A socket
  that was open stays the transport's until its close is reported (`SocketsMatch`), and
  `ConnectionComes` is stronger than `ReconnectIsArmed`: the poll is not needed.
* `NoRequestIsEverForgotten`: `Places` counts the places of a request (a continuation, an awaited
  socket, the queue, pending) and its settlements; `Moved` is what a step may do to them.
* `TheTransportImplementsRequestLife`: the refinement. Initial states map to initial states, and
  each step moves every request along `RequestLife!Moves` or leaves it.

`ServicesProofs`
* `WhatIsSyncedIsWhole`: `SyncIsKept` says, phase by phase, which files have been written of the
  answer, with which checksum the request was made, and that without a failure all files are of
  one schema. To be inductive it needed a truer history of failures in `SchemaSync`: a write that
  succeeds repairs only its own file.
* `FailedIsReplayed`: `ServerInv`. An event is in one stage at a time and once (`LettersAreSound`);
  what a tick counted stays in the store until it is loaded, and every replay that runs is one the
  tick waits for (`TicksInOrder`); so what failed is stored, loaded or being replayed, and a replay
  that has come as far as publishing owes nothing, unless it was reported again (`OwedIsKept`).
* `ChainsAreHonoured`: `HookInv`. The calls of an emit are a tree, those on the stack have not
  returned, a call stands where its caller's index points, and a promise that was fulfilled waited
  for none that failed.

`ApplicationProofs`
* `DraftsHaveOneOwner`: inductive with the types (`DraftInv`).
* `SubmitsShareARun`, and the actions' part of `LoadingEnds`: `ActionInv` numbers the runs that
  have begun and says of what is tracked how it is tracked, as for sources.
* `DerivedValuesFollow`, and the views' part of `LoadingEnds`: `FollowedInv`. The record of a
  dependency subscribed to, and what a computation under way has read of it, are what the
  dependency is, unless a change was missed.
* `ListenersKnow`: for lazy units `ListenersInv` (the bridge is up exactly while the unit is there
  and somebody listens; before, nothing runs; a snapshot told is the one every listener has), for
  drafts `HeardDraftsInv` (a version that is made differs from all before it, so that a change is
  noticed), for tracked units `TrackedInv`.
* `CleanupsAndStops`: `EndsInv`. Only a run that is over returned a cleanup, and while runs do not
  overlap none is held while one runs.

`SupportProofs`
* Of the storage: `TypeCorrect`; `QueuedWorkIsScheduled` (`PendingWorkIsScheduled` is inductive);
  `CallsAlwaysRevive`, an action property, from `TimerInv` (a scheduled reconnection has a running
  timer); `WritesAreNeverLost`: `WriteInv` drops the premise that the storage is not disabled,
  because a disabled one may come back, and adds that there is a batch only while one is under way.
* `WorkIsNeverForgotten`: with the above `QueueInv` (a task is in one place, waiting, under way,
  done or replaced, and no two frames of the stack share one) and `PlansInv` (while it sweeps, and
  after a unit threw, the scheduler has no timeout; otherwise it has the earliest).
* `LimitsAreKept`: `IndexInv` (every copy of the list is a list without repetition within the
  limit, and while copies are up to date it is the list of the records) and `KeysInv` (the order of
  each cache ends with `recent`, entries are its members, no more than the limit unless undefined is
  one; the cache of two slots has no second key without a first).
* `EventsAlwaysArrive`: `RoomsInv` for the subscriptions; for envelopes `WireInv`: what is on the
  way to a client, in a run, in a report or in an outcome is of a request that was made, as its
  client made it, with what the hook added or refused it with (`LettersInv`, `AnswersInv`,
  `OutcomeInv`), and what a client has not yet had is still on its way (`ArrivalInv`).

`ToolsProofs`
* `ToolsAlwaysFinish`: for the links `LinksInv`. A runner at a URL is there alone, at the attempt
  the answers so far ask for (`RunnersInv`); the list of URLs names each once (`UrlsInv`); a URL
  that no runner is at any more has the result of its answers (`ResultsInv`). For the releases
  `RelInv`: while manifests are rewritten those of the packages that are done are fit, the others
  as they were read, and the backups are what was read (`BackupsInv`); so what is published was
  made fit (`FitIsClean`), and a manifest that passed the check has no issue as committed or as
  rewritten, if nothing in it refers to the workspace (`StillFit`).
* `ToolsDoAllTheirWork`, from three arguments:
  * the command line: `LineInv`. While arguments are read, the options are those of the arguments
    that were read (`GivenIs`), whose last one of each flag is what counts, and the next argument is
    no value of the one before; reading one flag keeps that (`GivenGrows`, whether or not the flag
    has a value, `Follows`). Where reading stops is the first argument that starts a command
    (`CommandIs`); so the options are the line's when it is read;
  * the links: `ReadInv` adds that what the texts that were read refer to has been found, and no more,
    and that the sorted URLs are the external ones of it. The candidates of a target are those of
    the folders the property names (`FoldersAre`, `CandidatesAre`), for modules and documents;
  * the releases: the order of versions is a strict total order (`IdentifiersAreOrdered`, the lists of
    identifiers by the first place where they differ, `VersionsAreOrdered`), so finitely many
    versions have one newest (`OneIsNewest`), which is what the sorted list ends with. `SyncInv`
    says which packages have it already; so a synchronisation that was killed anywhere is
    continued by the next with the same version.

Only model-checked:
* Liveness (`DeferredWorkIsDone`, the run `source`'s `LoadingEnds`, `QueuedWritesAreTaken`,
  `ServicesSettle`): liveness under fairness is out of the prover's reach.
* `ValuesAreKept` and `ClientsFollowTheApi`: what recursive operators compute of schemas, contracts
  and graphs of objects is checked on the samples, because induction over data and RECURSIVE
  operators are out of its reach as well. That the semver precedence examples come out in the order
  they are listed in is an assumption of `MCSamples` that TLC evaluates (`NewerIsReleasedLater`);
  the theorem says that the order is total.

## 6. Where the code and its documentation differ

Shown by runs:

1. `units_deleted`: a delete clears the store's record of a unit, not the unit's own list. When
   the same list is upserted again, `setManyEntityMembership`
   (`packages/sync/src/utils/entityMembership.ts:147`) finds it unchanged and does not tell the
   store; the entity then vanishes as soon as another unit lets go of it (against
   `entity.spec.ts:330`).
2. `source_latest`: load(A), load(B), load(A). The third joins the first run, which the second has
   made inert: the unit shows B (against `packages/sync/README.md:176`).
3. `transport_close`: `close` returns early when there is no current socket, and the failure of a
   replaced attempt clears the current socket, also an open one with requests pending (against
   `client-ws-transport/src/index.spec.ts:433`).
4. `view`: the end of a computation puts the snapshots it read (`view.ts:385-388`) over newer ones
   that came meanwhile; the queued recomputation reads the old one, and the view goes on showing
   the old value (against `packages/sync/README.md:289`).
5. `sync_built`: a build that fails after the files and checksum were written is not tried again:
   the retry finds the files current (`packages/cli/src/index.ts:868`, `:1004`) and succeeds
   (against `packages/cli/README.md:38`).

Met while modelling, and visible in the models as the exceptions the properties make or as what
the actions do.

Store and units:
* `setUnitMembership` (`createMembershipMethods.ts:118`) compares the size of the recorded set with
  the length of the list: replacing two ids by a list that repeats one of them is taken for no
  change (against `packages/sync/README.md:454`).
* On a platform without timers the calls themselves sweep what has expired, also the entity the
  call is about to adopt (`MembersKeepTheirEntities` assumes `HasTimeoutRuntime`).
* The profile `cache-off-lru-on` can never be chosen by an entity; the strategies of setOne and
  setMany are resolved and not used; the fallback of `resolveEntityReadWriteConfig` is never
  reached; an entity without configuration never batches updateMany.
* Of several writes that wait for the owner of a draft only the last is kept, a whole version made
  from what its writer read: the edits of those before it are lost (`QueuedWritesAreMerged` in
  `Drafts`; against `packages/sync/README.md:387`).

* Deleting an entity deletes its draft after the members have been told and are members no more
  (`entity.ts:402-414`): the notification that is to follow reaches nobody, and listeners of a
  draft unit that showed the draft keep it, and its status dirty, until they are told of something
  else (`DraftsAreHeard` says `held`).

Runs:
* A source's run that succeeds without returning a cleanup does not refresh the unit's value
  (`source.ts:876`): it is left to the pending refresh.
* After a reset, a run of before frees the map entry of a run of after (`source.ts:936`), so that a
  third load starts a twin (`OneRunPerPayload` says `epoch = 0`).
* A load answered from the ttl takes a sequence number (`source.ts:836`) before it returns
  (`source.ts:847`): the run in flight becomes inert and the status stays where it was
  (`LoadingMeansRunning` excludes the ttl).
* `run` is called before what it returns is tracked (`source.ts:875`, `:939-948`): a run that resets
  its unit before its first await is inert and is tracked nevertheless, so that later loads without a
  payload (or of its own, if others were in flight) join it and show nothing
  (`TrackedIsInFlight` states where it is found).
* A `run` that throws before it returns a promise leaves `activeRunCount` raised and the status
  loading (`source.ts:874`).
* Every unit keeps a copy of the list of recent records and writes its own back: with two units the
  list loses entries and their records stay (`RecordsAreLimited` in `SourceCacheIndex`; against
  `packages/sync/README.md:350`).
* Two runs of a stream that overlap and both return a cleanup while it is started: the later one's
  replaces the earlier one's (`stream.ts:292`), which is never invoked (`StreamCleanups` says
  `~overlapped`). A run of before a stop and a new start may settle last, and its outcome is what
  the stream shows.
* The first upsert of a stream's or an action's run makes the entity the unit's, which the store
  does not notify: listeners hear of it with the next notification (`quiet`).
* stop of a lazy stream that is still being imported does nothing (`streamLazy.ts:191`), and the
  stream then starts. An import that failed is not tried again (`streamLazy.ts:158`).
* A submit that joins a run another payload's has overtaken succeeds and shows nothing of it.

Transport, storage, serialisation:
* A request queued when the reconnect timer, not a request, brings the connection back stays queued:
  the timer does not flush, and `handleOpen` cancels the poll that would. A request made while the
  socket is open is sent at once, ahead of those still queued
  (`client-ws-transport/src/index.ts:820`).
* An answer that cannot be decoded leaves its request neither pending nor settled (`:584-587`).
* The cache storage is not disabled for good (`packages/sync/README.md:328`): a batch that fails
  afterwards makes it degraded again (`indexedDbCacheStorage.ts:364-366`), and a reconnection that
  was in flight makes it ready (`:415-417`). A reconnection that fails schedules no other (`:372`);
  the staged retry of `packages/sync/README.md:327` goes on with the application's next call. A
  reconnection that only opens the database resets the failure budget (`:417`).
* A failed batch of writes is put back over newer operations on the same keys (`:510-512`;
  `reverted`). A read that ends after the application wrote the key puts the older record into
  memory (`:462-470`).
* The payload undefined is never evicted from the run contexts and serialised keys: when it is the
  oldest, nothing is (`runContextEntryCache.ts:75-79`, `serializedKeyCache.ts:93-97`), and the cache
  grows with every new payload until undefined is used again, and does not shrink afterwards
  (`HoldsRecentKeys` excepts it).
* An object that looks like one of the serialiser's marks is escaped when it is written and decoded
  twice when it is read (`structuredSerialization.ts:511-512`): it comes back as what the mark
  stands for (`HasKnownMarker`; the test at `structuredSerialization.spec.ts:87` uses a type that is
  unknown).

Server:
* A hook that does not call next ends the chain, one that calls it twice runs the rest twice, and
  when one unsubscribes itself the next one is passed over, because the chain is the live array
  (`NoHookIsPassedOver`; against `packages/runtime/README.md:55-65`).
* The ticker stops when nothing is pending while a failure is still being stored
  (`packages/dlq-module/src/index.ts:272-274`): it is replayed only when another failure starts the
  ticker (against `packages/dlq-module/README.md:16`).
* Publications carry the correlation of the request (`schemaModule.ts:177-182`, `:423-460`) and
  settle it before its answer does (`client-ws-transport/src/index.ts:579-609`). The failure of an
  operation is reported, and nothing is sent: the request times out. An envelope with a payload and
  an error loses the error on the wire.

Contract, generator, client:
* Fields that both sides of an intersection have keep the right side's subfields only; the
  intersection of two dates is an empty object; a union whose earlier option accepts what a later
  one returned loses fields when it is parsed again (`MergesWhole`, `ToldApart`).
* Answers of hooks that have fields `input`, `issues` or `value` of their own are taken apart.
* Optional and nullable leave no trace in the tree (`Spelled`). Shapes given to field operations
  all have one name, so that the types of the second follow the first (`NamesApart`). The input of a
  field operation without an output is taken for its output (`generate.ts:232-233`,
  `client.ts:224-225`). A date without a name of its own is declared as itself
  (`generate.ts:112-119`). A subscription whose output is refined, optional or an enum is typed by
  its payload (`generate.ts:299-310`).
* Two field operations may have one method (`client.ts:183`, `:456`); an operation named like a
  topic or like what the module has (`register`, `name`, `room`, `emitEvent`, `setRequest`) is hidden;
  owners that are intersections or unions have no field operations attached (`client.ts:272-301`);
  an owner with a dot in its name is not found in a single api (`schemaModule.ts:194-204`, `:278`)
  (`Unambiguous`).

Tools:
* The command line takes the answer to another process for its own: a first sync may succeed with
  nothing written, because somebody else's schema was not modified. `--out` with a name other than
  `api.ts` generates an `index.ts` that exports `./api.js` (`generate.ts:1073`,
  `packages/cli/src/index.ts:680`); `--out` ending in `index.ts` or `ast.ts` fails only after the
  files were written; `--poll` accepts what is no number; the value of an unknown flag becomes the
  command.
* A manifest that cannot be made fit leaves the ones before it as they were written: the list of
  backups is returned with the last one only, and `changeset-publish.mjs` calls it before its `try`.
* The link check: an answer of 404 to HEAD ends the check of a URL, GET is tried only where no
  answer came; the number of URLs checked counts them also when none is asked for.

## 7. Not modelled

* React bindings: hooks over subscribe and getSnapshot, whose interleavings are those of React's
  scheduler.
* Mode `one` of units, the lock that forbids changing the mode, meta data of runs, functions given
  to start, submit and load, and listeners that call back into the unit that tells them.
* Server transport: the filter of targets. Schema: documentation fields, acknowledgement settings,
  the filter and exec of subscriptions. Runtime: the state shared by the contexts of one run.
* The wording of generated files, usage texts and messages; regular expressions, except for the
  forms of references `LinkCheck` tells apart; delays and their growth, except as an order.
* Policy and README checks: predicates over the text of single files. Benchmarks and the gates on
  them: measurements. Type declarations, example applications, generated code, the website.
