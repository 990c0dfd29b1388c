------------------------------ MODULE MCSupport ------------------------------
(***************************************************************************)
(* What the units of packages/sync rest on: the storage of the source      *)
(* caches, the list that limits the records of one source, a channel of    *)
(* the runtime queue, the scheduler that destroys units, and the caches    *)
(* that are bounded by a limit; of the packages around it the client's     *)
(* subscriptions and the envelopes on the wire; and of the tools the check *)
(* of the links, the releases, and the arguments of the command line.      *)
(* They share no state; which of them acts is chosen once, by the variable *)
(* part, and the others stay in their first state.  MCSamples gives them   *)
(* what they work on.                                                      *)
(***************************************************************************)
EXTENDS CacheStorage, Sequences, FiniteSets, TLC

CONSTANTS
    Parts,
    CacheUnits, MaxEntries, MaxSessions,
    TaskKeys, BatchSize, MaxTasks,
    PlannedUnits, MaxDelay, MaxTime,
    EntryKeys, Limit, None, UndefinedKey,
    EventTopics, Rooms, Handlers, Nobody, MaxSteps,
    Published, Askers, Hooks, MaxAsked, MaxReplays,
    Trees, Endings, Answers, Checkers,
    Workspaces, RootVersion, Bumps, MaxStarts,
    Lines, Positive, Sockets, ModuleOf

VARIABLES
    part,
    index, records, copies, hydrated, sessions, outdated,
    waitingTasks, scheduled, stack, enqueued, ran, replaced,
    now, plans, sweepAt, sweeping, inSweep, stranded,
    cache, entries, order, slots, recent,
    handler, enabled, steps, heard, event, listening,
    hook, requested, waiting, up, runs, down, reports, replays, outcome, delivered, emitted,
    tree, unread, found, counted, urls, next, at, results, asked, phase,
    files, root, tool, step, todo, readIn, backups, errors, starts, sources, mishap, passed, published,
    line, rest, given, linked, verdict

Index  == INSTANCE SourceCacheIndex WITH Units <- CacheUnits
Queue  == INSTANCE RuntimeQueue WITH Keys <- TaskKeys, tasks <- waitingTasks
Plans  == INSTANCE DestroyScheduler WITH Units <- PlannedUnits
Caches == INSTANCE KeyCaches WITH Keys <- EntryKeys
Heard  == INSTANCE ClientEvents WITH wanted <- listening, HandlersOf <- Handlers
Wire   == INSTANCE Exchange WITH asked <- requested, heard <- delivered
Links  == INSTANCE LinkCheck WITH Runners <- Checkers
Out    == INSTANCE Releases
Line   == INSTANCE CommandLine

ASSUME SupportConstants ==
    /\ Index!IndexConstants /\ Queue!QueueConstants
    /\ Plans!DestroyConstants /\ Caches!KeyCachesConstants
    /\ Heard!EventsConstants /\ Wire!ExchangeConstants /\ Links!LinkConstants /\ Out!ReleaseConstants
    /\ Line!LineConstants

indexVars == <<index, records, copies, hydrated, sessions, outdated>>
queueVars == <<waitingTasks, scheduled, stack, enqueued, ran, replaced>>
planVars  == <<now, plans, sweepAt, sweeping, inSweep, stranded>>
keyVars   == <<cache, entries, order, slots, recent>>
eventVars == <<handler, enabled, steps, heard, event, listening>>
wireVars  == <<hook, requested, waiting, up, runs, down, reports, replays, outcome, delivered, emitted>>
linkVars  == <<tree, unread, found, counted, urls, next, at, results, asked, phase>>
releaseVars == <<files, root, tool, step, todo, readIn, backups, errors, starts, sources, mishap, passed, published>>
lineVars  == <<line, rest, given, linked, verdict>>
keptVars  == <<indexVars, queueVars, planVars, keyVars>>
sentVars  == <<eventVars, wireVars>>
toolVars  == <<linkVars, releaseVars, lineVars>>
supportVars == <<part, vars, keptVars, sentVars, toolVars>>

FirstLine == CHOOSE l \in Lines : TRUE

MCInit ==
    /\ part \in Parts
    /\ Links!LinkInit /\ (part # "links" => tree = CHOOSE t \in Trees : TRUE)
    /\ Out!ReleaseInit /\ (part # "releases" => files = CHOOSE w \in Workspaces : TRUE)
    /\ Line!LineInit /\ (part # "line" => line = FirstLine)
    /\ Init /\ (part # "storage" => stored = [k \in Keys |-> Nothing])
    /\ Index!IndexInit /\ Queue!QueueInit /\ Plans!DestroyInit
    /\ Caches!KeysInit /\ (part # "caches" => cache = "identity")
    /\ Heard!EventsInit
    /\ Wire!ExchangeInit /\ (part # "wire" => hook = CHOOSE h \in Hooks : TRUE)

StorageNext == part = "storage" /\ Next

KeptNext ==
    \/ part = "index" /\ Index!IndexNext /\ UNCHANGED <<queueVars, planVars, keyVars>>
    \/ part = "queue" /\ Queue!QueueNext /\ UNCHANGED <<indexVars, planVars, keyVars>>
    \/ part = "plans" /\ Plans!DestroyNext /\ UNCHANGED <<indexVars, queueVars, keyVars>>
    \/ part = "caches" /\ Caches!KeysNext /\ UNCHANGED <<indexVars, queueVars, planVars>>

SentNext ==
    \/ part = "rooms" /\ Heard!EventsNext /\ UNCHANGED wireVars
    \/ part = "wire" /\ Wire!ExchangeNext /\ UNCHANGED eventVars

ToolNext ==
    \/ part = "links" /\ Links!LinkNext /\ UNCHANGED <<releaseVars, lineVars>>
    \/ part = "releases" /\ Out!ReleaseNext /\ UNCHANGED <<linkVars, lineVars>>
    \/ part = "line" /\ Line!LineNext /\ UNCHANGED <<linkVars, releaseVars>>

MCNext ==
    \/ StorageNext /\ UNCHANGED <<part, keptVars, sentVars, toolVars>>
    \/ KeptNext /\ UNCHANGED <<part, vars, sentVars, toolVars>>
    \/ SentNext /\ UNCHANGED <<part, vars, keptVars, toolVars>>
    \/ ToolNext /\ UNCHANGED <<part, vars, keptVars, sentVars>>

(* The fairness of CacheStorage, for the storage. *)
StorageFairness ==
    /\ WF_vars(part = "storage" /\ RunReadsTask) /\ WF_vars(part = "storage" /\ RunWritesTask)
    /\ WF_vars(part = "storage" /\ ContinueReads) /\ WF_vars(part = "storage" /\ ContinueWrites)
    /\ WF_vars(part = "storage" /\ (Reconnects \/ ReconnectFails))
    /\ SF_vars(part = "storage" /\ Events)

MCSpec == MCInit /\ [][MCNext]_supportVars /\ StorageFairness

-----------------------------------------------------------------------------
(* Work put off is done: what is queued in the storage is scheduled, or in a
   batch that will look at it, no task of the runtime queue is lost, and every
   planned destruction has a timer (CacheStorage, RuntimeQueue,
   DestroyScheduler).                                                      *)
NothingScheduledIsLost ==
    /\ part = "storage" => TypeOK /\ PendingWorkIsScheduled
    /\ part = "queue" => Queue!QueueTypeOK /\ Queue!NoTaskIsLost
    /\ part = "plans" => Plans!DestroyTypeOK /\ Plans!PlansAreSwept

(* What is bounded by a limit holds what was used last, and no more: the
   records of a source, while units only use copies of the list that are up
   to date, and the entries of the caches, unless one of them is of the
   payload undefined (SourceCacheIndex, KeyCaches).                        *)
CachesKeepRecent ==
    /\ part = "index" => Index!IndexTypeOK /\ Index!LimitHeldByCurrentCopies
    /\ part = "caches" => Caches!KeysTypeOK /\ Caches!HoldsRecentKeys

(* What is sent comes to whom it is for: events to the handlers that were
   registered for them and not switched off, and what an envelope holds
   through the hooks and the transports (ClientEvents, Exchange).          *)
EventsArrive ==
    /\ part = "rooms" => Heard!EventsTypeOK /\ Heard!EventsAreHeard
    /\ part = "wire" => Wire!Delivered

(* The tools that work on one thing after another finish what they began:
   every URL is asked for by one runner and has its own result; a release
   leaves the workspace as it was, and publishes what is fit for it
   (LinkCheck, Releases).                                                  *)
ToolsFinish ==
    /\ part = "links" => Links!EachUrlIsCheckedOnce
    /\ part = "releases" => Out!ManifestsComeBack /\ Out!PublishedIsClean

(* The command does what its line says and the package it makes has what it
   names; the check of the links reports what is broken; and a release brings
   the versions together (CommandLine, LinkCheck, Releases).               *)
ToolsDoTheirWork ==
    /\ part = "line" => Line!LinesAreUnderstood /\ Line!PackageResolves
    /\ part = "links" => Links!LinksAreReported
    /\ part = "releases" => Out!VersionsComeTogether
=============================================================================
