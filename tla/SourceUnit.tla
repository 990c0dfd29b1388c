---------------------------- MODULE SourceUnit ----------------------------
(***************************************************************************)
(* The runs of one source unit (packages/sync/src/source/source.ts):       *)
(* loads that join a run in flight, runs that overlap and settle in any    *)
(* order, the sequence number that makes the older ones inert, cleanups,   *)
(* reset, the ttl of a load and the record in the source cache.            *)
(*                                                                         *)
(* A run is asynchronous: between the return of its promise, the calls on  *)
(* its context, its settling and the finally handler that ends its         *)
(* tracking, everything else may happen.  Up to its first await it is not: *)
(* the unit calls run and tracks what it returns afterwards, so a run that *)
(* writes or resets in between does so while nothing tracks it.  A load    *)
(* with a payload stores it in the unit and joins the run in flight for    *)
(* the same payload, if the unit still tracks one.  Runs of equal payload  *)
(* share one run context, whose gate belongs to the run started last.      *)
(*                                                                         *)
(* Loads out of a run's synchronous part, and out of the listeners it      *)
(* notifies, are left out: between the call of run and its return nothing  *)
(* else acts on the unit.                                                  *)
(*                                                                         *)
(* The unit's data are abstracted to the payload they were loaded for and  *)
(* to the epoch, the number of resets, they were loaded in.                *)
(***************************************************************************)
EXTENDS Integers, FiniteSets

CONSTANTS
    Payloads,      \* payloads of loads
    NoPayload,     \* undefined: the payload of a unit nobody passed one to
    Options,       \* the configurations of sources, and habits of their run
    MaxRuns,       \* bound: runs started
    MaxSequence,   \* bound: runSequence
    MaxEpoch       \* bound: resets

ASSUME SourceAssumption ==
    /\ NoPayload \notin Payloads
    /\ Options \subseteq [ttl : BOOLEAN, cache : BOOLEAN, resets : BOOLEAN, throws : BOOLEAN]
    /\ MaxRuns \in Nat /\ MaxSequence \in Nat /\ MaxEpoch \in Nat

AnyPayload == Payloads \cup {NoPayload}
Runs       == 1..MaxRuns
NoRun      == 0
Empty      == [payload |-> NoPayload, epoch |-> -1]   \* no entity value
Contents   == {Empty} \cup [payload : AnyPayload, epoch : 0..MaxEpoch]
Statuses   == {"idle", "rehydrated", "loading", "refreshing", "success", "error"}

VARIABLES
    options,        \* what the source was created with: never changes
    payload,        \* internal.payload
    runSequence,    \* internal.runSequence = internal.latestRunSequence
    run,            \* the runs: phase, sequence number, payload, epoch, tracking
    single,         \* singleInFlightPromise
    singlePayload,  \* singleInFlightPayload
    inFlight,       \* inFlightByPayload
    activeRunCount,
    status,         \* internal.state.status
    content,        \* internal.state.value with its membership
    cleanup,        \* internal.cleanup: the run it belongs to
    cleaned,        \* history: how often the cleanup of a run was invoked
    fresh,          \* lastRunAt is younger than the ttl
    hydrated,       \* hasHydratedFromIdentityCache
    cacheRecord,    \* the record of the unit in the source cache
    hasPendingCacheSync,
    epoch           \* history: resets so far

HasTtl       == options.ttl      \* source ttl > 0
CacheEnabled == options.cache    \* the source has a cache
MayReset     == options.resets   \* run contexts call reset
MayThrow     == options.throws   \* run may throw before it returns a promise

slots     == <<single, singlePayload, inFlight>>
runVars   == <<payload, runSequence, run, slots, activeRunCount>>
cacheVars == <<hydrated, cacheRecord, hasPendingCacheSync>>
vars == <<payload, runSequence, run, slots, activeRunCount, status, content,
          cleanup, cleaned, fresh, hydrated, cacheRecord, hasPendingCacheSync, epoch,
          options>>

RunStates ==
    [phase : {"none", "starting", "running", "settled", "done"}, seq : 0..MaxSequence,
     payload : AnyPayload, epoch : 0..MaxEpoch, since : 0..MaxEpoch,
     tracked : {"single", "map"}, wrote : BOOLEAN, ok : BOOLEAN, returns : BOOLEAN]

NotStarted == [phase |-> "none", seq |-> 0, payload |-> NoPayload, epoch |-> 0,
               since |-> 0, tracked |-> "single", wrote |-> FALSE, ok |-> FALSE, returns |-> FALSE]

TypeOK ==
    /\ options \in Options
    /\ payload \in AnyPayload
    /\ runSequence \in 0..MaxSequence
    /\ run \in [Runs -> RunStates]
    /\ single \in Runs \cup {NoRun}
    /\ singlePayload \in AnyPayload
    /\ inFlight \in [AnyPayload -> Runs \cup {NoRun}]
    /\ activeRunCount \in Nat
    /\ status \in Statuses
    /\ content \in Contents
    /\ cleanup \in Runs \cup {NoRun}
    /\ cleaned \in [Runs -> Nat]
    /\ fresh \in BOOLEAN
    /\ hydrated \in BOOLEAN
    /\ cacheRecord \in Contents
    /\ hasPendingCacheSync \in BOOLEAN
    /\ epoch \in 0..MaxEpoch

(* A unit is created with whatever an earlier session left in the cache. *)
Init ==
    /\ options \in Options
    /\ payload = NoPayload
    /\ runSequence = 0
    /\ run = [r \in Runs |-> NotStarted]
    /\ single = NoRun
    /\ singlePayload = NoPayload
    /\ inFlight = [p \in AnyPayload |-> NoRun]
    /\ activeRunCount = 0
    /\ cacheRecord \in IF CacheEnabled THEN {Empty} \cup [payload : Payloads, epoch : {0}]
                                       ELSE {Empty}
    /\ content = cacheRecord
    /\ hydrated = (cacheRecord # Empty)
    /\ status = IF hydrated THEN "rehydrated" ELSE "idle"
    /\ cleanup = NoRun
    /\ cleaned = [r \in Runs |-> 0]
    /\ fresh = FALSE
    /\ hasPendingCacheSync = FALSE
    /\ epoch = 0

-----------------------------------------------------------------------------
(* Helpers *)

Started    == {r \in Runs : run[r].phase # "none"}
Starting   == {r \in Runs : run[r].phase = "starting"}
Promised   == {r \in Runs : run[r].phase \in {"running", "settled"}}
Unfinished == Starting \cup Promised
NextRun    == Cardinality(Started) + 1

(* No call of run is under way. *)
Quiet == Starting = {}

Unstarted(r) == r \in Runs /\ run[r].phase = "none"

IsLatestRun(r) == run[r].seq = runSequence

(* Mutant: a context stays usable whatever was started after its run. *)
AlwaysActive(r) == TRUE

(* gate.isLatestRun of the run's context: runs of one payload share it, until
   a reset drops the contexts.                                             *)
ActiveContext(r) ==
    \E s \in Started : /\ run[s].payload = run[r].payload
                       /\ run[s].epoch = run[r].epoch
                       /\ IsLatestRun(s)

(* The run in flight a load of the payload joins. *)
InFlightFor(p) ==
    IF single # NoRun /\ singlePayload = p THEN single ELSE inFlight[p]

(* requestCacheSync: deferred while runs are active. *)
RequestCacheSync(shown, active) ==
    IF active > 0
    THEN hasPendingCacheSync' = TRUE /\ UNCHANGED cacheRecord
    ELSE cacheRecord' = (IF CacheEnabled THEN shown ELSE cacheRecord)
         /\ UNCHANGED hasPendingCacheSync

Invoked(r) == IF r = NoRun THEN cleaned ELSE [cleaned EXCEPT ![r] = @ + 1]

-----------------------------------------------------------------------------
(* Loads *)

(* executeRun up to the decision: the sequence number, then the cache. *)
Hydrates == CacheEnabled /\ ~hydrated /\ cacheRecord # Empty

BeginLoad ==
    /\ runSequence < MaxSequence
    /\ runSequence' = runSequence + 1
    /\ hydrated' = (hydrated \/ Hydrates)
    /\ content' = IF Hydrates THEN cacheRecord ELSE content

StatusBefore == IF Hydrates THEN "rehydrated" ELSE status

LoadingStatus ==
    IF StatusBefore \in {"rehydrated", "success"} THEN "refreshing" ELSE "loading"

(* A load that finds a run in flight for its payload returns its promise. *)
JoinRun(p) ==
    /\ InFlightFor(p) # NoRun
    /\ payload' = p
    /\ UNCHANGED <<runSequence, run, slots, activeRunCount, status, content,
                   cleanup, cleaned, fresh, cacheVars, epoch>>

(* A load without a payload that finds the last run young enough. *)
UseTtl ==
    /\ InFlightFor(payload) = NoRun
    /\ fresh
    /\ BeginLoad
    /\ status' = StatusBefore
    /\ UNCHANGED <<payload, run, slots, activeRunCount, cleanup, cleaned, fresh,
                   cacheRecord, hasPendingCacheSync, epoch>>

(* A run, as it starts. *)
NewRun(p, tracked) ==
    [NotStarted EXCEPT !.phase = "starting", !.seq = runSequence + 1, !.payload = p,
                       !.epoch = epoch, !.tracked = tracked]

(* Mutant: a run does not look for another one in flight. *)
StartRunUntracked(p) ==
    /\ Unstarted(NextRun)
    /\ BeginLoad
    /\ payload' = p
    /\ status' = LoadingStatus
    /\ activeRunCount' = activeRunCount + 1
    /\ run' = [run EXCEPT ![NextRun] = NewRun(p, "single")]
    /\ UNCHANGED <<slots, cleanup, cleaned, fresh, cacheRecord, hasPendingCacheSync, epoch>>

(* The unit calls run.  The first run in flight will be tracked on its own,
   the others by payload, which is decided before the call.                *)
StartRun(p) ==
    LET alone == single = NoRun /\ \A q \in AnyPayload : inFlight[q] = NoRun
    IN /\ InFlightFor(p) = NoRun
       /\ Unstarted(NextRun)
       /\ BeginLoad
       /\ payload' = p
       /\ status' = LoadingStatus
       /\ activeRunCount' = activeRunCount + 1
       /\ run' = [run EXCEPT ![NextRun] = NewRun(p, IF alone THEN "single" ELSE "map")]
       /\ UNCHANGED <<slots, cleanup, cleaned, fresh, cacheRecord, hasPendingCacheSync, epoch>>

(* run has returned its promise, and the unit tracks it: on its own with the
   payload the unit has by now, or under the payload it was started with.  *)
Track(r) ==
    /\ run[r].phase = "starting"
    /\ run' = [run EXCEPT ![r] = [@ EXCEPT !.phase = "running", !.since = epoch]]
    /\ IF run[r].tracked = "single"
       THEN single' = r /\ singlePayload' = payload /\ UNCHANGED inFlight
       ELSE inFlight' = [inFlight EXCEPT ![run[r].payload] = r]
            /\ UNCHANGED <<single, singlePayload>>
    /\ UNCHANGED <<payload, runSequence, activeRunCount, status, content, cleanup, cleaned,
                   fresh, cacheVars, epoch>>

(* run throws instead of returning a promise: nothing is tracked and nothing
   takes the count back.                                                   *)
RunThrows(r) ==
    /\ MayThrow
    /\ run[r].phase = "starting"
    /\ run' = [run EXCEPT ![r].phase = "done"]
    /\ UNCHANGED <<payload, runSequence, slots, activeRunCount, status, content, cleanup,
                   cleaned, fresh, cacheVars, epoch>>

(* load(p), refetch(p) and force(p); load(), refetch() and force(). *)
Load(p)    == JoinRun(p) \/ StartRun(p)
LoadAgain  == JoinRun(payload) \/ UseTtl \/ (~fresh /\ StartRun(payload))
ForceAgain == JoinRun(payload) \/ StartRun(payload)

-----------------------------------------------------------------------------
(* Runs *)

(* set of the run's context, before or after the run settles.  A context
   whose run was overtaken does nothing.  (upsertOne and the like ask for
   the cache sync only when a member of the unit changes.)                 *)
Write(r) ==
    /\ r \in Started
    /\ run' = [run EXCEPT ![r].wrote = TRUE]
    /\ IF ActiveContext(r)
       THEN /\ content' = [payload |-> run[r].payload, epoch |-> run[r].epoch]
            /\ RequestCacheSync(content', activeRunCount)
       ELSE UNCHANGED <<content, cacheRecord, hasPendingCacheSync>>
    /\ UNCHANGED <<payload, runSequence, slots, activeRunCount, status, cleanup,
                   cleaned, fresh, hydrated, epoch>>

(* reset of a run context: every run so far becomes inert and untracked. *)
Reset(r) ==
    /\ MayReset
    /\ epoch < MaxEpoch
    /\ runSequence < MaxSequence
    /\ r \in Started
    /\ ActiveContext(r)
    /\ runSequence' = runSequence + 1
    /\ epoch' = epoch + 1
    /\ cleaned' = Invoked(cleanup)
    /\ cleanup' = NoRun
    /\ single' = NoRun
    /\ singlePayload' = NoPayload
    /\ inFlight' = [p \in AnyPayload |-> NoRun]
    /\ payload' = NoPayload
    /\ content' = Empty
    /\ status' = "idle"
    /\ fresh' = FALSE
    /\ hydrated' = FALSE
    /\ RequestCacheSync(Empty, activeRunCount)
    /\ UNCHANGED <<run, activeRunCount>>

(* Mutant: an overtaken run installs its cleanup like any other. *)
FulfilAnyway(r, returns) ==
    /\ run[r].phase = "running"
    /\ run' = [run EXCEPT ![r] = [@ EXCEPT !.phase = "settled", !.ok = TRUE,
                                              !.returns = returns]]
    /\ cleanup' = IF returns THEN r ELSE cleanup
    /\ IF IsLatestRun(r)
       THEN status' = "success" /\ fresh' = HasTtl /\ RequestCacheSync(content, activeRunCount)
       ELSE UNCHANGED <<status, fresh, cacheRecord, hasPendingCacheSync>>
    /\ UNCHANGED <<payload, runSequence, slots, activeRunCount, content, cleaned,
                   hydrated, epoch>>

(* Mutant: the count is taken back when the run succeeds, and in finally again. *)
FulfilUncounting(r, returns) ==
    /\ run[r].phase = "running"
    /\ run' = [run EXCEPT ![r].phase = "settled", ![r].ok = TRUE]
    /\ activeRunCount' = activeRunCount - 1
    /\ status' = IF IsLatestRun(r) THEN "success" ELSE status
    /\ UNCHANGED <<payload, runSequence, slots, content, cleanup, cleaned, fresh,
                   cacheVars, epoch>>

(* then: the run succeeded, with or without a cleanup.  An overtaken run's
   cleanup is invoked at once, the latest run's replaces the installed one. *)
Fulfil(r, returns) ==
    /\ run[r].phase = "running"
    /\ run' = [run EXCEPT ![r] = [@ EXCEPT !.phase = "settled", !.ok = TRUE,
                                              !.returns = returns]]
    /\ cleaned' = IF ~returns THEN cleaned
                  ELSE IF IsLatestRun(r) THEN Invoked(cleanup) ELSE Invoked(r)
    /\ cleanup' = IF returns /\ IsLatestRun(r) THEN r ELSE cleanup
    /\ IF IsLatestRun(r)
       THEN /\ status' = "success"
            /\ fresh' = HasTtl
            /\ RequestCacheSync(content, activeRunCount)
       ELSE UNCHANGED <<status, fresh, cacheRecord, hasPendingCacheSync>>
    /\ UNCHANGED <<payload, runSequence, slots, activeRunCount, content, hydrated,
                   epoch>>

(* Mutant: the status is left alone when a run fails. *)
FailSilently(r) ==
    /\ run[r].phase = "running"
    /\ run' = [run EXCEPT ![r].phase = "settled"]
    /\ UNCHANGED <<payload, runSequence, slots, activeRunCount, status, content,
                   cleanup, cleaned, fresh, cacheVars, epoch>>

(* catch *)
Fail(r) ==
    /\ run[r].phase = "running"
    /\ run' = [run EXCEPT ![r].phase = "settled"]
    /\ status' = IF IsLatestRun(r) THEN "error" ELSE status
    /\ UNCHANGED <<payload, runSequence, slots, activeRunCount, content, cleanup,
                   cleaned, fresh, cacheVars, epoch>>

(* Mutant: the deferred record is only written when the run was the latest. *)
FinishLatestOnly(r) ==
    LET flush == hasPendingCacheSync /\ activeRunCount = 1 /\ IsLatestRun(r)
    IN /\ run[r].phase = "settled"
       /\ run' = [run EXCEPT ![r].phase = "done"]
       /\ activeRunCount' = activeRunCount - 1
       /\ hasPendingCacheSync' = (hasPendingCacheSync /\ ~flush)
       /\ cacheRecord' = IF flush /\ CacheEnabled THEN content ELSE cacheRecord
       /\ single' = IF single = r THEN NoRun ELSE single
       /\ singlePayload' = IF single = r THEN NoPayload ELSE singlePayload
       /\ inFlight' = [p \in AnyPayload |-> IF inFlight[p] = r THEN NoRun ELSE inFlight[p]]
       /\ UNCHANGED <<payload, runSequence, status, content, cleanup, cleaned, fresh, hydrated,
                      epoch>>

(* Mutant: a run tracked by its payload stays tracked when it is over. *)
FinishSingleOnly(r) ==
    /\ run[r].phase = "settled"
    /\ run' = [run EXCEPT ![r].phase = "done"]
    /\ activeRunCount' = IF activeRunCount > 0 THEN activeRunCount - 1 ELSE 0
    /\ single' = IF single = r THEN NoRun ELSE single
    /\ singlePayload' = IF single = r THEN NoPayload ELSE singlePayload
    /\ UNCHANGED <<payload, runSequence, inFlight, status, content, cleanup, cleaned, fresh,
                   cacheVars, epoch>>

(* finally, a microtask or more later: the deferred cache record is written
   and the tracking ends, on its own only if it is still this run's.       *)
Finish(r) ==
    LET active == IF activeRunCount > 0 THEN activeRunCount - 1 ELSE 0
        flush  == hasPendingCacheSync /\ active = 0
        alone  == run[r].tracked = "single" /\ single = r
    IN /\ run[r].phase = "settled"
       /\ run' = [run EXCEPT ![r].phase = "done"]
       /\ activeRunCount' = active
       /\ hasPendingCacheSync' = (hasPendingCacheSync /\ ~flush)
       /\ cacheRecord' = IF flush /\ CacheEnabled THEN content ELSE cacheRecord
       /\ single' = IF alone THEN NoRun ELSE single
       /\ singlePayload' = IF alone THEN NoPayload ELSE singlePayload
       /\ inFlight' = IF run[r].tracked = "map"
                      THEN [inFlight EXCEPT ![run[r].payload] = NoRun]
                      ELSE inFlight
       /\ UNCHANGED <<payload, runSequence, status, content, cleanup, cleaned, fresh, hydrated,
                      epoch>>

(* Time passes: the last run is older than the ttl. *)
Expire ==
    /\ fresh
    /\ fresh' = FALSE
    /\ UNCHANGED <<runVars, status, content, cleanup, cleaned, cacheVars, epoch>>

-----------------------------------------------------------------------------
Settle(r) == Fail(r) \/ \E returns \in BOOLEAN : Fulfil(r, returns)

Returns(r) == Track(r) \/ RunThrows(r)

Step ==
    \/ /\ Quiet
       /\ \/ \E p \in Payloads : Load(p)
          \/ LoadAgain
          \/ ForceAgain
          \/ \E r \in Runs : Write(r) \/ Reset(r) \/ Settle(r) \/ Finish(r)
    \/ \E r \in Starting : Write(r) \/ Reset(r) \/ Returns(r)
    \/ Expire

Next == Step /\ UNCHANGED options

(* Fairness: run returns or throws, a request settles some day and the
   microtasks after it run.                                                *)
Spec     == Init /\ [][Next]_vars
FairSpec == Spec /\ \A r \in Runs : /\ WF_vars(Returns(r) /\ UNCHANGED options)
                                    /\ WF_vars(Quiet /\ Settle(r) /\ UNCHANGED options)
                                    /\ WF_vars(Quiet /\ Finish(r) /\ UNCHANGED options)

-----------------------------------------------------------------------------
(* Properties *)

(* The runs started since the last reset that the unit answers loads with. *)
ThisEpoch == {r \in Unfinished : run[r].epoch = epoch}

(* Two runs of one payload are in flight together. *)
Twins == \E r, s \in ThisEpoch : r # s /\ run[r].payload = run[s].payload

(* Loads of one payload share one run: no two runs of a payload are in
   flight together, in whatever order the runs end and their slots free up.
   A reset gives the guarantee up: a run of before frees the slot of a run
   of after when it ends.                                                  *)
OneRunPerPayload == epoch = 0 => ~Twins

(* Whatever is tracked as in flight really is, so that no load waits for a
   run that ended long ago, and was tracked after the last reset.  It is
   tracked under the payload it was started for; but a run that reset the
   unit before it returned its promise, and is inert, is tracked all the
   same: in the slot for loads without a payload, in the map for its own.  *)
TrackedIsInFlight ==
    /\ single # NoRun =>
          /\ single \in Promised
          /\ run[single].since = epoch
          /\ singlePayload = IF run[single].epoch = epoch THEN run[single].payload
                                                          ELSE NoPayload
    /\ \A p \in AnyPayload :
          inFlight[p] # NoRun =>
             /\ inFlight[p] \in Promised
             /\ run[inFlight[p]].since = epoch
             /\ run[inFlight[p]].payload = p

(* Loads are answered with a run that really is in flight, and with one run
   per payload.  (Whether that run may still write is another matter: see
   LatestLoadWins and the runs that reset at once.)                        *)
RunsAreShared == OneRunPerPayload /\ TrackedIsInFlight

(* Overlapping runs write and settle in any order, yet while the newest run
   is the latest thing asked of the unit, what it wrote is what is shown: no
   older run, no hydration and no run of another payload writes over it.   *)
NewestRunWins ==
    \A r \in Started :
        IsLatestRun(r) /\ run[r].wrote =>
            content = [payload |-> run[r].payload, epoch |-> run[r].epoch]

(* A cleanup a run returned is installed or has been invoked, exactly once:
   none is lost when runs overlap or the unit is reset.                    *)
CleanupsRunOnce ==
    \A r \in Runs :
        cleaned[r] + (IF cleanup = r THEN 1 ELSE 0) = (IF run[r].returns THEN 1 ELSE 0)

(* Once no run is in flight the cache holds what the unit shows.  (A run
   that throws at once leaves the count of active runs behind.)            *)
CacheCatchesUp ==
    CacheEnabled /\ ~MayThrow /\ Unfinished = {} => cacheRecord = content /\ ~hasPendingCacheSync

(* While the unit says that it is loading, a run of it that may still change
   the data is in flight.  (A load answered from the ttl makes the runs in
   flight inert, a run that throws at once never settles: either leaves the
   status behind.)                                                         *)
LoadingMeansRunning ==
    ~HasTtl /\ ~MayThrow /\ status \in {"loading", "refreshing"} =>
        \E r \in Runs : run[r].phase \in {"starting", "running"} /\ IsLatestRun(r)

(* Once every load is answered, and none failed, the unit shows the data of
   the payload it was asked for last.                                      *)
LatestLoadWins ==
    Unfinished = {} /\ Started # {} /\ (\A r \in Started : run[r].ok /\ run[r].wrote) =>
        content.payload = payload

(* Every load comes to an end, with the same two exceptions. *)
LoadingEnds ==
    ~HasTtl /\ ~MayThrow /\ status \in {"loading", "refreshing"}
        ~> status \notin {"loading", "refreshing"}
=============================================================================
