---------------------------- MODULE DerivedUnit ----------------------------
(***************************************************************************)
(* A view or a transform of @livon/sync (packages/sync/src/view.ts,        *)
(* transform.ts): a unit whose value is computed, by the application's     *)
(* asynchronous out, from the snapshots of other units, its dependencies.  *)
(* A transform has its own copy of the view's code, and apply(payload),    *)
(* which hands the payload to the application's in, and computes when that *)
(* has written.                                                            *)
(*                                                                         *)
(* While somebody listens, the unit subscribes to the dependencies its     *)
(* last computation read; a change of one of them is kept in the record of *)
(* the dependency, and a recomputation is queued, or left pending when one *)
(* runs.  A computation reads a dependency it has a record of from the     *)
(* record, any other one from the unit itself.                             *)
(*                                                                         *)
(* out reads First, and depending on what it found Second too; the value   *)
(* it computes is modelled by what it has read.  A snapshot is a value and *)
(* a status; the meta data, whose changes count like those of the value,   *)
(* is part of the value.  The flags stopped and destroyed, which nothing   *)
(* sets, are left out.                                                     *)
(***************************************************************************)
EXTENDS Naturals, FiniteSets

CONSTANTS
    First, Second,   \* the dependencies
    Values,          \* the values they may have
    Branch,          \* the values of First for which out reads Second as well
    Listeners,       \* those who may subscribe
    MaxChanges,      \* bound on the changes of dependencies
    MaxApplies       \* bound on the applies of a transform that are under way

(* What the constants may be; the instances are checked against it. *)
DerivedConstants == First # Second /\ Branch \subseteq Values /\ MaxChanges \in Nat

Deps == {First, Second}

VARIABLES
    units,           \* the snapshots of the dependencies
    dependencies,    \* internal.dependencies: what is known of each
    listeners,       \* internal.listeners
    computing,       \* recomputeRunning, with the snapshots out has read so far
    scheduled,       \* recomputeScheduled
    pending,         \* recomputePending
    status, value,   \* internal.snapshot
    applying,        \* how many apply(...) of a transform wait for their in
    missed,          \* history: dependencies with a change that came to nothing
    changes          \* changes so far

unitVars    == <<units, changes>>
derivedVars == <<units, dependencies, listeners, computing, scheduled, pending, status, value,
                 applying, missed, changes>>

Settled(s) == s.status = "settled"      \* success or error
Loading(s) == s.status = "loading"
Snapshots  == [value : Values, status : {"idle", "loading", "settled"}]

Unknown    == [known |-> FALSE]
Record(s, sub, dirty) == [known |-> TRUE, snap |-> s, subscribed |-> sub, dirty |-> dirty]

Nothing    == [d \in {} |-> {}]
NotRunning == [running |-> FALSE, read |-> Nothing]
Running(read) == [running |-> TRUE, read |-> read]

Tracks == listeners # {}

Init ==
    /\ units \in [Deps -> {s \in Snapshots : Settled(s)}]
    /\ dependencies = [d \in Deps |-> Unknown]
    /\ listeners = {} /\ computing = NotRunning
    /\ scheduled = FALSE /\ pending = FALSE
    /\ status = "idle" /\ value = Nothing
    /\ applying = 0 /\ missed = {} /\ changes = 0

-----------------------------------------------------------------------------
(* runRecompute: one computation at a time, a second one is left pending. *)
RunRecompute ==
    IF computing.running
    THEN pending' = TRUE /\ UNCHANGED <<computing, status>>
    ELSE /\ computing' = Running(Nothing)
         /\ status' = IF status = "idle" THEN "loading" ELSE status
         /\ UNCHANGED pending

(* queueRecompute: in a microtask of its own, unless one runs or is queued. *)
QueueRecompute ==
    IF computing.running THEN pending' = TRUE /\ UNCHANGED scheduled
                         ELSE scheduled' = TRUE /\ UNCHANGED pending

(* The effect a subscription runs with a new snapshot of dependency d.
   Loading statuses are passed on to a unit that is idle; a changed value
   of a loading dependency is remembered until it settles.                 *)
Effect(d, s) ==
    LET r       == dependencies[d]
        changed == s.value # r.snap.value
        settles == Settled(s) /\ (changed \/ r.dirty)
    IN
    /\ dependencies' = [dependencies EXCEPT ![d] =
          Record(s, TRUE, IF Tracks /\ settles THEN FALSE
                          ELSE r.dirty \/ (Tracks /\ changed /\ Loading(s)))]
    /\ IF Tracks /\ settles THEN QueueRecompute ELSE UNCHANGED <<scheduled, pending>>
    /\ status' = IF Tracks /\ changed /\ Loading(s) /\ status = "idle" THEN "loading" ELSE status

(* A dependency changes; only its subscriber hears of it. *)
Change(d, s) ==
    /\ changes < MaxChanges /\ s # units[d]
    /\ units' = [units EXCEPT ![d] = s]
    /\ changes' = changes + 1
    /\ IF dependencies[d].known /\ dependencies[d].subscribed
       THEN /\ Effect(d, s)
            /\ missed' = IF s.value = dependencies[d].snap.value THEN missed
                         ELSE IF d \in DOMAIN computing.read \/ s.status = "idle" THEN missed \cup {d}
                         ELSE IF Settled(s) THEN missed \ {d} ELSE missed
       ELSE UNCHANGED <<dependencies, scheduled, pending, status, missed>>
    /\ UNCHANGED <<listeners, computing, value, applying>>

-----------------------------------------------------------------------------
(* context.get: the record's snapshot when there is a record. *)
ReadDependency(d) == IF dependencies[d].known THEN dependencies[d].snap ELSE units[d]

Wanted(read) ==
    IF First \notin DOMAIN read THEN {First}
    ELSE IF read[First].value \in Branch THEN {Second} \ DOMAIN read ELSE {}

Get(d) ==
    /\ computing.running /\ d \in Wanted(computing.read)
    /\ computing' = Running([e \in DOMAIN computing.read \cup {d} |->
                                IF e = d THEN ReadDependency(d) ELSE computing.read[e]])
    /\ UNCHANGED <<units, dependencies, listeners, scheduled, pending, status, value, applying, missed, changes>>

(* syncDependencies with what was read: a record nobody read goes, the one
   of a dependency that was read takes the snapshot that was read, and while
   somebody listens it is subscribed, which finds what has changed since.  *)
Subscribed(r, d) ==
    LET s == units[d] changed == s.value # r.snap.value IN
    IF s = r.snap THEN Record(s, TRUE, r.dirty)
    ELSE Record(s, TRUE, CASE Loading(s) -> r.dirty \/ changed
                           [] Settled(s) -> FALSE
                           [] OTHER      -> r.dirty)

Used(read, d) ==
    IF dependencies[d].known THEN [dependencies[d] EXCEPT !.snap = read[d]] ELSE Record(read[d], FALSE, FALSE)

SyncDependencies(read) ==
    [d \in Deps |->
        IF d \notin DOMAIN read THEN Unknown
        ELSE LET r == Used(read, d) IN
             IF r.subscribed THEN r
             ELSE IF Tracks THEN Subscribed(r, d)
             ELSE IF dependencies[d].known THEN r ELSE Unknown]

(* A subscription made just now has found a change, which queues a
   recomputation when the dependency has settled; one that is idle is only
   recorded.                                                               *)
Found(read) == {d \in DOMAIN read : Tracks /\ ~Used(read, d).subscribed}

(* Mutant: a new subscription does not look for what it missed. *)
FoundNothing(read) == FALSE

FoundChange(read) ==
    \E d \in Found(read) :
        LET r == Used(read, d) IN
        Settled(units[d]) /\ (units[d].value # r.snap.value \/ (units[d] # r.snap /\ r.dirty))

FoundIdle(read) ==
    {d \in Found(read) : units[d].status = "idle" /\ units[d].value # Used(read, d).snap.value}

(* The computation ends, with its value or with an error; what is pending
   starts at once.                                                         *)
Ends(st, v) ==
    /\ computing.running
    /\ dependencies' = SyncDependencies(computing.read)
    /\ status' = st /\ value' = v
    /\ computing' = IF pending \/ FoundChange(computing.read) THEN Running(Nothing) ELSE NotRunning
    /\ pending' = FALSE
    /\ missed' = (missed \cap DOMAIN computing.read) \cup FoundIdle(computing.read)
    /\ UNCHANGED <<units, listeners, scheduled, applying, changes>>

Succeeds ==
    /\ Wanted(computing.read) = {}
    /\ Ends("success", [d \in DOMAIN computing.read |-> computing.read[d].value])

Fails    == Ends("error", value)

QueuedRecompute ==
    /\ scheduled /\ scheduled' = FALSE
    /\ RunRecompute
    /\ UNCHANGED <<units, dependencies, listeners, value, applying, missed, changes>>

-----------------------------------------------------------------------------
Subscribe(l) ==
    /\ l \notin listeners
    /\ listeners' = listeners \cup {l}
    /\ IF listeners = {} THEN RunRecompute ELSE UNCHANGED <<computing, pending, status>>
    /\ UNCHANGED <<units, dependencies, scheduled, value, applying, missed, changes>>

(* Mutant: the subscriptions to the dependencies stay. *)
UnsubscribeAlone(l) ==
    /\ l \in listeners
    /\ listeners' = listeners \ {l}
    /\ UNCHANGED <<units, dependencies, computing, scheduled, pending, status, value, applying, missed, changes>>

(* The last listener takes the subscriptions along; the records stay. *)
Unsubscribe(l) ==
    /\ l \in listeners
    /\ listeners' = listeners \ {l}
    /\ dependencies' =
          [d \in Deps |-> IF listeners = {l} /\ dependencies[d].known
                          THEN [dependencies[d] EXCEPT !.subscribed = FALSE] ELSE dependencies[d]]
    /\ UNCHANGED <<units, computing, scheduled, pending, status, value, applying, missed, changes>>

(* refresh() of a view. *)
Refresh ==
    /\ RunRecompute
    /\ UNCHANGED <<units, dependencies, listeners, scheduled, value, applying, missed, changes>>

ViewNext ==
    \/ \E d \in Deps : Get(d) \/ \E s \in Snapshots : Change(d, s)
    \/ Succeeds \/ Fails \/ QueuedRecompute \/ Refresh
    \/ \E l \in Listeners : Subscribe(l) \/ Unsubscribe(l)

-----------------------------------------------------------------------------
(* Transforms *)

(* runSet: the unit is loading from the call on. *)
Apply ==
    /\ applying < MaxApplies
    /\ applying' = applying + 1
    /\ status' = "loading"
    /\ UNCHANGED <<units, dependencies, listeners, computing, scheduled, pending, value, missed, changes>>

(* in has written, through the snapshots of other units. *)
Applied ==
    /\ applying > 0 /\ applying' = applying - 1
    /\ RunRecompute
    /\ UNCHANGED <<units, dependencies, listeners, scheduled, value, missed, changes>>

(* Mutant: a failure of in is thrown only. *)
ApplyFailsQuietly ==
    /\ applying > 0 /\ applying' = applying - 1
    /\ UNCHANGED <<units, dependencies, listeners, computing, scheduled, pending, status, value,
                   missed, changes>>

(* in throws, or the unit it wrote to does. *)
ApplyFails ==
    /\ applying > 0 /\ applying' = applying - 1
    /\ status' = "error"
    /\ UNCHANGED <<units, dependencies, listeners, computing, scheduled, pending, value, missed, changes>>

(* What transform.ts repeats of view.ts: the effect of a dependency, the
   subscriptions, the computation and its queue, the listeners.            *)
DependencyChanges == \E d \in Deps, s \in Snapshots : Change(d, s)
OutReads          == \E d \in Deps : Get(d)
OutEnds           == Succeeds \/ Fails
Recomputes        == QueuedRecompute
ListenersChange   == \E l \in Listeners : Subscribe(l) \/ Unsubscribe(l)

TransformNext ==
    \/ DependencyChanges \/ OutReads \/ OutEnds \/ Recomputes \/ ListenersChange
    \/ Apply \/ Applied \/ ApplyFails

-----------------------------------------------------------------------------
DerivedTypeOK ==
    /\ \A d \in Deps : dependencies[d].known =>
          dependencies[d] \in [known : {TRUE}, snap : Snapshots, subscribed : BOOLEAN, dirty : BOOLEAN]
    /\ computing.running \in BOOLEAN /\ DOMAIN computing.read \subseteq Deps
    /\ status \in {"idle", "loading", "success", "error"} /\ DOMAIN value \subseteq Deps /\ applying \in Nat

Quiet == ~computing.running /\ ~scheduled /\ ~pending

(* Nobody's unit is subscribed to nothing, and a unit that shows a value to
   somebody is subscribed to exactly what the value was computed from.     *)
SubscriptionsMatch ==
    LET subscribed == {d \in Deps : dependencies[d].known /\ dependencies[d].subscribed} IN
    /\ listeners = {} => subscribed = {}
    /\ Tracks /\ Quiet /\ status = "success" => subscribed = DOMAIN value

(* A unit at rest that somebody listens to shows what its dependencies are. *)
Current == \A d \in DOMAIN value : Settled(units[d]) => value[d] = units[d].value

(* It does, unless a change came while a computation that had already read
   the dependency was under way, or was one to idle.                       *)
FollowsItsDependencies ==
    Tracks /\ Quiet /\ status = "success" /\ missed = {} => Current

(* packages/sync/README.md: "`view` is read-only and recomputes from
   dependencies accessed via `get(...)`".                                  *)
RecomputesFromDependencies ==
    Tracks /\ Quiet /\ status = "success" /\ (\A d \in Deps : Settled(units[d])) => Current

(* A unit that says it is loading computes, or waits for an apply. *)
LoadingIsUnderWay == status = "loading" => computing.running \/ applying > 0
=============================================================================
