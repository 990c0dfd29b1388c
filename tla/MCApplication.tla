---------------------------- MODULE MCApplication ----------------------------
(***************************************************************************)
(* Instances of what an application calls: a stream, an action or a source *)
(* behind its lazy wrapper, a view or a transform over two dependencies,   *)
(* the draft units of an entity, and the adapters that track a unit.       *)
(* Which one acts is chosen once, and the variables of the others stay as  *)
(* they are.                                                               *)
(***************************************************************************)
EXTENDS LazyUnit, FiniteSets, TLC

CONSTANTS
    Instances,        \* kinds of unit, with the most calls and listeners of each
    First, Second, Values, Branch, Viewers, MaxChanges, MaxApplies,
    u1, u2, u3, a, b, MaxEdits,
    Adapters, Shots, None

VARIABLES
    instance,
    streaming, started, stopCallback, returned, invoked, overlapped,
    runs, single, inFlight, cleanup, cleaned, threw,
    loads,
    units, dependencies, viewers, computing, scheduled, pending, viewStatus, viewValue,
    applying, missed, changes,
    mode, many, base, draft, owner, draftMode, local, queued, edited, listening, told,
    held, settled, frozen, steps, waiting,
    current, stored, subscribed, telling, view, readAgain, shared

(* Two draft units of one identity and one of another. *)
DraftUnits == {u1, u2, u3}
Identity   == (u1 :> a) @@ (u2 :> a) @@ (u3 :> b)

Stream == INSTANCE StreamUnit
Action == INSTANCE ActionUnit
Source == INSTANCE LazySource
Derived == INSTANCE DerivedUnit
    WITH Listeners <- Viewers, listeners <- viewers, status <- viewStatus, value <- viewValue
Draft == INSTANCE Drafts WITH Units <- DraftUnits, tracked <- edited, heard <- told
Track == INSTANCE TrackedUnits
    WITH Snapshots <- Shots, shown <- current, calls <- readAgain

ASSUME ApplicationConstants ==
    Derived!DerivedConstants /\ Draft!DraftsConstants /\ Track!TrackedConstants

streamVars == <<streaming, started, stopCallback, returned, invoked, overlapped>>
actionVars == <<runs, single, inFlight, cleanup, cleaned, threw>>
derivedVars == <<units, dependencies, viewers, computing, scheduled, pending, viewStatus,
                 viewValue, applying, missed, changes>>
draftVars == <<mode, many, base, draft, owner, draftMode, local, queued, edited, listening,
               told, held, settled, frozen, steps, waiting>>
trackVars == <<current, stored, subscribed, telling, view, readAgain, shared>>
lazyUnitVars == <<lazyVars, streamVars, actionVars, loads>>
vars == <<instance, lazyUnitVars, derivedVars, draftVars, trackVars>>

IsLazy    == instance.kind \in {"stream", "action", "source"}
IsDerived == instance.kind \in {"view", "transform"}
IsDraft   == instance.kind = "drafts"
IsTracked == instance.kind = "tracked"

(* Two units that edit more often, or all three. *)
Editors == CASE ~IsDraft -> {}
             [] IsDraft /\ instance.calls = 3 -> {u1, u3}
             [] OTHER -> DraftUnits

Init ==
    /\ instance \in Instances
    /\ Stream!Init /\ Action!Init /\ Source!Init /\ Derived!Init
    /\ Draft!DraftsInit /\ Track!TrackedInit
    /\ ~IsDerived => \A d \in Derived!Deps : units[d].value \notin Branch
    /\ many => IsDraft /\ instance.calls = 2
    /\ \A u \in DraftUnits \ Editors : mode[u] = "local"
    /\ ~IsTracked => current = CHOOSE s \in Shots : TRUE

LazyUnitNext ==
    /\ \/ instance.kind = "stream" /\ Stream!Next /\ UNCHANGED <<actionVars, loads>>
       \/ instance.kind = "action" /\ Action!Next /\ UNCHANGED <<streamVars, loads>>
       \/ instance.kind = "source" /\ Source!Next /\ UNCHANGED <<streamVars, actionVars>>
    /\ calls' <= instance.calls /\ Cardinality(listeners') <= instance.crowd

DerivedNext ==
    /\ \/ instance.kind = "view" /\ Derived!ViewNext
       \/ instance.kind = "transform" /\ Derived!TransformNext
    /\ changes' <= instance.calls

(* Once the entity is deleted, three units only edit; two do anything. *)
DraftNext ==
    /\ IsDraft
    /\ Draft!DraftsNext
    /\ steps' <= instance.calls /\ (~held => instance.calls = 3 \/ steps' # steps)
    /\ listening' \cup edited' \subseteq Editors

TrackNext == IsTracked /\ Track!TrackedNext

Next ==
    /\ \/ LazyUnitNext /\ UNCHANGED <<derivedVars, draftVars, trackVars>>
       \/ DerivedNext /\ UNCHANGED <<lazyUnitVars, draftVars, trackVars>>
       \/ DraftNext /\ UNCHANGED <<lazyUnitVars, derivedVars, trackVars>>
       \/ TrackNext /\ UNCHANGED <<lazyUnitVars, derivedVars, draftVars>>
    /\ UNCHANGED instance

Spec == Init /\ [][Next]_vars

Instance(k, n, c) == [kind |-> k, calls |-> n, crowd |-> c]

(* Streams and actions with two calls and two listeners, or three calls and
   nobody listening; the calls of a view are changes of its dependencies,
   those of drafts are edits and commits.                                  *)
AllInstances ==
    {Instance(k, 2, 2) : k \in {"stream", "action", "source", "view"}}
    \cup {Instance("stream", 3, 0), Instance("action", 3, 0), Instance("transform", 1, 0),
          Instance("drafts", 2, 0), Instance("drafts", 3, 0), Instance("tracked", 0, 0)}

OnlyView == {Instance("view", 1, 0)}

Symmetry == Permutations(Listeners) \cup Permutations(Payloads)

-----------------------------------------------------------------------------
(* Nobody who listens to a lazy unit or a draft unit, or tracks a unit, is
   left with what it no longer shows (LazyUnit, Drafts, TrackedUnits).     *)
ListenersAreCurrent ==
    /\ IsLazy => Stream!TypeOK /\ Action!TypeOK /\ Source!TypeOK /\ HeardIsCurrent
    /\ IsDraft => Draft!DraftsAreHeard
    /\ IsTracked => Track!TrackedTypeOK /\ Track!ChangesAreTracked

(* The records of a draft agree about whose it is (Drafts). *)
DraftsAreOwned == IsDraft => Draft!DraftsTypeOK /\ Draft!DraftsAreOwned

(* A cleanup that a run of a stream or of an action returned is held or has
   been invoked, once only, and the last listener that leaves a stream, but
   no other, stops it (StreamUnit, ActionUnit).                            *)
RunsAreCleanedUp ==
    /\ [](IsLazy => Stream!StreamCleanups /\ Action!ActionCleanups)
    /\ Stream!LastOneStops

(* Submits of one payload share one run of the action (ActionUnit). *)
OneRunPerPayload == IsLazy => Action!OneRunPerPayload

(* A unit that says it is loading has something under way that will end it:
   the newest run of an action, a computation of a view or transform
   (ActionUnit, DerivedUnit).                                              *)
LoadingIsUnderWay ==
    /\ instance.kind = "action" => Action!LoadingIsTheNewest
    /\ IsDerived => Derived!LoadingIsUnderWay

(* A view or transform follows what its value was computed from, and is
   subscribed to just that (DerivedUnit).                                  *)
DerivedUnitsFollow ==
    IsDerived => Derived!DerivedTypeOK /\ Derived!SubscriptionsMatch /\ Derived!FollowsItsDependencies

(* The documentation's word on views (DerivedUnit). *)
RecomputesFromDependencies == Derived!RecomputesFromDependencies
=============================================================================
