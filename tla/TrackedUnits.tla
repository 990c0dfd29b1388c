---------------------------- MODULE TrackedUnits ----------------------------
(***************************************************************************)
(* The tracking helpers for framework adapters (packages/sync/src/tracking/*)
(* snapshotStore.ts, subscribeTrackedUnit.ts, resetTrackedUnit.ts): an     *)
(* adapter reads a unit through a snapshot that is kept per unit, and is   *)
(* told of a change when a snapshot of the unit differs from the kept one. *)
(* Snapshots are compared by their content.                                *)
(***************************************************************************)
EXTENDS Naturals

CONSTANTS
    Adapters,      \* subscribers of one unit
    Snapshots,     \* what the unit may show
    None

(* What the constants may be; the instances are checked against it. *)
TrackedConstants == None \notin Snapshots

VARIABLES
    shown,       \* the unit's snapshot
    stored,      \* snapshotByUnit
    subscribed,  \* the adapters that subscribe
    telling,     \* the adapters the unit has yet to tell of its snapshot
    view,        \* per adapter: the snapshot it took last
    calls,       \* per adapter: it has been told to read again
    shared       \* history: adapters for whom another one has stored the snapshot first

trackedVars == <<shown, stored, subscribed, telling, view, calls, shared>>

TrackedInit ==
    /\ shown \in Snapshots /\ stored = None
    /\ subscribed = {} /\ telling = {} /\ calls = {}
    /\ view = [a \in Adapters |-> shown] /\ shared = {}

(* readTrackedUnitSnapshot stores what the unit shows. *)
Read(a) ==
    /\ stored' = shown
    /\ view' = [view EXCEPT ![a] = shown]
    /\ calls' = calls \ {a}
    /\ shared' = ((shared \cup telling) \ {a})
    /\ UNCHANGED <<shown, subscribed, telling>>

Subscribe(a) ==
    /\ a \notin subscribed
    /\ subscribed' = subscribed \cup {a}
    /\ stored' = shown /\ view' = [view EXCEPT ![a] = shown]
    /\ shared' = shared \cup telling
    /\ UNCHANGED <<shown, telling, calls>>

Unsubscribe(a) ==
    /\ a \in subscribed
    /\ subscribed' = subscribed \ {a} /\ telling' = telling \ {a}
    /\ calls' = calls \ {a} /\ shared' = shared \ {a}
    /\ UNCHANGED <<shown, stored, view>>

(* The unit changes, and calls its listeners one after another. *)
Change(s) ==
    /\ telling = {} /\ s # shown
    /\ shown' = s /\ telling' = subscribed
    /\ UNCHANGED <<stored, subscribed, view, calls, shared>>

(* Mutant: only the first snapshot of a unit is new. *)
WriteUnlessStored == stored = None

(* writeTrackedUnitSnapshot, which is true when the snapshot is new *)
Write == stored # shown

(* onStoreChange, for the listener of adapter a *)
Tell(a) ==
    /\ a \in telling /\ telling' = telling \ {a}
    /\ stored' = shown
    /\ calls' = IF Write THEN calls \cup {a} ELSE calls
    /\ shared' = IF Write THEN (shared \cup telling) \ {a} ELSE shared
    /\ UNCHANGED <<shown, subscribed, view>>

(* resetTrackedUnit *)
Reset == stored' = None /\ UNCHANGED <<shown, subscribed, telling, view, calls, shared>>

TrackedNext ==
    \/ \E a \in Adapters : Read(a) \/ Subscribe(a) \/ Unsubscribe(a) \/ Tell(a)
    \/ \E s \in Snapshots : Change(s)
    \/ Reset

-----------------------------------------------------------------------------
TrackedTypeOK ==
    /\ shown \in Snapshots /\ stored \in Snapshots \cup {None}
    /\ subscribed \cup telling \cup calls \cup shared \subseteq Adapters
    /\ view \in [Adapters -> Snapshots]

(* An adapter that has been told everything and shows something old has been
   told to read again, unless another reader of the same unit, or another
   subscriber, has stored the new snapshot before the adapter's turn came. *)
ChangesAreTracked ==
    \A a \in subscribed \ (telling \cup calls \cup shared) : view[a] = shown
=============================================================================
