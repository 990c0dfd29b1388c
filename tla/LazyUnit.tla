------------------------------ MODULE LazyUnit ------------------------------
(***************************************************************************)
(* What an action or a stream has in common as the application meets it:   *)
(* the lazy wrapper (packages/sync/src/actionLazy.ts, streamLazy.ts), which *)
(* imports the unit on the first call and bridges its snapshots to the     *)
(* listeners, and behind it the unit's value, its cached snapshot and the  *)
(* way it tells its one listener, the bridge (action.ts and stream.ts).    *)
(*                                                                         *)
(* The runs of the unit are in ActionUnit and StreamUnit, which extend     *)
(* this module.  The store is reduced to what it holds for the one entity  *)
(* the unit shows and to the notification it owes the unit; entities that  *)
(* are deleted and written again are the matter of EntityUnits.            *)
(***************************************************************************)
EXTENDS Integers, Sequences

CONSTANTS
    Listeners,
    Payloads,      \* payloads of calls, and the contents a run of each writes
    NoContent,     \* the unit's default value
    MaxCalls       \* bound: calls of start or submit

ASSUME LazyAssumption == NoContent \notin Payloads /\ MaxCalls \in Nat

Contents  == Payloads \cup {NoContent}
Statuses  == {"idle", "rehydrated", "loading", "refreshing", "success", "error"}
Snapshots == [status : Statuses, value : Contents]

VARIABLES
    unit,        \* how far resolvedUnitPromise is
    asked,       \* calls of start or submit that await the unit, with their payload
    calls,       \* how many calls there were
    listeners,
    attached,    \* bridgeAttached: the bridge is the unit's listener
    status, value,    \* internal.state
    kept,        \* snapshotCache, and whether it is lastNotifiedSnapshot
    member,      \* hasEntityValue: a run has given the unit an entity
    entity,      \* what the store holds for it
    due,         \* the store will call onChange
    heard,       \* history: the snapshot each listener was given last
    quiet        \* history: a run gave the unit an entity since the last notification

wrapper == <<unit, asked, calls, listeners, attached>>
store   == <<member, entity, due>>
shown   == <<status, value, kept, heard, quiet>>
lazyVars == <<wrapper, store, shown>>

LazyTypeOK ==
    /\ unit \in {"none", "importing", "resolved", "failed"}
    /\ asked \in Seq(Payloads)
    /\ calls \in 0..MaxCalls
    /\ listeners \in SUBSET Listeners
    /\ attached \in BOOLEAN
    /\ status \in Statuses /\ value \in Contents
    /\ kept \in [content : Snapshots, told : BOOLEAN]
    /\ member \in BOOLEAN /\ entity \in Contents /\ due \in BOOLEAN
    /\ heard \in [Listeners -> Snapshots]
    /\ quiet \in BOOLEAN

Initial == [status |-> "idle", value |-> NoContent]

LazyInit ==
    /\ unit = "none" /\ asked = <<>> /\ calls = 0
    /\ listeners = {} /\ attached = FALSE
    /\ status = "idle" /\ value = NoContent
    /\ kept = [content |-> Initial, told |-> TRUE]
    /\ member = FALSE /\ entity = NoContent /\ due = FALSE
    /\ heard = [l \in Listeners |-> Initial]
    /\ quiet = FALSE

Resolved == unit = "resolved"

-----------------------------------------------------------------------------
(* The unit's value and snapshots *)

(* Mutant: a unit without an entity has no default value. *)
ReadUndefined == IF member THEN entity ELSE "undefined"

(* getModeValue *)
Read == IF member THEN entity ELSE value

Snap(s, v) == [status |-> s, value |-> v]

(* readSnapshot: the kept one if nothing changed, else a new one. *)
ReadSnapshot(k, s, v) ==
    IF k.content = Snap(s, v) THEN k ELSE [content |-> Snap(s, v), told |-> FALSE]

(* The bridge hands a snapshot on to every listener.  (It also keeps it, for
   a reader who comes before the unit is there: the unit's own is read after.) *)
Deliver(s, v) ==
    heard' = [l \in Listeners |-> IF l \in listeners THEN Snap(s, v) ELSE heard[l]]

(* The state becomes s, v, and notifyUnit tells the bridge, if it listens and
   was not told this very snapshot.  k is what was kept.                   *)
NotifyUnit(k, s, v) ==
    LET read == ReadSnapshot(k, s, v)
    IN  /\ status' = s /\ value' = v
        /\ kept' = IF attached THEN [read EXCEPT !.told = TRUE] ELSE k
        /\ quiet' = (quiet /\ ~attached)
        /\ IF attached /\ ~read.told THEN Deliver(s, v)
           ELSE UNCHANGED heard

(* getSnapshot of the unit reads the value first. *)
UnitSnapshot == ReadSnapshot(kept, status, Read)

-----------------------------------------------------------------------------
(* The wrapper *)

(* start or submit is called: the call awaits the unit, which is imported
   if nobody has asked for it before.                                      *)
Ask(p) ==
    /\ calls < MaxCalls
    /\ calls' = calls + 1
    /\ unit' = IF unit = "none" THEN "importing" ELSE unit
    /\ asked' = IF unit = "failed" THEN asked ELSE Append(asked, p)
    /\ attached' = (attached \/ (Resolved /\ listeners # {}))
    /\ UNCHANGED <<listeners, store, shown>>

(* Mutant: the bridge waits for the next call. *)
ImportUnbridged ==
    /\ unit = "importing"
    /\ unit' = "resolved"
    /\ UNCHANGED <<asked, calls, listeners, attached, store, status, value, kept, heard, quiet>>

(* The module is there: the unit is created, and bridged. *)
Import ==
    /\ unit = "importing"
    /\ unit' = "resolved"
    /\ attached' = (listeners # {})
    /\ UNCHANGED <<asked, calls, listeners, store, status, value, kept, heard, quiet>>

(* The import fails: so does every call, the promise being kept. *)
ImportFails ==
    /\ unit = "importing"
    /\ unit' = "failed"
    /\ asked' = <<>>
    /\ UNCHANGED <<calls, listeners, attached, store, shown>>

(* getSnapshot, also of a start or submit that is over. *)
GetSnapshot ==
    /\ Resolved
    /\ value' = Read
    /\ kept' = UnitSnapshot
    /\ UNCHANGED <<wrapper, store, status, heard, quiet>>

(* A listener reads the state by getSnapshot and subscribes to its changes. *)
Subscribe(l) ==
    /\ l \notin listeners
    /\ listeners' = listeners \cup {l}
    /\ attached' = Resolved
    /\ value' = IF Resolved THEN Read ELSE value
    /\ kept' = IF Resolved THEN UnitSnapshot ELSE kept
    /\ heard' = [heard EXCEPT ![l] = IF Resolved THEN Snap(status, Read) ELSE Initial]
    /\ UNCHANGED <<unit, asked, calls, store, status, quiet>>

(* The last listener takes the bridge down with it. *)
Leave(l) ==
    /\ l \in listeners
    /\ listeners' = listeners \ {l}
    /\ attached' = (attached /\ listeners' # {})
    /\ UNCHANGED <<unit, asked, calls, store, shown>>

Bridging(l) == attached /\ listeners = {l}

-----------------------------------------------------------------------------
(* The store *)

(* A run context's write.  The store owes a notification to members of what
   changed; to become a member is no change.                               *)
Writes(v) ==
    /\ entity' = v /\ value' = v
    /\ member' = TRUE
    /\ due' = (due \/ (member /\ entity # v))
    /\ quiet' = (quiet \/ ~member)
    /\ UNCHANGED <<wrapper, status, kept, heard>>

(* Another unit writes the entity. *)
EntityChanges(v) ==
    /\ member /\ entity # v
    /\ entity' = v
    /\ due' = TRUE
    /\ UNCHANGED <<wrapper, member, shown>>

OnChange ==
    /\ due
    /\ due' = FALSE
    /\ NotifyUnit(kept, status, Read)
    /\ UNCHANGED <<wrapper, member, entity>>

(* What happens whatever the unit's runs do.  *)
LazyNext ==
    \/ \E p \in Payloads : Ask(p)
    \/ Import \/ ImportFails
    \/ GetSnapshot
    \/ \E l \in Listeners : Subscribe(l)
    \/ \E v \in Payloads : EntityChanges(v)
    \/ OnChange

-----------------------------------------------------------------------------
(* Properties *)

(* A subscriber knows what the unit shows, but for a change the store has
   yet to tell, and for an entity a run gave the unit without a word.      *)
HeardIsCurrent ==
    \A l \in listeners :
        ~due /\ ~quiet => heard[l] = Snap(status, value)
=============================================================================
