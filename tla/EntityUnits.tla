---------------------------- MODULE EntityUnits ----------------------------
(***************************************************************************)
(* The units of @livon/sync on top of the entity store: what a source,     *)
(* action or stream unit of mode 'many' remembers of its membership and of *)
(* its value, and how the calls of a run context (packages/sync/src/utils  *)
(* and the factories of source, action and stream) keep the two in step    *)
(* with the store.                                                         *)
(*                                                                         *)
(* A unit has its own list of ids, beside the set the store's record has.  *)
(* A source refreshes its value lazily: a notification marks it dirty and  *)
(* a run context's write only notes that a refresh is pending; actions and *)
(* streams refresh at once.                                                *)
(*                                                                         *)
(* A run context's upsert calls the store twice, first for the entities    *)
(* and then for the membership.  Nothing runs in between, so the variable  *)
(* call holds the second half and every other step waits for it.           *)
(***************************************************************************)
EXTENDS EntityStore, Sequences

CONSTANTS
    Sources,      \* the keys of source units; the others are actions and streams
    Listening,    \* the keys of units somebody has subscribed to
    Lists,        \* bound: the lists of ids callers pass
    MayDelete,    \* run contexts delete entities
    NoCall        \* no call of a run context is half done

ASSUME UnitsAssumption ==
    /\ Sources \subseteq Keys /\ Listening \subseteq Keys
    /\ Lists \subseteq Seq(Ids)
    /\ MayDelete \in BOOLEAN

VARIABLES
    ownIds,       \* internal.membershipIds, a list
    hasValue,     \* internal.hasEntityValue
    value,        \* internal.state.value
    dirty,        \* isValueDirty of a source
    pending,      \* hasPendingRefresh of the run context
    heard,        \* the value of the last snapshot the subscribers were given
    call          \* the second half of a run context's call

unitVars == <<ownIds, hasValue, value, dirty, pending, heard>>
vars     == <<storeVars, unitVars, call>>

ListIds(list) == {list[n] : n \in DOMAIN list}

UnitsInit ==
    /\ StoreInit
    /\ ownIds = [k \in Keys |-> <<>>]
    /\ hasValue = [k \in Keys |-> FALSE]
    /\ value = [k \in Keys |-> <<>>]
    /\ dirty = {}
    /\ pending = {}
    /\ heard = [k \in Keys |-> <<>>]
    /\ call = NoCall

-----------------------------------------------------------------------------
(* Values *)

(* readManyDirect: the entities of the list that exist, in its order. *)
Existent(entities) == SelectSeq(entities, LAMBDA v : v # NoEntity)

ReadMany(list, entities) == Existent([n \in DOMAIN list |-> entities[list[n]]])

(* getModeValue: what refreshValueFromEntity stores. *)
ModeValue(k, list, has, entities) == IF has THEN ReadMany(list, entities) ELSE value[k]

(* resolveManyWithSubviewCache keeps what it read last for a list, and gives
   that back only when the very entities it read are still there, no more
   and no fewer: what it returns is what reading again would.              *)
Current(k) == ModeValue(k, ownIds[k], hasValue[k], entitiesById)

(* notifyUnit: whoever subscribed is given the snapshot of the unit's value,
   unless it is the one given last.                                        *)
NotifyUnits(keys, values) ==
    heard' = [k \in Keys |-> IF k \in keys \cap Listening THEN values[k] ELSE heard[k]]

(* Mutant: a source nobody listens to is not marked dirty. *)
OnChangeOfListeners(keys) ==
    LET refreshed == {k \in keys : k \notin Sources \/ k \in Listening}
        fresh     == [k \in Keys |->
                         IF k \in refreshed
                         THEN ModeValue(k, ownIds[k], hasValue[k], entitiesById')
                         ELSE value[k]]
    IN /\ value' = fresh
       /\ dirty' = dirty \ refreshed
       /\ NotifyUnits(keys, fresh)

(* The onChange callbacks of the notified units: a source only marks itself
   dirty unless somebody listens, the others read their value at once.     *)
OnChange(keys) ==
    LET refreshed == {k \in keys : k \notin Sources \/ k \in Listening}
        fresh     == [k \in Keys |->
                         IF k \in refreshed
                         THEN ModeValue(k, ownIds[k], hasValue[k], entitiesById')
                         ELSE value[k]]
    IN /\ value' = fresh
       /\ dirty' = (dirty \cup (keys \cap Sources)) \ refreshed
       /\ NotifyUnits(keys, fresh)

-----------------------------------------------------------------------------
(* Run contexts.  Gates that make a context of an outdated run inert are
   the subject of SourceUnit; here every context is active.                *)

Idle == call = NoCall

CreateUnit(k) ==
    /\ Idle
    /\ k \notin registered
    /\ RegisterUnit(k)
    /\ UNCHANGED <<unitVars, call>>

Repeats(list) == Cardinality(ListIds(list)) < Len(list)

(* The first half of upsertOne, upsertMany and of set with a list: the
   entities, and whoever is a member of them already is notified.          *)
UpsertForUnit(k, list, values, touched, duplicates, set) ==
    /\ Idle
    /\ k \in registered
    /\ duplicates => Repeats(list)
    /\ UpsertMany(values, touched, duplicates)
    /\ OnChange(Told(UnitsOf(touched), BatchesUpsert(touched, duplicates)))
    /\ call' = [unit |-> k, ids |-> list, set |-> set]
    /\ UNCHANGED <<ownIds, hasValue, pending>>

(* applyEntityRunResult of a result that is a list of entities: what the set
   of a source's run context does with its value.                          *)
ApplyRunResult(k, list, values, touched, duplicates) ==
    k \in Sources /\ UpsertForUnit(k, list, values, touched, duplicates, TRUE)

(* setManyEntityMembership and setOneEntityMembership return early. *)
LooksJoined(k, list) == hasValue[k] /\ ownIds[k] = list

(* Mutant: the store's record keeps what the old list had. *)
JoinUnitKeeping ==
    LET k    == call.unit
        list == call.ids
        ids  == ListIds(list) \cup membershipIds[k]
    IN /\ ~Idle
       /\ SetUnitMembership(k, ids, Cardinality(ids))
       /\ ownIds' = [ownIds EXCEPT ![k] = list]
       /\ hasValue' = [hasValue EXCEPT ![k] = TRUE]
       /\ call' = NoCall
       /\ UNCHANGED <<value, dirty, pending, heard>>

(* The second half: the membership, then the value.  set (applyEntityRunResult)
   reads the value and notifies; a run context's upsert reads it for an
   action or stream and leaves it pending for a source.                    *)
JoinUnit ==
    LET k    == call.unit
        list == call.ids
        read == call.set \/ k \notin Sources
    IN /\ ~Idle
       /\ IF LooksJoined(k, list) THEN UNCHANGED storeVars
          ELSE SetUnitMembership(k, ListIds(list), Len(list))
       /\ ownIds' = [ownIds EXCEPT ![k] = list]
       /\ hasValue' = [hasValue EXCEPT ![k] = TRUE]
       /\ value' = IF read THEN [value EXCEPT ![k] = ReadMany(list, entitiesById')] ELSE value
       /\ dirty' = IF read THEN dirty \ {k} ELSE dirty
       /\ pending' = IF read THEN pending ELSE pending \cup {k}
       /\ NotifyUnits(IF call.set THEN {k} ELSE {}, value')
       /\ call' = NoCall

(* deleteOne and deleteMany of a run context: the store's delete, then the
   unit's own refresh; its own list keeps the ids.                         *)
DeleteForUnit(k, ids) ==
    LET told == Told(UnitsOf(Existing(ids)), BatchesDelete(Existing(ids), BatchMany))
        read == IF k \in Sources THEN {} ELSE {k}
    IN /\ Idle
       /\ MayDelete
       /\ k \in registered
       /\ DeleteMany(ids)
       /\ LET refreshed == {j \in told : j \notin Sources \/ j \in Listening} \cup read
              fresh     == [j \in Keys |->
                               IF j \in refreshed
                               THEN ModeValue(j, ownIds[j], hasValue[j], entitiesById')
                               ELSE value[j]]
          IN /\ value' = fresh
             /\ dirty' = (dirty \cup (told \cap Sources)) \ refreshed
             /\ NotifyUnits(told, fresh)
       /\ pending' = pending \cup ({k} \cap Sources)
       /\ UNCHANGED <<ownIds, hasValue, call>>

(* getValue: a pending refresh is done now. *)
GetValue(k) ==
    /\ Idle
    /\ k \in pending
    /\ value' = [value EXCEPT ![k] = Current(k)]
    /\ dirty' = dirty \ {k}
    /\ pending' = pending \ {k}
    /\ UNCHANGED <<storeVars, ownIds, hasValue, heard, call>>

(* reset of a source: back to the initial value, new run contexts. *)
Reset(k) ==
    /\ Idle
    /\ k \in Sources \cap registered
    /\ ClearUnitMembership(k)
    /\ ownIds' = [ownIds EXCEPT ![k] = <<>>]
    /\ hasValue' = [hasValue EXCEPT ![k] = FALSE]
    /\ value' = [value EXCEPT ![k] = <<>>]
    /\ dirty' = dirty \ {k}
    /\ pending' = pending \ {k}
    /\ NotifyUnits({k}, value')
    /\ UNCHANGED call

(* Mutant: the subscribers are notified before the value is read. *)
RunSettlesNotifyingFirst(k, cleanup) ==
    /\ Idle
    /\ k \in registered
    /\ value' = [value EXCEPT ![k] = IF cleanup \/ k \in dirty THEN Current(k) ELSE value[k]]
    /\ dirty' = dirty \ {k}
    /\ NotifyUnits({k}, value)
    /\ UNCHANGED <<storeVars, ownIds, hasValue, pending, call>>

(* A run succeeds: with a cleanup the value is read, and a source reads a
   dirty one; then the subscribers are notified.                           *)
RunSettles(k, cleanup) ==
    LET read == cleanup \/ k \in dirty
        v    == IF read THEN Current(k) ELSE value[k]
    IN /\ Idle
       /\ k \in registered
       /\ value' = [value EXCEPT ![k] = v]
       /\ dirty' = IF read THEN dirty \ {k} ELSE dirty
       /\ NotifyUnits({k}, value')
       /\ UNCHANGED <<storeVars, ownIds, hasValue, pending, call>>

(* getSnapshot: a source reads a dirty value, the others always read. *)
GetSnapshot(k) ==
    /\ Idle
    /\ k \in registered
    /\ k \in Sources => k \in dirty
    /\ value' = [value EXCEPT ![k] = Current(k)]
    /\ dirty' = dirty \ {k}
    /\ UNCHANGED <<storeVars, ownIds, hasValue, pending, heard, call>>

-----------------------------------------------------------------------------
(* The store's own steps *)

Flush ==
    /\ Idle
    /\ FlushDirtyUnits
    /\ OnChange(dirtyUnitKeys \cap registered)
    /\ UNCHANGED <<ownIds, hasValue, pending, call>>

SweepTimer == Idle /\ SweepTimerFires /\ UNCHANGED <<unitVars, call>>

TickIdle == Idle /\ Tick /\ UNCHANGED <<unitVars, call>>

RunContextCall ==
    \/ \E k \in Keys, list \in Lists, duplicates \in BOOLEAN :
          \E values \in [ListIds(list) -> Values], touched \in SUBSET ListIds(list) :
              \/ UpsertForUnit(k, list, values, touched, duplicates, FALSE)
              \/ ApplyRunResult(k, list, values, touched, duplicates)
    \/ JoinUnit
    \/ \E k \in Keys, ids \in SUBSET Ids : DeleteForUnit(k, ids)
    \/ \E k \in Keys : Reset(k)

(* Bound: calls are made while what they schedule expires before the clock
   stops.  No time passes within a call.                                   *)
InTime == now + OrphanRetentionTtl <= MaxTime

UnitsNext ==
    \/ InTime /\ RunContextCall
    \/ \E k \in Keys : CreateUnit(k) \/ GetValue(k) \/ GetSnapshot(k)
    \/ \E k \in Keys, cleanup \in BOOLEAN : RunSettles(k, cleanup)
    \/ Flush
    \/ SweepTimer
    \/ TickIdle

UnitsSpec == UnitsInit /\ [][UnitsNext]_vars

-----------------------------------------------------------------------------
(* Properties *)

(* The store's record and the unit's own list agree on the id. *)
Indexed(k, i) == i \in ListIds(ownIds[k]) => i \in membershipIds[k]

(* A unit shows what the store holds for its list, or knows that it does
   not: its value is marked dirty, a refresh is pending, or the microtask
   that notifies it is queued.  (Entities that were deleted and came back
   without the unit's record are ListedEntitiesStay's subject.)            *)
NoUnknownStaleness ==
    Idle => \A k \in registered :
                \/ value[k] = Current(k)
                \/ k \in dirty \cup pending
                \/ k \in outdated
                \/ \E i \in Ids : ~Indexed(k, i)

(* What the subscribers were given at the end of a run is what the unit
   shows, and only a pending refresh of the run can make it outdated.      *)
SettledHeard ==
    \A k \in Listening, cleanup \in BOOLEAN :
        RunSettles(k, cleanup) =>
            /\ heard'[k] = value'[k]
            /\ \/ heard'[k] = Current(k)
               \/ k \in pending \/ k \in outdated
               \/ \E i \in Ids : ~Indexed(k, i)

(* An entity a unit lists does not vanish unless it is deleted, whatever the
   other units let go of.                                                  *)
ListedStay ==
    \A i \in Ids, k \in Keys :
        Vanishes(i) /\ i \in ListIds(ownIds[k]) /\ i \in ListIds(ownIds'[k])
            => \E j \in Keys, ids \in SUBSET Ids : DeleteForUnit(j, ids)

ListedEntitiesStay == [][ListedStay]_vars

(* The store has no unit as a member of an id it does not list: replacing
   the list lets go of everything else.                                    *)
NothingBeyondTheList ==
    Idle => \A k \in Keys : membershipIds[k] \subseteq ListIds(ownIds[k])
=============================================================================
