---------------------------- MODULE EntityStore ----------------------------
(***************************************************************************)
(* The entity store of @livon/sync (packages/sync/src/entity): one map of  *)
(* entities by id, shared by every source, action, stream and draft unit,  *)
(* and the two indexes that tie units to entities.                         *)
(*                                                                         *)
(*  - a unit's record holds the ids it is a member of;                     *)
(*  - an id's record holds the keys of the units that refer to it, so that *)
(*    a change of the entity reaches them;                                 *)
(*  - an entity whose last unit lets go is an orphan: dropped at once,     *)
(*    kept for OrphanRetentionTtl, or kept for ever.                       *)
(*                                                                         *)
(* One call of the store is one step: JavaScript runs it to completion.    *)
(* Between calls the sweep timer, the microtask that notifies the dirty    *)
(* units and the clock interleave freely.  Lists of ids are sets, except   *)
(* for their length, which the code compares; where the order of a list    *)
(* decides, the model allows every order.                                  *)
(***************************************************************************)
EXTENDS Integers, FiniteSets

CONSTANTS
    Ids,                  \* entity ids
    Keys,                 \* keys of the units registered with the store
    Values,               \* the objects an id may map to, as Object.is tells them apart
    NoEntity,             \* entitiesById has no entry
    OrphanRetentionTtl,   \* milliseconds an orphan is kept, or Infinity
    HasTimeoutRuntime,    \* the platform has setTimeout / clearTimeout
    BatchOne, BatchMany,  \* readWrite.batch of the updateOne and updateMany strategies
    BatchThreshold,       \* NOTIFY_BATCH_THRESHOLD
    MaxTime               \* bound: the clock stops here

NoTime   == -1            \* an absent expiry, an unarmed timer
Infinity == -1            \* the retention 'infinity'

ASSUME StoreAssumption ==
    /\ NoEntity \notin Values
    /\ OrphanRetentionTtl \in Nat \cup {Infinity}
    /\ HasTimeoutRuntime \in BOOLEAN
    /\ BatchOne \in BOOLEAN
    /\ BatchMany \in BOOLEAN
    /\ BatchThreshold \in Nat /\ BatchThreshold > 1
    /\ MaxTime \in Nat

VARIABLES
    entitiesById,         \* the entities
    registered,           \* the keys unitStateByKey has
    membershipIds,        \* unitStateByKey.get(key).membershipIds
    unitKeysById,         \* the units that refer to an id
    orphanExpiresAtById,  \* when an orphan may be dropped
    orphanNextSweepAt,    \* when the armed sweep timer fires
    dirtyUnitKeys,        \* units to notify in the next microtask
    flushQueued,          \* the runtime queue holds the flush task
    outdated,             \* history: units not told of a change of one of their entities
    now                   \* Date.now()

indexVars  == <<registered, membershipIds, unitKeysById>>
orphanVars == <<orphanExpiresAtById, orphanNextSweepAt>>
notifyVars == <<dirtyUnitKeys, flushQueued, outdated>>
storeVars  == <<entitiesById, registered, membershipIds, unitKeysById,
                orphanExpiresAtById, orphanNextSweepAt, dirtyUnitKeys,
                flushQueued, outdated, now>>

Time == Nat \cup {NoTime}

TypeOK ==
    /\ entitiesById \in [Ids -> Values \cup {NoEntity}]
    /\ registered \in SUBSET Keys
    /\ membershipIds \in [Keys -> SUBSET Ids]
    /\ unitKeysById \in [Ids -> SUBSET Keys]
    /\ orphanExpiresAtById \in [Ids -> Time]
    /\ orphanNextSweepAt \in Time
    /\ dirtyUnitKeys \in SUBSET Keys
    /\ flushQueued \in BOOLEAN
    /\ outdated \in SUBSET Keys
    /\ now \in Nat

StoreInit ==
    /\ entitiesById = [i \in Ids |-> NoEntity]
    /\ registered = {}
    /\ membershipIds = [k \in Keys |-> {}]
    /\ unitKeysById = [i \in Ids |-> {}]
    /\ orphanExpiresAtById = [i \in Ids |-> NoTime]
    /\ orphanNextSweepAt = NoTime
    /\ dirtyUnitKeys = {}
    /\ flushQueued = FALSE
    /\ outdated = {}
    /\ now = 0

-----------------------------------------------------------------------------
(* Orphans *)

ShouldInlineOrphanSweep == OrphanRetentionTtl # Infinity /\ ~HasTimeoutRuntime

Scheduled(expires) == {i \in Ids : expires[i] # NoTime}

Expired == {i \in Scheduled(orphanExpiresAtById) : orphanExpiresAtById[i] <= now}

(* Mutant: the inline sweep does not look at the age of an orphan. *)
SweptYoung == IF ShouldInlineOrphanSweep THEN Scheduled(orphanExpiresAtById) ELSE {}

(* What sweepExpiredOrphansIfNeeded drops before a call does its own work. *)
Swept == IF ShouldInlineOrphanSweep THEN Expired ELSE {}

(* Mutant: the entry is overwritten with null instead of deleted. *)
WithNull(f, ids, none) == [i \in Ids |-> IF i \in ids THEN NoTime ELSE f[i]]

Without(f, ids, none) == [i \in Ids |-> IF i \in ids THEN none ELSE f[i]]

(* removeOrphanEntityById: an entity a unit refers to is kept. *)
Unreferenced(ids) == {i \in ids : unitKeysById[i] = {}}

SweptEntities == Without(entitiesById, Unreferenced(Swept), NoEntity)
SweptExpiries == Without(orphanExpiresAtById, Swept, NoTime)

(* scheduleOrphanSweepAt: an armed timer that fires no later is left alone. *)
ArmedBy(timer, at) ==
    IF ~HasTimeoutRuntime THEN timer
    ELSE IF timer # NoTime /\ timer <= at THEN timer
    ELSE at

EarliestExpiry(expires) ==
    CHOOSE t \in {expires[i] : i \in Scheduled(expires)} :
        \A i \in Scheduled(expires) : t <= expires[i]

(* syncOrphanSweepTimeoutByScan *)
SyncedByScan(timer, expires) ==
    IF Scheduled(expires) = {} THEN NoTime
    ELSE ArmedBy(timer, EarliestExpiry(expires))

(* Mutant: an orphan that is to be kept is dropped at once. *)
OrphansNeverKept(entities, ids) == Without(entities, ids, NoEntity)

(* scheduleOrphanCleanup for ids that just lost their last unit. *)
OrphansDropped(entities, ids) ==
    IF OrphanRetentionTtl = 0 THEN Without(entities, ids, NoEntity) ELSE entities

OrphansScheduled(expires, ids) ==
    Without(expires, ids, IF OrphanRetentionTtl > 0 THEN now + OrphanRetentionTtl ELSE NoTime)

TimerForOrphans(timer, ids) ==
    IF ids # {} /\ OrphanRetentionTtl > 0
    THEN ArmedBy(timer, now + OrphanRetentionTtl)
    ELSE timer

(* clearOrphanCleanupSchedule for ids that units adopt one after the other:
   each clearing that takes the armed expiry away rescans.  When nothing is
   left to sweep the timer is disarmed only if the last one cleared is the
   one the timer was armed for, which the order of the ids decides.        *)
TimersAfterAdopting(timer, expires, ids) ==
    LET cleared == ids \cap Scheduled(expires)
        rest    == Without(expires, ids, NoTime)
    IN IF \A i \in cleared : expires[i] # timer
       THEN {timer}
       ELSE {SyncedByScan(timer, rest)} \cup
            {timer : i \in {j \in cleared : expires[j] # timer}}

-----------------------------------------------------------------------------
(* Membership of units *)

(* Mutant: an adoption leaves the cleanup of the id scheduled. *)
MoveUnitKeyKeepingCleanup(k, removed, added) ==
    LET orphaned == {i \in removed : unitKeysById[i] = {k}}
    IN /\ unitKeysById' = [i \in Ids |->
                IF i \in removed THEN unitKeysById[i] \ {k}
                ELSE IF i \in added THEN unitKeysById[i] \cup {k}
                ELSE unitKeysById[i]]
       /\ entitiesById' = OrphansDropped(SweptEntities, orphaned)
       /\ orphanExpiresAtById' = OrphansScheduled(SweptExpiries, orphaned)
       /\ orphanNextSweepAt' = TimerForOrphans(orphanNextSweepAt, orphaned)

(* Mutant: the id is an orphan as soon as one of its units lets go. *)
MoveUnitKeyOrphaning(k, removed, added) ==
    /\ unitKeysById' = [i \in Ids |->
           IF i \in removed THEN unitKeysById[i] \ {k}
           ELSE IF i \in added THEN unitKeysById[i] \cup {k}
           ELSE unitKeysById[i]]
    /\ entitiesById' = OrphansDropped(SweptEntities, removed)
    /\ orphanExpiresAtById' = Without(OrphansScheduled(SweptExpiries, removed), added, NoTime)
    /\ orphanNextSweepAt' = TimerForOrphans(orphanNextSweepAt, removed)

(* removeUnitKeyFromId for the ids let go, then addUnitKeyToId for the ids
   taken up; the call sweeps first when there is no timer.                 *)
MoveUnitKey(k, removed, added) ==
    LET orphaned == {i \in removed : unitKeysById[i] = {k}}
        expires  == OrphansScheduled(SweptExpiries, orphaned)
    IN /\ unitKeysById' = [i \in Ids |->
                IF i \in removed THEN unitKeysById[i] \ {k}
                ELSE IF i \in added THEN unitKeysById[i] \cup {k}
                ELSE unitKeysById[i]]
       /\ entitiesById' = OrphansDropped(SweptEntities, orphaned)
       /\ orphanExpiresAtById' = Without(expires, added, NoTime)
       /\ orphanNextSweepAt' \in
              TimersAfterAdopting(TimerForOrphans(orphanNextSweepAt, orphaned),
                                  expires, added)

(* clearUnitMembership: without a membership not even the sweep runs. *)
LetGo(k) ==
    IF membershipIds[k] = {}
    THEN UNCHANGED <<entitiesById, unitKeysById, orphanVars>>
    ELSE MoveUnitKey(k, membershipIds[k], {})

(* Mutant: the unit registered before under the key is only overwritten. *)
RegisterUnitOver(k) ==
    /\ MoveUnitKey(k, {}, {})
    /\ registered' = registered \cup {k}
    /\ membershipIds' = [membershipIds EXCEPT ![k] = {}]
    /\ outdated' = outdated \ {k}
    /\ UNCHANGED <<dirtyUnitKeys, flushQueued, now>>

(* registerUnit: a unit of the same key that is still registered is
   unregistered first.                                                     *)
RegisterUnit(k) ==
    /\ MoveUnitKey(k, membershipIds[k], {})
    /\ registered' = registered \cup {k}
    /\ membershipIds' = [membershipIds EXCEPT ![k] = {}]
    /\ outdated' = outdated \ {k}
    /\ UNCHANGED <<dirtyUnitKeys, flushQueued, now>>

(* unregisterUnit, the function registerUnit returns. *)
UnregisterUnit(k) ==
    /\ k \in registered
    /\ LetGo(k)
    /\ registered' = registered \ {k}
    /\ membershipIds' = [membershipIds EXCEPT ![k] = {}]
    /\ outdated' = outdated \ {k}
    /\ UNCHANGED <<dirtyUnitKeys, flushQueued, now>>

(* A list of the same length all of whose ids are members already is taken
   for the current membership; a list of one id is compared on its own.    *)
LooksUnchanged(k, ids, length) ==
    /\ length # 1
    /\ Cardinality(membershipIds[k]) = length
    /\ ids \subseteq membershipIds[k]

SetUnitMembership(k, ids, length) ==
    LET kept == LooksUnchanged(k, ids, length)
        next == IF kept THEN membershipIds[k] ELSE ids
    IN /\ k \in registered
       /\ MoveUnitKey(k, membershipIds[k] \ next, next \ membershipIds[k])
       /\ membershipIds' = [membershipIds EXCEPT ![k] = next]
       /\ UNCHANGED <<registered, notifyVars, now>>

ClearUnitMembership(k) ==
    /\ k \in registered
    /\ LetGo(k)
    /\ membershipIds' = [membershipIds EXCEPT ![k] = {}]
    /\ UNCHANGED <<registered, notifyVars, now>>

-----------------------------------------------------------------------------
(* Notification of units *)

UnitsOf(ids) == UNION {unitKeysById[i] : i \in ids}

(* The units whose own record has one of the ids: who should hear of it. *)
MembersOf(ids) == {k \in Keys : membershipIds[k] \cap ids # {}}

(* Mutant: a write that finds a flush under way does not add its units. *)
NotifyFirstOnly(keys, changed, batched) ==
    IF batched
    THEN /\ dirtyUnitKeys' = IF dirtyUnitKeys = {} THEN keys ELSE dirtyUnitKeys
         /\ flushQueued' = (flushQueued \/ keys # {})
         /\ outdated' = outdated \cup MembersOf(changed)
    ELSE /\ outdated' = (outdated \cup MembersOf(changed)) \ (keys \cap registered)
         /\ UNCHANGED <<dirtyUnitKeys, flushQueued>>

(* Who is notified before the write returns. *)
Told(keys, batched) == IF batched THEN {} ELSE keys \cap registered

(* runEntityWriteStrategy: at once, or through the dirty set in a microtask. *)
Notify(keys, changed, batched) ==
    IF batched
    THEN /\ dirtyUnitKeys' = dirtyUnitKeys \cup keys
         /\ flushQueued' = (flushQueued \/ keys # {})
         /\ outdated' = outdated \cup MembersOf(changed)
    ELSE /\ outdated' = (outdated \cup MembersOf(changed)) \ Told(keys, batched)
         /\ UNCHANGED <<dirtyUnitKeys, flushQueued>>

(* Mutant: the queue forgets the flush and runs nothing. *)
FlushForgotten ==
    /\ flushQueued
    /\ flushQueued' = FALSE
    /\ UNCHANGED <<entitiesById, indexVars, orphanVars, dirtyUnitKeys, outdated, now>>

(* The microtask: every dirty unit that is still registered is notified. *)
FlushDirtyUnits ==
    /\ flushQueued
    /\ flushQueued' = FALSE
    /\ dirtyUnitKeys' = {}
    /\ outdated' = outdated \ (dirtyUnitKeys \cap registered)
    /\ UNCHANGED <<entitiesById, indexVars, orphanVars, now>>

-----------------------------------------------------------------------------
(* Writes *)

BatchesUpsert(touched, duplicates) ==
    BatchMany /\ (duplicates \/ Cardinality(touched) >= BatchThreshold)

(* upsertMany: values holds the content each id ends up with after merging;
   touched are the ids some entry of the list really changed, which are the
   changed ones and, when an id occurs twice in the list, possibly one that
   was changed and changed back.                                           *)
UpsertMany(values, touched, duplicates) ==
    LET ids     == DOMAIN values
        changed == {i \in ids : values[i] # SweptEntities[i]}
    IN /\ changed \subseteq touched
       /\ touched = changed \/ duplicates
       /\ entitiesById' = [i \in Ids |->
              IF i \in ids THEN values[i] ELSE SweptEntities[i]]
       /\ orphanExpiresAtById' = SweptExpiries
       /\ Notify(UnitsOf(touched), changed, BatchesUpsert(touched, duplicates))
       /\ UNCHANGED <<indexVars, orphanNextSweepAt, now>>

(* upsertOne: one id never reaches the batch threshold. *)
UpsertOne(i, value) ==
    /\ entitiesById' = [SweptEntities EXCEPT ![i] = value]
    /\ orphanExpiresAtById' = SweptExpiries
    /\ LET changed == IF value = SweptEntities[i] THEN {} ELSE {i}
       IN Notify(UnitsOf(changed), changed, FALSE)
    /\ UNCHANGED <<indexVars, orphanNextSweepAt, now>>

Existing(ids) == {i \in ids : SweptEntities[i] # NoEntity}

BatchesDelete(existed, batch) ==
    batch /\ (\/ Cardinality(existed) >= BatchThreshold
              \/ Cardinality(UnitsOf(existed)) >= BatchThreshold)

(* Mutant: the units keep a deleted id in their membership. *)
DeleteKeepingMembers(ids, batch) ==
    LET existed  == Existing(ids)
        affected == UnitsOf(existed)
    IN /\ entitiesById' = Without(SweptEntities, existed, NoEntity)
       /\ orphanExpiresAtById' = Without(SweptExpiries, ids, NoTime)
       /\ orphanNextSweepAt' = SyncedByScan(orphanNextSweepAt, orphanExpiresAtById')
       /\ unitKeysById' = Without(unitKeysById, existed, {})
       /\ Notify(affected, existed, batch)
       /\ UNCHANGED <<registered, membershipIds, now>>

(* The part deleteOne and deleteMany share: schedules of the ids are cleared
   whether or not the entity exists, the indexes only where it does.       *)
Delete(ids, batch) ==
    LET existed  == Existing(ids)
        affected == UnitsOf(existed)
        expires  == Without(SweptExpiries, ids, NoTime)
    IN /\ entitiesById' = Without(SweptEntities, existed, NoEntity)
       /\ orphanExpiresAtById' = expires
       /\ orphanNextSweepAt' =
              IF \E i \in ids \cap Scheduled(SweptExpiries) :
                     SweptExpiries[i] = orphanNextSweepAt
              THEN SyncedByScan(orphanNextSweepAt, expires)
              ELSE orphanNextSweepAt
       /\ membershipIds' = [k \in Keys |->
              membershipIds[k] \ {i \in existed : k \in unitKeysById[i] \cap registered}]
       /\ unitKeysById' = Without(unitKeysById, existed, {})
       /\ Notify(affected, existed, BatchesDelete(existed, batch))
       /\ UNCHANGED <<registered, now>>

DeleteOne(i)    == Delete({i}, BatchOne)
DeleteMany(ids) == Delete(ids, BatchMany)

-----------------------------------------------------------------------------
(* Timer and clock *)

(* Mutant: the timer is not armed again for the orphans that are left. *)
SweepTimerFiresOnce ==
    /\ orphanNextSweepAt # NoTime
    /\ orphanNextSweepAt <= now
    /\ entitiesById' = Without(entitiesById, Unreferenced(Expired), NoEntity)
    /\ orphanExpiresAtById' = Without(orphanExpiresAtById, Expired, NoTime)
    /\ orphanNextSweepAt' = NoTime
    /\ UNCHANGED <<indexVars, notifyVars, now>>

(* sweepExpiredOrphans, run by the timer: the timer is re-armed for what is
   left.                                                                   *)
SweepTimerFires ==
    /\ orphanNextSweepAt # NoTime
    /\ orphanNextSweepAt <= now
    /\ entitiesById' = Without(entitiesById, Unreferenced(Expired), NoEntity)
    /\ orphanExpiresAtById' = Without(orphanExpiresAtById, Expired, NoTime)
    /\ orphanNextSweepAt' = SyncedByScan(NoTime, orphanExpiresAtById')
    /\ UNCHANGED <<indexVars, notifyVars, now>>

(* getById on a platform without timers sweeps before it reads. *)
ReadSweeps ==
    /\ Swept # {}
    /\ entitiesById' = SweptEntities
    /\ orphanExpiresAtById' = SweptExpiries
    /\ UNCHANGED <<indexVars, orphanNextSweepAt, notifyVars, now>>

Tick ==
    /\ now < MaxTime
    /\ now' = now + 1
    /\ UNCHANGED <<entitiesById, indexVars, orphanVars, notifyVars>>

-----------------------------------------------------------------------------
(* Callers: run contexts of the units.  Bound: no orphan is scheduled past
   the time the clock stops at.                                            *)

WithinHorizon == \A i \in Ids : orphanExpiresAtById[i] <= MaxTime

Call ==
    \/ \E k \in Keys : RegisterUnit(k) \/ UnregisterUnit(k) \/ ClearUnitMembership(k)
    \/ \E k \in Keys, ids \in SUBSET Ids, length \in 0..(Cardinality(Ids) + 1) :
          /\ length >= Cardinality(ids) /\ (length = 0 <=> ids = {})
          /\ SetUnitMembership(k, ids, length)
    \/ \E i \in Ids, value \in Values : UpsertOne(i, value)
    \/ \E ids \in SUBSET Ids : \E values \in [ids -> Values], touched \in SUBSET ids,
                                  duplicates \in BOOLEAN :
          UpsertMany(values, touched, duplicates)
    \/ \E i \in Ids : DeleteOne(i)
    \/ \E ids \in SUBSET Ids : DeleteMany(ids)
    \/ ReadSweeps

Next ==
    \/ Call /\ WithinHorizon'
    \/ SweepTimerFires
    \/ FlushDirtyUnits
    \/ Tick

Init == StoreInit

(* Fairness: the event loop runs due timers and queued microtasks, and time
   passes.  Calls of the store are never forced.                           *)
Spec == Init /\ [][Next]_storeVars
FairSpec == Spec /\ WF_storeVars(SweepTimerFires) /\ WF_storeVars(FlushDirtyUnits)
                 /\ WF_storeVars(Tick)

-----------------------------------------------------------------------------
(* Properties *)

(* The two indexes of the store are inverse to each other, and only a
   registered unit is in them: no change misses a unit (entity -> units) and
   no release is lost (unit -> entities).                                  *)
IndexesAgree ==
    /\ \A k \in Keys, i \in Ids : i \in membershipIds[k] <=> k \in unitKeysById[i]
    /\ \A k \in Keys \ registered : membershipIds[k] = {}

(* An entity a unit refers to is never waiting to be dropped: taking it up
   again cancels the cleanup its last release scheduled.                   *)
OnlyOrphansExpire ==
    \A i \in Scheduled(orphanExpiresAtById) : unitKeysById[i] = {}

(* Where there are timers, one is armed for the earliest expiry or before:
   no sequence of releases, adoptions, deletes and sweeps leaves an orphan
   without a sweep to come.                                                *)
SweepIsArmed ==
    HasTimeoutRuntime =>
        \A i \in Scheduled(orphanExpiresAtById) :
            /\ orphanNextSweepAt # NoTime
            /\ orphanNextSweepAt <= orphanExpiresAtById[i]

(* A unit that was not told of a change of one of its entities will be: it
   is in the dirty set and the flush is queued.                            *)
NoSilentChange ==
    /\ outdated \subseteq dirtyUnitKeys
    /\ dirtyUnitKeys # {} => flushQueued

Vanishes(i) == entitiesById[i] # NoEntity /\ entitiesById'[i] = NoEntity

(* An entity leaves the store only when afterwards no unit is a member of it:
   neither the sweep, nor a release by another unit, nor a delete leaves a
   member behind.                                                          *)
NoMemberLosesItsEntity ==
    [][\A i \in Ids : Vanishes(i) => \A k \in Keys : i \notin membershipIds'[k]]_storeVars

(* An entity nobody deletes stays until its retention is over: it goes with
   its last release when nothing is retained, else when its expiry passed. *)
Retained ==
    \A i \in Ids : Vanishes(i) =>
        \/ \E ids \in SUBSET Ids : i \in ids /\ (DeleteOne(i) \/ DeleteMany(ids))
        \/ i \in Expired
        \/ OrphanRetentionTtl = 0 /\ unitKeysById[i] # {} /\ unitKeysById'[i] = {}

RetentionHonoured == [][Retained]_storeVars

(* A scheduled orphan is dropped or taken up again, it does not wait for ever
   for a sweep nobody armed; and every unit that a change has made outdated
   hears of it, from the microtask if not at once.                         *)
DeferredWorkIsDone ==
    /\ \A i \in Ids : i \in Scheduled(orphanExpiresAtById) ~> i \notin Scheduled(orphanExpiresAtById)
    /\ \A k \in Keys : k \in outdated ~> k \notin outdated
=============================================================================
