------------------------- MODULE EntityStoreProofs -------------------------
(***************************************************************************)
(* Theorems about the entity store, for every set of ids, units and        *)
(* values, every retention and either kind of platform.                    *)
(*                                                                         *)
(* The argument: the two indexes agree by themselves; from that, a         *)
(* scheduled orphan has no unit (adopting an id always clears its          *)
(* schedule), so what the sweep drops is nobody's entity; the timer is a   *)
(* lower bound of the schedule because every change of either re-reads     *)
(* the other.                                                              *)
(***************************************************************************)
EXTENDS EntityStore, TLAPS, WellFoundedInduction

(* Replacing entries of a table by a value of its range keeps its type.    *)
LEMMA WithoutType ==
    ASSUME NEW S, NEW f \in [Ids -> S], NEW ids, NEW none \in S
    PROVE  Without(f, ids, none) \in [Ids -> S]
  BY DEF Without

(* A non-empty set of natural numbers has a least element.                 *)
LessThan == OpToRel(<, Nat)

LEMMA LessThanWellFounded == IsWellFoundedOn(LessThan, Nat)
  BY NatLessThanWellFounded, Zenon DEF LessThan

LEMMA LessThanMeaning == \A m, n \in Nat : m < n => <<m, n>> \in LessThan
  BY DEF LessThan, OpToRel

LEMMA LeastNatural ==
    ASSUME NEW T \in SUBSET Nat, T # {}
    PROVE  \E t \in T : \A u \in T : t <= u
<1>1. PICK t \in T : \A u \in T : <<u, t>> \notin LessThan
  BY LessThanWellFounded, WFMin
<1>2. \A u \in T : ~(u < t)
  BY <1>1, LessThanMeaning, Zenon
<1>3. \A u \in T : t <= u
  BY <1>2, SMT
<1> QED
  BY <1>3

(* resolveNextOrphanSweepAt finds the least of the scheduled expiries.     *)
LEMMA EarliestExpiryIsLeast ==
    ASSUME NEW expires \in [Ids -> Time], Scheduled(expires) # {}
    PROVE  /\ EarliestExpiry(expires) \in Nat
           /\ \A i \in Scheduled(expires) : EarliestExpiry(expires) <= expires[i]
<1> DEFINE T == {expires[i] : i \in Scheduled(expires)}
<1>1. T \in SUBSET Nat /\ T # {}
  BY DEF Scheduled, Time, NoTime
<1>2. \E t \in T : \A i \in Scheduled(expires) : t <= expires[i]
  <2>1. PICK t \in T : \A u \in T : t <= u
    BY <1>1, LeastNatural, Zenon
  <2> QED
    BY <2>1
<1>3. /\ EarliestExpiry(expires) \in T
      /\ \A i \in Scheduled(expires) : EarliestExpiry(expires) <= expires[i]
  BY <1>2, Zenon DEF EarliestExpiry
<1> QED
  BY <1>1, <1>3

(* Every way of setting the sweep timer yields a time or none.             *)
LEMMA TimerType ==
    ASSUME NEW timer \in Time, NEW expires \in [Ids -> Time]
    PROVE  /\ \A at \in Nat : ArmedBy(timer, at) \in Time
           /\ SyncedByScan(timer, expires) \in Time
<1>1. \A at \in Nat : ArmedBy(timer, at) \in Time
  BY DEF ArmedBy, Time
<1>2. SyncedByScan(timer, expires) \in Time
  BY <1>1, EarliestExpiryIsLeast DEF SyncedByScan, Time
<1> QED
  BY <1>1, <1>2

-----------------------------------------------------------------------------
(* Types *)

LEMMA SweptType == TypeOK => SweptEntities \in [Ids -> Values \cup {NoEntity}]
                             /\ SweptExpiries \in [Ids -> Time]
  BY WithoutType DEF TypeOK, SweptEntities, SweptExpiries, Time

(* The steps of the store, whoever calls it: those of Next, but a list may be
   of any length and an orphan scheduled for any time.                     *)
StoreCall ==
    \/ \E k \in Keys : RegisterUnit(k) \/ UnregisterUnit(k) \/ ClearUnitMembership(k)
    \/ \E k \in Keys, ids \in SUBSET Ids, length \in Nat : SetUnitMembership(k, ids, length)
    \/ \E i \in Ids, value \in Values : UpsertOne(i, value)
    \/ \E ids \in SUBSET Ids : \E values \in [ids -> Values], touched \in SUBSET ids,
                                  duplicates \in BOOLEAN :
          UpsertMany(values, touched, duplicates)
    \/ \E i \in Ids : DeleteOne(i)
    \/ \E ids \in SUBSET Ids : DeleteMany(ids)
    \/ ReadSweeps

StoreStep == StoreCall \/ SweepTimerFires \/ FlushDirtyUnits \/ Tick

LEMMA NextIsAStep == [Next]_storeVars => [StoreStep]_storeVars
<1>1. \A n \in 0..(Cardinality(Ids) + 1) : n \in Nat
  OBVIOUS
<1>2. Call => StoreCall
  BY <1>1 DEF Call, StoreCall
<1> QED
  BY <1>2 DEF Next, StoreStep

LEMMA MoveUnitKeyType ==
    ASSUME TypeOK, NEW k \in Keys, NEW removed \in SUBSET Ids, NEW added \in SUBSET Ids,
           MoveUnitKey(k, removed, added)
    PROVE  /\ entitiesById' \in [Ids -> Values \cup {NoEntity}]
           /\ unitKeysById' \in [Ids -> SUBSET Keys]
           /\ orphanExpiresAtById' \in [Ids -> Time]
           /\ orphanNextSweepAt' \in Time
<1> DEFINE orphaned == {i \in removed : unitKeysById[i] = {k}}
           expires  == OrphansScheduled(SweptExpiries, orphaned)
           timer    == TimerForOrphans(orphanNextSweepAt, orphaned)
<1>1. entitiesById' \in [Ids -> Values \cup {NoEntity}]
  BY SweptType, WithoutType DEF MoveUnitKey, OrphansDropped
<1>2. unitKeysById' \in [Ids -> SUBSET Keys]
  BY DEF MoveUnitKey, TypeOK
<1>3. expires \in [Ids -> Time]
  <2>1. (IF OrphanRetentionTtl > 0 THEN now + OrphanRetentionTtl ELSE NoTime) \in Time
    BY StoreAssumption DEF TypeOK, Time, Infinity
  <2> QED
    BY <2>1, SweptType, WithoutType DEF OrphansScheduled
<1>4. orphanExpiresAtById' \in [Ids -> Time]
  BY <1>3, WithoutType DEF MoveUnitKey, Time
<1>5. timer \in Time
  <2>1. OrphanRetentionTtl > 0 => now + OrphanRetentionTtl \in Nat
    BY StoreAssumption DEF TypeOK, Infinity
  <2> QED
    BY <2>1, TimerType, <1>3 DEF TimerForOrphans, TypeOK
<1>6. TimersAfterAdopting(timer, expires, added) \subseteq Time
  <2>1. SyncedByScan(timer, Without(expires, added, NoTime)) \in Time
    BY <1>3, <1>5, WithoutType, TimerType DEF Time
  <2> QED
    BY <1>5, <2>1 DEF TimersAfterAdopting
<1>7. orphanNextSweepAt' \in Time
  BY <1>6 DEF MoveUnitKey
<1> QED
  BY <1>1, <1>2, <1>4, <1>7

LEMMA LetGoType ==
    ASSUME TypeOK, NEW k \in Keys, LetGo(k)
    PROVE  /\ entitiesById' \in [Ids -> Values \cup {NoEntity}]
           /\ unitKeysById' \in [Ids -> SUBSET Keys]
           /\ orphanExpiresAtById' \in [Ids -> Time]
           /\ orphanNextSweepAt' \in Time
<1>1. CASE membershipIds[k] = {}
  BY <1>1 DEF LetGo, TypeOK, orphanVars
<1>2. CASE membershipIds[k] # {}
  <2>1. membershipIds[k] \in SUBSET Ids
    BY DEF TypeOK
  <2> QED
    BY <1>2, <2>1, MoveUnitKeyType DEF LetGo
<1> QED
  BY <1>1, <1>2

LEMMA NotifyType ==
    ASSUME TypeOK, NEW keys \in SUBSET Keys, NEW changed, NEW batched \in BOOLEAN,
           Notify(keys, changed, batched)
    PROVE  /\ dirtyUnitKeys' \in SUBSET Keys
           /\ flushQueued' \in BOOLEAN
           /\ outdated' \in SUBSET Keys
  BY DEF Notify, TypeOK, MembersOf

LEMMA BatchTypes ==
    /\ \A touched, duplicates : BatchesUpsert(touched, duplicates) \in BOOLEAN
    /\ \A existed, batch : BatchesDelete(existed, batch) \in BOOLEAN
  BY DEF BatchesUpsert, BatchesDelete

LEMMA DeleteType ==
    ASSUME TypeOK, NEW ids \in SUBSET Ids, NEW batch \in BOOLEAN, Delete(ids, batch)
    PROVE  TypeOK'
<1> DEFINE existed  == Existing(ids)
           affected == UnitsOf(existed)
           expires  == Without(SweptExpiries, ids, NoTime)
           batched  == BatchesDelete(existed, batch)
<1>1. expires \in [Ids -> Time]
  BY SweptType, WithoutType DEF Time
<1>2. affected \in SUBSET Keys
  BY DEF UnitsOf, TypeOK, Existing
<1>3. entitiesById' \in [Ids -> Values \cup {NoEntity}] /\ orphanExpiresAtById' \in [Ids -> Time]
  BY <1>1, SweptType, WithoutType DEF Delete
<1>4. orphanNextSweepAt' \in Time
  <2>1. SyncedByScan(orphanNextSweepAt, expires) \in Time
    BY <1>1, TimerType DEF TypeOK
  <2> QED
    BY <2>1 DEF Delete, TypeOK
<1>5. membershipIds' \in [Keys -> SUBSET Ids] /\ unitKeysById' \in [Ids -> SUBSET Keys]
  BY WithoutType DEF Delete, TypeOK
<1>6. registered' \in SUBSET Keys /\ now' \in Nat
  BY DEF Delete, TypeOK
<1>7. /\ dirtyUnitKeys' \in SUBSET Keys
      /\ flushQueued' \in BOOLEAN
      /\ outdated' \in SUBSET Keys
  <2>1. batched \in BOOLEAN
    BY BatchTypes
  <2>2. Notify(affected, existed, batched)
    BY DEF Delete
  <2> QED
    BY <1>2, <2>1, <2>2, NotifyType
<1> QED
  BY <1>3, <1>4, <1>5, <1>6, <1>7 DEF TypeOK

LEMMA UpsertManyType ==
    ASSUME TypeOK, NEW ids \in SUBSET Ids, NEW values \in [ids -> Values],
           NEW touched \in SUBSET ids, NEW duplicates \in BOOLEAN,
           UpsertMany(values, touched, duplicates)
    PROVE  TypeOK'
<1> DEFINE changed == {i \in ids : values[i] # SweptEntities[i]}
           batched == BatchesUpsert(touched, duplicates)
<1>1. DOMAIN values = ids
  OBVIOUS
<1>2. Notify(UnitsOf(touched), changed, batched)
  BY <1>1 DEF UpsertMany
<1>3. UnitsOf(touched) \in SUBSET Keys /\ batched \in BOOLEAN
  BY BatchTypes DEF UnitsOf, TypeOK
<1>4. /\ dirtyUnitKeys' \in SUBSET Keys
      /\ flushQueued' \in BOOLEAN
      /\ outdated' \in SUBSET Keys
  BY <1>2, <1>3, NotifyType
<1>5. /\ entitiesById' = [i \in Ids |-> IF i \in ids THEN values[i] ELSE SweptEntities[i]]
      /\ orphanExpiresAtById' = SweptExpiries
      /\ UNCHANGED <<indexVars, orphanNextSweepAt, now>>
  BY <1>1 DEF UpsertMany
<1>6. entitiesById' \in [Ids -> Values \cup {NoEntity}]
  BY <1>5, SweptType
<1> QED
  BY <1>4, <1>5, <1>6, SweptType DEF TypeOK, indexVars

LEMMA UpsertOneType ==
    ASSUME TypeOK, NEW i \in Ids, NEW value \in Values, UpsertOne(i, value)
    PROVE  TypeOK'
<1> DEFINE changed == IF value = SweptEntities[i] THEN {} ELSE {i}
<1>1. Notify(UnitsOf(changed), changed, FALSE)
  BY DEF UpsertOne
<1>2. UnitsOf(changed) \in SUBSET Keys
  BY DEF UnitsOf, TypeOK
<1>3. /\ dirtyUnitKeys' \in SUBSET Keys
      /\ flushQueued' \in BOOLEAN
      /\ outdated' \in SUBSET Keys
  BY <1>1, <1>2, NotifyType
<1>4. entitiesById' \in [Ids -> Values \cup {NoEntity}]
  BY SweptType DEF UpsertOne
<1> QED
  BY <1>3, <1>4, SweptType DEF UpsertOne, TypeOK, indexVars

LEMMA TypeStep == TypeOK /\ [StoreStep]_storeVars => TypeOK'
<1> SUFFICES ASSUME TypeOK, [StoreStep]_storeVars PROVE TypeOK'
  OBVIOUS
<1> USE DEF notifyVars, indexVars, orphanVars
<1>1. ASSUME NEW k \in Keys, RegisterUnit(k) PROVE TypeOK'
  <2>1. membershipIds[k] \in SUBSET Ids /\ {} \in SUBSET Ids
    BY DEF TypeOK
  <2>2. MoveUnitKey(k, membershipIds[k], {})
    BY <1>1 DEF RegisterUnit
  <2> QED
    BY <1>1, <2>1, <2>2, MoveUnitKeyType DEF RegisterUnit, TypeOK
<1>2. ASSUME NEW k \in Keys, UnregisterUnit(k) PROVE TypeOK'
  BY <1>2, LetGoType DEF UnregisterUnit, TypeOK
<1>3. ASSUME NEW k \in Keys, ClearUnitMembership(k) PROVE TypeOK'
  BY <1>3, LetGoType DEF ClearUnitMembership, TypeOK
<1>4. ASSUME NEW k \in Keys, NEW ids \in SUBSET Ids, NEW length \in Int,
             SetUnitMembership(k, ids, length)
      PROVE  TypeOK'
  <2> DEFINE next == IF LooksUnchanged(k, ids, length) THEN membershipIds[k] ELSE ids
  <2>1. next \in SUBSET Ids /\ membershipIds[k] \in SUBSET Ids
    BY DEF TypeOK
  <2>2. MoveUnitKey(k, membershipIds[k] \ next, next \ membershipIds[k])
    BY <1>4 DEF SetUnitMembership
  <2>3. /\ entitiesById' \in [Ids -> Values \cup {NoEntity}]
        /\ unitKeysById' \in [Ids -> SUBSET Keys]
        /\ orphanExpiresAtById' \in [Ids -> Time]
        /\ orphanNextSweepAt' \in Time
    BY <2>1, <2>2, MoveUnitKeyType
  <2>4. membershipIds' \in [Keys -> SUBSET Ids]
    BY <1>4, <2>1 DEF SetUnitMembership, TypeOK
  <2> QED
    BY <1>4, <2>3, <2>4 DEF SetUnitMembership, TypeOK
<1>5. ASSUME NEW i \in Ids, NEW value \in Values, UpsertOne(i, value) PROVE TypeOK'
  BY <1>5, UpsertOneType
<1>6. ASSUME NEW ids \in SUBSET Ids, NEW values \in [ids -> Values],
             NEW touched \in SUBSET ids, NEW duplicates \in BOOLEAN,
             UpsertMany(values, touched, duplicates)
      PROVE  TypeOK'
  BY <1>6, UpsertManyType
<1>7. ASSUME NEW i \in Ids, DeleteOne(i) PROVE TypeOK'
  <2>1. {i} \in SUBSET Ids
    OBVIOUS
  <2> QED
    BY <1>7, <2>1, DeleteType, StoreAssumption DEF DeleteOne
<1>8. ASSUME NEW ids \in SUBSET Ids, DeleteMany(ids) PROVE TypeOK'
  BY <1>8, DeleteType, StoreAssumption DEF DeleteMany
<1>9. CASE ReadSweeps
  BY <1>9, SweptType DEF ReadSweeps, TypeOK
<1>10. CASE SweepTimerFires
  <2>1. orphanExpiresAtById' \in [Ids -> Time]
    BY <1>10, WithoutType DEF SweepTimerFires, TypeOK, Time
  <2>2. SyncedByScan(NoTime, orphanExpiresAtById') \in Time
    BY <2>1, TimerType DEF Time
  <2>3. entitiesById' \in [Ids -> Values \cup {NoEntity}]
    BY <1>10, WithoutType DEF SweepTimerFires, TypeOK
  <2> QED
    BY <1>10, <2>1, <2>2, <2>3 DEF SweepTimerFires, TypeOK
<1>11. CASE FlushDirtyUnits
  BY <1>11 DEF FlushDirtyUnits, TypeOK
<1>12. CASE Tick
  BY <1>12 DEF Tick, TypeOK
<1>13. CASE UNCHANGED storeVars
  BY <1>13 DEF storeVars, TypeOK
<1>14. CASE StoreCall
  <2>1. \A n \in Nat : n \in Int
    OBVIOUS
  <2> QED
    BY <1>14, <2>1, <1>1, <1>2, <1>3, <1>4, <1>5, <1>6, <1>7, <1>8, <1>9 DEF StoreCall
<1> QED
  BY <1>10, <1>11, <1>12, <1>13, <1>14 DEF StoreStep

LEMMA InitType == StoreInit => TypeOK
<1>1. NoTime \in Time
  BY DEF Time
<1>2. StoreInit => /\ entitiesById \in [Ids -> Values \cup {NoEntity}]
                   /\ unitKeysById \in [Ids -> SUBSET Keys]
                   /\ membershipIds \in [Keys -> SUBSET Ids]
  BY Zenon DEF StoreInit
<1>3. StoreInit => /\ orphanExpiresAtById \in [Ids -> Time]
                   /\ orphanNextSweepAt \in Time
  BY <1>1, Zenon DEF StoreInit
<1>4. StoreInit => /\ registered \in SUBSET Keys
                   /\ dirtyUnitKeys \in SUBSET Keys
                   /\ outdated \in SUBSET Keys
  BY DEF StoreInit
<1>5. StoreInit => flushQueued \in BOOLEAN
  BY Zenon DEF StoreInit
<1>6. StoreInit => now \in Nat
  BY SMT DEF StoreInit
<1> QED
  BY <1>2, <1>3, <1>4, <1>5, <1>6 DEF TypeOK

(* The store's tables keep their types: in particular the timer is never set
   to a time computed from an empty schedule.                              *)
THEOREM TypeCorrect == Spec => []TypeOK
  BY InitType, TypeStep, NextIsAStep, PTL DEF Spec, Init

-----------------------------------------------------------------------------
(* The steps that change the store, sorted by what they do to the indexes:
   a unit moves between ids, a delete empties records, the rest leave the
   indexes alone.                                                          *)

Moves(k, next) ==
    /\ MoveUnitKey(k, membershipIds[k] \ next, next \ membershipIds[k])
    /\ membershipIds' = [membershipIds EXCEPT ![k] = next]
    /\ registered' \in {registered, registered \cup {k}, registered \ {k}}
    /\ next # {} => k \in registered'
    /\ dirtyUnitKeys' = dirtyUnitKeys /\ flushQueued' = flushQueued
    /\ \/ outdated' = outdated \ {k}
       \/ outdated' = outdated /\ registered' = registered
    /\ now' = now

Rests == UNCHANGED <<registered, membershipIds, unitKeysById>>

(* A unit that has no membership lets go of nothing. *)
LetsGoOfNothing ==
    /\ UNCHANGED <<entitiesById, unitKeysById, orphanExpiresAtById, orphanNextSweepAt,
                   membershipIds, dirtyUnitKeys, flushQueued, now>>
    /\ \E k \in Keys : /\ membershipIds[k] = {}
                       /\ registered' \in {registered, registered \ {k}}
                       /\ \/ outdated' = outdated \ {k}
                          \/ outdated' = outdated /\ registered' = registered

Writes ==
    \/ \E i \in Ids, value \in Values : UpsertOne(i, value)
    \/ \E ids \in SUBSET Ids : \E values \in [ids -> Values], touched \in SUBSET ids,
                                  duplicates \in BOOLEAN :
          UpsertMany(values, touched, duplicates)

Deletes == (\E i \in Ids : DeleteOne(i)) \/ \E ids \in SUBSET Ids : DeleteMany(ids)

(* Every step is of one of these kinds. *)
LEMMA StepKinds ==
    ASSUME TypeOK, [StoreStep]_storeVars
    PROVE  \/ \E k \in Keys, next \in SUBSET Ids : Moves(k, next)
           \/ LetsGoOfNothing
           \/ Deletes
           \/ Writes
           \/ ReadSweeps
           \/ SweepTimerFires
           \/ FlushDirtyUnits
           \/ Tick
           \/ UNCHANGED storeVars
<1> USE DEF notifyVars, indexVars, orphanVars
<1>1. ASSUME NEW k \in Keys, RegisterUnit(k) PROVE Moves(k, {})
  <2>1. membershipIds[k] \ {} = membershipIds[k] /\ {} \ membershipIds[k] = {}
    OBVIOUS
  <2> QED
    BY <1>1, <2>1 DEF RegisterUnit, Moves
<1>2. ASSUME NEW k \in Keys, LetGo(k), membershipIds' = [membershipIds EXCEPT ![k] = {}],
             registered' \in {registered, registered \ {k}},
             dirtyUnitKeys' = dirtyUnitKeys, flushQueued' = flushQueued,
             outdated' = outdated \ {k} \/ (outdated' = outdated /\ registered' = registered),
             now' = now
      PROVE  Moves(k, {}) \/ LetsGoOfNothing
  <2>1. CASE membershipIds[k] = {}
    <3>1. membershipIds' = membershipIds
      BY <1>2, <2>1 DEF TypeOK
    <3> QED
      BY <1>2, <2>1, <3>1 DEF LetGo, LetsGoOfNothing
  <2>2. CASE membershipIds[k] # {}
    <3>1. membershipIds[k] \ {} = membershipIds[k] /\ {} \ membershipIds[k] = {}
      OBVIOUS
    <3> QED
      BY <1>2, <2>2, <3>1 DEF LetGo, Moves
  <2> QED
    BY <2>1, <2>2
<1>3. ASSUME NEW k \in Keys, UnregisterUnit(k) PROVE Moves(k, {}) \/ LetsGoOfNothing
  BY <1>2, <1>3 DEF UnregisterUnit
<1>4. ASSUME NEW k \in Keys, ClearUnitMembership(k) PROVE Moves(k, {}) \/ LetsGoOfNothing
  BY <1>2, <1>4 DEF ClearUnitMembership
<1>5. ASSUME NEW k \in Keys, NEW ids \in SUBSET Ids, NEW length, SetUnitMembership(k, ids, length)
      PROVE  \E next \in SUBSET Ids : Moves(k, next)
  <2> DEFINE next == IF LooksUnchanged(k, ids, length) THEN membershipIds[k] ELSE ids
  <2>1. next \in SUBSET Ids
    BY DEF TypeOK
  <2>2. Moves(k, next)
    BY <1>5 DEF SetUnitMembership, Moves
  <2> QED
    BY <2>1, <2>2
<1>6. {} \in SUBSET Ids
  OBVIOUS
<1> QED
  BY <1>1, <1>3, <1>4, <1>5, <1>6 DEF StoreStep, StoreCall, Writes, Deletes

LEMMA DeletesAreOne == Deletes => \E ids \in SUBSET Ids, batch \in BOOLEAN : Delete(ids, batch)
  BY StoreAssumption DEF Deletes, DeleteOne, DeleteMany

(* A write changes no index and only takes schedules away. *)
LEMMA WritesRest ==
    ASSUME Writes
    PROVE  Rests /\ orphanExpiresAtById' = SweptExpiries
                 /\ orphanNextSweepAt' = orphanNextSweepAt /\ now' = now
  BY DEF Writes, UpsertOne, UpsertMany, Rests, indexVars

-----------------------------------------------------------------------------
(* The indexes agree *)

LEMMA IndexesStep == TypeOK /\ IndexesAgree /\ [StoreStep]_storeVars => IndexesAgree'
<1> SUFFICES ASSUME TypeOK, IndexesAgree, [StoreStep]_storeVars PROVE IndexesAgree'
  OBVIOUS
<1>1. ASSUME NEW k \in Keys, NEW next \in SUBSET Ids, Moves(k, next) PROVE IndexesAgree'
  <2>1. \A j \in Keys, i \in Ids : i \in membershipIds'[j] <=> j \in unitKeysById'[i]
    <3> SUFFICES ASSUME NEW j \in Keys, NEW i \in Ids
                 PROVE  i \in membershipIds'[j] <=> j \in unitKeysById'[i]
      OBVIOUS
    <3>1. CASE j = k
      BY <1>1, <3>1 DEF Moves, MoveUnitKey, IndexesAgree, TypeOK
    <3>2. CASE j # k
      BY <1>1, <3>2 DEF Moves, MoveUnitKey, IndexesAgree, TypeOK
    <3> QED
      BY <3>1, <3>2
  <2>2. \A j \in Keys \ registered' : membershipIds'[j] = {}
    BY <1>1 DEF Moves, IndexesAgree, TypeOK
  <2> QED
    BY <2>1, <2>2 DEF IndexesAgree
<1>2. CASE LetsGoOfNothing
  BY <1>2 DEF LetsGoOfNothing, IndexesAgree
<1>3. ASSUME NEW ids \in SUBSET Ids, NEW batch \in BOOLEAN, Delete(ids, batch)
      PROVE  IndexesAgree'
  <2> DEFINE existed == Existing(ids)
  <2>1. /\ membershipIds' = [k \in Keys |->
              membershipIds[k] \ {i \in existed : k \in unitKeysById[i] \cap registered}]
        /\ unitKeysById' = [i \in Ids |-> IF i \in existed THEN {} ELSE unitKeysById[i]]
        /\ registered' = registered
    BY <1>3 DEF Delete, Without
  <2>2. \A k \in Keys, i \in Ids : i \in membershipIds[k] => k \in registered
    BY DEF IndexesAgree
  <2>3. \A k \in Keys, i \in Ids : i \in membershipIds'[k] <=> k \in unitKeysById'[i]
    BY <2>1, <2>2 DEF IndexesAgree
  <2>4. \A k \in Keys \ registered' : membershipIds'[k] = {}
    BY <2>1 DEF IndexesAgree
  <2> QED
    BY <2>3, <2>4 DEF IndexesAgree
<1>4. CASE Rests
  BY <1>4 DEF Rests, IndexesAgree
<1>5. ReadSweeps \/ SweepTimerFires \/ FlushDirtyUnits \/ Tick \/ UNCHANGED storeVars => Rests
  BY DEF ReadSweeps, SweepTimerFires, FlushDirtyUnits, Tick, storeVars, Rests, indexVars
<1> QED
  BY <1>1, <1>2, <1>3, <1>4, <1>5, StepKinds, DeletesAreOne, WritesRest

(* The membership a unit's record holds and the units an id's record holds
   are the same relation in every reachable state: no change of an entity
   misses a member and no release is lost.                                 *)
THEOREM IndexesAlwaysAgree == Spec => []IndexesAgree
<1>1. Init => IndexesAgree
  BY DEF Init, StoreInit, IndexesAgree
<1> QED
  BY <1>1, IndexesStep, NextIsAStep, TypeCorrect, PTL DEF Spec

-----------------------------------------------------------------------------
(* Only orphans expire *)

LEMMA OrphansStep ==
    TypeOK /\ OnlyOrphansExpire /\ [StoreStep]_storeVars => OnlyOrphansExpire'
<1> SUFFICES ASSUME TypeOK, OnlyOrphansExpire, [StoreStep]_storeVars,
                    NEW i \in Ids, orphanExpiresAtById'[i] # NoTime
             PROVE  unitKeysById'[i] = {}
  BY DEF OnlyOrphansExpire, Scheduled
<1>1. orphanExpiresAtById[i] # NoTime => unitKeysById[i] = {}
  BY DEF OnlyOrphansExpire, Scheduled
<1>2. SweptExpiries[i] # NoTime => orphanExpiresAtById[i] # NoTime
  BY DEF SweptExpiries, Without
<1>3. ASSUME NEW k \in Keys, NEW next \in SUBSET Ids, Moves(k, next)
      PROVE  unitKeysById'[i] = {}
  <2> DEFINE removed  == membershipIds[k] \ next
             added    == next \ membershipIds[k]
             orphaned == {j \in removed : unitKeysById[j] = {k}}
  <2>1. MoveUnitKey(k, removed, added)
    BY <1>3 DEF Moves
  <2>2. i \notin added /\ (i \in orphaned \/ SweptExpiries[i] # NoTime)
    BY <2>1 DEF MoveUnitKey, OrphansScheduled, Without
  <2>3. unitKeysById'[i] = IF i \in removed THEN unitKeysById[i] \ {k} ELSE unitKeysById[i]
    BY <2>1, <2>2 DEF MoveUnitKey
  <2> QED
    BY <1>1, <1>2, <2>2, <2>3
<1>4. CASE LetsGoOfNothing
  BY <1>1, <1>4 DEF LetsGoOfNothing
<1>5. ASSUME NEW ids \in SUBSET Ids, NEW batch \in BOOLEAN, Delete(ids, batch)
      PROVE  unitKeysById'[i] = {}
  BY <1>1, <1>2, <1>5 DEF Delete, Without
<1>6. CASE Writes
  BY <1>1, <1>2, <1>6, WritesRest DEF Rests
<1>7. CASE ReadSweeps
  BY <1>1, <1>2, <1>7 DEF ReadSweeps, indexVars
<1>8. CASE SweepTimerFires
  BY <1>1, <1>8 DEF SweepTimerFires, Without, indexVars
<1>9. CASE FlushDirtyUnits \/ Tick \/ UNCHANGED storeVars
  BY <1>1, <1>9 DEF FlushDirtyUnits, Tick, storeVars, indexVars, orphanVars
<1> QED
  BY <1>3, <1>4, <1>5, <1>6, <1>7, <1>8, <1>9, StepKinds, DeletesAreOne

(* An id with a scheduled cleanup has no unit: the guard against units in
   removeOrphanEntityById is never what saves an entity.                   *)
THEOREM OnlyOrphansEverExpire == Spec => []OnlyOrphansExpire
<1>1. Init => OnlyOrphansExpire
  BY DEF Init, StoreInit, OnlyOrphansExpire, Scheduled
<1> QED
  BY <1>1, OrphansStep, NextIsAStep, TypeCorrect, PTL DEF Spec

-----------------------------------------------------------------------------
(* Members keep their entities *)

LEMMA MembersStep ==
    ASSUME HasTimeoutRuntime, TypeOK, IndexesAgree, OnlyOrphansExpire, [StoreStep]_storeVars,
           NEW i \in Ids, Vanishes(i), NEW j \in Keys
    PROVE  i \notin membershipIds'[j]
<1>1. SweptEntities = entitiesById
  <2>1. Swept = {}
    BY DEF Swept, ShouldInlineOrphanSweep
  <2> QED
    BY <2>1 DEF SweptEntities, Without, Unreferenced, TypeOK
<1>2. i \in membershipIds'[j] <=> j \in unitKeysById'[i]
  BY IndexesStep DEF IndexesAgree
<1>3. ASSUME NEW k \in Keys, NEW next \in SUBSET Ids, Moves(k, next)
      PROVE  unitKeysById'[i] = {}
  <2> DEFINE removed  == membershipIds[k] \ next
             added    == next \ membershipIds[k]
             orphaned == {m \in removed : unitKeysById[m] = {k}}
  <2>1. MoveUnitKey(k, removed, added)
    BY <1>3 DEF Moves
  <2>2. i \in orphaned
    BY <1>1, <2>1 DEF MoveUnitKey, OrphansDropped, Without, Vanishes
  <2> QED
    BY <2>1, <2>2 DEF MoveUnitKey
<1>4. ASSUME NEW ids \in SUBSET Ids, NEW batch \in BOOLEAN, Delete(ids, batch)
      PROVE  unitKeysById'[i] = {}
  BY <1>1, <1>4 DEF Delete, Without, Vanishes
<1>5. ~Writes
  <2>1. ASSUME NEW m \in Ids, NEW value \in Values, UpsertOne(m, value) PROVE FALSE
    BY <1>1, <2>1, StoreAssumption DEF UpsertOne, Vanishes, TypeOK
  <2>2. ASSUME NEW ids \in SUBSET Ids, NEW values \in [ids -> Values], NEW touched \in SUBSET ids,
               NEW duplicates \in BOOLEAN, UpsertMany(values, touched, duplicates)
        PROVE  FALSE
    BY <1>1, <2>2, StoreAssumption DEF UpsertMany, Vanishes
  <2> QED
    BY <2>1, <2>2 DEF Writes
<1>6. CASE SweepTimerFires
  <2>1. i \in Unreferenced(Expired)
    BY <1>6 DEF SweepTimerFires, Without, Vanishes
  <2> QED
    BY <1>2, <1>6, <2>1 DEF Unreferenced, SweepTimerFires, indexVars
<1>7. ~ReadSweeps /\ ~LetsGoOfNothing /\ ~FlushDirtyUnits /\ ~Tick /\ ~UNCHANGED storeVars
  BY <1>1 DEF ReadSweeps, LetsGoOfNothing, FlushDirtyUnits, Tick, storeVars, Vanishes
<1> QED
  BY <1>2, <1>3, <1>4, <1>5, <1>6, <1>7, StepKinds, DeletesAreOne

(* Where there are timers, whatever drops an entity, no unit is a member of
   it afterwards.                                                          *)
THEOREM MembersKeepTheirEntities ==
    ASSUME HasTimeoutRuntime PROVE Spec => NoMemberLosesItsEntity
<1>1. TypeOK /\ IndexesAgree /\ OnlyOrphansExpire /\ [StoreStep]_storeVars
         => [\A i \in Ids : Vanishes(i) => \A k \in Keys : i \notin membershipIds'[k]]_storeVars
  BY MembersStep
<1> QED
  BY <1>1, NextIsAStep, TypeCorrect, IndexesAlwaysAgree, OnlyOrphansEverExpire, PTL
     DEF Spec, NoMemberLosesItsEntity

-----------------------------------------------------------------------------
(* The sweep is armed *)

(* The timer is set, to a time no scheduled expiry comes before. *)
Covers(timer, expires) ==
    \A i \in Scheduled(expires) : timer # NoTime /\ timer <= expires[i]

(* An armed timer that covers a schedule covers a smaller one. *)
LEMMA CoversLess ==
    ASSUME NEW timer \in Time, NEW expires \in [Ids -> Time], NEW ids, Covers(timer, expires)
    PROVE  Covers(timer, Without(expires, ids, NoTime))
  BY DEF Covers, Scheduled, Without

(* A rescan covers the schedule it read, whatever the timer was. *)
LEMMA RescanCovers ==
    ASSUME HasTimeoutRuntime, NEW timer \in Time, NEW expires \in [Ids -> Time]
    PROVE  Covers(SyncedByScan(timer, expires), expires)
<1>1. CASE Scheduled(expires) = {}
  BY <1>1 DEF Covers
<1>2. CASE Scheduled(expires) # {}
  <2> DEFINE at == EarliestExpiry(expires)
  <2>1. at \in Nat /\ \A i \in Scheduled(expires) : at <= expires[i]
    BY <1>2, EarliestExpiryIsLeast
  <2>2. SyncedByScan(timer, expires) = IF timer # NoTime /\ timer <= at THEN timer ELSE at
    BY <1>2 DEF SyncedByScan, ArmedBy
  <2>3. \A i \in Scheduled(expires) : expires[i] \in Nat
    BY DEF Scheduled, Time, NoTime
  <2> HIDE DEF at
  <2> QED
    BY <2>1, <2>2, <2>3 DEF Covers, Time, NoTime
<1> QED
  BY <1>1, <1>2

LEMMA ArmedStep ==
    ASSUME HasTimeoutRuntime, TypeOK, Covers(orphanNextSweepAt, orphanExpiresAtById),
           [StoreStep]_storeVars
    PROVE  Covers(orphanNextSweepAt', orphanExpiresAtById')
<1> USE DEF indexVars, orphanVars
<1>1. SweptExpiries = orphanExpiresAtById
  <2>1. Swept = {}
    BY DEF Swept, ShouldInlineOrphanSweep
  <2> QED
    BY <2>1 DEF SweptExpiries, Without, TypeOK
<1>2. ASSUME NEW k \in Keys, NEW next \in SUBSET Ids, Moves(k, next)
      PROVE  Covers(orphanNextSweepAt', orphanExpiresAtById')
  <2> DEFINE removed  == membershipIds[k] \ next
             added    == next \ membershipIds[k]
             orphaned == {i \in removed : unitKeysById[i] = {k}}
             expires  == OrphansScheduled(SweptExpiries, orphaned)
             timer    == TimerForOrphans(orphanNextSweepAt, orphaned)
             rest     == Without(expires, added, NoTime)
  <2>1. MoveUnitKey(k, removed, added)
    BY <1>2 DEF Moves
  <2>2. expires \in [Ids -> Time] /\ timer \in Time
    <3>1. (IF OrphanRetentionTtl > 0 THEN now + OrphanRetentionTtl ELSE NoTime) \in Time
      BY StoreAssumption DEF TypeOK, Time, Infinity
    <3>2. OrphanRetentionTtl > 0 => now + OrphanRetentionTtl \in Nat
      BY StoreAssumption DEF TypeOK, Infinity
    <3>3. expires \in [Ids -> Time]
      BY <3>1, SweptType, WithoutType DEF OrphansScheduled
    <3>4. timer \in Time
      BY <3>2, <3>3, TimerType DEF TimerForOrphans, TypeOK
    <3> QED
      BY <3>3, <3>4
  <2>3. Covers(timer, expires)
    <3>1. CASE OrphanRetentionTtl > 0 /\ orphaned # {}
      <4> DEFINE at == now + OrphanRetentionTtl
      <4>1. at \in Nat
        BY <3>1, StoreAssumption DEF TypeOK, Infinity
      <4>2. \A i \in Ids : expires[i] = IF i \in orphaned THEN at ELSE orphanExpiresAtById[i]
        BY <1>1, <3>1 DEF OrphansScheduled, Without
      <4>3. timer = IF orphanNextSweepAt # NoTime /\ orphanNextSweepAt <= at
                    THEN orphanNextSweepAt ELSE at
        BY <3>1 DEF TimerForOrphans, ArmedBy
      <4>4. \A i \in Ids : orphanExpiresAtById[i] # NoTime =>
                /\ orphanNextSweepAt # NoTime
                /\ orphanNextSweepAt <= orphanExpiresAtById[i]
        BY DEF Covers, Scheduled
      <4>5. orphanExpiresAtById \in [Ids -> Nat \cup {-1}] /\ orphanNextSweepAt \in Nat \cup {-1}
        BY DEF TypeOK, Time, NoTime
      <4> HIDE DEF at, orphaned, expires, timer
      <4>6. \A i \in Ids : expires[i] # NoTime => timer # NoTime /\ timer <= expires[i]
        BY <4>1, <4>2, <4>3, <4>4, <4>5 DEF NoTime
      <4> QED
        BY <4>6 DEF Covers, Scheduled
    <3>2. CASE ~(OrphanRetentionTtl > 0) \/ orphaned = {}
      <4>1. timer = orphanNextSweepAt
        BY <3>2 DEF TimerForOrphans
      <4>2. expires = Without(orphanExpiresAtById, orphaned, NoTime)
        BY <1>1, <3>2 DEF OrphansScheduled, Without
      <4> QED
        BY <4>1, <4>2, CoversLess DEF TypeOK
    <3> QED
      BY <3>1, <3>2
  <2>4. rest \in [Ids -> Time]
    BY <2>2, WithoutType DEF Time
  <2>5. Covers(timer, rest)
    BY <2>2, <2>3, CoversLess
  <2>6. Covers(SyncedByScan(timer, rest), rest)
    BY <2>2, <2>4, RescanCovers
  <2>7. \A t \in TimersAfterAdopting(timer, expires, added) : Covers(t, rest)
    BY <2>5, <2>6 DEF TimersAfterAdopting
  <2> QED
    BY <2>1, <2>7 DEF MoveUnitKey
<1>3. CASE LetsGoOfNothing
  BY <1>3 DEF LetsGoOfNothing
<1>4. ASSUME NEW ids \in SUBSET Ids, NEW batch \in BOOLEAN, Delete(ids, batch)
      PROVE  Covers(orphanNextSweepAt', orphanExpiresAtById')
  <2> DEFINE expires == Without(orphanExpiresAtById, ids, NoTime)
  <2>1. expires \in [Ids -> Time]
    BY WithoutType DEF TypeOK, Time
  <2>2. Covers(orphanNextSweepAt, expires) /\ Covers(SyncedByScan(orphanNextSweepAt, expires), expires)
    BY <2>1, CoversLess, RescanCovers DEF TypeOK
  <2> QED
    BY <1>1, <1>4, <2>2 DEF Delete
<1>5. CASE Writes
  BY <1>1, <1>5, WritesRest
<1>6. CASE ReadSweeps
  BY <1>1, <1>6 DEF ReadSweeps
<1>7. CASE SweepTimerFires
  <2>1. orphanExpiresAtById' \in [Ids -> Time]
    BY TypeStep DEF TypeOK
  <2>2. Covers(SyncedByScan(NoTime, orphanExpiresAtById'), orphanExpiresAtById')
    BY <2>1, RescanCovers DEF Time
  <2> QED
    BY <1>7, <2>2 DEF SweepTimerFires
<1>8. CASE FlushDirtyUnits \/ Tick \/ UNCHANGED storeVars
  BY <1>8 DEF FlushDirtyUnits, Tick, storeVars
<1> QED
  BY <1>2, <1>3, <1>4, <1>5, <1>6, <1>7, <1>8, StepKinds, DeletesAreOne

(* Where there are timers, no sequence of releases, adoptions, deletes and
   sweeps leaves a scheduled orphan without a timer that fires in time.    *)
THEOREM SweepIsAlwaysArmed == Spec => []SweepIsArmed
<1>1. SweepIsArmed <=> (HasTimeoutRuntime => Covers(orphanNextSweepAt, orphanExpiresAtById))
  BY DEF SweepIsArmed, Covers
<1>2. Init => SweepIsArmed
  BY DEF Init, StoreInit, SweepIsArmed, Scheduled
<1>3. TypeOK /\ SweepIsArmed /\ [StoreStep]_storeVars => SweepIsArmed'
  BY ArmedStep DEF SweepIsArmed, Covers
<1> QED
  BY <1>2, <1>3, NextIsAStep, TypeCorrect, PTL DEF Spec

-----------------------------------------------------------------------------
(* No change is silent *)

(* The flush only reaches registered units, so the invariant must say that
   nobody else waits for it.                                               *)
SilenceInv == NoSilentChange /\ outdated \subseteq registered

LEMMA NotifiedAll ==
    ASSUME TypeOK, IndexesAgree, SilenceInv, registered' = registered,
           NEW ids \in SUBSET Ids, NEW changed \in SUBSET ids, NEW batched \in BOOLEAN,
           Notify(UnitsOf(ids), changed, batched)
    PROVE  SilenceInv'
<1>1. MembersOf(changed) \subseteq UnitsOf(ids) \cap registered
  BY DEF MembersOf, UnitsOf, IndexesAgree, TypeOK
<1>2. CASE batched
  BY <1>1, <1>2 DEF Notify, NoSilentChange, SilenceInv
<1>3. CASE ~batched
  BY <1>1, <1>3 DEF Notify, Told, NoSilentChange, SilenceInv
<1> QED
  BY <1>2, <1>3

LEMMA NotifyStep ==
    TypeOK /\ IndexesAgree /\ SilenceInv /\ [StoreStep]_storeVars => SilenceInv'
<1> SUFFICES ASSUME TypeOK, IndexesAgree, SilenceInv, [StoreStep]_storeVars
             PROVE  SilenceInv'
  OBVIOUS
<1>1. ASSUME NEW k \in Keys, NEW next \in SUBSET Ids, Moves(k, next) PROVE SilenceInv'
  BY <1>1 DEF Moves, NoSilentChange, SilenceInv
<1>2. CASE LetsGoOfNothing
  BY <1>2 DEF LetsGoOfNothing, NoSilentChange, SilenceInv
<1>3. ASSUME NEW ids \in SUBSET Ids, NEW batch \in BOOLEAN, Delete(ids, batch)
      PROVE  SilenceInv'
  <2> DEFINE existed == Existing(ids)
             batched == BatchesDelete(existed, batch)
  <2>1. Notify(UnitsOf(existed), existed, batched)
    BY <1>3 DEF Delete
  <2>2. existed \in SUBSET Ids /\ batched \in BOOLEAN
    BY BatchTypes DEF Existing
  <2>3. registered' = registered
    BY <1>3 DEF Delete
  <2> QED
    BY <2>1, <2>2, <2>3, NotifiedAll
<1>4. ASSUME NEW i \in Ids, NEW value \in Values, UpsertOne(i, value) PROVE SilenceInv'
  <2> DEFINE changed == IF value = SweptEntities[i] THEN {} ELSE {i}
  <2>1. Notify(UnitsOf(changed), changed, FALSE)
    BY <1>4 DEF UpsertOne
  <2>2. changed \in SUBSET Ids
    OBVIOUS
  <2>3. registered' = registered
    BY <1>4 DEF UpsertOne, indexVars
  <2> QED
    BY <2>1, <2>2, <2>3, NotifiedAll
<1>5. ASSUME NEW ids \in SUBSET Ids, NEW values \in [ids -> Values], NEW touched \in SUBSET ids,
             NEW duplicates \in BOOLEAN, UpsertMany(values, touched, duplicates)
      PROVE  SilenceInv'
  <2> DEFINE changed == {i \in ids : values[i] # SweptEntities[i]}
             batched == BatchesUpsert(touched, duplicates)
  <2>1. changed \subseteq touched /\ Notify(UnitsOf(touched), changed, batched)
    <3>1. DOMAIN values = ids
      OBVIOUS
    <3> QED
      BY <1>5, <3>1 DEF UpsertMany
  <2>2. touched \in SUBSET Ids /\ changed \in SUBSET touched /\ batched \in BOOLEAN
    BY <2>1, BatchTypes
  <2>3. registered' = registered
    BY <1>5 DEF UpsertMany, indexVars
  <2> QED
    BY <2>1, <2>2, <2>3, NotifiedAll
<1>6. CASE FlushDirtyUnits
  <2>1. dirtyUnitKeys' = {} /\ outdated' = {}
    BY <1>6 DEF FlushDirtyUnits, NoSilentChange, SilenceInv
  <2> QED
    BY <2>1 DEF NoSilentChange, SilenceInv
<1>7. CASE ReadSweeps \/ SweepTimerFires \/ Tick \/ UNCHANGED storeVars
  BY <1>7 DEF ReadSweeps, SweepTimerFires, Tick, storeVars, notifyVars, indexVars, NoSilentChange, SilenceInv
<1> QED
  BY <1>1, <1>2, <1>3, <1>4, <1>5, <1>6, <1>7, StepKinds, DeletesAreOne DEF Writes

(* A unit that was not told at once of a change of one of its entities is
   in the dirty set and the flush that tells it is queued.                 *)
THEOREM NoChangeStaysSilent == Spec => []NoSilentChange
<1>1. Init => SilenceInv
  BY DEF Init, StoreInit, SilenceInv, NoSilentChange
<1>2. SilenceInv => NoSilentChange
  BY DEF SilenceInv
<1> QED
  BY <1>1, <1>2, NotifyStep, NextIsAStep, TypeCorrect, IndexesAlwaysAgree, PTL DEF Spec

-----------------------------------------------------------------------------
(* Retention *)

LEMMA RetainedStep ==
    ASSUME TypeOK, [StoreStep]_storeVars
    PROVE  Retained
<1> SUFFICES ASSUME NEW i \in Ids, Vanishes(i)
             PROVE  \/ \E ids \in SUBSET Ids : i \in ids /\ (DeleteOne(i) \/ DeleteMany(ids))
                    \/ i \in Expired
                    \/ OrphanRetentionTtl = 0 /\ unitKeysById[i] # {} /\ unitKeysById'[i] = {}
  BY DEF Retained
<1>1. i \in Unreferenced(Swept) => i \in Expired
  BY DEF Unreferenced, Swept
<1>2. SweptEntities[i] = NoEntity => i \in Expired
  BY <1>1 DEF SweptEntities, Without, Vanishes
<1>3. ASSUME NEW k \in Keys, NEW next \in SUBSET Ids, Moves(k, next)
      PROVE  i \in Expired \/ (OrphanRetentionTtl = 0 /\ unitKeysById[i] # {} /\ unitKeysById'[i] = {})
  <2> DEFINE removed  == membershipIds[k] \ next
             added    == next \ membershipIds[k]
             orphaned == {m \in removed : unitKeysById[m] = {k}}
  <2>1. MoveUnitKey(k, removed, added)
    BY <1>3 DEF Moves
  <2>2. CASE i \in orphaned /\ OrphanRetentionTtl = 0
    BY <2>1, <2>2 DEF MoveUnitKey
  <2>3. CASE ~(i \in orphaned /\ OrphanRetentionTtl = 0)
    <3>1. SweptEntities[i] = NoEntity
      BY <2>1, <2>3 DEF MoveUnitKey, OrphansDropped, Without, Vanishes
    <3> QED
      BY <3>1, <1>2
  <2> QED
    BY <2>2, <2>3
<1>4. ASSUME NEW ids \in SUBSET Ids, NEW batch, Delete(ids, batch)
      PROVE  i \in ids \/ i \in Expired
  BY <1>2, <1>4 DEF Delete, Existing, Without, Vanishes
<1>5. Writes => i \in Expired
  <2>1. ASSUME NEW m \in Ids, NEW value \in Values, UpsertOne(m, value) PROVE i \in Expired
    <3>1. entitiesById'[i] = IF i = m THEN value ELSE SweptEntities[i]
      BY <2>1, SweptType DEF UpsertOne
    <3> QED
      BY <3>1, <1>2, StoreAssumption DEF Vanishes
  <2>2. ASSUME NEW ids \in SUBSET Ids, NEW values \in [ids -> Values], NEW touched \in SUBSET ids,
               NEW duplicates \in BOOLEAN, UpsertMany(values, touched, duplicates)
        PROVE  i \in Expired
    <3>1. DOMAIN values = ids
      OBVIOUS
    <3>2. entitiesById'[i] = IF i \in ids THEN values[i] ELSE SweptEntities[i]
      BY <2>2, <3>1 DEF UpsertMany
    <3> QED
      BY <3>2, <1>2, StoreAssumption DEF Vanishes
  <2> QED
    BY <2>1, <2>2 DEF Writes
<1>6. ReadSweeps => i \in Expired
  BY <1>2 DEF ReadSweeps, Vanishes
<1>7. SweepTimerFires => i \in Expired
  BY DEF SweepTimerFires, Without, Unreferenced, Vanishes
<1>8. ~LetsGoOfNothing /\ ~FlushDirtyUnits /\ ~Tick /\ ~UNCHANGED storeVars
  BY DEF LetsGoOfNothing, FlushDirtyUnits, Tick, storeVars, Vanishes
<1>9. (\E m \in Ids : DeleteOne(m)) => i \in Expired \/ DeleteOne(i)
  <2>1. ASSUME NEW m \in Ids, DeleteOne(m) PROVE i \in Expired \/ DeleteOne(i)
    <3>1. i \in {m} \/ i \in Expired
      BY <2>1, <1>4 DEF DeleteOne
    <3> QED
      BY <2>1, <3>1
  <2> QED
    BY <2>1
<1>10. (\E ids \in SUBSET Ids : DeleteMany(ids))
         => i \in Expired \/ \E ids \in SUBSET Ids : i \in ids /\ DeleteMany(ids)
  BY <1>4 DEF DeleteMany
<1> QED
  BY <1>3, <1>5, <1>6, <1>7, <1>8, <1>9, <1>10, StepKinds DEF Deletes

(* An entity leaves the store by a delete, after its expiry has passed, or,
   when nothing is retained, with its last unit.                           *)
THEOREM RetentionIsHonoured == Spec => RetentionHonoured
<1>1. TypeOK /\ [StoreStep]_storeVars => [Retained]_storeVars
  BY RetainedStep
<1> QED
  BY <1>1, NextIsAStep, TypeCorrect, PTL DEF Spec, RetentionHonoured

=============================================================================
