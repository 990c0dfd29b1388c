------------------------- MODULE EntityUnitsProofs -------------------------
(***************************************************************************)
(* Theorems about the units on top of the entity store: for every set of   *)
(* ids, units, values and lists where a source and streams share entities  *)
(* ("shared"); for two ids and every set of units where nothing is kept    *)
(* ("plain"); and for the store alone without timers ("inline").           *)
(*                                                                         *)
(* The argument for the first: every step a unit takes is a step of the    *)
(* store, so what EntityStoreProofs shows of one holds here too.  A change *)
(* of an entity reaches a unit through the store's indexes; they agree, so *)
(* a unit that listed the entity in its record is told at once, and reads  *)
(* or marks itself, or is outdated until the microtask tells it.           *)
(***************************************************************************)
EXTENDS MCEntityUnits, EntityStoreProofs, FiniteSetTheorems

-----------------------------------------------------------------------------
(* Invariants *)

CallShape == [unit: registered, ids: Lists, set: BOOLEAN]

UnitTypes ==
    /\ ownIds \in [Keys -> Seq(Ids)]
    /\ hasValue \in [Keys -> BOOLEAN]
    /\ value = [k \in Keys |-> value[k]]
    /\ heard = [k \in Keys |-> heard[k]]
    /\ ~Idle => call \in CallShape

(* What NoUnknownStaleness says of one unit. *)
Known(k) ==
    \/ value[k] = Current(k)
    \/ k \in dirty \cup pending
    \/ k \in outdated
    \/ \E i \in Ids : ~Indexed(k, i)

StoreInv == TypeOK /\ IndexesAgree /\ SilenceInv

(* A unit that is not registered has no value yet: it becomes known on
   creation.  Between the halves of a call everything is known as well.    *)
KnownInv ==
    /\ \A k \in Keys \ registered : ~hasValue[k]
    /\ \A k \in registered : Known(k)

UnitsInv == StoreInv /\ UnitTypes /\ KnownInv

SharedInv == part = "shared" => UnitsInv

(* The store's record and the list are the same set, and nothing waits for
   a sweep, so only a release can drop an entity.                          *)
PlainUnits ==
    /\ membershipIds \in [Keys -> SUBSET TwoIds]
    /\ unitKeysById \in [TwoIds -> SUBSET Keys]
    /\ ownIds \in [Keys -> NoRepeats]
    /\ \A k \in Keys : membershipIds[k] = Plain!ListIds(ownIds[k])
    /\ \A k \in Keys, i \in TwoIds : i \in membershipIds[k] <=> k \in unitKeysById[i]
    /\ \A k \in Keys \ registered : membershipIds[k] = {}
    /\ Plain!Scheduled(orphanExpiresAtById) = {}
    /\ ~Idle => call.unit \in Keys /\ call.ids \in NoRepeats

PlainInv == part = "plain" => PlainUnits

-----------------------------------------------------------------------------
(* What a step of the store is to a unit *)

LEMMA ListIdsType == \A list \in Lists : ListIds(list) \in SUBSET Ids /\ Len(list) \in Nat
                                         /\ list \in Seq(Ids)
  BY UnitsAssumption DEF ListIds

(* Whatever a unit does is a step of the store, or none. *)
LEMMA UnitsStepTheStore ==
    ASSUME TypeOK, UnitTypes, UnitsNext
    PROVE  [StoreStep]_storeVars
<1> USE DEF StoreStep, StoreCall
<1>1. ASSUME NEW k \in Keys, NEW list \in Lists, NEW duplicates \in BOOLEAN,
             NEW values \in [ListIds(list) -> Values], NEW touched \in SUBSET ListIds(list),
             NEW set, UpsertForUnit(k, list, values, touched, duplicates, set)
      PROVE  StoreStep
  BY <1>1, ListIdsType DEF UpsertForUnit
<1>2. CASE JoinUnit
  <2>1. call.unit \in Keys /\ call.ids \in Lists
    BY <1>2 DEF JoinUnit, UnitTypes, CallShape, TypeOK
  <2> QED
    BY <1>2, <2>1, ListIdsType DEF JoinUnit
<1>3. ASSUME NEW k \in Keys, NEW ids \in SUBSET Ids, DeleteForUnit(k, ids) PROVE StoreStep
  BY <1>3 DEF DeleteForUnit
<1>4. ASSUME NEW k \in Keys, Reset(k) PROVE StoreStep
  BY <1>4 DEF Reset
<1>5. ASSUME NEW k \in Keys, CreateUnit(k) PROVE StoreStep
  BY <1>5 DEF CreateUnit
<1>6. ASSUME NEW k \in Keys, GetValue(k) \/ GetSnapshot(k) PROVE UNCHANGED storeVars
  BY <1>6 DEF GetValue, GetSnapshot
<1>7. ASSUME NEW k \in Keys, NEW cleanup \in BOOLEAN, RunSettles(k, cleanup)
      PROVE  UNCHANGED storeVars
  BY <1>7 DEF RunSettles
<1>8. Flush \/ SweepTimer \/ TickIdle => StoreStep
  BY DEF Flush, SweepTimer, TickIdle
<1>9. RunContextCall => [StoreStep]_storeVars
  BY <1>1, <1>2, <1>3, <1>4 DEF RunContextCall, ApplyRunResult
<1> QED
  BY <1>5, <1>6, <1>7, <1>8, <1>9 DEF UnitsNext

(* An inline sweep spares the entities somebody is a member of. *)
LEMMA SweepSparesMembers ==
    ASSUME TypeOK, IndexesAgree, NEW j \in Keys, NEW i \in membershipIds[j]
    PROVE  SweptEntities[i] = entitiesById[i]
<1>1. i \in Ids /\ j \in unitKeysById[i]
  BY DEF TypeOK, IndexesAgree
<1> QED
  BY <1>1 DEF SweptEntities, Without, Unreferenced, TypeOK

(* What another unit takes up or lets go of changes nothing a unit is a
   member of.                                                              *)
LEMMA MoveSparesMembers ==
    ASSUME TypeOK, IndexesAgree, NEW k \in Keys, NEW next \in SUBSET Ids, Moves(k, next),
           NEW j \in Keys \ {k}
    PROVE  /\ membershipIds'[j] = membershipIds[j]
           /\ \A i \in membershipIds[j] : entitiesById'[i] = entitiesById[i]
<1>1. membershipIds'[j] = membershipIds[j]
  BY DEF Moves, TypeOK
<1>2. ASSUME NEW i \in membershipIds[j] PROVE entitiesById'[i] = entitiesById[i]
  <2>1. i \in Ids /\ j \in unitKeysById[i] /\ j # k
    BY DEF TypeOK, IndexesAgree
  <2>2. entitiesById'[i] = SweptEntities[i]
    BY <2>1, SweptType DEF Moves, MoveUnitKey, OrphansDropped, Without
  <2> QED
    BY <2>2, SweepSparesMembers
<1> QED
  BY <1>1, <1>2

(* A write tells whoever is a member of what it changed, or leaves them
   outdated.                                                               *)
LEMMA NotifyReaches ==
    ASSUME TypeOK, IndexesAgree, NEW ids \in SUBSET Ids, NEW changed \in SUBSET ids,
           NEW batched \in BOOLEAN, Notify(UnitsOf(ids), changed, batched), NEW j \in Keys
    PROVE  /\ j \in outdated => j \in outdated' \cup Told(UnitsOf(ids), batched)
           /\ \A i \in changed :
                  i \in membershipIds[j] => j \in outdated' \cup Told(UnitsOf(ids), batched)
<1>1. \A i \in changed : i \in membershipIds[j] => j \in MembersOf(changed)
  BY DEF MembersOf
<1>2. j \in outdated \cup MembersOf(changed) => j \in outdated' \cup Told(UnitsOf(ids), batched)
  BY DEF Notify
<1> QED
  BY <1>1, <1>2

-----------------------------------------------------------------------------
(* What a step is to what a unit knows *)

LEMMA SameRead ==
    ASSUME NEW list, NEW e, NEW f, \A i \in ListIds(list) : e[i] = f[i]
    PROVE  ReadMany(list, e) = ReadMany(list, f)
<1>1. \A n \in DOMAIN list : e[list[n]] = f[list[n]]
  BY DEF ListIds
<1>2. [n \in DOMAIN list |-> e[list[n]]] = [n \in DOMAIN list |-> f[list[n]]]
  BY <1>1
<1> QED
  BY <1>2 DEF ReadMany

(* A unit left alone still knows, if every change of an entity that is in
   its record makes it outdated.                                           *)
LEMMA KnownStays ==
    ASSUME UnitTypes, NEW k \in Keys, Known(k),
           ownIds'[k] = ownIds[k], hasValue'[k] = hasValue[k], value'[k] = value[k],
           membershipIds'[k] \subseteq membershipIds[k],
           k \in dirty \cup pending => k \in dirty' \cup pending',
           k \in outdated => k \in outdated',
           \A i \in membershipIds'[k] : entitiesById'[i] = entitiesById[i] \/ k \in outdated'
    PROVE  Known(k)'
<1>1. CASE k \in dirty \cup pending \/ k \in outdated
  BY <1>1 DEF Known
<1>2. CASE \E i \in Ids : ~Indexed(k, i)
  BY <1>2 DEF Known, Indexed
<1>3. CASE value[k] = Current(k) /\ k \notin outdated' /\ \A i \in Ids : Indexed(k, i)'
  <2>1. \A i \in ListIds(ownIds[k]) : i \in membershipIds'[k]
    BY <1>3 DEF Indexed, UnitTypes, ListIds
  <2>2. \A i \in ListIds(ownIds[k]) : entitiesById'[i] = entitiesById[i]
    BY <1>3, <2>1
  <2>3. ReadMany(ownIds[k], entitiesById') = ReadMany(ownIds[k], entitiesById)
    BY <2>2, SameRead
  <2>4. value'[k] = Current(k)'
    BY <1>3, <2>3 DEF Current, ModeValue
  <2> QED
    BY <2>4 DEF Known
<1> QED
  BY <1>1, <1>2, <1>3 DEF Known

(* The units of read have read their value, the other told ones, sources,
   are marked.                                                             *)
Refreshes(keys, read) ==
    /\ value' = [j \in Keys |-> IF j \in read
                                THEN ModeValue(j, ownIds[j], hasValue[j], entitiesById')
                                ELSE value[j]]
    /\ dirty' = (dirty \cup (keys \cap Sources)) \ read
    /\ \A j \in keys : j \in Sources \/ j \in read
    /\ UNCHANGED <<ownIds, hasValue>>
    /\ pending \subseteq pending'

LEMMA RefreshesKnown ==
    ASSUME UnitTypes, NEW keys, NEW read, Refreshes(keys, read), NEW j \in Keys, Known(j),
           membershipIds'[j] \subseteq membershipIds[j],
           j \in outdated => j \in outdated' \cup keys,
           \A i \in membershipIds'[j] :
               entitiesById'[i] = entitiesById[i] \/ j \in outdated' \cup keys
    PROVE  Known(j)'
<1>1. CASE j \in read
  <2>1. value'[j] = ModeValue(j, ownIds[j], hasValue[j], entitiesById')
    BY <1>1 DEF Refreshes
  <2>2. value'[j] = Current(j)'
    BY <2>1 DEF Refreshes, Current, ModeValue
  <2> QED
    BY <2>2 DEF Known
<1>2. CASE j \in keys \ read
  BY <1>2 DEF Refreshes, Known
<1>3. CASE j \notin keys \cup read
  <2>1. value'[j] = value[j] /\ ownIds'[j] = ownIds[j] /\ hasValue'[j] = hasValue[j]
    BY <1>3 DEF Refreshes
  <2>2. j \in dirty \cup pending => j \in dirty' \cup pending'
    BY <1>3 DEF Refreshes
  <2>3. j \in outdated => j \in outdated'
    BY <1>3
  <2>4. \A i \in membershipIds'[j] : entitiesById'[i] = entitiesById[i] \/ j \in outdated'
    BY <1>3
  <2> QED
    BY <2>1, <2>2, <2>3, <2>4, KnownStays
<1> QED
  BY <1>1, <1>2, <1>3

(* The callbacks of notified units are such a refresh. *)
LEMMA OnChangeRefreshes ==
    ASSUME NEW keys, OnChange(keys), UNCHANGED <<ownIds, hasValue>>, pending \subseteq pending'
    PROVE  /\ Refreshes(keys, {k \in keys : k \notin Sources \/ k \in Listening})
           /\ heard' = [k \in Keys |-> heard'[k]]
<1>1. value' = [k \in Keys |-> IF k \in {m \in keys : m \notin Sources \/ m \in Listening}
                               THEN ModeValue(k, ownIds[k], hasValue[k], entitiesById')
                               ELSE value[k]]
  BY DEF OnChange
<1>2. dirty' = (dirty \cup (keys \cap Sources))
                   \ {k \in keys : k \notin Sources \/ k \in Listening}
  BY DEF OnChange
<1>3. heard' = [k \in Keys |-> heard'[k]]
  BY DEF OnChange, NotifyUnits
<1> QED
  BY <1>1, <1>2, <1>3 DEF Refreshes
-----------------------------------------------------------------------------
(* The invariant *)

(* The calls about one unit's membership move that unit and no other. *)
LEMMA CallsMove ==
    ASSUME TypeOK, NEW k \in Keys
    PROVE  /\ RegisterUnit(k) => Moves(k, {})
           /\ ClearUnitMembership(k) =>
                  Moves(k, {}) \/ UNCHANGED <<entitiesById, membershipIds, notifyVars>>
           /\ \A ids \in SUBSET Ids, length \in Nat :
                  SetUnitMembership(k, ids, length) => \E next \in SUBSET Ids : Moves(k, next)
<1> USE DEF notifyVars
<1>1. membershipIds[k] \ {} = membershipIds[k] /\ {} \ membershipIds[k] = {}
  OBVIOUS
<1>2. RegisterUnit(k) => Moves(k, {})
  BY <1>1 DEF RegisterUnit, Moves
<1>3. ASSUME ClearUnitMembership(k)
      PROVE  Moves(k, {}) \/ UNCHANGED <<entitiesById, membershipIds, notifyVars>>
  <2>1. CASE membershipIds[k] = {}
    BY <1>3, <2>1 DEF ClearUnitMembership, LetGo, TypeOK
  <2>2. CASE membershipIds[k] # {}
    BY <1>1, <1>3, <2>2 DEF ClearUnitMembership, LetGo, Moves
  <2> QED
    BY <2>1, <2>2
<1>4. ASSUME NEW ids \in SUBSET Ids, NEW length \in Nat, SetUnitMembership(k, ids, length)
      PROVE  \E next \in SUBSET Ids : Moves(k, next)
  <2> DEFINE next == IF LooksUnchanged(k, ids, length) THEN membershipIds[k] ELSE ids
  <2>1. next \in SUBSET Ids
    BY DEF TypeOK
  <2>2. Moves(k, next)
    BY <1>4 DEF SetUnitMembership, Moves
  <2> QED
    BY <2>1, <2>2
<1> QED
  BY <1>2, <1>3, <1>4

(* What a call does to the unit k leaves what the others know. *)
LEMMA OthersKnow ==
    ASSUME TypeOK, IndexesAgree, UnitTypes, NEW k \in Keys,
           \/ \E next \in SUBSET Ids : Moves(k, next)
           \/ UNCHANGED <<entitiesById, membershipIds, notifyVars>>,
           NEW j \in Keys \ {k}, Known(j),
           ownIds'[j] = ownIds[j], hasValue'[j] = hasValue[j], value'[j] = value[j],
           j \in dirty \cup pending => j \in dirty' \cup pending'
    PROVE  Known(j)'
<1>1. membershipIds'[j] = membershipIds[j] /\ \A i \in membershipIds[j] : entitiesById'[i] = entitiesById[i]
  BY MoveSparesMembers
<1>2. j \in outdated => j \in outdated'
  BY DEF Moves, notifyVars
<1> QED
  BY <1>1, <1>2, KnownStays

LEMMA UnitsStep ==
    ASSUME UnitsInv, UnitsNext
    PROVE  UnitsInv'
<1> USE DEF UnitsInv
<1>0. TypeOK /\ IndexesAgree /\ SilenceInv /\ registered \in SUBSET Keys
  BY DEF StoreInv, TypeOK
<1>1. StoreInv'
  BY <1>0, UnitsStepTheStore, TypeStep, IndexesStep, NotifyStep DEF StoreInv
<1>2. ASSUME NEW k \in Keys, CreateUnit(k) PROVE UnitTypes' /\ KnownInv'
  <2>1. UNCHANGED <<unitVars, call>> /\ registered' = registered \cup {k} /\ k \notin registered /\ Idle
    BY <1>2 DEF CreateUnit, RegisterUnit
  <2>2. UnitTypes'
    BY <2>1 DEF UnitTypes, unitVars, Idle
  <2>3. Known(k)'
    BY <2>1 DEF KnownInv, Known, Current, ModeValue, unitVars
  <2>4. \E next \in SUBSET Ids : Moves(k, next)
    BY <1>0, <1>2, CallsMove DEF CreateUnit
  <2>5. \A j \in registered : Known(j)'
    BY <1>0, <2>1, <2>4, OthersKnow DEF KnownInv, unitVars
  <2> QED
    BY <2>1, <2>2, <2>3, <2>5 DEF KnownInv, unitVars
<1>3. ASSUME NEW k \in Keys, NEW list \in Lists, NEW duplicates \in BOOLEAN,
             NEW values \in [ListIds(list) -> Values], NEW touched \in SUBSET ListIds(list),
             NEW set \in BOOLEAN, UpsertForUnit(k, list, values, touched, duplicates, set)
      PROVE  UnitTypes' /\ KnownInv'
  <2> DEFINE ids     == ListIds(list)
             changed == {i \in ids : values[i] # SweptEntities[i]}
             batched == BatchesUpsert(touched, duplicates)
             told    == Told(UnitsOf(touched), batched)
             read    == {m \in told : m \notin Sources \/ m \in Listening}
  <2>1. ids \in SUBSET Ids /\ touched \in SUBSET Ids /\ batched \in BOOLEAN /\ DOMAIN values = ids
    BY ListIdsType, BatchTypes
  <2>2. /\ changed \in SUBSET touched
        /\ entitiesById' = [i \in Ids |-> IF i \in ids THEN values[i] ELSE SweptEntities[i]]
        /\ Notify(UnitsOf(touched), changed, batched)
        /\ membershipIds' = membershipIds /\ registered' = registered
    BY <1>3, <2>1 DEF UpsertForUnit, UpsertMany, indexVars
  <2>3. Refreshes(told, read) /\ heard' = [m \in Keys |-> heard'[m]]
    BY <1>3, OnChangeRefreshes DEF UpsertForUnit
  <2>4. UnitTypes'
    <3>1. ownIds' = ownIds /\ hasValue' = hasValue /\ value' = [m \in Keys |-> value'[m]]
      BY <2>3 DEF Refreshes
    <3>2. call' \in [unit: registered', ids: Lists, set: BOOLEAN]
      BY <1>3, <2>2 DEF UpsertForUnit
    <3> QED
      BY <2>3, <3>1, <3>2 DEF UnitTypes, CallShape
  <2>5. ASSUME NEW j \in registered PROVE Known(j)'
    <3>1. \A i \in membershipIds[j] : i \in Ids /\ SweptEntities[i] = entitiesById[i]
      BY <1>0, SweepSparesMembers DEF TypeOK
    <3>2. \A i \in membershipIds[j] : entitiesById'[i] = entitiesById[i] \/ i \in changed
      BY <2>2, <3>1
    <3>3. j \in Keys /\ Known(j) /\ membershipIds'[j] \subseteq membershipIds[j]
      BY <1>0, <2>2 DEF KnownInv
    <3>4. /\ j \in outdated => j \in outdated' \cup told
          /\ \A i \in changed : i \in membershipIds[j] => j \in outdated' \cup told
      <4> HIDE DEF changed, batched
      <4> QED
        BY SMTT(30), <1>0, <2>1, <2>2, <3>3, NotifyReaches
    <3> HIDE DEF changed, told, read
    <3> QED
      BY <2>2, <2>3, <3>2, <3>3, <3>4, RefreshesKnown
  <2>6. \A j \in Keys \ registered : ~hasValue'[j]
    BY <2>3 DEF KnownInv, Refreshes
  <2> QED
    BY <2>2, <2>4, <2>5, <2>6 DEF KnownInv
<1>4. ASSUME NEW k, NEW list, k = call.unit, list = call.ids, JoinUnit
      PROVE  UnitTypes' /\ KnownInv'
  <2> DEFINE read == call.set \/ k \notin Sources
  <2>1. k \in registered /\ k \in Keys /\ list \in Lists /\ call \in CallShape
    BY <1>0, <1>4 DEF JoinUnit, UnitTypes, CallShape
  <2>2. /\ ownIds' = [ownIds EXCEPT ![k] = list]
        /\ hasValue' = [hasValue EXCEPT ![k] = TRUE]
        /\ value' = IF read THEN [value EXCEPT ![k] = ReadMany(list, entitiesById')] ELSE value
        /\ dirty' = IF read THEN dirty \ {k} ELSE dirty
        /\ pending' = IF read THEN pending ELSE pending \cup {k}
        /\ call' = NoCall
        /\ heard' = [m \in Keys |-> heard'[m]]
    BY <1>4 DEF JoinUnit, NotifyUnits
  <2>3. registered' = registered
    BY <1>4 DEF JoinUnit, SetUnitMembership, storeVars
  <2>4. UnitTypes'
    <3>1. value' = [m \in Keys |-> value'[m]]
      BY <2>2 DEF UnitTypes
    <3>2. ownIds' \in [Keys -> Seq(Ids)] /\ hasValue' \in [Keys -> BOOLEAN]
      BY <2>1, <2>2, ListIdsType DEF UnitTypes
    <3> QED
      BY <2>2, <3>1, <3>2 DEF UnitTypes, Idle
  <2>5. \/ \E next \in SUBSET Ids : Moves(k, next)
        \/ UNCHANGED <<entitiesById, membershipIds, notifyVars>>
    BY <1>0, <1>4, <2>1, CallsMove, ListIdsType DEF JoinUnit, storeVars, notifyVars
  <2>6. Known(k)'
    <3>1. ownIds'[k] = list /\ hasValue'[k] = TRUE
      BY <2>1, <2>2 DEF UnitTypes
    <3>2. CASE read
      <4>1. value'[k] = ReadMany(list, entitiesById')
        BY <2>1, <2>2, <3>2 DEF UnitTypes
      <4> QED
        BY <3>1, <4>1 DEF Known, Current, ModeValue
    <3>3. CASE ~read
      BY <2>2, <3>3 DEF Known
    <3> QED
      BY <3>2, <3>3
  <2>7. ASSUME NEW j \in registered, j # k PROVE Known(j)'
    <3>1. /\ ownIds'[j] = ownIds[j] /\ hasValue'[j] = hasValue[j] /\ value'[j] = value[j]
          /\ j \in dirty \cup pending => j \in dirty' \cup pending'
      BY <1>0, <2>2, <2>7 DEF UnitTypes
    <3> QED
      BY <1>0, <2>1, <2>5, <2>7, <3>1, OthersKnow DEF KnownInv
  <2>8. \A j \in Keys \ registered : ~hasValue'[j]
    BY <2>1, <2>2 DEF KnownInv, UnitTypes
  <2> QED
    BY <2>3, <2>4, <2>6, <2>7, <2>8 DEF KnownInv
<1>5. ASSUME NEW k \in Keys, NEW ids \in SUBSET Ids, DeleteForUnit(k, ids)
      PROVE  UnitTypes' /\ KnownInv'
  <2> DEFINE existed == Existing(ids)
             batched == BatchesDelete(existed, BatchMany)
             told    == Told(UnitsOf(existed), batched)
             read    == {m \in told : m \notin Sources \/ m \in Listening}
                            \cup IF k \in Sources THEN {} ELSE {k}
  <2>1. existed \in SUBSET Ids /\ batched \in BOOLEAN
    BY BatchTypes DEF Existing
  <2>2. /\ entitiesById' = Without(SweptEntities, existed, NoEntity)
        /\ \A m \in Keys : membershipIds'[m] \subseteq membershipIds[m]
        /\ Notify(UnitsOf(existed), existed, batched)
        /\ registered' = registered
    BY <1>5 DEF DeleteForUnit, DeleteMany, Delete
  <2>3. Refreshes(told, read)
    BY <1>5 DEF DeleteForUnit, Refreshes
  <2>4. UnitTypes'
    <3>1. heard' = [m \in Keys |-> heard'[m]] /\ Idle /\ call' = call
      BY <1>5 DEF DeleteForUnit, NotifyUnits
    <3>2. ownIds' = ownIds /\ hasValue' = hasValue /\ value' = [m \in Keys |-> value'[m]]
      BY <2>3 DEF Refreshes
    <3> QED
      BY <3>1, <3>2 DEF UnitTypes, Idle
  <2>5. ASSUME NEW j \in registered PROVE Known(j)'
    <3>1. \A i \in membershipIds[j] : i \in Ids /\ SweptEntities[i] = entitiesById[i]
      BY <1>0, SweepSparesMembers DEF TypeOK
    <3>2. \A i \in membershipIds[j] : entitiesById'[i] = entitiesById[i] \/ i \in existed
      BY <2>2, <3>1 DEF Without
    <3>3. j \in Keys /\ Known(j) /\ membershipIds'[j] \subseteq membershipIds[j]
      BY <1>0, <2>2 DEF KnownInv
    <3>4. /\ j \in outdated => j \in outdated' \cup told
          /\ \A i \in existed : i \in membershipIds[j] => j \in outdated' \cup told
      <4> HIDE DEF existed, batched
      <4> QED
        BY <1>0, <2>1, <2>2, <3>3, NotifyReaches
    <3> HIDE DEF existed, told, read
    <3> QED
      BY <2>3, <3>2, <3>3, <3>4, RefreshesKnown
  <2>6. \A j \in Keys \ registered : ~hasValue'[j]
    BY <2>3 DEF KnownInv, Refreshes
  <2> QED
    BY <2>2, <2>4, <2>5, <2>6 DEF KnownInv
<1>6. ASSUME NEW k \in Keys, Reset(k) PROVE UnitTypes' /\ KnownInv'
  <2>1. /\ ownIds' = [ownIds EXCEPT ![k] = <<>>]
        /\ hasValue' = [hasValue EXCEPT ![k] = FALSE]
        /\ value' = [value EXCEPT ![k] = <<>>]
        /\ dirty' = dirty \ {k} /\ pending' = pending \ {k}
        /\ heard' = [m \in Keys |-> heard'[m]]
        /\ call' = call /\ Idle /\ registered' = registered
    BY <1>6 DEF Reset, NotifyUnits, ClearUnitMembership
  <2>2. UnitTypes'
    <3>1. <<>> \in Seq(Ids)
      OBVIOUS
    <3>2. ownIds' \in [Keys -> Seq(Ids)] /\ hasValue' \in [Keys -> BOOLEAN]
      BY <2>1, <3>1 DEF UnitTypes
    <3>3. value' = [m \in Keys |-> value'[m]]
      BY <2>1 DEF UnitTypes
    <3> QED
      BY <2>1, <3>2, <3>3 DEF UnitTypes, Idle
  <2>3. Known(k)'
    BY <2>1 DEF UnitTypes, Known, Current, ModeValue
  <2>4. ASSUME NEW j \in registered, j # k PROVE Known(j)'
    <3>1. /\ ownIds'[j] = ownIds[j] /\ hasValue'[j] = hasValue[j] /\ value'[j] = value[j]
          /\ j \in dirty \cup pending => j \in dirty' \cup pending'
      BY <1>0, <2>1, <2>4 DEF UnitTypes
    <3>2. \/ \E next \in SUBSET Ids : Moves(k, next)
          \/ UNCHANGED <<entitiesById, membershipIds, notifyVars>>
      BY <1>0, <1>6, CallsMove DEF Reset
    <3> QED
      BY <1>0, <2>4, <3>1, <3>2, OthersKnow DEF KnownInv
  <2>5. \A j \in Keys \ registered : ~hasValue'[j]
    BY <1>6, <2>1 DEF KnownInv, Reset, UnitTypes
  <2> QED
    BY <2>1, <2>2, <2>3, <2>4, <2>5 DEF KnownInv
(* Reading one unit's value, or leaving it, disturbs no other. *)
<1>7. ASSUME NEW k \in Keys, NEW v, Idle, value' = [value EXCEPT ![k] = v],
             v = Current(k) \/ (v = value[k] /\ dirty' = dirty /\ pending' = pending),
             \A j \in Keys \ {k} : j \in dirty \cup pending => j \in dirty' \cup pending',
             heard' = [m \in Keys |-> heard'[m]],
             UNCHANGED <<storeVars, ownIds, hasValue, call>>
      PROVE  UnitTypes' /\ KnownInv'
  <2>1. value'[k] = v /\ value' = [m \in Keys |-> value'[m]]
    BY <1>7 DEF UnitTypes
  <2>2. UnitTypes'
    BY <1>7, <2>1 DEF UnitTypes, Idle
  <2>3. /\ registered' = registered /\ entitiesById' = entitiesById
        /\ membershipIds' = membershipIds /\ outdated' = outdated
    BY <1>7 DEF storeVars
  <2>4. ASSUME k \in registered PROVE Known(k)'
    <3>1. CASE v = Current(k)
      <4>1. value'[k] = Current(k)'
        BY <1>7, <2>1, <2>3, <3>1 DEF Current, ModeValue
      <4> QED
        BY <4>1 DEF Known
    <3>2. CASE v = value[k] /\ dirty' = dirty /\ pending' = pending
      BY <1>0, <1>7, <2>1, <2>3, <2>4, <3>2, KnownStays DEF KnownInv
    <3> QED
      BY <1>7, <3>1, <3>2
  <2>5. ASSUME NEW j \in registered, j # k PROVE Known(j)'
    <3>1. value'[j] = value[j] /\ j \in Keys
      BY <1>0, <1>7, <2>5 DEF UnitTypes
    <3> QED
      BY <1>7, <2>3, <2>5, <3>1, KnownStays DEF KnownInv
  <2> QED
    BY <1>7, <2>2, <2>3, <2>4, <2>5 DEF KnownInv
<1>8. ASSUME NEW k \in Keys, GetValue(k) PROVE UnitTypes' /\ KnownInv'
  <2>1. heard' = [m \in Keys |-> heard'[m]]
    BY <1>8 DEF GetValue, UnitTypes
  <2> QED
    BY <1>7, <1>8, <2>1 DEF GetValue
<1>9. ASSUME NEW k \in Keys, GetSnapshot(k) PROVE UnitTypes' /\ KnownInv'
  <2>1. heard' = [m \in Keys |-> heard'[m]]
    BY <1>9 DEF GetSnapshot, UnitTypes
  <2> QED
    BY <1>7, <1>9, <2>1 DEF GetSnapshot
<1>10. ASSUME NEW k \in Keys, NEW cleanup \in BOOLEAN, RunSettles(k, cleanup)
       PROVE  UnitTypes' /\ KnownInv'
  <2> DEFINE v == IF cleanup \/ k \in dirty THEN Current(k) ELSE value[k]
  <2>1. heard' = [m \in Keys |-> heard'[m]]
    BY <1>10 DEF RunSettles, NotifyUnits
  <2>2. value' = [value EXCEPT ![k] = v] /\ Idle /\ UNCHANGED <<storeVars, ownIds, hasValue, call>>
    BY <1>10 DEF RunSettles
  <2>3. v = Current(k) \/ (v = value[k] /\ dirty' = dirty /\ pending' = pending)
    BY <1>10 DEF RunSettles
  <2>4. \A j \in Keys \ {k} : j \in dirty \cup pending => j \in dirty' \cup pending'
    BY <1>10 DEF RunSettles
  <2> HIDE DEF v
  <2> QED
    BY <1>7, <2>1, <2>2, <2>3, <2>4
<1>11. ASSUME Flush PROVE UnitTypes' /\ KnownInv'
  <2> DEFINE told == dirtyUnitKeys \cap registered
             read == {m \in told : m \notin Sources \/ m \in Listening}
  <2>1. FlushDirtyUnits /\ OnChange(told) /\ Idle /\ UNCHANGED <<ownIds, hasValue, pending, call>>
    BY <1>11 DEF Flush
  <2>2. Refreshes(told, read) /\ heard' = [m \in Keys |-> heard'[m]]
    BY <2>1, OnChangeRefreshes
  <2>3. /\ registered' = registered /\ entitiesById' = entitiesById
        /\ membershipIds' = membershipIds /\ outdated' = outdated \ told
    BY <2>1 DEF FlushDirtyUnits, indexVars
  <2>4. UnitTypes'
    <3>1. value' = [m \in Keys |-> value'[m]]
      BY <2>2 DEF Refreshes
    <3> QED
      BY <2>1, <2>2, <3>1 DEF UnitTypes, Idle
  <2>5. ASSUME NEW j \in registered PROVE Known(j)'
    <3>1. j \in Keys /\ Known(j) /\ (j \in outdated => j \in outdated' \cup told)
      BY <1>0, <2>3 DEF KnownInv
    <3> HIDE DEF told, read
    <3> QED
      BY <2>2, <2>3, <3>1, RefreshesKnown
  <2> QED
    BY <2>1, <2>3, <2>4, <2>5 DEF KnownInv
<1>12. ASSUME SweepTimer \/ TickIdle PROVE UnitTypes' /\ KnownInv'
  <2>1. /\ registered' = registered /\ membershipIds' = membershipIds /\ outdated' = outdated
        /\ UNCHANGED <<unitVars, call>> /\ Idle
    BY <1>12 DEF SweepTimer, TickIdle, SweepTimerFires, Tick, indexVars, notifyVars
  <2>2. ASSUME NEW j \in Keys, NEW i \in membershipIds[j] PROVE entitiesById'[i] = entitiesById[i]
    <3>1. i \in Ids /\ unitKeysById[i] # {}
      BY <1>0 DEF TypeOK, IndexesAgree
    <3> QED
      BY <1>0, <1>12, <3>1
         DEF SweepTimer, TickIdle, SweepTimerFires, Tick, Without, Unreferenced, TypeOK
  <2>3. ASSUME NEW j \in registered PROVE Known(j)'
    BY <1>0, <2>1, <2>2, KnownStays DEF KnownInv, unitVars
  <2> QED
    BY <2>1, <2>3 DEF KnownInv, UnitTypes, unitVars, Idle
<1>13. RunContextCall => UnitTypes' /\ KnownInv'
  BY <1>3, <1>4, <1>5, <1>6 DEF RunContextCall, ApplyRunResult
<1> QED
  BY <1>1, <1>2, <1>8, <1>9, <1>10, <1>11, <1>12, <1>13 DEF UnitsNext
-----------------------------------------------------------------------------
(* Theorems: shared entities *)

LEMMA SharedInit == MCInit => SharedInv
<1> SUFFICES ASSUME MCInit, part = "shared" PROVE UnitsInv
  BY DEF SharedInv
<1>1. UnitsInit
  BY DEF MCInit
<1>2. StoreInv
  BY <1>1, InitType DEF UnitsInit, StoreInit, StoreInv, IndexesAgree, SilenceInv, NoSilentChange
<1>3. <<>> \in Seq(Ids)
  OBVIOUS
<1>4. UnitTypes
  BY <1>1, <1>3 DEF UnitsInit, UnitTypes, Idle
<1>5. KnownInv
  BY <1>1 DEF UnitsInit, StoreInit, KnownInv
<1> QED
  BY <1>2, <1>4, <1>5 DEF UnitsInv

LEMMA SharedStep == SharedInv /\ [MCNext]_<<vars, part>> => SharedInv'
<1> SUFFICES ASSUME SharedInv, [MCNext]_<<vars, part>>, part' = "shared" PROVE UnitsInv'
  BY DEF SharedInv
<1>1. part = "shared" /\ UnitsInv /\ (UnitsNext \/ UNCHANGED vars)
  BY DEF MCNext, SharedInv
<1>2. CASE UNCHANGED vars
  BY <1>1, <1>2 DEF vars, storeVars, unitVars, UnitsInv, StoreInv, TypeOK, IndexesAgree,
     SilenceInv, NoSilentChange, UnitTypes, CallShape, Idle, KnownInv, Known, Indexed, Current,
     ModeValue
<1> QED
  BY <1>1, <1>2, UnitsStep

(* For every set of ids, units, values and lists, any platform, batching and
   retention: whatever the interleaving of run contexts, resets, reads, the
   microtask and the sweep, a unit whose value is not what the store holds
   for its list is marked, is outdated and queued, or lost an id.          *)
THEOREM StalenessIsAlwaysKnown == MCSpec => []StalenessIsKnown
<1>1. SharedInv => StalenessIsKnown
  BY DEF SharedInv, StalenessIsKnown, UnitsInv, KnownInv, Known, NoUnknownStaleness
<1> QED
  BY <1>1, SharedInit, SharedStep, PTL DEF MCSpec

(* What the subscribers hear at the end of a run is what the unit shows. *)
LEMMA SettledStep ==
    ASSUME UnitsInv PROVE SettledHeard
<1> SUFFICES ASSUME NEW k \in Listening, NEW cleanup \in BOOLEAN, RunSettles(k, cleanup)
             PROVE  /\ heard'[k] = value'[k]
                    /\ \/ heard'[k] = Current(k)
                       \/ k \in pending \/ k \in outdated
                       \/ \E i \in Ids : ~Indexed(k, i)
  BY DEF SettledHeard
<1>1. k \in Keys /\ k \in registered /\ Known(k)
  BY UnitsAssumption DEF RunSettles, UnitsInv, KnownInv
<1>2. heard'[k] = value'[k]
  BY <1>1 DEF RunSettles, NotifyUnits
<1>3. value'[k] = IF cleanup \/ k \in dirty THEN Current(k) ELSE value[k]
  BY <1>1 DEF RunSettles, UnitsInv, UnitTypes
<1> QED
  BY <1>1, <1>2, <1>3 DEF Known

(* The end of a run gives its subscribers the value the unit shows, and that
   is what the store holds, unless the unit knows that it is not.          *)
THEOREM SettledRunsAreHeard == MCSpec => SettledRunIsHeard
<1>1. SharedInv => (part = "shared" => SettledHeard)
  BY SettledStep DEF SharedInv
<1>2. SharedInv /\ [MCNext]_<<vars, part>> => [part = "shared" => SettledHeard]_vars
  BY <1>1
<1> QED
  BY <1>2, SharedInit, SharedStep, PTL DEF MCSpec, SettledRunIsHeard
-----------------------------------------------------------------------------
(* Lists without repeats, nothing kept and nothing deleted *)

(* Nothing waits for a sweep, so no sweep drops anything. *)
LEMMA PlainSweeps ==
    ASSUME PlainUnits
    PROVE  /\ Plain!Expired = {} /\ Plain!Swept = {}
           /\ \A i \in TwoIds : Plain!SweptEntities[i] = entitiesById[i]
           /\ Plain!Scheduled(Plain!SweptExpiries) = {}
<1>1. Plain!Expired = {} /\ Plain!Swept = {}
  BY DEF PlainUnits, Plain!Expired, Plain!Swept
<1>2. \A i \in TwoIds : Plain!SweptEntities[i] = entitiesById[i]
  BY <1>1 DEF Plain!SweptEntities, Plain!Without, Plain!Unreferenced
<1>3. Plain!Scheduled(Plain!SweptExpiries) = {}
  BY <1>1 DEF PlainUnits, Plain!Scheduled, Plain!SweptExpiries, Plain!Without
<1> QED
  BY <1>1, <1>2, <1>3

(* A unit that trades its ids for next: only an entity that nobody else
   refers to and that is not in next goes.                                 *)
LEMMA PlainMove ==
    ASSUME PlainUnits, NEW k \in Keys, NEW next \in SUBSET TwoIds,
           Plain!MoveUnitKey(k, membershipIds[k] \ next, next \ membershipIds[k]),
           membershipIds' = [membershipIds EXCEPT ![k] = next]
    PROVE  /\ unitKeysById' \in [TwoIds -> SUBSET Keys]
           /\ \A j \in Keys, i \in TwoIds : i \in membershipIds'[j] <=> j \in unitKeysById'[i]
           /\ Plain!Scheduled(orphanExpiresAtById') = {}
           /\ \A i \in TwoIds : Plain!Vanishes(i) => unitKeysById[i] = {k} /\ i \notin membershipIds'[k]
<1> DEFINE removed  == membershipIds[k] \ next
           added    == next \ membershipIds[k]
           orphaned == {i \in removed : unitKeysById[i] = {k}}
<1>1. /\ unitKeysById' = [i \in TwoIds |-> IF i \in removed THEN unitKeysById[i] \ {k}
                                           ELSE IF i \in added THEN unitKeysById[i] \cup {k}
                                           ELSE unitKeysById[i]]
      /\ entitiesById' = Plain!OrphansDropped(Plain!SweptEntities, orphaned)
      /\ orphanExpiresAtById' =
             Plain!Without(Plain!OrphansScheduled(Plain!SweptExpiries, orphaned), added, Plain!NoTime)
  BY DEF Plain!MoveUnitKey
<1>2. unitKeysById' \in [TwoIds -> SUBSET Keys]
  BY <1>1 DEF PlainUnits
<1>3. \A j \in Keys, i \in TwoIds : i \in membershipIds'[j] <=> j \in unitKeysById'[i]
  BY <1>1 DEF PlainUnits
<1>4. Plain!Scheduled(orphanExpiresAtById') = {}
  <2>1. Plain!OrphansScheduled(Plain!SweptExpiries, orphaned)
            = Plain!Without(Plain!SweptExpiries, orphaned, Plain!NoTime)
    BY DEF Plain!OrphansScheduled
  <2> QED
    BY <1>1, <2>1, PlainSweeps DEF Plain!Scheduled, Plain!Without
<1>5. ASSUME NEW i \in TwoIds, Plain!Vanishes(i)
      PROVE  unitKeysById[i] = {k} /\ i \notin membershipIds'[k]
  <2>1. i \in orphaned
    BY <1>1, <1>5, PlainSweeps DEF Plain!Vanishes, Plain!OrphansDropped, Plain!Without
  <2> QED
    BY <2>1 DEF PlainUnits
<1> QED
  BY <1>2, <1>3, <1>4, <1>5

(* Without repeats, a list that looks like the record is the record. *)
LEMMA PlainKept ==
    ASSUME PlainUnits, NEW k \in Keys, NEW list \in NoRepeats,
           Plain!LooksUnchanged(k, Plain!ListIds(list), Len(list))
    PROVE  membershipIds[k] = Plain!ListIds(list)
<1>1. membershipIds[k] \in SUBSET TwoIds /\ IsFiniteSet(membershipIds[k])
  <2>1. IsFiniteSet(TwoIds)
    <3>1. IsFiniteSet({i2})
      BY FS_Singleton
    <3>2. TwoIds = {i2} \cup {i1}
      BY DEF TwoIds
    <3> QED
      BY <3>1, <3>2, FS_AddElement
  <2>2. membershipIds[k] \in SUBSET TwoIds
    BY DEF PlainUnits
  <2> QED
    BY <2>1, <2>2, FS_Subset
<1>2. CASE list = <<>>
  <2>1. Plain!Cardinality(membershipIds[k]) = Cardinality(membershipIds[k])
    BY DEF Plain!Cardinality, Cardinality, Plain!IsFiniteSet, IsFiniteSet
  <2>2. Cardinality(membershipIds[k]) = 0
    BY <1>2, <2>1 DEF Plain!LooksUnchanged
  <2>3. membershipIds[k] = {}
    BY <1>1, <2>2, FS_EmptySet
  <2> QED
    BY <1>2, <2>3 DEF Plain!ListIds
<1>3. CASE list = <<i1>> \/ list = <<i2>>
  BY <1>3 DEF Plain!LooksUnchanged
<1>4. CASE list = <<i1, i2>>
  <2>1. Plain!ListIds(list) = TwoIds
    BY <1>4 DEF Plain!ListIds, TwoIds
  <2> QED
    BY <1>1, <2>1 DEF Plain!LooksUnchanged
<1> QED
  BY <1>2, <1>3, <1>4 DEF NoRepeats

(* A step that leaves the indexes and drops no entity. *)
PlainRest ==
    /\ UNCHANGED <<registered, membershipIds, unitKeysById, ownIds>>
    /\ Plain!Scheduled(orphanExpiresAtById') = {}
    /\ \A i \in TwoIds : ~Plain!Vanishes(i)
    /\ call' \in {call, NoCall} \/ (call'.unit \in Keys /\ call'.ids \in NoRepeats)

(* A step that gives k the list, and no other unit anything. *)
PlainJoin(k, list) ==
    /\ membershipIds' = [membershipIds EXCEPT ![k] = Plain!ListIds(list)]
    /\ Plain!MoveUnitKey(k, membershipIds[k] \ Plain!ListIds(list),
                         Plain!ListIds(list) \ membershipIds[k])
    /\ ownIds' = [ownIds EXCEPT ![k] = list]
    /\ registered \subseteq registered' /\ k \in registered'
    /\ call' \in {call, NoCall}

LEMMA PlainListIds ==
    /\ \A list \in NoRepeats : Plain!ListIds(list) \in SUBSET TwoIds
    /\ <<>> \in NoRepeats /\ Plain!ListIds(<<>>) = {}
<1>1. ASSUME NEW list \in NoRepeats PROVE Plain!ListIds(list) \in SUBSET TwoIds
  <2>1. list = <<>> => Plain!ListIds(list) = {}
    BY DEF Plain!ListIds
  <2>2. list = <<i1>> => Plain!ListIds(list) = {i1}
    BY DEF Plain!ListIds
  <2>3. list = <<i2>> => Plain!ListIds(list) = {i2}
    BY DEF Plain!ListIds
  <2>4. list = <<i1, i2>> => Plain!ListIds(list) = {i1, i2}
    BY DEF Plain!ListIds
  <2> QED
    BY <2>1, <2>2, <2>3, <2>4 DEF NoRepeats, TwoIds
<1>2. <<>> \in NoRepeats /\ Plain!ListIds(<<>>) = {}
  BY DEF NoRepeats, Plain!ListIds
<1> QED
  BY <1>1, <1>2

LEMMA PlainEmpty == \A list \in NoRepeats : Plain!ListIds(list) = {} => list = <<>>
  BY DEF NoRepeats, Plain!ListIds

(* Every step is a join, with the empty list when a unit is created or
   reset, or leaves the indexes alone.                                     *)
LEMMA PlainKinds ==
    ASSUME PlainUnits, Plain!UnitsNext
    PROVE  PlainRest \/ \E k \in Keys, list \in NoRepeats : PlainJoin(k, list)
<1> USE DEF Plain!indexVars, Plain!orphanVars, Plain!notifyVars, Plain!storeVars, Plain!unitVars
<1>1. ASSUME NEW k \in Keys, Plain!CreateUnit(k) PROVE PlainJoin(k, <<>>)
  <2>1. membershipIds[k] = {} /\ Plain!ListIds(ownIds[k]) = {}
    BY <1>1 DEF PlainUnits, Plain!CreateUnit
  <2>2. ownIds[k] = <<>>
    BY <2>1, PlainEmpty DEF PlainUnits
  <2>3. ownIds' = [ownIds EXCEPT ![k] = <<>>]
    BY <1>1, <2>2 DEF Plain!CreateUnit, PlainUnits
  <2>4. membershipIds[k] \ {} = membershipIds[k] /\ {} \ membershipIds[k] = {}
    OBVIOUS
  <2> QED
    BY <1>1, <2>3, <2>4, PlainListIds DEF Plain!CreateUnit, Plain!RegisterUnit, PlainJoin
<1>2. ASSUME NEW k \in Keys, NEW list \in NoRepeats, NEW duplicates \in BOOLEAN,
             NEW values \in [Plain!ListIds(list) -> Values],
             NEW touched \in SUBSET Plain!ListIds(list), NEW set,
             Plain!UpsertForUnit(k, list, values, touched, duplicates, set)
      PROVE  PlainRest
  <2>1. DOMAIN values = Plain!ListIds(list)
    OBVIOUS
  <2>2. /\ entitiesById' = [i \in TwoIds |-> IF i \in Plain!ListIds(list) THEN values[i]
                                             ELSE Plain!SweptEntities[i]]
        /\ orphanExpiresAtById' = Plain!SweptExpiries
        /\ UNCHANGED <<registered, membershipIds, unitKeysById, ownIds>>
    BY <1>2, <2>1 DEF Plain!UpsertForUnit, Plain!UpsertMany
  <2>3. call'.unit \in Keys /\ call'.ids \in NoRepeats
    BY <1>2 DEF Plain!UpsertForUnit
  <2>4. \A i \in TwoIds : ~Plain!Vanishes(i)
    BY <2>2, PlainSweeps, StoreAssumption DEF Plain!Vanishes
  <2> QED
    BY <2>2, <2>3, <2>4, PlainSweeps DEF PlainRest
<1>3. ASSUME Plain!JoinUnit
      PROVE  PlainRest \/ \E k \in Keys, list \in NoRepeats : PlainJoin(k, list)
  <2> DEFINE k    == call.unit
             list == call.ids
             kept == Plain!LooksUnchanged(k, Plain!ListIds(list), Len(list))
             next == IF kept THEN membershipIds[k] ELSE Plain!ListIds(list)
  <2>1. k \in Keys /\ list \in NoRepeats /\ call' = NoCall /\ ownIds' = [ownIds EXCEPT ![k] = list]
    BY <1>3 DEF Plain!JoinUnit, Plain!Idle, PlainUnits, Idle
  <2>2. CASE Plain!LooksJoined(k, list)
    <3>1. UNCHANGED Plain!storeVars /\ ownIds' = ownIds
      BY <1>3, <2>1, <2>2 DEF Plain!JoinUnit, Plain!LooksJoined, PlainUnits
    <3>2. \A i \in TwoIds : ~Plain!Vanishes(i)
      BY <3>1 DEF Plain!Vanishes
    <3> QED
      BY <2>1, <3>1, <3>2 DEF PlainRest, PlainUnits
  <2>3. CASE ~Plain!LooksJoined(k, list)
    <3>1. Plain!SetUnitMembership(k, Plain!ListIds(list), Len(list))
      BY <1>3, <2>3 DEF Plain!JoinUnit
    <3>2. next = Plain!ListIds(list)
      BY <2>1, PlainKept
    <3>3. PlainJoin(k, list)
      BY <2>1, <3>1, <3>2 DEF Plain!SetUnitMembership, PlainJoin
    <3> QED
      BY <2>1, <3>3
  <2> QED
    BY <2>2, <2>3
<1>4. ASSUME NEW k, NEW ids, Plain!DeleteForUnit(k, ids) PROVE FALSE
  BY <1>4 DEF Plain!DeleteForUnit
<1>5. ASSUME NEW k \in Keys, Plain!Reset(k)
      PROVE  PlainRest \/ PlainJoin(k, <<>>)
  <2>1. Plain!ClearUnitMembership(k) /\ ownIds' = [ownIds EXCEPT ![k] = <<>>] /\ call' = call
    BY <1>5 DEF Plain!Reset
  <2>2. CASE membershipIds[k] = {}
    <3>1. ownIds' = ownIds
      <4>1. ownIds[k] = <<>>
        BY <2>2, PlainEmpty DEF PlainUnits
      <4> QED
        BY <2>1, <4>1 DEF PlainUnits
    <3>2. membershipIds' = membershipIds
      BY <2>1, <2>2 DEF Plain!ClearUnitMembership, PlainUnits
    <3>3. UNCHANGED <<entitiesById, unitKeysById, orphanExpiresAtById, registered>>
      BY <2>1, <2>2 DEF Plain!ClearUnitMembership, Plain!LetGo
    <3>4. \A i \in TwoIds : ~Plain!Vanishes(i)
      BY <3>3 DEF Plain!Vanishes
    <3> QED
      BY <2>1, <3>1, <3>2, <3>3, <3>4 DEF PlainRest, PlainUnits
  <2>3. CASE membershipIds[k] # {}
    <3>1. membershipIds[k] \ {} = membershipIds[k] /\ {} \ membershipIds[k] = {}
      OBVIOUS
    <3> QED
      BY <2>1, <2>3, <3>1, PlainListIds DEF Plain!ClearUnitMembership, Plain!LetGo, PlainJoin
  <2> QED
    BY <2>2, <2>3
<1>6. ASSUME NEW k \in Keys, NEW cleanup \in BOOLEAN,
             Plain!GetValue(k) \/ Plain!GetSnapshot(k) \/ Plain!RunSettles(k, cleanup)
      PROVE  PlainRest
  <2>1. UNCHANGED Plain!storeVars /\ ownIds' = ownIds /\ call' = call
    BY <1>6 DEF Plain!GetValue, Plain!GetSnapshot, Plain!RunSettles
  <2> QED
    BY <2>1 DEF PlainRest, PlainUnits, Plain!Vanishes
<1>7. Plain!Flush \/ Plain!TickIdle => PlainRest
  BY DEF Plain!Flush, Plain!TickIdle, Plain!FlushDirtyUnits, Plain!Tick, PlainRest, PlainUnits,
     Plain!Vanishes
<1>8. ASSUME Plain!SweepTimer PROVE PlainRest
  <2>1. /\ entitiesById' = Plain!Without(entitiesById, Plain!Unreferenced(Plain!Expired), NoEntity)
        /\ orphanExpiresAtById' = Plain!Without(orphanExpiresAtById, Plain!Expired, Plain!NoTime)
        /\ UNCHANGED <<registered, membershipIds, unitKeysById, ownIds, call>>
    BY <1>8 DEF Plain!SweepTimer, Plain!SweepTimerFires
  <2>2. \A i \in TwoIds : ~Plain!Vanishes(i)
    BY <2>1, PlainSweeps DEF Plain!Vanishes, Plain!Without, Plain!Unreferenced
  <2>3. Plain!Scheduled(orphanExpiresAtById') = {}
    BY <2>1 DEF PlainUnits, Plain!Scheduled, Plain!Without
  <2> QED
    BY <2>1, <2>2, <2>3 DEF PlainRest
<1>9. Plain!RunContextCall
          => PlainRest \/ \E k \in Keys, list \in NoRepeats : PlainJoin(k, list)
  BY <1>2, <1>3, <1>4, <1>5, PlainListIds DEF Plain!RunContextCall, Plain!ApplyRunResult
<1> QED
  BY <1>1, <1>6, <1>7, <1>8, <1>9, PlainListIds DEF Plain!UnitsNext

LEMMA PlainStep ==
    ASSUME PlainUnits, Plain!UnitsNext
    PROVE  /\ PlainUnits'
           /\ \A i \in TwoIds : Plain!Vanishes(i)
                  => \E k \in Keys : unitKeysById[i] = {k} /\ i \notin membershipIds'[k]
<1>1. CASE PlainRest
  BY <1>1 DEF PlainRest, PlainUnits, Idle
<1>2. ASSUME NEW k \in Keys, NEW list \in NoRepeats, PlainJoin(k, list)
      PROVE  /\ PlainUnits'
             /\ \A i \in TwoIds : Plain!Vanishes(i)
                    => unitKeysById[i] = {k} /\ i \notin membershipIds'[k]
  <2> DEFINE next == Plain!ListIds(list)
  <2>1. next \in SUBSET TwoIds
    BY PlainListIds
  <2>2. /\ unitKeysById' \in [TwoIds -> SUBSET Keys]
        /\ \A j \in Keys, i \in TwoIds : i \in membershipIds'[j] <=> j \in unitKeysById'[i]
        /\ Plain!Scheduled(orphanExpiresAtById') = {}
        /\ \A i \in TwoIds : Plain!Vanishes(i) => unitKeysById[i] = {k} /\ i \notin membershipIds'[k]
    BY <1>2, <2>1, PlainMove DEF PlainJoin
  <2>3. /\ membershipIds' \in [Keys -> SUBSET TwoIds]
        /\ ownIds' \in [Keys -> NoRepeats]
        /\ \A j \in Keys \ registered' : membershipIds'[j] = {}
        /\ ~Idle' => call'.unit \in Keys /\ call'.ids \in NoRepeats
    BY <1>2, <2>1 DEF PlainJoin, PlainUnits, Idle
  <2>4. \A j \in Keys : membershipIds'[j] = Plain!ListIds(ownIds'[j])
    BY <1>2 DEF PlainJoin, PlainUnits
  <2> QED
    BY <2>2, <2>3, <2>4 DEF PlainUnits
<1> QED
  BY <1>1, <1>2, PlainKinds DEF PlainRest
LEMMA PlainInit == MCInit => PlainInv
<1> SUFFICES ASSUME MCInit, part = "plain" PROVE PlainUnits
  BY DEF PlainInv
<1>1. Plain!UnitsInit
  BY DEF MCInit
<1>2. /\ registered = {} /\ call = NoCall
      /\ membershipIds = [k \in Keys |-> {}] /\ unitKeysById = [i \in TwoIds |-> {}]
      /\ orphanExpiresAtById = [i \in TwoIds |-> Plain!NoTime]
      /\ ownIds = [k \in Keys |-> <<>>]
  BY <1>1 DEF Plain!UnitsInit, Plain!StoreInit
<1>3. Plain!Scheduled(orphanExpiresAtById) = {}
  BY <1>2 DEF Plain!Scheduled
<1> QED
  BY <1>2, <1>3, PlainListIds DEF PlainUnits, Idle

LEMMA PlainInvStep == PlainInv /\ [MCNext]_<<vars, part>> => PlainInv'
<1> SUFFICES ASSUME PlainInv, [MCNext]_<<vars, part>>, part' = "plain" PROVE PlainUnits'
  BY DEF PlainInv
<1>1. PlainUnits /\ (Plain!UnitsNext \/ UNCHANGED vars)
  BY DEF MCNext, PlainInv
<1>2. CASE UNCHANGED vars
  BY <1>1, <1>2 DEF vars, storeVars, unitVars, PlainUnits, Idle
<1> QED
  BY <1>1, <1>2, PlainStep

(* For every set of units and values: after any interleaving of runs of
   several units over the two entities, the store has a unit as a member of
   nothing but what its list, replaced at will, has now.                   *)
THEOREM ListsAreAlwaysReplaced == MCSpec => []ListsAreReplaced
<1>1. PlainInv => ListsAreReplaced
  BY DEF PlainInv, PlainUnits, ListsAreReplaced, Plain!NothingBeyondTheList
<1> QED
  BY <1>1, PlainInit, PlainInvStep, PTL DEF MCSpec

-----------------------------------------------------------------------------
(* The store alone, without timers *)

(* With a retention no release drops an entity: only the sweep of a call
   does, of what has expired, or a delete.                                 *)
LEMMA InlineRetained ==
    ASSUME Inline!Next
    PROVE  Inline!Retained
<1> USE DEF Inline!indexVars, Inline!orphanVars, Inline!notifyVars
<1> SUFFICES ASSUME NEW i \in TwoIds, Inline!Vanishes(i)
             PROVE  \/ \E ids \in SUBSET TwoIds :
                           i \in ids /\ (Inline!DeleteOne(i) \/ Inline!DeleteMany(ids))
                    \/ i \in Inline!Expired
  BY DEF Inline!Retained
<1>1. Inline!SweptEntities[i] = NoEntity => i \in Inline!Expired
  BY DEF Inline!SweptEntities, Inline!Without, Inline!Unreferenced, Inline!Swept, Inline!Vanishes
<1>2. ASSUME NEW k, NEW removed, NEW added, Inline!MoveUnitKey(k, removed, added)
      PROVE  i \in Inline!Expired
  BY <1>1, <1>2 DEF Inline!MoveUnitKey, Inline!OrphansDropped, Inline!Vanishes
<1>3. ASSUME NEW k, Inline!LetGo(k) PROVE i \in Inline!Expired
  BY <1>2, <1>3 DEF Inline!LetGo, Inline!Vanishes
<1>4. ASSUME NEW k, \/ Inline!RegisterUnit(k) \/ Inline!UnregisterUnit(k)
                    \/ Inline!ClearUnitMembership(k)
                    \/ \E ids, length : Inline!SetUnitMembership(k, ids, length)
      PROVE  i \in Inline!Expired
  BY <1>2, <1>3, <1>4 DEF Inline!RegisterUnit, Inline!UnregisterUnit, Inline!ClearUnitMembership,
     Inline!SetUnitMembership
<1>5. ASSUME NEW m \in TwoIds, NEW given \in Values, Inline!UpsertOne(m, given)
      PROVE  i \in Inline!Expired
  <2>1. entitiesById' = [Inline!SweptEntities EXCEPT ![m] = given]
    BY <1>5 DEF Inline!UpsertOne
  <2>2. DOMAIN Inline!SweptEntities = TwoIds
    BY DEF Inline!SweptEntities, Inline!Without
  <2>3. entitiesById'[i] = IF i = m THEN given ELSE Inline!SweptEntities[i]
    BY <2>1, <2>2
  <2> QED
    BY <1>1, <2>3, StoreAssumption DEF Inline!Vanishes
<1>6. ASSUME NEW ids \in SUBSET TwoIds, NEW values \in [ids -> Values], NEW touched, NEW duplicates,
             Inline!UpsertMany(values, touched, duplicates)
      PROVE  i \in Inline!Expired
  <2>1. DOMAIN values = ids
    OBVIOUS
  <2>2. entitiesById'[i] = IF i \in ids THEN values[i] ELSE Inline!SweptEntities[i]
    BY <1>6, <2>1 DEF Inline!UpsertMany
  <2> QED
    BY <1>1, <2>2, StoreAssumption DEF Inline!Vanishes
<1>7. ASSUME NEW ids, NEW batch, Inline!Delete(ids, batch)
      PROVE  i \in ids \/ i \in Inline!Expired
  BY <1>1, <1>7 DEF Inline!Delete, Inline!Existing, Inline!Without, Inline!Vanishes
<1>8. ASSUME NEW m \in TwoIds, Inline!DeleteOne(m)
      PROVE  i \in Inline!Expired \/ Inline!DeleteOne(i)
  <2>1. i \in {m} \/ i \in Inline!Expired
    BY <1>7, <1>8 DEF Inline!DeleteOne
  <2> QED
    BY <1>8, <2>1
<1>9. ASSUME NEW ids \in SUBSET TwoIds, Inline!DeleteMany(ids)
      PROVE  i \in Inline!Expired \/ i \in ids
  BY <1>7, <1>9 DEF Inline!DeleteMany
<1>10. Inline!ReadSweeps => i \in Inline!Expired
  BY <1>1 DEF Inline!ReadSweeps, Inline!Vanishes
<1>11. Inline!SweepTimerFires => i \in Inline!Expired
  BY DEF Inline!SweepTimerFires, Inline!Without, Inline!Unreferenced, Inline!Vanishes
<1>12. ~Inline!FlushDirtyUnits /\ ~Inline!Tick
  BY DEF Inline!FlushDirtyUnits, Inline!Tick, Inline!Vanishes
<1>13. {i} \in SUBSET TwoIds
  OBVIOUS
<1> QED
  BY <1>4, <1>5, <1>6, <1>8, <1>9, <1>10, <1>11, <1>12, <1>13 DEF Inline!Next, Inline!Call

(* An entity that a unit lists before and after a step is not dropped by it,
   however many other units let go of it in whatever order; and without
   timers the sweep inside the calls drops nothing before its time.        *)
THEOREM EntitiesAlwaysStay == MCSpec => EntitiesStay
<1>1. ASSUME PlainInv, [MCNext]_<<vars, part>>
      PROVE  [/\ part = "plain" => Plain!ListedStay
              /\ part = "inline" => Inline!Retained]_vars
  <2>1. CASE UNCHANGED vars
    BY <2>1
  <2>2. ASSUME part = "plain", Plain!UnitsNext PROVE Plain!ListedStay
    <3> SUFFICES ASSUME NEW i \in TwoIds, NEW j \in Keys, Plain!Vanishes(i),
                        i \in Plain!ListIds(ownIds[j]), i \in Plain!ListIds(ownIds'[j])
                 PROVE  FALSE
      BY DEF Plain!ListedStay
    <3>1. PlainUnits /\ PlainUnits'
      BY <1>1, <2>2, PlainStep DEF PlainInv
    <3>2. PICK k \in Keys : unitKeysById[i] = {k} /\ i \notin membershipIds'[k]
      BY <2>2, <3>1, PlainStep
    <3>3. i \in membershipIds[j] /\ i \in membershipIds'[j]
      BY <3>1 DEF PlainUnits
    <3>4. j \in unitKeysById[i]
      BY <3>1, <3>3 DEF PlainUnits
    <3> QED
      BY <3>2, <3>3, <3>4
  <2>3. ASSUME part = "inline", Inline!Next PROVE Inline!Retained
    BY <2>3, InlineRetained
  <2> QED
    BY <1>1, <2>1, <2>2, <2>3 DEF MCNext
<1> QED
  BY <1>1, PlainInit, PlainInvStep, PTL DEF MCSpec, EntitiesStay

-----------------------------------------------------------------------------
(* The store under its units *)

(* The store as its callers may use it, whatever the clock's bound. *)
StoreUse == Init /\ [][StoreStep]_storeVars

StorePromises == TypeOK /\ IndexesAgree /\ OnlyOrphansExpire /\ SweepIsArmed /\ NoSilentChange

MembersKept ==
    [][HasTimeoutRuntime => \A i \in Ids : Vanishes(i) => \A k \in Keys : i \notin membershipIds'[k]]_storeVars

LEMMA UnitsAlways == UnitsSpec => []UnitsInv
<1>1. UnitsInit => UnitsInv
  <2> SUFFICES ASSUME UnitsInit PROVE UnitsInv
    OBVIOUS
  <2>1. StoreInv
    BY InitType DEF UnitsInit, StoreInit, StoreInv, IndexesAgree, SilenceInv, NoSilentChange
  <2>2. <<>> \in Seq(Ids)
    OBVIOUS
  <2>3. UnitTypes
    BY <2>2 DEF UnitsInit, UnitTypes, Idle
  <2>4. KnownInv
    BY DEF UnitsInit, StoreInit, KnownInv
  <2> QED
    BY <2>1, <2>3, <2>4 DEF UnitsInv
<1>2. ASSUME UnitsInv, UNCHANGED vars PROVE UnitsInv'
  BY <1>2 DEF vars, storeVars, unitVars, UnitsInv, StoreInv, TypeOK, IndexesAgree,
     SilenceInv, NoSilentChange, UnitTypes, CallShape, Idle, KnownInv, Known, Indexed, Current,
     ModeValue
<1>3. UnitsInv /\ [UnitsNext]_vars => UnitsInv'
  BY <1>2, UnitsStep
<1> QED
  BY <1>1, <1>3, PTL DEF UnitsSpec

(* The units implement a store and its callers: they start with an empty one,
   and each step of theirs, between which others may come also in the middle
   of a write of a run context, is one operation of the store, its timer, its
   microtask or nothing to it (entityRunContextMethods.ts and
   entityMembership.ts over createEntityStore).                            *)
THEOREM UnitsUseTheStore == UnitsSpec => StoreUse
<1>1. UnitsInit => Init
  BY DEF UnitsInit, Init
<1>2. UnitsInv /\ [UnitsNext]_vars => [StoreStep]_storeVars
  <2> SUFFICES ASSUME UnitsInv, [UnitsNext]_vars PROVE [StoreStep]_storeVars
    OBVIOUS
  <2>1. CASE UNCHANGED vars
    BY <2>1 DEF vars
  <2>2. CASE UnitsNext
    BY <2>2, UnitsStepTheStore DEF UnitsInv, StoreInv
  <2> QED
    BY <2>1, <2>2
<1> QED
  BY <1>1, <1>2, UnitsAlways, PTL DEF UnitsSpec, StoreUse

(* So what the store promises alone it keeps under its units: its indexes
   agree, only orphans expire and the timer comes to them, every unit hears
   of a change or waits for the microtask, nothing is dropped before its
   retention is over, and where there are timers no member is.             *)
THEOREM TheStoreHoldsUnderUnits ==
    UnitsSpec => []StorePromises /\ RetentionHonoured /\ MembersKept
<1> DEFINE Inv == TypeOK /\ IndexesAgree /\ SilenceInv /\ OnlyOrphansExpire /\ SweepIsArmed
<1>1. Init => Inv
  BY InitType DEF Init, StoreInit, IndexesAgree, SilenceInv, NoSilentChange, OnlyOrphansExpire, SweepIsArmed, Scheduled
<1>2. SweepIsArmed <=> (HasTimeoutRuntime => Covers(orphanNextSweepAt, orphanExpiresAtById))
  BY DEF SweepIsArmed, Covers
<1>3. TypeOK /\ SweepIsArmed /\ [StoreStep]_storeVars => SweepIsArmed'
  BY ArmedStep DEF SweepIsArmed, Covers
<1>4. Inv /\ [StoreStep]_storeVars => Inv'
  BY <1>3, TypeStep, IndexesStep, NotifyStep, OrphansStep
<1>5. Inv => StorePromises
  BY DEF StorePromises, SilenceInv
<1>6. Inv /\ [StoreStep]_storeVars => [Retained]_storeVars
  BY RetainedStep
<1>7. Inv /\ [StoreStep]_storeVars
         => [HasTimeoutRuntime => \A i \in Ids : Vanishes(i) => \A k \in Keys : i \notin membershipIds'[k]]_storeVars
  BY MembersStep
<1> QED
  BY <1>1, <1>4, <1>5, <1>6, <1>7, UnitsUseTheStore, PTL DEF StoreUse, RetentionHonoured, MembersKept

=============================================================================
