--------------------------- MODULE MCEntityUnits ---------------------------
(***************************************************************************)
(* Instances of EntityUnits, and of the store alone on a platform without  *)
(* timers.  Which one is chosen once, by the variable part:                *)
(*  - "shared": a source and a stream, to which somebody listens, share    *)
(*    one entity that either may delete and that expires between calls;    *)
(*  - "plain":  the same over two entities that nobody deletes, in lists   *)
(*    without repeats, and with no retention;                              *)
(*  - "inline": every call of the store sweeps first, and nothing is told  *)
(*    in batches, as in an entity for which nothing is configured.         *)
(***************************************************************************)
EXTENDS EntityUnits, TLC

CONSTANTS i1, i2, k1, k2, Parts

VARIABLE part

TwoIds      == {i1, i2}
OneId       == {i1}
TwoKeys     == {k1, k2}
OnlyK1      == {k1}
OnlyK2      == {k2}
NoRepeats   == {<<>>, <<i1>>, <<i2>>, <<i1, i2>>}
OneIdLists  == {<<>>, <<i1>>, <<i1, i1>>}

Plain == INSTANCE EntityUnits
    WITH Ids <- TwoIds, Lists <- NoRepeats, Listening <- {}, MayDelete <- FALSE,
         OrphanRetentionTtl <- 0, MaxTime <- 0

Choice == INSTANCE ReadWrite
Default == Choice!EntityStrategies([batch |-> Choice!Unset, subview |-> Choice!Unset], "none")

Inline == INSTANCE EntityStore
    WITH Ids <- TwoIds, HasTimeoutRuntime <- FALSE,
         BatchOne <- Default.updateOne.batch, BatchMany <- Default.updateMany.batch,
         OrphanRetentionTtl <- 1, MaxTime <- 3

AllParts   == {"shared", "plain", "inline"}
OnlyShared == {"shared"}

MCInit ==
    /\ part \in Parts
    /\ \/ part = "shared" /\ UnitsInit
       \/ part = "plain" /\ Plain!UnitsInit
       \/ /\ part = "inline" /\ Inline!Init
          /\ ownIds = [k \in Keys |-> <<>>] /\ hasValue = [k \in Keys |-> FALSE]
          /\ value = ownIds /\ heard = ownIds
          /\ dirty = {} /\ pending = {} /\ call = NoCall

MCNext ==
    /\ \/ part = "shared" /\ UnitsNext
       \/ part = "plain" /\ Plain!UnitsNext
       \/ part = "inline" /\ Inline!Next /\ UNCHANGED <<unitVars, call>>
    /\ UNCHANGED part

MCSpec == MCInit /\ [][MCNext]_<<vars, part>>

ValueSymmetry == Permutations(Values)

-----------------------------------------------------------------------------
(* A unit never shows an old value without a mark that says so (EntityUnits). *)
StalenessIsKnown == part = "shared" => NoUnknownStaleness

(* Subscribers are given the value a run ended with (EntityUnits). *)
SettledRunIsHeard == [][part = "shared" => SettledHeard]_vars

(* Replacing a list lets go of everything else (EntityUnits). *)
ListsAreReplaced == part = "plain" => Plain!NothingBeyondTheList

(* An entity a unit lists does not vanish with another unit's release, nor,
   on a platform without timers, one before its retention is over
   (EntityUnits, EntityStore).                                             *)
EntitiesStay ==
    [][/\ part = "plain" => Plain!ListedStay
       /\ part = "inline" => Inline!Retained]_vars
=============================================================================
