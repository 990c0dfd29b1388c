------------------------- MODULE SourceCacheIndex -------------------------
(***************************************************************************)
(* The records a source keeps in the cache storage, one per unit, and the  *)
(* index of the records used last by which their number is limited         *)
(* (packages/sync/src/source/source.ts, lruMaxEntries).                    *)
(*                                                                         *)
(* The index is one item of the storage that all units of the source       *)
(* share, but each unit reads it once, when it first needs it, and from    *)
(* then on writes its own copy.  Lists of keys have the newest last, as    *)
(* cacheLruKeyOrderMap does (the stored item is its reverse).  The storage *)
(* answers; one that is disabled is the matter of CacheStorage.            *)
(***************************************************************************)
EXTENDS Naturals, Sequences, SequencesExt, FiniteSets

CONSTANTS
    Units,          \* the units of one source; a unit names its own record
    MaxEntries,     \* cacheLruMaxEntries
    MaxSessions     \* bound: starts of the application

(* What the constants may be; the instances are checked against it. *)
IndexConstants == MaxEntries \in Nat \ {0} /\ MaxSessions \in Nat \ {0}

VARIABLES
    index,      \* the stored item: the keys of the records, the newest last
    records,    \* per unit: its record in the storage
    copies,     \* per unit: cacheLruLoaded, and cacheLruKeyOrderMap
    hydrated,   \* the units that have taken their value from their record
    sessions,   \* starts of the application
    outdated    \* history: a unit has used a copy that was not the index

indexVars == <<index, records, copies, hydrated, sessions, outdated>>

NotLoaded == [loaded |-> FALSE, order |-> <<>>]
Loaded(s) == [loaded |-> TRUE, order |-> s]

(* loadCacheLruState *)
Copy(u) == IF copies[u].loaded THEN copies[u].order ELSE index

Without(s, u) == IF u \in ToSet(s) THEN RemoveAt(s, CHOOSE i \in DOMAIN s : s[i] = u) ELSE s   \* Map.delete
Newest(s, u)  == s # <<>> /\ Last(s) = u

Uses(u, order) ==
    /\ copies' = [copies EXCEPT ![u] = Loaded(order)]
    /\ outdated' = (outdated \/ Copy(u) # index)

(* Mutant: the list may grow one longer. *)
TouchedLate(u) ==
    LET moved == Append(Without(Copy(u), u), u)
        grown == u \notin ToSet(Copy(u)) /\ Len(moved) > MaxEntries + 1
    IN IF grown THEN Tail(moved) ELSE moved

(* touchCacheLruKey: the unit's key becomes the newest of the list, and when
   the list has grown too long the record of the oldest key goes.  A unit
   that is the newest of its own copy writes nothing.                      *)
Touched(u) ==
    LET moved == Append(Without(Copy(u), u), u)
        grown == u \notin ToSet(Copy(u)) /\ Len(moved) > MaxEntries
    IN IF grown THEN Tail(moved) ELSE moved

Evicted(u) == ToSet(Copy(u)) \ ToSet(Touched(u))

Touch(u) ==
    /\ Uses(u, Touched(u))
    /\ index' = IF Newest(Copy(u), u) THEN index ELSE Touched(u)

(* removeCacheLruKey, and the removal of the record *)
Discard(u) ==
    /\ Uses(u, Without(Copy(u), u))
    /\ index' = IF u \in ToSet(Copy(u)) THEN Without(Copy(u), u) ELSE index
    /\ records' = [records EXCEPT ![u] = "none"]

-----------------------------------------------------------------------------
IndexInit ==
    /\ index = <<>> /\ records = [u \in Units |-> "none"]
    /\ copies = [u \in Units |-> NotLoaded]
    /\ hydrated = {} /\ sessions = 1 /\ outdated = FALSE

(* hydrateFromIdentityCache: when the unit is made and before each load
   until it has succeeded.  A record that is too old is removed.           *)
Hydrate(u) ==
    /\ u \notin hydrated /\ records[u] # "none"
    /\ \/ records[u] = "old" /\ Discard(u) /\ UNCHANGED hydrated
       \/ records[u] = "fresh" /\ Touch(u) /\ hydrated' = hydrated \cup {u}
          /\ records' = [k \in Units |-> IF k \in Evicted(u) THEN "none" ELSE records[k]]
    /\ UNCHANGED sessions

(* syncCacheRecord of a unit that has a value *)
Write(u) ==
    /\ Touch(u)
    /\ records' = [k \in Units |-> IF k = u THEN "fresh"
                                     ELSE IF k \in Evicted(u) THEN "none" ELSE records[k]]
    /\ UNCHANGED <<hydrated, sessions>>

(* syncCacheRecord of a unit that has none, after a reset *)
Clear(u) == Discard(u) /\ UNCHANGED <<hydrated, sessions>>

(* The ttl of a record runs out. *)
Age(u) ==
    /\ records[u] = "fresh"
    /\ records' = [records EXCEPT ![u] = "old"]
    /\ UNCHANGED <<index, copies, hydrated, sessions, outdated>>

(* The application starts again, and finds what the storage holds. *)
Restart ==
    /\ sessions < MaxSessions /\ sessions' = sessions + 1
    /\ copies' = [u \in Units |-> NotLoaded] /\ hydrated' = {}
    /\ UNCHANGED <<index, records, outdated>>

IndexNext == (\E u \in Units : Hydrate(u) \/ Write(u) \/ Clear(u) \/ Age(u)) \/ Restart

-----------------------------------------------------------------------------
IndexTypeOK ==
    /\ index \in Seq(Units) /\ records \in [Units -> {"none", "fresh", "old"}]
    /\ copies \in [Units -> [loaded : BOOLEAN, order : Seq(Units)]]
    /\ hydrated \subseteq Units /\ sessions \in 1..MaxSessions /\ outdated \in BOOLEAN

Records == {u \in Units : records[u] # "none"}

(* The limit on the records of a source holds, through restarts, evictions
   and removals, as long as no unit has used a copy that another unit's
   write had made out of date; the list never grows too long by itself.    *)
LimitHeldByCurrentCopies ==
    /\ Len(index) <= MaxEntries /\ IsInjective(index)
    /\ ~outdated => Records = ToSet(index)

(* packages/sync/README.md:350: "source cache uses LRU by default
   (`lruMaxEntries: 256`)": there are not more records than that.          *)
RecordsAreLimited == Cardinality(Records) <= MaxEntries
=============================================================================
