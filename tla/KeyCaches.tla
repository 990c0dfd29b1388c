----------------------------- MODULE KeyCaches -----------------------------
(***************************************************************************)
(* The limited caches of packages/sync/src/utils: of units by identity     *)
(* (createIdentityUnitCache.ts), of serialised keys by primitive input     *)
(* (serializedKeyCache.ts), of run contexts by payload, primitive or       *)
(* object (runContextEntryCache.ts), and of instances by dependencies      *)
(* (dependencyCache.ts).  Which one is modelled is chosen once.            *)
(*                                                                         *)
(* Most keep the entries in one map and their order in another, and evict  *)
(* the first of the order; the dependency cache uses the order of the map  *)
(* itself; run contexts of objects are kept in two slots.  Keys of units   *)
(* and dependencies are strings; serialised keys and run contexts are kept *)
(* by a payload, which may be undefined.                                   *)
(***************************************************************************)
EXTENDS Naturals, Sequences, SequencesExt, FiniteSets

CONSTANTS Keys, Limit, None, UndefinedKey

(* What the constants may be; the instances are checked against it. *)
KeyCachesConstants == Limit \in Nat \ {0} /\ None \notin Keys

VARIABLES
    cache,       \* which cache it is
    entries,     \* the keys that have an entry
    order,       \* the order of use, the newest last
    slots,       \* latestObjectEntry and previousObjectEntry
    recent       \* history: what RecentKeys holds after the same calls

keyVars == <<cache, entries, order, slots, recent>>

R == INSTANCE RecentKeys

Caches == {"identity", "serialized", "primitive", "object", "dependency"}

KeysInit ==
    /\ cache \in Caches /\ (cache = "object" => Limit = 2)
    /\ entries = {} /\ order = <<>>
    /\ slots = [latest |-> None, previous |-> None]
    /\ R!Init

(* Map.delete; a map has a key once. *)
Without(s, k) == IF k \in ToSet(s) THEN RemoveAt(s, CHOOSE i \in DOMAIN s : s[i] = k) ELSE s

(* Mutant: a hit does not count as a use. *)
TouchNothing(k) == k \in entries /\ UNCHANGED <<order, entries>>

(* The key has an entry: it becomes the newest. *)
Touch(k) ==
    /\ k \in entries
    /\ order' = Append(Without(order, k), k)
    /\ UNCHANGED entries

(* It has none: an entry is made, and the first of the order goes when there
   are too many; undefined is taken for an order that is empty, so nothing
   goes when the payload undefined is the first.                           *)
Create(k) ==
    /\ k \notin entries
    /\ LET grown == Append(order, k) IN
       IF Cardinality(entries) + 1 > Limit /\ Head(grown) # UndefinedKey
       THEN order' = Tail(grown) /\ entries' = (entries \cup {k}) \ {Head(grown)}
       ELSE order' = grown       /\ entries' = entries \cup {k}

(* A third object takes the place of the one used longest ago. *)
GetSlot(k) ==
    slots' = IF slots.latest = k THEN slots ELSE [latest |-> k, previous |-> slots.latest]

(* getOrCreate; for units by identity get, and set when there was none. *)
GetOrCreate(k) ==
    /\ k = UndefinedKey => cache \in {"serialized", "primitive"}
    /\ IF cache = "object"
       THEN GetSlot(k) /\ UNCHANGED <<entries, order>>
       ELSE (Touch(k) \/ Create(k)) /\ UNCHANGED slots
    /\ R!Use(k) /\ UNCHANGED cache

(* delete *)
Delete(k) ==
    /\ cache \in {"identity", "dependency"}
    /\ entries' = entries \ {k}
    /\ order' = Without(order, k)
    /\ R!Forget(k) /\ UNCHANGED <<cache, slots>>

(* clear, and clearPrimary of dependencies *)
Clear ==
    /\ entries' = {} /\ order' = <<>>
    /\ slots' = [latest |-> None, previous |-> None]
    /\ R!ForgetAll /\ UNCHANGED cache

KeysNext == (\E k \in Keys : GetOrCreate(k) \/ Delete(k)) \/ Clear

-----------------------------------------------------------------------------
KeysTypeOK ==
    /\ cache \in Caches /\ entries \subseteq Keys
    /\ entries = ToSet(order) /\ IsInjective(order)
    /\ slots \in [latest : Keys \cup {None}, previous : Keys \cup {None}]

Kept(slot) == IF slot = None THEN <<>> ELSE <<slot>>

(* Every one of the caches holds the keys used last, as many as its limit,
   whatever the order of hits, misses and removals (RecentKeys).  It holds no
   others, unless the payload undefined has an entry: that is never evicted,
   and while it is the first of the order nothing else is.                 *)
HoldsWhatWasUsed ==
    recent = IF cache = "object" THEN Kept(slots.previous) \o Kept(slots.latest) ELSE R!LastOf(order, Limit)
HoldsRecentKeys ==
    /\ HoldsWhatWasUsed /\ Len(recent) <= Limit
    /\ UndefinedKey \notin entries => Len(order) <= Limit
=============================================================================
