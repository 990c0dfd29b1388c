----------------------------- MODULE LazySource -----------------------------
(***************************************************************************)
(* A source behind its lazy wrapper (packages/sync/src/sourceLazy.ts), as  *)
(* its listeners meet it.  The runs of a source, how they join, overtake   *)
(* one another and are answered from the ttl, are the matter of SourceUnit;*)
(* here a load that has reached the unit runs, writes and settles.         *)
(***************************************************************************)
EXTENDS LazyUnit

VARIABLE loads    \* loads under way in the unit

vars == <<lazyVars, loads>>

TypeOK == LazyTypeOK /\ loads \in 0..MaxCalls

Init == LazyInit /\ loads = 0

(* The unit is created with a value from the cache storage: whoever listens
   already is not told of it.                                              *)
ImportHydrated(v) ==
    /\ unit = "importing" /\ unit' = "resolved"
    /\ attached' = (listeners # {})
    /\ status' = "rehydrated" /\ value' = v /\ member' = TRUE /\ entity' = v
    /\ kept' = [content |-> Snap("rehydrated", v), told |-> FALSE]
    /\ quiet' = TRUE
    /\ UNCHANGED <<asked, calls, listeners, due, heard, loads>>

(* Mutant: the bridge is set up when the load has been handed on. *)
TakeUpQuietly ==
    /\ Resolved /\ asked # <<>> /\ asked' = Tail(asked)
    /\ loads' = loads + 1
    /\ status' = "loading" /\ value' = Read /\ kept' = UnitSnapshot
    /\ UNCHANGED <<unit, calls, listeners, attached, store, heard, quiet>>

(* fetch, for load, refetch and force: the first call that awaits the unit
   reads its snapshot and loads.                                           *)
TakeUp ==
    /\ Resolved /\ asked # <<>> /\ asked' = Tail(asked)
    /\ loads' = loads + 1
    /\ NotifyUnit(UnitSnapshot, IF status \in {"rehydrated", "success"} THEN "refreshing" ELSE "loading", Read)
    /\ UNCHANGED <<unit, calls, listeners, attached, store>>

(* A load that the ttl answers ends at once. *)
TakeUpCached ==
    /\ Resolved /\ asked # <<>> /\ asked' = Tail(asked) /\ status # "idle"
    /\ value' = Read /\ kept' = UnitSnapshot
    /\ UNCHANGED <<unit, calls, listeners, attached, store, status, heard, quiet, loads>>

RunWrites(v) == loads > 0 /\ Writes(v) /\ UNCHANGED loads

(* The run settles, with or without an entity. *)
Settles(s) ==
    /\ loads > 0 /\ loads' = loads - 1
    /\ NotifyUnit(kept, s, Read)
    /\ UNCHANGED <<wrapper, store>>

(* A run that has been overtaken settles without a word. *)
SettlesOvertaken ==
    /\ loads > 1 /\ loads' = loads - 1
    /\ UNCHANGED lazyVars

(* What sourceLazy.ts repeats of the other wrappers: the call and the import,
   the bridge, the snapshot, the listeners.                                *)
Asks     == \E p \in Payloads : Ask(p)
Imports  == Import \/ ImportFails
Bridges  == OnChange
Reads    == GetSnapshot
ListenersChange == \E l \in Listeners : Subscribe(l) \/ Leave(l)

Next ==
    \/ /\ Asks \/ Imports \/ Bridges \/ Reads \/ ListenersChange
          \/ \E v \in Payloads : EntityChanges(v)
       /\ UNCHANGED loads
    \/ \E v \in Payloads : ImportHydrated(v) \/ RunWrites(v)
    \/ TakeUp \/ TakeUpCached \/ SettlesOvertaken
    \/ \E s \in {"success", "error"} : Settles(s)
=============================================================================
