-------------------------- MODULE DeadLetterQueue --------------------------
(***************************************************************************)
(* The dead-letter module (packages/dlq-module/src/index.ts) over the      *)
(* store of the server application (apps/server/src/server.ts): an event   *)
(* the runtime reports as failed is stored with the number of its          *)
(* attempts; a ticker, started by a failure and stopped when nothing is    *)
(* pending, loads the pending events and emits them again, until the       *)
(* attempts are used up and the event stays in the store as failed.        *)
(*                                                                         *)
(* The application's callbacks may be asynchronous: an event that is being *)
(* stored is not in the store yet, and a count or a list that was read is  *)
(* used later.  What emitting an event again does is the business of the   *)
(* module that extends this one: it starts the replays with StartReplays   *)
(* and reports their ends with EndReplay.                                  *)
(***************************************************************************)
EXTENDS Naturals, FiniteSets

CONSTANTS
    Limits,        \* what options.maxAttempts may be
    MaxRejections  \* bound on the rejections of the application's callbacks

ASSUME QueueAssumption == Limits \subseteq Nat \ {0} /\ MaxRejections \in Nat

VARIABLES
    maxAttempts,   \* options.maxAttempts, which never changes
    storing,       \* the stores under way
    stored,        \* dlqEventsById: one event per id
    ticker,        \* the interval timer is running
    tick,          \* where runTick has got to: tickRunning unless "idle"
    ready,         \* what it has counted or loaded
    replaying,     \* the events whose replays it waits for
    rejections,    \* rejections so far
    lost           \* history: the ids of events the store rejected

dlqVars == <<maxAttempts, storing, stored, ticker, tick, ready, replaying, rejections, lost>>

(* countPendingEvents, loadReadyEvents: an event that failed for good is not
   pending.  Mutant: it is.                                                *)
PendingOrFailed == stored

Pending == {e \in stored : e.status # "failed"}
IdsOf(es) == {e.id : e \in es}

DlqInit ==
    /\ maxAttempts \in Limits
    /\ storing = {} /\ stored = {} /\ ticker = FALSE
    /\ tick = "idle" /\ ready = {} /\ replaying = {}
    /\ rejections = 0 /\ lost = {}

-----------------------------------------------------------------------------
(* Mutant: an event may fail once more than it may be tried. *)
BrokenOnceMore(e) ==
    LET n == e.attempts + 1 IN
    [id |-> e.id, attempts |-> n, replayAs |-> e.replayAs, by |-> e.by,
     status |-> IF n > maxAttempts THEN "failed" ELSE e.replayAs]

(* buildBrokenEvent: one attempt more than the context of the event says. *)
Broken(e) ==
    LET n == e.attempts + 1 IN
    [id |-> e.id, attempts |-> n, replayAs |-> e.replayAs, by |-> e.by,
     status |-> IF n >= maxAttempts THEN "failed" ELSE e.replayAs]

(* The onError hook, for every event that is reported in a step: the store
   begins and nobody waits for it, and the ticker runs.                    *)
Report(es) ==
    /\ storing' = storing \cup {Broken(e) : e \in es}
    /\ ticker' = (ticker \/ es # {})

(* Mutant: every store adds an event. *)
StoresAnother(e) ==
    /\ e \in storing
    /\ storing' = storing \ {e}
    /\ stored' = stored \cup {e}
    /\ UNCHANGED <<ticker, tick, ready, replaying, rejections, lost, maxAttempts>>

(* storeBrokenEvent: the newest store of an id replaces the event. *)
Stores(e) ==
    /\ e \in storing
    /\ storing' = storing \ {e}
    /\ stored' = {f \in stored : f.id # e.id} \cup {e}
    /\ UNCHANGED <<ticker, tick, ready, replaying, rejections, lost, maxAttempts>>

StoreRejects(e) ==
    /\ e \in storing /\ rejections < MaxRejections
    /\ storing' = storing \ {e}
    /\ lost' = lost \cup {e.id}
    /\ rejections' = rejections + 1
    /\ UNCHANGED <<stored, ticker, tick, ready, replaying, maxAttempts>>

(* Mutant: a tick does not look whether the last one is over. *)
TickerFiresAnyway ==
    /\ ticker
    /\ tick' = "counting" /\ ready' = Pending
    /\ UNCHANGED <<storing, stored, ticker, replaying, rejections, lost, maxAttempts>>

(* runTick: it counts, it loads, which takes the events out of the store,
   and it starts the replays of what it has loaded.                        *)
TickerFires ==
    /\ ticker /\ tick = "idle"
    /\ tick' = "counting" /\ ready' = Pending
    /\ UNCHANGED <<storing, stored, ticker, replaying, rejections, lost, maxAttempts>>

NothingPending ==
    /\ tick = "counting" /\ ready = {}
    /\ ticker' = FALSE /\ tick' = "idle"
    /\ UNCHANGED <<storing, stored, ready, replaying, rejections, lost, maxAttempts>>

(* Mutant: what was counted is replayed, what is pending now is taken out. *)
LoadCounted ==
    /\ tick = "counting" /\ ready # {}
    /\ tick' = "loading" /\ ready' = ready /\ stored' = stored \ Pending
    /\ UNCHANGED <<storing, ticker, replaying, rejections, lost, maxAttempts>>

Load ==
    /\ tick = "counting" /\ ready # {}
    /\ tick' = "loading" /\ ready' = Pending /\ stored' = stored \ Pending
    /\ UNCHANGED <<storing, ticker, replaying, rejections, lost, maxAttempts>>

CallbackRejects ==
    /\ tick = "counting" /\ rejections < MaxRejections
    /\ tick' = "idle" /\ ready' = {}
    /\ rejections' = rejections + 1
    /\ UNCHANGED <<storing, stored, ticker, replaying, lost, maxAttempts>>

(* What the loading module emits again; the tick is over at once when
   nothing was loaded.                                                     *)
StartReplays ==
    /\ tick = "loading"
    /\ replaying' = ready /\ ready' = {}
    /\ tick' = IF ready = {} THEN "idle" ELSE "replaying"
    /\ UNCHANGED <<stored, rejections, lost, maxAttempts>>

(* The replay of the event of an id has resolved: the last one ends the tick. *)
EndReplay(id) ==
    /\ replaying' = {e \in replaying : e.id # id}
    /\ tick' = IF replaying' = {} THEN "idle" ELSE tick
    /\ UNCHANGED <<stored, ready, rejections, lost, maxAttempts>>

DlqCallbacks ==
    \/ \E e \in storing : Stores(e) \/ StoreRejects(e)
    \/ TickerFires \/ NothingPending \/ Load \/ CallbackRejects

-----------------------------------------------------------------------------
DlqTypeOK ==
    /\ \A e \in storing \cup stored \cup ready :
          e.attempts \in 1..maxAttempts /\ e.status \in {"receiving", "sending", "failed"}
    /\ \A e, f \in stored : e.id = f.id => e = f
    /\ ticker \in BOOLEAN /\ tick \in {"idle", "counting", "loading", "replaying"}
    /\ rejections \in 0..MaxRejections

(* A tick waits for its replays, and only a tick has any. *)
ReplaysHaveATick == replaying # {} <=> tick = "replaying"

(* No event is emitted again once its attempts are used up, and one that may
   be tried again has attempts left.                                       *)
AttemptsEnd ==
    /\ \A e \in storing \cup stored : e.status = "failed" <=> e.attempts >= maxAttempts
    /\ \A e \in ready \cup replaying : e.attempts < maxAttempts

(* The dlq README: "replays events until maxAttempts is reached". *)
PendingIsTicked == Pending # {} /\ tick = "idle" => ticker
=============================================================================
