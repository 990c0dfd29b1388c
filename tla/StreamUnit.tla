----------------------------- MODULE StreamUnit -----------------------------
(***************************************************************************)
(* A stream unit behind its lazy wrapper (packages/sync/src/stream/        *)
(* stream.ts, streamLazy.ts): start, which stops what was started before,  *)
(* the run that may return a cleanup long after, and the two ways a stream *)
(* ends, stop and the last listener's leaving.                             *)
(*                                                                         *)
(* Run r is the one the r-th start began.  A stream has no sequence number *)
(* to make an older run inert: whatever run settles last is shown.         *)
(***************************************************************************)
EXTENDS LazyUnit, FiniteSets

VARIABLES
    streaming,     \* phase of each run
    started,       \* internal.started
    stopCallback,  \* internal.stopCallback: the run it belongs to
    returned,      \* history: the runs that returned a cleanup
    invoked,       \* history: how often the cleanup of a run was invoked
    overlapped     \* history: a run began while another had not settled

streamVars == <<streaming, started, stopCallback, returned, invoked, overlapped>>
vars == <<lazyVars, streamVars>>

Runs  == 1..MaxCalls
NoRun == 0

TypeOK ==
    /\ LazyTypeOK
    /\ streaming \in [Runs -> {"none", "running", "over"}]
    /\ started \in BOOLEAN
    /\ stopCallback \in Runs \cup {NoRun}
    /\ returned \in SUBSET Runs
    /\ invoked \in [Runs -> Nat]
    /\ overlapped \in BOOLEAN

Init ==
    /\ LazyInit
    /\ streaming = [r \in Runs |-> "none"]
    /\ started = FALSE
    /\ stopCallback = NoRun
    /\ returned = {}
    /\ invoked = [r \in Runs |-> 0]
    /\ overlapped = FALSE

Begun   == {r \in Runs : streaming[r] # "none"}
Running == {r \in Runs : streaming[r] = "running"}

(* The cleanup is invoked, if there is one. *)
Cleaned(r) == IF r = NoRun THEN invoked ELSE [invoked EXCEPT ![r] = @ + 1]

-----------------------------------------------------------------------------
(* stop of the unit: the installed cleanup is invoked, once. *)
StopUnit ==
    IF started
    THEN started' = FALSE /\ stopCallback' = NoRun /\ invoked' = Cleaned(stopCallback)
    ELSE UNCHANGED <<started, stopCallback, invoked>>

(* stop as part of start, which starts again at once. *)
StopBeforeStart ==
    IF started
    THEN stopCallback' = NoRun /\ invoked' = Cleaned(stopCallback)
    ELSE UNCHANGED <<stopCallback, invoked>>

(* The first call that awaits the unit gets it: its start begins a run, which
   may throw before it returns a promise.  The unit then stays started, and
   loading.                                                                *)
TakeUpStart(throws) ==
    LET r == Cardinality(Begun) + 1
    IN  /\ Resolved /\ asked # <<>>
        /\ asked' = Tail(asked)
        /\ StopBeforeStart
        /\ started' = TRUE
        /\ streaming' = [streaming EXCEPT ![r] = IF throws THEN "over" ELSE "running"]
        /\ overlapped' = (overlapped \/ Running # {})
        /\ NotifyUnit(UnitSnapshot, "loading", Read)
        /\ UNCHANGED <<unit, calls, listeners, attached, store, returned>>

(* A run writes by its context, which never becomes inert: a subscription
   goes on writing after its run settled, and after stop.                  *)
RunWrites(v) == Begun # {} /\ Writes(v) /\ UNCHANGED streamVars

(* Mutant: the cleanup is installed though the stream was stopped. *)
SucceedsInstalling(r, returns) ==
    /\ r \in Running
    /\ streaming' = [streaming EXCEPT ![r] = "over"]
    /\ returned' = IF returns THEN returned \cup {r} ELSE returned
    /\ stopCallback' = IF returns THEN r ELSE stopCallback
    /\ NotifyUnit(kept, "success", IF returns THEN Read ELSE value)
    /\ UNCHANGED <<wrapper, store, started, invoked, overlapped>>

(* The run settles.  A cleanup it returns is invoked at once if the stream
   was stopped, and else installed over the one that was there.            *)
Succeeds(r, returns) ==
    /\ r \in Running
    /\ streaming' = [streaming EXCEPT ![r] = "over"]
    /\ returned' = IF returns THEN returned \cup {r} ELSE returned
    /\ stopCallback' = IF returns /\ started THEN r ELSE stopCallback
    /\ invoked' = IF returns /\ ~started THEN Cleaned(r) ELSE invoked
    /\ NotifyUnit(kept, "success", IF returns THEN Read ELSE value)
    /\ UNCHANGED <<wrapper, store, started, overlapped>>

Fails(r) ==
    /\ r \in Running
    /\ streaming' = [streaming EXCEPT ![r] = "over"]
    /\ NotifyUnit(kept, "error", value)
    /\ UNCHANGED <<wrapper, store, started, stopCallback, returned, invoked, overlapped>>

(* stop of the wrapper, which tells its listeners itself.  Before the unit
   is there it does nothing.                                               *)
Stop ==
    /\ Resolved
    /\ StopUnit
    /\ value' = Read
    /\ kept' = UnitSnapshot
    /\ Deliver(status, Read)
    /\ UNCHANGED <<wrapper, store, status, quiet, streaming, returned, overlapped>>

(* Mutant: the wrapper forgets its listener and leaves the bridge up. *)
LeaveTheBridge(l) ==
    /\ l \in listeners
    /\ listeners' = listeners \ {l}
    /\ UNCHANGED <<unit, asked, calls, attached, store, shown, streamVars>>

(* A listener unsubscribes; the bridge that comes down stops the stream. *)
Unsubscribe(l) ==
    /\ Leave(l)
    /\ IF Bridging(l) THEN StopUnit ELSE UNCHANGED <<started, stopCallback, invoked>>
    /\ UNCHANGED <<streaming, returned, overlapped>>

-----------------------------------------------------------------------------
TakeUp == \E throws \in BOOLEAN : TakeUpStart(throws)

Next ==
    \/ LazyNext /\ UNCHANGED streamVars
    \/ TakeUp
    \/ \E v \in Payloads : RunWrites(v)
    \/ \E r \in Runs : Fails(r) \/ \E returns \in BOOLEAN : Succeeds(r, returns)
    \/ Stop
    \/ \E l \in Listeners : Unsubscribe(l)

Spec == Init /\ [][Next]_vars

-----------------------------------------------------------------------------
(* Properties *)

(* A cleanup a run returned is held or has been invoked, exactly once, and
   one is held only by a stream that is started, so that a later stop finds
   it.  Runs that overlap give this up: of two that settle while the stream
   is started the later one's cleanup replaces the earlier one's, which is
   never invoked.                                                          *)
StreamCleanups ==
    /\ stopCallback # NoRun => started
    /\ \A r \in Runs :
        LET ends == invoked[r] + (IF stopCallback = r THEN 1 ELSE 0)
        IN  IF r \in returned THEN ends <= 1 /\ (~overlapped => ends = 1) ELSE ends = 0

(* The last listener to leave takes a running stream with it, whether it
   subscribed before or after the unit was there, and nobody else does:
   only it, stop, and a start that replaces the stream end it.             *)
LastOneStops ==
    [][/\ listeners # {} /\ listeners' = {} => ~started'
       /\ listeners' # listeners /\ listeners' # {} => started' = started]_vars
=============================================================================
