----------------------------- MODULE ActionUnit -----------------------------
(***************************************************************************)
(* An action unit behind its lazy wrapper (packages/sync/src/action/       *)
(* action.ts, actionLazy.ts): submits that join a run in flight for the    *)
(* same payload, runs of different payloads that overlap and settle in any *)
(* order, and the sequence number that makes the overtaken ones inert.     *)
(*                                                                         *)
(* Run r is the one with runSequence r.  Runs of one payload share one run *)
(* context, whose gate belongs to the run that was started last.           *)
(***************************************************************************)
EXTENDS LazyUnit, FiniteSets

VARIABLES
    runs,       \* phase and payload of each run, and whether it was tracked
    single,     \* singleInFlightPromise, with its payload
    inFlight,   \* inFlightByPayload
    cleanup,    \* internal.cleanup: the run it belongs to
    cleaned,    \* history: how often the cleanup of a run was invoked
    threw       \* history: a run threw before it returned a promise

actionVars == <<runs, single, inFlight, cleanup, cleaned, threw>>
vars == <<lazyVars, actionVars>>

Runs  == 1..MaxCalls
NoRun == 0

RunOf(ph, p, where) == [phase |-> ph, payload |-> p, tracked |-> where, returns |-> FALSE]
NotSubmitted == RunOf("none", NoContent, "single")

TypeOK ==
    /\ LazyTypeOK
    /\ runs \in [Runs -> [phase : {"none", "running", "settled", "over"},
                          payload : Contents, tracked : {"single", "map"},
                          returns : BOOLEAN]]
    /\ single \in Runs \cup {NoRun}
    /\ inFlight \in [Payloads -> Runs \cup {NoRun}]
    /\ cleanup \in Runs \cup {NoRun}
    /\ cleaned \in [Runs -> Nat]
    /\ threw \in BOOLEAN

Init ==
    /\ LazyInit
    /\ runs = [r \in Runs |-> NotSubmitted]
    /\ single = NoRun
    /\ inFlight = [p \in Payloads |-> NoRun]
    /\ cleanup = NoRun
    /\ cleaned = [r \in Runs |-> 0]
    /\ threw = FALSE

Begun       == {r \in Runs : runs[r].phase # "none"}
Unfinished  == {r \in Runs : runs[r].phase \in {"running", "settled"}}
runSequence == Cardinality(Begun)

(* Mutant: no run is ever overtaken. *)
NeverOvertaken(r) == r \in Begun

IsLatestRun(r) == r \in Begun /\ r = runSequence

(* gate.isLatestRun of the run's context, which runs of its payload share. *)
ActiveContext(r) ==
    \E s \in Begun : runs[s].payload = runs[r].payload /\ IsLatestRun(s)

Cleaned(r) == IF r = NoRun THEN cleaned ELSE [cleaned EXCEPT ![r] = @ + 1]

-----------------------------------------------------------------------------
(* Submits *)

(* The run in flight a submit of the payload joins. *)
InFlightFor(p) ==
    IF single # NoRun /\ runs[single].payload = p THEN single ELSE inFlight[p]

(* The first call that awaits the unit gets it, and its snapshot. *)
Awaited(p) ==
    /\ Resolved /\ asked # <<>>
    /\ p = Head(asked)
    /\ asked' = Tail(asked)
    /\ UNCHANGED <<unit, calls, listeners, attached, store>>

(* A submit that finds a run in flight for its payload returns its promise. *)
JoinRun(p) ==
    /\ Awaited(p)
    /\ InFlightFor(p) # NoRun
    /\ value' = Read
    /\ kept' = UnitSnapshot
    /\ UNCHANGED <<status, heard, quiet, actionVars>>

(* The first run in flight is tracked on its own, the others by payload. *)
StartRun(p) ==
    LET r     == runSequence + 1
        alone == single = NoRun /\ \A q \in Payloads : inFlight[q] = NoRun
    IN  /\ Awaited(p)
        /\ InFlightFor(p) = NoRun
        /\ runs' = [runs EXCEPT ![r] = RunOf("running", p, IF alone THEN "single" ELSE "map")]
        /\ single' = IF alone THEN r ELSE single
        /\ inFlight' = IF alone THEN inFlight ELSE [inFlight EXCEPT ![p] = r]
        /\ NotifyUnit(UnitSnapshot, "loading", Read)
        /\ UNCHANGED <<cleanup, cleaned, threw>>

(* run throws instead of returning a promise: nothing is tracked. *)
RunThrows(p) ==
    /\ Awaited(p)
    /\ InFlightFor(p) = NoRun
    /\ runs' = [runs EXCEPT ![runSequence + 1] = RunOf("over", p, "single")]
    /\ threw' = TRUE
    /\ NotifyUnit(UnitSnapshot, "loading", Read)
    /\ UNCHANGED <<single, inFlight, cleanup, cleaned>>

-----------------------------------------------------------------------------
(* Runs *)

(* A run writes by its context; an overtaken one writes nothing. *)
RunWrites(r, v) ==
    /\ r \in Begun /\ ActiveContext(r)
    /\ v = runs[r].payload
    /\ Writes(v)
    /\ UNCHANGED actionVars

(* then: an overtaken run's cleanup is invoked at once, the latest run's
   replaces the installed one.                                             *)
Fulfil(r, returns) ==
    /\ runs[r].phase = "running"
    /\ runs' = [runs EXCEPT ![r].phase = "settled", ![r].returns = returns]
    /\ cleaned' = IF ~returns THEN cleaned
                  ELSE IF IsLatestRun(r) THEN Cleaned(cleanup) ELSE Cleaned(r)
    /\ cleanup' = IF returns /\ IsLatestRun(r) THEN r ELSE cleanup
    /\ IF IsLatestRun(r) THEN NotifyUnit(kept, "success", IF returns THEN Read ELSE value)
                         ELSE UNCHANGED shown
    /\ UNCHANGED <<wrapper, store, single, inFlight, threw>>

(* catch *)
Fail(r) ==
    /\ runs[r].phase = "running"
    /\ runs' = [runs EXCEPT ![r].phase = "settled"]
    /\ IF IsLatestRun(r) THEN NotifyUnit(kept, "error", value) ELSE UNCHANGED shown
    /\ UNCHANGED <<wrapper, store, single, inFlight, cleanup, cleaned, threw>>

(* Mutant: the slot of the lone run is emptied by whatever run ends. *)
FinishAny(r) ==
    /\ runs[r].phase = "settled"
    /\ runs' = [runs EXCEPT ![r].phase = "over"]
    /\ single' = NoRun
    /\ inFlight' = [inFlight EXCEPT ![runs[r].payload] = NoRun]
    /\ UNCHANGED <<lazyVars, cleanup, cleaned, threw>>

(* finally, a microtask or more later: the tracking ends. *)
Finish(r) ==
    /\ runs[r].phase = "settled"
    /\ runs' = [runs EXCEPT ![r].phase = "over"]
    /\ single' = IF runs[r].tracked = "single" /\ single = r THEN NoRun ELSE single
    /\ inFlight' = IF runs[r].tracked = "map"
                   THEN [inFlight EXCEPT ![runs[r].payload] = NoRun]
                   ELSE inFlight
    /\ UNCHANGED <<lazyVars, cleanup, cleaned, threw>>

(* A listener unsubscribes; the runs go on. *)
Unsubscribe(l) == Leave(l) /\ UNCHANGED actionVars

-----------------------------------------------------------------------------
TakeUp == \E p \in Payloads : JoinRun(p) \/ StartRun(p) \/ RunThrows(p)

Settle(r) == Fail(r) \/ \E returns \in BOOLEAN : Fulfil(r, returns)

(* The call, the import, the bridge and the snapshots of the wrapper. *)
Wrapped == LazyNext /\ UNCHANGED actionVars

Next ==
    \/ Wrapped
    \/ TakeUp
    \/ \E r \in Runs : Settle(r) \/ Finish(r) \/ \E v \in Payloads : RunWrites(r, v)
    \/ \E l \in Listeners : Unsubscribe(l)

Spec == Init /\ [][Next]_vars

-----------------------------------------------------------------------------
(* Properties *)

(* Submits of one payload share one run: no two runs of a payload are in
   flight together, in whatever order runs of other payloads end and free
   the slot of the lone run; and whatever is tracked really is in flight.  *)
OneRunPerPayload ==
    /\ \A r, s \in Unfinished : runs[r].payload = runs[s].payload => r = s
    /\ single # NoRun => single \in Unfinished
    /\ \A p \in Payloads :
          inFlight[p] # NoRun => inFlight[p] \in Unfinished /\ runs[inFlight[p]].payload = p

(* A cleanup a run returned is installed or has been invoked, exactly once. *)
ActionCleanups ==
    \A r \in Runs :
        cleaned[r] + (IF cleanup = r THEN 1 ELSE 0) = (IF runs[r].returns THEN 1 ELSE 0)

(* While the unit says that it is loading, the newest run is under way: none
   that was overtaken ends it for the newest, nor leaves it behind.  (A run
   that throws at once does.)                                              *)
LoadingIsTheNewest ==
    ~threw => (status = "loading" <=> \E r \in Begun : IsLatestRun(r) /\ runs[r].phase = "running")
=============================================================================
