-------------------------- MODULE SourceUnitProofs --------------------------
(* What holds of one source unit's runs for any payloads and any number of *)
(* them.                                                                   *)
EXTENDS SourceUnit, TLAPS, FiniteSetTheorems

USE SourceAssumption

-----------------------------------------------------------------------------
(* The sets and records in which the state lives. *)

LEMMA StateSpace ==
    /\ NoRun \notin Runs
    /\ Runs \subseteq Nat
    /\ Empty \in Contents
    /\ NoPayload \in AnyPayload
  BY DEF NoRun, Runs, Empty, Contents, AnyPayload

LEMMA InFlightIsARun ==
    ASSUME TypeOK, NEW p \in AnyPayload
    PROVE  InFlightFor(p) \in Runs \cup {NoRun}
  BY DEF TypeOK, InFlightFor

(* BeginLoad keeps the types of what it changes. *)
LEMMA BeginLoadType ==
    ASSUME TypeOK, BeginLoad
    PROVE  /\ runSequence' \in 0..MaxSequence
           /\ runSequence' = runSequence + 1
           /\ hydrated' \in BOOLEAN
           /\ content' \in Contents
  BY DEF TypeOK, BeginLoad, Hydrates

LEMMA NewRunType ==
    ASSUME TypeOK, BeginLoad, NEW p \in AnyPayload,
           NEW tracked \in {"single", "map"}
    PROVE  NewRun(p, tracked) \in RunStates
<1>1. runSequence + 1 \in 0..MaxSequence
  BY BeginLoadType
<1>2. epoch \in 0..MaxEpoch /\ 0 \in 0..MaxEpoch
  BY DEF TypeOK
<1>3. NotStarted \in RunStates
  BY <1>2, StateSpace DEF NotStarted, RunStates
<1> QED
  BY <1>1, <1>2, <1>3 DEF NewRun, RunStates

LEMMA RunsUpdated ==
    ASSUME NEW table \in [Runs -> RunStates], NEW r \in Runs, NEW state \in RunStates
    PROVE  [table EXCEPT ![r] = state] \in [Runs -> RunStates]
  OBVIOUS

LEMMA LoadingStatusType == LoadingStatus \in {"loading", "refreshing"}
  BY DEF LoadingStatus

LEMMA CacheSyncType ==
    ASSUME TypeOK, NEW shown \in Contents, NEW active, RequestCacheSync(shown, active)
    PROVE  cacheRecord' \in Contents /\ hasPendingCacheSync' \in BOOLEAN
  BY DEF TypeOK, RequestCacheSync

LEMMA InvokedType ==
    ASSUME TypeOK, NEW r \in Runs \cup {NoRun}
    PROVE  /\ Invoked(r) \in [Runs -> Nat]
           /\ \A s \in Runs : Invoked(r)[s] = cleaned[s] + (IF r = s THEN 1 ELSE 0)
<1>1. cleaned \in [Runs -> Nat]
  BY DEF TypeOK
<1>2. CASE r = NoRun
  BY <1>1, <1>2, StateSpace, SMT DEF Invoked
<1>3. CASE r \in Runs
  <2>1. Invoked(r) = [cleaned EXCEPT ![r] = cleaned[r] + 1]
    BY <1>3, StateSpace DEF Invoked
  <2>2. cleaned[r] + 1 \in Nat
    BY <1>1, <1>3
  <2>3. Invoked(r) \in [Runs -> Nat]
    BY <1>1, <1>3, <2>1, <2>2
  <2>4. \A s \in Runs : Invoked(r)[s] = IF r = s THEN cleaned[s] + 1 ELSE cleaned[s]
    BY <1>1, <1>3, <2>1
  <2>5. \A s \in Runs : cleaned[s] \in Nat
    BY <1>1
  <2> QED
    BY <2>3, <2>4, <2>5
<1> QED
  BY <1>2, <1>3

(* What a run does to the table of runs, one field of one run at a time.   *)
LEMMA RunType ==
    ASSUME TypeOK, NEW r \in Runs
    PROVE  run[r] \in RunStates
  BY DEF TypeOK

(* The configuration of a source never changes. *)
LEMMA OptionsType ==
    ASSUME TypeOK
    PROVE  /\ options \in Options
           /\ {HasTtl, CacheEnabled, MayReset, MayThrow} \subseteq BOOLEAN
  BY DEF TypeOK, HasTtl, CacheEnabled, MayReset, MayThrow

LEMMA OptionsStay ==
    ASSUME [Next]_vars
    PROVE  options' = options
  BY DEF Next, vars

(* The steps of the unit, with load(), force() and their like spelt out.   *)
LEMMA StepKinds ==
    ASSUME TypeOK, [Next]_vars
    PROVE  \/ Quiet /\ \E p \in AnyPayload : JoinRun(p) \/ StartRun(p)
           \/ UseTtl
           \/ \E r \in Runs : Write(r) \/ Reset(r) \/ Track(r) \/ RunThrows(r)
           \/ Quiet /\ \E r \in Runs : Fail(r) \/ Finish(r)
           \/ Quiet /\ \E r \in Runs : \E returns \in BOOLEAN : Fulfil(r, returns)
           \/ Expire
           \/ UNCHANGED vars
<1>1. payload \in AnyPayload /\ Payloads \subseteq AnyPayload
  BY DEF TypeOK, AnyPayload
<1>2. CASE Quiet /\ \E p \in Payloads : Load(p)
  BY <1>1, <1>2, Zenon DEF Load
<1>3. CASE Quiet /\ (LoadAgain \/ ForceAgain)
  <2>1. JoinRun(payload) \/ StartRun(payload) \/ UseTtl
    BY <1>3 DEF LoadAgain, ForceAgain
  <2> QED
    BY <1>1, <1>3, <2>1, Zenon
<1>4. CASE Quiet /\ \E r \in Runs : Write(r) \/ Reset(r) \/ Settle(r) \/ Finish(r)
  BY <1>4, Zenon DEF Settle
<1>5. CASE \E r \in Starting : Write(r) \/ Reset(r) \/ Returns(r)
  BY <1>5, Zenon DEF Starting, Returns
<1>6. CASE Expire \/ UNCHANGED vars
  BY <1>6, Zenon
<1>7. Step \/ UNCHANGED vars
  BY DEF Next
<1> QED
  BY <1>2, <1>3, <1>4, <1>5, <1>6, <1>7, Zenon DEF Step

-----------------------------------------------------------------------------
(* Types *)

THEOREM TypeCorrect == Spec => []TypeOK
<1>1. Init => TypeOK
  <2> SUFFICES ASSUME Init PROVE TypeOK
    OBVIOUS
  <2>1. cacheRecord \in Contents
    BY StateSpace DEF Init, Contents, AnyPayload
  <2>2. content = cacheRecord
    BY DEF Init
  <2>3. hydrated \in BOOLEAN
    BY DEF Init
  <2>4. cleaned \in [Runs -> Nat]
    BY DEF Init
  <2>5. run \in [Runs -> RunStates]
    <3>1. NotStarted \in RunStates
      BY StateSpace DEF NotStarted, RunStates
    <3> QED
      BY <3>1 DEF Init
  <2> QED
    <3>1. /\ single \in Runs \cup {NoRun} /\ singlePayload \in AnyPayload
          /\ inFlight \in [AnyPayload -> Runs \cup {NoRun}]
          /\ status \in Statuses
          /\ runSequence \in 0..MaxSequence /\ epoch \in 0..MaxEpoch
      BY StateSpace DEF Init, Statuses
    <3> QED
      BY <2>1, <2>2, <2>3, <2>4, <2>5, <3>1, StateSpace DEF Init, TypeOK
<1>2. TypeOK /\ [Next]_vars => TypeOK'
  <2> SUFFICES ASSUME TypeOK, [Next]_vars PROVE TypeOK'
    OBVIOUS
  <2>0. options' = options /\ options \in Options /\ HasTtl \in BOOLEAN
    BY OptionsStay, OptionsType
  <2> USE StateSpace, <2>0
  <2>1. ASSUME NEW p \in AnyPayload, JoinRun(p) PROVE TypeOK'
    BY <2>1 DEF TypeOK, JoinRun, slots, cacheVars
  <2>2. ASSUME UseTtl PROVE TypeOK'
    <3>1. status' \in Statuses
      BY <2>2 DEF UseTtl, StatusBefore, TypeOK, Statuses
    <3>2. BeginLoad
      BY <2>2 DEF UseTtl
    <3>3. /\ runSequence' \in 0..MaxSequence
          /\ hydrated' \in BOOLEAN
          /\ content' \in Contents
      BY <3>2, BeginLoadType
    <3> QED
      BY <2>2, <3>1, <3>3 DEF TypeOK, UseTtl, slots
  <2>3. ASSUME NEW p \in AnyPayload, StartRun(p) PROVE TypeOK'
    <3>1. NextRun \in Runs
      BY <2>3 DEF StartRun, Unstarted
    <3>2. BeginLoad
      BY <2>3 DEF StartRun
    <3>3. run' \in [Runs -> RunStates]
      <4>1. \A tracked \in {"single", "map"} : NewRun(p, tracked) \in RunStates
        BY <3>2, NewRunType
      <4>2. PICK tracked \in {"single", "map"} :
               run' = [run EXCEPT ![NextRun] = NewRun(p, tracked)]
        BY <2>3, Zenon DEF StartRun
      <4> QED
        BY <3>1, <4>1, <4>2, RunsUpdated, Zenon DEF TypeOK
    <3>4. status' \in Statuses
      BY <2>3, LoadingStatusType DEF StartRun, Statuses
    <3>5. activeRunCount' \in Nat
      BY <2>3 DEF TypeOK, StartRun
    <3> QED
      BY <2>3, <3>2, <3>3, <3>4, <3>5, BeginLoadType DEF TypeOK, StartRun, slots
  <2>4. ASSUME NEW r \in Runs, Track(r) \/ RunThrows(r) PROVE TypeOK'
    <3>1. run' \in [Runs -> RunStates]
      <4>1. [run[r] EXCEPT !.phase = "running", !.since = epoch] \in RunStates
        BY ZenonT(60), RunType DEF RunStates, TypeOK
      <4>2. [run[r] EXCEPT !.phase = "done"] \in RunStates
        BY RunType DEF RunStates
      <4>3. \/ run' = [run EXCEPT ![r] = [run[r] EXCEPT !.phase = "running", !.since = epoch]]
            \/ run' = [run EXCEPT ![r] = [run[r] EXCEPT !.phase = "done"]]
        BY <2>4 DEF Track, RunThrows
      <4> QED
        BY <4>1, <4>2, <4>3, RunsUpdated, Zenon DEF TypeOK
    <3>2. run[r].payload \in AnyPayload
      BY RunType DEF RunStates
    <3>3. /\ single' \in Runs \cup {NoRun} /\ singlePayload' \in AnyPayload
          /\ inFlight' \in [AnyPayload -> Runs \cup {NoRun}]
      BY <2>4, <3>2 DEF TypeOK, Track, RunThrows, slots
    <3> QED
      BY <2>4, <3>1, <3>3 DEF TypeOK, Track, RunThrows, cacheVars
  <2>5. ASSUME NEW r \in Runs, Write(r) PROVE TypeOK'
    <3>1. run' = [run EXCEPT ![r] = [run[r] EXCEPT !.wrote = TRUE]]
      BY <2>5 DEF Write
    <3>2. content' \in Contents
      BY <2>5, RunType DEF TypeOK, Write, Contents, RunStates
    <3>3. cacheRecord' \in Contents /\ hasPendingCacheSync' \in BOOLEAN
      BY <2>5, <3>2, CacheSyncType DEF TypeOK, Write
    <3>4. run' \in [Runs -> RunStates]
      <4>1. [run[r] EXCEPT !.wrote = TRUE] \in RunStates
        BY RunType DEF RunStates
      <4> QED
        BY <3>1, <4>1, RunsUpdated, Zenon DEF TypeOK
    <3> QED
      BY <2>5, <3>2, <3>3, <3>4 DEF TypeOK, Write, slots
  <2>6. ASSUME NEW r \in Runs, Reset(r) PROVE TypeOK'
    <3>1. cacheRecord' \in Contents /\ hasPendingCacheSync' \in BOOLEAN
      BY <2>6, CacheSyncType DEF TypeOK, Reset
    <3>2. cleaned' \in [Runs -> Nat]
      BY <2>6, InvokedType DEF Reset, TypeOK
    <3>3. runSequence' \in 0..MaxSequence /\ epoch' \in 0..MaxEpoch
      BY <2>6 DEF Reset, TypeOK
    <3> QED
      BY <2>6, <3>1, <3>2, <3>3 DEF TypeOK, Reset, Statuses
  <2>7. ASSUME NEW r \in Runs, NEW returns \in BOOLEAN, Fulfil(r, returns) PROVE TypeOK'
    <3>1. run' \in [Runs -> RunStates]
      <4>1. [run[r] EXCEPT !.phase = "settled", !.ok = TRUE, !.returns = returns] \in RunStates
        BY RunType DEF RunStates
      <4>2. run' = [run EXCEPT ![r] = [run[r] EXCEPT !.phase = "settled", !.ok = TRUE,
                                                     !.returns = returns]]
        BY <2>7 DEF Fulfil
      <4> QED
        BY <4>1, <4>2, RunsUpdated, Zenon DEF TypeOK
    <3>2. cleaned' \in [Runs -> Nat]
      BY <2>7, InvokedType DEF TypeOK, Fulfil
    <3>3. cacheRecord' \in Contents /\ hasPendingCacheSync' \in BOOLEAN
      BY <2>7, CacheSyncType DEF TypeOK, Fulfil
    <3>4. cleanup' \in Runs \cup {NoRun} /\ status' \in Statuses /\ fresh' \in BOOLEAN
      BY <2>7 DEF TypeOK, Fulfil, Statuses
    <3> QED
      BY <2>7, <3>1, <3>2, <3>3, <3>4 DEF TypeOK, Fulfil, slots
  <2>8. ASSUME NEW r \in Runs, Fail(r) PROVE TypeOK'
    <3>1. run' \in [Runs -> RunStates]
      BY <2>8 DEF TypeOK, Fail, RunStates
    <3> QED
      BY <2>8, <3>1 DEF TypeOK, Fail, Statuses, slots, cacheVars
  <2>9. ASSUME NEW r \in Runs, Finish(r) PROVE TypeOK'
    <3>1. activeRunCount' \in Nat
      BY <2>9 DEF TypeOK, Finish
    <3>2. cacheRecord' \in Contents /\ hasPendingCacheSync' \in BOOLEAN
      BY <2>9 DEF TypeOK, Finish
    <3>3. /\ single' \in Runs \cup {NoRun} /\ singlePayload' \in AnyPayload
          /\ inFlight' \in [AnyPayload -> Runs \cup {NoRun}]
      BY <2>9 DEF TypeOK, Finish
    <3>4. run' \in [Runs -> RunStates]
      BY <2>9 DEF TypeOK, Finish, RunStates
    <3> QED
      BY <2>9, <3>1, <3>2, <3>3, <3>4 DEF TypeOK, Finish
  <2>10. ASSUME Expire PROVE TypeOK'
    BY <2>10 DEF TypeOK, Expire, runVars, slots, cacheVars
  <2>11. ASSUME UNCHANGED vars PROVE TypeOK'
    BY <2>11 DEF TypeOK, vars, slots
  <2> QED
    BY <2>1, <2>2, <2>3, <2>4, <2>5, <2>6, <2>7, <2>8, <2>9, <2>10, <2>11, StepKinds, Zenon
<1> QED
  BY <1>1, <1>2, PTL DEF Spec

-----------------------------------------------------------------------------
(* Cleanups *)

(* Only a run that has succeeded has returned a cleanup. *)
OnlySettledRunsReturn == \A r \in Runs : run[r].returns => run[r].phase \in {"settled", "done"}

CleanupInv == OnlySettledRunsReturn /\ CleanupsRunOnce

(* A cleanup a run returned is installed or was invoked, exactly once,
   however loads overlap, settle, fail, throw and reset the unit.          *)
THEOREM NoCleanupIsLost == Spec => []CleanupsRunOnce
<1>1. Init => CleanupInv
  <2> SUFFICES ASSUME Init PROVE CleanupInv
    OBVIOUS
  <2>1. \A r \in Runs : cleaned[r] = 0 /\ cleanup # r /\ ~run[r].returns
    BY StateSpace DEF Init, NotStarted
  <2> QED
    BY <2>1 DEF CleanupInv, OnlySettledRunsReturn, CleanupsRunOnce
<1>2. TypeOK /\ CleanupInv /\ [Next]_vars => CleanupInv'
  <2> SUFFICES ASSUME TypeOK, CleanupInv, [Next]_vars PROVE CleanupInv'
    OBVIOUS
  <2> USE StateSpace
  (* The steps that neither return nor invoke a cleanup. *)
  <2>1. ASSUME UNCHANGED <<cleanup, cleaned>>,
               \A r \in Runs : /\ run'[r].returns = run[r].returns
                               /\ run[r].returns => run'[r].phase \in {"settled", "done"}
        PROVE  CleanupInv'
    BY <2>1 DEF CleanupInv, OnlySettledRunsReturn, CleanupsRunOnce
  <2>2. ASSUME NEW p \in AnyPayload, JoinRun(p) PROVE CleanupInv'
    BY <2>1, <2>2 DEF JoinRun, CleanupInv, OnlySettledRunsReturn
  <2>3. ASSUME NEW p \in AnyPayload, StartRun(p) PROVE CleanupInv'
    <3>1. PICK tracked : run' = [run EXCEPT ![NextRun] = NewRun(p, tracked)]
      BY <2>3, Zenon DEF StartRun
    <3>2. NextRun \in Runs /\ ~run[NextRun].returns
      BY <2>3 DEF StartRun, Unstarted, CleanupInv, OnlySettledRunsReturn
    <3>3. ~NewRun(p, tracked).returns
      BY DEF NewRun, NotStarted
    <3>4. \A s \in Runs : run'[s] = IF s = NextRun THEN NewRun(p, tracked) ELSE run[s]
      BY <3>1, <3>2 DEF TypeOK
    <3>5. UNCHANGED <<cleanup, cleaned>>
      BY <2>3 DEF StartRun
    <3> QED
      BY <3>2, <3>3, <3>4, <3>5 DEF CleanupInv, OnlySettledRunsReturn, CleanupsRunOnce
  <2>4. ASSUME NEW r \in Runs, Track(r) \/ RunThrows(r) PROVE CleanupInv'
    <3>1. /\ run[r].phase = "starting" /\ run'[r].returns = run[r].returns
          /\ \A s \in Runs : s # r => run'[s] = run[s]
      BY ZenonT(60), <2>4 DEF Track, RunThrows, TypeOK, RunStates
    <3>2. ~run[r].returns
      BY <3>1 DEF CleanupInv, OnlySettledRunsReturn
    <3> QED
      BY <2>1, <2>4, <3>1, <3>2 DEF Track, RunThrows, CleanupInv, OnlySettledRunsReturn
  <2>6. ASSUME UseTtl \/ Expire \/ UNCHANGED vars PROVE CleanupInv'
    BY <2>1, <2>6 DEF UseTtl, Expire, vars, runVars, CleanupInv, OnlySettledRunsReturn
  <2>7. ASSUME NEW r \in Runs, Write(r) PROVE CleanupInv'
    <3>1. \A s \in Runs : run'[s].returns = run[s].returns /\ run'[s].phase = run[s].phase
      BY <2>7 DEF Write, TypeOK, RunStates
    <3> QED
      BY <2>1, <2>7, <3>1 DEF Write, CleanupInv, OnlySettledRunsReturn
  <2>8. ASSUME NEW r \in Runs, Fail(r) \/ Finish(r) PROVE CleanupInv'
    <3>1. \A s \in Runs : /\ run'[s].returns = run[s].returns
                          /\ run'[s].phase = run[s].phase \/ run'[s].phase \in {"settled", "done"}
      BY <2>8 DEF Fail, Finish, TypeOK, RunStates
    <3> QED
      BY <2>1, <2>8, <3>1 DEF Fail, Finish, CleanupInv, OnlySettledRunsReturn
  <2>9. ASSUME NEW r \in Runs, Reset(r) PROVE CleanupInv'
    <3>1. \A s \in Runs : cleaned'[s] = cleaned[s] + (IF cleanup = s THEN 1 ELSE 0)
      BY <2>9, InvokedType DEF Reset, TypeOK
    <3>2. cleanup' = NoRun /\ run' = run
      BY <2>9 DEF Reset
    <3>3. \A s \in Runs : cleaned[s] \in Nat
      BY DEF TypeOK
    <3> QED
      BY <3>1, <3>2, <3>3 DEF CleanupInv, OnlySettledRunsReturn, CleanupsRunOnce
  <2>10. ASSUME NEW r \in Runs, NEW returns \in BOOLEAN, Fulfil(r, returns) PROVE CleanupInv'
    <3>1. /\ run'[r].returns = returns /\ run'[r].phase = "settled"
          /\ \A s \in Runs \ {r} : run'[s] = run[s]
      BY <2>10 DEF Fulfil, TypeOK, RunStates
    <3>2. ~run[r].returns /\ cleaned[r] = 0 /\ cleanup # r
      <4>1. ~run[r].returns
        BY <2>10 DEF Fulfil, CleanupInv, OnlySettledRunsReturn
      <4>2. cleaned[r] + (IF cleanup = r THEN 1 ELSE 0) = 0
        BY <4>1 DEF CleanupInv, CleanupsRunOnce
      <4>3. cleaned[r] \in Nat
        BY DEF TypeOK
      <4> QED
        BY <4>1, <4>2, <4>3
    <3>3. \A s \in Runs : cleaned[s] \in Nat
      BY DEF TypeOK
    <3>4. \A s \in Runs : s # r =>
             cleaned[s] + (IF cleanup = s THEN 1 ELSE 0) = (IF run[s].returns THEN 1 ELSE 0)
      BY DEF CleanupInv, CleanupsRunOnce
    <3>5. CASE ~returns
      <4>1. UNCHANGED <<cleaned, cleanup>>
        BY <2>10, <3>5 DEF Fulfil
      <4> QED
        BY <3>1, <3>2, <3>4, <3>5, <4>1 DEF CleanupInv, OnlySettledRunsReturn, CleanupsRunOnce
    <3>6. CASE returns /\ ~IsLatestRun(r)
      <4>1. cleanup' = cleanup /\ cleaned' = Invoked(r)
        BY <2>10, <3>6 DEF Fulfil
      <4>2. \A s \in Runs : cleaned'[s] = cleaned[s] + (IF r = s THEN 1 ELSE 0)
        BY <4>1, InvokedType
      <4> QED
        <5>1. OnlySettledRunsReturn'
          BY <3>1 DEF CleanupInv, OnlySettledRunsReturn
        <5>2. cleaned'[r] + (IF cleanup' = r THEN 1 ELSE 0) = 1 /\ run'[r].returns
          <6>1. cleaned'[r] = 1
            BY <3>2, <4>1, <4>2
          <6>2. run'[r].returns
            BY <3>1, <3>6, Zenon
          <6> QED
            BY <3>2, <4>1, <6>1, <6>2
        <5>3. ASSUME NEW s \in Runs, s # r
              PROVE  cleaned'[s] + (IF cleanup' = s THEN 1 ELSE 0)
                         = (IF run'[s].returns THEN 1 ELSE 0)
          BY <3>1, <3>3, <3>4, <3>6, <4>1, <4>2, <5>3
        <5> QED
          BY <5>1, <5>2, <5>3 DEF CleanupInv, CleanupsRunOnce
    <3>7. CASE returns /\ IsLatestRun(r)
      <4>1. cleanup' = r /\ cleaned' = Invoked(cleanup)
        BY <2>10, <3>7 DEF Fulfil
      <4>2. \A s \in Runs : cleaned'[s] = cleaned[s] + (IF cleanup = s THEN 1 ELSE 0)
        BY <4>1, InvokedType DEF TypeOK
      <4> QED
        <5>1. OnlySettledRunsReturn'
          BY <3>1 DEF CleanupInv, OnlySettledRunsReturn
        <5>2. cleaned'[r] + (IF cleanup' = r THEN 1 ELSE 0) = 1 /\ run'[r].returns
          <6>1. cleaned'[r] = 0
            BY <3>2, <4>2
          <6>2. run'[r].returns
            BY <3>1, <3>7, Zenon
          <6> QED
            BY <3>2, <4>1, <6>1, <6>2
        <5>3. ASSUME NEW s \in Runs, s # r
              PROVE  cleaned'[s] + (IF cleanup' = s THEN 1 ELSE 0)
                         = (IF run'[s].returns THEN 1 ELSE 0)
          BY <3>1, <3>3, <3>4, <3>7, <4>1, <4>2, <5>3
        <5> QED
          BY <5>1, <5>2, <5>3 DEF CleanupInv, CleanupsRunOnce
    <3> QED
      BY <3>5, <3>6, <3>7
  <2> QED
    BY <2>2, <2>3, <2>4, <2>6, <2>7, <2>8, <2>9, <2>10, StepKinds, Zenon
<1>3. CleanupInv => CleanupsRunOnce
  BY DEF CleanupInv
<1> QED
  BY <1>1, <1>2, <1>3, TypeCorrect, PTL DEF Spec

-----------------------------------------------------------------------------
(* Tracking *)

(* What a step may do to the promises of runs and to their tracking: leave
   them, track one more, untrack them all, or end one.                     *)
LeavesPromises ==
    /\ Promised' = Promised
    /\ \A r \in Promised : /\ run'[r].payload = run[r].payload
                           /\ run'[r].epoch = run[r].epoch
                           /\ run'[r].since = run[r].since
                           /\ run'[r].tracked = run[r].tracked
    /\ UNCHANGED <<single, singlePayload, inFlight, epoch>>

TracksRun(r) ==
    /\ r \in Starting
    /\ Promised' = Promised \cup {r}
    /\ run'[r].payload = run[r].payload /\ run'[r].epoch = run[r].epoch
    /\ run'[r].tracked = run[r].tracked /\ run'[r].since = epoch
    /\ \A s \in Runs \ {r} : run'[s] = run[s]
    /\ \/ /\ run[r].tracked = "single"
          /\ single' = r /\ singlePayload' = payload /\ UNCHANGED inFlight
       \/ /\ run[r].tracked = "map"
          /\ inFlight' = [inFlight EXCEPT ![run[r].payload] = r]
          /\ UNCHANGED <<single, singlePayload>>
    /\ UNCHANGED epoch

EndsRun(r) ==
    /\ r \in Promised
    /\ Promised' = Promised \ {r}
    /\ \A s \in Runs : /\ run'[s].payload = run[s].payload
                       /\ run'[s].epoch = run[s].epoch
                       /\ run'[s].since = run[s].since
                       /\ run'[s].tracked = run[s].tracked
    /\ \/ /\ run[r].tracked = "single"
          /\ single' = (IF single = r THEN NoRun ELSE single)
          /\ singlePayload' = (IF single = r THEN NoPayload ELSE singlePayload)
          /\ UNCHANGED inFlight
       \/ /\ run[r].tracked = "map"
          /\ inFlight' = [inFlight EXCEPT ![run[r].payload] = NoRun]
          /\ UNCHANGED <<single, singlePayload>>
    /\ UNCHANGED epoch

(* A run that starts is not tracked yet. *)
LEMMA StartLeavesPromises ==
    ASSUME TypeOK, NEW p \in AnyPayload, StartRun(p)
    PROVE  /\ LeavesPromises
           /\ \E r \in Runs : /\ Starting' = Starting \cup {r}
                              /\ run'[r].payload = p /\ run'[r].epoch = epoch
                              /\ run'[r].tracked \in {"single", "map"}
                              /\ run'[r].tracked = "single" =>
                                    single = NoRun /\ \A q \in AnyPayload : inFlight[q] = NoRun
<1> DEFINE r == NextRun
           alone == single = NoRun /\ \A q \in AnyPayload : inFlight[q] = NoRun
           started == NewRun(p, IF alone THEN "single" ELSE "map")
<1>1. r \in Runs /\ run[r].phase = "none"
  BY DEF StartRun, Unstarted
<1>2. run' = [run EXCEPT ![r] = started]
  BY Zenon DEF StartRun
<1>3. /\ started.phase = "starting" /\ started.payload = p /\ started.epoch = epoch
      /\ started.tracked = (IF alone THEN "single" ELSE "map")
  BY DEF NewRun, NotStarted
<1> HIDE DEF r, started
<1>4. \A s \in Runs : run'[s] = IF s = r THEN started ELSE run[s]
  BY <1>1, <1>2 DEF TypeOK
<1>5. Starting' = Starting \cup {r} /\ Promised' = Promised /\ r \notin Promised
  BY <1>1, <1>3, <1>4 DEF Starting, Promised
<1>6. LeavesPromises
  BY <1>4, <1>5 DEF StartRun, LeavesPromises, Promised, slots
<1> QED
  BY <1>1, <1>3, <1>4, <1>5, <1>6

LEMMA TrackTracksRun ==
    ASSUME TypeOK, NEW r \in Runs, Track(r)
    PROVE  TracksRun(r)
<1>1. /\ r \in Starting /\ run'[r].phase = "running"
      /\ run'[r].payload = run[r].payload /\ run'[r].epoch = run[r].epoch
      /\ run'[r].tracked = run[r].tracked /\ run'[r].since = epoch
      /\ \A s \in Runs \ {r} : run'[s] = run[s]
  BY DEF Track, TypeOK, RunStates, Starting
<1>2. Promised' = Promised \cup {r}
  BY <1>1 DEF Promised
<1>3. run[r].tracked \in {"single", "map"}
  BY RunType DEF RunStates
<1> QED
  BY <1>1, <1>2, <1>3 DEF Track, TracksRun

LEMMA TrackingSteps ==
    ASSUME TypeOK, [Next]_vars
    PROVE  \/ LeavesPromises
           \/ \E r \in Runs : TracksRun(r)
           \/ \E r \in Runs : Reset(r)
           \/ \E r \in Runs : EndsRun(r)
<1> USE StateSpace
<1>1. ASSUME NEW p \in AnyPayload, JoinRun(p) PROVE LeavesPromises
  BY <1>1 DEF JoinRun, LeavesPromises, Promised, slots
<1>2. ASSUME UseTtl \/ Expire \/ UNCHANGED vars PROVE LeavesPromises
  BY <1>2 DEF UseTtl, Expire, vars, runVars, slots, LeavesPromises, Promised
<1>3. ASSUME NEW p \in AnyPayload, StartRun(p) PROVE LeavesPromises
  BY <1>3, StartLeavesPromises
<1>4. ASSUME NEW r \in Runs, Track(r) PROVE TracksRun(r)
  BY <1>4, TrackTracksRun
<1>5. ASSUME NEW r \in Runs, RunThrows(r) PROVE LeavesPromises
  <2>1. /\ run[r].phase = "starting" /\ run'[r].phase = "done"
        /\ \A s \in Runs \ {r} : run'[s] = run[s]
    BY <1>5 DEF RunThrows, TypeOK, RunStates
  <2>2. Promised' = Promised /\ r \notin Promised
    BY <2>1 DEF Promised
  <2> QED
    BY <1>5, <2>1, <2>2 DEF RunThrows, LeavesPromises, Promised, slots
<1>6. ASSUME NEW r \in Runs, Write(r) PROVE LeavesPromises
  <2>1. \A s \in Runs : /\ run'[s].payload = run[s].payload /\ run'[s].epoch = run[s].epoch
                        /\ run'[s].tracked = run[s].tracked /\ run'[s].phase = run[s].phase
                        /\ run'[s].since = run[s].since
    BY <1>6 DEF Write, TypeOK, RunStates
  <2> QED
    BY <1>6, <2>1 DEF Write, LeavesPromises, Promised, slots
<1>7. ASSUME NEW r \in Runs, Fail(r) \/ \E returns \in BOOLEAN : Fulfil(r, returns)
      PROVE  LeavesPromises
  <2>1. /\ \A s \in Runs : /\ run'[s].payload = run[s].payload /\ run'[s].epoch = run[s].epoch
                           /\ run'[s].tracked = run[s].tracked /\ run'[s].since = run[s].since
                           /\ run'[s].phase = IF s = r THEN "settled" ELSE run[s].phase
        /\ run[r].phase = "running"
        /\ UNCHANGED <<single, singlePayload, inFlight, epoch>>
    <3>1. CASE Fail(r)
      BY <3>1 DEF Fail, TypeOK, RunStates, slots
    <3>2. ASSUME NEW returns \in BOOLEAN, Fulfil(r, returns)
          PROVE  /\ \A s \in Runs : /\ run'[s].payload = run[s].payload
                                    /\ run'[s].epoch = run[s].epoch
                                    /\ run'[s].tracked = run[s].tracked
                                    /\ run'[s].since = run[s].since
                                    /\ run'[s].phase = IF s = r THEN "settled" ELSE run[s].phase
                 /\ run[r].phase = "running"
                 /\ UNCHANGED <<single, singlePayload, inFlight, epoch>>
      BY <3>2 DEF Fulfil, TypeOK, RunStates, slots
    <3> QED
      BY <1>7, <3>1, <3>2
  <2> QED
    BY <2>1 DEF LeavesPromises, Promised
<1>8. ASSUME NEW r \in Runs, Finish(r) PROVE EndsRun(r)
  <2>1. \A s \in Runs : /\ run'[s].payload = run[s].payload /\ run'[s].epoch = run[s].epoch
                        /\ run'[s].tracked = run[s].tracked /\ run'[s].since = run[s].since
                        /\ run'[s].phase = IF s = r THEN "done" ELSE run[s].phase
    BY <1>8 DEF Finish, TypeOK, RunStates
  <2>2. Promised' = Promised \ {r}
    BY <1>8, <2>1 DEF Finish, Promised
  <2>3. run[r].tracked \in {"single", "map"}
    BY RunType DEF RunStates
  <2> QED
    BY <1>8, <2>1, <2>2, <2>3 DEF Finish, EndsRun, Promised
<1> QED
  BY <1>1, <1>2, <1>3, <1>4, <1>5, <1>6, <1>7, <1>8, StepKinds, Zenon

(* While run is called, the unit is as the load left it, or as a reset of
   that very run did: the slot the run will be tracked in is free.         *)
StartingInv ==
    /\ \A r, s \in Starting : r = s
    /\ \A r \in Starting :
          /\ run[r].epoch <= epoch
          /\ payload = IF run[r].epoch = epoch THEN run[r].payload ELSE NoPayload
          /\ InFlightFor(run[r].payload) = NoRun
          /\ run[r].tracked = "single" =>
                single = NoRun /\ \A q \in AnyPayload : inFlight[q] = NoRun

LEMMA StartingInvInductive ==
    ASSUME TypeOK, TypeOK', StartingInv, [Next]_vars
    PROVE  StartingInv'
<1> USE StateSpace
(* The steps that leave the run that starts, and the slots. *)
<1>1. ASSUME Starting' = Starting, UNCHANGED <<payload, single, singlePayload, inFlight, epoch>>,
             \A r \in Starting : /\ run'[r].payload = run[r].payload
                                 /\ run'[r].epoch = run[r].epoch
                                 /\ run'[r].tracked = run[r].tracked
      PROVE  StartingInv'
  BY <1>1 DEF StartingInv, InFlightFor
<1>2. ASSUME Starting' = {} PROVE StartingInv'
  BY <1>2 DEF StartingInv
<1>3. ASSUME Quiet, NEW p \in AnyPayload, JoinRun(p) PROVE StartingInv'
  BY <1>2, <1>3 DEF Quiet, JoinRun, Starting
<1>4. ASSUME Quiet, NEW p \in AnyPayload, StartRun(p) PROVE StartingInv'
  <2>1. PICK r \in Runs : /\ Starting' = Starting \cup {r}
                          /\ run'[r].payload = p /\ run'[r].epoch = epoch
                          /\ run'[r].tracked = "single" =>
                                single = NoRun /\ \A q \in AnyPayload : inFlight[q] = NoRun
    BY <1>4, StartLeavesPromises
  <2>2. Starting' = {r}
    BY <1>4, <2>1 DEF Quiet
  <2>3. /\ payload' = p /\ InFlightFor(p) = NoRun
        /\ UNCHANGED <<single, singlePayload, inFlight, epoch>>
    BY <1>4 DEF StartRun, slots
  <2>4. InFlightFor(p)' = NoRun
    BY <2>3 DEF InFlightFor
  <2>5. epoch \in Nat
    BY DEF TypeOK
  <2> QED
    BY <2>1, <2>2, <2>3, <2>4, <2>5 DEF StartingInv
<1>5. ASSUME UseTtl \/ Expire \/ UNCHANGED vars PROVE StartingInv'
  BY <1>1, <1>5 DEF UseTtl, Expire, vars, runVars, slots, Starting
<1>6. ASSUME NEW r \in Runs, Write(r) PROVE StartingInv'
  <2>1. \A s \in Runs : /\ run'[s].payload = run[s].payload /\ run'[s].epoch = run[s].epoch
                        /\ run'[s].tracked = run[s].tracked /\ run'[s].phase = run[s].phase
    BY <1>6 DEF Write, TypeOK, RunStates
  <2> QED
    BY <1>1, <1>6, <2>1 DEF Write, slots, Starting
<1>7. ASSUME NEW r \in Runs, Reset(r) PROVE StartingInv'
  <2>1. /\ run' = run /\ payload' = NoPayload /\ epoch' = epoch + 1 /\ single' = NoRun
        /\ inFlight' = [q \in AnyPayload |-> NoRun]
    BY <1>7 DEF Reset
  <2>2. Starting' = Starting
    BY <2>1 DEF Starting
  <2>3. ASSUME NEW s \in Starting PROVE run[s].epoch \in Nat /\ run[s].payload \in AnyPayload
    <3>1. run[s] \in RunStates
      BY RunType DEF Starting
    <3> QED
      BY <3>1 DEF RunStates
  <2>4. epoch \in Nat
    BY DEF TypeOK
  <2>5. \A q \in AnyPayload : InFlightFor(q)' = NoRun
    BY <2>1 DEF InFlightFor
  <2>6. \A s \in Starting : run[s].epoch <= epoch + 1 /\ run[s].epoch # epoch + 1
    BY <2>3, <2>4 DEF StartingInv
  <2>7. (\A s, t \in Starting : s = t)'
    BY <2>2 DEF StartingInv
  <2> QED
    BY <2>1, <2>2, <2>3, <2>5, <2>6, <2>7 DEF StartingInv
<1>8. ASSUME NEW r \in Runs, Track(r) \/ RunThrows(r) PROVE StartingInv'
  <2>1. /\ run[r].phase = "starting" /\ run'[r].phase \in {"running", "done"}
        /\ \A s \in Runs \ {r} : run'[s] = run[s]
    <3>1. CASE Track(r)
      BY <3>1 DEF Track, TypeOK, RunStates
    <3>2. CASE RunThrows(r)
      BY <3>2 DEF RunThrows, TypeOK, RunStates
    <3> QED
      BY <1>8, <3>1, <3>2
  <2>2. Starting' = Starting \ {r} /\ r \in Starting
    BY <2>1 DEF Starting
  <2> QED
    BY <1>2, <2>2 DEF StartingInv
<1>9. ASSUME Quiet, NEW r \in Runs,
             Fail(r) \/ Finish(r) \/ \E returns \in BOOLEAN : Fulfil(r, returns)
      PROVE  StartingInv'
  <2>1. /\ run'[r].phase \in {"settled", "done"}
        /\ \A s \in Runs \ {r} : run'[s] = run[s]
    <3>1. CASE Fail(r)
      BY <3>1 DEF Fail, TypeOK, RunStates
    <3>2. CASE Finish(r)
      BY <3>2 DEF Finish, TypeOK, RunStates
    <3>3. CASE \E returns \in BOOLEAN : Fulfil(r, returns)
      BY <3>3 DEF Fulfil, TypeOK, RunStates
    <3> QED
      BY <1>9, <3>1, <3>2, <3>3
  <2>2. Starting' = {}
    BY <1>9, <2>1 DEF Quiet, Starting
  <2> QED
    BY <1>2, <2>2
<1> QED
  BY <1>3, <1>4, <1>5, <1>6, <1>7, <1>8, <1>9, StepKinds, Zenon

(* The two slots hold runs of their own kind: a run in the single slot never
   clears an entry of the map when it ends, nor the other way round.       *)
TrackingInv ==
    /\ single # NoRun => /\ single \in Promised
                         /\ run[single].since = epoch
                         /\ run[single].tracked = "single"
                         /\ singlePayload = IF run[single].epoch = epoch
                                            THEN run[single].payload ELSE NoPayload
    /\ \A p \in AnyPayload :
          inFlight[p] # NoRun => /\ inFlight[p] \in Promised
                                 /\ run[inFlight[p]].since = epoch
                                 /\ run[inFlight[p]].payload = p
                                 /\ run[inFlight[p]].tracked = "map"

LEMMA TrackingInvInductive ==
    ASSUME TypeOK, TypeOK', StartingInv, TrackingInv, [Next]_vars
    PROVE  TrackingInv'
<1> USE StateSpace
<1>1. CASE LeavesPromises
  BY <1>1 DEF LeavesPromises, TrackingInv
<1>2. ASSUME NEW r \in Runs, TracksRun(r) PROVE TrackingInv'
  <2>1. \A s \in Promised : s \in Runs /\ s # r
    BY <1>2 DEF TracksRun, Promised, Starting
  <2>2. /\ r \in Promised' /\ Promised \subseteq Promised' /\ epoch' = epoch
        /\ run'[r].payload = run[r].payload /\ run'[r].epoch = run[r].epoch
        /\ run'[r].tracked = run[r].tracked /\ run'[r].since = epoch
        /\ \A s \in Runs \ {r} : run'[s] = run[s]
    BY <1>2 DEF TracksRun
  <2>3. ASSUME NEW s, s \in Promised PROVE s \in Promised' /\ run'[s] = run[s]
    BY <2>1, <2>2, <2>3
  <2>4. payload = IF run[r].epoch = epoch THEN run[r].payload ELSE NoPayload
    BY <1>2 DEF TracksRun, StartingInv
  <2>5. run[r].payload \in AnyPayload
    BY RunType DEF RunStates
  <2>6. CASE /\ run[r].tracked = "single"
             /\ single' = r /\ singlePayload' = payload /\ inFlight' = inFlight
    <3>1. ASSUME NEW q \in AnyPayload, inFlight[q] # NoRun
          PROVE  /\ inFlight[q] \in Promised'
                 /\ run'[inFlight[q]].since = epoch
                 /\ run'[inFlight[q]].payload = q
                 /\ run'[inFlight[q]].tracked = "map"
      BY <2>3, <3>1 DEF TrackingInv
    <3> QED
      BY <2>2, <2>4, <2>6, <3>1 DEF TrackingInv
  <2>7. CASE /\ run[r].tracked = "map" /\ inFlight' = [inFlight EXCEPT ![run[r].payload] = r]
             /\ single' = single /\ singlePayload' = singlePayload
    <3>1. ASSUME single # NoRun
          PROVE  /\ single \in Promised'
                 /\ run'[single].since = epoch
                 /\ run'[single].tracked = "single"
                 /\ singlePayload = IF run'[single].epoch = epoch
                                    THEN run'[single].payload ELSE NoPayload
      BY <2>3, <3>1 DEF TrackingInv
    <3>2. ASSUME NEW q \in AnyPayload, inFlight'[q] # NoRun
          PROVE  /\ inFlight'[q] \in Promised'
                 /\ run'[inFlight'[q]].since = epoch
                 /\ run'[inFlight'[q]].payload = q
                 /\ run'[inFlight'[q]].tracked = "map"
      <4>1. CASE q = run[r].payload
        <5>1. inFlight'[q] = r
          BY <2>5, <2>7, <4>1 DEF TypeOK
        <5> QED
          BY <2>2, <2>7, <4>1, <5>1
      <4>2. CASE q # run[r].payload
        <5>1. inFlight'[q] = inFlight[q]
          BY <2>5, <2>7, <4>2 DEF TypeOK
        <5> QED
          BY <2>3, <3>2, <5>1 DEF TrackingInv
      <4> QED
        BY <4>1, <4>2
    <3> QED
      BY <2>2, <2>7, <3>1, <3>2 DEF TrackingInv
  <2> QED
    BY <1>2, <2>6, <2>7 DEF TracksRun
<1>3. ASSUME NEW r \in Runs, Reset(r) PROVE TrackingInv'
  BY <1>3 DEF Reset, TrackingInv
<1>4. ASSUME NEW r \in Runs, EndsRun(r) PROVE TrackingInv'
  <2>1. \A s \in Promised : s \in Runs
    BY DEF Promised
  <2>2. single' # NoRun => single' = single /\ single # r /\ singlePayload' = singlePayload
    BY <1>4 DEF EndsRun, TrackingInv
  <2>3. ASSUME NEW q \in AnyPayload, inFlight'[q] # NoRun
        PROVE  inFlight'[q] = inFlight[q] /\ inFlight[q] # r
    BY <1>4, <2>3 DEF EndsRun, TrackingInv, TypeOK
  <2>4. /\ Promised' = Promised \ {r} /\ epoch' = epoch
        /\ \A s \in Runs : /\ run'[s].payload = run[s].payload
                           /\ run'[s].epoch = run[s].epoch
                           /\ run'[s].since = run[s].since
                           /\ run'[s].tracked = run[s].tracked
    BY <1>4 DEF EndsRun
  <2>5. ASSUME single' # NoRun
        PROVE  /\ single' \in Promised'
               /\ run'[single'].since = epoch'
               /\ run'[single'].tracked = "single"
               /\ singlePayload' = IF run'[single'].epoch = epoch'
                                   THEN run'[single'].payload ELSE NoPayload
    <3>1. single' = single /\ single # r /\ singlePayload' = singlePayload /\ single # NoRun
      BY <2>2, <2>5
    <3>2. /\ single \in Promised
          /\ run[single].since = epoch
          /\ run[single].tracked = "single"
          /\ singlePayload = IF run[single].epoch = epoch THEN run[single].payload ELSE NoPayload
      BY <3>1 DEF TrackingInv
    <3> QED
      BY <2>1, <2>4, <3>1, <3>2
  <2>6. ASSUME NEW q \in AnyPayload, inFlight'[q] # NoRun
        PROVE  /\ inFlight'[q] \in Promised'
               /\ run'[inFlight'[q]].since = epoch'
               /\ run'[inFlight'[q]].payload = q
               /\ run'[inFlight'[q]].tracked = "map"
    <3>1. /\ inFlight[q] # NoRun /\ inFlight'[q] = inFlight[q] /\ inFlight[q] # r
      BY <2>3, <2>6
    <3>2. /\ inFlight[q] \in Promised
          /\ run[inFlight[q]].since = epoch
          /\ run[inFlight[q]].payload = q
          /\ run[inFlight[q]].tracked = "map"
      BY <3>1 DEF TrackingInv
    <3> QED
      BY <2>1, <2>4, <3>1, <3>2
  <2> QED
    BY <2>5, <2>6 DEF TrackingInv
<1> QED
  BY <1>1, <1>2, <1>3, <1>4, TrackingSteps, Zenon

SlotsInv == StartingInv /\ TrackingInv

LEMMA SlotsInvInitially ==
    ASSUME Init
    PROVE  SlotsInv /\ Starting = {} /\ Promised = {}
<1>1. Starting = {} /\ Promised = {}
  BY DEF Init, Starting, Promised, NotStarted
<1> QED
  BY <1>1 DEF Init, SlotsInv, StartingInv, TrackingInv

(* No load ever joins a run that is over, whatever the order in which runs
   end and whether or not the unit was reset in between.                   *)
THEOREM TrackedRunsAreInFlight == Spec => []TrackedIsInFlight
<1>1. Init => SlotsInv
  BY SlotsInvInitially
<1>2. TypeOK /\ TypeOK' /\ SlotsInv /\ [Next]_vars => SlotsInv'
  BY StartingInvInductive, TrackingInvInductive DEF SlotsInv
<1>3. SlotsInv => TrackedIsInFlight
  BY DEF SlotsInv, TrackingInv, TrackedIsInFlight
<1> QED
  BY <1>1, <1>2, <1>3, TypeCorrect, PTL DEF Spec

(* Before the first reset, every run that has returned its promise is tracked, and
   the run in the single slot has no other of its payload beside it.       *)
AllTracked ==
    /\ \A r \in Promised : single = r \/ inFlight[run[r].payload] = r
    /\ single # NoRun => inFlight[run[single].payload] = NoRun

(* All runs of an epoch without resets are of that epoch. *)
FirstEpoch == \A r \in Runs : run[r].epoch = 0

LEMMA AllTrackedInductive ==
    ASSUME TypeOK, TypeOK', SlotsInv, AllTracked, FirstEpoch, epoch = 0, epoch' = 0, [Next]_vars
    PROVE  AllTracked'
<1> USE StateSpace DEF SlotsInv
<1>1. \A s \in Promised : s \in Runs /\ run[s].payload \in AnyPayload
  BY RunType DEF Promised, RunStates
<1>2. CASE LeavesPromises
  <2>1. single # NoRun => single \in Promised
    BY DEF TrackingInv
  <2> QED
    BY <1>2, <2>1 DEF LeavesPromises, AllTracked
<1>3. ASSUME NEW r \in Runs, TracksRun(r) PROVE AllTracked'
  <2> DEFINE p == run[r].payload
  <2>0. p \in AnyPayload /\ r \in Starting /\ InFlightFor(p) = NoRun
    BY <1>3, RunType DEF TracksRun, StartingInv, RunStates
  <2>1. ASSUME NEW s \in Promised PROVE s # r /\ run'[s] = run[s] /\ run[s].payload # p
    <3>1. s # r /\ run'[s] = run[s] /\ s # NoRun
      BY <1>1, <1>3, <2>0 DEF TracksRun, Promised, Starting
    <3>2. CASE single = s
      <4>1. singlePayload = run[s].payload
        BY <1>1, <3>1, <3>2 DEF TrackingInv, FirstEpoch
      <4> QED
        BY <2>0, <3>1, <3>2, <4>1 DEF InFlightFor
    <3>3. CASE inFlight[run[s].payload] = s
      BY <2>0, <3>1, <3>3 DEF InFlightFor
    <3> QED
      BY <3>1, <3>2, <3>3 DEF AllTracked
  <2>2. \A q \in AnyPayload : q # p => inFlight'[q] = inFlight[q]
    BY <1>3, <2>0 DEF TracksRun, TypeOK
  <2>3. \/ single' = single /\ inFlight' = [inFlight EXCEPT ![p] = r]
        \/ /\ single' = r /\ inFlight' = inFlight
           /\ single = NoRun /\ \A q \in AnyPayload : inFlight[q] = NoRun
    BY <1>3, <2>0 DEF TracksRun, StartingInv
  <2>4. Promised' = Promised \cup {r} /\ run'[r].payload = p
    BY <1>3 DEF TracksRun
  <2> HIDE DEF p
  <2>5. CASE single' = single /\ inFlight' = [inFlight EXCEPT ![p] = r]
    <3>1. inFlight'[p] = r
      BY <2>0, <2>5 DEF TypeOK
    <3>2. ASSUME NEW s \in Promised' PROVE single' = s \/ inFlight'[run'[s].payload] = s
      BY <1>1, <2>1, <2>2, <2>4, <2>5, <3>1 DEF AllTracked
    <3>3. ASSUME single # NoRun PROVE inFlight'[run'[single].payload] = NoRun
      <4>1. single \in Promised /\ inFlight[run[single].payload] = NoRun
        BY <3>3 DEF TrackingInv, AllTracked
      <4> QED
        BY <1>1, <2>1, <2>2, <4>1
    <3> QED
      BY <2>5, <3>2, <3>3 DEF AllTracked
  <2>6. CASE /\ single' = r /\ inFlight' = inFlight
             /\ single = NoRun /\ \A q \in AnyPayload : inFlight[q] = NoRun
    <3>1. Promised = {}
      BY <1>1, <2>6, StateSpace DEF AllTracked
    <3> QED
      BY <2>0, <2>4, <2>6, <3>1 DEF AllTracked
  <2> QED
    BY <2>3, <2>5, <2>6
<1>4. ASSUME NEW r \in Runs, EndsRun(r) PROVE AllTracked'
  <2>1. /\ Promised' = Promised \ {r}
        /\ \A s \in Runs : run'[s].payload = run[s].payload
    BY <1>4 DEF EndsRun
  <2>2. ASSUME NEW s \in Promised, s # r PROVE single' = s \/ inFlight'[run[s].payload] = s
    <3>1. CASE single = s
      BY <1>1, <1>4, <2>2, <3>1 DEF EndsRun
    <3>2. CASE inFlight[run[s].payload] = s
      <4>1. CASE inFlight' = inFlight
        BY <3>2, <4>1
      <4>2. CASE /\ run[r].tracked = "map" /\ inFlight' = [inFlight EXCEPT ![run[r].payload] = NoRun]
        <5>1. run[r].payload # run[s].payload \/ r \notin Promised
          BY <1>1, <2>2, <3>2, <4>2 DEF AllTracked, TrackingInv
        <5>2. r \in Promised
          BY <1>4 DEF EndsRun
        <5> QED
          BY <1>1, <3>2, <4>2, <5>1, <5>2 DEF TypeOK
      <4> QED
        BY <1>4, <4>1, <4>2 DEF EndsRun
    <3> QED
      BY <2>2, <3>1, <3>2 DEF AllTracked
  <2>3. ASSUME single' # NoRun PROVE inFlight'[run'[single'].payload] = NoRun
    <3>1. single' = single /\ single \in Promised /\ single # r
      BY <1>4, <2>3 DEF EndsRun, TrackingInv
    <3>2. inFlight[run[single].payload] = NoRun
      BY <2>3, <3>1 DEF AllTracked
    <3>3. run'[single'].payload = run[single].payload
      BY <1>1, <2>1, <3>1
    <3>4. \A q \in AnyPayload : inFlight'[q] \in {inFlight[q], NoRun}
      BY <1>4 DEF EndsRun, TypeOK
    <3> QED
      BY <1>1, <3>1, <3>2, <3>3, <3>4
  <2> QED
    BY <1>1, <2>1, <2>2, <2>3 DEF AllTracked
<1>5. ASSUME NEW r \in Runs, Reset(r) PROVE FALSE
  BY <1>5 DEF Reset, TypeOK
<1> QED
  BY <1>2, <1>3, <1>4, <1>5, TrackingSteps, Zenon

LEMMA EpochGrows ==
    ASSUME TypeOK, [Next]_vars, epoch' = 0
    PROVE  epoch = 0
<1>1. ASSUME NEW r \in Runs, Reset(r) PROVE epoch' = epoch + 1
  BY <1>1 DEF Reset
<1>2. epoch \in Nat
  BY DEF TypeOK
<1>3. epoch' = epoch \/ epoch' = epoch + 1
  BY <1>1, TrackingSteps DEF LeavesPromises, TracksRun, EndsRun
<1> QED
  BY <1>2, <1>3

(* Until the first reset all runs are of the first epoch. *)
LEMMA FirstEpochStays ==
    ASSUME TypeOK, TypeOK', FirstEpoch, epoch = 0, epoch' = 0, [Next]_vars
    PROVE  FirstEpoch'
<1> SUFFICES ASSUME NEW s \in Runs PROVE run'[s].epoch = 0
  BY DEF FirstEpoch
<1>1. epoch' \in 0..MaxEpoch /\ run[s].epoch = 0
  BY DEF TypeOK, FirstEpoch
<1>2. ASSUME run' = run PROVE run'[s].epoch = 0
  BY <1>1, <1>2
<1>3. ASSUME NEW p \in AnyPayload, StartRun(p) PROVE run'[s].epoch = 0
  <2>1. PICK tracked : run' = [run EXCEPT ![NextRun] = NewRun(p, tracked)]
    BY <1>3, Zenon DEF StartRun
  <2>2. NewRun(p, tracked).epoch = 0
    BY DEF NewRun, NotStarted
  <2>3. run'[s] \in {run[s], NewRun(p, tracked)}
    BY <2>1 DEF TypeOK
  <2> QED
    BY <1>1, <2>2, <2>3
<1>4. ASSUME NEW r \in Runs,
             \/ Write(r) \/ Track(r) \/ RunThrows(r) \/ Fail(r) \/ Finish(r)
             \/ \E returns \in BOOLEAN : Fulfil(r, returns)
      PROVE  run'[s].epoch = 0
  <2>1. CASE Write(r)
    BY <1>1, <2>1 DEF Write, TypeOK, RunStates
  <2>2. CASE Track(r)
    BY <1>1, <2>2 DEF Track, TypeOK, RunStates
  <2>4. CASE RunThrows(r)
    BY <1>1, <2>4 DEF RunThrows, TypeOK, RunStates
  <2>5. CASE Fail(r)
    BY <1>1, <2>5 DEF Fail, TypeOK, RunStates
  <2>6. CASE Finish(r)
    BY <1>1, <2>6 DEF Finish, TypeOK, RunStates
  <2>3. CASE \E returns \in BOOLEAN : Fulfil(r, returns)
    BY <1>1, <2>3 DEF Fulfil, TypeOK, RunStates
  <2> QED
    BY <1>4, <2>1, <2>2, <2>3, <2>4, <2>5, <2>6
<1>5. ASSUME NEW r \in Runs, Reset(r) PROVE run'[s].epoch = 0
  BY <1>2, <1>5 DEF Reset
<1>6. ASSUME NEW p \in AnyPayload, JoinRun(p) PROVE run'[s].epoch = 0
  BY <1>2, <1>6 DEF JoinRun
<1>7. ASSUME UseTtl \/ Expire \/ UNCHANGED vars PROVE run'[s].epoch = 0
  BY <1>2, <1>7 DEF UseTtl, Expire, vars, runVars
<1> QED
  BY <1>3, <1>4, <1>5, <1>6, <1>7, StepKinds, Zenon

SharingInv == SlotsInv /\ (epoch = 0 => AllTracked /\ FirstEpoch)

(* Loads of one payload share one run, in whatever order runs end and free
   their slots, until somebody resets the unit: then a run of before can
   free the slot of one of after.                                          *)
THEOREM RunsOfOnePayloadAreShared == Spec => []OneRunPerPayload
<1>1. Init => SharingInv
  <2> SUFFICES ASSUME Init PROVE SharingInv
    OBVIOUS
  <2>1. AllTracked
    BY SlotsInvInitially DEF Init, AllTracked
  <2>2. FirstEpoch
    BY DEF Init, FirstEpoch, NotStarted
  <2> QED
    BY <2>1, <2>2, SlotsInvInitially DEF SharingInv
<1>2. TypeOK /\ TypeOK' /\ SharingInv /\ [Next]_vars => SharingInv'
  <2> SUFFICES ASSUME TypeOK, TypeOK', SharingInv, [Next]_vars PROVE SharingInv'
    OBVIOUS
  <2>1. SlotsInv'
    BY StartingInvInductive, TrackingInvInductive DEF SharingInv, SlotsInv
  <2>2. ASSUME epoch' = 0 PROVE AllTracked' /\ FirstEpoch'
    BY <2>2, EpochGrows, AllTrackedInductive, FirstEpochStays DEF SharingInv
  <2> QED
    BY <2>1, <2>2 DEF SharingInv
<1>3. TypeOK /\ SharingInv => OneRunPerPayload
  <2> SUFFICES ASSUME TypeOK, SharingInv, epoch = 0, NEW r \in Unfinished, NEW s \in Unfinished,
                      r # s, run[r].payload = run[s].payload
               PROVE  FALSE
    BY DEF OneRunPerPayload, Twins, ThisEpoch
  <2>1. AllTracked /\ FirstEpoch /\ StartingInv /\ TrackingInv
    BY DEF SharingInv, SlotsInv
  <2>2. ASSUME NEW t \in Unfinished
        PROVE  t \in Runs /\ t # NoRun /\ run[t].payload \in AnyPayload
    BY RunType, StateSpace DEF Unfinished, Starting, Promised, RunStates
  <2>3. ASSUME NEW t \in Promised PROVE InFlightFor(run[t].payload) # NoRun
    <3>1. t \in Runs /\ t # NoRun
      BY <2>2 DEF Unfinished
    <3>2. CASE single = t
      <4>1. singlePayload = run[t].payload
        BY <2>1, <3>1, <3>2 DEF TrackingInv, FirstEpoch
      <4> QED
        BY <3>1, <3>2, <4>1 DEF InFlightFor
    <3>3. CASE inFlight[run[t].payload] = t
      BY <3>1, <3>3 DEF InFlightFor
    <3> QED
      BY <2>1, <3>2, <3>3 DEF AllTracked
  <2>4. ASSUME NEW t \in Starting PROVE InFlightFor(run[t].payload) = NoRun
    BY <2>1 DEF StartingInv
  <2>5. CASE r \in Starting /\ s \in Starting
    BY <2>1, <2>5 DEF StartingInv
  <2>6. CASE r \in Promised /\ s \in Promised
    BY <2>1, <2>2, <2>6 DEF AllTracked
  <2>7. CASE (r \in Starting /\ s \in Promised) \/ (r \in Promised /\ s \in Starting)
    BY <2>3, <2>4, <2>7
  <2> QED
    BY <2>5, <2>6, <2>7 DEF Unfinished
<1> QED
  BY <1>1, <1>2, <1>3, TypeCorrect, PTL DEF Spec

(* A load is answered with a run that is in flight and that no other run of
   the payload runs beside.                                                *)
THEOREM LoadsShareRunsInFlight == Spec => []RunsAreShared
  BY RunsOfOnePayloadAreShared, TrackedRunsAreInFlight, PTL DEF RunsAreShared

-----------------------------------------------------------------------------
(* The status *)

LoadingInv == LoadingMeansRunning /\ (fresh => HasTtl)

(* A unit that says it is loading has a run that will say otherwise, if the
   source has no ttl and its run never throws at once.  (Either one can
   leave the status behind.)                                               *)
THEOREM LoadingAlwaysMeansRunning == Spec => []LoadingMeansRunning
<1>1. Init => LoadingInv
  BY DEF Init, LoadingInv, LoadingMeansRunning
<1>2. TypeOK /\ LoadingInv /\ [Next]_vars => LoadingInv'
  <2> SUFFICES ASSUME TypeOK, LoadingInv, [Next]_vars PROVE LoadingInv'
    OBVIOUS
  <2>0. HasTtl' = HasTtl /\ MayThrow' = MayThrow
    BY OptionsStay DEF HasTtl, MayThrow
  <2> USE StateSpace, <2>0
  (* The steps that leave the running runs, the sequence and the status. *)
  <2>1. ASSUME \A r \in Runs : run[r].phase \in {"starting", "running"} =>
                                   /\ run'[r].phase \in {"starting", "running"}
                                   /\ run'[r].seq = run[r].seq,
               UNCHANGED <<runSequence, status>>, fresh' => fresh
        PROVE  LoadingInv'
    BY <2>1 DEF LoadingInv, LoadingMeansRunning, IsLatestRun
  <2>2. ASSUME NEW p \in AnyPayload, JoinRun(p) PROVE LoadingInv'
    BY <2>1, <2>2 DEF JoinRun
  <2>3. ASSUME NEW p \in AnyPayload, StartRun(p) PROVE LoadingInv'
    <3>1. PICK tracked : run' = [run EXCEPT ![NextRun] = NewRun(p, tracked)]
      BY <2>3, Zenon DEF StartRun
    <3>2. NextRun \in Runs /\ BeginLoad /\ fresh' = fresh
      BY <2>3 DEF StartRun, Unstarted
    <3>3. run'[NextRun] = NewRun(p, tracked)
      BY <3>1, <3>2 DEF TypeOK
    <3>4. NewRun(p, tracked).phase = "starting" /\ NewRun(p, tracked).seq = runSequence + 1
      BY DEF NewRun, NotStarted
    <3>5. run'[NextRun].phase = "starting" /\ run'[NextRun].seq = runSequence'
      BY <3>2, <3>3, <3>4, BeginLoadType
    <3> QED
      BY <3>2, <3>5 DEF LoadingInv, LoadingMeansRunning, IsLatestRun
  <2>4. ASSUME UseTtl PROVE LoadingInv'
    BY <2>4 DEF UseTtl, LoadingInv, LoadingMeansRunning
  <2>5. ASSUME NEW r \in Runs, Track(r) \/ RunThrows(r) PROVE LoadingInv'
    <3>1. CASE Track(r)
      <4>1. \A s \in Runs : /\ run'[s].seq = run[s].seq
                            /\ run'[s].phase = IF s = r THEN "running" ELSE run[s].phase
        BY <3>1 DEF Track, TypeOK, RunStates
      <4> QED
        BY <2>1, <3>1, <4>1 DEF Track
    <3>2. CASE RunThrows(r)
      BY <3>2 DEF RunThrows, LoadingInv, LoadingMeansRunning
    <3> QED
      BY <2>5, <3>1, <3>2
  <2>6. ASSUME NEW r \in Runs, Write(r) PROVE LoadingInv'
    <3>1. \A s \in Runs : run'[s].phase = run[s].phase /\ run'[s].seq = run[s].seq
      BY <2>6 DEF Write, TypeOK, RunStates
    <3> QED
      BY <2>1, <2>6, <3>1 DEF Write
  <2>7. ASSUME NEW r \in Runs, Reset(r) PROVE LoadingInv'
    BY <2>7 DEF Reset, LoadingInv, LoadingMeansRunning
  <2>8. ASSUME NEW r \in Runs, Fail(r) \/ \E returns \in BOOLEAN : Fulfil(r, returns)
        PROVE  LoadingInv'
    <3>1. /\ \A s \in Runs : /\ run'[s].seq = run[s].seq
                             /\ s # r => run'[s].phase = run[s].phase
          /\ runSequence' = runSequence
          /\ fresh' \in {fresh, HasTtl}
      <4>1. CASE Fail(r)
        BY <4>1 DEF Fail, TypeOK, RunStates
      <4>2. ASSUME NEW returns \in BOOLEAN, Fulfil(r, returns)
            PROVE  /\ \A s \in Runs : /\ run'[s].seq = run[s].seq
                                      /\ s # r => run'[s].phase = run[s].phase
                   /\ runSequence' = runSequence
                   /\ fresh' \in {fresh, HasTtl}
        BY <4>2 DEF Fulfil, TypeOK, RunStates
      <4> QED
        BY <2>8, <4>1, <4>2
    <3>2. IF IsLatestRun(r) THEN status' \in {"error", "success"} ELSE status' = status
      BY <2>8 DEF Fail, Fulfil
    <3> QED
      BY <3>1, <3>2 DEF LoadingInv, LoadingMeansRunning, IsLatestRun
  <2>9. ASSUME NEW r \in Runs, Finish(r) PROVE LoadingInv'
    <3>1. \A s \in Runs : run[s].phase \in {"starting", "running"} =>
                              run'[s].phase = run[s].phase /\ run'[s].seq = run[s].seq
      BY <2>9 DEF Finish, TypeOK, RunStates
    <3> QED
      BY <2>1, <2>9, <3>1 DEF Finish
  <2>10. ASSUME Expire \/ UNCHANGED vars PROVE LoadingInv'
    BY <2>1, <2>10 DEF Expire, vars, runVars
  <2> QED
    BY <2>2, <2>3, <2>4, <2>5, <2>6, <2>7, <2>8, <2>9, <2>10, StepKinds, Zenon
<1>3. LoadingInv => LoadingMeansRunning
  BY DEF LoadingInv
<1> QED
  BY <1>1, <1>2, <1>3, TypeCorrect, PTL DEF Spec

-----------------------------------------------------------------------------
(* The data shown *)

(* Every run has a sequence number of its own, none from the future: so at
   most one run is the latest, and none is after a reset.                  *)
SequenceInv ==
    /\ \A r \in Started : run[r].seq <= runSequence
    /\ \A r, s \in Started : r # s => run[r].seq # run[s].seq

NewestInv == SequenceInv /\ NewestRunWins

LEMMA NewRunWritesNothingYet ==
    ASSUME TypeOK, NewestInv, NEW r \in Runs, NEW p, NEW tracked,
           run[r].phase = "none", run' = [run EXCEPT ![r] = NewRun(p, tracked)],
           runSequence' = runSequence + 1
    PROVE  NewestInv'
<1> DEFINE new == NewRun(p, tracked)
<1>1. new.phase = "starting" /\ new.seq = runSequence + 1 /\ ~new.wrote
  BY DEF NewRun, NotStarted
<1> HIDE DEF new
<1>2. \A s \in Runs : run'[s] = IF s = r THEN new ELSE run[s]
  BY DEF TypeOK, new
<1>3. Started' = Started \cup {r} /\ r \notin Started
  BY <1>1, <1>2 DEF Started
<1>4. \A s \in Started : s \in Runs /\ s # r /\ run'[s] = run[s] /\ run[s].seq \in Nat
  BY <1>2, <1>3, RunType DEF Started, RunStates
<1>5. runSequence \in Nat
  BY DEF TypeOK
<1>6. run'[r] = new
  BY <1>2
<1>7. SequenceInv'
  BY <1>1, <1>3, <1>4, <1>5, <1>6 DEF SequenceInv, NewestInv
<1>8. ASSUME NEW s \in Started', IsLatestRun(s)' PROVE ~run'[s].wrote
  <2>1. CASE s \in Started
    BY <1>4, <1>5, <1>8, <2>1 DEF IsLatestRun, NewestInv, SequenceInv
  <2> QED
    BY <1>1, <1>3, <1>6, <2>1
<1> QED
  BY <1>7, <1>8 DEF NewestInv, NewestRunWins

(* What the newest run wrote is what the unit shows, whatever the runs it
   has overtaken write and in whatever order everybody settles.            *)
THEOREM TheNewestRunWins == Spec => []NewestRunWins
<1>1. Init => NewestInv
  <2> SUFFICES ASSUME Init PROVE NewestInv
    OBVIOUS
  <2>1. Started = {}
    BY DEF Init, Started, NotStarted
  <2> QED
    BY <2>1 DEF NewestInv, SequenceInv, NewestRunWins
<1>2. TypeOK /\ NewestInv /\ [Next]_vars => NewestInv'
  <2> SUFFICES ASSUME TypeOK, NewestInv, [Next]_vars PROVE NewestInv'
    OBVIOUS
  <2> USE StateSpace
  <2>0. /\ runSequence \in Nat
        /\ \A s \in Started : s \in Runs /\ run[s].seq \in Nat
    BY RunType DEF TypeOK, Started, RunStates
  (* The steps that leave what was written, and the sequence. *)
  <2>1. ASSUME Started' = Started, UNCHANGED <<runSequence, content>>,
               \A r \in Runs : /\ run'[r].seq = run[r].seq
                               /\ run'[r].payload = run[r].payload
                               /\ run'[r].epoch = run[r].epoch
                               /\ run'[r].wrote = run[r].wrote
        PROVE  NewestInv'
    <3>1. SequenceInv'
      BY <2>0, <2>1 DEF NewestInv, SequenceInv
    <3>2. NewestRunWins'
      BY <2>0, <2>1 DEF NewestInv, NewestRunWins, IsLatestRun
    <3> QED
      BY <3>1, <3>2 DEF NewestInv
  (* The steps after which no run is the latest. *)
  <2>2. ASSUME run' = run, runSequence' = runSequence + 1 PROVE NewestInv'
    <3>1. Started' = Started
      BY <2>2 DEF Started
    <3> QED
      BY <2>0, <2>2, <3>1 DEF NewestInv, SequenceInv, NewestRunWins, IsLatestRun
  <2>3. ASSUME NEW p \in AnyPayload, JoinRun(p) PROVE NewestInv'
    BY <2>1, <2>3 DEF JoinRun, Started
  <2>4. ASSUME UseTtl PROVE NewestInv'
    BY <2>2, <2>4, BeginLoadType DEF UseTtl
  <2>5. ASSUME NEW p \in AnyPayload, StartRun(p) PROVE NewestInv'
    <3>1. PICK tracked : run' = [run EXCEPT ![NextRun] = NewRun(p, tracked)]
      BY <2>5, Zenon DEF StartRun
    <3>2. NextRun \in Runs /\ run[NextRun].phase = "none" /\ BeginLoad
      BY <2>5 DEF StartRun, Unstarted
    <3>3. runSequence' = runSequence + 1
      BY <3>2, BeginLoadType
    <3> QED
      BY <3>1, <3>2, <3>3, NewRunWritesNothingYet
  <2>6. ASSUME NEW r \in Runs, Track(r) \/ RunThrows(r) PROVE NewestInv'
    <3>1. \A s \in Runs : /\ run'[s].seq = run[s].seq
                          /\ run'[s].payload = run[s].payload
                          /\ run'[s].epoch = run[s].epoch
                          /\ run'[s].wrote = run[s].wrote
                          /\ run'[s].phase = "none" <=> run[s].phase = "none"
      <4>1. CASE Track(r)
        BY <4>1 DEF Track, TypeOK, RunStates
      <4>2. CASE RunThrows(r)
        BY <4>2 DEF RunThrows, TypeOK, RunStates
      <4> QED
        BY <2>6, <4>1, <4>2
    <3>2. Started' = Started
      BY <3>1 DEF Started
    <3> QED
      BY <2>1, <2>6, <3>1, <3>2 DEF Track, RunThrows
  <2>7. ASSUME NEW r \in Runs, Write(r) PROVE NewestInv'
    <3>1. /\ \A s \in Runs : /\ run'[s].seq = run[s].seq
                             /\ run'[s].payload = run[s].payload
                             /\ run'[s].epoch = run[s].epoch
                             /\ run'[s].phase = run[s].phase
                             /\ s # r => run'[s].wrote = run[s].wrote
          /\ runSequence' = runSequence
          /\ r \in Started
      BY <2>7 DEF Write, TypeOK, RunStates
    <3>2. Started' = Started
      BY <3>1 DEF Started
    <3>3. SequenceInv'
      BY <2>0, <3>1, <3>2 DEF NewestInv, SequenceInv
    <3>4. ASSUME NEW s \in Started, IsLatestRun(s), run'[s].wrote
          PROVE  content' = [payload |-> run[s].payload, epoch |-> run[s].epoch]
      <4>1. CASE ActiveContext(r)
        <5>1. PICK t \in Started : /\ run[t].payload = run[r].payload
                                   /\ run[t].epoch = run[r].epoch
                                   /\ IsLatestRun(t)
          BY <4>1 DEF ActiveContext
        <5>2. t = s
          BY <3>4, <5>1 DEF NewestInv, SequenceInv, IsLatestRun
        <5>3. content' = [payload |-> run[r].payload, epoch |-> run[r].epoch]
          BY <2>7, <4>1 DEF Write
        <5> QED
          BY <5>1, <5>2, <5>3
      <4>2. CASE ~ActiveContext(r)
        <5>1. s # r
          BY <3>4, <4>2 DEF ActiveContext
        <5>2. content' = content
          BY <2>7, <4>2 DEF Write
        <5> QED
          BY <2>0, <3>1, <3>4, <5>1, <5>2 DEF NewestInv, NewestRunWins
      <4> QED
        BY <4>1, <4>2
    <3>5. NewestRunWins'
      BY <2>0, <3>1, <3>2, <3>4 DEF NewestRunWins, IsLatestRun
    <3> QED
      BY <3>3, <3>5 DEF NewestInv
  <2>8. ASSUME NEW r \in Runs, Reset(r) PROVE NewestInv'
    BY <2>2, <2>8 DEF Reset
  <2>9. ASSUME NEW r \in Runs, Fail(r) \/ Finish(r) PROVE NewestInv'
    <3>1. \A s \in Runs : /\ run'[s].seq = run[s].seq
                          /\ run'[s].payload = run[s].payload
                          /\ run'[s].epoch = run[s].epoch
                          /\ run'[s].wrote = run[s].wrote
                          /\ run'[s].phase = "none" <=> run[s].phase = "none"
      BY <2>9 DEF Fail, Finish, TypeOK, RunStates
    <3>2. Started' = Started
      BY <3>1 DEF Started
    <3> QED
      BY <2>1, <2>9, <3>1, <3>2 DEF Fail, Finish
  <2>10. ASSUME NEW r \in Runs, NEW returns \in BOOLEAN, Fulfil(r, returns) PROVE NewestInv'
    <3>1. \A s \in Runs : /\ run'[s].seq = run[s].seq
                          /\ run'[s].payload = run[s].payload
                          /\ run'[s].epoch = run[s].epoch
                          /\ run'[s].wrote = run[s].wrote
                          /\ run'[s].phase = "none" <=> run[s].phase = "none"
      BY <2>10 DEF Fulfil, TypeOK, RunStates
    <3>2. Started' = Started
      BY <3>1 DEF Started
    <3> QED
      BY <2>1, <2>10, <3>1, <3>2 DEF Fulfil
  <2>11. ASSUME Expire \/ UNCHANGED vars PROVE NewestInv'
    BY <2>1, <2>11 DEF Expire, vars, runVars, Started
  <2> QED
    BY <2>3, <2>4, <2>5, <2>6, <2>7, <2>8, <2>9, <2>10, <2>11, StepKinds, Zenon
<1>3. NewestInv => NewestRunWins
  BY DEF NewestInv
<1> QED
  BY <1>1, <1>2, <1>3, TypeCorrect, PTL DEF Spec
-----------------------------------------------------------------------------
(* The source cache *)

(* The count is of the runs in flight, so the last of them to finish finds
   it at one; and what was put off is always put off for one of them.      *)
RecordInv ==
    CacheEnabled /\ ~MayThrow =>
        /\ activeRunCount = Cardinality(Unfinished)
        /\ hasPendingCacheSync => activeRunCount > 0
        /\ hasPendingCacheSync \/ cacheRecord = content

LEMMA UnfinishedIsFinite == IsFiniteSet(Unfinished) /\ IsFiniteSet(Unfinished')
<1>1. IsFiniteSet(Runs)
  BY FS_Interval DEF Runs
<1>2. Unfinished \subseteq Runs /\ Unfinished' \subseteq Runs
  BY DEF Unfinished, Starting, Promised
<1> QED
  BY <1>1, <1>2, FS_Subset

(* A load hydrates the data from the record, or leaves both. *)
LEMMA BeginLoadKeepsRecord ==
    ASSUME BeginLoad, UNCHANGED <<cacheRecord, hasPendingCacheSync>>,
           hasPendingCacheSync \/ cacheRecord = content
    PROVE  hasPendingCacheSync' \/ cacheRecord' = content'
  BY DEF BeginLoad

(* A request is put off exactly while runs are in flight. *)
LEMMA RequestKeepsRecord ==
    ASSUME CacheEnabled, NEW active \in Nat, RequestCacheSync(content', active),
           hasPendingCacheSync => active > 0
    PROVE  /\ hasPendingCacheSync' => active > 0
           /\ hasPendingCacheSync' \/ cacheRecord' = content'
  BY DEF RequestCacheSync

LEMMA RecordStep ==
    ASSUME TypeOK, RecordInv, CacheEnabled, ~MayThrow, [Next]_vars
    PROVE  /\ activeRunCount' = Cardinality(Unfinished')
           /\ hasPendingCacheSync' => activeRunCount' > 0
           /\ hasPendingCacheSync' \/ cacheRecord' = content'
<1> DEFINE Kept == /\ activeRunCount' = Cardinality(Unfinished')
                   /\ hasPendingCacheSync' => activeRunCount' > 0
                   /\ hasPendingCacheSync' \/ cacheRecord' = content'
<1>0. /\ activeRunCount = Cardinality(Unfinished)
      /\ hasPendingCacheSync => activeRunCount > 0
      /\ hasPendingCacheSync \/ cacheRecord = content
      /\ activeRunCount \in Nat
  BY DEF RecordInv, TypeOK
<1> USE StateSpace DEF Starting, Promised
<1>1. ASSUME NEW p \in AnyPayload, JoinRun(p) PROVE Kept
  <2>1. Unfinished' = Unfinished
    BY <1>1 DEF JoinRun, Unfinished
  <2> QED
    BY <1>0, <1>1, <2>1 DEF JoinRun, cacheVars
<1>2. ASSUME UseTtl PROVE Kept
  <2>1. Unfinished' = Unfinished
    BY <1>2 DEF UseTtl, Unfinished
  <2> QED
    BY <1>0, <1>2, <2>1, BeginLoadKeepsRecord DEF UseTtl
<1>3. ASSUME NEW p \in AnyPayload, StartRun(p) PROVE Kept
  <2> DEFINE r == NextRun
  <2>1. PICK tracked : run' = [run EXCEPT ![NextRun] = NewRun(p, tracked)]
    BY <1>3, Zenon DEF StartRun
  <2>2. r \in Runs /\ run[r].phase = "none" /\ BeginLoad /\ activeRunCount' = activeRunCount + 1
    BY <1>3 DEF StartRun, Unstarted
  <2>3. NewRun(p, tracked).phase = "starting"
    BY DEF NewRun, NotStarted
  <2>4. \A s \in Runs : run'[s].phase = IF s = r THEN "starting" ELSE run[s].phase
    BY <2>1, <2>2, <2>3 DEF TypeOK
  <2> HIDE DEF r
  <2>5. Unfinished' = Unfinished \cup {r} /\ r \notin Unfinished
    BY <2>2, <2>4 DEF Unfinished
  <2>6. Cardinality(Unfinished') = Cardinality(Unfinished) + 1
    BY <2>5, UnfinishedIsFinite, FS_AddElement
  <2>7. activeRunCount' > 0
    BY <1>0, <2>2
  <2>8. hasPendingCacheSync' \/ cacheRecord' = content'
    BY <1>0, <1>3, BeginLoadKeepsRecord DEF StartRun
  <2> QED
    BY <1>0, <2>2, <2>6, <2>7, <2>8
<1>4. ASSUME NEW r \in Runs, Track(r) \/ RunThrows(r) PROVE Kept
  <2>1. Track(r)
    BY <1>4 DEF RunThrows
  <2>2. \A s \in Runs : run'[s].phase = IF s = r THEN "running" ELSE run[s].phase
    BY <2>1 DEF Track, TypeOK, RunStates
  <2>3. Unfinished' = Unfinished
    BY <2>1, <2>2 DEF Track, Unfinished
  <2> QED
    BY <1>0, <2>1, <2>3 DEF Track, cacheVars
<1>5. ASSUME NEW r \in Runs, Write(r) PROVE Kept
  <2>1. \A s \in Runs : run'[s].phase = run[s].phase
    BY <1>5 DEF Write, TypeOK, RunStates
  <2>2. Unfinished' = Unfinished /\ activeRunCount' = activeRunCount
    BY <1>5, <2>1 DEF Write, Unfinished
  <2>3. CASE ActiveContext(r)
    <3>1. RequestCacheSync(content', activeRunCount)
      BY <1>5, <2>3 DEF Write
    <3> QED
      BY <1>0, <2>2, <3>1, RequestKeepsRecord
  <2>4. CASE ~ActiveContext(r)
    BY <1>0, <1>5, <2>2, <2>4 DEF Write
  <2> QED
    BY <2>3, <2>4
<1>6. ASSUME NEW r \in Runs, Reset(r) PROVE Kept
  <2>1. Unfinished' = Unfinished /\ activeRunCount' = activeRunCount
    BY <1>6 DEF Reset, Unfinished
  <2>2. RequestCacheSync(content', activeRunCount)
    BY <1>6 DEF Reset
  <2> QED
    BY <1>0, <2>1, <2>2, RequestKeepsRecord
<1>7. ASSUME NEW r \in Runs, Fail(r) \/ \E returns \in BOOLEAN : Fulfil(r, returns)
      PROVE  Kept
  <2>1. /\ run[r].phase = "running" /\ run'[r].phase = "settled"
        /\ \A s \in Runs \ {r} : run'[s].phase = run[s].phase
    <3>1. CASE Fail(r)
      BY <3>1 DEF Fail, TypeOK, RunStates
    <3>2. ASSUME NEW returns \in BOOLEAN, Fulfil(r, returns)
          PROVE  /\ run[r].phase = "running" /\ run'[r].phase = "settled"
                 /\ \A s \in Runs \ {r} : run'[s].phase = run[s].phase
      BY <3>2 DEF Fulfil, TypeOK, RunStates
    <3> QED
      BY <1>7, <3>1, <3>2
  <2>2. Unfinished' = Unfinished
    BY <2>1 DEF Unfinished
  <2>3. activeRunCount' = activeRunCount /\ content' = content
    BY <1>7 DEF Fail, Fulfil
  <2>4. \/ UNCHANGED <<cacheRecord, hasPendingCacheSync>>
        \/ RequestCacheSync(content, activeRunCount)
    BY <1>7 DEF Fail, Fulfil, cacheVars
  <2>5. CASE UNCHANGED <<cacheRecord, hasPendingCacheSync>>
    BY <1>0, <2>2, <2>3, <2>5
  <2>6. CASE RequestCacheSync(content, activeRunCount)
    BY <1>0, <2>2, <2>3, <2>6, RequestKeepsRecord
  <2> QED
    BY <2>4, <2>5, <2>6
<1>8. ASSUME NEW r \in Runs, Finish(r) PROVE Kept
  <2> DEFINE active == IF activeRunCount > 0 THEN activeRunCount - 1 ELSE 0
             flush  == hasPendingCacheSync /\ active = 0
  <2>1. run[r].phase = "settled" /\ \A s \in Runs : run'[s].phase = IF s = r THEN "done" ELSE run[s].phase
    BY <1>8 DEF Finish, TypeOK, RunStates
  <2>2. Unfinished' = Unfinished \ {r} /\ r \in Unfinished
    BY <2>1 DEF Unfinished
  <2>3. Cardinality(Unfinished') = Cardinality(Unfinished) - 1
    BY <2>2, UnfinishedIsFinite, FS_RemoveElement
  <2>4. Cardinality(Unfinished) # 0
    BY <2>2, UnfinishedIsFinite, FS_EmptySet
  <2>5. /\ activeRunCount' = active /\ content' = content
        /\ hasPendingCacheSync' = (hasPendingCacheSync /\ ~flush)
        /\ cacheRecord' = IF flush THEN content ELSE cacheRecord
    BY <1>8 DEF Finish
  <2>6. active = activeRunCount - 1
    BY <1>0, <2>4
  <2>7. active \in Nat /\ activeRunCount' = Cardinality(Unfinished')
    BY <1>0, <2>3, <2>4, <2>5, <2>6
  <2>8. hasPendingCacheSync' => active > 0
    <3>1. hasPendingCacheSync' => active # 0
      BY <2>5
    <3> HIDE DEF active
    <3> QED
      BY <2>7, <3>1
  <2>9. hasPendingCacheSync' \/ cacheRecord' = content'
    BY <1>0, <2>5
  <2> HIDE DEF active
  <2> QED
    BY <2>5, <2>7, <2>8, <2>9
<1>9. ASSUME Expire \/ UNCHANGED vars PROVE Kept
  <2>1. /\ Unfinished' = Unfinished
        /\ UNCHANGED <<activeRunCount, content, cacheRecord, hasPendingCacheSync>>
    BY <1>9 DEF Expire, vars, runVars, cacheVars, Unfinished
  <2> QED
    BY <1>0, <2>1
<1> HIDE DEF Kept
<1>10. Kept
  BY <1>1, <1>2, <1>3, <1>4, <1>5, <1>6, <1>7, <1>8, <1>9, StepKinds
<1> QED
  BY <1>10 DEF Kept

(* However runs overlap, write, reset and settle, once the last of them is
   done the cache holds what the unit shows and nothing is put off.        *)
THEOREM TheCacheCatchesUp == Spec => []CacheCatchesUp
<1>1. Init => RecordInv
  <2> SUFFICES ASSUME Init PROVE RecordInv
    OBVIOUS
  <2>1. Unfinished = {}
    BY SlotsInvInitially DEF Unfinished
  <2>2. Cardinality(Unfinished) = 0
    BY <2>1, FS_EmptySet
  <2> QED
    BY <2>2 DEF Init, RecordInv
<1>2. TypeOK /\ RecordInv /\ [Next]_vars => RecordInv'
  <2> SUFFICES ASSUME TypeOK, RecordInv, [Next]_vars, CacheEnabled', ~MayThrow'
               PROVE  /\ activeRunCount' = Cardinality(Unfinished')
                      /\ hasPendingCacheSync' => activeRunCount' > 0
                      /\ hasPendingCacheSync' \/ cacheRecord' = content'
    BY DEF RecordInv
  <2>1. CacheEnabled /\ ~MayThrow
    BY OptionsStay DEF CacheEnabled, MayThrow
  <2> QED
    BY <2>1, RecordStep
<1>3. RecordInv => CacheCatchesUp
  <2> SUFFICES ASSUME RecordInv, CacheEnabled, ~MayThrow, Unfinished = {}
               PROVE  cacheRecord = content /\ ~hasPendingCacheSync
    BY DEF CacheCatchesUp
  <2>1. Cardinality(Unfinished) = 0
    BY FS_EmptySet
  <2> QED
    BY <2>1 DEF RecordInv
<1> QED
  BY <1>1, <1>2, <1>3, TypeCorrect, PTL DEF Spec

=============================================================================
