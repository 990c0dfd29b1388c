-------------------------- MODULE ApplicationProofs --------------------------
(***************************************************************************)
(* Theorems about what an application calls, for every value of the        *)
(* constants: any number of listeners, payloads, runs, edits and units.    *)
(*                                                                         *)
(* Drafts: whose a draft is is inductive; that its listeners have heard it *)
(* needs that a version that is made differs from those before it.         *)
(*                                                                         *)
(* Action units: the runs that were begun are those numbered up to some    *)
(* number, and what is tracked for a payload is unfinished and a run of it.*)
(*                                                                         *)
(* Derived units: the record of a dependency that is subscribed to, and    *)
(* what a computation under way has read of it, are what the dependency    *)
(* is unless a change was missed; what is shown at rest follows from that. *)
(*                                                                         *)
(* Lazy units: whoever listens is bridged to the unit once it is there;    *)
(* before that nothing runs, so nothing is there to be heard.              *)
(*                                                                         *)
(* Their cleanups: only a run that has ended returned one, and as long as  *)
(* no runs overlap none is held while one runs.                            *)
(***************************************************************************)
EXTENDS MCApplication, FiniteSetTheorems, TLAPS

-----------------------------------------------------------------------------
(* Drafts.  What is to be shown is inductive as it stands; a version, an
   identity, a unit and a mode only have to differ from the missing one.   *)

DraftInv == Draft!DraftsTypeOK /\ Draft!DraftsAreOwned

DraftVersions == Draft!Versions \cup {None}
Shown == [dirty : BOOLEAN, value : DraftVersions]

LEMMA DraftConstantsHold ==
    /\ MaxEdits \in Nat
    /\ \A u \in DraftUnits : u # None /\ Identity[u] \in Draft!Identities
    /\ \A i \in Draft!Identities : i # None
    /\ \A m \in Draft!Modes : m # None
    /\ "local" # None
    /\ \A v \in Draft!Versions : v # None
  BY ApplicationConstants DEF Draft!DraftsConstants, Draft!Identities, Draft!Modes

SourcesType ==
    held \in BOOLEAN /\ settled \subseteq DraftUnits /\ frozen \in [DraftUnits -> DraftVersions]

(* What a source shows when it is read, it keeps. *)
LEMMA ReadsType ==
    ASSUME DraftInv, NEW u \in DraftUnits, Draft!Reads(u)
    PROVE  SourcesType' /\ held' = held
<1>1. SourcesType /\ base \in DraftVersions /\ draft \in DraftVersions
  BY DEF DraftInv, Draft!DraftsTypeOK, DraftVersions, SourcesType
<1>2. Draft!SourceOf(u) \in DraftVersions
  BY <1>1 DEF Draft!SourceOf, SourcesType
<1> QED
  BY <1>1, <1>2 DEF Draft!Reads, SourcesType

LEMMA SourcesKept ==
    ASSUME DraftInv, UNCHANGED Draft!sources
    PROVE  SourcesType' /\ held' = held
  BY DEF DraftInv, Draft!DraftsTypeOK, DraftVersions, SourcesType, Draft!sources

(* Whatever the store becomes, those who are told see a version of it. *)
LEMMA NotifyType ==
    ASSUME NEW callers, Draft!Notify(callers), told \in [DraftUnits -> Shown],
           base' \in DraftVersions, draft' \in DraftVersions, SourcesType'
    PROVE  told' \in [DraftUnits -> Shown]
<1>1. ASSUME NEW u \in DraftUnits PROVE Draft!Snapshot(u)' \in Shown
  <2>1. Draft!SourceOf(u)' \in DraftVersions /\ Draft!Read(u)' \in DraftVersions
    BY DEF Draft!SourceOf, Draft!Read, SourcesType
  <2>2. Draft!Shown(u)' \in DraftVersions
    BY <2>1 DEF Draft!Shown
  <2>3. Draft!Active(u)' \in BOOLEAN
    BY DEF Draft!Active
  <2> QED
    BY <2>1, <2>2, <2>3 DEF Draft!Snapshot, Shown
<1> QED
  BY <1>1 DEF Draft!Notify

LEMMA VersionType ==
    ASSUME NEW v \in DraftVersions, v # None, NEW n \in 1..MaxEdits + 1, NEW e \in SUBSET (1..MaxEdits)
    PROVE  /\ Draft!Version(v.edits \cup e, n) \in Draft!Versions
           /\ Draft!Version(v.edits, n) \in Draft!Versions
           /\ Draft!Version(e, n) \in Draft!Versions
           /\ v.edits \in SUBSET (1..MaxEdits)
<1>1. v \in [edits : SUBSET (1..MaxEdits), at : 0..MaxEdits + 1]
  BY DEF DraftVersions, Draft!Versions
<1>2. v.edits \in SUBSET (1..MaxEdits) /\ v.edits \cup e \in SUBSET (1..MaxEdits)
  BY <1>1
<1>3. n \in 0..MaxEdits + 1
  BY DraftConstantsHold
<1> QED
  BY <1>2, <1>3 DEF Draft!Versions, Draft!Version

LEMMA DraftsInitially == Draft!DraftsInit => DraftInv
<1> SUFFICES ASSUME Draft!DraftsInit PROVE DraftInv
  OBVIOUS
<1>1. base \in Draft!Versions
  BY DraftConstantsHold DEF Draft!DraftsInit, Draft!Version, Draft!Versions
<1>2. Draft!DraftsTypeOK
  BY <1>1, DraftConstantsHold DEF Draft!DraftsInit, Draft!DraftsTypeOK
<1>3. Draft!DraftsAreOwned
  BY DraftConstantsHold DEF Draft!DraftsInit, Draft!DraftsAreOwned
<1> QED
  BY <1>2, <1>3 DEF DraftInv

LEMMA SetStep ==
    ASSUME DraftInv, NEW u \in DraftUnits, Draft!Set(u)
    PROVE  DraftInv'
<1> DEFINE i == Identity[u]
           version == Draft!Version(Draft!Patched(u).edits \cup {steps + 1}, steps + 1)
<1>1. /\ steps \in Nat /\ steps + 1 \in 1..MaxEdits + 1 /\ steps' = steps + 1 /\ steps' \in 0..MaxEdits
      /\ {steps + 1} \in SUBSET (1..MaxEdits)
  BY DraftConstantsHold DEF DraftInv, Draft!DraftsTypeOK, Draft!Set, Draft!Step
<1>2. /\ base \in DraftVersions /\ draft \in DraftVersions /\ queued \in DraftVersions
      /\ told \in [DraftUnits -> Shown]
  BY DEF DraftInv, Draft!DraftsTypeOK, DraftVersions, Shown
<1>3. version \in Draft!Versions
  <2>1. SourcesType
    BY DEF DraftInv, Draft!DraftsTypeOK, DraftVersions, SourcesType
  <2>2. Draft!Patched(u) \in DraftVersions /\ Draft!Patched(u) # None
    BY <1>2, <2>1 DEF Draft!Set, Draft!Patched, Draft!Read, Draft!SourceOf, SourcesType
  <2> QED
    BY <1>1, <2>2, VersionType
<1>4. /\ edited' = edited \cup {u} /\ UNCHANGED <<base, mode, many, listening>> /\ Draft!Notify({u})
      /\ mode[u] \in Draft!Modes /\ SourcesType'
  BY ReadsType DEF DraftInv, Draft!DraftsTypeOK, Draft!Set, Draft!Rest
<1> HIDE DEF version
<1>5. CASE Draft!Unowned(i)
  <2>1. /\ draft' = version /\ owner' = i /\ draftMode' = mode[u]
        /\ local' = IF mode[u] = "local" THEN u ELSE None
        /\ UNCHANGED <<queued, waiting>>
    BY <1>5 DEF Draft!Set, version
  <2>2. told' \in [DraftUnits -> Shown]
    BY <1>2, <1>3, <1>4, <2>1, NotifyType DEF DraftVersions
  <2>3. Draft!DraftsTypeOK'
    BY <1>1, <1>2, <1>3, <1>4, <2>1, <2>2, DraftConstantsHold
       DEF DraftInv, Draft!DraftsTypeOK, DraftVersions, Shown, SourcesType
  <2>4. Draft!DraftsAreOwned'
    BY <1>3, <1>4, <2>1, DraftConstantsHold DEF Draft!DraftsAreOwned
  <2> QED
    BY <2>3, <2>4 DEF DraftInv
<1>6. CASE ~Draft!Unowned(i)
  <2>1. /\ queued' = version /\ waiting' = [waiting EXCEPT !.edits = @ \cup {steps + 1}]
        /\ UNCHANGED <<draft, owner, draftMode, local>>
    BY <1>6 DEF Draft!Set, version
  <2>2. told' \in [DraftUnits -> Shown]
    BY <1>2, <1>4, <2>1, NotifyType
  <2>3. waiting' \in [edits : SUBSET (1..MaxEdits), lost : SUBSET (1..MaxEdits)]
    BY <1>1, <2>1 DEF DraftInv, Draft!DraftsTypeOK
  <2>4. Draft!DraftsTypeOK'
    BY <1>1, <1>2, <1>3, <1>4, <2>1, <2>2, <2>3 DEF DraftInv, Draft!DraftsTypeOK, DraftVersions, Shown, SourcesType
  <2>5. Draft!DraftsAreOwned'
    BY <1>6, <2>1 DEF DraftInv, Draft!DraftsAreOwned, Draft!Unowned
  <2> QED
    BY <2>4, <2>5 DEF DraftInv
<1> QED
  BY <1>5, <1>6

LEMMA SetNothingStep ==
    ASSUME DraftInv, NEW u \in DraftUnits, Draft!SetNothing(u)
    PROVE  DraftInv'
<1>1. /\ UNCHANGED <<base, draft, owner, draftMode, local, queued, waiting, edited, steps, mode, many, listening>>
      /\ Draft!Notify({u}) /\ SourcesType'
  BY ReadsType DEF Draft!SetNothing, Draft!Rest, Draft!stored
<1>2. told' \in [DraftUnits -> Shown]
  <2>1. /\ base' \in DraftVersions /\ draft' \in DraftVersions
        /\ told \in [DraftUnits -> Shown]
    BY <1>1 DEF DraftInv, Draft!DraftsTypeOK, DraftVersions, Shown
  <2> QED
    BY <1>1, <2>1, NotifyType
<1> QED
  BY <1>1, <1>2 DEF DraftInv, Draft!DraftsTypeOK, Draft!DraftsAreOwned, DraftVersions, Shown, SourcesType

LEMMA ClearStep ==
    ASSUME DraftInv, NEW u \in DraftUnits, Draft!Clear(u)
    PROVE  DraftInv'
<1>1. /\ base \in DraftVersions /\ draft \in DraftVersions /\ queued \in DraftVersions
      /\ told \in [DraftUnits -> Shown] /\ steps \in 0..MaxEdits
  BY DEF DraftInv, Draft!DraftsTypeOK, DraftVersions, Shown
<1>2. UNCHANGED <<edited, steps, mode, many, listening>> /\ Draft!Notify({u}) /\ SourcesType'
  BY SourcesKept DEF Draft!Clear, Draft!Rest, Draft!sources
<1>3. CASE Draft!Active(u)
  <2>1. /\ draft' = None /\ owner' = None /\ draftMode' = None /\ local' = None /\ queued' = None
        /\ base' = Draft!ApplyQueued
        /\ waiting' = [edits |-> {},
                       lost  |-> waiting.lost \cup (IF base' = None THEN {} ELSE waiting.edits \ base'.edits)]
    BY <1>3 DEF Draft!Clear, Draft!NoDraft
  <2>2. base' \in DraftVersions
    <3>1. CASE queued = None
      BY <1>1, <2>1, <3>1 DEF Draft!ApplyQueued
    <3>2. CASE queued # None
      <4>1. steps + 1 \in 1..MaxEdits + 1
        BY <1>1, DraftConstantsHold
      <4>2. Draft!Version(queued.edits, steps + 1) \in Draft!Versions
        BY <1>1, <3>2, <4>1, VersionType
      <4> QED
        BY <2>1, <3>2, <4>2 DEF Draft!ApplyQueued, DraftVersions
    <3> QED
      BY <3>1, <3>2
  <2>3. told' \in [DraftUnits -> Shown]
    BY <1>1, <1>2, <2>1, <2>2, NotifyType DEF DraftVersions
  <2>4. waiting' \in [edits : SUBSET (1..MaxEdits), lost : SUBSET (1..MaxEdits)]
    <3>1. waiting.edits \in SUBSET (1..MaxEdits) /\ waiting.lost \in SUBSET (1..MaxEdits)
      BY DEF DraftInv, Draft!DraftsTypeOK
    <3> QED
      BY <2>1, <3>1
  <2>5. Draft!DraftsTypeOK'
    BY <1>1, <1>2, <2>1, <2>2, <2>3, <2>4 DEF DraftInv, Draft!DraftsTypeOK, DraftVersions, Shown, SourcesType
  <2>6. Draft!DraftsAreOwned'
    BY <2>1, DraftConstantsHold DEF Draft!DraftsAreOwned
  <2> QED
    BY <2>5, <2>6 DEF DraftInv
<1>4. CASE ~Draft!Active(u)
  <2>1. UNCHANGED <<base, draft, owner, draftMode, local, queued, waiting>>
    BY <1>4 DEF Draft!Clear, Draft!stored
  <2>2. told' \in [DraftUnits -> Shown]
    BY <1>1, <1>2, <2>1, NotifyType
  <2> QED
    BY <1>2, <2>1, <2>2 DEF DraftInv, Draft!DraftsTypeOK, Draft!DraftsAreOwned, DraftVersions, Shown, SourcesType
<1> QED
  BY <1>3, <1>4

LEMMA CommitStep ==
    ASSUME DraftInv, NEW i, Draft!Commit(i)
    PROVE  DraftInv'
<1>1. /\ base \in DraftVersions /\ draft \in DraftVersions /\ draft # None
      /\ told \in [DraftUnits -> Shown]
  BY DEF DraftInv, Draft!DraftsTypeOK, DraftVersions, Shown, Draft!Commit
<1>2. steps + 1 \in 1..MaxEdits + 1 /\ steps' \in 0..MaxEdits
  BY DraftConstantsHold DEF DraftInv, Draft!DraftsTypeOK, Draft!Commit, Draft!Step
<1>3. /\ UNCHANGED <<edited, mode, many, listening>> /\ Draft!Notify({}) /\ SourcesType'
      /\ draft' = None /\ owner' = None /\ draftMode' = None /\ local' = None /\ queued' = None
      /\ base' = Draft!Version(draft.edits, steps + 1)
      /\ waiting' = [waiting EXCEPT !.edits = {}]
  BY SourcesKept DEF Draft!Commit, Draft!Rest, Draft!NoDraft, Draft!NothingWaits, Draft!sources
<1>4. base' \in DraftVersions
  <2>1. Draft!Version(draft.edits, steps + 1) \in Draft!Versions
    BY <1>1, <1>2, VersionType
  <2> QED
    BY <1>3, <2>1 DEF DraftVersions
<1>5. told' \in [DraftUnits -> Shown]
  BY <1>1, <1>3, <1>4, NotifyType DEF DraftVersions
<1>6. waiting' \in [edits : SUBSET (1..MaxEdits), lost : SUBSET (1..MaxEdits)]
  BY <1>3 DEF DraftInv, Draft!DraftsTypeOK
<1>7. Draft!DraftsTypeOK'
  BY <1>2, <1>3, <1>4, <1>5, <1>6 DEF DraftInv, Draft!DraftsTypeOK, DraftVersions, Shown, SourcesType
<1>8. Draft!DraftsAreOwned'
  BY <1>3, DraftConstantsHold DEF Draft!DraftsAreOwned
<1> QED
  BY <1>7, <1>8 DEF DraftInv

LEMMA UpsertStep ==
    ASSUME DraftInv, Draft!Upsert
    PROVE  DraftInv'
<1> DEFINE had == IF base = None THEN {} ELSE base.edits
<1>1. /\ base \in DraftVersions /\ draft \in DraftVersions /\ told \in [DraftUnits -> Shown]
  BY DEF DraftInv, Draft!DraftsTypeOK, DraftVersions, Shown
<1>2. /\ steps + 1 \in 1..MaxEdits + 1 /\ steps' \in 0..MaxEdits
      /\ {steps + 1} \in SUBSET (1..MaxEdits)
  BY DraftConstantsHold DEF DraftInv, Draft!DraftsTypeOK, Draft!Upsert, Draft!Step
<1>3. /\ UNCHANGED <<draft, owner, draftMode, local, queued, waiting, edited, mode, many, listening>>
      /\ SourcesType' /\ Draft!Notify({}) /\ base' = Draft!Version(had \cup {steps + 1}, steps + 1)
  BY SourcesKept DEF Draft!Upsert, Draft!Rest, Draft!sources
<1>4. had \in SUBSET (1..MaxEdits)
  BY <1>1 DEF DraftVersions, Draft!Versions
<1> HIDE DEF had
<1>5. base' \in DraftVersions
  <2>1. had \cup {steps + 1} \in SUBSET (1..MaxEdits)
    BY <1>2, <1>4
  <2>2. steps + 1 \in 0..MaxEdits + 1
    BY <1>2
  <2> QED
    BY <1>3, <2>1, <2>2 DEF DraftVersions, Draft!Versions, Draft!Version
<1>6. told' \in [DraftUnits -> Shown]
  BY <1>1, <1>3, <1>5, NotifyType
<1> QED
  BY <1>2, <1>3, <1>5, <1>6 DEF DraftInv, Draft!DraftsTypeOK, Draft!DraftsAreOwned, DraftVersions, Shown, SourcesType

LEMMA DeleteStep ==
    ASSUME DraftInv, Draft!Delete
    PROVE  DraftInv'
<1>1. /\ UNCHANGED <<edited, steps, mode, many, listening>> /\ base' = None
      /\ draft' = None /\ owner' = None /\ draftMode' = None /\ local' = None /\ queued' = None
      /\ waiting' = [waiting EXCEPT !.edits = {}]
  BY DEF Draft!Delete, Draft!Rest, Draft!NoDraft, Draft!NothingWaits
<1>2. /\ told \in [DraftUnits -> Shown] /\ draft \in DraftVersions /\ listening \subseteq DraftUnits
      /\ SourcesType /\ None \in DraftVersions
  BY DEF DraftInv, Draft!DraftsTypeOK, DraftVersions, Shown, SourcesType
<1>3. told' \in [DraftUnits -> Shown] /\ SourcesType'
  <2>1. \A u \in DraftUnits : [dirty |-> Draft!Active(u), value |-> None] \in Shown
    BY <1>2 DEF Draft!Active, Shown
  <2>2. CASE held
    BY <1>2, <2>1, <2>2 DEF Draft!Delete, SourcesType
  <2>3. CASE ~held
    BY <1>2, <2>3 DEF Draft!Delete, SourcesType
  <2> QED
    BY <2>2, <2>3
<1>4. waiting' \in [edits : SUBSET (1..MaxEdits), lost : SUBSET (1..MaxEdits)]
  BY <1>1 DEF DraftInv, Draft!DraftsTypeOK
<1>5. Draft!DraftsTypeOK'
  BY <1>1, <1>3, <1>4 DEF DraftInv, Draft!DraftsTypeOK, DraftVersions, Shown, SourcesType
<1>6. Draft!DraftsAreOwned'
  BY <1>1, DraftConstantsHold DEF Draft!DraftsAreOwned
<1> QED
  BY <1>5, <1>6 DEF DraftInv

LEMMA DraftListenersStep ==
    ASSUME DraftInv, NEW u \in DraftUnits, Draft!Subscribe(u) \/ Draft!Unsubscribe(u)
    PROVE  DraftInv'
<1>1. /\ base \in DraftVersions /\ draft \in DraftVersions /\ told \in [DraftUnits -> Shown] /\ SourcesType
  BY DEF DraftInv, Draft!DraftsTypeOK, DraftVersions, Shown, SourcesType
<1>2. Draft!Snapshot(u) \in Shown
  <2>1. Draft!SourceOf(u) \in DraftVersions /\ Draft!Read(u) \in DraftVersions
    BY <1>1 DEF Draft!SourceOf, Draft!Read, SourcesType
  <2>2. Draft!Shown(u) \in DraftVersions
    BY <2>1 DEF Draft!Shown
  <2> QED
    BY <2>1, <2>2 DEF Draft!Snapshot, Draft!Active, Shown
<1>3. SourcesType'
  BY ReadsType, SourcesKept DEF Draft!Subscribe, Draft!Unsubscribe, Draft!sources
<1>4. /\ UNCHANGED <<mode, many, base, draft, owner, draftMode, local, queued, waiting, edited, steps>>
      /\ listening' \subseteq DraftUnits
      /\ told' \in [DraftUnits -> Shown]
  BY <1>1, <1>2 DEF DraftInv, Draft!DraftsTypeOK, Draft!Subscribe, Draft!Unsubscribe, Draft!stored
<1> QED
  BY <1>3, <1>4 DEF DraftInv, Draft!DraftsTypeOK, Draft!DraftsAreOwned, DraftVersions, Shown, SourcesType

LEMMA DraftsStep == DraftInv /\ DraftNext => DraftInv'
<1> SUFFICES ASSUME DraftInv, Draft!DraftsNext PROVE DraftInv'
  BY DEF DraftNext
<1> QED
  BY SetStep, SetNothingStep, ClearStep, CommitStep, UpsertStep, DeleteStep, DraftListenersStep DEF Draft!DraftsNext

LEMMA DraftsStutter == DraftInv /\ UNCHANGED draftVars => DraftInv'
  BY DEF draftVars, DraftInv, Draft!DraftsTypeOK, Draft!DraftsAreOwned

(* The records of a draft agree about whose it is, and what waits for the
   owner's clear has an owner to wait for.                                 *)
THEOREM DraftsHaveOneOwner == Spec => []DraftsAreOwned
<1>1. Init => DraftInv
  BY DraftsInitially DEF Init
<1>2. DraftInv /\ [Next]_vars => DraftInv'
  BY DraftsStep, DraftsStutter DEF Next, vars
<1>3. DraftInv => DraftsAreOwned
  BY DEF DraftInv, DraftsAreOwned
<1> QED
  BY <1>1, <1>2, <1>3, PTL DEF Spec

-----------------------------------------------------------------------------
(* Actions.  Every run that has not ended is where its tracking says, and no
   payload is in both places.  The runs begun are numbered from one, and no
   more than there were calls.                                             *)

ActionRuns == [phase : {"none", "running", "settled", "over"}, payload : Contents,
               tracked : {"single", "map"}, returns : BOOLEAN]

ActionTypes ==
    /\ runs \in [1..MaxCalls -> ActionRuns]
    /\ single \in 0..MaxCalls
    /\ inFlight \in [Payloads -> 0..MaxCalls]

TrackedWhere(r) ==
    IF runs[r].tracked = "single" THEN single = r ELSE inFlight[runs[r].payload] = r

RunsAreTracked ==
    /\ \A r \in Action!Unfinished : runs[r].payload \in Payloads /\ TrackedWhere(r)
    /\ single # 0 => /\ single \in Action!Unfinished /\ runs[single].tracked = "single"
                     /\ inFlight[runs[single].payload] = 0
    /\ \A p \in Payloads : inFlight[p] # 0 =>
          inFlight[p] \in Action!Unfinished /\ runs[inFlight[p]].payload = p /\ runs[inFlight[p]].tracked = "map"

RunsAreCounted ==
    /\ asked \in Seq(Payloads) /\ calls \in 0..MaxCalls
    /\ \E k \in 0..MaxCalls : Action!Begun = 1..k /\ Len(asked) + k <= calls

LatestIsRunning == \E r \in Action!Begun : Action!IsLatestRun(r) /\ runs[r].phase = "running"

ActionInv ==
    /\ ActionTypes /\ RunsAreTracked
    /\ instance.kind = "action" => RunsAreCounted /\ Action!LoadingIsTheNewest

LEMMA LazyConstants == NoContent \notin Payloads /\ MaxCalls \in Nat
  BY LazyAssumption

(* The sequence number is the number of the run that was begun last. *)
LEMMA SequenceNumber ==
    ASSUME NEW k \in Nat, NEW S, S = 1..k
    PROVE  Action!Cardinality(S) = k
<1>1. 1 \in Int /\ k \in Int
  OBVIOUS
<1>2. Cardinality(1..k) = IF 1 > k THEN 0 ELSE k - 1 + 1
  BY <1>1, FS_Interval
<1>3. Action!Cardinality(S) = Cardinality(S)
  BY DEF Action!Cardinality, Cardinality
<1>4. CASE k = 0
  BY <1>2, <1>3, <1>4
<1>5. CASE k # 0
  BY <1>2, <1>3, <1>5
<1> QED
  BY <1>4, <1>5

LEMMA ActionInitially == Action!Init => ActionInv
<1> SUFFICES ASSUME Action!Init PROVE ActionInv
  OBVIOUS
<1>1. /\ runs = [r \in 1..MaxCalls |-> Action!NotSubmitted] /\ single = 0
      /\ inFlight = [p \in Payloads |-> 0]
      /\ asked = <<>> /\ calls = 0 /\ status = "idle"
  BY DEF Action!Init, Action!LazyInit, Action!Runs, Action!NoRun
<1>2. Action!NotSubmitted \in ActionRuns /\ Action!NotSubmitted.phase = "none"
  BY DEF Action!NotSubmitted, Action!RunOf, ActionRuns, Contents
<1>3. ActionTypes
  BY <1>1, <1>2, LazyConstants DEF ActionTypes
<1>4. Action!Begun = {} /\ Action!Unfinished = {}
  BY <1>1, <1>2 DEF Action!Begun, Action!Unfinished, Action!Runs
<1>5. RunsAreTracked
  BY <1>1, <1>4 DEF RunsAreTracked
<1>6. RunsAreCounted
  <2>1. 1..0 = {} /\ Len(<<>>) + 0 <= 0 /\ 0 \in 0..MaxCalls /\ <<>> \in Seq(Payloads)
    BY LazyConstants
  <2> QED
    BY <1>1, <1>4, <2>1 DEF RunsAreCounted
<1>7. Action!LoadingIsTheNewest
  BY <1>1, <1>4 DEF Action!LoadingIsTheNewest
<1> QED
  BY <1>3, <1>5, <1>6, <1>7 DEF ActionInv

(* What the calls of the wrapper leave alone, and what they count. *)
LEMMA WrappedStep ==
    ASSUME ActionInv, instance.kind = "action", UNCHANGED <<actionVars, instance>>,
           Action!LazyNext \/ (\E r \in Action!Runs, v \in Payloads : Action!RunWrites(r, v))
                           \/ (\E l \in Listeners : Action!Leave(l))
    PROVE  ActionInv'
<1>1. UNCHANGED <<runs, single, inFlight, threw>>
  BY DEF actionVars
<1>2. RunsAreCounted
  BY DEF ActionInv
<1>3. /\ status' = status
      /\ \/ UNCHANGED <<asked, calls>>
         \/ UNCHANGED calls /\ asked' = <<>>
         \/ /\ calls < MaxCalls /\ calls' = calls + 1
            /\ \/ UNCHANGED asked
               \/ \E p \in Payloads : asked' = Append(asked, p)
  <2>1. CASE \E p \in Payloads : Action!Ask(p)
    BY <2>1 DEF Action!Ask, Action!shown
  <2>2. CASE Action!Import
    BY <2>2 DEF Action!Import
  <2>3. CASE Action!ImportFails
    BY <2>3 DEF Action!ImportFails, Action!shown
  <2>4. CASE Action!GetSnapshot
    BY <2>4 DEF Action!GetSnapshot, Action!wrapper
  <2>5. CASE \E l \in Listeners : Action!Subscribe(l)
    BY <2>5 DEF Action!Subscribe
  <2>6. CASE \E v \in Payloads : Action!EntityChanges(v)
    BY <2>6 DEF Action!EntityChanges, Action!wrapper, Action!shown
  <2>7. CASE Action!OnChange
    BY <2>7 DEF Action!OnChange, Action!wrapper, Action!NotifyUnit
  <2>8. CASE \E r \in Action!Runs, v \in Payloads : Action!RunWrites(r, v)
    BY <2>8 DEF Action!RunWrites, Action!Writes, Action!wrapper
  <2>9. CASE \E l \in Listeners : Action!Leave(l)
    BY <2>9 DEF Action!Leave, Action!shown
  <2> QED
    BY <2>1, <2>2, <2>3, <2>4, <2>5, <2>6, <2>7, <2>8, <2>9 DEF Action!LazyNext
<1>4. ActionTypes' /\ RunsAreTracked'
  BY <1>1 DEF ActionInv, ActionTypes, RunsAreTracked, TrackedWhere, Action!Unfinished
<1>5. Action!Begun' = Action!Begun
  BY <1>1 DEF Action!Begun
<1>6. RunsAreCounted'
  <2>1. PICK k \in 0..MaxCalls : Action!Begun = 1..k /\ Len(asked) + k <= calls
    BY <1>2 DEF RunsAreCounted
  <2>2. asked \in Seq(Payloads) /\ calls \in 0..MaxCalls /\ k \in Nat
    BY <1>2, LazyConstants DEF RunsAreCounted
  <2>3. asked' \in Seq(Payloads) /\ calls' \in 0..MaxCalls /\ Len(asked') + k <= calls'
    <3>1. CASE UNCHANGED <<asked, calls>>
      BY <3>1, <2>1, <2>2
    <3>2. CASE UNCHANGED calls /\ asked' = <<>>
      <4>1. asked' \in Seq(Payloads) /\ Len(asked') = 0 /\ Len(asked) \in Nat
        BY <3>2, <2>2
      <4> QED
        BY <3>2, <4>1, <2>1, <2>2, LazyConstants
    <3>3. CASE calls < MaxCalls /\ calls' = calls + 1 /\ UNCHANGED asked
      <4>1. Len(asked) \in Nat
        BY <2>2
      <4> QED
        BY <3>3, <4>1, <2>1, <2>2, LazyConstants
    <3>4. CASE calls < MaxCalls /\ calls' = calls + 1 /\ \E p \in Payloads : asked' = Append(asked, p)
      <4>1. asked' \in Seq(Payloads) /\ Len(asked') = Len(asked) + 1 /\ Len(asked) \in Nat
        BY <3>4, <2>2
      <4> QED
        BY <3>4, <4>1, <2>1, <2>2, LazyConstants
    <3> QED
      BY <1>3, <3>1, <3>2, <3>3, <3>4
  <2> QED
    BY <2>1, <2>3, <1>5 DEF RunsAreCounted
<1>7. Action!LoadingIsTheNewest'
  BY <1>1, <1>3, <1>5 DEF ActionInv, Action!LoadingIsTheNewest, Action!IsLatestRun, Action!runSequence
<1> QED
  BY <1>4, <1>6, <1>7 DEF ActionInv

(* A call that is taken up makes room for one more run. *)
LEMMA TakenUp ==
    ASSUME ActionInv, instance.kind = "action", NEW p \in Payloads, Action!Awaited(p),
           NEW k \in 0..MaxCalls, Action!Begun = 1..k, Len(asked) + k <= calls
    PROVE  /\ k \in Nat /\ k + 1 \in 1..MaxCalls /\ Action!runSequence = k
           /\ asked' \in Seq(Payloads) /\ calls' \in 0..MaxCalls
           /\ Len(asked') + (k + 1) <= calls'
<1>1. asked \in Seq(Payloads) /\ calls \in 0..MaxCalls /\ MaxCalls \in Nat /\ k \in Nat
  BY LazyConstants DEF ActionInv, RunsAreCounted
<1>2. asked # <<>> /\ asked' = Tail(asked) /\ calls' = calls
  BY DEF Action!Awaited
<1>3. asked' \in Seq(Payloads) /\ Len(asked) \in Nat /\ Len(asked) > 0 /\ Len(asked') = Len(asked) - 1
  BY <1>1, <1>2
<1>4. Action!runSequence = k
  <2>1. Action!Cardinality(Action!Begun) = k
    BY <1>1, SequenceNumber
  <2> QED
    BY <2>1 DEF Action!runSequence
<1> QED
  BY <1>1, <1>2, <1>3, <1>4

LEMMA JoinRunStep ==
    ASSUME ActionInv, instance.kind = "action", NEW p \in Payloads, Action!JoinRun(p), UNCHANGED instance
    PROVE  ActionInv'
<1>1. PICK k \in 0..MaxCalls : Action!Begun = 1..k /\ Len(asked) + k <= calls
  BY DEF ActionInv, RunsAreCounted
<1>2. /\ asked' \in Seq(Payloads) /\ calls' \in 0..MaxCalls /\ Len(asked') + (k + 1) <= calls'
      /\ k \in Nat
  BY <1>1, TakenUp DEF Action!JoinRun
<1>3. UNCHANGED <<status, runs, single, inFlight, threw>>
  BY DEF Action!JoinRun, Action!actionVars
<1>4. Action!Begun' = Action!Begun
  BY <1>3 DEF Action!Begun
<1>5. RunsAreCounted'
  <2>1. Len(asked') + k <= calls'
    BY <1>2, LazyConstants
  <2> QED
    BY <1>1, <1>2, <1>4, <2>1 DEF RunsAreCounted
<1>6. ActionTypes' /\ RunsAreTracked'
  BY <1>3 DEF ActionInv, ActionTypes, RunsAreTracked, TrackedWhere, Action!Unfinished
<1>7. Action!LoadingIsTheNewest'
  BY <1>3, <1>4 DEF ActionInv, Action!LoadingIsTheNewest, Action!IsLatestRun, Action!runSequence
<1> QED
  BY <1>5, <1>6, <1>7 DEF ActionInv

(* A new run, of a payload that has none in flight: it is tracked, or has
   ended already.                                                          *)
LEMMA NewRunStep ==
    ASSUME ActionInv, instance.kind = "action", UNCHANGED instance, NEW p \in Payloads,
           Action!StartRun(p) \/ Action!RunThrows(p)
    PROVE  ActionInv'
<1>1. PICK k \in 0..MaxCalls : Action!Begun = 1..k /\ Len(asked) + k <= calls
  BY DEF ActionInv, RunsAreCounted
<1> DEFINE r == k + 1
<1>2. /\ k \in Nat /\ r \in 1..MaxCalls /\ Action!runSequence = k
      /\ asked' \in Seq(Payloads) /\ calls' \in 0..MaxCalls /\ Len(asked') + r <= calls'
  BY <1>1, TakenUp DEF Action!StartRun, Action!RunThrows
<1> DEFINE new == runs'[r]
<1>3. /\ runs' = [runs EXCEPT ![r] = new] /\ new \in ActionRuns /\ new.payload = p
      /\ Action!InFlightFor(p) = 0
      /\ \/ /\ new.phase = "running" /\ new.tracked = "single" /\ single = 0 /\ single' = r
            /\ \A q \in Payloads : inFlight[q] = 0
            /\ UNCHANGED <<inFlight, threw>> /\ status' = "loading"
         \/ /\ new.phase = "running" /\ new.tracked = "map" /\ inFlight' = [inFlight EXCEPT ![p] = r]
            /\ UNCHANGED <<single, threw>> /\ status' = "loading"
         \/ /\ new.phase = "over" /\ UNCHANGED <<single, inFlight>> /\ threw'
  <2>1. runs \in [1..MaxCalls -> ActionRuns]
    BY DEF ActionInv, ActionTypes
  <2>2. CASE Action!StartRun(p)
    <3> DEFINE alone == single = Action!NoRun /\ \A q \in Payloads : inFlight[q] = Action!NoRun
               run == [phase |-> "running", payload |-> p,
                       tracked |-> IF alone THEN "single" ELSE "map", returns |-> FALSE]
    <3>1. Action!RunOf("running", p, IF alone THEN "single" ELSE "map") = run
      BY DEF Action!RunOf
    <3>2. /\ runs' = [runs EXCEPT ![r] = run]
          /\ single' = IF alone THEN r ELSE single
          /\ inFlight' = IF alone THEN inFlight ELSE [inFlight EXCEPT ![p] = r]
          /\ UNCHANGED threw /\ status' = "loading" /\ Action!InFlightFor(p) = 0
      BY <1>2, <2>2, <3>1 DEF Action!StartRun, Action!NotifyUnit, Action!NoRun
    <3>3. run \in ActionRuns /\ new = run
      BY <1>2, <2>1, <3>2 DEF ActionRuns, Contents
    <3> HIDE DEF new, alone
    <3>4. /\ new.phase = "running" /\ new.payload = p /\ new \in ActionRuns
          /\ new.tracked = IF alone THEN "single" ELSE "map"
          /\ runs' = [runs EXCEPT ![r] = new]
      BY <3>2, <3>3
    <3>5. alone <=> single = 0 /\ \A q \in Payloads : inFlight[q] = 0
      BY DEF alone, Action!NoRun
    <3> HIDE DEF run
    <3>6. CASE alone
      BY <3>2, <3>4, <3>5, <3>6
    <3>7. CASE ~alone
      BY <3>2, <3>4, <3>7
    <3> QED
      BY <3>6, <3>7
  <2>3. CASE Action!RunThrows(p)
    <3> DEFINE run == [phase |-> "over", payload |-> p, tracked |-> "single", returns |-> FALSE]
    <3>1. Action!RunOf("over", p, "single") = run
      BY DEF Action!RunOf
    <3>2. /\ runs' = [runs EXCEPT ![r] = run] /\ UNCHANGED <<single, inFlight>> /\ threw'
          /\ Action!InFlightFor(p) = 0
      BY <1>2, <2>3, <3>1 DEF Action!RunThrows, Action!NoRun
    <3>3. run \in ActionRuns /\ new = run
      BY <1>2, <2>1, <3>2 DEF ActionRuns, Contents
    <3> HIDE DEF new
    <3>4. new.phase = "over" /\ new.payload = p /\ new \in ActionRuns /\ runs' = [runs EXCEPT ![r] = new]
      BY <3>2, <3>3
    <3> HIDE DEF run
    <3> QED
      BY <3>2, <3>4
  <2> QED
    BY <2>2, <2>3
<1> HIDE DEF new
<1>4. /\ runs \in [1..MaxCalls -> ActionRuns] /\ single \in 0..MaxCalls
      /\ inFlight \in [Payloads -> 0..MaxCalls] /\ MaxCalls \in Nat
  BY LazyConstants DEF ActionInv, ActionTypes
<1>5. ActionTypes'
  BY <1>2, <1>3, <1>4 DEF ActionTypes
<1>6. /\ \A s \in 1..MaxCalls : s # r => runs'[s] = runs[s]
      /\ r \notin Action!Begun /\ r \notin Action!Unfinished
  <2>1. \A s \in 1..MaxCalls : s # r => runs'[s] = runs[s]
    BY <1>2, <1>3, <1>4
  <2>2. r \notin Action!Begun
    BY <1>1, <1>2
  <2>3. Action!Unfinished \subseteq Action!Begun
    BY DEF Action!Begun, Action!Unfinished
  <2> QED
    BY <2>1, <2>2, <2>3
<1>7. Action!Begun' = 1..r
  <2>1. new.phase # "none" /\ runs'[r] = new
    BY <1>2, <1>3, <1>4
  <2>2. ASSUME NEW s \in 1..MaxCalls PROVE runs'[s].phase # "none" <=> s \in 1..k \/ s = r
    BY <1>1, <1>6, <2>1, <2>2 DEF Action!Begun, Action!Runs
  <2>3. 1..r = 1..k \cup {r} /\ 1..r \subseteq 1..MaxCalls
    BY <1>2, <1>4
  <2> QED
    BY <2>2, <2>3 DEF Action!Begun, Action!Runs
<1>8. RunsAreCounted'
  <2>1. r \in 0..MaxCalls
    BY <1>2
  <2> QED
    BY <1>2, <1>7, <2>1 DEF RunsAreCounted
<1>9. Action!LoadingIsTheNewest'
  <2>1. CASE threw'
    BY <2>1 DEF Action!LoadingIsTheNewest
  <2>2. CASE status' = "loading" /\ new.phase = "running"
    <3>1. Action!runSequence' = r
      <4>1. r \in Nat
        BY <1>2
      <4>2. Action!Cardinality(Action!Begun') = r
        BY <1>7, <4>1, SequenceNumber
      <4> QED
        BY <4>2 DEF Action!runSequence
    <3>2. r \in Action!Begun' /\ runs'[r].phase = "running"
      BY <1>2, <1>3, <1>4, <1>7, <2>2
    <3> QED
      BY <2>2, <3>1, <3>2 DEF Action!LoadingIsTheNewest, Action!IsLatestRun
  <2> QED
    BY <1>3, <2>1, <2>2
<1>10. RunsAreTracked'
  <2>1. RunsAreTracked
    BY DEF ActionInv
  <2>2. inFlight[p] = 0 /\ (single # 0 => runs[single].payload # p)
    <3>1. CASE single # 0 /\ runs[single].payload = p
      BY <1>3, <3>1 DEF Action!InFlightFor, Action!NoRun
    <3>2. CASE ~(single # 0 /\ runs[single].payload = p)
      BY <1>3, <3>2 DEF Action!InFlightFor, Action!NoRun
    <3> QED
      BY <3>1, <3>2
  <2>3. \A s \in Action!Unfinished : s # r /\ runs'[s] = runs[s] /\ s \in Action!Unfinished'
    BY <1>6 DEF Action!Unfinished, Action!Runs
  <2>4. \A s \in Action!Unfinished' : s \in Action!Unfinished \/ s = r
    BY <1>6 DEF Action!Unfinished, Action!Runs
  <2>5. runs'[r] = new
    BY <1>2, <1>3, <1>4
  <2>6. CASE new.phase = "running" /\ single = 0 /\ single' = r /\ new.tracked = "single"
             /\ (\A q \in Payloads : inFlight[q] = 0) /\ UNCHANGED inFlight
    <3>1. r \in Action!Unfinished' /\ r # 0
      BY <1>2, <2>5, <2>6 DEF Action!Unfinished, Action!Runs
    <3>2. Action!Unfinished = {}
      <4>1. ASSUME NEW s \in Action!Unfinished PROVE FALSE
        <5>1. runs[s].payload \in Payloads /\ TrackedWhere(s)
          BY <2>1 DEF RunsAreTracked
        <5>2. s \in 1..MaxCalls
          BY DEF Action!Unfinished, Action!Runs
        <5> QED
          BY <5>1, <5>2, <2>6 DEF TrackedWhere
      <4> QED
        BY <4>1
    <3>3. Action!Unfinished' = {r}
      BY <2>4, <3>1, <3>2
    <3> QED
      BY <1>3, <2>5, <2>6, <3>1, <3>3 DEF RunsAreTracked, TrackedWhere
  <2>7. CASE new.phase = "running" /\ new.tracked = "map" /\ inFlight' = [inFlight EXCEPT ![p] = r]
             /\ UNCHANGED single
    <3>1. /\ r \in Action!Unfinished' /\ inFlight'[p] = r
          /\ \A q \in Payloads : q # p => inFlight'[q] = inFlight[q]
      BY <1>2, <1>4, <2>5, <2>7 DEF Action!Unfinished, Action!Runs
    <3>2. ASSUME NEW s \in Action!Unfinished' PROVE runs'[s].payload \in Payloads /\ TrackedWhere(s)'
      <4>1. CASE s = r
        BY <1>3, <2>5, <2>7, <3>1, <4>1 DEF TrackedWhere
      <4>2. CASE s # r
        <5>1. s \in Action!Unfinished /\ runs'[s] = runs[s]
          BY <2>3, <2>4, <4>2
        <5>2. runs[s].payload \in Payloads /\ TrackedWhere(s) /\ s # 0
          BY <2>1, <5>1 DEF RunsAreTracked, Action!Unfinished, Action!Runs
        <5> QED
          BY <2>2, <2>7, <3>1, <5>1, <5>2 DEF TrackedWhere
      <4> QED
        BY <4>1, <4>2
    <3>3. single' # 0 => /\ single' \in Action!Unfinished' /\ runs'[single'].tracked = "single"
                         /\ inFlight'[runs'[single'].payload] = 0
      <4>1. SUFFICES ASSUME single # 0
                     PROVE  /\ single \in Action!Unfinished' /\ runs'[single].tracked = "single"
                            /\ inFlight'[runs'[single].payload] = 0
        BY <2>7
      <4>2. single \in Action!Unfinished /\ runs[single].tracked = "single" /\ inFlight[runs[single].payload] = 0
        BY <2>1, <4>1 DEF RunsAreTracked
      <4>3. runs[single].payload \in Payloads /\ runs[single].payload # p
        BY <2>1, <2>2, <4>1, <4>2 DEF RunsAreTracked
      <4> QED
        BY <2>3, <3>1, <4>2, <4>3
    <3>4. ASSUME NEW q \in Payloads, inFlight'[q] # 0
          PROVE  /\ inFlight'[q] \in Action!Unfinished' /\ runs'[inFlight'[q]].payload = q
                 /\ runs'[inFlight'[q]].tracked = "map"
      <4>1. CASE q = p
        BY <1>3, <2>5, <2>7, <3>1, <4>1
      <4>2. CASE q # p
        BY <2>1, <2>3, <3>1, <3>4, <4>2 DEF RunsAreTracked
      <4> QED
        BY <4>1, <4>2
    <3> QED
      BY <3>2, <3>3, <3>4 DEF RunsAreTracked
  <2>8. CASE new.phase = "over" /\ UNCHANGED <<single, inFlight>>
    <3>1. Action!Unfinished' = Action!Unfinished
      BY <2>3, <2>4, <2>5, <2>8 DEF Action!Unfinished
    <3>2. \A s \in Action!Unfinished : TrackedWhere(s)' <=> TrackedWhere(s)
      BY <2>3, <2>8 DEF TrackedWhere
    <3> QED
      BY <2>1, <2>3, <2>8, <3>1, <3>2 DEF RunsAreTracked
  <2> QED
    BY <1>3, <2>6, <2>7, <2>8
<1> QED
  BY <1>5, <1>8, <1>9, <1>10 DEF ActionInv

(* A run that moves on, but keeps its payload and its place. *)
LEMMA RunMoves ==
    ASSUME ActionInv, NEW r \in 1..MaxCalls, r \in Action!Begun, runs' \in [1..MaxCalls -> ActionRuns],
           runs'[r].phase # "none", runs'[r].payload = runs[r].payload,
           runs'[r].tracked = runs[r].tracked,
           \A s \in 1..MaxCalls : s # r => runs'[s] = runs[s]
    PROVE  /\ Action!Begun' = Action!Begun /\ Action!runSequence' = Action!runSequence
           /\ \A s \in 1..MaxCalls : /\ runs'[s].payload = runs[s].payload
                                     /\ runs'[s].tracked = runs[s].tracked
<1>1. Action!Begun' = Action!Begun
  <2>1. \A s \in 1..MaxCalls : runs'[s].phase # "none" <=> runs[s].phase # "none"
    BY DEF Action!Begun
  <2> QED
    BY <2>1 DEF Action!Begun, Action!Runs
<1> QED
  BY <1>1 DEF Action!runSequence

LEMMA SettleStep ==
    ASSUME ActionInv, instance.kind = "action", UNCHANGED instance, NEW r \in Action!Runs, Action!Settle(r)
    PROVE  ActionInv'
<1>1. /\ runs[r].phase = "running" /\ UNCHANGED <<asked, calls, single, inFlight, threw>>
      /\ IF Action!IsLatestRun(r) THEN status' \in {"success", "error"} ELSE UNCHANGED status
  <2>1. CASE Action!Fail(r)
    BY <2>1 DEF Action!Fail, Action!NotifyUnit, Action!shown, Action!wrapper
  <2>2. CASE \E returns \in BOOLEAN : Action!Fulfil(r, returns)
    BY <2>2 DEF Action!Fulfil, Action!NotifyUnit, Action!shown, Action!wrapper
  <2> QED
    BY <2>1, <2>2 DEF Action!Settle
<1>2. /\ r \in 1..MaxCalls /\ runs \in [1..MaxCalls -> ActionRuns] /\ r \in Action!Begun
      /\ r \in Action!Unfinished
  BY <1>1 DEF ActionInv, ActionTypes, Action!Runs, Action!Begun, Action!Unfinished
<1>3. /\ runs' \in [1..MaxCalls -> ActionRuns] /\ runs'[r].phase = "settled"
      /\ runs'[r].payload = runs[r].payload /\ runs'[r].tracked = runs[r].tracked
      /\ \A s \in 1..MaxCalls : s # r => runs'[s] = runs[s]
  <2>1. CASE Action!Fail(r)
    <3>1. runs' = [runs EXCEPT ![r].phase = "settled"]
      BY <2>1 DEF Action!Fail
    <3> QED
      BY <1>2, <3>1 DEF ActionRuns
  <2>2. CASE \E returns \in BOOLEAN : Action!Fulfil(r, returns)
    <3>1. PICK returns \in BOOLEAN : runs' = [runs EXCEPT ![r].phase = "settled", ![r].returns = returns]
      BY <2>2 DEF Action!Fulfil
    <3> DEFINE half == [runs EXCEPT ![r].phase = "settled"]
    <3>2. runs' = [half EXCEPT ![r].returns = returns]
      BY <3>1
    <3>3. /\ half \in [1..MaxCalls -> ActionRuns] /\ half[r].phase = "settled"
          /\ half[r].payload = runs[r].payload /\ half[r].tracked = runs[r].tracked
          /\ \A s \in 1..MaxCalls : s # r => half[s] = runs[s]
      BY <1>2 DEF ActionRuns
    <3> HIDE DEF half
    <3> QED
      BY <1>2, <3>2, <3>3 DEF ActionRuns
  <2> QED
    BY <2>1, <2>2 DEF Action!Settle
<1>4. /\ Action!Begun' = Action!Begun /\ Action!runSequence' = Action!runSequence
      /\ \A s \in 1..MaxCalls : runs'[s].payload = runs[s].payload /\ runs'[s].tracked = runs[s].tracked
  BY <1>2, <1>3, RunMoves
<1>5. Action!Unfinished' = Action!Unfinished
  <2>1. \A s \in 1..MaxCalls : s \in Action!Unfinished' <=> s \in Action!Unfinished
    BY <1>2, <1>3 DEF Action!Unfinished, Action!Runs
  <2> QED
    BY <2>1 DEF Action!Unfinished, Action!Runs
<1>6. ActionTypes'
  BY <1>1, <1>3 DEF ActionInv, ActionTypes
<1>7. RunsAreTracked'
  <2>1. RunsAreTracked /\ single \in 0..MaxCalls /\ inFlight \in [Payloads -> 0..MaxCalls]
    BY DEF ActionInv, ActionTypes
  <2>2. Action!Unfinished \subseteq 1..MaxCalls
    BY DEF Action!Unfinished, Action!Runs
  <2>3. \A s \in Action!Unfinished : TrackedWhere(s)' <=> TrackedWhere(s)
    BY <1>1, <1>4, <2>2 DEF TrackedWhere
  <2> QED
    BY <1>1, <1>4, <1>5, <2>1, <2>2, <2>3 DEF RunsAreTracked
<1>8. RunsAreCounted'
  BY <1>1, <1>4 DEF ActionInv, RunsAreCounted
<1>9. Action!LoadingIsTheNewest'
  <2>1. CASE Action!IsLatestRun(r)
    <3>1. status' # "loading"
      BY <1>1, <2>1
    <3>2. \A s \in Action!Begun' : Action!IsLatestRun(s)' => s = r
      BY <1>4, <2>1 DEF Action!IsLatestRun
    <3> QED
      BY <1>3, <3>1, <3>2 DEF Action!LoadingIsTheNewest
  <2>2. CASE ~Action!IsLatestRun(r)
    <3>1. \A s \in Action!Begun : /\ Action!IsLatestRun(s)' <=> Action!IsLatestRun(s)
                                  /\ s \in 1..MaxCalls
      BY <1>4 DEF Action!IsLatestRun, Action!Begun, Action!Runs
    <3>2. \A s \in Action!Begun : Action!IsLatestRun(s) => runs'[s] = runs[s]
      BY <1>3, <2>2, <3>1
    <3> QED
      BY <1>1, <1>4, <2>2, <3>1, <3>2 DEF ActionInv, Action!LoadingIsTheNewest
  <2> QED
    BY <2>1, <2>2
<1> QED
  BY <1>6, <1>7, <1>8, <1>9 DEF ActionInv

LEMMA FinishStep ==
    ASSUME ActionInv, instance.kind = "action", UNCHANGED instance, NEW r \in Action!Runs, Action!Finish(r)
    PROVE  ActionInv'
<1> DEFINE p == runs[r].payload
<1>1. /\ runs[r].phase = "settled" /\ runs' = [runs EXCEPT ![r].phase = "over"]
      /\ single' = IF runs[r].tracked = "single" /\ single = r THEN 0 ELSE single
      /\ inFlight' = IF runs[r].tracked = "map" THEN [inFlight EXCEPT ![p] = 0] ELSE inFlight
      /\ UNCHANGED <<asked, calls, threw, status>>
  BY DEF Action!Finish, Action!NoRun, Action!lazyVars, Action!wrapper, Action!shown
<1>2. /\ r \in 1..MaxCalls /\ runs \in [1..MaxCalls -> ActionRuns] /\ r \in Action!Begun
      /\ r \in Action!Unfinished /\ single \in 0..MaxCalls /\ inFlight \in [Payloads -> 0..MaxCalls]
      /\ MaxCalls \in Nat
  BY <1>1, LazyConstants DEF ActionInv, ActionTypes, Action!Runs, Action!Begun, Action!Unfinished
<1>3. RunsAreTracked /\ p \in Payloads /\ TrackedWhere(r)
  BY <1>2 DEF ActionInv, RunsAreTracked
<1>4. /\ runs' \in [1..MaxCalls -> ActionRuns] /\ runs'[r].phase = "over"
      /\ runs'[r].payload = p /\ runs'[r].tracked = runs[r].tracked
      /\ \A s \in 1..MaxCalls : s # r => runs'[s] = runs[s]
  BY <1>1, <1>2 DEF ActionRuns
<1>5. /\ Action!Begun' = Action!Begun /\ Action!runSequence' = Action!runSequence
      /\ \A s \in 1..MaxCalls : runs'[s].payload = runs[s].payload /\ runs'[s].tracked = runs[s].tracked
  BY <1>2, <1>4, RunMoves
<1>6. Action!Unfinished' = Action!Unfinished \ {r}
  <2>1. \A s \in 1..MaxCalls : s \in Action!Unfinished' <=> s \in Action!Unfinished \ {r}
    BY <1>2, <1>4 DEF Action!Unfinished, Action!Runs
  <2> QED
    BY <2>1 DEF Action!Unfinished, Action!Runs
<1>7. ActionTypes'
  BY <1>1, <1>2, <1>3, <1>4 DEF ActionTypes
<1>8. Action!Unfinished \subseteq 1..MaxCalls
  BY DEF Action!Unfinished, Action!Runs
<1>9. RunsAreTracked'
  <2>1. CASE runs[r].tracked = "single"
    <3>1. single = r /\ single' = 0 /\ inFlight' = inFlight
      BY <1>1, <1>3, <2>1 DEF TrackedWhere
    <3>2. ASSUME NEW s \in Action!Unfinished' PROVE runs'[s].payload \in Payloads /\ TrackedWhere(s)'
      <4>1. s \in Action!Unfinished /\ s # r /\ s \in 1..MaxCalls
        BY <1>6, <1>8
      <4>2. runs[s].payload \in Payloads /\ TrackedWhere(s)
        BY <1>3, <4>1 DEF RunsAreTracked
      <4>3. runs[s].tracked # "single"
        BY <3>1, <4>1, <4>2 DEF TrackedWhere
      <4> QED
        BY <1>5, <3>1, <4>1, <4>2, <4>3 DEF TrackedWhere
    <3>3. ASSUME NEW q \in Payloads, inFlight[q] # 0
          PROVE  /\ inFlight[q] \in Action!Unfinished' /\ runs'[inFlight[q]].payload = q
                 /\ runs'[inFlight[q]].tracked = "map"
      <4>1. inFlight[q] \in Action!Unfinished /\ runs[inFlight[q]].payload = q /\ runs[inFlight[q]].tracked = "map"
        BY <1>3, <3>3 DEF RunsAreTracked
      <4>2. inFlight[q] # r
        BY <2>1, <4>1
      <4> QED
        BY <1>5, <1>6, <1>8, <4>1, <4>2
    <3> QED
      BY <3>1, <3>2, <3>3 DEF RunsAreTracked
  <2>2. CASE runs[r].tracked = "map"
    <3>1. /\ inFlight[p] = r /\ single' = single /\ inFlight'[p] = 0
          /\ \A q \in Payloads : q # p => inFlight'[q] = inFlight[q]
      BY <1>1, <1>2, <1>3, <2>2 DEF TrackedWhere
    <3>2. ASSUME NEW s \in Action!Unfinished' PROVE runs'[s].payload \in Payloads /\ TrackedWhere(s)'
      <4>1. s \in Action!Unfinished /\ s # r /\ s \in 1..MaxCalls
        BY <1>6, <1>8
      <4>2. runs[s].payload \in Payloads /\ TrackedWhere(s)
        BY <1>3, <4>1 DEF RunsAreTracked
      <4>3. runs[s].tracked # "single" => runs[s].payload # p
        BY <3>1, <4>1, <4>2 DEF TrackedWhere
      <4> QED
        BY <1>5, <3>1, <4>1, <4>2, <4>3 DEF TrackedWhere
    <3>3. single # 0 => /\ single \in Action!Unfinished' /\ runs'[single].tracked = "single"
                        /\ inFlight'[runs'[single].payload] = 0
      <4>1. SUFFICES ASSUME single # 0
                     PROVE  /\ single \in Action!Unfinished' /\ runs'[single].tracked = "single"
                            /\ inFlight'[runs'[single].payload] = 0
        OBVIOUS
      <4>2. single \in Action!Unfinished /\ runs[single].tracked = "single" /\ inFlight[runs[single].payload] = 0
        BY <1>3, <4>1 DEF RunsAreTracked
      <4>3. single # r /\ runs[single].payload \in Payloads
        BY <1>3, <2>2, <4>2 DEF RunsAreTracked
      <4> QED
        BY <1>5, <1>6, <1>8, <3>1, <4>2, <4>3
    <3>4. ASSUME NEW q \in Payloads, inFlight'[q] # 0
          PROVE  /\ inFlight'[q] \in Action!Unfinished' /\ runs'[inFlight'[q]].payload = q
                 /\ runs'[inFlight'[q]].tracked = "map"
      <4>1. q # p /\ inFlight'[q] = inFlight[q]
        BY <3>1, <3>4
      <4>2. inFlight[q] \in Action!Unfinished /\ runs[inFlight[q]].payload = q /\ runs[inFlight[q]].tracked = "map"
        BY <1>3, <3>4, <4>1 DEF RunsAreTracked
      <4> QED
        BY <1>5, <1>6, <1>8, <4>1, <4>2
    <3> QED
      BY <3>1, <3>2, <3>3, <3>4 DEF RunsAreTracked
  <2> QED
    BY <1>2, <2>1, <2>2 DEF ActionRuns
<1>10. RunsAreCounted'
  BY <1>1, <1>5 DEF ActionInv, RunsAreCounted
<1>11. Action!LoadingIsTheNewest'
  <2>1. \A s \in Action!Begun : s \in 1..MaxCalls /\ (Action!IsLatestRun(s)' <=> Action!IsLatestRun(s))
    BY <1>5 DEF Action!IsLatestRun, Action!Begun, Action!Runs
  <2>2. \A s \in 1..MaxCalls : runs'[s].phase = "running" <=> runs[s].phase = "running"
    BY <1>1, <1>4
  <2> QED
    BY <1>1, <1>5, <2>1, <2>2 DEF ActionInv, Action!LoadingIsTheNewest
<1> QED
  BY <1>7, <1>9, <1>10, <1>11 DEF ActionInv

LEMMA ActionStep ==
    ASSUME ActionInv, instance.kind = "action", UNCHANGED instance, Action!Next
    PROVE  ActionInv'
<1>1. CASE Action!Wrapped
  BY <1>1, WrappedStep DEF Action!Wrapped, Action!actionVars, actionVars
<1>2. CASE Action!TakeUp
  BY <1>2, JoinRunStep, NewRunStep DEF Action!TakeUp
<1>3. CASE \E r \in Action!Runs : Action!Settle(r)
  BY <1>3, SettleStep
<1>4. CASE \E r \in Action!Runs : Action!Finish(r)
  BY <1>4, FinishStep
<1>5. CASE \E r \in Action!Runs, v \in Payloads : Action!RunWrites(r, v)
  <2>1. UNCHANGED actionVars
    BY <1>5 DEF Action!RunWrites, Action!actionVars, actionVars
  <2> QED
    BY <1>5, <2>1, WrappedStep
<1>6. CASE \E l \in Listeners : Action!Unsubscribe(l)
  BY <1>6, WrappedStep DEF Action!Unsubscribe, Action!actionVars, actionVars
<1> QED
  BY <1>1, <1>2, <1>3, <1>4, <1>5, <1>6 DEF Action!Next

LEMMA ActionStutters ==
    ASSUME ActionInv, UNCHANGED <<actionVars, instance>>,
           instance.kind = "action" => UNCHANGED lazyVars
    PROVE  ActionInv'
<1>1. UNCHANGED <<runs, single, inFlight, threw, instance>>
  BY DEF actionVars
<1>2. ActionTypes' /\ RunsAreTracked' /\ Action!Begun' = Action!Begun
  BY <1>1 DEF ActionInv, ActionTypes, RunsAreTracked, TrackedWhere, Action!Unfinished, Action!Begun
<1>3. CASE instance.kind = "action"
  <2>1. UNCHANGED <<asked, calls, status>>
    BY <1>3 DEF lazyVars, wrapper, shown
  <2> QED
    BY <1>1, <1>2, <1>3, <2>1 DEF ActionInv, RunsAreCounted, Action!LoadingIsTheNewest,
                                 Action!IsLatestRun, Action!runSequence
<1>4. CASE instance.kind # "action"
  BY <1>1, <1>2, <1>4 DEF ActionInv
<1> QED
  BY <1>3, <1>4

LEMMA ActionIsKept == ActionInv /\ [Next]_vars => ActionInv'
<1> SUFFICES ASSUME ActionInv, [Next]_vars PROVE ActionInv'
  OBVIOUS
<1>1. CASE LazyUnitNext /\ UNCHANGED instance
  <2>1. CASE instance.kind = "action" /\ Action!Next
    BY <1>1, <2>1, ActionStep
  <2>2. CASE instance.kind # "action"
    BY <1>1, <2>2, ActionStutters DEF LazyUnitNext
  <2>3. CASE instance.kind = "action" /\ ~Action!Next
    BY <1>1, <2>3 DEF LazyUnitNext
  <2> QED
    BY <2>1, <2>2, <2>3
<1>2. CASE UNCHANGED <<instance, lazyUnitVars>>
  BY <1>2, ActionStutters DEF lazyUnitVars
<1> QED
  BY <1>1, <1>2 DEF Next, vars

(* Submits of one payload share one run, whatever else is in flight. *)
THEOREM SubmitsShareARun == Spec => []OneRunPerPayload
<1>1. Init => ActionInv
  BY ActionInitially DEF Init
<1>2. ActionInv => OneRunPerPayload
  <2> SUFFICES ASSUME ActionInv PROVE Action!OneRunPerPayload
    BY DEF OneRunPerPayload
  <2>1. RunsAreTracked /\ Action!Unfinished \subseteq 1..MaxCalls /\ runs \in [1..MaxCalls -> ActionRuns]
    BY DEF ActionInv, ActionTypes, Action!Unfinished, Action!Runs
  <2>2. ASSUME NEW r \in Action!Unfinished, NEW s \in Action!Unfinished, runs[r].payload = runs[s].payload
        PROVE  r = s
    <3>1. TrackedWhere(r) /\ TrackedWhere(s) /\ runs[r].payload \in Payloads /\ r \in 1..MaxCalls /\ s \in 1..MaxCalls
      BY <2>1 DEF RunsAreTracked
    <3>2. single # 0 => inFlight[runs[single].payload] = 0
      BY <2>1 DEF RunsAreTracked
    <3> QED
      BY <2>2, <3>1, <3>2 DEF TrackedWhere
  <2> QED
    BY <2>1, <2>2 DEF RunsAreTracked, Action!OneRunPerPayload, Action!NoRun
<1> QED
  BY <1>1, <1>2, ActionIsKept, PTL DEF Spec

-----------------------------------------------------------------------------
(* Views and transforms.  What a record says of a dependency it subscribes to
   is what the dependency shows, and what a computation has read of it is what
   the record says, unless a change of it came to nothing.  A unit at rest has
   the value its dependencies have, or waits for one of them to settle.     *)

Record == [known : {TRUE}, snap : Derived!Snapshots, subscribed : BOOLEAN, dirty : BOOLEAN]

FollowedTypes ==
    /\ units \in [Derived!Deps -> Derived!Snapshots]
    /\ dependencies \in [Derived!Deps -> {Derived!Unknown} \cup Record]
    /\ computing.running \in BOOLEAN /\ DOMAIN computing.read \subseteq Derived!Deps
    /\ \A d \in DOMAIN computing.read : computing.read[d] \in Derived!Snapshots
    /\ viewStatus \in {"idle", "loading", "success", "error"}
    /\ DOMAIN viewValue \subseteq Derived!Deps /\ applying \in Nat

StatusIsEarned ==
    /\ viewStatus = "idle" => viewers = {} /\ ~computing.running
    /\ viewStatus = "loading" => computing.running \/ applying > 0

IsSubscribed(d) == dependencies[d].known /\ dependencies[d].subscribed

ShowsSuccess == viewers # {} /\ ~computing.running /\ viewStatus = "success"

SubscribedAsRead ==
    /\ viewers = {} => \A d \in Derived!Deps : ~IsSubscribed(d)
    /\ ShowsSuccess => \A d \in Derived!Deps : IsSubscribed(d) <=> d \in DOMAIN viewValue

RecordsAreFresh ==
    \A d \in Derived!Deps \ missed : IsSubscribed(d) =>
        /\ dependencies[d].snap.value = units[d].value
        /\ d \in DOMAIN computing.read => computing.read[d].value = units[d].value

ValueIsFresh ==
    ShowsSuccess /\ ~scheduled =>
        \A d \in DOMAIN viewValue \ missed :
            \/ viewValue[d] = units[d].value
            \/ dependencies[d].dirty /\ ~Derived!Settled(units[d])

FollowedInv ==
    FollowedTypes /\ StatusIsEarned /\ SubscribedAsRead /\ RecordsAreFresh /\ ValueIsFresh

LEMMA FollowedInitially == Derived!Init => FollowedInv
<1> SUFFICES ASSUME Derived!Init PROVE FollowedInv
  OBVIOUS
<1>1. /\ units \in [Derived!Deps -> Derived!Snapshots]
      /\ dependencies = [d \in Derived!Deps |-> Derived!Unknown]
      /\ computing.running = FALSE /\ DOMAIN computing.read = {}
      /\ viewStatus = "idle" /\ DOMAIN viewValue = {} /\ applying = 0 /\ viewers = {}
  BY DEF Derived!Init, Derived!NotRunning, Derived!Nothing
<1>2. \A d \in Derived!Deps : ~IsSubscribed(d)
  BY <1>1 DEF IsSubscribed, Derived!Unknown
<1> QED
  BY <1>1, <1>2 DEF FollowedInv, FollowedTypes, StatusIsEarned, SubscribedAsRead, RecordsAreFresh,
                    ValueIsFresh, ShowsSuccess

(* Whatever starts a computation leaves what is known as it is. *)
LEMMA RecomputeStep ==
    ASSUME FollowedInv, Derived!RunRecompute, UNCHANGED <<units, dependencies, viewValue, missed>>,
           viewers' = {} => viewers = {}, applying' \in Nat
    PROVE  FollowedInv'
<1>1. /\ computing'.running = TRUE /\ viewStatus' # "idle" /\ DOMAIN computing'.read \subseteq Derived!Deps
      /\ viewStatus' \in {"idle", "loading", "success", "error"}
      /\ \A d \in DOMAIN computing'.read : /\ d \in DOMAIN computing.read
                                           /\ computing'.read[d] = computing.read[d]
  BY DEF FollowedInv, FollowedTypes, StatusIsEarned, Derived!RunRecompute, Derived!Running, Derived!Nothing
<1>2. FollowedTypes' /\ StatusIsEarned'
  BY <1>1 DEF FollowedInv, FollowedTypes, StatusIsEarned
<1>3. SubscribedAsRead' /\ ValueIsFresh'
  BY <1>1 DEF FollowedInv, SubscribedAsRead, ValueIsFresh, ShowsSuccess, IsSubscribed
<1>4. RecordsAreFresh'
  BY <1>1 DEF FollowedInv, RecordsAreFresh, IsSubscribed
<1> QED
  BY <1>2, <1>3, <1>4 DEF FollowedInv

LEMMA GetStep ==
    ASSUME FollowedInv, NEW d \in Derived!Deps, Derived!Get(d)
    PROVE  FollowedInv'
<1>1. /\ computing.running /\ UNCHANGED <<units, dependencies, viewers, scheduled, viewStatus, viewValue,
                                          applying, missed>>
      /\ computing'.running = TRUE
      /\ DOMAIN computing'.read = DOMAIN computing.read \cup {d}
      /\ computing'.read[d] = Derived!ReadDependency(d)
      /\ \A e \in DOMAIN computing.read : e # d => computing'.read[e] = computing.read[e]
  BY DEF Derived!Get, Derived!Running
<1>2. Derived!ReadDependency(d) \in Derived!Snapshots
  <2>1. units[d] \in Derived!Snapshots
    BY DEF FollowedInv, FollowedTypes
  <2>2. dependencies[d] \in {Derived!Unknown} \cup Record
    BY DEF FollowedInv, FollowedTypes
  <2>3. dependencies[d].known => dependencies[d] \in Record
    BY <2>2 DEF Derived!Unknown
  <2>4. dependencies[d].known => dependencies[d].snap \in Derived!Snapshots
    BY <2>3 DEF Record
  <2> QED
    BY <2>1, <2>4 DEF Derived!ReadDependency
<1>3. FollowedTypes' /\ StatusIsEarned'
  BY <1>1, <1>2 DEF FollowedInv, FollowedTypes, StatusIsEarned
<1>4. SubscribedAsRead' /\ ValueIsFresh'
  BY <1>1 DEF FollowedInv, SubscribedAsRead, ValueIsFresh, ShowsSuccess, IsSubscribed
<1>5. RecordsAreFresh'
  <2>1. ASSUME NEW e \in Derived!Deps \ missed, IsSubscribed(e)
        PROVE  /\ dependencies[e].snap.value = units[e].value
               /\ e \in DOMAIN computing'.read => computing'.read[e].value = units[e].value
    <3>1. /\ dependencies[e].snap.value = units[e].value
          /\ e \in DOMAIN computing.read => computing.read[e].value = units[e].value
      BY <2>1 DEF FollowedInv, RecordsAreFresh
    <3>2. CASE e = d
      BY <1>1, <2>1, <3>1, <3>2 DEF IsSubscribed, Derived!ReadDependency
    <3>3. CASE e # d
      BY <1>1, <3>1, <3>3
    <3> QED
      BY <3>2, <3>3
  <2> QED
    BY <1>1, <2>1 DEF RecordsAreFresh, IsSubscribed
<1> QED
  BY <1>3, <1>4, <1>5 DEF FollowedInv

LEMMA ApplyStep ==
    ASSUME FollowedInv, Derived!Apply \/ Derived!ApplyFails
    PROVE  FollowedInv'
<1>1. /\ UNCHANGED <<units, dependencies, viewers, computing, scheduled, viewValue, missed>>
      /\ applying' \in Nat
      /\ \/ viewStatus' = "loading" /\ applying' > 0
         \/ viewStatus' = "error"
  BY DEF FollowedInv, FollowedTypes, Derived!Apply, Derived!ApplyFails
<1>2. FollowedTypes' /\ StatusIsEarned'
  BY <1>1 DEF FollowedInv, FollowedTypes, StatusIsEarned
<1>3. SubscribedAsRead' /\ ValueIsFresh' /\ RecordsAreFresh'
  BY <1>1 DEF FollowedInv, SubscribedAsRead, ValueIsFresh, RecordsAreFresh, ShowsSuccess, IsSubscribed
<1> QED
  BY <1>2, <1>3 DEF FollowedInv

LEMMA ViewerLeavesStep ==
    ASSUME FollowedInv, NEW l, Derived!Unsubscribe(l)
    PROVE  FollowedInv'
<1>1. /\ UNCHANGED <<units, computing, scheduled, viewStatus, viewValue, applying, missed>>
      /\ viewers' = viewers \ {l} /\ viewers # {}
      /\ dependencies' =
            [d \in Derived!Deps |-> IF viewers = {l} /\ dependencies[d].known
                            THEN [dependencies[d] EXCEPT !.subscribed = FALSE] ELSE dependencies[d]]
  BY DEF Derived!Unsubscribe
<1>2. CASE viewers = {l}
  <2>1. viewers' = {}
    BY <1>1, <1>2
  <2>2. ASSUME NEW d \in Derived!Deps
        PROVE  dependencies'[d] \in {Derived!Unknown} \cup Record /\ ~IsSubscribed(d)'
    <3>1. dependencies[d] \in {Derived!Unknown} \cup Record
      BY DEF FollowedInv, FollowedTypes
    <3>2. CASE dependencies[d].known
      <4>1. dependencies[d] \in Record /\ dependencies'[d] = [dependencies[d] EXCEPT !.subscribed = FALSE]
        BY <1>1, <1>2, <3>1, <3>2 DEF Derived!Unknown
      <4> QED
        BY <4>1 DEF Record, IsSubscribed
    <3>3. CASE ~dependencies[d].known
      BY <1>1, <3>1, <3>3 DEF IsSubscribed
    <3> QED
      BY <3>2, <3>3
  <2>3. FollowedTypes' /\ StatusIsEarned'
    BY <1>1, <2>1, <2>2 DEF FollowedInv, FollowedTypes, StatusIsEarned
  <2> QED
    BY <2>1, <2>2, <2>3 DEF FollowedInv, SubscribedAsRead, ValueIsFresh, RecordsAreFresh, ShowsSuccess
<1>3. CASE viewers # {l}
  <2>1. UNCHANGED dependencies /\ viewers' # {}
    BY <1>1, <1>3 DEF FollowedInv, FollowedTypes
  <2>2. FollowedTypes' /\ StatusIsEarned'
    BY <1>1, <2>1 DEF FollowedInv, FollowedTypes, StatusIsEarned
  <2>3. SubscribedAsRead' /\ ValueIsFresh' /\ RecordsAreFresh'
    BY <1>1, <2>1 DEF FollowedInv, SubscribedAsRead, ValueIsFresh, RecordsAreFresh, ShowsSuccess, IsSubscribed
  <2> QED
    BY <2>2, <2>3 DEF FollowedInv
<1> QED
  BY <1>2, <1>3

LEMMA ChangeStep ==
    ASSUME FollowedInv, NEW d \in Derived!Deps, NEW s \in Derived!Snapshots, Derived!Change(d, s)
    PROVE  FollowedInv'
<1>1. /\ units' = [units EXCEPT ![d] = s]
      /\ UNCHANGED <<viewers, computing, viewValue, applying>>
  BY DEF Derived!Change
<1>2. /\ units \in [Derived!Deps -> Derived!Snapshots] /\ units' \in [Derived!Deps -> Derived!Snapshots]
      /\ units'[d] = s /\ \A e \in Derived!Deps : e # d => units'[e] = units[e]
      /\ dependencies \in [Derived!Deps -> {Derived!Unknown} \cup Record]
  BY <1>1 DEF FollowedInv, FollowedTypes
<1>3. CASE ~IsSubscribed(d)
  <2>1. UNCHANGED <<dependencies, scheduled, viewStatus, missed>>
    BY <1>3 DEF Derived!Change, IsSubscribed
  <2>2. FollowedTypes' /\ StatusIsEarned' /\ SubscribedAsRead'
    BY <1>1, <1>2, <2>1 DEF FollowedInv, FollowedTypes, StatusIsEarned, SubscribedAsRead, ShowsSuccess, IsSubscribed
  <2>3. RecordsAreFresh'
    BY <1>1, <1>2, <1>3, <2>1 DEF FollowedInv, RecordsAreFresh, IsSubscribed
  <2>4. ValueIsFresh'
    BY <1>1, <1>2, <1>3, <2>1 DEF FollowedInv, FollowedTypes, SubscribedAsRead, ValueIsFresh, ShowsSuccess
  <2> QED
    BY <2>2, <2>3, <2>4 DEF FollowedInv
<1>4. CASE IsSubscribed(d)
  <2> DEFINE r       == dependencies[d]
             changed == s.value # r.snap.value
             settles == Derived!Settled(s) /\ (changed \/ r.dirty)
             now     == dependencies'[d]
  <2>1. r \in Record /\ r.subscribed /\ viewers # {}
    BY <1>2, <1>4 DEF IsSubscribed, Derived!Unknown, FollowedInv, SubscribedAsRead
  <2>2. Derived!Effect(d, s) /\ missed' = IF ~changed THEN missed
                     ELSE IF d \in DOMAIN computing.read \/ s.status = "idle" THEN missed \cup {d}
                     ELSE IF Derived!Settled(s) THEN missed \ {d} ELSE missed
    BY <1>4 DEF Derived!Change, IsSubscribed
  <2>3. /\ now \in Record /\ now.snap = s /\ now.subscribed /\ now.known
        /\ now.dirty = IF settles THEN FALSE ELSE r.dirty \/ (changed /\ Derived!Loading(s))
        /\ \A e \in Derived!Deps : e # d => dependencies'[e] = dependencies[e]
        /\ dependencies' \in [Derived!Deps -> {Derived!Unknown} \cup Record]
    <3> DEFINE rec == Derived!Record(s, TRUE, IF settles THEN FALSE ELSE r.dirty \/ (changed /\ Derived!Loading(s)))
    <3>1. dependencies' = [dependencies EXCEPT ![d] = rec]
      BY <2>1, <2>2 DEF Derived!Effect, Derived!Tracks
    <3>2. r.dirty \in BOOLEAN /\ Derived!Loading(s) \in BOOLEAN /\ settles \in BOOLEAN
      BY <2>1 DEF Record, Derived!Loading, Derived!Settled
    <3>3. (IF settles THEN FALSE ELSE r.dirty \/ (changed /\ Derived!Loading(s))) \in BOOLEAN
      BY <3>2
    <3>4. /\ rec \in Record /\ rec.snap = s /\ rec.subscribed = TRUE /\ rec.known = TRUE
          /\ rec.dirty = IF settles THEN FALSE ELSE r.dirty \/ (changed /\ Derived!Loading(s))
      BY <3>3 DEF Derived!Record, Record
    <3> HIDE DEF rec, settles
    <3> QED
      BY <1>2, <3>1, <3>4
  <2>4. /\ settles /\ ~computing.running => scheduled'
        /\ scheduled => scheduled'
        /\ viewStatus' = viewStatus
    <3>1. viewStatus # "idle"
      BY <2>1 DEF FollowedInv, StatusIsEarned
    <3> QED
      BY <2>1, <2>2, <3>1 DEF Derived!Effect, Derived!QueueRecompute, Derived!Tracks
  <2> HIDE DEF now, settles, changed
  <2>5. \A e \in Derived!Deps : IsSubscribed(e)' <=> IsSubscribed(e)
    BY <1>4, <2>3 DEF IsSubscribed, now
  <2>6. FollowedTypes' /\ StatusIsEarned' /\ SubscribedAsRead'
    BY <1>1, <1>2, <2>3, <2>4, <2>5 DEF FollowedInv, FollowedTypes, StatusIsEarned, SubscribedAsRead, ShowsSuccess
  <2>7. /\ \A e \in Derived!Deps : e # d => (e \in missed' <=> e \in missed)
        /\ d \notin missed' /\ changed => d \notin DOMAIN computing.read /\ s.status # "idle"
        /\ d \notin missed' /\ ~changed => d \notin missed
    BY <2>2 DEF changed
  <2>8. RecordsAreFresh'
    <3> SUFFICES ASSUME NEW e \in Derived!Deps \ missed', IsSubscribed(e)'
                 PROVE  /\ dependencies'[e].snap.value = units'[e].value
                        /\ e \in DOMAIN computing'.read => computing'.read[e].value = units'[e].value
      BY DEF RecordsAreFresh
    <3>1. CASE e # d
      BY <1>1, <1>2, <2>3, <2>5, <2>7, <3>1 DEF FollowedInv, RecordsAreFresh
    <3>2. CASE e = d /\ changed
      BY <1>1, <1>2, <2>3, <2>7, <3>2 DEF now
    <3>3. CASE e = d /\ ~changed
      <4>1. d \in Derived!Deps \ missed
        BY <2>7, <3>3
      <4>2. d \in DOMAIN computing.read => computing.read[d].value = units[d].value
        BY <1>4, <4>1 DEF FollowedInv, RecordsAreFresh
      <4>3. units[d].value = r.snap.value
        BY <1>4, <4>1 DEF FollowedInv, RecordsAreFresh
      <4> QED
        BY <1>1, <1>2, <2>3, <3>3, <4>2, <4>3 DEF now, changed
    <3> QED
      BY <3>1, <3>2, <3>3
  <2>9. ValueIsFresh'
    <3> SUFFICES ASSUME ShowsSuccess', ~scheduled', NEW e \in DOMAIN viewValue', e \notin missed'
                 PROVE  \/ viewValue'[e] = units'[e].value
                        \/ dependencies'[e].dirty /\ ~Derived!Settled(units'[e])
      BY DEF ValueIsFresh, Derived!Settled
    <3>1. ShowsSuccess /\ ~scheduled /\ e \in DOMAIN viewValue /\ e \in Derived!Deps
      BY <1>1, <2>4 DEF ShowsSuccess, FollowedInv, FollowedTypes
    <3>2. e \notin missed => viewValue[e] = units[e].value \/ (dependencies[e].dirty /\ ~Derived!Settled(units[e]))
      BY <3>1 DEF FollowedInv, ValueIsFresh
    <3>3. CASE e # d
      BY <1>1, <1>2, <2>3, <2>7, <3>1, <3>2, <3>3 DEF Derived!Settled
    <3>4. CASE e = d
      <4>1. ~settles
        BY <2>4, <3>1 DEF ShowsSuccess
      <4>2. now.dirty = (r.dirty \/ (changed /\ Derived!Loading(s)))
        BY <2>3, <4>1
      <4>3. s.status \in {"idle", "loading", "settled"}
        BY DEF Derived!Snapshots
      <4>4. CASE changed
        <5>1. s.status # "idle" /\ ~Derived!Settled(s)
          BY <2>7, <3>4, <4>1, <4>4 DEF settles
        <5>2. Derived!Loading(s)
          BY <4>3, <5>1 DEF Derived!Settled, Derived!Loading
        <5>3. now.dirty
          BY <4>2, <4>4, <5>2
        <5> QED
          BY <1>2, <3>4, <5>1, <5>3 DEF now
      <4>5. CASE ~changed
        <5>1. d \notin missed /\ units[d].value = r.snap.value
          BY <1>4, <2>7, <3>4, <4>5 DEF FollowedInv, RecordsAreFresh
        <5>2. CASE viewValue[d] = units[d].value
          BY <1>1, <1>2, <3>4, <4>5, <5>1, <5>2 DEF changed
        <5>3. CASE r.dirty /\ ~Derived!Settled(units[d])
          <6>1. ~Derived!Settled(s)
            BY <4>1, <5>3 DEF settles
          <6>2. now.dirty
            BY <4>2, <5>3
          <6> QED
            BY <1>2, <3>4, <6>1, <6>2 DEF now
        <5> QED
          BY <3>2, <3>4, <5>1, <5>2, <5>3
      <4> QED
        BY <4>4, <4>5
    <3> QED
      BY <3>3, <3>4
  <2> QED
    BY <2>6, <2>8, <2>9 DEF FollowedInv
<1> QED
  BY <1>3, <1>4

(* What the record of a dependency becomes that a computation has read. *)
LEMMA SyncedRecord ==
    ASSUME FollowedInv, NEW d \in DOMAIN computing.read
    PROVE  LET r   == Derived!Used(computing.read, d)
               now == Derived!SyncDependencies(computing.read)[d]
           IN  /\ r \in Record /\ r.snap = computing.read[d]
               /\ IsSubscribed(d) => r.subscribed /\ now = r
               /\ ~IsSubscribed(d) => ~r.subscribed
               /\ ~IsSubscribed(d) /\ viewers # {} =>
                     /\ now \in Record /\ now.known /\ now.subscribed /\ now.snap = units[d]
                     /\ Derived!Loading(units[d]) /\ units[d].value # r.snap.value => now.dirty
               /\ ~IsSubscribed(d) /\ viewers = {} => now \in {r, Derived!Unknown}
<1> DEFINE r   == Derived!Used(computing.read, d)
           now == Derived!SyncDependencies(computing.read)[d]
           s   == units[d]
<1>1. /\ d \in Derived!Deps /\ computing.read[d] \in Derived!Snapshots /\ s \in Derived!Snapshots
      /\ dependencies[d] \in {Derived!Unknown} \cup Record
  BY DEF FollowedInv, FollowedTypes
<1>2. r \in Record /\ r.snap = computing.read[d] /\ r.subscribed = IsSubscribed(d)
  <2>1. CASE dependencies[d].known
    <3>1. dependencies[d] \in Record /\ r = [dependencies[d] EXCEPT !.snap = computing.read[d]]
      BY <1>1, <2>1 DEF Derived!Used, Derived!Unknown
    <3> HIDE DEF r
    <3> QED
      BY <1>1, <2>1, <3>1 DEF Record, IsSubscribed
  <2>2. CASE ~dependencies[d].known
    <3>1. r = Derived!Record(computing.read[d], FALSE, FALSE)
      BY <2>2 DEF Derived!Used
    <3> HIDE DEF r
    <3> QED
      BY <1>1, <2>2, <3>1 DEF Record, IsSubscribed, Derived!Record
  <2> QED
    BY <2>1, <2>2
<1>3. now = IF r.subscribed THEN r
            ELSE IF viewers # {} THEN Derived!Subscribed(r, d)
            ELSE IF dependencies[d].known THEN r ELSE Derived!Unknown
  BY <1>1 DEF Derived!SyncDependencies, Derived!Tracks
<1>4. LET sub == Derived!Subscribed(r, d) IN
      /\ sub \in Record /\ sub.known /\ sub.subscribed /\ sub.snap = s
      /\ Derived!Loading(s) /\ s.value # r.snap.value => sub.dirty
  <2> DEFINE changed == s.value # r.snap.value
             dirty   == IF s = r.snap THEN r.dirty
                        ELSE IF Derived!Loading(s) THEN r.dirty \/ changed
                        ELSE IF Derived!Settled(s) THEN FALSE ELSE r.dirty
  <2>1. Derived!Subscribed(r, d) = Derived!Record(s, TRUE, dirty)
    <3> HIDE DEF r
    <3>1. CASE s = r.snap
      BY <3>1 DEF Derived!Subscribed
    <3>2. CASE s # r.snap /\ Derived!Loading(s)
      BY <3>2 DEF Derived!Subscribed, Derived!Loading, Derived!Settled
    <3>3. CASE s # r.snap /\ Derived!Settled(s)
      BY <3>3 DEF Derived!Subscribed, Derived!Loading, Derived!Settled
    <3>4. CASE s # r.snap /\ ~Derived!Loading(s) /\ ~Derived!Settled(s)
      BY <3>4 DEF Derived!Subscribed
    <3> QED
      BY <3>1, <3>2, <3>3, <3>4
  <2>2. r.dirty \in BOOLEAN /\ dirty \in BOOLEAN
    <3>1. r.dirty \in BOOLEAN
      BY <1>2 DEF Record
    <3> HIDE DEF r
    <3> QED
      BY <3>1
  <2>3. Derived!Loading(s) /\ changed => dirty
    <3> HIDE DEF r
    <3> QED
      OBVIOUS
  <2> HIDE DEF dirty, r
  <2> QED
    BY <1>1, <2>1, <2>2, <2>3 DEF Derived!Record, Record
<1> HIDE DEF r, now
<1>5. CASE IsSubscribed(d)
  BY <1>2, <1>3, <1>5 DEF r, now
<1>6. CASE ~IsSubscribed(d) /\ viewers # {}
  BY <1>2, <1>3, <1>4, <1>6 DEF r, now
<1>7. CASE ~IsSubscribed(d) /\ viewers = {}
  BY <1>2, <1>3, <1>7 DEF r, now
<1> QED
  BY <1>5, <1>6, <1>7

LEMMA EndsStep ==
    ASSUME FollowedInv, Derived!Succeeds \/ Derived!Fails
    PROVE  FollowedInv'
<1> DEFINE read == computing.read
<1>1. /\ computing.running /\ UNCHANGED <<units, viewers, scheduled, applying>>
      /\ dependencies' = Derived!SyncDependencies(read)
      /\ computing' = IF pending \/ Derived!FoundChange(read)
                      THEN Derived!Running(Derived!Nothing) ELSE Derived!NotRunning
      /\ missed' = (missed \cap DOMAIN read) \cup Derived!FoundIdle(read)
      /\ \/ viewStatus' = "success" /\ viewValue' = [d \in DOMAIN read |-> read[d].value]
         \/ viewStatus' = "error" /\ viewValue' = viewValue
  BY DEF Derived!Succeeds, Derived!Fails, Derived!Ends
<1>2. /\ computing'.running \in BOOLEAN /\ DOMAIN computing'.read = {}
      /\ ~computing'.running => ~Derived!FoundChange(read)
  BY <1>1 DEF Derived!Running, Derived!NotRunning, Derived!Nothing
<1>3. /\ DOMAIN read \subseteq Derived!Deps
      /\ \A d \in DOMAIN read : read[d] \in Derived!Snapshots
      /\ units \in [Derived!Deps -> Derived!Snapshots]
  BY DEF FollowedInv, FollowedTypes
<1>4. ASSUME NEW d \in Derived!Deps, d \notin DOMAIN read
      PROVE  dependencies'[d] = Derived!Unknown
  BY <1>1, <1>4 DEF Derived!SyncDependencies
<1>5. ASSUME NEW d \in DOMAIN read
      PROVE  LET r == Derived!Used(read, d) now == dependencies'[d] IN
             /\ r \in Record /\ r.snap = read[d]
             /\ IsSubscribed(d) => r.subscribed /\ now = r
             /\ ~IsSubscribed(d) => ~r.subscribed
             /\ ~IsSubscribed(d) /\ viewers # {} =>
                   /\ now \in Record /\ now.known /\ now.subscribed /\ now.snap = units[d]
                   /\ Derived!Loading(units[d]) /\ units[d].value # r.snap.value => now.dirty
             /\ ~IsSubscribed(d) /\ viewers = {} => now \in {r, Derived!Unknown}
  BY <1>1, <1>5, SyncedRecord
<1>6. dependencies' \in [Derived!Deps -> {Derived!Unknown} \cup Record]
  <2>1. \A d \in Derived!Deps : dependencies'[d] \in {Derived!Unknown} \cup Record
    BY <1>4, <1>5
  <2> QED
    BY <1>1, <2>1 DEF Derived!SyncDependencies
<1>7. /\ viewers = {} => \A d \in Derived!Deps : ~IsSubscribed(d)'
      /\ viewers # {} => \A d \in Derived!Deps : IsSubscribed(d)' <=> d \in DOMAIN read
  <2>1. ASSUME NEW d \in Derived!Deps, d \notin DOMAIN read PROVE ~IsSubscribed(d)'
    BY <1>4, <2>1 DEF IsSubscribed, Derived!Unknown
  <2>2. ASSUME NEW d \in DOMAIN read, viewers # {} PROVE IsSubscribed(d)'
    BY <1>5, <2>2 DEF IsSubscribed, Record
  <2>3. ASSUME NEW d \in DOMAIN read, viewers = {} PROVE ~IsSubscribed(d)'
    <3>1. ~IsSubscribed(d)
      BY <1>3, <2>3 DEF FollowedInv, SubscribedAsRead
    <3> QED
      BY <1>5, <2>3, <3>1 DEF IsSubscribed, Derived!Unknown
  <2> QED
    BY <1>3, <2>1, <2>2, <2>3
<1>8. FollowedTypes' /\ StatusIsEarned'
  <2>1. /\ viewStatus' \in {"success", "error"}
        /\ DOMAIN viewValue' \subseteq Derived!Deps /\ applying' \in Nat
    BY <1>1, <1>3 DEF FollowedInv, FollowedTypes
  <2> QED
    BY <1>1, <1>2, <1>3, <1>6, <2>1 DEF FollowedTypes, StatusIsEarned
<1>9. SubscribedAsRead'
  <2>1. ShowsSuccess' => DOMAIN viewValue' = DOMAIN read
    BY <1>1 DEF ShowsSuccess
  <2> QED
    BY <1>1, <1>7, <2>1 DEF SubscribedAsRead, ShowsSuccess
<1>10. ASSUME NEW d \in DOMAIN read, d \notin missed', IsSubscribed(d)
       PROVE  read[d].value = units[d].value
  BY <1>1, <1>3, <1>10 DEF FollowedInv, RecordsAreFresh
<1>11. RecordsAreFresh'
  <2> SUFFICES ASSUME NEW d \in Derived!Deps \ missed', IsSubscribed(d)'
               PROVE  dependencies'[d].snap.value = units[d].value
    BY <1>1, <1>2 DEF RecordsAreFresh
  <2>1. viewers # {} /\ d \in DOMAIN read
    BY <1>7
  <2>2. CASE IsSubscribed(d)
    BY <1>5, <1>10, <2>1, <2>2
  <2>3. CASE ~IsSubscribed(d)
    BY <1>5, <2>1, <2>3
  <2> QED
    BY <2>2, <2>3
<1>12. ValueIsFresh'
  <2> SUFFICES ASSUME ShowsSuccess', NEW d \in DOMAIN viewValue', d \notin missed'
               PROVE  \/ viewValue'[d] = units[d].value
                      \/ dependencies'[d].dirty /\ ~Derived!Settled(units[d])
    BY <1>1 DEF ValueIsFresh, Derived!Settled
  <2>1. viewers # {} /\ d \in DOMAIN read /\ viewValue'[d] = read[d].value /\ ~Derived!FoundChange(read)
    BY <1>1, <1>2 DEF ShowsSuccess
  <2>2. CASE IsSubscribed(d)
    BY <1>10, <2>1, <2>2
  <2>3. CASE ~IsSubscribed(d) /\ units[d].value # read[d].value
    <3>1. d \in Derived!Found(read) /\ Derived!Used(read, d).snap = read[d]
      BY <1>5, <2>1, <2>3 DEF Derived!Found, Derived!Tracks
    <3>2. units[d].status # "idle"
      BY <1>1, <2>3, <3>1 DEF Derived!FoundIdle
    <3>3. ~Derived!Settled(units[d])
      BY <2>1, <2>3, <3>1 DEF Derived!FoundChange
    <3>4. Derived!Loading(units[d])
      BY <1>3, <2>1, <3>2, <3>3 DEF Derived!Snapshots, Derived!Settled, Derived!Loading
    <3>5. dependencies'[d].dirty
      BY <1>5, <2>1, <2>3, <3>1, <3>4
    <3> QED
      BY <3>3, <3>5
  <2>4. CASE units[d].value = read[d].value
    BY <2>1, <2>4
  <2> QED
    BY <2>2, <2>3, <2>4
<1> QED
  BY <1>8, <1>9, <1>11, <1>12 DEF FollowedInv

LEMMA FollowedStep ==
    ASSUME FollowedInv, Derived!ViewNext \/ Derived!TransformNext
    PROVE  FollowedInv'
<1>1. CASE \E d \in Derived!Deps, s \in Derived!Snapshots : Derived!Change(d, s)
  BY <1>1, ChangeStep
<1>2. CASE \E d \in Derived!Deps : Derived!Get(d)
  BY <1>2, GetStep
<1>3. CASE Derived!Succeeds \/ Derived!Fails
  BY <1>3, EndsStep
<1>4. CASE Derived!QueuedRecompute \/ Derived!Refresh \/ Derived!Applied
  <2>1. Derived!RunRecompute /\ UNCHANGED <<units, dependencies, viewValue, missed, viewers>>
    BY <1>4 DEF Derived!QueuedRecompute, Derived!Refresh, Derived!Applied
  <2>2. applying' \in Nat
    BY <1>4 DEF FollowedInv, FollowedTypes, Derived!QueuedRecompute, Derived!Refresh, Derived!Applied
  <2> QED
    BY <2>1, <2>2, RecomputeStep
<1>5. CASE \E l \in Viewers : Derived!Subscribe(l)
  <2>1. PICK l \in Viewers : Derived!Subscribe(l)
    BY <1>5
  <2>2. /\ UNCHANGED <<units, dependencies, viewValue, missed, applying, scheduled>> /\ viewers' # {}
        /\ applying' \in Nat
    BY <2>1 DEF Derived!Subscribe, FollowedInv, FollowedTypes
  <2>3. CASE viewers = {}
    BY <2>1, <2>2, <2>3, RecomputeStep DEF Derived!Subscribe
  <2>4. CASE viewers # {}
    <3>1. UNCHANGED <<computing, viewStatus>>
      BY <2>1, <2>4 DEF Derived!Subscribe
    <3> QED
      BY <2>2, <2>4, <3>1 DEF FollowedInv, FollowedTypes, StatusIsEarned, SubscribedAsRead, RecordsAreFresh,
                              ValueIsFresh, ShowsSuccess, IsSubscribed
  <2> QED
    BY <2>3, <2>4
<1>6. CASE \E l \in Viewers : Derived!Unsubscribe(l)
  BY <1>6, ViewerLeavesStep
<1>7. CASE Derived!Apply \/ Derived!ApplyFails
  BY <1>7, ApplyStep
<1> QED
  BY <1>1, <1>2, <1>3, <1>4, <1>5, <1>6, <1>7
     DEF Derived!ViewNext, Derived!TransformNext, Derived!DependencyChanges, Derived!OutReads,
         Derived!OutEnds, Derived!Recomputes, Derived!ListenersChange

LEMMA FollowedStutters == FollowedInv /\ UNCHANGED derivedVars => FollowedInv'
  BY DEF derivedVars, FollowedInv, FollowedTypes, StatusIsEarned, SubscribedAsRead, RecordsAreFresh,
         ValueIsFresh, ShowsSuccess, IsSubscribed

LEMMA FollowedIsKept == FollowedInv /\ [Next]_vars => FollowedInv'
<1> SUFFICES ASSUME FollowedInv, [Next]_vars PROVE FollowedInv'
  OBVIOUS
<1>1. CASE DerivedNext
  BY <1>1, FollowedStep DEF DerivedNext
<1>2. CASE UNCHANGED derivedVars
  BY <1>2, FollowedStutters
<1> QED
  BY <1>1, <1>2 DEF Next, vars

(* Who says that it is loading has something under way that will end it. *)
THEOREM LoadingEnds == Spec => []LoadingIsUnderWay
<1>1. Init => ActionInv /\ FollowedInv
  BY ActionInitially, FollowedInitially DEF Init
<1>2. ActionInv /\ FollowedInv => LoadingIsUnderWay
  BY DEF ActionInv, FollowedInv, StatusIsEarned, LoadingIsUnderWay, Derived!LoadingIsUnderWay
<1> QED
  BY <1>1, <1>2, ActionIsKept, FollowedIsKept, PTL DEF Spec

(* A view or transform follows what its value was computed from. *)
THEOREM DerivedValuesFollow == Spec => []DerivedUnitsFollow
<1>1. Init => FollowedInv
  BY FollowedInitially DEF Init
<1>2. FollowedInv => DerivedUnitsFollow
  <2> SUFFICES ASSUME FollowedInv
               PROVE  Derived!DerivedTypeOK /\ Derived!SubscriptionsMatch /\ Derived!FollowsItsDependencies
    BY DEF DerivedUnitsFollow
  <2>1. Derived!DerivedTypeOK
    <3>1. ASSUME NEW d \in Derived!Deps, dependencies[d].known PROVE dependencies[d] \in Record
      BY <3>1 DEF FollowedInv, FollowedTypes, Derived!Unknown
    <3> QED
      BY <3>1 DEF FollowedInv, FollowedTypes, Record, Derived!DerivedTypeOK
  <2>2. Derived!SubscriptionsMatch
    <3> DEFINE subscribedTo == {d \in Derived!Deps : dependencies[d].known /\ dependencies[d].subscribed}
    <3>1. viewers = {} => subscribedTo = {}
      BY DEF FollowedInv, SubscribedAsRead, IsSubscribed
    <3>2. Derived!Tracks /\ Derived!Quiet /\ viewStatus = "success" => subscribedTo = DOMAIN viewValue
      BY DEF FollowedInv, FollowedTypes, SubscribedAsRead, IsSubscribed, ShowsSuccess,
             Derived!Tracks, Derived!Quiet
    <3> QED
      BY <3>1, <3>2 DEF Derived!SubscriptionsMatch
  <2>3. Derived!FollowsItsDependencies
    BY DEF FollowedInv, ValueIsFresh, ShowsSuccess, Derived!FollowsItsDependencies, Derived!Current,
           Derived!Tracks, Derived!Quiet
  <2> QED
    BY <2>1, <2>2, <2>3
<1> QED
  BY <1>1, <1>2, FollowedIsKept, PTL DEF Spec

-----------------------------------------------------------------------------
(* Tracked units.  While somebody has been told of what the unit shows, the
   kept snapshot is that one or none; an adapter whose turn comes when it has
   been stored already is one for whom another has stored it, or has read it. *)

TrackedInv ==
    /\ Track!TrackedTypeOK /\ Track!ChangesAreTracked
    /\ subscribed \ telling # {} => stored \in {current, None}
    /\ \A x \in telling : stored = current => x \in shared \/ view[x] = current

LEMMA TrackedInitially == Track!TrackedInit => TrackedInv
  BY DEF Track!TrackedInit, TrackedInv, Track!TrackedTypeOK, Track!ChangesAreTracked

LEMMA TrackedStep ==
    ASSUME TrackedInv, Track!TrackedNext
    PROVE  TrackedInv'
<1>1. /\ current \in Shots /\ stored \in Shots \cup {None} /\ view \in [Adapters -> Shots]
      /\ subscribed \cup telling \cup readAgain \cup shared \subseteq Adapters /\ None \notin Shots
  BY ApplicationConstants DEF Track!TrackedConstants, TrackedInv, Track!TrackedTypeOK
<1>2. /\ \A x \in subscribed \ (telling \cup readAgain \cup shared) : view[x] = current
      /\ subscribed \ telling # {} => stored \in {current, None}
      /\ \A x \in telling : stored = current => x \in shared \/ view[x] = current
  BY DEF TrackedInv, Track!ChangesAreTracked
<1>3. CASE \E x \in Adapters : Track!Read(x)
  BY <1>1, <1>2, <1>3 DEF Track!Read, TrackedInv, Track!TrackedTypeOK, Track!ChangesAreTracked
<1>4. CASE \E x \in Adapters : Track!Subscribe(x)
  BY <1>1, <1>2, <1>4 DEF Track!Subscribe, TrackedInv, Track!TrackedTypeOK, Track!ChangesAreTracked
<1>5. CASE \E x \in Adapters : Track!Unsubscribe(x)
  BY <1>1, <1>2, <1>5 DEF Track!Unsubscribe, TrackedInv, Track!TrackedTypeOK, Track!ChangesAreTracked
<1>6. CASE \E x \in Adapters : Track!Tell(x)
  BY <1>1, <1>2, <1>6 DEF Track!Tell, Track!Write, TrackedInv, Track!TrackedTypeOK, Track!ChangesAreTracked
<1>7. CASE \E s \in Shots : Track!Change(s)
  BY <1>1, <1>2, <1>7 DEF Track!Change, TrackedInv, Track!TrackedTypeOK, Track!ChangesAreTracked
<1>8. CASE Track!Reset
  BY <1>1, <1>2, <1>8 DEF Track!Reset, TrackedInv, Track!TrackedTypeOK, Track!ChangesAreTracked
<1> QED
  BY <1>3, <1>4, <1>5, <1>6, <1>7, <1>8 DEF Track!TrackedNext

LEMMA TrackedIsKept == TrackedInv /\ [Next]_vars => TrackedInv'
<1> SUFFICES ASSUME TrackedInv, [Next]_vars PROVE TrackedInv'
  OBVIOUS
<1>1. CASE TrackNext
  BY <1>1, TrackedStep DEF TrackNext
<1>2. CASE UNCHANGED trackVars
  BY <1>2 DEF trackVars, TrackedInv, Track!TrackedTypeOK, Track!ChangesAreTracked
<1> QED
  BY <1>1, <1>2 DEF Next, vars

-----------------------------------------------------------------------------
(* What the listeners of drafts know.  A local draft is of a unit in local
   mode, so that a unit and its source always show the same.  What a step
   writes has an edit or a number that nothing had before: a unit whose
   status changes without its own doing sees another version, and is told.
   All of this is as long as the entity has not been deleted.              *)

VersionsAreNew ==
    /\ \A v \in {base, draft, queued} : v # None => v.edits \subseteq 1..steps
    /\ draft # None => draft.at <= steps /\ draft # base
    /\ local # None => mode[local] = "local"

HeardDraftsInv == DraftInv /\ (held => VersionsAreNew /\ Draft!DraftsAreHeard)

LEMMA SourceIsShown ==
    ASSUME DraftInv, VersionsAreNew, held, NEW u \in DraftUnits
    PROVE  /\ Draft!Snapshot(u).value = Draft!SourceOf(u)
           /\ Draft!Snapshot(u).dirty = Draft!Active(u)
           /\ Draft!Active(u) => Draft!SourceOf(u) = draft /\ draft # None
<1>1. /\ draftMode = "local" => local # None
      /\ (draft = None) = (owner = None)
      /\ u # None /\ Identity[u] # None
  BY DraftConstantsHold DEF DraftInv, Draft!DraftsAreOwned
<1>2. Draft!Read(u) = Draft!SourceOf(u)
  BY <1>1 DEF VersionsAreNew, Draft!Read, Draft!SourceOf, Draft!Visible
<1>3. Draft!Active(u) => Draft!Visible(u)
  BY <1>1 DEF Draft!Active, Draft!Visible
<1> QED
  BY <1>2, <1>3 DEF Draft!Snapshot, Draft!Shown, Draft!SourceOf, Draft!Visible

(* Whoever is not told goes on seeing the same, and with the same status. *)
LEMMA NotifiedStep ==
    ASSUME HeardDraftsInv, held, held', DraftInv', VersionsAreNew', NEW callers,
           Draft!Notify(callers), UNCHANGED <<many, listening>>,
           \A u \in DraftUnits \ callers :
               Draft!SourceOf(u)' = Draft!SourceOf(u) => (Draft!Active(u)' <=> Draft!Active(u))
    PROVE  Draft!DraftsAreHeard'
<1> SUFFICES ASSUME NEW u \in listening
             PROVE  /\ Draft!Same(told[u].value, Draft!Snapshot(u).value)'
                    /\ many => told'[u].dirty = Draft!Snapshot(u)'.dirty
  BY DEF Draft!DraftsAreHeard
<1>1. u \in DraftUnits
  BY DEF HeardDraftsInv, DraftInv, Draft!DraftsTypeOK
<1>2. /\ Draft!Snapshot(u)'.value = Draft!SourceOf(u)' /\ Draft!Snapshot(u)'.dirty = Draft!Active(u)'
      /\ Draft!Snapshot(u).value = Draft!SourceOf(u) /\ Draft!Snapshot(u).dirty = Draft!Active(u)
  <2>1. Draft!Snapshot(u).value = Draft!SourceOf(u) /\ Draft!Snapshot(u).dirty = Draft!Active(u)
    BY <1>1, SourceIsShown DEF HeardDraftsInv
  <2>2. /\ draftMode' = "local" => local' # None
        /\ local' # None => mode'[local'] = "local"
    BY DraftConstantsHold DEF DraftInv, Draft!DraftsAreOwned, VersionsAreNew
  <2>3. Draft!Read(u)' = Draft!SourceOf(u)'
    BY <2>2 DEF Draft!Read, Draft!SourceOf, Draft!Visible
  <2>4. Draft!Shown(u)' = Draft!SourceOf(u)'
    BY <2>3 DEF Draft!Shown
  <2> QED
    BY <2>1, <2>4 DEF Draft!Snapshot
<1> DEFINE isTold == u \in {w \in listening : held /\ ~Draft!Same(Draft!SourceOf(w), Draft!SourceOf(w)')} \cup (callers \cap listening)
<1>3. told'[u] = IF isTold THEN Draft!Snapshot(u)' ELSE told[u]
  BY <1>1 DEF Draft!Notify
<1>4. CASE isTold
  BY <1>2, <1>3, <1>4 DEF Draft!Same
<1>5. CASE ~isTold
  <2>1. told'[u] = told[u] /\ Draft!Same(Draft!SourceOf(u), Draft!SourceOf(u)') /\ u \notin callers
    BY <1>3, <1>5
  <2>2. Draft!Same(told[u].value, Draft!SourceOf(u)) /\ (many => told[u].dirty = Draft!Active(u))
    BY <1>2 DEF HeardDraftsInv, Draft!DraftsAreHeard
  <2>3. Draft!Same(told[u].value, Draft!SourceOf(u)')
    BY <2>1, <2>2 DEF Draft!Same
  <2>4. ASSUME many PROVE told'[u].dirty = Draft!Active(u)'
    <3>1. Draft!SourceOf(u)' = Draft!SourceOf(u)
      BY <2>1, <2>4 DEF Draft!Same
    <3>2. Draft!Active(u) \in BOOLEAN /\ Draft!Active(u)' \in BOOLEAN
      BY DEF Draft!Active
    <3> QED
      BY <1>1, <2>1, <2>2, <2>4, <3>1, <3>2
  <2> QED
    BY <1>2, <2>1, <2>3, <2>4 DEF Draft!Same
<1> QED
  BY <1>4, <1>5

LEMMA ActiveShowsDraft ==
    ASSUME DraftInv, DraftInv', held, held', NEW u \in DraftUnits
    PROVE  /\ Draft!SourceOf(u) \in {draft, base} /\ Draft!SourceOf(u)' \in {draft', base'}
           /\ Draft!Active(u) => Draft!SourceOf(u) = draft /\ draft # None
           /\ Draft!Active(u)' => Draft!SourceOf(u)' = draft' /\ draft' # None
<1>1. /\ draftMode = "local" => local # None
      /\ (draft = None) = (owner = None) /\ (draft' = None) = (owner' = None)
      /\ u # None /\ Identity[u] # None
      /\ mode \in [DraftUnits -> Draft!Modes] /\ mode' \in [DraftUnits -> Draft!Modes]
  BY DraftConstantsHold DEF DraftInv, Draft!DraftsAreOwned, Draft!DraftsTypeOK
<1>2. Draft!Active(u) => Draft!Visible(u)
  BY <1>1 DEF Draft!Active, Draft!Visible
<1>3. Draft!Active(u)' => Draft!Visible(u)'
  BY <1>1 DEF Draft!Active, Draft!Visible
<1> QED
  BY <1>2, <1>3 DEF Draft!SourceOf, Draft!Visible

(* No other unit's status changes unless its source shows another version:
   the draft that was is not shown any more, or one is that was not.        *)
LEMMA StatusFollowsVersion ==
    ASSUME DraftInv, DraftInv', held, held', NEW u \in DraftUnits,
           draft # None => draft \notin {draft', base'},
           draft' # None => draft' \notin {draft, base}
    PROVE  Draft!SourceOf(u)' = Draft!SourceOf(u) => (Draft!Active(u)' <=> Draft!Active(u))
  BY ActiveShowsDraft

LEMMA HeardDraftsFacts ==
    ASSUME HeardDraftsInv, held
    PROVE  /\ steps \in Nat /\ steps + 1 \notin 1..steps /\ 1..steps \subseteq 1..steps + 1
           /\ DraftInv /\ VersionsAreNew
           /\ base \in DraftVersions /\ draft \in DraftVersions /\ queued \in DraftVersions
  BY DraftConstantsHold DEF HeardDraftsInv, DraftInv, Draft!DraftsTypeOK, DraftVersions

LEMMA SetIsHeard ==
    ASSUME HeardDraftsInv, held, DraftInv', NEW u \in DraftUnits, Draft!Set(u)
    PROVE  HeardDraftsInv'
<1> DEFINE version == Draft!Version(Draft!Patched(u).edits \cup {steps + 1}, steps + 1)
<1>1. steps' = steps + 1 /\ UNCHANGED <<base, mode, many, listening>> /\ Draft!Notify({u}) /\ Draft!Patched(u) # None
      /\ held'
  BY DEF Draft!Set, Draft!Step, Draft!Rest, Draft!Reads
<1>2. Draft!Patched(u).edits \subseteq 1..steps
  BY <1>1, HeardDraftsFacts DEF Draft!Patched, Draft!Read, Draft!SourceOf, VersionsAreNew
<1>3. version.edits = Draft!Patched(u).edits \cup {steps + 1} /\ version.at = steps + 1
  BY DEF Draft!Version
<1> HIDE DEF version
<1>4. version.edits \subseteq 1..steps + 1 /\ steps + 1 \in version.edits
  BY <1>2, <1>3, HeardDraftsFacts
<1>5. \A v \in {base, draft, queued} : v # None => v # version /\ v.edits \subseteq 1..steps + 1
  BY <1>4, HeardDraftsFacts DEF VersionsAreNew
<1>6. CASE Draft!Unowned(Identity[u])
  <2>1. /\ draft' = version /\ local' = (IF mode[u] = "local" THEN u ELSE None) /\ queued' = queued
    BY <1>6 DEF Draft!Set, version
  <2>2. version # base
    <3>1. CASE base = None
      <4>1. version # None
        <5>1. draft' # None
          BY <1>6, DraftConstantsHold DEF DraftInv, Draft!DraftsAreOwned, Draft!Set
        <5> QED
          BY <2>1, <5>1
      <4> QED
        BY <3>1, <4>1
    <3>2. CASE base # None
      BY <1>5, <3>2
    <3> QED
      BY <3>1, <3>2
  <2>3. VersionsAreNew'
    <3>1. draft'.at <= steps' /\ draft' # base'
      <4>1. version.at = steps' /\ steps' \in Nat
        BY <1>1, <1>3, HeardDraftsFacts
      <4>2. draft' = version /\ base' = base
        BY <1>1, <2>1
      <4> QED
        BY <2>2, <4>1, <4>2
    <3>2. \A v \in {base', draft', queued'} : v # None => v.edits \subseteq 1..steps'
      <4>1. version.edits \subseteq 1..steps'
        BY <1>1, <1>4
      <4>2. \A v \in {base, queued} : v # None => v.edits \subseteq 1..steps'
        BY <1>1, <1>5
      <4> QED
        BY <1>1, <2>1, <4>1, <4>2
    <3>3. local' # None => mode'[local'] = "local"
      BY <1>1, <2>1
    <3> QED
      BY <3>1, <3>2, <3>3 DEF VersionsAreNew
  <2>4. /\ draft # None => draft \notin {draft', base'}
        /\ draft' # None => draft' \notin {draft, base}
    <3>1. draft # None => draft # version /\ draft # base
      BY <1>5, HeardDraftsFacts DEF VersionsAreNew
    <3> QED
      BY <1>1, <2>1, <2>2, <3>1
  <2>5. Draft!DraftsAreHeard'
    BY <1>1, <2>3, <2>4, StatusFollowsVersion, NotifiedStep, HeardDraftsFacts
  <2> QED
    BY <2>3, <2>5 DEF HeardDraftsInv
<1>7. CASE ~Draft!Unowned(Identity[u])
  <2>1. UNCHANGED <<draft, owner, draftMode, local>> /\ queued' = version
    BY <1>7 DEF Draft!Set, version
  <2>2. VersionsAreNew'
    <3>1. \A v \in {base', draft', queued'} : v # None => v.edits \subseteq 1..steps'
      <4>1. version.edits \subseteq 1..steps'
        BY <1>1, <1>4
      <4>2. \A v \in {base, draft} : v # None => v.edits \subseteq 1..steps'
        BY <1>1, <1>5
      <4> QED
        BY <1>1, <2>1, <4>1, <4>2
    <3>2. draft' # None => draft'.at <= steps' /\ draft' # base'
      <4>1. draft # None => draft.at <= steps /\ draft # base /\ draft.at \in Nat
        BY HeardDraftsFacts, DraftConstantsHold DEF VersionsAreNew, DraftVersions, Draft!Versions
      <4> QED
        BY <1>1, <2>1, <4>1, HeardDraftsFacts
    <3>3. local' # None => mode'[local'] = "local"
      BY <1>1, <2>1, HeardDraftsFacts DEF VersionsAreNew
    <3> QED
      BY <3>1, <3>2, <3>3 DEF VersionsAreNew
  <2>3. \A w \in DraftUnits : Draft!Active(w)' <=> Draft!Active(w)
    BY <1>1, <2>1 DEF Draft!Active
  <2>4. Draft!DraftsAreHeard'
    BY <1>1, <2>2, <2>3, NotifiedStep
  <2> QED
    BY <2>2, <2>4, HeardDraftsFacts DEF HeardDraftsInv
<1> QED
  BY <1>6, <1>7

LEMMA SetNothingIsHeard ==
    ASSUME HeardDraftsInv, held, DraftInv', NEW u \in DraftUnits, Draft!SetNothing(u)
    PROVE  HeardDraftsInv'
<1>1. /\ UNCHANGED <<steps, mode, many, listening, base, draft, owner, draftMode, local, queued>>
      /\ Draft!Notify({u}) /\ held'
  BY DEF Draft!SetNothing, Draft!Rest, Draft!stored, Draft!Reads
<1>2. VersionsAreNew'
  BY <1>1, HeardDraftsFacts DEF VersionsAreNew
<1>3. \A w \in DraftUnits : Draft!Active(w)' <=> Draft!Active(w)
  BY <1>1 DEF Draft!Active
<1>4. Draft!DraftsAreHeard'
  BY <1>1, <1>2, <1>3, NotifiedStep
<1> QED
  BY <1>2, <1>4 DEF HeardDraftsInv

LEMMA ClearIsHeard ==
    ASSUME HeardDraftsInv, held, DraftInv', NEW u \in DraftUnits, Draft!Clear(u)
    PROVE  HeardDraftsInv'
<1>1. UNCHANGED <<steps, mode, many, listening>> /\ Draft!Notify({u}) /\ held'
  BY DEF Draft!Clear, Draft!Rest, Draft!sources
<1>2. CASE Draft!Active(u)
  <2>1. /\ draft' = None /\ local' = None /\ queued' = None /\ base' = Draft!ApplyQueued
    BY <1>2 DEF Draft!Clear, Draft!NoDraft
  <2>2. /\ base' # None => base'.edits \subseteq 1..steps
        /\ draft # None => base' # draft
    <3>1. CASE queued = None
      BY <2>1, <3>1, HeardDraftsFacts DEF VersionsAreNew, Draft!ApplyQueued
    <3>2. CASE queued # None
      <4>1. base'.edits = queued.edits /\ base'.at = steps + 1
        BY <2>1, <3>2 DEF Draft!ApplyQueued, Draft!Version
      <4>2. queued.edits \subseteq 1..steps
        BY <3>2, HeardDraftsFacts DEF VersionsAreNew
      <4>3. draft # None => draft.at <= steps /\ draft.at \in Nat
        BY HeardDraftsFacts, DraftConstantsHold DEF VersionsAreNew, DraftVersions, Draft!Versions
      <4>4. draft # None => draft.at # steps + 1
        BY <4>3, HeardDraftsFacts
      <4> QED
        BY <4>1, <4>2, <4>4
    <3> QED
      BY <3>1, <3>2
  <2>3. VersionsAreNew'
    BY <1>1, <2>1, <2>2 DEF VersionsAreNew
  <2>4. draft # None => draft \notin {draft', base'}
    BY <2>1, <2>2
  <2>5. Draft!DraftsAreHeard'
    BY <1>1, <2>1, <2>3, <2>4, StatusFollowsVersion, NotifiedStep, HeardDraftsFacts
  <2> QED
    BY <2>3, <2>5 DEF HeardDraftsInv
<1>3. CASE ~Draft!Active(u)
  <2>1. UNCHANGED <<base, draft, owner, draftMode, local, queued>>
    BY <1>3 DEF Draft!Clear, Draft!stored
  <2>2. VersionsAreNew'
    BY <1>1, <2>1, HeardDraftsFacts DEF VersionsAreNew
  <2>3. \A w \in DraftUnits : Draft!Active(w)' <=> Draft!Active(w)
    BY <1>1, <2>1 DEF Draft!Active
  <2>4. Draft!DraftsAreHeard'
    BY <1>1, <2>2, <2>3, NotifiedStep
  <2> QED
    BY <2>2, <2>4 DEF HeardDraftsInv
<1> QED
  BY <1>2, <1>3

LEMMA StoreIsHeard ==
    ASSUME HeardDraftsInv, held, DraftInv', (\E i : Draft!Commit(i)) \/ Draft!Upsert \/ Draft!Delete
    PROVE  HeardDraftsInv'
<1>1. CASE \E i : Draft!Commit(i)
  <2>1. /\ steps' = steps + 1 /\ UNCHANGED <<mode, many, listening>> /\ Draft!Notify({})
        /\ draft # None /\ draft' = None /\ local' = None /\ queued' = None
        /\ base' = Draft!Version(draft.edits, steps + 1) /\ held'
    BY <1>1 DEF Draft!Commit, Draft!sources, Draft!Step, Draft!Rest, Draft!NoDraft
  <2>2. draft.edits \subseteq 1..steps /\ draft.at <= steps /\ draft.at \in Nat
    BY <2>1, HeardDraftsFacts, DraftConstantsHold DEF VersionsAreNew, DraftVersions, Draft!Versions
  <2>3. base'.edits = draft.edits /\ base'.at = steps + 1
    BY <2>1 DEF Draft!Version
  <2>4. base' # draft
    <3>1. draft.at # steps + 1
      BY <2>2, HeardDraftsFacts
    <3> QED
      BY <2>3, <3>1
  <2>5. VersionsAreNew'
    BY <2>1, <2>2, <2>3, HeardDraftsFacts DEF VersionsAreNew
  <2>6. Draft!DraftsAreHeard'
    BY <2>1, <2>4, <2>5, StatusFollowsVersion, NotifiedStep, HeardDraftsFacts
  <2> QED
    BY <2>5, <2>6 DEF HeardDraftsInv
<1>2. CASE Draft!Upsert
  <2> DEFINE had == IF base = None THEN {} ELSE base.edits
  <2>1. /\ steps' = steps + 1 /\ UNCHANGED <<mode, many, listening, draft, owner, draftMode, local, queued>>
        /\ Draft!Notify({}) /\ base' = Draft!Version(had \cup {steps + 1}, steps + 1) /\ held'
    BY <1>2 DEF Draft!Upsert, Draft!sources, Draft!Step, Draft!Rest
  <2>2. had \subseteq 1..steps
    BY HeardDraftsFacts DEF VersionsAreNew
  <2>3. base'.edits = had \cup {steps + 1}
    BY <2>1 DEF Draft!Version
  <2> HIDE DEF had
  <2>4. base'.edits \subseteq 1..steps + 1 /\ steps + 1 \in base'.edits
    <3>1. steps + 1 \in 1..steps + 1 /\ had \subseteq 1..steps + 1
      BY <2>2, HeardDraftsFacts
    <3> QED
      BY <2>3, <3>1
  <2>5. draft # None => draft # base' /\ draft.at <= steps + 1
    <3>1. draft # None => draft.edits \subseteq 1..steps /\ draft.at <= steps /\ draft.at \in Nat
      BY HeardDraftsFacts, DraftConstantsHold DEF VersionsAreNew, DraftVersions, Draft!Versions
    <3> QED
      BY <2>4, <3>1, HeardDraftsFacts
  <2>6. VersionsAreNew'
    BY <2>1, <2>4, <2>5, HeardDraftsFacts DEF VersionsAreNew
  <2>7. \A w \in DraftUnits : Draft!Active(w)' <=> Draft!Active(w)
    BY <2>1 DEF Draft!Active
  <2>8. Draft!DraftsAreHeard'
    BY <2>1, <2>6, <2>7, NotifiedStep
  <2> QED
    BY <2>6, <2>8, HeardDraftsFacts DEF HeardDraftsInv
<1>3. CASE Draft!Delete
  BY <1>3 DEF Draft!Delete, HeardDraftsInv
<1> QED
  BY <1>1, <1>2, <1>3

LEMMA ListenerIsHeard ==
    ASSUME HeardDraftsInv, held, DraftInv', NEW u \in DraftUnits, Draft!Subscribe(u) \/ Draft!Unsubscribe(u)
    PROVE  HeardDraftsInv'
<1>1. UNCHANGED <<mode, many, base, draft, owner, draftMode, local, queued, edited, steps>> /\ held'
  BY DEF Draft!Subscribe, Draft!Unsubscribe, Draft!stored, Draft!sources, Draft!Reads
<1>2. VersionsAreNew'
  BY <1>1, HeardDraftsFacts DEF VersionsAreNew
<1>3. \A w \in DraftUnits : Draft!Snapshot(w)' = Draft!Snapshot(w)
  BY <1>1 DEF Draft!Snapshot, Draft!Active, Draft!Shown, Draft!Read, Draft!SourceOf, Draft!Visible
<1>4. /\ listening \subseteq DraftUnits
      /\ told \in [DraftUnits -> Shown] /\ listening' \subseteq listening \cup {u}
      /\ \A w \in listening' \cap listening : told'[w] = told[w] \/ told'[w] = Draft!Snapshot(w)
      /\ u \in listening' => told'[u] = Draft!Snapshot(u)
  BY DEF HeardDraftsInv, DraftInv, Draft!DraftsTypeOK, DraftVersions, Shown, Draft!Subscribe, Draft!Unsubscribe
<1>5. Draft!DraftsAreHeard'
  <2> SUFFICES ASSUME NEW w \in listening'
               PROVE  /\ Draft!Same(told[w].value, Draft!Snapshot(w).value)'
                      /\ many' => told'[w].dirty = Draft!Snapshot(w)'.dirty
    BY DEF Draft!DraftsAreHeard
  <2>1. w \in DraftUnits
    BY <1>4
  <2>2. CASE told'[w] = Draft!Snapshot(w)
    BY <1>1, <1>3, <2>1, <2>2 DEF Draft!Same
  <2>3. CASE w \in listening /\ told'[w] = told[w]
    BY <1>1, <1>3, <2>1, <2>3 DEF HeardDraftsInv, Draft!DraftsAreHeard, Draft!Same
  <2> QED
    BY <1>4, <2>2, <2>3
<1> QED
  BY <1>2, <1>5 DEF HeardDraftsInv

LEMMA HeardDraftsInitially == Draft!DraftsInit => HeardDraftsInv
<1> SUFFICES ASSUME Draft!DraftsInit PROVE HeardDraftsInv
  OBVIOUS
<1>1. DraftInv
  BY DraftsInitially
<1>2. VersionsAreNew /\ Draft!DraftsAreHeard
  BY DEF Draft!DraftsInit, Draft!Version, VersionsAreNew, Draft!DraftsAreHeard
<1> QED
  BY <1>1, <1>2 DEF HeardDraftsInv

LEMMA HeardDraftsAreKept == HeardDraftsInv /\ [Next]_vars => HeardDraftsInv'
<1> SUFFICES ASSUME HeardDraftsInv, [Next]_vars PROVE HeardDraftsInv'
  OBVIOUS
<1>1. CASE DraftNext
  <2>1. DraftInv'
    BY <1>1, DraftsStep DEF HeardDraftsInv
  <2>2. CASE held
    BY <1>1, <2>1, <2>2, SetIsHeard, SetNothingIsHeard, ClearIsHeard, StoreIsHeard, ListenerIsHeard
       DEF DraftNext, Draft!DraftsNext
  <2>3. CASE ~held
    <3>1. ~held'
      BY <1>1, <2>3 DEF DraftNext, Draft!DraftsNext, Draft!Set, Draft!SetNothing, Draft!Clear, Draft!Commit,
                        Draft!Upsert, Draft!Delete, Draft!Subscribe, Draft!Unsubscribe, Draft!Reads, Draft!sources
    <3> QED
      BY <2>1, <3>1 DEF HeardDraftsInv
  <2> QED
    BY <2>2, <2>3
<1>2. CASE UNCHANGED draftVars
  <2>1. DraftInv'
    BY <1>2, DraftsStutter DEF HeardDraftsInv
  <2>2. /\ UNCHANGED <<base, draft, queued, steps, mode, many, listening, told, edited, owner, draftMode, local>>
        /\ UNCHANGED <<held, settled, frozen>>
    BY <1>2 DEF draftVars
  <2>3. CASE held
    <3>1. VersionsAreNew'
      BY <2>2, <2>3, HeardDraftsFacts DEF VersionsAreNew
    <3>2. \A u \in DraftUnits : Draft!Snapshot(u)' = Draft!Snapshot(u)
      BY <2>2 DEF Draft!Snapshot, Draft!Active, Draft!Shown, Draft!Read, Draft!SourceOf, Draft!Visible
    <3>3. Draft!DraftsAreHeard'
      <4>1. listening \subseteq DraftUnits
        BY <2>3, HeardDraftsFacts DEF DraftInv, Draft!DraftsTypeOK
      <4> QED
        BY <2>2, <2>3, <3>2, <4>1 DEF HeardDraftsInv, Draft!DraftsAreHeard, Draft!Same
    <3> QED
      BY <2>1, <3>1, <3>3 DEF HeardDraftsInv
  <2>4. CASE ~held
    BY <2>1, <2>2, <2>4 DEF HeardDraftsInv
  <2> QED
    BY <2>3, <2>4
<1> QED
  BY <1>1, <1>2 DEF Next, vars

-----------------------------------------------------------------------------
(* What the listeners of a lazy unit know.  The bridge is up while the unit is
   there and somebody listens; a snapshot the unit has told is the one every
   listener has; and unless the store has yet to tell of a change, reading the
   unit gives the value it has already.                                     *)

KeptSnapshots == [content : Snapshots, told : BOOLEAN]

Bridged == attached = (Resolved /\ listeners # {})

BeforeTheUnit ==
    ~Resolved => /\ status = "idle" /\ value = NoContent
                 /\ kept = [content |-> Initial, told |-> TRUE]
                 /\ ~member /\ ~due /\ ~quiet

KeptIsHeard == kept.told => \A l \in listeners : heard[l] = kept.content

ValueIsRead == member /\ ~due => entity = value

LazyInv == LazyTypeOK /\ Bridged /\ BeforeTheUnit /\ HeardIsCurrent /\ KeptIsHeard /\ ValueIsRead

LEMMA ReadFacts ==
    ASSUME LazyInv
    PROVE  /\ Read \in Contents /\ (~due => Read = value) /\ (member => Read = entity)
           /\ Snap(status, Read) \in Snapshots
           /\ UnitSnapshot \in KeptSnapshots /\ UnitSnapshot.content = Snap(status, Read)
           /\ UnitSnapshot.told => UnitSnapshot = kept
<1>1. Read \in Contents /\ (~due => Read = value) /\ (member => Read = entity)
  BY DEF LazyInv, LazyTypeOK, ValueIsRead, Read
<1>2. Snap(status, Read) \in Snapshots
  BY <1>1 DEF LazyInv, LazyTypeOK, Snap, Snapshots
<1>3. kept \in KeptSnapshots
  BY DEF LazyInv, LazyTypeOK, KeptSnapshots
<1>4. CASE kept.content = Snap(status, Read)
  BY <1>1, <1>2, <1>3, <1>4 DEF UnitSnapshot, ReadSnapshot
<1>5. CASE kept.content # Snap(status, Read)
  BY <1>1, <1>2, <1>5 DEF UnitSnapshot, ReadSnapshot, KeptSnapshots
<1> QED
  BY <1>4, <1>5

(* The unit tells the bridge of its state, or would if there were one. *)
LEMMA NotifyUnitStep ==
    ASSUME LazyInv, Resolved, NEW k \in {kept, UnitSnapshot}, NEW s \in Statuses, NEW v \in {value, Read},
           NotifyUnit(k, s, v), UNCHANGED <<unit, listeners, attached, member, entity>>,
           due' \in BOOLEAN, due' = due \/ (~due' /\ v = Read),
           asked' \in Seq(Payloads), calls' \in 0..MaxCalls
    PROVE  LazyInv'
<1> DEFINE read == ReadSnapshot(k, s, v)
<1>1. /\ v \in Contents /\ k \in KeptSnapshots /\ (k.told => k = kept)
      /\ listeners \in SUBSET Listeners /\ attached \in BOOLEAN /\ quiet \in BOOLEAN
      /\ heard \in [Listeners -> Snapshots]
  BY ReadFacts DEF LazyInv, LazyTypeOK, KeptSnapshots
<1>2. Snap(s, v) \in Snapshots
  BY <1>1 DEF Snap, Snapshots
<1>3. /\ read \in KeptSnapshots /\ read.content = Snap(s, v)
      /\ read.told => kept.told /\ kept.content = Snap(s, v)
  <2>1. CASE k.content = Snap(s, v)
    BY <1>1, <2>1 DEF ReadSnapshot
  <2>2. CASE k.content # Snap(s, v)
    BY <1>2, <2>2 DEF ReadSnapshot, KeptSnapshots
  <2> QED
    BY <2>1, <2>2
<1>4. /\ status' = s /\ value' = v
      /\ kept' = (IF attached THEN [read EXCEPT !.told = TRUE] ELSE k)
      /\ quiet' = (quiet /\ ~attached)
      /\ IF attached /\ ~read.told THEN Deliver(s, v) ELSE UNCHANGED heard
  BY DEF NotifyUnit
<1> HIDE DEF read
<1>5. heard' \in [Listeners -> Snapshots]
  BY <1>1, <1>2, <1>4 DEF Deliver
<1>6. attached => \A l \in listeners : heard'[l] = Snap(s, v)
  <2> SUFFICES ASSUME attached, NEW l \in listeners PROVE heard'[l] = Snap(s, v)
    OBVIOUS
  <2>1. CASE read.told
    BY <1>3, <1>4, <2>1 DEF LazyInv, KeptIsHeard
  <2>2. CASE ~read.told
    BY <1>1, <1>4, <2>2 DEF Deliver
  <2> QED
    BY <2>1, <2>2
<1>7. kept' \in KeptSnapshots /\ (attached => kept'.content = Snap(s, v))
  <2>1. CASE attached
    BY <1>3, <1>4, <2>1 DEF KeptSnapshots
  <2>2. CASE ~attached
    BY <1>1, <1>4, <2>2
  <2> QED
    BY <1>1, <2>1, <2>2
<1>8. ~attached => listeners' = {}
  BY DEF LazyInv, Bridged
<1>9. LazyTypeOK'
  BY <1>1, <1>4, <1>5, <1>7 DEF LazyInv, LazyTypeOK, KeptSnapshots
<1>10. Bridged' /\ BeforeTheUnit'
  BY DEF LazyInv, Bridged, BeforeTheUnit, Resolved
<1>11. HeardIsCurrent' /\ KeptIsHeard'
  BY <1>1, <1>4, <1>6, <1>7, <1>8 DEF HeardIsCurrent, KeptIsHeard, Snap
<1>12. ValueIsRead'
  BY <1>4, ReadFacts DEF LazyInv, ValueIsRead
<1> QED
  BY <1>9, <1>10, <1>11, <1>12 DEF LazyInv

(* The unit is read, and the listeners are given what was read or nothing. *)
LEMMA ReadStep ==
    ASSUME LazyInv, Resolved, value' = Read, kept' = UnitSnapshot,
           UNCHANGED heard \/ Deliver(status, Read),
           UNCHANGED <<unit, listeners, attached, member, entity, due, status, quiet>>,
           asked' \in Seq(Payloads), calls' \in 0..MaxCalls
    PROVE  LazyInv'
<1>1. heard \in [Listeners -> Snapshots] /\ listeners \in SUBSET Listeners
  BY DEF LazyInv, LazyTypeOK
<1>2. /\ heard' \in [Listeners -> Snapshots]
      /\ \A l \in listeners : heard'[l] = heard[l] \/ heard'[l] = Snap(status, Read)
      /\ heard' = heard \/ \A l \in listeners : heard'[l] = Snap(status, Read)
  BY <1>1, ReadFacts DEF Deliver
<1>3. LazyTypeOK'
  BY <1>2, ReadFacts DEF LazyInv, LazyTypeOK, KeptSnapshots
<1>4. Bridged' /\ BeforeTheUnit' /\ ValueIsRead'
  BY ReadFacts DEF LazyInv, Bridged, BeforeTheUnit, ValueIsRead, Resolved
<1>5. HeardIsCurrent'
  BY <1>1, <1>2, ReadFacts DEF LazyInv, HeardIsCurrent, Snap
<1>6. KeptIsHeard'
  BY <1>1, <1>2, ReadFacts DEF LazyInv, KeptIsHeard
<1> QED
  BY <1>3, <1>4, <1>5, <1>6 DEF LazyInv

LEMMA WritesStep ==
    ASSUME LazyInv, Resolved, NEW v \in Payloads, Writes(v)
    PROVE  LazyInv'
<1>1. /\ UNCHANGED <<unit, asked, calls, listeners, attached, status, kept, heard>>
      /\ entity' = v /\ value' = v /\ member' = TRUE
      /\ due' = (due \/ (member /\ entity # v)) /\ quiet' = (quiet \/ ~member)
  BY DEF Writes, wrapper
<1>2. LazyTypeOK'
  BY <1>1 DEF LazyInv, LazyTypeOK, Contents
<1>3. Bridged' /\ BeforeTheUnit' /\ ValueIsRead' /\ KeptIsHeard'
  BY <1>1 DEF LazyInv, Bridged, BeforeTheUnit, ValueIsRead, KeptIsHeard, Resolved
<1>4. HeardIsCurrent'
  BY <1>1 DEF LazyInv, HeardIsCurrent, ValueIsRead, Snap
<1> QED
  BY <1>2, <1>3, <1>4 DEF LazyInv

LEMMA LeaveStep ==
    ASSUME LazyInv, NEW l, Leave(l)
    PROVE  LazyInv'
<1>1. /\ UNCHANGED <<unit, asked, calls, member, entity, due, status, value, kept, heard, quiet>>
      /\ listeners' = listeners \ {l} /\ attached' = (attached /\ listeners' # {})
  BY DEF Leave, store, shown
<1>2. LazyTypeOK'
  BY <1>1 DEF LazyInv, LazyTypeOK
<1>3. Bridged' /\ BeforeTheUnit' /\ ValueIsRead' /\ KeptIsHeard' /\ HeardIsCurrent'
  BY <1>1 DEF LazyInv, Bridged, BeforeTheUnit, ValueIsRead, KeptIsHeard, HeardIsCurrent, Resolved
<1> QED
  BY <1>2, <1>3 DEF LazyInv

LEMMA WrapperStep ==
    ASSUME LazyInv, LazyNext
    PROVE  LazyInv' /\ (Resolved => Resolved')
<1>1. /\ asked \in Seq(Payloads) /\ calls \in 0..MaxCalls /\ MaxCalls \in Nat
      /\ listeners \in SUBSET Listeners /\ heard \in [Listeners -> Snapshots]
  BY LazyConstants DEF LazyInv, LazyTypeOK
<1>2. CASE \E p \in Payloads : Ask(p)
  <2>1. PICK p \in Payloads : Ask(p)
    BY <1>2
  <2>2. asked' \in Seq(Payloads) /\ calls' \in 0..MaxCalls
    BY <1>1, <2>1 DEF Ask
  <2>3. /\ UNCHANGED <<listeners, member, entity, due, status, value, kept, heard, quiet>>
        /\ unit' = (IF unit = "none" THEN "importing" ELSE unit)
        /\ attached' = (attached \/ (Resolved /\ listeners # {}))
    BY <2>1 DEF Ask, store, shown
  <2>4. LazyTypeOK'
    BY <2>2, <2>3 DEF LazyInv, LazyTypeOK
  <2>5. Bridged' /\ BeforeTheUnit' /\ ValueIsRead' /\ KeptIsHeard' /\ HeardIsCurrent' /\ (Resolved => Resolved')
    BY <2>3 DEF LazyInv, Bridged, BeforeTheUnit, ValueIsRead, KeptIsHeard, HeardIsCurrent, Resolved
  <2> QED
    BY <2>4, <2>5 DEF LazyInv
<1>3. CASE Import \/ ImportFails
  <2>1. /\ UNCHANGED <<calls, listeners, member, entity, due, status, value, kept, heard, quiet>>
        /\ asked' \in Seq(Payloads) /\ unit = "importing"
        /\ \/ unit' = "resolved" /\ attached' = (listeners # {})
           \/ unit' = "failed" /\ attached' = attached
    <3>1. CASE Import
      BY <1>1, <3>1 DEF Import, store
    <3>2. CASE ImportFails
      <4>1. asked' \in Seq(Payloads)
        BY <3>2 DEF ImportFails
      <4> QED
        BY <3>2, <4>1 DEF ImportFails, store, shown
    <3> QED
      BY <1>3, <3>1, <3>2
  <2>2. LazyTypeOK'
    BY <2>1 DEF LazyInv, LazyTypeOK
  <2>3. Bridged' /\ BeforeTheUnit' /\ ValueIsRead' /\ KeptIsHeard' /\ HeardIsCurrent' /\ (Resolved => Resolved')
    BY <2>1 DEF LazyInv, Bridged, BeforeTheUnit, ValueIsRead, KeptIsHeard, HeardIsCurrent, Resolved
  <2> QED
    BY <2>2, <2>3 DEF LazyInv
<1>4. CASE GetSnapshot
  BY <1>1, <1>4, ReadStep DEF GetSnapshot, wrapper, store, Resolved
<1>5. CASE \E l \in Listeners : Subscribe(l)
  <2>1. PICK l \in Listeners : Subscribe(l)
    BY <1>5
  <2> DEFINE given == IF Resolved THEN Snap(status, Read) ELSE Initial
  <2>2. /\ UNCHANGED <<unit, asked, calls, member, entity, due, status, quiet>>
        /\ listeners' = listeners \cup {l} /\ attached' = Resolved
        /\ value' = (IF Resolved THEN Read ELSE value)
        /\ kept' = (IF Resolved THEN UnitSnapshot ELSE kept)
        /\ heard' = [heard EXCEPT ![l] = given]
    BY <2>1 DEF Subscribe, store
  <2>3. /\ given \in Snapshots
        /\ Resolved => given = Snap(status, Read)
        /\ ~Resolved => given = Snap(status, value) /\ given = kept.content
    BY ReadFacts DEF LazyInv, BeforeTheUnit, Initial, Snap, Snapshots, Statuses, Contents
  <2> HIDE DEF given
  <2>4. /\ heard' \in [Listeners -> Snapshots] /\ heard'[l] = given
        /\ \A m \in listeners : m # l => heard'[m] = heard[m]
    BY <1>1, <2>2, <2>3
  <2>5. LazyTypeOK'
    BY <2>2, <2>4, ReadFacts DEF LazyInv, LazyTypeOK, KeptSnapshots, Resolved
  <2>6. Bridged' /\ BeforeTheUnit' /\ (Resolved => Resolved')
    BY <2>2 DEF LazyInv, Bridged, BeforeTheUnit, Resolved
  <2>7. ValueIsRead'
    BY <2>2, ReadFacts DEF LazyInv, ValueIsRead
  <2>8. HeardIsCurrent'
    <3> SUFFICES ASSUME NEW m \in listeners', ~due, ~quiet PROVE heard'[m] = Snap(status, value')
      BY <2>2 DEF HeardIsCurrent, Snap
    <3>1. value' = value
      BY <2>2, ReadFacts
    <3>2. CASE m = l
      BY <2>2, <2>3, <2>4, <3>1, <3>2
    <3>3. CASE m # l
      BY <2>2, <2>4, <3>1, <3>3 DEF LazyInv, HeardIsCurrent
    <3> QED
      BY <3>2, <3>3
  <2>9. KeptIsHeard'
    <3> SUFFICES ASSUME NEW m \in listeners', kept'.told PROVE heard'[m] = kept'.content
      BY DEF KeptIsHeard
    <3>1. kept' = kept /\ given = kept.content
      BY <2>2, <2>3, ReadFacts
    <3>2. CASE m = l
      BY <2>4, <3>1, <3>2
    <3>3. CASE m # l
      BY <2>2, <2>4, <3>1, <3>3 DEF LazyInv, KeptIsHeard
    <3> QED
      BY <3>2, <3>3
  <2> QED
    BY <2>5, <2>6, <2>7, <2>8, <2>9 DEF LazyInv
<1>6. CASE \E v \in Payloads : EntityChanges(v)
  <2>1. /\ UNCHANGED <<unit, asked, calls, listeners, attached, member, status, value, kept, heard, quiet>>
        /\ member /\ entity' \in Payloads /\ due' = TRUE
    BY <1>6 DEF EntityChanges, wrapper, shown
  <2>2. LazyTypeOK'
    BY <2>1 DEF LazyInv, LazyTypeOK, Contents
  <2>3. Bridged' /\ BeforeTheUnit' /\ ValueIsRead' /\ KeptIsHeard' /\ HeardIsCurrent' /\ (Resolved => Resolved')
    BY <2>1 DEF LazyInv, Bridged, BeforeTheUnit, ValueIsRead, KeptIsHeard, HeardIsCurrent, Resolved
  <2> QED
    BY <2>2, <2>3 DEF LazyInv
<1>7. CASE OnChange
  <2>1. /\ due /\ due' = FALSE /\ NotifyUnit(kept, status, Read)
        /\ UNCHANGED <<unit, asked, calls, listeners, attached, member, entity>>
    BY <1>7 DEF OnChange, wrapper
  <2>2. Resolved /\ Resolved' /\ status \in Statuses
    BY <2>1 DEF LazyInv, BeforeTheUnit, Resolved, LazyTypeOK
  <2> QED
    BY <1>1, <2>1, <2>2, NotifyUnitStep
<1> QED
  BY <1>2, <1>3, <1>4, <1>5, <1>6, <1>7 DEF LazyNext

(* The three kinds of lazy unit share what LazyUnit says. *)
LEMMA StreamIsLazy ==
    /\ Stream!LazyNext => LazyNext
    /\ \A l : Stream!Leave(l) => Leave(l)
    /\ \A v : Stream!Writes(v) => Writes(v)
    /\ \A k, s, v : Stream!NotifyUnit(k, s, v) => NotifyUnit(k, s, v)
    /\ \A s, v : Stream!Deliver(s, v) => Deliver(s, v)
    /\ Stream!UnitSnapshot = UnitSnapshot /\ Stream!Read = Read /\ Stream!Resolved = Resolved
<1>1. /\ Stream!UnitSnapshot = UnitSnapshot /\ Stream!Read = Read /\ Stream!Resolved = Resolved
      /\ \A s, v : Stream!Snap(s, v) = Snap(s, v)
  BY DEF Stream!UnitSnapshot, UnitSnapshot, Stream!Read, Read, Stream!Resolved, Resolved,
         Stream!ReadSnapshot, ReadSnapshot, Stream!Snap, Snap
<1>2. \A s, v : Stream!Deliver(s, v) => Deliver(s, v)
  BY <1>1 DEF Stream!Deliver, Deliver
<1>3. \A k, s, v : Stream!NotifyUnit(k, s, v) => NotifyUnit(k, s, v)
  <2>1. \A k, s, v : Stream!ReadSnapshot(k, s, v) = ReadSnapshot(k, s, v)
    BY <1>1 DEF Stream!ReadSnapshot, ReadSnapshot
  <2> QED
    BY <1>2, <2>1 DEF Stream!NotifyUnit, NotifyUnit
<1>4. /\ \A l : Stream!Leave(l) => Leave(l)
      /\ \A v : Stream!Writes(v) => Writes(v)
  BY DEF Stream!Leave, Leave, Stream!Writes, Writes, Stream!wrapper, wrapper, Stream!store, store, Stream!shown, shown
<1>5. \A p \in Payloads : Stream!Ask(p) => Ask(p)
  BY <1>1 DEF Stream!Ask, Ask, Stream!store, store, Stream!shown, shown
<1>6. (Stream!Import => Import) /\ (Stream!ImportFails => ImportFails)
  BY DEF Stream!Import, Import, Stream!ImportFails, ImportFails, Stream!store, store, Stream!shown, shown
<1>7. /\ Stream!GetSnapshot => GetSnapshot
      /\ \A l \in Listeners : Stream!Subscribe(l) => Subscribe(l)
  BY <1>1 DEF Stream!GetSnapshot, GetSnapshot, Stream!Subscribe, Subscribe, Stream!wrapper, wrapper,
              Stream!store, store, Stream!Initial, Initial
<1>8. /\ \A v \in Payloads : Stream!EntityChanges(v) => EntityChanges(v)
      /\ Stream!OnChange => OnChange
  BY <1>1, <1>3 DEF Stream!EntityChanges, EntityChanges, Stream!OnChange, OnChange, Stream!wrapper, wrapper,
                    Stream!shown, shown
<1>9. Stream!LazyNext => LazyNext
  BY <1>5, <1>6, <1>7, <1>8 DEF Stream!LazyNext, LazyNext
<1> QED
  BY <1>1, <1>2, <1>3, <1>4, <1>9

LEMMA ActionIsLazy ==
    /\ Action!LazyNext => LazyNext
    /\ \A l : Action!Leave(l) => Leave(l)
    /\ \A v : Action!Writes(v) => Writes(v)
    /\ \A k, s, v : Action!NotifyUnit(k, s, v) => NotifyUnit(k, s, v)
    /\ \A s, v : Action!Deliver(s, v) => Deliver(s, v)
    /\ Action!UnitSnapshot = UnitSnapshot /\ Action!Read = Read /\ Action!Resolved = Resolved
<1>1. /\ Action!UnitSnapshot = UnitSnapshot /\ Action!Read = Read /\ Action!Resolved = Resolved
      /\ \A s, v : Action!Snap(s, v) = Snap(s, v)
  BY DEF Action!UnitSnapshot, UnitSnapshot, Action!Read, Read, Action!Resolved, Resolved,
         Action!ReadSnapshot, ReadSnapshot, Action!Snap, Snap
<1>2. \A s, v : Action!Deliver(s, v) => Deliver(s, v)
  BY <1>1 DEF Action!Deliver, Deliver
<1>3. \A k, s, v : Action!NotifyUnit(k, s, v) => NotifyUnit(k, s, v)
  <2>1. \A k, s, v : Action!ReadSnapshot(k, s, v) = ReadSnapshot(k, s, v)
    BY <1>1 DEF Action!ReadSnapshot, ReadSnapshot
  <2> QED
    BY <1>2, <2>1 DEF Action!NotifyUnit, NotifyUnit
<1>4. /\ \A l : Action!Leave(l) => Leave(l)
      /\ \A v : Action!Writes(v) => Writes(v)
  BY DEF Action!Leave, Leave, Action!Writes, Writes, Action!wrapper, wrapper, Action!store, store, Action!shown, shown
<1>5. \A p \in Payloads : Action!Ask(p) => Ask(p)
  BY <1>1 DEF Action!Ask, Ask, Action!store, store, Action!shown, shown
<1>6. (Action!Import => Import) /\ (Action!ImportFails => ImportFails)
  BY DEF Action!Import, Import, Action!ImportFails, ImportFails, Action!store, store, Action!shown, shown
<1>7. /\ Action!GetSnapshot => GetSnapshot
      /\ \A l \in Listeners : Action!Subscribe(l) => Subscribe(l)
  BY <1>1 DEF Action!GetSnapshot, GetSnapshot, Action!Subscribe, Subscribe, Action!wrapper, wrapper,
              Action!store, store, Action!Initial, Initial
<1>8. /\ \A v \in Payloads : Action!EntityChanges(v) => EntityChanges(v)
      /\ Action!OnChange => OnChange
  BY <1>1, <1>3 DEF Action!EntityChanges, EntityChanges, Action!OnChange, OnChange, Action!wrapper, wrapper,
                    Action!shown, shown
<1>9. Action!LazyNext => LazyNext
  BY <1>5, <1>6, <1>7, <1>8 DEF Action!LazyNext, LazyNext
<1> QED
  BY <1>1, <1>2, <1>3, <1>4, <1>9

LEMMA SourceIsLazy ==
    /\ Source!LazyNext => LazyNext
    /\ \A l : Source!Leave(l) => Leave(l)
    /\ \A v : Source!Writes(v) => Writes(v)
    /\ \A k, s, v : Source!NotifyUnit(k, s, v) => NotifyUnit(k, s, v)
    /\ \A s, v : Source!Deliver(s, v) => Deliver(s, v)
    /\ Source!UnitSnapshot = UnitSnapshot /\ Source!Read = Read /\ Source!Resolved = Resolved
<1>1. /\ Source!UnitSnapshot = UnitSnapshot /\ Source!Read = Read /\ Source!Resolved = Resolved
      /\ \A s, v : Source!Snap(s, v) = Snap(s, v)
  BY DEF Source!UnitSnapshot, UnitSnapshot, Source!Read, Read, Source!Resolved, Resolved,
         Source!ReadSnapshot, ReadSnapshot, Source!Snap, Snap
<1>2. \A s, v : Source!Deliver(s, v) => Deliver(s, v)
  BY <1>1 DEF Source!Deliver, Deliver
<1>3. \A k, s, v : Source!NotifyUnit(k, s, v) => NotifyUnit(k, s, v)
  <2>1. \A k, s, v : Source!ReadSnapshot(k, s, v) = ReadSnapshot(k, s, v)
    BY <1>1 DEF Source!ReadSnapshot, ReadSnapshot
  <2> QED
    BY <1>2, <2>1 DEF Source!NotifyUnit, NotifyUnit
<1>4. /\ \A l : Source!Leave(l) => Leave(l)
      /\ \A v : Source!Writes(v) => Writes(v)
  BY DEF Source!Leave, Leave, Source!Writes, Writes, Source!wrapper, wrapper, Source!store, store, Source!shown, shown
<1>5. \A p \in Payloads : Source!Ask(p) => Ask(p)
  BY <1>1 DEF Source!Ask, Ask, Source!store, store, Source!shown, shown
<1>6. (Source!Import => Import) /\ (Source!ImportFails => ImportFails)
  BY DEF Source!Import, Import, Source!ImportFails, ImportFails, Source!store, store, Source!shown, shown
<1>7. /\ Source!GetSnapshot => GetSnapshot
      /\ \A l \in Listeners : Source!Subscribe(l) => Subscribe(l)
  BY <1>1 DEF Source!GetSnapshot, GetSnapshot, Source!Subscribe, Subscribe, Source!wrapper, wrapper,
              Source!store, store, Source!Initial, Initial
<1>8. /\ \A v \in Payloads : Source!EntityChanges(v) => EntityChanges(v)
      /\ Source!OnChange => OnChange
  BY <1>1, <1>3 DEF Source!EntityChanges, EntityChanges, Source!OnChange, OnChange, Source!wrapper, wrapper,
                    Source!shown, shown
<1>9. Source!LazyNext => LazyNext
  BY <1>5, <1>6, <1>7, <1>8 DEF Source!LazyNext, LazyNext
<1> QED
  BY <1>1, <1>2, <1>3, <1>4, <1>9

-----------------------------------------------------------------------------
(* Their runs *)

StreamTypes ==
    /\ streaming \in [Stream!Runs -> {"none", "running", "over"}]
    /\ started \in BOOLEAN
    /\ stopCallback \in Stream!Runs \cup {Stream!NoRun}
    /\ returned \in SUBSET Stream!Runs
    /\ invoked \in [Stream!Runs -> Nat]
    /\ overlapped \in BOOLEAN

CleanupTypes ==
    /\ cleanup \in 0..MaxCalls
    /\ cleaned \in [1..MaxCalls -> Nat]
    /\ threw \in BOOLEAN

LoadTypes ==
    /\ loads \in 0..MaxCalls
    /\ instance.kind = "source" => loads + Len(asked) <= calls

(* Before the unit is there, nothing runs. *)
NothingRuns == ~Resolved => Stream!Begun = {} /\ Action!Begun = {} /\ loads = 0

ListenersInv == LazyInv /\ ActionInv /\ StreamTypes /\ CleanupTypes /\ LoadTypes /\ NothingRuns

LEMMA TakingUp ==
    ASSUME LazyInv, asked # <<>>, asked' = Tail(asked), UNCHANGED calls
    PROVE  /\ asked' \in Seq(Payloads) /\ calls' \in 0..MaxCalls
           /\ Len(asked) \in Nat /\ Len(asked') = Len(asked) - 1
  BY DEF LazyInv, LazyTypeOK

LEMMA StreamCleanedType ==
    ASSUME StreamTypes, NEW r \in Stream!Runs \cup {Stream!NoRun}
    PROVE  Stream!Cleaned(r) \in [Stream!Runs -> Nat]
<1>1. CASE r = Stream!NoRun
  BY <1>1 DEF StreamTypes, Stream!Cleaned
<1>2. CASE r # Stream!NoRun
  <2>1. r \in Stream!Runs /\ invoked[r] + 1 \in Nat
    BY <1>2 DEF StreamTypes
  <2> QED
    BY <1>2, <2>1 DEF StreamTypes, Stream!Cleaned
<1> QED
  BY <1>1, <1>2

(* A step of a stream, its effect on the unit aside. *)
LEMMA StreamRunsStep ==
    ASSUME StreamTypes, Stream!Next
    PROVE  StreamTypes' /\ (Stream!Begun' \subseteq Stream!Begun \/ Resolved)
<1>1. stopCallback \in Stream!Runs \cup {Stream!NoRun} /\ Stream!NoRun \in Stream!Runs \cup {Stream!NoRun}
  BY DEF StreamTypes
<1>2. CASE UNCHANGED <<streaming, started, stopCallback, returned, invoked, overlapped>>
  BY <1>2 DEF StreamTypes, Stream!Begun
<1>3. CASE Stream!TakeUp
  <2>1. PICK throws \in BOOLEAN : Stream!TakeUpStart(throws)
    BY <1>3 DEF Stream!TakeUp
  <2>2. /\ Resolved /\ UNCHANGED returned /\ started' = TRUE
        /\ \E r : streaming' = [streaming EXCEPT ![r] = IF throws THEN "over" ELSE "running"]
        /\ overlapped' = (overlapped \/ Stream!Running # {})
    BY <2>1, StreamIsLazy DEF Stream!TakeUpStart
  <2>3. invoked' \in [Stream!Runs -> Nat] /\ stopCallback' \in Stream!Runs \cup {Stream!NoRun}
    BY <1>1, <2>1, StreamCleanedType DEF Stream!TakeUpStart, Stream!StopBeforeStart, StreamTypes
  <2>4. streaming' \in [Stream!Runs -> {"none", "running", "over"}]
    BY <2>2 DEF StreamTypes
  <2> QED
    BY <2>2, <2>3, <2>4 DEF StreamTypes
<1>4. CASE \E r \in Stream!Runs : Stream!Fails(r)
  <2>1. PICK r \in Stream!Runs : Stream!Fails(r)
    BY <1>4
  <2>2. /\ UNCHANGED <<started, stopCallback, returned, invoked, overlapped>>
        /\ streaming' = [streaming EXCEPT ![r] = "over"] /\ r \in Stream!Running
    BY <2>1 DEF Stream!Fails
  <2>3. Stream!Begun' \subseteq Stream!Begun
    BY <2>2 DEF StreamTypes, Stream!Begun, Stream!Running
  <2> QED
    BY <2>2, <2>3 DEF StreamTypes
<1>5. CASE \E r \in Stream!Runs, returns \in BOOLEAN : Stream!Succeeds(r, returns)
  <2>1. PICK r \in Stream!Runs, returns \in BOOLEAN : Stream!Succeeds(r, returns)
    BY <1>5
  <2>2. /\ UNCHANGED <<started, overlapped>>
        /\ streaming' = [streaming EXCEPT ![r] = "over"] /\ r \in Stream!Running
        /\ returned' = (IF returns THEN returned \cup {r} ELSE returned)
        /\ stopCallback' = (IF returns /\ started THEN r ELSE stopCallback)
        /\ invoked' = (IF returns /\ ~started THEN Stream!Cleaned(r) ELSE invoked)
    BY <2>1 DEF Stream!Succeeds
  <2>3. Stream!Begun' \subseteq Stream!Begun
    BY <2>2 DEF StreamTypes, Stream!Begun, Stream!Running
  <2>4. invoked' \in [Stream!Runs -> Nat]
    BY <2>2, StreamCleanedType DEF StreamTypes
  <2> QED
    BY <2>2, <2>3, <2>4 DEF StreamTypes
<1>6. CASE Stream!Stop \/ \E l \in Listeners : Stream!Unsubscribe(l)
  <2>1. /\ UNCHANGED <<streaming, returned, overlapped>>
        /\ Stream!StopUnit \/ UNCHANGED <<started, stopCallback, invoked>>
    BY <1>6 DEF Stream!Stop, Stream!Unsubscribe
  <2>2. /\ invoked' \in [Stream!Runs -> Nat] /\ stopCallback' \in Stream!Runs \cup {Stream!NoRun}
        /\ started' \in BOOLEAN
    BY <1>1, <2>1, StreamCleanedType DEF Stream!StopUnit, StreamTypes
  <2> QED
    BY <2>1, <2>2 DEF StreamTypes, Stream!Begun
<1> QED
  BY <1>2, <1>3, <1>4, <1>5, <1>6 DEF Stream!Next, Stream!streamVars, Stream!RunWrites

LEMMA StreamListenersStep ==
    ASSUME ListenersInv, instance.kind = "stream", Stream!Next
    PROVE  LazyInv' /\ (Resolved => Resolved')
<1>1. /\ asked \in Seq(Payloads) /\ calls \in 0..MaxCalls /\ LazyInv /\ value \in {value, Read}
      /\ due \in BOOLEAN
  BY DEF ListenersInv, LazyInv, LazyTypeOK
<1>2. Stream!Begun # {} => Resolved
  BY DEF ListenersInv, NothingRuns
<1>3. CASE Stream!LazyNext
  BY <1>1, <1>3, StreamIsLazy, WrapperStep
<1>4. CASE Stream!TakeUp
  <2>1. /\ Resolved /\ asked # <<>> /\ asked' = Tail(asked) /\ NotifyUnit(UnitSnapshot, "loading", Read)
        /\ UNCHANGED <<unit, calls, listeners, attached, member, entity, due>>
    BY <1>4, StreamIsLazy DEF Stream!TakeUp, Stream!TakeUpStart, Stream!store
  <2>2. "loading" \in Statuses /\ Resolved'
    BY <2>1 DEF Statuses, Resolved
  <2> QED
    BY <1>1, <2>1, <2>2, TakingUp, NotifyUnitStep
<1>5. CASE \E v \in Payloads : Stream!RunWrites(v)
  <2>1. PICK v \in Payloads : Resolved /\ Writes(v)
    BY <1>2, <1>5, StreamIsLazy DEF Stream!RunWrites
  <2>2. Resolved'
    BY <2>1 DEF Writes, wrapper, Resolved
  <2> QED
    BY <1>1, <2>1, <2>2, WritesStep
<1>6. CASE \E r \in Stream!Runs : Stream!Fails(r) \/ \E returns \in BOOLEAN : Stream!Succeeds(r, returns)
  <2>1. PICK r \in Stream!Runs : Stream!Fails(r) \/ \E returns \in BOOLEAN : Stream!Succeeds(r, returns)
    BY <1>6
  <2>2. r \in Stream!Begun
    BY <2>1 DEF Stream!Fails, Stream!Succeeds, Stream!Running, Stream!Begun
  <2>3. UNCHANGED <<unit, asked, calls, listeners, attached, member, entity, due>>
    BY <2>1 DEF Stream!Fails, Stream!Succeeds, Stream!wrapper, Stream!store
  <2>4. \E s \in Statuses, v \in {value, Read} : NotifyUnit(kept, s, v)
    <3>1. CASE Stream!Fails(r)
      BY <3>1, StreamIsLazy DEF Stream!Fails, Statuses
    <3>2. CASE \E returns \in BOOLEAN : Stream!Succeeds(r, returns)
      <4>1. PICK returns \in BOOLEAN : Stream!Succeeds(r, returns)
        BY <3>2
      <4>2. NotifyUnit(kept, "success", IF returns THEN Read ELSE value)
        BY <4>1, StreamIsLazy DEF Stream!Succeeds
      <4> QED
        BY <4>2 DEF Statuses
    <3> QED
      BY <2>1, <3>1, <3>2
  <2>5. Resolved /\ Resolved'
    BY <1>2, <2>2, <2>3 DEF Resolved
  <2> QED
    BY <1>1, <2>3, <2>4, <2>5, NotifyUnitStep
<1>7. CASE Stream!Stop
  <2>1. /\ Resolved /\ value' = Read /\ kept' = UnitSnapshot /\ Deliver(status, Read)
        /\ UNCHANGED <<unit, asked, calls, listeners, attached, member, entity, due, status, quiet>>
    BY <1>7, StreamIsLazy DEF Stream!Stop, Stream!wrapper, Stream!store
  <2> QED
    BY <1>1, <2>1, ReadStep DEF Resolved
<1>8. CASE \E l \in Listeners : Stream!Unsubscribe(l)
  <2>1. PICK l \in Listeners : Leave(l)
    BY <1>8, StreamIsLazy DEF Stream!Unsubscribe
  <2>2. Resolved => Resolved'
    BY <2>1 DEF Leave, Resolved
  <2> QED
    BY <1>1, <2>1, <2>2, LeaveStep
<1> QED
  BY <1>3, <1>4, <1>5, <1>6, <1>7, <1>8 DEF Stream!Next

LEMMA LazyStutters == LazyInv /\ UNCHANGED lazyVars => LazyInv' /\ (Resolved => Resolved')
<1> SUFFICES ASSUME LazyInv, UNCHANGED lazyVars PROVE LazyInv' /\ (Resolved => Resolved')
  OBVIOUS
<1>1. UNCHANGED <<unit, asked, calls, listeners, attached, status, value, kept, member, entity, due, heard, quiet>>
  BY DEF lazyVars, wrapper, store, shown
<1>2. LazyTypeOK' /\ Bridged' /\ BeforeTheUnit' /\ ValueIsRead' /\ KeptIsHeard' /\ HeardIsCurrent'
  BY <1>1 DEF LazyInv, LazyTypeOK, Bridged, BeforeTheUnit, ValueIsRead, KeptIsHeard, HeardIsCurrent, Resolved
<1> QED
  BY <1>1, <1>2 DEF LazyInv, Resolved

(* A step of an action, its effect on the unit aside. *)
LEMMA ActionCleanupStep ==
    ASSUME ActionInv, CleanupTypes, Action!Next
    PROVE  CleanupTypes' /\ (Action!Begun' \subseteq Action!Begun \/ Resolved)
<1>1. /\ runs \in [1..MaxCalls -> ActionRuns]
      /\ cleanup \in 0..MaxCalls /\ cleaned \in [1..MaxCalls -> Nat] /\ threw \in BOOLEAN
      /\ \A r \in Action!Runs : r \in 1..MaxCalls /\ r \in 0..MaxCalls
  BY LazyConstants DEF ActionInv, ActionTypes, CleanupTypes, Action!Runs
<1>2. CASE UNCHANGED <<runs, single, inFlight, cleanup, cleaned, threw>>
  BY <1>2 DEF CleanupTypes, Action!Begun
<1>3. CASE \E p \in Payloads : Action!StartRun(p) \/ Action!RunThrows(p)
  <2>1. Resolved /\ UNCHANGED <<cleanup, cleaned>> /\ threw' \in BOOLEAN
    BY <1>1, <1>3, ActionIsLazy DEF Action!StartRun, Action!RunThrows, Action!Awaited
  <2> QED
    BY <2>1 DEF CleanupTypes
<1>4. CASE \E r \in Action!Runs : Action!Settle(r)
  <2>1. PICK r \in Action!Runs : Action!Settle(r)
    BY <1>4
  <2>2. /\ r \in Action!Begun /\ UNCHANGED threw
        /\ \A s \in 1..MaxCalls : s # r => runs'[s] = runs[s]
    <3>1. CASE Action!Fail(r)
      BY <1>1, <2>1, <3>1 DEF Action!Fail, Action!Begun
    <3>2. CASE \E returns \in BOOLEAN : Action!Fulfil(r, returns)
      BY <1>1, <2>1, <3>2 DEF Action!Fulfil, Action!Begun
    <3> QED
      BY <2>1, <3>1, <3>2 DEF Action!Settle
  <2>3. Action!Begun' \subseteq Action!Begun
    BY <2>2 DEF Action!Begun, Action!Runs
  <2>4. \A s \in 0..MaxCalls : Action!Cleaned(s) \in [1..MaxCalls -> Nat]
    <3> SUFFICES ASSUME NEW s \in 0..MaxCalls PROVE Action!Cleaned(s) \in [1..MaxCalls -> Nat]
      OBVIOUS
    <3>1. CASE s = 0
      BY <1>1, <3>1 DEF Action!Cleaned, Action!NoRun
    <3>2. CASE s # 0
      <4>1. s \in 1..MaxCalls /\ cleaned[s] + 1 \in Nat
        BY <1>1, <3>2, LazyConstants
      <4> QED
        BY <1>1, <3>2, <4>1 DEF Action!Cleaned, Action!NoRun
    <3> QED
      BY <3>1, <3>2
  <2>5. /\ cleanup' \in {cleanup, r}
        /\ cleaned' \in {cleaned, Action!Cleaned(cleanup), Action!Cleaned(r)}
    BY <2>1 DEF Action!Settle, Action!Fail, Action!Fulfil
  <2> QED
    BY <1>1, <2>2, <2>3, <2>4, <2>5 DEF CleanupTypes
<1>5. CASE \E r \in Action!Runs : Action!Finish(r)
  <2>1. PICK r \in Action!Runs : Action!Finish(r)
    BY <1>5
  <2>2. /\ r \in Action!Begun /\ UNCHANGED <<cleanup, cleaned, threw>>
        /\ \A s \in 1..MaxCalls : s # r => runs'[s] = runs[s]
    BY <1>1, <2>1 DEF Action!Finish, Action!Begun
  <2>3. Action!Begun' \subseteq Action!Begun
    BY <2>2 DEF Action!Begun, Action!Runs
  <2> QED
    BY <2>2, <2>3 DEF CleanupTypes
<1> QED
  BY <1>2, <1>3, <1>4, <1>5
     DEF Action!Next, Action!Wrapped, Action!TakeUp, Action!JoinRun, Action!RunWrites, Action!Unsubscribe,
         Action!actionVars

LEMMA ActionListenersStep ==
    ASSUME ListenersInv, instance.kind = "action", Action!Next
    PROVE  LazyInv' /\ (Resolved => Resolved')
<1>1. /\ asked \in Seq(Payloads) /\ calls \in 0..MaxCalls /\ LazyInv /\ value \in {value, Read}
      /\ due \in BOOLEAN
  BY DEF ListenersInv, LazyInv, LazyTypeOK
<1>2. Action!Begun # {} => Resolved
  BY DEF ListenersInv, NothingRuns
<1>3. CASE Action!Wrapped
  BY <1>1, <1>3, ActionIsLazy, WrapperStep DEF Action!Wrapped
<1>4. CASE Action!TakeUp
  <2>1. PICK p \in Payloads : Action!JoinRun(p) \/ Action!StartRun(p) \/ Action!RunThrows(p)
    BY <1>4 DEF Action!TakeUp
  <2>2. /\ Resolved /\ asked # <<>> /\ asked' = Tail(asked)
        /\ UNCHANGED <<unit, calls, listeners, attached, member, entity, due>>
    BY <2>1, ActionIsLazy DEF Action!JoinRun, Action!StartRun, Action!RunThrows, Action!Awaited, Action!store
  <2>3. Resolved' /\ asked' \in Seq(Payloads) /\ calls' \in 0..MaxCalls
    BY <1>1, <2>2, TakingUp DEF Resolved
  <2>4. CASE Action!JoinRun(p)
    <3>1. value' = Read /\ kept' = UnitSnapshot /\ UNCHANGED <<status, heard, quiet>>
      BY <2>4, ActionIsLazy DEF Action!JoinRun
    <3> QED
      BY <1>1, <2>2, <2>3, <3>1, ReadStep
  <2>5. CASE Action!StartRun(p) \/ Action!RunThrows(p)
    <3>1. NotifyUnit(UnitSnapshot, "loading", Read) /\ "loading" \in Statuses
      BY <2>5, ActionIsLazy DEF Action!StartRun, Action!RunThrows, Statuses
    <3> QED
      BY <1>1, <2>2, <2>3, <3>1, NotifyUnitStep
  <2> QED
    BY <2>1, <2>4, <2>5
<1>5. CASE \E r \in Action!Runs, v \in Payloads : Action!RunWrites(r, v)
  <2>1. PICK v \in Payloads : Resolved /\ Writes(v)
    BY <1>2, <1>5, ActionIsLazy DEF Action!RunWrites
  <2>2. Resolved'
    BY <2>1 DEF Writes, wrapper, Resolved
  <2> QED
    BY <1>1, <2>1, <2>2, WritesStep
<1>6. CASE \E r \in Action!Runs : Action!Settle(r)
  <2>1. PICK r \in Action!Runs : Action!Settle(r)
    BY <1>6
  <2>2. r \in Action!Begun
    BY <2>1 DEF Action!Settle, Action!Fail, Action!Fulfil, Action!Begun
  <2>3. UNCHANGED <<unit, asked, calls, listeners, attached, member, entity, due>>
    BY <2>1 DEF Action!Settle, Action!Fail, Action!Fulfil, Action!wrapper, Action!store
  <2>4. (\E s \in Statuses, v \in {value, Read} : NotifyUnit(kept, s, v)) \/ UNCHANGED Action!shown
    <3>1. CASE Action!Fail(r)
      BY <3>1, ActionIsLazy DEF Action!Fail, Statuses
    <3>2. CASE \E returns \in BOOLEAN : Action!Fulfil(r, returns)
      <4>1. PICK returns \in BOOLEAN : Action!Fulfil(r, returns)
        BY <3>2
      <4>2. NotifyUnit(kept, "success", IF returns THEN Read ELSE value) \/ UNCHANGED Action!shown
        BY <4>1, ActionIsLazy DEF Action!Fulfil
      <4> QED
        BY <4>2 DEF Statuses
    <3> QED
      BY <2>1, <3>1, <3>2 DEF Action!Settle
  <2>5. Resolved /\ Resolved'
    BY <1>2, <2>2, <2>3 DEF Resolved
  <2>6. CASE UNCHANGED Action!shown
    BY <1>1, <2>3, <2>6, LazyStutters DEF Action!shown, lazyVars, wrapper, store, shown
  <2>7. CASE \E s \in Statuses, v \in {value, Read} : NotifyUnit(kept, s, v)
    BY <1>1, <2>3, <2>5, <2>7, NotifyUnitStep
  <2> QED
    BY <2>4, <2>6, <2>7
<1>7. CASE \E r \in Action!Runs : Action!Finish(r)
  BY <1>1, <1>7, LazyStutters DEF Action!Finish, Action!lazyVars, Action!wrapper, Action!store, Action!shown,
                                  lazyVars, wrapper, store, shown
<1>8. CASE \E l \in Listeners : Action!Unsubscribe(l)
  <2>1. PICK l \in Listeners : Leave(l)
    BY <1>8, ActionIsLazy DEF Action!Unsubscribe
  <2>2. Resolved => Resolved'
    BY <2>1 DEF Leave, Resolved
  <2> QED
    BY <1>1, <2>1, <2>2, LeaveStep
<1> QED
  BY <1>3, <1>4, <1>5, <1>6, <1>7, <1>8 DEF Action!Next

LEMMA HydratedStep ==
    ASSUME LazyInv, NEW v \in Payloads, Source!ImportHydrated(v)
    PROVE  LazyInv' /\ Resolved'
<1>1. /\ unit = "importing" /\ unit' = "resolved" /\ UNCHANGED <<asked, calls, listeners, due, heard>>
      /\ attached' = (listeners # {}) /\ quiet' = TRUE
      /\ status' = "rehydrated" /\ value' = v /\ member' = TRUE /\ entity' = v
      /\ kept' = [content |-> Snap("rehydrated", v), told |-> FALSE]
  BY DEF Source!ImportHydrated, Source!Snap, Snap
<1>2. Snap("rehydrated", v) \in Snapshots
  BY DEF Snap, Snapshots, Statuses, Contents
<1>3. LazyTypeOK'
  BY <1>1, <1>2 DEF LazyInv, LazyTypeOK, Statuses, Contents
<1>4. Bridged' /\ BeforeTheUnit' /\ ValueIsRead' /\ KeptIsHeard' /\ HeardIsCurrent' /\ Resolved'
  BY <1>1 DEF Bridged, BeforeTheUnit, ValueIsRead, KeptIsHeard, HeardIsCurrent, Resolved
<1> QED
  BY <1>3, <1>4 DEF LazyInv

LEMMA SourceListenersStep ==
    ASSUME ListenersInv, instance.kind = "source", UNCHANGED instance, Source!Next
    PROVE  LazyInv' /\ LoadTypes' /\ (Resolved => Resolved') /\ (loads' = loads \/ Resolved')
<1>1. /\ asked \in Seq(Payloads) /\ calls \in 0..MaxCalls /\ LazyInv
      /\ loads \in 0..MaxCalls /\ loads + Len(asked) <= calls /\ loads \in Nat /\ Len(asked) \in Nat
      /\ MaxCalls \in Nat /\ due \in BOOLEAN
  BY LazyConstants DEF ListenersInv, LazyInv, LazyTypeOK, LoadTypes
<1>2. loads > 0 => Resolved
  BY DEF ListenersInv, NothingRuns
<1>3. CASE (Source!Asks \/ Source!Imports \/ Source!Bridges \/ Source!Reads \/ Source!ListenersChange
             \/ \E v \in Payloads : Source!EntityChanges(v)) /\ UNCHANGED loads
  <2>1. LazyNext \/ \E l \in Listeners : Leave(l)
    <3>1. Source!LazyNext \/ \E l \in Listeners : Source!Leave(l)
      BY <1>3 DEF Source!Asks, Source!Imports, Source!Bridges, Source!Reads, Source!ListenersChange,
                  Source!LazyNext
    <3> QED
      BY <3>1, SourceIsLazy
  <2>2. LazyInv' /\ (Resolved => Resolved')
    <3>1. CASE LazyNext
      BY <1>1, <3>1, WrapperStep
    <3>2. CASE \E l \in Listeners : Leave(l)
      BY <1>1, <3>2, LeaveStep DEF Leave, Resolved
    <3> QED
      BY <2>1, <3>1, <3>2
  <2>3. loads + Len(asked') <= calls'
    <3>1. \/ UNCHANGED <<asked, calls>>
          \/ UNCHANGED calls /\ asked' = <<>>
          \/ calls' = calls + 1 /\ (UNCHANGED asked \/ \E p \in Payloads : asked' = Append(asked, p))
      <4>1. CASE \E p \in Payloads : Ask(p)
        BY <4>1 DEF Ask
      <4>2. CASE Import \/ ImportFails \/ GetSnapshot \/ OnChange
        BY <4>2 DEF Import, ImportFails, GetSnapshot, OnChange, wrapper
      <4>3. CASE (\E l \in Listeners : Subscribe(l) \/ Leave(l)) \/ \E v \in Payloads : EntityChanges(v)
        BY <4>3 DEF Subscribe, Leave, EntityChanges, wrapper
      <4> QED
        BY <2>1, <4>1, <4>2, <4>3 DEF LazyNext
    <3>2. CASE UNCHANGED <<asked, calls>>
      BY <1>1, <3>2
    <3>3. CASE UNCHANGED calls /\ asked' = <<>>
      <4>1. Len(asked') = 0
        BY <3>3
      <4> QED
        BY <1>1, <3>3, <4>1
    <3>4. CASE calls' = calls + 1 /\ UNCHANGED asked
      BY <1>1, <3>4
    <3>5. CASE calls' = calls + 1 /\ \E p \in Payloads : asked' = Append(asked, p)
      <4>1. Len(asked') = Len(asked) + 1
        BY <1>1, <3>5
      <4> QED
        BY <1>1, <3>5, <4>1
    <3> QED
      BY <3>1, <3>2, <3>3, <3>4, <3>5
  <2> QED
    BY <1>1, <1>3, <2>2, <2>3 DEF LoadTypes
<1>4. CASE \E v \in Payloads : Source!ImportHydrated(v)
  <2>1. UNCHANGED <<asked, calls, loads>>
    BY <1>4 DEF Source!ImportHydrated
  <2> QED
    BY <1>1, <1>4, <2>1, HydratedStep DEF LoadTypes
<1>5. CASE \E v \in Payloads : Source!RunWrites(v)
  <2>1. PICK v \in Payloads : Resolved /\ Writes(v) /\ UNCHANGED loads
    BY <1>1, <1>2, <1>5, SourceIsLazy DEF Source!RunWrites
  <2>2. UNCHANGED <<unit, asked, calls>>
    BY <2>1 DEF Writes, wrapper
  <2> QED
    BY <1>1, <2>1, <2>2, WritesStep DEF LoadTypes, Resolved
<1>6. CASE Source!TakeUp \/ Source!TakeUpCached
  <2>1. /\ Resolved /\ asked # <<>> /\ asked' = Tail(asked)
        /\ UNCHANGED <<unit, calls, listeners, attached, member, entity, due>>
    BY <1>6, SourceIsLazy DEF Source!TakeUp, Source!TakeUpCached, Source!store
  <2>2. /\ Resolved' /\ asked' \in Seq(Payloads) /\ calls' \in 0..MaxCalls
        /\ Len(asked') = Len(asked) - 1
    BY <1>1, <2>1, TakingUp DEF Resolved
  <2>3. LazyInv'
    <3>1. CASE Source!TakeUp
      <4>1. \E s \in Statuses : NotifyUnit(UnitSnapshot, s, Read)
        BY <3>1, SourceIsLazy DEF Source!TakeUp, Statuses
      <4> QED
        BY <1>1, <2>1, <2>2, <4>1, NotifyUnitStep
    <3>2. CASE Source!TakeUpCached
      <4>1. value' = Read /\ kept' = UnitSnapshot /\ UNCHANGED <<status, heard, quiet>>
        BY <3>2, SourceIsLazy DEF Source!TakeUpCached
      <4> QED
        BY <1>1, <2>1, <2>2, <4>1, ReadStep
    <3> QED
      BY <1>6, <3>1, <3>2
  <2>4. loads' \in {loads, loads + 1}
    BY <1>6 DEF Source!TakeUp, Source!TakeUpCached
  <2> QED
    BY <1>1, <2>1, <2>2, <2>3, <2>4 DEF LoadTypes
<1>7. CASE Source!SettlesOvertaken
  <2>1. loads > 1 /\ loads' = loads - 1 /\ UNCHANGED lazyVars
    BY <1>7 DEF Source!SettlesOvertaken, Source!lazyVars, Source!wrapper, Source!store, Source!shown,
                lazyVars, wrapper, store, shown
  <2>2. LazyInv' /\ Resolved'
    BY <1>1, <1>2, <2>1, LazyStutters
  <2>3. UNCHANGED <<asked, calls>>
    BY <2>1 DEF lazyVars, wrapper
  <2> QED
    BY <1>1, <2>1, <2>2, <2>3 DEF LoadTypes
<1>8. CASE \E s \in {"success", "error"} : Source!Settles(s)
  <2>1. PICK s \in {"success", "error"} : Source!Settles(s)
    BY <1>8
  <2>2. /\ loads > 0 /\ loads' = loads - 1 /\ NotifyUnit(kept, s, Read) /\ s \in Statuses
        /\ UNCHANGED <<unit, asked, calls, listeners, attached, member, entity, due>>
    BY <2>1, SourceIsLazy DEF Source!Settles, Source!wrapper, Source!store, Statuses
  <2>3. Resolved /\ Resolved'
    BY <1>2, <2>2 DEF Resolved
  <2>4. LazyInv'
    BY <1>1, <2>2, <2>3, NotifyUnitStep
  <2> QED
    BY <1>1, <2>2, <2>3, <2>4 DEF LoadTypes
<1> QED
  BY <1>3, <1>4, <1>5, <1>6, <1>7, <1>8 DEF Source!Next

LEMMA ListenersInitially == Init => ListenersInv
<1> SUFFICES ASSUME Init PROVE ListenersInv
  OBVIOUS
<1>1. ActionInv
  BY ActionInitially DEF Init
<1>2. /\ unit = "none" /\ asked = <<>> /\ calls = 0 /\ listeners = {} /\ attached = FALSE
      /\ status = "idle" /\ value = NoContent /\ kept = [content |-> Initial, told |-> TRUE]
      /\ member = FALSE /\ entity = NoContent /\ due = FALSE
      /\ heard = [l \in Listeners |-> Initial] /\ quiet = FALSE
  BY DEF Init, Stream!Init, Stream!LazyInit, Stream!Initial, Initial
<1>3. LazyInv
  <2>1. Initial \in Snapshots /\ asked \in Seq(Payloads)
    BY <1>2 DEF Initial, Snapshots, Statuses, Contents
  <2>2. LazyTypeOK
    <3>1. kept \in [content : Snapshots, told : BOOLEAN]
      BY <1>2, <2>1
    <3>2. heard \in [Listeners -> Snapshots]
      BY <1>2, <2>1
    <3>3. calls \in 0..MaxCalls /\ listeners \in SUBSET Listeners
      BY <1>2, LazyConstants
    <3>4. value \in Contents /\ entity \in Contents
      BY <1>2 DEF Contents
    <3>5. status \in Statuses
      BY <1>2 DEF Statuses
    <3> QED
      BY <1>2, <2>1, <3>1, <3>2, <3>3, <3>4, <3>5 DEF LazyTypeOK
  <2>3. Bridged /\ BeforeTheUnit /\ HeardIsCurrent /\ KeptIsHeard /\ ValueIsRead
    BY <1>2 DEF Bridged, BeforeTheUnit, HeardIsCurrent, KeptIsHeard, ValueIsRead
  <2> QED
    BY <2>2, <2>3 DEF LazyInv
<1>4. StreamTypes /\ Stream!Begun = {}
  BY DEF Init, Stream!Init, StreamTypes, Stream!Begun
<1>5. CleanupTypes
  <2>1. cleanup = 0 /\ cleaned = [r \in 1..MaxCalls |-> 0] /\ threw = FALSE
    BY DEF Init, Action!Init, Action!Runs, Action!NoRun
  <2>2. 0 \in 0..MaxCalls
    BY LazyConstants
  <2>3. cleaned \in [1..MaxCalls -> Nat]
    BY <2>1
  <2> QED
    BY <2>1, <2>2, <2>3 DEF CleanupTypes
<1>6. Action!Begun = {}
  BY DEF Init, Action!Init, Action!Begun, Action!NotSubmitted, Action!RunOf
<1>7. loads = 0
  BY DEF Init, Source!Init
<1>8. LoadTypes
  <2>1. Len(asked) = 0
    BY <1>2
  <2> QED
    BY <1>2, <1>7, <2>1, LazyConstants DEF LoadTypes
<1> QED
  BY <1>1, <1>3, <1>4, <1>5, <1>6, <1>7, <1>8 DEF ListenersInv, NothingRuns

LEMMA ListenersAreKept == ListenersInv /\ [Next]_vars => ListenersInv'
<1> SUFFICES ASSUME ListenersInv, [Next]_vars PROVE ListenersInv'
  OBVIOUS
<1>1. ActionInv'
  BY ActionIsKept DEF ListenersInv
<1>2. UNCHANGED instance
  BY DEF Next, vars
<1>3. LazyInv /\ ActionInv /\ StreamTypes /\ CleanupTypes /\ LoadTypes /\ NothingRuns
  BY DEF ListenersInv
<1>4. CASE LazyUnitNext
  <2>1. CASE instance.kind = "stream"
    <3>1. Stream!Next /\ UNCHANGED <<runs, single, inFlight, cleanup, cleaned, threw, loads>>
      BY <1>4, <2>1 DEF LazyUnitNext, actionVars
    <3>2. LazyInv' /\ (Resolved => Resolved')
      BY <2>1, <3>1, StreamListenersStep
    <3>3. StreamTypes' /\ (Stream!Begun' \subseteq Stream!Begun \/ Resolved)
      BY <1>3, <3>1, StreamRunsStep
    <3>4. CleanupTypes' /\ LoadTypes' /\ Action!Begun' = Action!Begun
      BY <1>2, <1>3, <2>1, <3>1 DEF CleanupTypes, LoadTypes, Action!Begun
    <3> QED
      BY <1>1, <1>3, <3>1, <3>2, <3>3, <3>4 DEF ListenersInv, NothingRuns
  <2>2. CASE instance.kind = "action"
    <3>1. Action!Next /\ UNCHANGED <<streaming, started, stopCallback, returned, invoked, overlapped, loads>>
      BY <1>4, <2>2 DEF LazyUnitNext, streamVars
    <3>2. LazyInv' /\ (Resolved => Resolved')
      BY <2>2, <3>1, ActionListenersStep
    <3>3. CleanupTypes' /\ (Action!Begun' \subseteq Action!Begun \/ Resolved)
      BY <1>3, <3>1, ActionCleanupStep
    <3>4. StreamTypes' /\ LoadTypes' /\ Stream!Begun' = Stream!Begun
      BY <1>2, <1>3, <2>2, <3>1 DEF StreamTypes, LoadTypes, Stream!Begun
    <3> QED
      BY <1>1, <1>3, <3>1, <3>2, <3>3, <3>4 DEF ListenersInv, NothingRuns
  <2>3. CASE instance.kind = "source"
    <3>1. Source!Next /\ UNCHANGED <<streaming, started, stopCallback, returned, invoked, overlapped,
                                     runs, single, inFlight, cleanup, cleaned, threw>>
      BY <1>4, <2>3 DEF LazyUnitNext, streamVars, actionVars
    <3>2. LazyInv' /\ LoadTypes' /\ (Resolved => Resolved') /\ (loads' = loads \/ Resolved')
      BY <1>2, <2>3, <3>1, SourceListenersStep
    <3>3. StreamTypes' /\ CleanupTypes' /\ Stream!Begun' = Stream!Begun /\ Action!Begun' = Action!Begun
      BY <1>3, <3>1 DEF StreamTypes, CleanupTypes, Stream!Begun, Action!Begun
    <3> QED
      BY <1>1, <1>3, <3>2, <3>3 DEF ListenersInv, NothingRuns
  <2> QED
    BY <1>4, <2>1, <2>2, <2>3 DEF LazyUnitNext
<1>5. CASE UNCHANGED lazyUnitVars
  <2>1. UNCHANGED <<streaming, started, stopCallback, returned, invoked, overlapped,
                    runs, single, inFlight, cleanup, cleaned, threw, loads, lazyVars>>
    BY <1>5 DEF lazyUnitVars, streamVars, actionVars
  <2>2. LazyInv' /\ (Resolved => Resolved')
    BY <1>3, <2>1, LazyStutters
  <2>3. StreamTypes' /\ CleanupTypes' /\ Stream!Begun' = Stream!Begun /\ Action!Begun' = Action!Begun
    BY <1>3, <2>1 DEF StreamTypes, CleanupTypes, Stream!Begun, Action!Begun
  <2>4. UNCHANGED <<asked, calls, loads>>
    BY <2>1 DEF lazyVars, wrapper
  <2>5. LoadTypes'
    BY <1>2, <1>3, <2>4 DEF LoadTypes
  <2> QED
    BY <1>1, <1>3, <2>1, <2>2, <2>3, <2>5 DEF ListenersInv, NothingRuns
<1> QED
  BY <1>4, <1>5 DEF Next, vars

(* Nobody who listens to a lazy unit or a draft unit, or tracks a unit, is
   left with what it no longer shows.                                      *)
THEOREM ListenersKnow == Spec => []ListenersAreCurrent
<1>1. Init => ListenersInv /\ HeardDraftsInv /\ TrackedInv
  BY ListenersInitially, HeardDraftsInitially, TrackedInitially DEF Init
<1>2. ListenersInv /\ HeardDraftsInv /\ TrackedInv => ListenersAreCurrent
  <2> SUFFICES ASSUME ListenersInv, HeardDraftsInv, TrackedInv PROVE ListenersAreCurrent
    OBVIOUS
  <2>1. LazyTypeOK /\ HeardIsCurrent
    BY DEF ListenersInv, LazyInv
  <2>2. Stream!LazyTypeOK /\ Action!LazyTypeOK /\ Source!LazyTypeOK
    BY <2>1 DEF LazyTypeOK, Statuses, Contents, Snapshots,
                Stream!LazyTypeOK, Stream!Statuses, Stream!Contents, Stream!Snapshots,
                Action!LazyTypeOK, Action!Statuses, Action!Contents, Action!Snapshots,
                Source!LazyTypeOK, Source!Statuses, Source!Contents, Source!Snapshots
  <2>3. Stream!TypeOK
    BY <2>2 DEF ListenersInv, StreamTypes, Stream!TypeOK
  <2>4. Action!TypeOK
    <3>1. 1..MaxCalls \cup {0} = 0..MaxCalls
      BY LazyConstants
    <3> QED
      BY <2>2, <3>1 DEF ListenersInv, ActionInv, ActionTypes, ActionRuns, CleanupTypes, Contents,
                        Action!TypeOK, Action!Runs, Action!NoRun, Action!Contents
  <2>5. Source!TypeOK
    BY <2>2 DEF ListenersInv, LoadTypes, Source!TypeOK
  <2> QED
    BY <2>1, <2>3, <2>4, <2>5 DEF ListenersAreCurrent, HeardDraftsInv, TrackedInv, Draft!DraftsAreHeard
<1> QED
  BY <1>1, <1>2, ListenersAreKept, HeardDraftsAreKept, TrackedIsKept, PTL DEF Spec

-----------------------------------------------------------------------------
(* Cleanups.  A run that returned a cleanup has ended, so a run that begins
   or ends now owes none yet; and a stream that holds one is started.  As
   long as runs do not overlap, none is held while one is running.         *)

OnlyEndedReturn == \A r \in Action!Runs : runs[r].returns => runs[r].phase \in {"settled", "over"}

ActionEndsInv == Action!ActionCleanups /\ OnlyEndedReturn

StreamRunsAreCounted == \E k \in Nat : Stream!Begun = 1..k

OneAtATime ==
    ~overlapped => /\ \A r, s \in Stream!Running : r = s
                   /\ Stream!Running # {} => stopCallback = 0

StreamEndsInv ==
    /\ Stream!StreamCleanups
    /\ \A r \in returned : streaming[r] = "over"
    /\ OneAtATime
    /\ StreamRunsAreCounted

(* Only a stream that is there is started. *)
StartedInv == started => instance.kind = "stream" /\ Resolved

EndsInv == ListenersInv /\ ActionEndsInv /\ StreamEndsInv /\ StartedInv

LEMMA EndsInitially == Init => EndsInv
<1> SUFFICES ASSUME Init PROVE EndsInv
  OBVIOUS
<1>1. ListenersInv
  BY ListenersInitially
<1>2. ActionEndsInv
  <2>1. /\ runs = [r \in 1..MaxCalls |-> Action!NotSubmitted] /\ cleanup = 0
        /\ cleaned = [r \in 1..MaxCalls |-> 0] /\ Action!Runs = 1..MaxCalls
    BY DEF Init, Action!Init, Action!Runs, Action!NoRun
  <2>2. Action!NotSubmitted.returns = FALSE
    BY DEF Action!NotSubmitted, Action!RunOf
  <2>3. \A r \in 1..MaxCalls : runs[r].returns = FALSE /\ cleaned[r] = 0 /\ cleanup # r
    BY <2>1, <2>2
  <2> QED
    BY <2>1, <2>3 DEF ActionEndsInv, Action!ActionCleanups, OnlyEndedReturn
<1>3. StreamEndsInv
  <2>1. /\ streaming = [r \in 1..MaxCalls |-> "none"] /\ stopCallback = 0 /\ returned = {}
        /\ invoked = [r \in 1..MaxCalls |-> 0] /\ Stream!Runs = 1..MaxCalls
    BY DEF Init, Stream!Init, Stream!Runs, Stream!NoRun
  <2>2. Stream!Begun = {} /\ Stream!Running = {}
    BY <2>1 DEF Stream!Begun, Stream!Running
  <2>3. Stream!Begun = 1..0
    BY <2>2
  <2>4. Stream!StreamCleanups
    BY <2>1 DEF Stream!StreamCleanups, Stream!NoRun
  <2> QED
    BY <2>1, <2>2, <2>3, <2>4 DEF StreamEndsInv, OneAtATime, StreamRunsAreCounted
<1>4. StartedInv
  BY DEF Init, Stream!Init, StartedInv
<1> QED
  BY <1>1, <1>2, <1>3, <1>4 DEF EndsInv

(* The cleanup of one more run is invoked. *)
LEMMA ActionCleaned ==
    ASSUME CleanupTypes, NEW c \in 0..MaxCalls
    PROVE  /\ c \in 1..MaxCalls => Action!Cleaned(c)[c] = cleaned[c] + 1
           /\ \A r \in 1..MaxCalls : r # c => Action!Cleaned(c)[r] = cleaned[r]
<1>1. cleaned \in [1..MaxCalls -> Nat] /\ MaxCalls \in Nat
  BY LazyConstants DEF CleanupTypes
<1>2. CASE c = 0
  BY <1>1, <1>2 DEF Action!Cleaned, Action!NoRun
<1>3. CASE c # 0
  BY <1>1, <1>3 DEF Action!Cleaned, Action!NoRun
<1> QED
  BY <1>2, <1>3

LEMMA ActionEndsStep ==
    ASSUME ActionInv, CleanupTypes, ActionEndsInv, instance.kind = "action", Action!Next
    PROVE  ActionEndsInv'
<1>1. /\ runs \in [1..MaxCalls -> ActionRuns] /\ MaxCalls \in Nat /\ Action!Runs = 1..MaxCalls
      /\ cleanup \in 0..MaxCalls /\ cleaned \in [1..MaxCalls -> Nat]
  BY LazyConstants DEF ActionInv, ActionTypes, CleanupTypes, Action!Runs
<1>2. \A r \in 1..MaxCalls :
        /\ cleaned[r] \in Nat /\ runs[r].returns \in BOOLEAN
        /\ runs[r].returns => runs[r].phase \in {"settled", "over"}
        /\ cleaned[r] + (IF cleanup = r THEN 1 ELSE 0) = (IF runs[r].returns THEN 1 ELSE 0)
  BY <1>1 DEF ActionEndsInv, OnlyEndedReturn, Action!ActionCleanups, ActionRuns
<1>3. CASE UNCHANGED <<runs, cleanup, cleaned>>
  BY <1>3 DEF ActionEndsInv, OnlyEndedReturn, Action!ActionCleanups
<1>4. CASE \E p \in Payloads : Action!StartRun(p) \/ Action!RunThrows(p)
  <2>1. PICK p \in Payloads : Action!StartRun(p) \/ Action!RunThrows(p)
    BY <1>4
  <2>2. PICK k \in 0..MaxCalls : Action!Begun = 1..k /\ Len(asked) + k <= calls
    BY DEF ActionInv, RunsAreCounted
  <2>3. k \in Nat /\ k + 1 \in 1..MaxCalls /\ Action!runSequence = k
    BY <2>1, <2>2, TakenUp DEF Action!StartRun, Action!RunThrows
  <2>4. /\ UNCHANGED <<cleanup, cleaned>>
        /\ \E ph, w : runs' = [runs EXCEPT ![k + 1] = Action!RunOf(ph, p, w)]
    BY <2>1, <2>3 DEF Action!StartRun, Action!RunThrows
  <2>5. PICK ph, w : runs' = [runs EXCEPT ![k + 1] = Action!RunOf(ph, p, w)]
    BY <2>4
  <2>6. Action!RunOf(ph, p, w).returns = FALSE
    BY DEF Action!RunOf
  <2>7. runs[k + 1].phase = "none" /\ runs[k + 1].returns = FALSE
    <3>1. k + 1 \notin Action!Begun
      BY <2>2, <2>3
    <3>2. runs[k + 1].phase = "none"
      BY <1>1, <2>3, <3>1 DEF Action!Begun
    <3> QED
      BY <1>2, <2>3, <3>2
  <2>8. \A r \in 1..MaxCalls : runs'[r] = runs[r] \/ (r = k + 1 /\ runs'[r].returns = FALSE)
    BY <1>1, <2>3, <2>5, <2>6
  <2>9. \A r \in 1..MaxCalls : /\ runs'[r].returns = runs[r].returns
                               /\ runs'[r].returns => runs'[r].phase = runs[r].phase
    BY <2>7, <2>8
  <2> QED
    BY <1>1, <1>2, <2>4, <2>9 DEF ActionEndsInv, OnlyEndedReturn, Action!ActionCleanups
<1>5. CASE \E r \in Action!Runs, returns \in BOOLEAN : Action!Fulfil(r, returns)
  <2>1. PICK r \in 1..MaxCalls, returns \in BOOLEAN : Action!Fulfil(r, returns)
    BY <1>1, <1>5
  <2>2. /\ runs[r].phase = "running"
        /\ runs' = [runs EXCEPT ![r] = [@ EXCEPT !.phase = "settled", !.returns = returns]]
        /\ cleaned' = (IF ~returns THEN cleaned
                       ELSE IF Action!IsLatestRun(r) THEN Action!Cleaned(cleanup) ELSE Action!Cleaned(r))
        /\ cleanup' = (IF returns /\ Action!IsLatestRun(r) THEN r ELSE cleanup)
    BY <2>1 DEF Action!Fulfil
  <2>3. /\ runs'[r].returns = returns /\ runs'[r].phase = "settled"
        /\ \A s \in 1..MaxCalls : s # r => runs'[s] = runs[s]
    BY <1>1, <2>2 DEF ActionRuns
  <2>4. runs[r].returns = FALSE /\ cleaned[r] = 0 /\ cleanup # r
    <3>1. runs[r].returns = FALSE
      BY <1>2, <2>2
    <3>2. cleaned[r] + (IF cleanup = r THEN 1 ELSE 0) = 0 /\ cleaned[r] \in Nat
      BY <1>2, <3>1
    <3> QED
      BY <3>1, <3>2
  <2>5. OnlyEndedReturn'
    BY <1>1, <1>2, <2>3 DEF OnlyEndedReturn
  <2>6. ASSUME NEW s \in 1..MaxCalls
        PROVE  cleaned'[s] + (IF cleanup' = s THEN 1 ELSE 0) = (IF runs'[s].returns THEN 1 ELSE 0)
    <3>1. CASE ~returns
      BY <1>2, <2>2, <2>3, <2>4, <3>1
    <3>2. CASE returns /\ Action!IsLatestRun(r)
      <4>1. cleaned' = Action!Cleaned(cleanup) /\ cleanup' = r
        BY <2>2, <3>2
      <4>2. CASE s = r
        <5>1. cleaned'[s] = 0
          BY <1>1, <2>4, <4>1, <4>2, ActionCleaned
        <5>2. runs'[s].returns = TRUE /\ cleanup' = s
          BY <2>3, <3>2, <4>1, <4>2
        <5> QED
          BY <5>1, <5>2
      <4>3. CASE s # r /\ s = cleanup
        <5>1. cleaned'[s] = cleaned[s] + 1
          BY <1>1, <4>1, <4>3, ActionCleaned
        <5> QED
          BY <1>2, <2>3, <4>1, <4>3, <5>1
      <4>4. CASE s # r /\ s # cleanup
        <5>1. cleaned'[s] = cleaned[s]
          BY <1>1, <4>1, <4>4, ActionCleaned
        <5> QED
          BY <1>2, <2>3, <4>1, <4>4, <5>1
      <4> QED
        BY <4>2, <4>3, <4>4
    <3>3. CASE returns /\ ~Action!IsLatestRun(r)
      <4>1. cleaned' = Action!Cleaned(r) /\ cleanup' = cleanup /\ r \in 0..MaxCalls
        BY <2>2, <3>3
      <4>2. CASE s = r
        <5>1. cleaned'[s] = 1
          BY <2>4, <4>1, <4>2, ActionCleaned
        <5>2. runs'[s].returns = TRUE /\ cleanup' # s
          BY <2>3, <2>4, <3>3, <4>1, <4>2
        <5> QED
          BY <5>1, <5>2
      <4>3. CASE s # r
        <5>1. cleaned'[s] = cleaned[s]
          BY <4>1, <4>3, ActionCleaned
        <5> QED
          BY <1>2, <2>3, <4>1, <4>3, <5>1
      <4> QED
        BY <4>2, <4>3
    <3> QED
      BY <3>1, <3>2, <3>3
  <2> QED
    BY <1>1, <2>5, <2>6 DEF ActionEndsInv, Action!ActionCleanups
<1>6. CASE \E r \in Action!Runs : Action!Fail(r) \/ Action!Finish(r)
  <2>1. PICK r \in 1..MaxCalls : Action!Fail(r) \/ Action!Finish(r)
    BY <1>1, <1>6
  <2>2. /\ UNCHANGED <<cleanup, cleaned>>
        /\ \E ph \in {"settled", "over"} : runs' = [runs EXCEPT ![r].phase = ph]
    BY <2>1 DEF Action!Fail, Action!Finish
  <2>3. /\ runs'[r].returns = runs[r].returns /\ runs'[r].phase \in {"settled", "over"}
        /\ \A s \in 1..MaxCalls : s # r => runs'[s] = runs[s]
    BY <1>1, <2>2 DEF ActionRuns
  <2> QED
    BY <1>1, <1>2, <2>2, <2>3 DEF ActionEndsInv, OnlyEndedReturn, Action!ActionCleanups
<1> QED
  BY <1>3, <1>4, <1>5, <1>6
     DEF Action!Next, Action!Wrapped, Action!TakeUp, Action!JoinRun, Action!RunWrites, Action!Unsubscribe,
         Action!actionVars, Action!Settle

LEMMA StreamCleaned ==
    ASSUME StreamTypes, NEW c \in Stream!Runs \cup {0}
    PROVE  /\ c \in Stream!Runs => Stream!Cleaned(c)[c] = invoked[c] + 1
           /\ \A r \in Stream!Runs : r # c => Stream!Cleaned(c)[r] = invoked[r]
<1>1. CASE c = 0
  BY <1>1 DEF Stream!Cleaned, Stream!NoRun, Stream!Runs
<1>2. CASE c # 0
  BY <1>2 DEF StreamTypes, Stream!Cleaned, Stream!NoRun, Stream!Runs
<1> QED
  BY <1>1, <1>2

(* How often the cleanup of a run was invoked, or will be by the next stop. *)
Ends(r) == invoked[r] + (IF stopCallback = r THEN 1 ELSE 0)

LEMMA StreamEndsFacts ==
    ASSUME StreamTypes, StreamEndsInv
    PROVE  /\ stopCallback \in Stream!Runs \cup {0} /\ 0 \notin Stream!Runs
           /\ stopCallback # 0 => started
           /\ \A r \in Stream!Runs :
                /\ invoked[r] \in Nat
                /\ r \in returned => Ends(r) <= 1 /\ (~overlapped => Ends(r) = 1) /\ streaming[r] = "over"
                /\ r \notin returned => Ends(r) = 0
  BY DEF StreamTypes, StreamEndsInv, Stream!StreamCleanups, Stream!NoRun, Stream!Runs, Ends

(* The held cleanup is invoked: with none held after that, it makes no
   difference to how often each is or will be.                             *)
LEMMA HeldIsInvoked ==
    ASSUME StreamTypes, StreamEndsInv, stopCallback' = 0, invoked' = Stream!Cleaned(stopCallback)
    PROVE  \A r \in Stream!Runs : Ends(r)' = Ends(r)
<1> SUFFICES ASSUME NEW r \in Stream!Runs PROVE Ends(r)' = Ends(r)
  OBVIOUS
<1>1. /\ stopCallback \in Stream!Runs \cup {0} /\ 0 \notin Stream!Runs /\ invoked[r] \in Nat
  BY StreamEndsFacts
<1>2. invoked'[r] = IF r = stopCallback THEN invoked[r] + 1 ELSE invoked[r]
  BY <1>1, StreamCleaned
<1>3. stopCallback' # r /\ invoked'[r] \in Nat
  BY <1>1, <1>2
<1>4. Ends(r)' = invoked'[r]
  BY <1>3 DEF Ends
<1>5. CASE r = stopCallback
  BY <1>1, <1>2, <1>4, <1>5 DEF Ends
<1>6. CASE r # stopCallback
  BY <1>1, <1>2, <1>4, <1>6 DEF Ends
<1> QED
  BY <1>5, <1>6

LEMMA StreamStops ==
    ASSUME StreamTypes, StreamEndsInv, Stream!StopUnit
    PROVE  /\ started' = FALSE
           /\ stopCallback' = 0
           /\ \A r \in Stream!Runs : Ends(r)' = Ends(r)
<1>1. stopCallback # 0 => started
  BY StreamEndsFacts
<1>2. CASE started
  <2>1. started' = FALSE /\ stopCallback' = 0 /\ invoked' = Stream!Cleaned(stopCallback)
    BY <1>2 DEF Stream!StopUnit, Stream!NoRun
  <2> QED
    BY <2>1, HeldIsInvoked
<1>3. CASE ~started
  <2>1. UNCHANGED <<started, stopCallback, invoked>>
    BY <1>3 DEF Stream!StopUnit
  <2>2. started' = FALSE /\ stopCallback' = 0
    BY <1>1, <1>3, <2>1 DEF StreamTypes
  <2> QED
    BY <2>1, <2>2 DEF Ends
<1> QED
  BY <1>2, <1>3

LEMMA StreamEndsKept ==
    ASSUME StreamTypes, StreamEndsInv, StreamTypes',
           stopCallback' # 0 => started',
           \A r \in Stream!Runs : Ends(r)' = Ends(r) /\ (streaming[r] = "over" => streaming'[r] = "over"),
           UNCHANGED returned, overlapped => overlapped'
    PROVE  Stream!StreamCleanups' /\ \A r \in returned' : streaming'[r] = "over"
<1>1. \A r \in Stream!Runs : r \in returned' <=> r \in returned
  OBVIOUS
<1>2. \A r \in Stream!Runs :
        /\ r \in returned => Ends(r)' <= 1 /\ (~overlapped' => Ends(r)' = 1)
        /\ r \notin returned => Ends(r)' = 0
  BY StreamEndsFacts
<1>3. Stream!StreamCleanups'
  BY <1>1, <1>2 DEF Stream!StreamCleanups, Stream!NoRun, Ends
<1> QED
  BY <1>3, StreamEndsFacts DEF StreamTypes

LEMMA StreamStartStep ==
    ASSUME StreamTypes, StreamEndsInv, StreamTypes', NEW throws \in BOOLEAN, Stream!TakeUpStart(throws)
    PROVE  StreamEndsInv'
<1>1. PICK k \in Nat : Stream!Begun = 1..k
  BY DEF StreamEndsInv, StreamRunsAreCounted
<1>2. Stream!Cardinality(Stream!Begun) = k
  <2>1. Action!Cardinality(Stream!Begun) = k
    BY <1>1, SequenceNumber
  <2> QED
    BY <2>1 DEF Action!Cardinality, Stream!Cardinality
<1> DEFINE new == IF throws THEN "over" ELSE "running"
<1>3. /\ started' = TRUE /\ UNCHANGED returned
      /\ streaming' = [streaming EXCEPT ![k + 1] = new]
      /\ overlapped' = (overlapped \/ Stream!Running # {})
  BY <1>2 DEF Stream!TakeUpStart
<1>4. new \in {"over", "running"}
  OBVIOUS
<1> HIDE DEF new
<1>5. stopCallback' = 0 /\ \A r \in Stream!Runs : Ends(r)' = Ends(r)
  <2>1. CASE started
    <3>1. stopCallback' = 0 /\ invoked' = Stream!Cleaned(stopCallback)
      BY <2>1 DEF Stream!TakeUpStart, Stream!StopBeforeStart, Stream!NoRun
    <3> QED
      BY <3>1, HeldIsInvoked
  <2>2. CASE ~started
    <3>1. UNCHANGED <<stopCallback, invoked>>
      BY <2>2 DEF Stream!TakeUpStart, Stream!StopBeforeStart
    <3>2. stopCallback' = 0
      BY <2>2, <3>1, StreamEndsFacts
    <3> QED
      BY <3>1, <3>2 DEF Ends
  <2> QED
    BY <2>1, <2>2
<1>6. streaming \in [Stream!Runs -> {"none", "running", "over"}]
  BY DEF StreamTypes
<1>7. k + 1 \notin Stream!Begun
  BY <1>1
<1>8. \A r \in Stream!Runs : /\ streaming'[r] = IF r = k + 1 THEN new ELSE streaming[r]
                             /\ r = k + 1 => streaming[r] = "none"
  BY <1>3, <1>6, <1>7 DEF Stream!Begun
<1>9. Stream!StreamCleanups' /\ \A r \in returned' : streaming'[r] = "over"
  BY <1>3, <1>5, <1>8, StreamEndsKept
<1>10. OneAtATime'
  <2>1. ASSUME ~overlapped' PROVE \A r \in Stream!Running' : r = k + 1
    BY <1>3, <1>8, <2>1 DEF Stream!Running
  <2> QED
    BY <1>5, <2>1 DEF OneAtATime
<1>11. StreamRunsAreCounted'
  <2>1. Stream!Runs = 1..MaxCalls /\ MaxCalls \in Nat
    BY LazyConstants DEF Stream!Runs
  <2>2. CASE k + 1 \in Stream!Runs
    <3>1. \A r \in Stream!Runs : streaming'[r] # "none" <=> r \in Stream!Begun \/ r = k + 1
      BY <1>4, <1>8 DEF Stream!Begun
    <3>2. 1..(k + 1) = 1..k \cup {k + 1} /\ k + 1 \in Nat /\ 1..k \subseteq Stream!Runs
      BY <1>1 DEF Stream!Begun
    <3>3. Stream!Begun' = 1..(k + 1)
      BY <1>1, <2>2, <3>1, <3>2 DEF Stream!Begun
    <3> QED
      BY <3>2, <3>3 DEF StreamRunsAreCounted
  <2>3. CASE k + 1 \notin Stream!Runs
    <3>1. Stream!Begun' = Stream!Begun
      BY <1>8, <2>3 DEF Stream!Begun
    <3> QED
      BY <1>1, <3>1 DEF StreamRunsAreCounted
  <2> QED
    BY <2>2, <2>3
<1> QED
  BY <1>9, <1>10, <1>11 DEF StreamEndsInv

LEMMA StreamSettleStep ==
    ASSUME StreamTypes, StreamEndsInv, StreamTypes', NEW r \in Stream!Runs,
           Stream!Fails(r) \/ \E returns \in BOOLEAN : Stream!Succeeds(r, returns)
    PROVE  StreamEndsInv'
<1>1. /\ streaming[r] = "running" /\ streaming' = [streaming EXCEPT ![r] = "over"]
      /\ UNCHANGED <<started, overlapped>>
  BY DEF Stream!Fails, Stream!Succeeds, Stream!Running
<1>2. /\ streaming'[r] = "over" /\ \A s \in Stream!Runs : s # r => streaming'[s] = streaming[s]
  BY <1>1 DEF StreamTypes
<1>3. StreamRunsAreCounted'
  <2>1. Stream!Begun' = Stream!Begun
    BY <1>1, <1>2 DEF Stream!Begun
  <2> QED
    BY <2>1 DEF StreamEndsInv, StreamRunsAreCounted
<1>4. r \notin returned /\ invoked[r] = 0 /\ stopCallback # r /\ stopCallback \in Stream!Runs \cup {0}
  <2>1. r \notin returned
    BY <1>1, StreamEndsFacts
  <2>2. Ends(r) = 0 /\ invoked[r] \in Nat
    BY <2>1, StreamEndsFacts
  <2>3. stopCallback # r
    BY <2>2 DEF Ends
  <2> QED
    BY <2>1, <2>2, <2>3, StreamEndsFacts DEF Ends
<1>5. ~overlapped => Stream!Running' = {} /\ stopCallback = 0
  <2>1. r \in Stream!Running
    BY <1>1 DEF Stream!Running
  <2>2. ~overlapped => stopCallback = 0 /\ \A s \in Stream!Running : s = r
    BY <2>1 DEF StreamEndsInv, OneAtATime
  <2>3. Stream!Running' = Stream!Running \ {r}
    BY <1>2 DEF Stream!Running
  <2> QED
    BY <2>2, <2>3
<1>6. OneAtATime'
  BY <1>1, <1>5 DEF OneAtATime
<1>7. CASE UNCHANGED <<returned, stopCallback, invoked>>
  <2>1. Stream!StreamCleanups' /\ \A s \in returned' : streaming'[s] = "over"
    <3>1. \A s \in Stream!Runs : Ends(s)' = Ends(s) /\ (streaming[s] = "over" => streaming'[s] = "over")
      BY <1>2, <1>7 DEF Ends
    <3>2. stopCallback' # 0 => started'
      BY <1>1, <1>7, StreamEndsFacts
    <3> QED
      BY <1>1, <1>7, <3>1, <3>2, StreamEndsKept
  <2> QED
    BY <1>3, <1>6, <2>1 DEF StreamEndsInv
<1>8. CASE Stream!Succeeds(r, TRUE)
  <2>1. /\ returned' = returned \cup {r}
        /\ stopCallback' = (IF started THEN r ELSE stopCallback)
        /\ invoked' = (IF ~started THEN Stream!Cleaned(r) ELSE invoked)
    BY <1>8 DEF Stream!Succeeds
  <2>2. \A s \in returned' : streaming'[s] = "over"
    <3>1. ASSUME NEW s \in returned, s # r PROVE streaming'[s] = "over"
      <4>1. s \in Stream!Runs
        BY DEF StreamTypes
      <4> QED
        BY <1>2, <3>1, <4>1, StreamEndsFacts
    <3> QED
      BY <1>2, <2>1, <3>1
  <2>3. /\ stopCallback' # 0 => started'
        /\ Ends(r)' = 1
        /\ \A s \in Stream!Runs : s # r => /\ Ends(s)' <= Ends(s)
                                           /\ ~overlapped => Ends(s)' = Ends(s)
                                           /\ s \notin returned => Ends(s)' = 0
    <3>1. CASE started
      <4>1. stopCallback' = r /\ invoked' = invoked /\ started'
        BY <1>1, <2>1, <3>1
      <4>2. Ends(r)' = 1
        BY <1>4, <4>1 DEF Ends
      <4>3. ASSUME NEW s \in Stream!Runs, s # r
            PROVE  /\ Ends(s)' <= Ends(s)
                   /\ ~overlapped => Ends(s)' = Ends(s)
                   /\ s \notin returned => Ends(s)' = 0
        <5>1. Ends(s)' = invoked[s] /\ invoked[s] \in Nat
          BY <4>1, <4>3, StreamEndsFacts DEF Ends
        <5>2. ~overlapped => Ends(s) = invoked[s]
          BY <1>5, StreamEndsFacts DEF Ends
        <5>3. Ends(s) = invoked[s] \/ Ends(s) = invoked[s] + 1
          BY <5>1 DEF Ends
        <5>4. s \notin returned => Ends(s) = 0
          BY StreamEndsFacts
        <5> HIDE DEF Ends
        <5> QED
          BY <5>1, <5>2, <5>3, <5>4
      <4> QED
        BY <4>1, <4>2, <4>3
    <3>2. CASE ~started
      <4>1. stopCallback = 0 /\ stopCallback' = 0 /\ invoked' = Stream!Cleaned(r) /\ r # 0
        BY <2>1, <3>2, StreamEndsFacts
      <4>2. invoked'[r] = 1 /\ \A s \in Stream!Runs : s # r => invoked'[s] = invoked[s]
        BY <1>4, <4>1, StreamCleaned
      <4>3. Ends(r)' = 1
        BY <4>1, <4>2 DEF Ends
      <4>4. \A s \in Stream!Runs : s # r => Ends(s)' = Ends(s) /\ Ends(s) \in Nat
        BY <4>1, <4>2, StreamEndsFacts DEF Ends
      <4>5. \A s \in Stream!Runs : s \notin returned => Ends(s) = 0
        BY StreamEndsFacts
      <4> QED
        BY <4>1, <4>3, <4>4, <4>5
    <3> QED
      BY <3>1, <3>2
  <2>4. \A s \in Stream!Runs :
          IF s \in returned' THEN Ends(s)' <= 1 /\ (~overlapped' => Ends(s)' = 1) ELSE Ends(s)' = 0
    <3> SUFFICES ASSUME NEW s \in Stream!Runs
                 PROVE  IF s \in returned' THEN Ends(s)' <= 1 /\ (~overlapped' => Ends(s)' = 1)
                                           ELSE Ends(s)' = 0
      OBVIOUS
    <3>1. CASE s = r
      BY <2>1, <2>3, <3>1
    <3>2. CASE s # r /\ s \in returned
      <4>1. Ends(s) <= 1 /\ (~overlapped => Ends(s) = 1) /\ Ends(s) \in Int /\ Ends(s)' \in Int
        <5>1. Ends(s) <= 1 /\ (~overlapped => Ends(s) = 1)
          BY <3>2, StreamEndsFacts
        <5>2. invoked[s] \in Int /\ invoked'[s] \in Int
          BY DEF StreamTypes
        <5> QED
          BY <5>1, <5>2 DEF Ends
      <4> QED
        BY <1>1, <2>1, <2>3, <3>2, <4>1
    <3>3. CASE s # r /\ s \notin returned
      BY <2>1, <2>3, <3>3
    <3> QED
      BY <3>1, <3>2, <3>3
  <2>5. Stream!StreamCleanups'
    BY <2>3, <2>4 DEF Stream!StreamCleanups, Stream!NoRun, Ends
  <2> QED
    BY <1>3, <1>6, <2>2, <2>5 DEF StreamEndsInv
<1>9. UNCHANGED <<returned, stopCallback, invoked>> \/ Stream!Succeeds(r, TRUE)
  <2>1. ASSUME Stream!Succeeds(r, FALSE) PROVE UNCHANGED <<returned, stopCallback, invoked>>
    BY <2>1 DEF Stream!Succeeds
  <2>2. Stream!Fails(r) => UNCHANGED <<returned, stopCallback, invoked>>
    BY DEF Stream!Fails
  <2> QED
    BY <2>1, <2>2
<1> QED
  BY <1>7, <1>8, <1>9

LEMMA StreamEndsStutters ==
    ASSUME StreamEndsInv, UNCHANGED <<streaming, started, stopCallback, returned, invoked, overlapped>>
    PROVE  StreamEndsInv'
  BY DEF StreamEndsInv, Stream!StreamCleanups, OneAtATime, StreamRunsAreCounted, Stream!Running, Stream!Begun

LEMMA StreamEndsStep ==
    ASSUME StreamTypes, StreamEndsInv, Stream!Next
    PROVE  StreamEndsInv'
<1>1. StreamTypes'
  BY StreamRunsStep
<1>2. CASE Stream!TakeUp
  BY <1>1, <1>2, StreamStartStep DEF Stream!TakeUp
<1>3. CASE \E r \in Stream!Runs : Stream!Fails(r) \/ \E returns \in BOOLEAN : Stream!Succeeds(r, returns)
  BY <1>1, <1>3, StreamSettleStep
<1>4. CASE UNCHANGED <<streaming, started, stopCallback, returned, invoked, overlapped>>
  BY <1>4, StreamEndsStutters
<1>5. CASE Stream!StopUnit /\ UNCHANGED <<streaming, returned, overlapped>>
  <2>1. started' = FALSE /\ stopCallback' = 0 /\ \A r \in Stream!Runs : Ends(r)' = Ends(r)
    BY <1>5, StreamStops
  <2>2. Stream!StreamCleanups' /\ \A r \in returned' : streaming'[r] = "over"
    BY <1>1, <1>5, <2>1, StreamEndsKept
  <2>3. OneAtATime' /\ StreamRunsAreCounted'
    BY <1>5, <2>1 DEF StreamEndsInv, OneAtATime, StreamRunsAreCounted, Stream!Running, Stream!Begun
  <2> QED
    BY <2>2, <2>3 DEF StreamEndsInv
<1>6. CASE Stream!Stop \/ \E l \in Listeners : Stream!Unsubscribe(l)
  <2>1. UNCHANGED <<streaming, returned, overlapped>>
    BY <1>6 DEF Stream!Stop, Stream!Unsubscribe
  <2>2. Stream!StopUnit \/ UNCHANGED <<started, stopCallback, invoked>>
    BY <1>6 DEF Stream!Stop, Stream!Unsubscribe
  <2> QED
    BY <1>4, <1>5, <2>1, <2>2
<1> QED
  BY <1>2, <1>3, <1>4, <1>6 DEF Stream!Next, Stream!RunWrites, Stream!streamVars

(* Only a start makes a stream started, and the unit is there for it. *)
LEMMA StartedStep ==
    ASSUME ListenersInv, StartedInv, instance.kind = "stream", UNCHANGED instance, Stream!Next
    PROVE  StartedInv'
<1>1. Resolved => Resolved'
  BY StreamListenersStep
<1>2. started' => started \/ Resolved
  <2>1. Stream!TakeUp => Resolved
    BY StreamIsLazy DEF Stream!TakeUp, Stream!TakeUpStart
  <2>2. ASSUME Stream!StopUnit PROVE started' => started
    BY <2>2 DEF Stream!StopUnit, ListenersInv, StreamTypes
  <2>3. (Stream!Stop \/ \E l \in Listeners : Stream!Unsubscribe(l)) => (started' => started)
    BY <2>2 DEF Stream!Stop, Stream!Unsubscribe
  <2>4. (\E r \in Stream!Runs : Stream!Fails(r) \/ \E returns \in BOOLEAN : Stream!Succeeds(r, returns))
          => UNCHANGED started
    BY DEF Stream!Fails, Stream!Succeeds
  <2> QED
    BY <2>1, <2>3, <2>4 DEF Stream!Next, Stream!RunWrites, Stream!streamVars
<1> QED
  BY <1>1, <1>2 DEF StartedInv

LEMMA EndsAreKept == EndsInv /\ [Next]_vars => EndsInv'
<1> SUFFICES ASSUME EndsInv, [Next]_vars PROVE EndsInv'
  OBVIOUS
<1>1. ListenersInv /\ ListenersInv' /\ ActionInv /\ CleanupTypes /\ StreamTypes /\ UNCHANGED instance
  BY ListenersAreKept DEF EndsInv, ListenersInv, Next, vars
<1>2. UNCHANGED actionVars => ActionEndsInv'
  BY DEF actionVars, EndsInv, ActionEndsInv, Action!ActionCleanups, OnlyEndedReturn
<1>3. UNCHANGED streamVars => StreamEndsInv'
  BY StreamEndsStutters DEF streamVars, EndsInv
<1>4. CASE LazyUnitNext /\ instance.kind = "stream"
  <2>1. Stream!Next /\ UNCHANGED actionVars
    BY <1>4 DEF LazyUnitNext
  <2> QED
    BY <1>1, <1>2, <1>4, <2>1, StreamEndsStep, StartedStep DEF EndsInv
<1>5. CASE LazyUnitNext /\ instance.kind = "action"
  <2>1. Action!Next /\ UNCHANGED streamVars
    BY <1>5 DEF LazyUnitNext
  <2>2. ~started'
    BY <1>5, <2>1 DEF EndsInv, StartedInv, streamVars
  <2> QED
    BY <1>1, <1>3, <1>5, <2>1, <2>2, ActionEndsStep DEF EndsInv, StartedInv
<1>6. CASE LazyUnitNext /\ instance.kind = "source"
  <2>1. UNCHANGED streamVars /\ UNCHANGED actionVars
    BY <1>6 DEF LazyUnitNext
  <2>2. ~started'
    BY <1>6, <2>1 DEF EndsInv, StartedInv, streamVars
  <2> QED
    BY <1>1, <1>2, <1>3, <2>1, <2>2 DEF EndsInv, StartedInv
<1>7. CASE UNCHANGED lazyUnitVars
  <2>1. UNCHANGED streamVars /\ UNCHANGED actionVars /\ UNCHANGED <<unit, started>>
    BY <1>7 DEF lazyUnitVars, lazyVars, wrapper, streamVars
  <2>2. StartedInv'
    BY <1>1, <2>1 DEF EndsInv, StartedInv, Resolved
  <2> QED
    BY <1>1, <1>2, <1>3, <2>1, <2>2 DEF EndsInv
<1> QED
  BY <1>4, <1>5, <1>6, <1>7 DEF Next, vars, LazyUnitNext

(* Whoever leaves a stream while it is not bridged leaves nothing started. *)
LEMMA LastOneStopsStep ==
    ASSUME EndsInv, [Next]_vars
    PROVE  /\ listeners # {} /\ listeners' = {} => ~started'
           /\ listeners' # listeners /\ listeners' # {} => started' = started
<1>1. /\ attached = (Resolved /\ listeners # {}) /\ StreamTypes /\ StreamEndsInv
      /\ started => instance.kind = "stream" /\ Resolved
  BY DEF EndsInv, ListenersInv, LazyInv, Bridged, StartedInv
<1>2. CASE listeners' = listeners
  BY <1>2
<1>3. CASE instance.kind # "stream"
  <2>1. UNCHANGED started /\ ~started
    BY <1>1, <1>3 DEF Next, vars, lazyUnitVars, LazyUnitNext, streamVars
  <2> QED
    BY <2>1
<1>4. CASE Stream!Next
  <2>1. CASE Stream!LazyNext /\ UNCHANGED Stream!streamVars
    <3>1. UNCHANGED started
      BY <2>1 DEF Stream!streamVars
    <3>2. listeners' = listeners \/ listeners' # {}
      <4>1. LazyNext
        BY <2>1, StreamIsLazy
      <4> QED
        BY <4>1 DEF LazyNext, Ask, Import, ImportFails, GetSnapshot, Subscribe, EntityChanges, OnChange, wrapper
    <3> QED
      BY <3>1, <3>2
  <2>2. CASE \E l \in Listeners : Stream!Unsubscribe(l)
    <3>1. PICK l \in Listeners : Stream!Unsubscribe(l)
      BY <2>2
    <3>2. l \in listeners /\ listeners' = listeners \ {l}
      BY <3>1 DEF Stream!Unsubscribe, Stream!Leave
    <3>3. CASE attached /\ listeners = {l}
      <4>1. Stream!StopUnit /\ listeners' = {}
        BY <3>1, <3>2, <3>3 DEF Stream!Unsubscribe, Stream!Bridging
      <4>2. started' = FALSE
        BY <1>1, <4>1, StreamStops
      <4> QED
        BY <4>1, <4>2
    <3>4. CASE ~attached \/ listeners # {l}
      <4>1. UNCHANGED started
        BY <3>1, <3>4 DEF Stream!Unsubscribe, Stream!Bridging
      <4>2. CASE listeners' = {}
        <5>1. ~attached
          BY <3>2, <3>4, <4>2
        <5>2. ~started
          BY <1>1, <3>2, <5>1
        <5> QED
          BY <4>1, <4>2, <5>2
      <4> QED
        BY <4>1, <4>2
    <3> QED
      BY <3>3, <3>4
  <2>3. CASE ~(\E l \in Listeners : Stream!Unsubscribe(l)) /\ ~(Stream!LazyNext /\ UNCHANGED Stream!streamVars)
    <3>1. listeners' = listeners
      BY <1>4, <2>3 DEF Stream!Next, Stream!TakeUp, Stream!TakeUpStart, Stream!RunWrites, Stream!Writes,
                        Stream!Fails, Stream!Succeeds, Stream!Stop, Stream!wrapper
    <3> QED
      BY <3>1
  <2> QED
    BY <2>1, <2>2, <2>3
<1>5. listeners' = listeners \/ instance.kind # "stream" \/ Stream!Next
  BY DEF Next, vars, lazyUnitVars, lazyVars, wrapper, LazyUnitNext
<1> QED
  BY <1>2, <1>3, <1>4, <1>5

(* Whatever number of runs of a stream or an action overlap, and whenever the
   stream is stopped, started again or left, a cleanup is held or was invoked,
   once; and a stream nobody listens to any more was stopped.              *)
THEOREM CleanupsAndStops == Spec => RunsAreCleanedUp
<1>1. EndsInv => (IsLazy => Stream!StreamCleanups /\ Action!ActionCleanups)
  BY DEF EndsInv, StreamEndsInv, ActionEndsInv
<1>2. EndsInv /\ [Next]_vars
      => [/\ listeners # {} /\ listeners' = {} => ~started'
          /\ listeners' # listeners /\ listeners' # {} => started' = started]_Stream!vars
  BY LastOneStopsStep
<1> QED
  BY <1>1, <1>2, EndsInitially, EndsAreKept, PTL DEF Spec, RunsAreCleanedUp, Stream!LastOneStops
=============================================================================
