------------------------------- MODULE Drafts -------------------------------
(***************************************************************************)
(* Drafts of @livon/sync: unsaved changes of an entity, kept beside it by  *)
(* the entity store (packages/sync/src/entity/entity.ts), and the draft    *)
(* units through which the application writes and reads them               *)
(* (packages/sync/src/draft/createDraftBuilder.ts).                        *)
(*                                                                         *)
(* One entity is modelled.  A version of it is the set of edits it has,    *)
(* and the step that made the object: one source compares its entity field *)
(* by field, a source of many compares objects.  Writing a whole version   *)
(* over another one, which is what merging two complete objects does,      *)
(* leaves the edits of the one written.  Every unit's source has the       *)
(* entity as a member until the entity is deleted; that a run of a source  *)
(* takes it up again is the matter of EntityUnits, and so is the batching  *)
(* of notifications when an entity has many units.                         *)
(***************************************************************************)
EXTENDS Naturals, FiniteSets

CONSTANTS
    Units,          \* the draft units
    Identity,       \* the identity of each
    None,
    MaxEdits        \* bound: edits and commits, of anybody

Identities == {Identity[u] : u \in Units}
Modes      == {"local", "identity", "global"}
Version(edits, at) == [edits |-> edits, at |-> at]
Versions == [edits : SUBSET (1..MaxEdits), at : 0..MaxEdits + 1]

(* What the constants may be; the instances are checked against it. *)
DraftsConstants ==
    MaxEdits \in Nat /\ None \notin Units \cup Identities \cup Modes \cup Versions

VARIABLES
    mode,       \* the mode each unit was configured with
    many,       \* the units are of entity mode many
    base,       \* what the store holds for the entity, or None
    draft,      \* draftsById
    owner,      \* draftOwnerIdentityKeyById
    draftMode,  \* draftModeById
    local,      \* draftLocalIdentityKeyById: the unit whose draft is local
    queued,     \* queuedDraftById
    tracked,    \* the units with an entry in trackedIdsByIdentityKey
    listening,  \* the units somebody has subscribed to
    heard,      \* the status and version the listeners of a unit were told last
    held,       \* the store has the units' sources as members (unitKeysById)
    settled,    \* the sources whose value is not dirty, once they are no members
    frozen,     \* what each of those shows
    steps,      \* the edits and commits so far
    waiting     \* history: the edits queued for the owner's clear, and those it lost

stored    == <<base, draft, owner, draftMode, local, queued, waiting>>
sources   == <<held, settled, frozen>>
draftVars == <<mode, many, stored, tracked, listening, heard, sources, steps>>

(* isDraftVisibleForReader, for the reader that unit u is *)
Visible(u) ==
    /\ draft # None
    /\ \/ draftMode = "global"
       \/ owner = Identity[u] /\ (draftMode = "local" => local = u)

(* readEntityValueForDraftIdentity: a unit that is not local reads without
   a local key, its source reads with it.  A member is told of every change,
   and so reads; no member reads once, if anything changed before.          *)
Read(u)     == IF Visible(u) /\ (draftMode = "local" => mode[u] = "local") THEN draft ELSE base
SourceOf(u) == IF ~held /\ u \in settled THEN frozen[u] ELSE IF Visible(u) THEN draft ELSE base

(* ensureValueFresh, when the snapshot of unit u is read *)
Reads(u) ==
    /\ settled' = IF held THEN settled ELSE settled \cup {u}
    /\ frozen' = IF held THEN frozen ELSE [frozen EXCEPT ![u] = SourceOf(u)]
    /\ UNCHANGED held

(* getDraftIdsByIdentity has the entity: the unit is dirty *)
Active(u) ==
    /\ owner = Identity[u] /\ draftMode = mode[u]
    /\ mode[u] = "local" => local = u

(* What a unit that tracks ids shows: the drafts and entities that are there,
   or else what its source shows.                                          *)
Shown(u) == IF Read(u) # None THEN Read(u) ELSE SourceOf(u)

Snapshot(u) ==
    [dirty |-> Active(u),
     value |-> IF Active(u) \/ u \in tracked THEN Shown(u) ELSE SourceOf(u)]

(* Mutant: equal contents are the same, of sources of many as well. *)
SameContent(v, w) == v = w \/ (v # None /\ w # None /\ v.edits = w.edits)

Same(v, w) == v = w \/ (~many /\ v # None /\ w # None /\ v.edits = w.edits)

(* What listeners are told: the source of a unit somebody listens to tells
   when the version it shows becomes another one, and a unit tells its own
   after its own call.  A source that has been read since it told anything
   may tell the same once more, which is left out.                         *)
Notify(callers) ==
    LET told == {u \in listening : held /\ ~Same(SourceOf(u), SourceOf(u)')} IN
    heard' = [u \in Units |-> IF u \in told \cup (callers \cap listening)
                              THEN Snapshot(u)' ELSE heard[u]]

DraftsInit ==
    /\ mode \in [Units -> Modes] /\ many \in BOOLEAN
    /\ base = Version({}, 0)
    /\ draft = None /\ owner = None /\ draftMode = None /\ local = None /\ queued = None
    /\ tracked = {} /\ listening = {} /\ steps = 0
    /\ heard = [u \in Units |-> [dirty |-> FALSE, value |-> base]]
    /\ held = TRUE /\ settled = {} /\ frozen = [u \in Units |-> None]
    /\ waiting = [edits |-> {}, lost |-> {}]

Step == steps < MaxEdits /\ steps' = steps + 1
Rest == UNCHANGED <<mode, many, listening>>

-----------------------------------------------------------------------------
Unowned(i) == owner \in {None, i}

(* Mutant: the owner stays. *)
NoDraftOwned == draft' = None /\ draftMode' = None /\ local' = None /\ UNCHANGED owner

NoDraft == draft' = None /\ owner' = None /\ draftMode' = None /\ local' = None

(* applyQueuedDraft, after which the store holds the version that waited. *)
ApplyQueued == IF queued = None THEN base ELSE Version(queued.edits, steps + 1)

NothingWaits == waiting' = [waiting EXCEPT !.edits = {}]

(* What set() merges into: what the unit reads, or, of many, what its source
   has there.                                                              *)
Patched(u) == IF Read(u) = None /\ many THEN SourceOf(u) ELSE Read(u)

(* set() of unit u: resolveSet merges the input into what is there, setDraft
   keeps it or, when another identity owns the draft, lets it wait.        *)
Set(u) ==
    LET version == Version(Patched(u).edits \cup {steps + 1}, steps + 1) IN
    /\ Step /\ Patched(u) # None
    /\ IF Unowned(Identity[u])
       THEN /\ draft' = version /\ owner' = Identity[u] /\ draftMode' = mode[u]
            /\ local' = IF mode[u] = "local" THEN u ELSE None
            /\ UNCHANGED <<queued, waiting>>
       ELSE /\ queued' = version
            /\ waiting' = [waiting EXCEPT !.edits = @ \cup {steps + 1}]
            /\ UNCHANGED <<draft, owner, draftMode, local>>
    /\ tracked' = tracked \cup {u}
    /\ UNCHANGED base /\ Reads(u) /\ Rest /\ Notify({u})

(* set() with nothing there: nothing is drafted, the listeners are told. *)
SetNothing(u) ==
    /\ Patched(u) = None
    /\ UNCHANGED <<stored, tracked, steps>> /\ Reads(u) /\ Rest /\ Notify({u})

(* clear() and reset() of unit u: the draft goes when it is the unit's, and
   what waited for that is merged into the entity.                         *)
Clear(u) ==
    /\ IF Active(u)
       THEN /\ NoDraft /\ queued' = None /\ base' = ApplyQueued
            /\ waiting' = [edits |-> {},
                           lost  |-> waiting.lost \cup (IF base' = None THEN {} ELSE waiting.edits \ base'.edits)]
       ELSE UNCHANGED stored
    /\ UNCHANGED <<tracked, steps, sources>> /\ Rest /\ Notify({u})

(* Entity.commitDraft for identity i: what waited first, then the draft. *)
Commit(i) ==
    /\ Step /\ Unowned(i) /\ draft # None
    /\ queued' = None
    /\ base' = Version(draft.edits, steps + 1)
    /\ NoDraft /\ NothingWaits
    /\ UNCHANGED <<tracked, sources>> /\ Rest /\ Notify({})

(* The store writes the entity, for a run or a message. *)
Upsert ==
    /\ Step
    /\ base' = Version((IF base = None THEN {} ELSE base.edits) \cup {steps + 1}, steps + 1)
    /\ UNCHANGED <<draft, owner, draftMode, local, queued, waiting, tracked, sources>>
    /\ Rest /\ Notify({})

(* deleteOne.  The entity goes first (createDeleteMethods.ts): the sources
   are no members any more, and are told while the draft is still there, so
   that one that shows the draft tells nothing, and keeps it when somebody
   listens.  Then the draft goes, and what waited, and there is no member
   left to tell (entity.ts).                                               *)
Delete ==
    /\ base # None \/ draft # None
    /\ IF held
       THEN /\ settled' = listening
            /\ frozen' = [u \in Units |-> IF u \in listening /\ Visible(u) THEN draft ELSE None]
            /\ heard' = [u \in Units |-> IF u \in listening /\ ~Visible(u)
                                         THEN [dirty |-> Active(u), value |-> None]
                                         ELSE heard[u]]
       ELSE UNCHANGED <<settled, frozen, heard>>
    /\ held' = FALSE
    /\ base' = None /\ queued' = None /\ NoDraft /\ NothingWaits
    /\ UNCHANGED <<tracked, steps>> /\ Rest

(* A listener reads the snapshot when it subscribes. *)
Subscribe(u) ==
    /\ u \notin listening
    /\ listening' = listening \cup {u}
    /\ heard' = [heard EXCEPT ![u] = Snapshot(u)]
    /\ Reads(u)
    /\ UNCHANGED <<mode, many, stored, tracked, steps>>

Unsubscribe(u) ==
    /\ u \in listening
    /\ listening' = listening \ {u}
    /\ UNCHANGED <<mode, many, stored, tracked, heard, sources, steps>>

DraftsNext ==
    \/ \E u \in Units : Set(u) \/ SetNothing(u) \/ Clear(u) \/ Subscribe(u) \/ Unsubscribe(u)
    \/ \E i \in Identities : Commit(i)
    \/ Upsert \/ Delete

-----------------------------------------------------------------------------
DraftsTypeOK ==
    /\ mode \in [Units -> Modes] /\ many \in BOOLEAN
    /\ {base, draft, queued} \subseteq Versions \cup {None}
    /\ owner \in Identities \cup {None} /\ draftMode \in Modes \cup {None} /\ local \in Units \cup {None}
    /\ tracked \subseteq Units /\ listening \subseteq Units
    /\ heard \in [Units -> [dirty : BOOLEAN, value : Versions \cup {None}]]
    /\ held \in BOOLEAN /\ settled \subseteq Units /\ frozen \in [Units -> Versions \cup {None}]
    /\ steps \in 0..MaxEdits
    /\ waiting \in [edits : SUBSET (1..MaxEdits), lost : SUBSET (1..MaxEdits)]

(* The maps of a draft agree, a local draft is of one unit of its owner, and
   a write waits only while there is an owner whose clear it waits for: else
   nobody would ever merge it.                                             *)
DraftsAreOwned ==
    /\ (draft = None) = (owner = None) /\ (draft = None) = (draftMode = None)
    /\ (local # None) = (draftMode = "local")
    /\ local # None => owner = Identity[local]
    /\ queued # None => owner # None

(* As long as the entity has not been deleted, a listener of a draft unit is
   never left with another version of it than the unit would now show, nor,
   when the unit is one of many, with another status.  After a deletion it
   may be: whoever showed the draft is not told that it has gone.          *)
DraftsAreHeard ==
    held => \A u \in listening :
        /\ Same(heard[u].value, Snapshot(u).value)
        /\ many => heard[u].dirty = Snapshot(u).dirty

(* packages/sync/README.md:387: "foreign identity draft writes are queued
   and merged after owner clear".                                          *)
QueuedWritesAreMerged == waiting.lost = {}
=============================================================================
