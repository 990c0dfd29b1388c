--------------------------- MODULE ServicesProofs ---------------------------
(***************************************************************************)
(* Theorems about the services, for every value of the constants.          *)
(*                                                                         *)
(* The command line: when the process asks, what it asks about is the      *)
(* checksum on the disk, unless it has not synced yet; what it has written *)
(* of an answer is on the disk; and what no write and no build has damaged *)
(* is all of one schema.                                                   *)
(*                                                                         *)
(* The dead-letter module: an event is in the store at most once, what a   *)
(* tick has counted stays there until it is loaded, and a replay that runs *)
(* is one the tick waits for.  So what failed is stored, loaded or being   *)
(* replayed; and a replay that is about to end well owes nothing more.     *)
(*                                                                         *)
(* The hook chain, for any hooks whatever they do: what is on the stack    *)
(* has not returned, every call has the index its caller's is followed by, *)
(* and a promise that was fulfilled waited for none, or for one that was   *)
(* fulfilled.                                                              *)
(***************************************************************************)
EXTENDS MCServices, TLAPS, SequenceTheorems

Sources == {"ast", "client", "index", "checksum"}

(* The files that are written of the answer, when run() has got so far. *)
WrittenBy(where) ==
    IF where = "client" THEN {"ast"}
    ELSE IF where = "index" THEN {"ast", "client"}
    ELSE IF where = "checksum" THEN {"ast", "client", "index"}
    ELSE IF where = "updated" THEN Sources
    ELSE IF where \in {"current", "manifest", "build"} THEN {"checksum"}
    ELSE {}

(* While these phases last no source is half written. *)
SourcesRest == {"execute", "asked", "ast", "updated", "current", "manifest", "build", "idle", "linked"}
BuildRests  == {"execute", "asked", "ast", "current", "idle", "linked"}

SyncIsKept ==
    /\ phase \in {"ast", "client", "index", "checksum", "updated", "current", "manifest", "build"}
       => got \in Schemas /\ \A f \in WrittenBy(phase) : disk[f] = got
    /\ phase \in {"current", "manifest", "build"} \/ Sync!Resting => ~pending
    /\ phase = "asked" => etag = IF pending THEN Nothing ELSE disk["checksum"]
    /\ Sync!Resting => disk["checksum"] = told
    /\ ~pending /\ "files" \notin failed /\ phase \in SourcesRest
       => \A f \in Sources : disk[f] = disk["checksum"]
    /\ ~pending /\ failed = {} /\ phase \in BuildRests => disk["dist"] = disk["checksum"]

LEMMA SyncConstantsHold ==
    /\ Nothing \notin Schemas
    /\ MaxAttempts \in Nat \ {0}
  BY ServicesConstants DEF Sync!SyncConstants

LEMMA RetriesType ==
    ASSUME Sync!SyncTypeOK, NEW early \in BOOLEAN, Sync!Retries(early), UNCHANGED options
    PROVE  /\ attempt' \in [n : 0..MaxAttempts - 1, resetApplied : BOOLEAN]
           /\ phase' \in {"idle", "stopped", "execute"}
           /\ \/ phase' = "execute" /\ told' = told
              \/ told' = Nothing
<1> DEFINE reset == early /\ ~attempt.resetApplied
           next  == IF reset THEN 1 ELSE attempt.n + 1
<1>1. attempt.n \in Nat /\ next \in Nat /\ attempt.resetApplied \in BOOLEAN
  BY SyncConstantsHold DEF Sync!SyncTypeOK
<1>2. CASE next >= MaxAttempts
  <2>1. /\ attempt' = Sync!First /\ told' = Nothing
        /\ phase' = IF options.poll THEN "idle" ELSE "stopped"
    BY <1>2 DEF Sync!Retries
  <2> QED
    BY <2>1, SyncConstantsHold DEF Sync!First
<1>3. CASE ~(next >= MaxAttempts)
  <2>1. /\ attempt' = [n |-> next, resetApplied |-> attempt.resetApplied \/ reset]
        /\ phase' = "execute" /\ UNCHANGED told
    BY <1>3 DEF Sync!Retries
  <2>2. next \in 0..MaxAttempts - 1
    BY <1>1, <1>3, SyncConstantsHold
  <2>3. (attempt.resetApplied \/ reset) \in BOOLEAN
    OBVIOUS
  <2> HIDE DEF next, reset
  <2> QED
    BY <2>1, <2>2, <2>3
<1> QED
  BY <1>2, <1>3

LEMMA SucceedsType ==
    ASSUME Sync!SyncTypeOK, Sync!Succeeds
    PROVE  /\ attempt' \in [n : 0..MaxAttempts - 1, resetApplied : BOOLEAN]
           /\ phase' \in {"idle", "linked", "stopped"}
           /\ command' \in {"none", "running", "exited"}
  BY SyncConstantsHold DEF Sync!SyncTypeOK, Sync!Succeeds, Sync!First

LEMMA DamagedType ==
    ASSUME Sync!SyncTypeOK, NEW f \in Sync!Files, disk' \in Sync!Damaged(f)
    PROVE  /\ disk' \in [Sync!Files -> Schemas \cup {Nothing}]
           /\ \A g \in Sync!Files \ {f} : disk'[g] = disk[g]
  BY DEF Sync!Damaged, Sync!SyncTypeOK

LEMMA NextPhaseIs ==
    /\ Sync!NextPhase["ast"] = "client" /\ Sync!NextPhase["client"] = "index"
    /\ Sync!NextPhase["index"] = "checksum" /\ Sync!NextPhase["checksum"] = "updated"
  BY DEF Sync!NextPhase

SyncInv == Sync!SyncTypeOK /\ SyncIsKept

LEMMA SyncInitially == Sync!SyncInit => SyncInv
<1> SUFFICES ASSUME Sync!SyncInit PROVE SyncInv
  OBVIOUS
<1>1. Sync!SyncTypeOK
  BY SyncConstantsHold DEF Sync!SyncInit, Sync!SyncTypeOK, Sync!First, Sync!Phases
<1>2. SyncIsKept
  BY DEF Sync!SyncInit, SyncIsKept, Sync!Resting, SourcesRest, BuildRests
<1> QED
  BY <1>1, <1>2 DEF SyncInv

(* A step that leaves the files alone, and goes to a phase in which nothing
   is under way.                                                           *)
LEMMA NothingWritten ==
    ASSUME SyncInv, UNCHANGED <<disk, pending, failed>>, phase \in BuildRests,
           phase' \in {"execute", "idle", "stopped"}, told' \in {Nothing, told},
           phase' # "execute" => told' = Nothing
    PROVE  SyncIsKept'
<1>1. phase \in SourcesRest
  BY DEF SourcesRest, BuildRests
<1> QED
  BY <1>1 DEF SyncInv, SyncIsKept, Sync!Resting

(* A write or a build fails, and run() is retried or given up. *)
LEMMA Damages ==
    ASSUME SyncInv, UNCHANGED pending, phase' \in {"execute", "idle", "stopped"},
           told' \in {Nothing, told}, phase' # "execute" => told' = Nothing,
           \/ "files" \in failed'
           \/ /\ "build" \in failed' /\ failed \subseteq failed' /\ phase \in SourcesRest
              /\ \A f \in Sources : disk'[f] = disk[f]
    PROVE  SyncIsKept'
  BY DEF SyncInv, SyncIsKept, Sync!Resting, Sources

LEMMA SyncStep == SyncInv /\ Sync!SyncNext => SyncInv'
<1> SUFFICES ASSUME SyncInv, Sync!SyncNext PROVE SyncInv'
  OBVIOUS
<1>t. Sync!SyncTypeOK /\ SyncIsKept
  BY DEF SyncInv
<1>f. /\ Sources \subseteq Sync!Files /\ Sources = Sync!Written
      /\ "manifest" \in Sync!Files \ Sources /\ "dist" \in Sync!Files \ Sources
  BY DEF Sources, Sync!Files, Sync!Written
<1>1. CASE Sync!Asks
  <2>1. Sync!SyncTypeOK'
    BY <1>t, <1>f, <1>1 DEF Sync!Asks, Sync!SyncTypeOK, Sync!Phases, Sources
  <2>2. SyncIsKept'
    BY <1>t, <1>1 DEF Sync!Asks, SyncIsKept, Sync!Resting, SourcesRest, BuildRests
  <2> QED
    BY <2>1, <2>2 DEF SyncInv
<1>2. CASE Sync!NotModified
  <2>1. phase' \in {"idle", "linked", "stopped"} /\ Sync!SyncTypeOK'
    BY <1>t, <1>2, SucceedsType DEF Sync!NotModified, Sync!SyncTypeOK, Sync!Phases
  <2>2. ~pending /\ disk["checksum"] = served
    BY <1>t, <1>2, SyncConstantsHold DEF Sync!NotModified, SyncIsKept, Sync!SyncTypeOK
  <2>3. SyncIsKept'
    BY <1>t, <1>2, <2>1, <2>2
       DEF Sync!NotModified, SyncIsKept, Sync!Resting, SourcesRest, BuildRests
  <2> QED
    BY <2>1, <2>3 DEF SyncInv
<1>3. CASE Sync!AnotherIsNotModified
  <2>1. phase' \in {"idle", "linked", "stopped"} /\ Sync!SyncTypeOK'
    BY <1>t, <1>3, SucceedsType DEF Sync!AnotherIsNotModified, Sync!SyncTypeOK, Sync!Phases
  <2>2. SyncIsKept'
    BY <1>t, <1>3, <2>1 DEF Sync!AnotherIsNotModified, SyncIsKept, Sync!Resting
  <2> QED
    BY <2>1, <2>2 DEF SyncInv
<1>4. CASE Sync!TakesSchema
  <2>1. Sync!SyncTypeOK' /\ phase' \in {"current", "ast"}
    BY <1>t, <1>4 DEF Sync!TakesSchema, Sync!SyncTypeOK, Sync!Phases, Sync!Written
  <2>2. got' = served /\ served \in Schemas /\ phase = "asked"
        /\ UNCHANGED <<disk, pending, failed, told>>
    BY <1>t, <1>4 DEF Sync!TakesSchema, Sync!SyncTypeOK
  <2>3. phase' = "current" => ~pending /\ disk["checksum"] = served
    BY <1>4 DEF Sync!TakesSchema, Sync!FilesAreCurrent
  <2>4. SyncIsKept'
    BY <1>t, <2>1, <2>2, <2>3 DEF SyncIsKept, Sync!Resting, SourcesRest, BuildRests, WrittenBy
  <2> QED
    BY <2>1, <2>4 DEF SyncInv
<1>5. CASE Sync!GenerateFails
  <2>1. /\ phase = "ast" /\ Sync!Retries(FALSE)
        /\ UNCHANGED <<options, served, disk, pending, etag, got, command, failed>>
    BY <1>5 DEF Sync!GenerateFails
  <2>2. /\ attempt' \in [n : 0..MaxAttempts - 1, resetApplied : BOOLEAN]
        /\ phase' \in {"idle", "stopped", "execute"}
        /\ \/ phase' = "execute" /\ told' = told
           \/ told' = Nothing
    BY <1>t, <2>1, RetriesType
  <2>3. Sync!SyncTypeOK'
    BY <1>t, <2>1, <2>2 DEF Sync!SyncTypeOK, Sync!Phases
  <2>4. SyncIsKept'
    BY <2>1, <2>2, NothingWritten DEF BuildRests
  <2> QED
    BY <2>3, <2>4 DEF SyncInv
<1>6. ASSUME NEW early \in BOOLEAN, Sync!RequestFails(early) PROVE SyncInv'
  <2>1. /\ phase = "asked" /\ Sync!Retries(early)
        /\ UNCHANGED <<options, served, disk, pending, etag, got, command, failed>>
    BY <1>6 DEF Sync!RequestFails
  <2>2. /\ attempt' \in [n : 0..MaxAttempts - 1, resetApplied : BOOLEAN]
        /\ phase' \in {"idle", "stopped", "execute"}
        /\ \/ phase' = "execute" /\ told' = told
           \/ told' = Nothing
    BY <1>t, <2>1, RetriesType
  <2>3. Sync!SyncTypeOK'
    BY <1>t, <2>1, <2>2 DEF Sync!SyncTypeOK, Sync!Phases
  <2>4. SyncIsKept'
    BY <2>1, <2>2, NothingWritten DEF BuildRests
  <2> QED
    BY <2>3, <2>4 DEF SyncInv
<1>7. ASSUME NEW f \in Sync!Written, Sync!Writes(f) PROVE SyncInv'
  <2>1. /\ phase = f /\ disk' = [disk EXCEPT ![f] = got] /\ phase' = Sync!NextPhase[f]
        /\ failed' = (IF f = "checksum" THEN failed \ {"files"} ELSE failed)
        /\ UNCHANGED <<options, served, pending, etag, got, attempt, command, told>>
    BY <1>7 DEF Sync!Writes
  <2>2. f \in Sync!Files /\ f \in {"ast", "client", "index", "checksum"} /\ f # "dist"
        /\ disk \in [Sync!Files -> Schemas \cup {Nothing}]
    BY <1>t DEF Sync!Files, Sync!Written, Sync!SyncTypeOK
  <2>3. disk'[f] = got /\ \A g \in Sync!Files \ {f} : disk'[g] = disk[g]
    BY <2>1, <2>2
  <2>4. phase' \in {"client", "index", "checksum", "updated"}
    BY <2>1, <2>2, NextPhaseIs
  <2>5. got \in Schemas /\ \A g \in WrittenBy(phase) : disk[g] = got
    BY <1>t, <2>1, <2>2 DEF SyncIsKept
  <2>6. disk' \in [Sync!Files -> Schemas \cup {Nothing}]
    BY <2>1, <2>2, <2>5
  <2>7. Sync!SyncTypeOK'
    BY <1>t, <2>1, <2>4, <2>6 DEF Sync!SyncTypeOK, Sync!Phases, Sync!Written
  <2>8. \A g \in WrittenBy(phase') : disk'[g] = got
    <3>1. CASE f = "ast"
      BY <1>f, <2>1, <2>3, <3>1, NextPhaseIs DEF WrittenBy, Sources
    <3>2. CASE f = "client"
      BY <1>f, <2>1, <2>3, <2>5, <3>2, NextPhaseIs DEF WrittenBy, Sources
    <3>3. CASE f = "index"
      BY <1>f, <2>1, <2>3, <2>5, <3>3, NextPhaseIs DEF WrittenBy, Sources
    <3>4. CASE f = "checksum"
      BY <1>f, <2>1, <2>3, <2>5, <3>4, NextPhaseIs DEF WrittenBy, Sources
    <3> QED
      BY <2>2, <3>1, <3>2, <3>3, <3>4
  <2>9. phase' = "updated" => \A g \in Sources : disk'[g] = got
    BY <2>8 DEF WrittenBy
  <2>10. phase' = "updated" => \A g \in Sources : disk'[g] = disk'["checksum"]
    BY <2>9 DEF Sources
  <2>11. SyncIsKept'
    BY <2>1, <2>4, <2>5, <2>8, <2>10 DEF SyncIsKept, Sync!Resting, SourcesRest, BuildRests
  <2> QED
    BY <2>7, <2>11 DEF SyncInv
<1>8. ASSUME NEW f \in Sync!Written, Sync!WriteFails(f) PROVE SyncInv'
  <2>1. /\ disk' \in Sync!Damaged(f) /\ failed' = failed \cup {"files"} /\ Sync!Retries(FALSE)
        /\ UNCHANGED <<options, served, pending, etag, got, command>>
    BY <1>8 DEF Sync!WriteFails
  <2>2. /\ attempt' \in [n : 0..MaxAttempts - 1, resetApplied : BOOLEAN]
        /\ phase' \in {"idle", "stopped", "execute"}
        /\ \/ phase' = "execute" /\ told' = told
           \/ told' = Nothing
    BY <1>t, <2>1, RetriesType
  <2>3. disk' \in [Sync!Files -> Schemas \cup {Nothing}]
    BY <1>t, <1>f, <2>1, DamagedType
  <2>4. Sync!SyncTypeOK'
    BY <1>t, <2>1, <2>2, <2>3 DEF Sync!SyncTypeOK, Sync!Phases
  <2>5. SyncIsKept'
    BY <2>1, <2>2, Damages
  <2> QED
    BY <2>4, <2>5 DEF SyncInv
<1>9. CASE Sync!DecidesToBuild
  <2>1. /\ phase \in {"updated", "current"} /\ pending' = FALSE
        /\ UNCHANGED <<options, served, disk, etag, got, budget, failed>>
    BY <1>9 DEF Sync!DecidesToBuild
  <2>2. got \in Schemas /\ disk["checksum"] = got
    BY <1>t, <2>1 DEF SyncIsKept, WrittenBy, Sources
  <2>3. CASE phase' = "manifest" /\ UNCHANGED <<attempt, command, told>>
    <3>1. Sync!SyncTypeOK'
      BY <1>t, <2>1, <2>3 DEF Sync!SyncTypeOK, Sync!Phases
    <3>2. phase = "updated" => \A f \in Sources : disk[f] = disk["checksum"]
      BY <1>t DEF SyncIsKept, WrittenBy, Sources
    <3>3. phase = "current" => ~pending
      BY <1>t DEF SyncIsKept
    <3>4. phase = "current" /\ "files" \notin failed => \A f \in Sources : disk[f] = disk["checksum"]
      BY <1>t, <3>3 DEF SyncIsKept, SourcesRest
    <3>5. SyncIsKept'
      BY <2>1, <2>2, <2>3, <3>2, <3>4
         DEF SyncIsKept, Sync!Resting, SourcesRest, BuildRests, WrittenBy
    <3> QED
      BY <3>1, <3>5 DEF SyncInv
  <2>4. CASE phase = "current" /\ Sync!Succeeds /\ told' = got
    <3>1. phase' \in {"idle", "linked", "stopped"} /\ Sync!SyncTypeOK'
      BY <1>t, <2>1, <2>2, <2>4, SucceedsType DEF Sync!SyncTypeOK, Sync!Phases
    <3>2. ~pending
      BY <1>t, <2>4 DEF SyncIsKept
    <3>3. SyncIsKept'
      BY <1>t, <2>1, <2>2, <2>4, <3>1, <3>2
         DEF SyncIsKept, Sync!Resting, SourcesRest, BuildRests
    <3> QED
      BY <3>1, <3>3 DEF SyncInv
  <2> QED
    BY <1>9, <2>3, <2>4 DEF Sync!DecidesToBuild
<1>10. CASE Sync!WritesManifest
  <2>1. /\ phase = "manifest" /\ disk' = [disk EXCEPT !["manifest"] = got] /\ phase' = "build"
        /\ UNCHANGED <<options, served, pending, etag, got, attempt, command, told, failed>>
    BY <1>10 DEF Sync!WritesManifest
  <2>2. got \in Schemas /\ disk["checksum"] = got /\ ~pending
    BY <1>t, <2>1 DEF SyncIsKept, WrittenBy
  <2>3. disk' \in [Sync!Files -> Schemas \cup {Nothing}]
        /\ \A g \in Sync!Files \ {"manifest"} : disk'[g] = disk[g]
    BY <1>t, <2>1, <2>2 DEF Sync!SyncTypeOK
  <2>4. Sync!SyncTypeOK'
    BY <1>t, <2>1, <2>3 DEF Sync!SyncTypeOK, Sync!Phases
  <2>5. \A g \in Sources : disk'[g] = disk[g]
    BY <1>f, <2>3
  <2>6. disk'["checksum"] = disk["checksum"]
    BY <2>5 DEF Sources
  <2>7. SyncIsKept'
    BY <1>t, <2>1, <2>2, <2>5, <2>6
       DEF SyncIsKept, Sync!Resting, SourcesRest, BuildRests, WrittenBy
  <2> QED
    BY <2>4, <2>7 DEF SyncInv
<1>11. CASE Sync!Builds
  <2>1. /\ phase = "build" /\ disk' = [disk EXCEPT !["dist"] = Sync!Built]
        /\ told' = got /\ failed' = failed \ {"build"} /\ Sync!Succeeds
        /\ UNCHANGED <<options, served, pending, etag, got>>
    BY <1>11 DEF Sync!Builds
  <2>2. got \in Schemas /\ disk["checksum"] = got /\ ~pending
    BY <1>t, <2>1 DEF SyncIsKept, WrittenBy
  <2>3. Sync!Built \in Schemas \cup {Nothing}
    BY <1>t, <1>f DEF Sync!Built, Sync!SyncTypeOK, Sources
  <2>4. /\ disk' \in [Sync!Files -> Schemas \cup {Nothing}] /\ disk'["dist"] = Sync!Built
        /\ \A g \in Sync!Files \ {"dist"} : disk'[g] = disk[g]
    BY <1>t, <1>f, <2>1, <2>3 DEF Sync!SyncTypeOK
  <2>5. phase' \in {"idle", "linked", "stopped"} /\ Sync!SyncTypeOK'
    BY <1>t, <2>1, <2>2, <2>4, SucceedsType DEF Sync!SyncTypeOK, Sync!Phases
  <2>6. \A g \in Sources : disk'[g] = disk[g]
    BY <1>f, <2>4
  <2>7. "files" \notin failed => \A f \in Sources : disk[f] = disk["checksum"]
    BY <1>t, <2>1, <2>2 DEF SyncIsKept, SourcesRest
  <2>8. "files" \notin failed => Sync!Built = disk["checksum"]
    BY <2>7 DEF Sync!Built, Sources
  <2>9. disk'["checksum"] = disk["checksum"]
    BY <2>6 DEF Sources
  <2>10. failed' = {} => "files" \notin failed
    BY <2>1
  <2>11. SyncIsKept'
    BY <2>1, <2>2, <2>4, <2>5, <2>6, <2>7, <2>8, <2>9, <2>10
       DEF SyncIsKept, Sync!Resting, SourcesRest, BuildRests
  <2> QED
    BY <2>5, <2>11 DEF SyncInv
<1>12. ASSUME NEW f \in {"manifest", "dist"}, Sync!BuildFails(f) PROVE SyncInv'
  <2>1. /\ phase \in {"manifest", "build"} /\ disk' \in Sync!Damaged(f)
        /\ failed' = failed \cup {"build"} /\ Sync!Retries(FALSE)
        /\ UNCHANGED <<options, served, pending, etag, got, command>>
    BY <1>12 DEF Sync!BuildFails
  <2>2. /\ attempt' \in [n : 0..MaxAttempts - 1, resetApplied : BOOLEAN]
        /\ phase' \in {"idle", "stopped", "execute"}
        /\ \/ phase' = "execute" /\ told' = told
           \/ told' = Nothing
    BY <1>t, <2>1, RetriesType
  <2>3. disk' \in [Sync!Files -> Schemas \cup {Nothing}] /\ \A g \in Sources : disk'[g] = disk[g]
    BY <1>t, <1>f, <2>1, DamagedType
  <2>4. Sync!SyncTypeOK'
    BY <1>t, <2>1, <2>2, <2>3 DEF Sync!SyncTypeOK, Sync!Phases
  <2>5. SyncIsKept'
    BY <2>1, <2>2, <2>3, Damages DEF SourcesRest
  <2> QED
    BY <2>4, <2>5 DEF SyncInv
<1>13. CASE Sync!Ticks
  <2>1. phase = "idle" /\ phase' = "execute"
        /\ UNCHANGED <<options, served, disk, pending, etag, got, attempt, command, told, failed>>
    BY <1>13 DEF Sync!Ticks
  <2>2. Sync!SyncTypeOK'
    BY <1>t, <2>1 DEF Sync!SyncTypeOK, Sync!Phases
  <2>3. SyncIsKept'
    BY <2>1, NothingWritten DEF BuildRests
  <2> QED
    BY <2>2, <2>3 DEF SyncInv
<1>14. CASE Sync!Exits
  <2>1. /\ phase' = "stopped" /\ disk' \in Sync!Underway
        /\ command' = (IF command = "running" THEN "exited" ELSE command)
        /\ UNCHANGED <<options, served, pending, etag, got, attempt, told, failed>>
    BY <1>14 DEF Sync!Exits
  <2>2. disk' \in [Sync!Files -> Schemas \cup {Nothing}]
    <3>1. CASE phase \in Sync!Written \cup {"manifest"}
      <4>1. disk' \in Sync!Damaged(phase) /\ phase \in Sync!Files
        BY <1>f, <2>1, <3>1 DEF Sync!Underway, Sync!Written
      <4> QED
        BY <1>t, <4>1, DamagedType
    <3>2. CASE phase = "build"
      <4>1. disk' \in Sync!Damaged("dist")
        BY <2>1, <3>2 DEF Sync!Underway, Sync!Written
      <4> QED
        BY <1>t, <1>f, <4>1, DamagedType
    <3>3. CASE phase \notin Sync!Written \cup {"manifest"} /\ phase # "build"
      <4>1. disk' = disk
        BY <2>1, <3>3 DEF Sync!Underway
      <4> QED
        BY <1>t, <4>1 DEF Sync!SyncTypeOK
    <3> QED
      BY <3>1, <3>2, <3>3
  <2>3. Sync!SyncTypeOK'
    BY <1>t, <2>1, <2>2 DEF Sync!SyncTypeOK, Sync!Phases
  <2>4. SyncIsKept'
    BY <2>1 DEF SyncIsKept, Sync!Resting, SourcesRest, BuildRests
  <2> QED
    BY <2>3, <2>4 DEF SyncInv
<1>15. CASE Sync!Starts
  <2>1. /\ phase' = "execute" /\ pending' = TRUE /\ told' = Nothing /\ failed' = {}
        /\ attempt' = Sync!First /\ command' = "none" /\ etag' = Nothing /\ got' = Nothing
        /\ UNCHANGED <<options, served, disk>>
    BY <1>15 DEF Sync!Starts
  <2>2. Sync!SyncTypeOK'
    BY <1>t, <2>1, SyncConstantsHold DEF Sync!SyncTypeOK, Sync!Phases, Sync!First
  <2>3. SyncIsKept'
    BY <2>1 DEF SyncIsKept, Sync!Resting
  <2> QED
    BY <2>2, <2>3 DEF SyncInv
<1>16. ASSUME NEW s \in Schemas, Sync!SchemaChanges(s) PROVE SyncInv'
  <2>1. served' = s
        /\ UNCHANGED <<options, disk, phase, pending, etag, got, attempt, command, told, failed>>
    BY <1>16 DEF Sync!SchemaChanges
  <2>2. Sync!SyncTypeOK'
    BY <1>t, <2>1 DEF Sync!SyncTypeOK
  <2>3. SyncIsKept'
    BY <1>t, <2>1 DEF SyncIsKept, Sync!Resting
  <2> QED
    BY <2>2, <2>3 DEF SyncInv
<1> QED
  BY <1>1, <1>2, <1>3, <1>4, <1>5, <1>6, <1>7, <1>8, <1>9, <1>10, <1>11, <1>12, <1>13, <1>14,
     <1>15, <1>16
     DEF Sync!SyncNext, Sync!Steps, Sync!GetsSchema, Sync!AnotherGetsSchema

LEMMA SyncInvariant == MCSpec => []SyncInv
<1>1. MCInit => SyncInv
  BY SyncInitially DEF MCInit
<1>2. SyncInv /\ [MCNext]_<<part, hookVars, serverVars, syncVars>> => SyncInv'
  <2> SUFFICES ASSUME SyncInv, [MCNext]_<<part, hookVars, serverVars, syncVars>> PROVE SyncInv'
    OBVIOUS
  <2>1. CASE Sync!SyncNext
    BY <2>1, SyncStep
  <2>2. CASE UNCHANGED syncVars
    BY <2>2 DEF syncVars, SyncInv, Sync!SyncTypeOK, SyncIsKept, Sync!Resting
  <2> QED
    BY <2>1, <2>2 DEF MCNext
<1> QED
  BY <1>1, <1>2, PTL DEF MCSpec

(* Whatever failed, and whatever the process was doing when it was killed,
   run() leaves files of one schema behind when a tick succeeds, the one the
   server told it, and asks with the checksum of that one.                 *)
THEOREM WhatIsSyncedIsWhole == MCSpec => []SyncedIsWhole
<1>1. SyncInv => SyncedIsWhole
  <2> SUFFICES ASSUME SyncInv PROVE SyncedIsWhole
    OBVIOUS
  <2>1. Sync!Files \ {"manifest"} = Sources \cup {"dist"}
    BY DEF Sync!Files, Sync!Written, Sources
  <2>2. Sync!SyncedIsWhole
    BY <2>1 DEF SyncInv, SyncIsKept, Sync!SyncedIsWhole, Sync!Resting, SourcesRest, BuildRests
  <2> QED
    BY <2>2 DEF SyncedIsWhole, SyncInv
<1> QED
  BY <1>1, SyncInvariant, PTL

-----------------------------------------------------------------------------
(* The dead-letter module.  A letter is an event it has, in whatever stage; *)
(* one that was received has been received before, one that was sent has an *)
(* id of its own, and it failed for good when its attempts are used up.     *)

RunSet == [id : Requests, attempts : Nat, replay : BOOLEAN,
           phase : {"received", "executing", "publishing"}, topics : Seq(TopicNames)]

LetterSet == [id : Requests \cup EventIds, attempts : 1..maxAttempts,
              replayAs : {"receiving", "sending"}, by : Clients \cup {Server},
              status : {"receiving", "sending", "failed"}]

LetterOk(e) ==
    /\ e \in LetterSet
    /\ e.status = "receiving" => e.id \in Requests \cap arrived
    /\ e.status = "sending" => e.id \in EventIds
    /\ e.status = "failed" <=> e.attempts >= maxAttempts

LettersAreSound ==
    /\ maxAttempts \in Nat \ {0}
    /\ \A e \in storing \cup stored \cup ready \cup replaying : LetterOk(e)
    /\ \A e \in ready \cup replaying : e.status # "failed"
    /\ ticker \in BOOLEAN /\ tick \in {"idle", "counting", "loading", "replaying"}
    /\ rejections \in 0..MaxRejections

RunsAreSound ==
    /\ runs \subseteq RunSet
    /\ \A r \in runs : r.attempts < maxAttempts /\ r.id \in arrived
    /\ open \subseteq connected /\ connected \subseteq Clients
    /\ executions \in [Requests -> 0..MaxExecutions]

OneEach(es) == \A e, f \in es : e.id = f.id => e = f

(* What a tick has counted stays in the store until it is loaded, and the
   replays that run are those the tick waits for.                          *)
TicksInOrder ==
    /\ OneEach(stored) /\ OneEach(ready) /\ OneEach(replaying)
    /\ ReplaysHaveATick
    /\ tick \in {"idle", "replaying"} => ready = {}
    /\ tick = "counting" => IdsOf(ready) \subseteq IdsOf(stored)
    /\ \A r \in runs : r.replay => r.id \in IdsOf(replaying)
    /\ \A r, s \in runs : r.replay /\ s.replay /\ r.id = s.id => r = s

(* A replay that ends well is not needed any more: what failed after its
   operation had succeeded was reported again.                             *)
OwedIsKept ==
    /\ \A o \in owed : o = [id |-> o.id, by |-> o.by] /\ (o.id \in Requests => o.by = Server)
    /\ FailuresAreKept
    /\ \A r \in runs, o \in owed :
          r.replay /\ r.phase = "publishing" /\ o.id = r.id
          => o.id \in IdsOf(storing \cup stored) \cup lost

ServerInv == LettersAreSound /\ RunsAreSound /\ TicksInOrder /\ OwedIsKept

(* What is reported: a request, or an event that was emitted. *)
ReportSet == [id : Requests \cup EventIds, attempts : Nat,
              replayAs : {"receiving", "sending"}, by : Clients \cup {Server}]

ReportOk(e) ==
    /\ e \in ReportSet /\ e.attempts < maxAttempts
    /\ e.replayAs = "receiving" => e.id \in Requests \cap arrived
    /\ e.replayAs = "sending" => e.id \in EventIds

LEMMA LettersStay ==
    ASSUME arrived \subseteq arrived', UNCHANGED maxAttempts
    PROVE  \A e : LetterOk(e) => LetterOk(e)'
  BY DEF LetterOk, LetterSet

LEMMA BrokenIsALetter ==
    ASSUME LettersAreSound, NEW e, ReportOk(e)
    PROVE  LetterOk(Broken(e)) /\ Broken(e).id = e.id
<1>1. maxAttempts \in Nat \ {0} /\ e.attempts \in Nat /\ e.attempts < maxAttempts
  BY DEF LettersAreSound, ReportOk, ReportSet
<1>2. e.attempts + 1 \in 1..maxAttempts
  BY <1>1
<1> DEFINE n == e.attempts + 1
           s == IF n >= maxAttempts THEN "failed" ELSE e.replayAs
<1>3. Broken(e) = [id |-> e.id, attempts |-> n, replayAs |-> e.replayAs, by |-> e.by, status |-> s]
  BY DEF Broken
<1>4. s \in {"receiving", "sending", "failed"} /\ (s = "failed" <=> n >= maxAttempts)
      /\ (s = "receiving" => e.replayAs = "receiving") /\ (s = "sending" => e.replayAs = "sending")
  BY DEF ReportOk, ReportSet
<1>5. e.id \in Requests \cup EventIds /\ e.replayAs \in {"receiving", "sending"}
      /\ e.by \in Clients \cup {Server}
  BY DEF ReportOk, ReportSet
<1> HIDE DEF n, s
<1>6. Broken(e) \in LetterSet
  BY <1>2, <1>3, <1>4, <1>5 DEF LetterSet, n
<1>7. Broken(e).id = e.id /\ Broken(e).status = s /\ Broken(e).attempts = n
  BY <1>3
<1> QED
  BY <1>4, <1>6, <1>7 DEF LetterOk, ReportOk

(* What a step has to say of the id of what failed in it, if anything did. *)
Told(id) ==
    /\ ticker' \in BOOLEAN /\ storing \subseteq storing'
    /\ \A e \in storing' : e \in storing \/ LetterOk(e)
    /\ \A o \in owed' : \/ o \in owed
                        \/ /\ o = [id |-> id, by |-> o.by]
                           /\ id \in Requests => o.by = Server
                           /\ id \in IdsOf(storing')

LEMMA ReportsTell ==
    ASSUME LettersAreSound, NEW es, Report(es), \A e \in es : ReportOk(e)
    PROVE  /\ ticker' \in BOOLEAN /\ storing \subseteq storing'
           /\ \A e \in storing' : e \in storing \/ LetterOk(e)
           /\ IdsOf(es) \subseteq IdsOf(storing')
<1>1. ticker' \in BOOLEAN /\ storing' = storing \cup {Broken(e) : e \in es}
  BY DEF Report
<1>2. \A e \in es : LetterOk(Broken(e)) /\ Broken(e).id = e.id
  BY BrokenIsALetter
<1>3. ASSUME NEW e \in es PROVE e.id \in IdsOf(storing')
  <2>1. Broken(e) \in storing' /\ Broken(e).id = e.id
    BY <1>1, <1>2
  <2> QED
    BY <2>1 DEF IdsOf
<1>4. IdsOf(es) \subseteq IdsOf(storing')
  BY <1>3 DEF IdsOf
<1> QED
  BY <1>1, <1>2, <1>4

LEMMA QuietTells == LettersAreSound /\ Quiet => \A id : Told(id)
  BY DEF LettersAreSound, Quiet, Told

LEMMA RunMeaning ==
    ASSUME RunsAreSound, NEW r \in runs
    PROVE  r \in RunSet /\ r.id \in Requests \cap arrived /\ r.attempts \in Nat
           /\ r.attempts < maxAttempts /\ executions[r.id] \in 0..MaxExecutions
           /\ r.id \notin EventIds
  BY ServiceAssumption DEF RunsAreSound, RunSet

LEMMA FailsTells ==
    ASSUME LettersAreSound, RunsAreSound, NEW r \in runs, Fails(r)
    PROVE  Told(r.id) /\ r.id \in IdsOf(storing')
<1>1. ReportOk(Received(r)) /\ Received(r).id = r.id
  BY RunMeaning DEF ReportOk, ReportSet, Received
<1>2. Report({Received(r)}) /\ owed' = owed \cup {[id |-> r.id, by |-> Server]}
  BY DEF Fails
<1>3. /\ ticker' \in BOOLEAN /\ storing \subseteq storing'
      /\ \A e \in storing' : e \in storing \/ LetterOk(e)
      /\ IdsOf({Received(r)}) \subseteq IdsOf(storing')
  BY <1>1, <1>2, ReportsTell
<1>4. r.id \in IdsOf(storing')
  BY <1>1, <1>3 DEF IdsOf
<1> QED
  BY <1>2, <1>3, <1>4 DEF Told

LEMMA SendsTells ==
    ASSUME LettersAreSound, RunsAreSound, NEW e, ReportOk(e), e.id \in EventIds, Sends(e)
    PROVE  Told(e.id) /\ \A o \in owed' : o.id = e.id => e.id \in IdsOf(storing')
<1>1. PICK u \in BOOLEAN, f \in SUBSET (connected \cap open) : Send(e, u, f)
  BY DEF Sends
<1> DEFINE es == {[e EXCEPT !.by = c] : c \in f} \cup {g \in {e} : u}
           to == IF u THEN connected \cap open ELSE f
<1>2. /\ Report(es) /\ (u => f = {})
      /\ owed' = {o \in owed : o.id # e.id} \cup {[id |-> e.id, by |-> c] : c \in to}
  BY <1>1 DEF Send
<1>3. e \in ReportSet /\ f \subseteq Clients
  BY DEF ReportOk, RunsAreSound
<1>4. ASSUME NEW c \in Clients
      PROVE  ReportOk([e EXCEPT !.by = c]) /\ [e EXCEPT !.by = c].id = e.id
  BY <1>3 DEF ReportOk, ReportSet
<1>5. ASSUME NEW g \in es PROVE ReportOk(g) /\ g.id = e.id
  <2>1. CASE g = e
    BY <2>1
  <2>2. CASE \E c \in f : g = [e EXCEPT !.by = c]
    BY <1>3, <1>4, <2>2
  <2> QED
    BY <2>1, <2>2
<1>6. to # {} => es # {}
  BY <1>2
<1> HIDE DEF es
<1>7. /\ ticker' \in BOOLEAN /\ storing \subseteq storing'
      /\ \A x \in storing' : x \in storing \/ LetterOk(x)
      /\ IdsOf(es) \subseteq IdsOf(storing')
  BY <1>2, <1>5, ReportsTell
<1>8. to # {} => e.id \in IdsOf(storing')
  BY <1>5, <1>6, <1>7 DEF IdsOf
<1> HIDE DEF to
<1>9. e.id \notin Requests
  BY ServiceAssumption
<1>10. \A o \in owed' : \/ o \in owed /\ o.id # e.id
                        \/ o = [id |-> e.id, by |-> o.by] /\ e.id \in IdsOf(storing')
  BY <1>2, <1>8
<1> QED
  BY <1>7, <1>9, <1>10 DEF Told

LEMMA EmittedIsReportable ==
    ASSUME RunsAreSound, NEW r \in runs, NEW what \in TopicNames \cup {"answer"}
    PROVE  ReportOk(Emitted(r, what)) /\ Emitted(r, what).id \in EventIds
<1>1. r.id \in Requests /\ r.attempts \in Nat /\ r.attempts < maxAttempts
      /\ executions[r.id] \in 0..MaxExecutions
  BY RunMeaning
<1>2. <<r.id, executions[r.id], what>> \in EventIds
  BY <1>1 DEF EventIds
<1> QED
  BY <1>1, <1>2 DEF Emitted, Sending, ReportOk, ReportSet

-----------------------------------------------------------------------------
(* The steps of runs *)

LEMMA RunGoesOn ==
    ASSUME ServerInv, NEW r \in runs, NEW s \in RunSet, NEW id, Told(id), Becomes(r, s),
           s.id = r.id, s.attempts = r.attempts, s.replay = r.replay,
           s.phase = "publishing" =>
               r.phase = "publishing" \/ \A o \in owed' : o.id # r.id,
           executions' \in [Requests -> 0..MaxExecutions],
           UNCHANGED <<connected, open, arrived>>
    PROVE  ServerInv'
<1>1. /\ runs' = (runs \ {r}) \cup {s}
      /\ UNCHANGED <<stored, tick, ready, replaying, rejections, lost, maxAttempts>>
  BY DEF Becomes
<1>2. LettersAreSound'
  <2>1. \A e \in storing' \cup stored' \cup ready' \cup replaying' : LetterOk(e)
    BY <1>1 DEF ServerInv, LettersAreSound, Told
  <2>2. \A e : LetterOk(e) => LetterOk(e)'
    BY <1>1, LettersStay
  <2>3. ticker' \in BOOLEAN
    BY DEF Told
  <2> QED
    BY <1>1, <2>1, <2>2, <2>3 DEF ServerInv, LettersAreSound
<1>3. RunsAreSound'
  BY <1>1 DEF ServerInv, RunsAreSound
<1>4. TicksInOrder'
  BY <1>1 DEF ServerInv, TicksInOrder, ReplaysHaveATick
<1>5. OwedIsKept'
  <2>1. IdsOf(storing) \subseteq IdsOf(storing')
    BY DEF Told, IdsOf
  <2>2. \A o \in owed' : o = [id |-> o.id, by |-> o.by] /\ (o.id \in Requests => o.by = Server)
    BY DEF ServerInv, OwedIsKept, Told
  <2>3. \A o \in owed' : o \in owed \/ o.id \in IdsOf(storing')
    BY DEF Told
  <2>4. FailuresAreKept'
    BY <1>1, <2>1, <2>3 DEF ServerInv, OwedIsKept, FailuresAreKept, Kept, IdsOf
  <2>5. ASSUME NEW p \in runs', NEW o \in owed', p.replay, p.phase = "publishing", o.id = p.id
        PROVE  o.id \in IdsOf(storing' \cup stored') \cup lost'
    <3>1. CASE o.id \in IdsOf(storing')
      BY <3>1 DEF IdsOf
    <3>2. CASE o \in owed
      <4>1. \E q \in runs : q.replay /\ q.phase = "publishing" /\ o.id = q.id
        BY <1>1, <2>5
      <4>2. o.id \in IdsOf(storing \cup stored) \cup lost
        BY <3>2, <4>1 DEF ServerInv, OwedIsKept
      <4> QED
        BY <1>1, <2>1, <4>2 DEF IdsOf
    <3> QED
      BY <2>3, <3>1, <3>2
  <2> QED
    BY <2>2, <2>4, <2>5 DEF OwedIsKept
<1> QED
  BY <1>2, <1>3, <1>4, <1>5 DEF ServerInv

(* The end of a replay leaves the tick in order. *)
LEMMA ReplayEnds ==
    ASSUME TicksInOrder, NEW id, id \in IdsOf(replaying), EndReplay(id)
    PROVE  /\ replaying' = {e \in replaying : e.id # id}
           /\ OneEach(replaying') /\ OneEach(stored') /\ OneEach(ready')
           /\ ReplaysHaveATick' /\ tick' \in {"idle", "replaying"} /\ ready' = {}
           /\ UNCHANGED <<stored, ready, rejections, lost, maxAttempts>>
<1>1. /\ replaying' = {e \in replaying : e.id # id}
      /\ tick' = IF replaying' = {} THEN "idle" ELSE tick
      /\ UNCHANGED <<stored, ready, rejections, lost, maxAttempts>>
  BY DEF EndReplay
<1>2. tick = "replaying"
  BY DEF TicksInOrder, ReplaysHaveATick, IdsOf
<1>3. ready = {} /\ OneEach(replaying) /\ OneEach(stored) /\ OneEach(ready)
  BY <1>2 DEF TicksInOrder
<1>4. OneEach(replaying') /\ OneEach(stored') /\ OneEach(ready')
  BY <1>1, <1>3 DEF OneEach
<1>5. ReplaysHaveATick' /\ tick' \in {"idle", "replaying"}
  BY <1>1, <1>2 DEF ReplaysHaveATick
<1> QED
  BY <1>1, <1>3, <1>4, <1>5

LEMMA RunEnds ==
    ASSUME ServerInv, NEW r \in runs, NEW id, Told(id), Ends(r),
           r.replay => \A o \in owed' : o.id = r.id => r.id \in IdsOf(storing' \cup stored) \cup lost,
           UNCHANGED <<connected, open, arrived, executions>>
    PROVE  ServerInv'
<1>1. runs' = runs \ {r} /\ UNCHANGED <<stored, ready, rejections, lost, maxAttempts>>
  BY DEF Ends, EndReplay
<1>2. /\ replaying' = (IF r.replay THEN {e \in replaying : e.id # r.id} ELSE replaying)
      /\ TicksInOrder'
  <2>1. CASE r.replay
    <3>1. EndReplay(r.id) /\ r.id \in IdsOf(replaying) /\ TicksInOrder
      BY <2>1 DEF Ends, ServerInv, TicksInOrder
    <3>2. /\ replaying' = {e \in replaying : e.id # r.id}
          /\ OneEach(replaying') /\ OneEach(stored') /\ OneEach(ready')
          /\ ReplaysHaveATick' /\ tick' \in {"idle", "replaying"} /\ ready' = {}
      BY <3>1, ReplayEnds
    <3>3. \A p \in runs' : p.replay => p.id \in IdsOf(replaying')
      BY <1>1, <2>1, <3>1, <3>2 DEF TicksInOrder, IdsOf
    <3>4. \A p, q \in runs' : p.replay /\ q.replay /\ p.id = q.id => p = q
      BY <1>1, <3>1 DEF TicksInOrder
    <3> QED
      BY <2>1, <3>2, <3>3, <3>4 DEF TicksInOrder
  <2>2. CASE ~r.replay
    <3>1. UNCHANGED <<tick, ready, stored, replaying>>
      BY <2>2 DEF Ends
    <3> QED
      BY <1>1, <2>2, <3>1 DEF ServerInv, TicksInOrder, ReplaysHaveATick
  <2> QED
    BY <2>1, <2>2
<1>3. LettersAreSound'
  <2>1. \A e \in storing' \cup stored' \cup ready' \cup replaying' : LetterOk(e)
    BY <1>1, <1>2 DEF ServerInv, LettersAreSound, Told
  <2>2. \A e : LetterOk(e) => LetterOk(e)'
    BY <1>1, LettersStay
  <2>3. ticker' \in BOOLEAN /\ tick' \in {"idle", "counting", "loading", "replaying"}
    BY DEF Told, Ends, EndReplay, ServerInv, LettersAreSound
  <2> QED
    BY <1>1, <1>2, <2>1, <2>2, <2>3 DEF ServerInv, LettersAreSound
<1>4. RunsAreSound'
  BY <1>1 DEF ServerInv, RunsAreSound
<1>5. OwedIsKept'
  <2>1. IdsOf(storing) \subseteq IdsOf(storing')
    BY DEF Told, IdsOf
  <2>2. \A o \in owed' : o = [id |-> o.id, by |-> o.by] /\ (o.id \in Requests => o.by = Server)
    BY DEF ServerInv, OwedIsKept, Told
  <2>3. \A o \in owed' : o \in owed \/ o.id \in IdsOf(storing')
    BY DEF Told
  <2>4. ASSUME NEW o \in owed' PROVE o.id \in Kept' \cup lost'
    <3>1. CASE o.id \in IdsOf(storing')
      BY <3>1 DEF Kept, IdsOf
    <3>2. CASE r.replay /\ o.id = r.id
      BY <1>1, <3>2 DEF Kept, IdsOf
    <3>3. CASE o \in owed /\ ~(r.replay /\ o.id = r.id)
      <4>1. o.id \in Kept \cup lost
        BY <3>3 DEF ServerInv, OwedIsKept, FailuresAreKept
      <4>2. o.id \in IdsOf(replaying) => o.id \in IdsOf(replaying')
        BY <1>2, <3>3 DEF IdsOf
      <4> QED
        BY <1>1, <2>1, <4>1, <4>2 DEF Kept, IdsOf
    <3> QED
      BY <2>3, <3>1, <3>2, <3>3
  <2>5. ASSUME NEW p \in runs', NEW o \in owed', p.replay, p.phase = "publishing", o.id = p.id
        PROVE  o.id \in IdsOf(storing' \cup stored') \cup lost'
    <3>1. CASE o.id \in IdsOf(storing')
      BY <3>1 DEF IdsOf
    <3>2. CASE o \in owed
      <4>1. o.id \in IdsOf(storing \cup stored) \cup lost
        BY <1>1, <2>5, <3>2 DEF ServerInv, OwedIsKept
      <4> QED
        BY <1>1, <2>1, <4>1 DEF IdsOf
    <3> QED
      BY <2>3, <3>1, <3>2
  <2> QED
    BY <2>2, <2>4, <2>5 DEF OwedIsKept, FailuresAreKept
<1> QED
  BY <1>2, <1>3, <1>4, <1>5 DEF ServerInv

-----------------------------------------------------------------------------
(* The steps of the dead-letter module *)

(* A step that ends no run and tells nothing new of what failed: what it
   must show is that the letters and the tick stay in order, and that what
   was kept is kept.                                                       *)
LEMMA LettersMove ==
    ASSUME ServerInv, TicksInOrder', UNCHANGED <<maxAttempts, serviceVars>>,
           storing' \subseteq storing, stored' \subseteq stored \cup storing,
           ready' \subseteq ready \cup Pending, replaying' \subseteq replaying \cup ready,
           ticker' \in BOOLEAN, tick' \in {"idle", "counting", "loading", "replaying"},
           rejections' \in 0..MaxRejections, lost \subseteq lost',
           Kept \subseteq Kept' \cup lost',
           IdsOf(storing \cup stored) \subseteq IdsOf(storing' \cup stored') \cup lost'
                \/ \A r \in runs : ~r.replay
    PROVE  ServerInv'
<1>1. LettersAreSound'
  <2>1. /\ \A e \in storing' \cup stored' \cup ready' \cup replaying' : LetterOk(e)
        /\ \A e \in ready' \cup replaying' : e.status # "failed"
    BY DEF ServerInv, LettersAreSound, Pending
  <2>2. \A e : LetterOk(e) => LetterOk(e)'
    BY LettersStay DEF serviceVars
  <2> QED
    BY <2>1, <2>2 DEF ServerInv, LettersAreSound
<1>2. RunsAreSound'
  BY DEF ServerInv, RunsAreSound, serviceVars
<1>3. OwedIsKept'
  BY DEF ServerInv, OwedIsKept, FailuresAreKept, serviceVars
<1> QED
  BY <1>1, <1>2, <1>3 DEF ServerInv

LEMMA StoresStep ==
    ASSUME ServerInv, NEW e \in storing, Stores(e), UNCHANGED serviceVars
    PROVE  ServerInv'
<1>1. /\ storing' = storing \ {e} /\ stored' = {f \in stored : f.id # e.id} \cup {e}
      /\ UNCHANGED <<ticker, tick, ready, replaying, rejections, lost, maxAttempts>>
  BY DEF Stores
<1>2. OneEach(stored') /\ IdsOf(stored) \subseteq IdsOf(stored')
      /\ IdsOf(storing \cup stored) \subseteq IdsOf(storing' \cup stored')
  <2>1. OneEach(stored')
    BY <1>1 DEF ServerInv, TicksInOrder, OneEach
  <2>2. ASSUME NEW f \in storing \cup stored
        PROVE  \/ f \in storing' \/ f.id \in IdsOf(stored')
    BY <1>1 DEF IdsOf
  <2>3. ASSUME NEW f \in stored PROVE f.id \in IdsOf(stored')
    BY <1>1 DEF IdsOf
  <2> QED
    BY <2>1, <2>2, <2>3 DEF IdsOf
<1>3. TicksInOrder'
  BY <1>1, <1>2 DEF ServerInv, TicksInOrder, ReplaysHaveATick, OneEach, serviceVars
<1>4. Kept \subseteq Kept'
  BY <1>1, <1>2 DEF Kept, IdsOf
<1> QED
  BY <1>1, <1>2, <1>3, <1>4, LettersMove DEF ServerInv, LettersAreSound

LEMMA StoreRejectsStep ==
    ASSUME ServerInv, NEW e \in storing, StoreRejects(e), UNCHANGED serviceVars
    PROVE  ServerInv'
<1>1. /\ rejections < MaxRejections /\ rejections' = rejections + 1
      /\ storing' = storing \ {e} /\ lost' = lost \cup {e.id}
      /\ UNCHANGED <<stored, ticker, tick, ready, replaying, maxAttempts>>
  BY DEF StoreRejects
<1>2. TicksInOrder'
  BY <1>1 DEF ServerInv, TicksInOrder, ReplaysHaveATick, OneEach, serviceVars
<1>3. Kept \subseteq Kept' \cup lost'
      /\ IdsOf(storing \cup stored) \subseteq IdsOf(storing' \cup stored') \cup lost'
  BY <1>1 DEF Kept, IdsOf
<1>4. rejections' \in 0..MaxRejections
  BY <1>1, QueueAssumption DEF ServerInv, LettersAreSound
<1> QED
  BY <1>1, <1>2, <1>3, <1>4, LettersMove DEF ServerInv, LettersAreSound

LEMMA TickStep ==
    ASSUME ServerInv, TickerFires \/ NothingPending \/ CallbackRejects, UNCHANGED serviceVars
    PROVE  ServerInv'
<1>1. /\ storing' = storing /\ stored' = stored /\ replaying' = replaying
      /\ lost' = lost /\ maxAttempts' = maxAttempts /\ ticker' \in BOOLEAN
      /\ ready' \in {ready, Pending, {}} /\ tick' \in {"idle", "counting"}
      /\ tick' = "idle" => ready' = {}
      /\ tick' = "counting" => ready' = Pending
      /\ tick \in {"idle", "counting"}
  BY DEF TickerFires, NothingPending, CallbackRejects, ServerInv, LettersAreSound
<1>2. rejections' \in 0..MaxRejections
  BY QueueAssumption DEF TickerFires, NothingPending, CallbackRejects, ServerInv, LettersAreSound
<1>3. replaying = {} /\ ~(tick = "replaying")
  BY <1>1 DEF ServerInv, TicksInOrder, ReplaysHaveATick
<1>4. TicksInOrder'
  <2>1. OneEach(ready')
    BY <1>1 DEF ServerInv, TicksInOrder, OneEach, Pending
  <2>2. OneEach(stored') /\ OneEach(replaying') /\ ReplaysHaveATick'
    BY <1>1, <1>3 DEF ServerInv, TicksInOrder, OneEach, ReplaysHaveATick
  <2>3. tick' = "counting" => IdsOf(ready') \subseteq IdsOf(stored')
    BY <1>1 DEF IdsOf, Pending
  <2>4. /\ \A r \in runs' : r.replay => r.id \in IdsOf(replaying')
        /\ \A r, s \in runs' : r.replay /\ s.replay /\ r.id = s.id => r = s
    BY <1>1 DEF ServerInv, TicksInOrder, serviceVars, IdsOf
  <2> QED
    BY <1>1, <2>1, <2>2, <2>3, <2>4 DEF TicksInOrder
<1>5. ASSUME NEW o \in Kept PROVE o \in Kept'
  <2>1. o \in IdsOf(storing \cup stored \cup replaying) \/ o \in IdsOf(ready)
    BY DEF Kept, IdsOf
  <2>2. IdsOf(ready) \subseteq IdsOf(stored)
    BY <1>1 DEF ServerInv, TicksInOrder, IdsOf
  <2> QED
    BY <1>1, <2>1, <2>2 DEF Kept, IdsOf
<1> QED
  BY <1>1, <1>2, <1>4, <1>5, LettersMove

LEMMA LoadStep ==
    ASSUME ServerInv, Load, UNCHANGED serviceVars
    PROVE  ServerInv'
<1>1. /\ tick = "counting" /\ tick' = "loading" /\ ready' = Pending /\ stored' = stored \ Pending
      /\ UNCHANGED <<storing, ticker, replaying, rejections, lost, maxAttempts>>
  BY DEF Load
<1>2. replaying = {} /\ \A r \in runs : ~r.replay
  BY <1>1 DEF ServerInv, TicksInOrder, ReplaysHaveATick, IdsOf
<1>3. TicksInOrder'
  <2>1. OneEach(ready') /\ OneEach(stored') /\ OneEach(replaying')
    BY <1>1 DEF ServerInv, TicksInOrder, OneEach, Pending
  <2> QED
    BY <1>1, <1>2, <2>1 DEF TicksInOrder, ReplaysHaveATick, serviceVars
<1>4. ASSUME NEW o \in Kept PROVE o \in Kept'
  <2>1. o \in IdsOf(storing \cup stored \cup replaying) \/ o \in IdsOf(ready)
    BY DEF Kept, IdsOf
  <2>2. IdsOf(ready) \subseteq IdsOf(stored)
    BY <1>1 DEF ServerInv, TicksInOrder
  <2>3. stored \subseteq stored' \cup ready'
    BY <1>1
  <2> QED
    BY <1>1, <2>1, <2>2, <2>3 DEF Kept, IdsOf
<1> QED
  BY <1>1, <1>2, <1>3, <1>4, LettersMove DEF ServerInv, LettersAreSound

LEMMA DlqStep == ServerInv /\ DlqCallbacks /\ UNCHANGED serviceVars => ServerInv'
  BY StoresStep, StoreRejectsStep, TickStep, LoadStep DEF DlqCallbacks

LEMMA ReplayStep ==
    ASSUME ServerInv, Replay
    PROVE  ServerInv'
<1> DEFINE begun == {Run(e.id, e.attempts, TRUE) : e \in {f \in ready : f.status = "receiving"}}
<1>1. /\ tick = "loading" /\ replaying' = ready /\ ready' = {}
      /\ tick' = (IF ready = {} THEN "idle" ELSE "replaying")
      /\ runs' = runs \cup begun
      /\ UNCHANGED <<stored, rejections, lost, maxAttempts, storing, ticker, connected, open,
                     arrived, executions, owed>>
  BY DEF Replay, StartReplays
<1>2. replaying = {} /\ \A r \in runs : ~r.replay
  BY <1>1 DEF ServerInv, TicksInOrder, ReplaysHaveATick, IdsOf
<1>3. \A r \in begun : \E e \in ready : e.status = "receiving" /\ r = Run(e.id, e.attempts, TRUE)
  OBVIOUS
<1>4. ASSUME NEW e \in ready, e.status = "receiving"
      PROVE  /\ Run(e.id, e.attempts, TRUE) \in RunSet /\ e.attempts < maxAttempts
             /\ e.id \in Requests \cap arrived
  <2>1. LetterOk(e) /\ maxAttempts \in Nat
    BY DEF ServerInv, LettersAreSound
  <2>2. e.attempts \in 1..maxAttempts /\ ~(e.attempts >= maxAttempts) /\ e.id \in Requests \cap arrived
    BY <1>4, <2>1 DEF LetterOk, LetterSet
  <2>3. <<>> \in Seq(TopicNames)
    OBVIOUS
  <2> QED
    BY <2>1, <2>2, <2>3 DEF Run, RunSet
<1> HIDE DEF begun
<1>5. LettersAreSound'
  <2>1. /\ \A e \in storing' \cup stored' \cup ready' \cup replaying' : LetterOk(e)
        /\ \A e \in ready' \cup replaying' : e.status # "failed"
    BY <1>1 DEF ServerInv, LettersAreSound
  <2>2. \A e : LetterOk(e) => LetterOk(e)'
    BY <1>1, LettersStay
  <2> QED
    BY <1>1, <2>1, <2>2 DEF ServerInv, LettersAreSound
<1>6. ASSUME NEW r \in begun
      PROVE  /\ r \in RunSet /\ r.attempts < maxAttempts /\ r.id \in arrived
             /\ r.id \in IdsOf(ready) /\ r.phase = "received" /\ r.replay
  <2>1. PICK e \in ready : e.status = "receiving" /\ r = Run(e.id, e.attempts, TRUE)
    BY <1>3
  <2>2. r \in RunSet /\ e.attempts < maxAttempts /\ e.id \in arrived
    BY <1>4, <2>1
  <2>3. r.id = e.id /\ r.attempts = e.attempts /\ r.phase = "received" /\ r.replay
    BY <2>1 DEF Run
  <2> QED
    BY <2>2, <2>3 DEF IdsOf
<1>7. RunsAreSound'
  BY <1>1, <1>6 DEF ServerInv, RunsAreSound
<1>8. \A r, s \in begun : r.id = s.id => r = s
  <2> SUFFICES ASSUME NEW r \in begun, NEW s \in begun, r.id = s.id PROVE r = s
    OBVIOUS
  <2>1. PICK e \in ready : r = Run(e.id, e.attempts, TRUE)
    BY <1>3
  <2>2. PICK f \in ready : s = Run(f.id, f.attempts, TRUE)
    BY <1>3
  <2>3. e.id = f.id
    BY <2>1, <2>2 DEF Run
  <2>4. e = f
    BY <2>3 DEF ServerInv, TicksInOrder, OneEach
  <2> QED
    BY <2>1, <2>2, <2>4
<1>9. TicksInOrder'
  <2>1. OneEach(stored') /\ OneEach(ready') /\ OneEach(replaying') /\ ReplaysHaveATick'
    BY <1>1 DEF ServerInv, TicksInOrder, OneEach, ReplaysHaveATick
  <2>2. \A r \in runs' : r.replay => r \in begun
    BY <1>1, <1>2
  <2>3. /\ \A r \in runs' : r.replay => r.id \in IdsOf(replaying')
        /\ \A r, s \in runs' : r.replay /\ s.replay /\ r.id = s.id => r = s
    BY <1>1, <1>6, <1>8, <2>2
  <2> QED
    BY <1>1, <2>1, <2>3 DEF TicksInOrder
<1>10. Kept \subseteq Kept'
  BY <1>1, <1>2 DEF Kept, IdsOf
<1>11. OwedIsKept'
  BY <1>1, <1>2, <1>6, <1>10 DEF ServerInv, OwedIsKept, FailuresAreKept
<1> QED
  BY <1>5, <1>7, <1>9, <1>11 DEF ServerInv

LEMMA ResendStep ==
    ASSUME ServerInv, NEW e \in replaying, Resend(e)
    PROVE  ServerInv'
<1> DEFINE g == [Sending(e.id, e.attempts) EXCEPT !.by = e.by]
<1>1. /\ e.status = "sending" /\ Sends(g) /\ EndReplay(e.id)
      /\ UNCHANGED <<connected, open, arrived, runs, executions>>
  BY DEF Resend
<1>2. LetterOk(e) /\ maxAttempts \in Nat
  BY DEF ServerInv, LettersAreSound
<1>3. /\ e.id \in EventIds /\ e.attempts \in Nat /\ e.attempts < maxAttempts
      /\ e.by \in Clients \cup {Server}
  BY <1>1, <1>2 DEF LetterOk, LetterSet
<1>4. g = [id |-> e.id, attempts |-> e.attempts, replayAs |-> "sending", by |-> e.by]
  BY DEF Sending
<1> HIDE DEF g
<1>5. ReportOk(g) /\ g.id = e.id
  BY <1>3, <1>4 DEF ReportOk, ReportSet
<1>6. Told(e.id) /\ \A o \in owed' : o.id = e.id => e.id \in IdsOf(storing')
  BY <1>1, <1>3, <1>5, SendsTells DEF ServerInv
<1>7. e.id \in IdsOf(replaying) /\ TicksInOrder
  BY DEF IdsOf, ServerInv
<1>8. /\ replaying' = {f \in replaying : f.id # e.id}
      /\ OneEach(replaying') /\ OneEach(stored') /\ OneEach(ready')
      /\ ReplaysHaveATick' /\ tick' \in {"idle", "replaying"} /\ ready' = {}
      /\ UNCHANGED <<stored, ready, rejections, lost, maxAttempts>>
  BY <1>1, <1>7, ReplayEnds
<1>9. \A r \in runs : r.id # e.id
  BY <1>3, RunMeaning DEF ServerInv
<1>10. TicksInOrder'
  BY <1>1, <1>7, <1>8, <1>9 DEF TicksInOrder, IdsOf
<1>11. LettersAreSound'
  <2>1. /\ \A f \in storing' \cup stored' \cup ready' \cup replaying' : LetterOk(f)
        /\ \A f \in ready' \cup replaying' : f.status # "failed"
    BY <1>6, <1>8 DEF ServerInv, LettersAreSound, Told
  <2>2. \A f : LetterOk(f) => LetterOk(f)'
    BY <1>1, <1>8, LettersStay
  <2>3. ticker' \in BOOLEAN
    BY <1>6 DEF Told
  <2> QED
    BY <1>8, <2>1, <2>2, <2>3 DEF ServerInv, LettersAreSound
<1>12. RunsAreSound'
  BY <1>1, <1>8 DEF ServerInv, RunsAreSound
<1>13. OwedIsKept'
  <2>1. IdsOf(storing) \subseteq IdsOf(storing')
    BY <1>6 DEF Told, IdsOf
  <2>2. \A o \in owed' : o = [id |-> o.id, by |-> o.by] /\ (o.id \in Requests => o.by = Server)
    BY <1>6 DEF ServerInv, OwedIsKept, Told
  <2>3. \A o \in owed' : o.id # e.id => o \in owed
    BY <1>6 DEF Told
  <2>4. ASSUME NEW o \in owed' PROVE o.id \in Kept' \cup lost'
    <3>1. CASE o.id = e.id
      BY <1>6, <3>1 DEF Kept, IdsOf
    <3>2. CASE o.id # e.id
      <4>1. o.id \in Kept \cup lost
        BY <2>3, <3>2 DEF ServerInv, OwedIsKept, FailuresAreKept
      <4>2. o.id \in IdsOf(replaying) => o.id \in IdsOf(replaying')
        BY <1>8, <3>2 DEF IdsOf
      <4> QED
        BY <1>8, <2>1, <4>1, <4>2 DEF Kept, IdsOf
    <3> QED
      BY <3>1, <3>2
  <2>5. ASSUME NEW p \in runs', NEW o \in owed', p.replay, p.phase = "publishing", o.id = p.id
        PROVE  o.id \in IdsOf(storing' \cup stored') \cup lost'
    <3>1. o \in owed /\ p \in runs
      BY <1>1, <1>9, <2>3, <2>5
    <3>2. o.id \in IdsOf(storing \cup stored) \cup lost
      BY <2>5, <3>1 DEF ServerInv, OwedIsKept
    <3> QED
      BY <1>8, <2>1, <3>2 DEF IdsOf
  <2> QED
    BY <2>2, <2>4, <2>5 DEF OwedIsKept, FailuresAreKept
<1> QED
  BY <1>10, <1>11, <1>12, <1>13 DEF ServerInv

-----------------------------------------------------------------------------
(* The steps of the transport *)

(* A client connects, closes, or sends: the dead-letter module is left
   alone, but for what is owed to a client that closes, and what an echo
   reports.                                                                *)
LEMMA SocketStep ==
    ASSUME ServerInv, NEW c \in Clients, Connects(c) \/ StartsClosing(c) \/ Closes(c)
    PROVE  ServerInv'
<1>1. /\ open' \subseteq connected' /\ connected' \subseteq Clients /\ owed' \subseteq owed
      /\ UNCHANGED <<dlqVars, arrived, runs, executions>>
  BY DEF Connects, StartsClosing, Closes, ServerInv, RunsAreSound
<1>2. LettersAreSound'
  <2>1. \A e : LetterOk(e) => LetterOk(e)'
    BY <1>1, LettersStay DEF dlqVars
  <2> QED
    BY <1>1, <2>1 DEF ServerInv, LettersAreSound, dlqVars
<1>3. RunsAreSound'
  BY <1>1 DEF ServerInv, RunsAreSound, dlqVars
<1>4. TicksInOrder'
  BY <1>1 DEF ServerInv, TicksInOrder, OneEach, ReplaysHaveATick, IdsOf, dlqVars
<1>5. OwedIsKept'
  BY <1>1 DEF ServerInv, OwedIsKept, FailuresAreKept, Kept, IdsOf, dlqVars
<1> QED
  BY <1>2, <1>3, <1>4, <1>5 DEF ServerInv

LEMMA MessageStep ==
    ASSUME ServerInv, NEW c \in Clients, NEW q \in Requests, Message(c, q)
    PROVE  ServerInv'
<1>1. /\ arrived' = arrived \cup {q} /\ runs' = runs \cup {Run(q, 0, FALSE)}
      /\ UNCHANGED <<dlqVars, connected, open, executions, owed>>
  BY DEF Message
<1>2. LettersAreSound'
  <2>1. \A e : LetterOk(e) => LetterOk(e)'
    BY <1>1, LettersStay DEF dlqVars
  <2> QED
    BY <1>1, <2>1 DEF ServerInv, LettersAreSound, dlqVars
<1> DEFINE s == Run(q, 0, FALSE)
<1>3. s \in RunSet /\ s.id = q /\ s.attempts = 0 /\ ~s.replay
  <2>1. <<>> \in Seq(TopicNames)
    OBVIOUS
  <2> QED
    BY <2>1 DEF Run, RunSet
<1> HIDE DEF s
<1>4. RunsAreSound'
  <2>1. runs' = runs \cup {s} /\ maxAttempts' = maxAttempts /\ 0 < maxAttempts
    BY <1>1 DEF dlqVars, ServerInv, LettersAreSound, s
  <2>2. \A r \in runs' : r \in RunSet /\ r.attempts < maxAttempts' /\ r.id \in arrived'
    BY <1>1, <1>3, <2>1 DEF ServerInv, RunsAreSound
  <2> QED
    BY <1>1, <2>2 DEF ServerInv, RunsAreSound
<1>5. TicksInOrder'
  BY <1>1, <1>3 DEF ServerInv, TicksInOrder, OneEach, ReplaysHaveATick, IdsOf, dlqVars, s
<1>6. OwedIsKept'
  BY <1>1, <1>3 DEF ServerInv, OwedIsKept, FailuresAreKept, Kept, IdsOf, dlqVars, s
<1> QED
  BY <1>2, <1>4, <1>5, <1>6 DEF ServerInv

LEMMA EchoStep ==
    ASSUME ServerInv, NEW c \in Clients, Echo(c)
    PROVE  ServerInv'
<1> DEFINE e == Sending(<<c, 0, "echo">>, 0)
<1>1. /\ arrived' = arrived \cup {e.id} /\ Sends(e)
      /\ UNCHANGED <<connected, open, runs, executions, stored, tick, ready, replaying, rejections,
                     lost, maxAttempts>>
  BY DEF Echo
<1>2. ReportOk(e) /\ e.id \in EventIds
  <2>1. e = [id |-> <<c, 0, "echo">>, attempts |-> 0, replayAs |-> "sending", by |-> Server]
    BY DEF Sending
  <2>2. <<c, 0, "echo">> \in EventIds
    BY DEF EventIds
  <2>3. maxAttempts \in Nat \ {0}
    BY DEF ServerInv, LettersAreSound
  <2> QED
    BY <2>1, <2>2, <2>3 DEF ReportOk, ReportSet
<1> HIDE DEF e
<1>3. Told(e.id) /\ \A o \in owed' : o.id = e.id => e.id \in IdsOf(storing')
  BY <1>1, <1>2, SendsTells DEF ServerInv
<1>4. LettersAreSound'
  <2>1. \A f \in storing' \cup stored' \cup ready' \cup replaying' : LetterOk(f)
    BY <1>1, <1>3 DEF ServerInv, LettersAreSound, Told
  <2>2. \A f : LetterOk(f) => LetterOk(f)'
    BY <1>1, LettersStay
  <2>3. ticker' \in BOOLEAN
    BY <1>3 DEF Told
  <2> QED
    BY <1>1, <2>1, <2>2, <2>3 DEF ServerInv, LettersAreSound
<1>5. RunsAreSound'
  BY <1>1 DEF ServerInv, RunsAreSound
<1>6. TicksInOrder'
  BY <1>1 DEF ServerInv, TicksInOrder, OneEach, ReplaysHaveATick, IdsOf
<1>7. OwedIsKept'
  <2>1. \A o \in owed' : o = [id |-> o.id, by |-> o.by] /\ (o.id \in Requests => o.by = Server)
    BY <1>3 DEF ServerInv, OwedIsKept, Told
  <2>2. \A o \in owed' : o \in owed \/ o.id \in IdsOf(storing')
    BY <1>3 DEF Told
  <2>3. IdsOf(storing) \subseteq IdsOf(storing')
    BY <1>3 DEF Told, IdsOf
  <2>4. FailuresAreKept'
    BY <1>1, <2>2, <2>3 DEF ServerInv, OwedIsKept, FailuresAreKept, Kept, IdsOf
  <2>5. \A p \in runs', o \in owed' : p.replay /\ p.phase = "publishing" /\ o.id = p.id
           => o.id \in IdsOf(storing' \cup stored') \cup lost'
    BY <1>1, <2>2, <2>3 DEF ServerInv, OwedIsKept, IdsOf
  <2> QED
    BY <2>1, <2>4, <2>5 DEF OwedIsKept
<1> QED
  BY <1>4, <1>5, <1>6, <1>7 DEF ServerInv

-----------------------------------------------------------------------------
(* The runs of the schema module *)

LEMMA PipelineStep ==
    ASSUME ServerInv, NEW r \in runs, Undecodable(r) \/ Throws(r) \/ Pipeline(r)
    PROVE  ServerInv'
<1>s. LettersAreSound /\ RunsAreSound /\ OwedIsKept
  BY DEF ServerInv
<1>r. r \in RunSet /\ r.id \in Requests /\ executions[r.id] \in 0..MaxExecutions
      /\ r.id \notin EventIds
  BY <1>s, RunMeaning
<1>1. CASE Undecodable(r) \/ Throws(r)
  <2>1. Fails(r) /\ Ends(r) /\ UNCHANGED <<connected, open, arrived, executions>>
    BY <1>1 DEF Undecodable, Throws
  <2>2. Told(r.id) /\ r.id \in IdsOf(storing')
    BY <1>s, <2>1, FailsTells
  <2>3. \A o \in owed' : o.id = r.id => r.id \in IdsOf(storing' \cup stored) \cup lost
    BY <2>2 DEF IdsOf
  <2> QED
    BY <2>1, <2>2, <2>3, RunEnds
<1>2. CASE Execute(r)
  <2> DEFINE s == [r EXCEPT !.phase = "executing", !.topics = Topics[r.id]]
  <2>1. /\ executions[r.id] < MaxExecutions
        /\ executions' = [executions EXCEPT ![r.id] = @ + 1] /\ Becomes(r, s)
        /\ UNCHANGED <<storing, ticker, owed, connected, open, arrived>>
    BY <1>2 DEF Execute
  <2>2. s \in RunSet /\ s.id = r.id /\ s.attempts = r.attempts /\ s.replay = r.replay
        /\ s.phase = "executing"
    BY <1>r, ServiceAssumption DEF RunSet
  <2>3. executions' \in [Requests -> 0..MaxExecutions]
    BY <1>s, <1>r, <2>1, ServiceAssumption DEF RunsAreSound
  <2>4. Told(r.id)
    BY <1>s, <2>1, QuietTells DEF Quiet
  <2> HIDE DEF s
  <2> QED
    BY <2>1, <2>2, <2>3, <2>4, RunGoesOn
<1>3. CASE Succeeds(r)
  <2> DEFINE s == [r EXCEPT !.phase = "publishing"]
  <2>1. /\ Becomes(r, s) /\ owed' = owed \ {[id |-> r.id, by |-> Server]}
        /\ UNCHANGED <<storing, ticker, connected, open, arrived, executions>>
    BY <1>3 DEF Succeeds
  <2>2. s \in RunSet /\ s.id = r.id /\ s.attempts = r.attempts /\ s.replay = r.replay
    BY <1>r DEF RunSet
  <2>3. Told(r.id)
    BY <1>s, <2>1 DEF Told, LettersAreSound
  <2>4. \A o \in owed' : o.id # r.id
    <3> SUFFICES ASSUME NEW o \in owed', o.id = r.id PROVE FALSE
      OBVIOUS
    <3>1. o = [id |-> o.id, by |-> o.by] /\ o.by = Server
      BY <1>s, <1>r, <2>1 DEF OwedIsKept
    <3> QED
      BY <2>1, <3>1
  <2>5. executions' \in [Requests -> 0..MaxExecutions]
    BY <1>s, <2>1 DEF RunsAreSound
  <2> HIDE DEF s
  <2> QED
    BY <2>1, <2>2, <2>3, <2>4, <2>5, RunGoesOn
<1>4. CASE Publish(r)
  <2> DEFINE s == [r EXCEPT !.topics = Tail(r.topics)]
  <2>1. /\ r.phase = "publishing" /\ r.topics # <<>> /\ Becomes(r, s)
        /\ Quiet \/ Fails(r) \/ Sends(Emitted(r, Head(r.topics)))
        /\ UNCHANGED <<connected, open, arrived, executions>>
    BY <1>4 DEF Publish
  <2>2. r.topics \in Seq(TopicNames)
    BY <1>r DEF RunSet
  <2>3. Head(r.topics) \in TopicNames /\ Tail(r.topics) \in Seq(TopicNames)
    BY <2>1, <2>2
  <2>4. s \in RunSet /\ s.id = r.id /\ s.attempts = r.attempts /\ s.replay = r.replay
    BY <1>r, <2>3 DEF RunSet
  <2>5. \E id : Told(id)
    <3>1. CASE Quiet
      BY <1>s, <3>1, QuietTells
    <3>2. CASE Fails(r)
      BY <1>s, <3>2, FailsTells
    <3>3. CASE Sends(Emitted(r, Head(r.topics)))
      <4>1. ReportOk(Emitted(r, Head(r.topics))) /\ Emitted(r, Head(r.topics)).id \in EventIds
        BY <1>s, <2>3, EmittedIsReportable
      <4> QED
        BY <1>s, <3>3, <4>1, SendsTells
    <3> QED
      BY <2>1, <3>1, <3>2, <3>3
  <2>6. executions' \in [Requests -> 0..MaxExecutions]
    BY <1>s, <2>1 DEF RunsAreSound
  <2> HIDE DEF s
  <2> QED
    BY <2>1, <2>4, <2>5, <2>6, RunGoesOn
<1>5. CASE Answer(r)
  <2>1. /\ r.phase = "publishing"
        /\ Fails(r) \/ Sends(Emitted(r, "answer"))
        /\ Ends(r) /\ UNCHANGED <<connected, open, arrived, executions>>
    BY <1>5 DEF Answer
  <2>2. CASE Fails(r)
    <3>1. Told(r.id) /\ r.id \in IdsOf(storing')
      BY <1>s, <2>2, FailsTells
    <3>2. \A o \in owed' : o.id = r.id => r.id \in IdsOf(storing' \cup stored) \cup lost
      BY <3>1 DEF IdsOf
    <3> QED
      BY <2>1, <3>1, <3>2, RunEnds
  <2>3. CASE Sends(Emitted(r, "answer"))
    <3> DEFINE e == Emitted(r, "answer")
    <3>1. ReportOk(e) /\ e.id \in EventIds
      BY <1>s, EmittedIsReportable
    <3>2. Told(e.id)
      BY <1>s, <2>3, <3>1, SendsTells
    <3>3. e.id # r.id
      BY <1>r, <3>1
    <3> HIDE DEF e
    <3>4. ASSUME r.replay, NEW o \in owed', o.id = r.id
          PROVE  r.id \in IdsOf(storing' \cup stored) \cup lost
      <4>1. o \in owed /\ storing \subseteq storing'
        BY <3>2, <3>3, <3>4 DEF Told
      <4>2. o.id \in IdsOf(storing \cup stored) \cup lost
        BY <1>s, <2>1, <3>4, <4>1 DEF OwedIsKept
      <4> QED
        BY <3>4, <4>1, <4>2 DEF IdsOf
    <3> QED
      BY <2>1, <3>2, <3>4, RunEnds
  <2> QED
    BY <2>1, <2>2, <2>3
<1> QED
  BY <1>1, <1>2, <1>3, <1>4, <1>5 DEF Pipeline

-----------------------------------------------------------------------------
LEMMA ServerInitially == Init => ServerInv
<1> SUFFICES ASSUME Init PROVE ServerInv
  OBVIOUS
<1>1. maxAttempts \in Nat \ {0} /\ 0 \in 0..MaxRejections
  BY QueueAssumption DEF Init, DlqInit
<1>2. executions \in [Requests -> 0..MaxExecutions]
  BY ServiceAssumption DEF Init
<1>3. Kept = {} /\ IdsOf(ready) = {} /\ IdsOf(stored) = {}
  BY DEF Init, DlqInit, Kept, IdsOf
<1>4. LettersAreSound
  BY <1>1 DEF Init, DlqInit, LettersAreSound
<1>5. RunsAreSound
  BY <1>2 DEF Init, RunsAreSound
<1>6. TicksInOrder
  BY <1>3 DEF Init, DlqInit, TicksInOrder, OneEach, ReplaysHaveATick
<1>7. OwedIsKept
  BY DEF Init, OwedIsKept, FailuresAreKept
<1> QED
  BY <1>4, <1>5, <1>6, <1>7 DEF ServerInv

LEMMA ServerStep == ServerInv /\ Next => ServerInv'
<1> SUFFICES ASSUME ServerInv, Next PROVE ServerInv'
  OBVIOUS
<1>1. CASE DlqCallbacks /\ UNCHANGED serviceVars
  BY <1>1, DlqStep
<1>2. CASE \E c \in Clients : Connects(c) \/ StartsClosing(c) \/ Closes(c) \/ Echo(c)
  BY <1>2, SocketStep, EchoStep
<1>3. CASE \E c \in Clients, q \in Requests : Message(c, q)
  BY <1>3, MessageStep
<1>4. CASE \E r \in runs : Undecodable(r) \/ Throws(r) \/ Pipeline(r)
  BY <1>4, PipelineStep
<1>5. CASE Replay
  BY <1>5, ReplayStep
<1>6. CASE \E e \in replaying : Resend(e)
  BY <1>6, ResendStep
<1> QED
  BY <1>1, <1>2, <1>3, <1>4, <1>5, <1>6 DEF Next

LEMMA ServerStutters == ServerInv /\ UNCHANGED serverVars => ServerInv'
<1> SUFFICES ASSUME ServerInv, UNCHANGED serverVars PROVE ServerInv'
  OBVIOUS
<1>1. UNCHANGED <<storing, stored, ticker, tick, ready, replaying, rejections, lost, maxAttempts,
                  connected, open, arrived, runs, executions, owed>>
  BY DEF serverVars, dlqVars, serviceVars
<1>2. LettersAreSound'
  BY <1>1 DEF ServerInv, LettersAreSound, LetterOk, LetterSet
<1>3. RunsAreSound' /\ TicksInOrder'
  BY <1>1 DEF ServerInv, RunsAreSound, TicksInOrder, OneEach, ReplaysHaveATick, IdsOf
<1>4. OwedIsKept'
  BY <1>1 DEF ServerInv, OwedIsKept, FailuresAreKept, Kept, IdsOf
<1> QED
  BY <1>2, <1>3, <1>4 DEF ServerInv

(* What the invariant says of what the runs check. *)
LEMMA ServerMeaning ==
    ASSUME ServerInv
    PROVE  ServiceTypeOK /\ FailuresAreKept /\ ReplaysDoNotOverlap /\ AttemptsEnd
<1>1. ASSUME NEW e \in storing \cup stored \cup ready \cup replaying
      PROVE  /\ e.attempts \in 1..maxAttempts /\ e.status \in {"receiving", "sending", "failed"}
             /\ e.status = "failed" <=> e.attempts >= maxAttempts
  BY DEF ServerInv, LettersAreSound, LetterOk, LetterSet
<1>2. DlqTypeOK
  BY <1>1 DEF ServerInv, LettersAreSound, TicksInOrder, OneEach, DlqTypeOK
<1>3. ServiceTypeOK
  BY <1>2 DEF ServerInv, RunsAreSound, RunSet, ServiceTypeOK
<1>4. AttemptsEnd
  <2>1. ASSUME NEW e \in ready \cup replaying PROVE e.attempts < maxAttempts
    BY <1>1 DEF ServerInv, LettersAreSound
  <2> QED
    BY <1>1, <2>1 DEF AttemptsEnd
<1>5. FailuresAreKept /\ ReplaysDoNotOverlap
  BY DEF ServerInv, OwedIsKept, TicksInOrder, ReplaysDoNotOverlap
<1> QED
  BY <1>3, <1>4, <1>5

(* What failed on the server and has not gone through since is kept for a
   replay, is replayed by one tick at a time, and no more often than it may. *)
THEOREM FailedIsReplayed == MCSpec => []FailedEventsAreReplayed
<1>1. MCInit => ServerInv
  BY ServerInitially DEF MCInit
<1>2. ServerInv /\ [MCNext]_<<part, hookVars, serverVars, syncVars>> => ServerInv'
  BY ServerStep, ServerStutters DEF MCNext, ServerNext
<1>3. ServerInv => FailedEventsAreReplayed
  BY ServerMeaning DEF FailedEventsAreReplayed
<1> QED
  BY <1>1, <1>2, <1>3, PTL DEF MCSpec

-----------------------------------------------------------------------------
(* The hook chain of the runtime *)

States == {"entered", "suspended", "resumed", "waiting", "ok", "failed"}
CallSet == [hook : Hooks, index : Nat \ {0}, parent : Nat, nexts : Nat, child : Nat, st : States]

HooksAreApart ==
    /\ hooks \in Seq(Hooks) /\ behaviour \in [Hooks -> Behaviours]
    /\ \A i, j \in 1..Len(hooks) : hooks[i] = hooks[j] => i = j

CallsAreATree ==
    /\ calls \in Seq(CallSet)
    /\ \A c \in 1..Len(calls) :
          calls[c].parent < c /\ (calls[c].child = 0 \/ calls[c].child \in c + 1..Len(calls))

StackIsUnderWay ==
    /\ stack \in Seq(1..Len(calls))
    /\ \A s \in 1..Len(stack) : calls[stack[s]].st \in {"entered", "resumed"}
    /\ \A s, t \in 1..Len(stack) : s < t => stack[s] < stack[t]

InPlace ==
    ~unsubscribed =>
        \A c \in 1..Len(calls) :
            /\ calls[c].index <= Len(hooks) /\ hooks[calls[c].index] = calls[c].hook
            /\ calls[c].parent # 0 => calls[calls[c].parent].index + 1 = calls[c].index

PromisesHold ==
    \A c \in 1..Len(calls) :
        /\ behaviour[calls[c].hook] = "answer" => calls[c].child = 0
        /\ calls[c].st = "ok" /\ calls[c].child # 0 /\ behaviour[calls[c].hook] # "drop"
           => calls[calls[c].child].st = "ok"

Resolved ==
    /\ ack \in {"none", "ok", "failed"}
    /\ reported = IF ack = "failed" THEN 1 ELSE 0
    /\ ack # "none" => IF calls = <<>> THEN ack = "ok" ELSE calls[1].st = ack

HookInv ==
    HooksAreApart /\ CallsAreATree /\ StackIsUnderWay /\ InPlace /\ PromisesHold /\ Resolved

-----------------------------------------------------------------------------
(* The array of hooks *)

LEMMA RemovedAt ==
    ASSUME NEW S, NEW s \in Seq(S), NEW k \in 1..Len(s)
    PROVE  /\ RemoveAt(s, k) \in Seq(S) /\ Len(RemoveAt(s, k)) = Len(s) - 1
           /\ \A i \in 1..Len(s) - 1 : RemoveAt(s, k)[i] = s[IF i < k THEN i ELSE i + 1]
<1> DEFINE n == Len(s)
           a == SubSeq(s, 1, k - 1)
           b == SubSeq(s, k + 1, n)
<1>1. n \in Nat /\ k \in 1..n /\ \A i \in 1..n : s[i] \in S
  OBVIOUS
<1> HIDE DEF n
<1>2. /\ a \in Seq(S) /\ Len(a) = k - 1
      /\ \A i \in 1..k - 1 : a[i] = s[i]
  BY <1>1, SubSeqProperties
<1>3. /\ b \in Seq(S)
      /\ Len(b) = IF k + 1 <= n THEN n - (k + 1) + 1 ELSE 0
      /\ \A i \in 1..n - (k + 1) + 1 : b[i] = s[(k + 1) + i - 1]
  <2>1. k + 1 \in Int /\ n \in Int /\ \A i \in k + 1..n : s[i] \in S
    BY <1>1
  <2> QED
    BY <2>1, SubSeqProperties
<1>4. RemoveAt(s, k) = a \o b
  BY DEF RemoveAt, n
<1> HIDE DEF a, b
<1>5. Len(b) = n - k
  BY <1>1, <1>3
<1>6. \A i \in 1..n - k : b[i] = s[k + i]
  BY <1>1, <1>3
<1>7. /\ a \o b \in Seq(S) /\ Len(a \o b) = (k - 1) + (n - k)
      /\ \A i \in 1..(k - 1) + (n - k) :
            (a \o b)[i] = IF i <= k - 1 THEN a[i] ELSE b[i - (k - 1)]
  <2>1. a \in Seq(S) /\ b \in Seq(S)
    BY <1>2, <1>3
  <2>2. /\ a \o b \in Seq(S) /\ Len(a \o b) = Len(a) + Len(b)
        /\ \A i \in 1..Len(a) + Len(b) :
              (a \o b)[i] = IF i <= Len(a) THEN a[i] ELSE b[i - Len(a)]
    BY <2>1, ConcatProperties
  <2>3. Len(a) = k - 1 /\ Len(b) = n - k
    BY <1>2, <1>5
  <2> QED
    BY <2>2, <2>3
<1>8. ASSUME NEW i \in 1..n - 1 PROVE (a \o b)[i] = s[IF i < k THEN i ELSE i + 1]
  <2>1. i \in 1..(k - 1) + (n - k)
    BY <1>1
  <2>2. CASE i < k
    <3>1. i <= k - 1 /\ i \in 1..k - 1
      BY <1>1, <2>2
    <3> QED
      BY <1>2, <1>7, <2>1, <2>2, <3>1
  <2>3. CASE ~(i < k)
    <3>1. ~(i <= k - 1) /\ i - (k - 1) \in 1..n - k /\ k + (i - (k - 1)) = i + 1
      BY <1>1, <2>3
    <3> QED
      BY <1>6, <1>7, <2>1, <2>3, <3>1
  <2> QED
    BY <2>2, <2>3
<1> QED
  BY <1>1, <1>4, <1>7, <1>8 DEF n

LEMMA SplicedIsApart ==
    ASSUME HooksAreApart, NEW h \in Hooks
    PROVE  /\ H!Spliced(h) \in Seq(Hooks)
           /\ \A i, j \in 1..Len(H!Spliced(h)) : H!Spliced(h)[i] = H!Spliced(h)[j] => i = j
<1>1. CASE ~Contains(hooks, h)
  BY <1>1 DEF H!Spliced, H!Contains, Contains, HooksAreApart
<1>2. CASE Contains(hooks, h)
  <2> DEFINE k == CHOOSE i \in DOMAIN hooks : hooks[i] = h
  <2>1. hooks \in Seq(Hooks) /\ Len(hooks) \in Nat /\ DOMAIN hooks = 1..Len(hooks)
    BY DEF HooksAreApart
  <2>2. k \in 1..Len(hooks)
    BY <1>2, <2>1 DEF Contains
  <2>3. H!Spliced(h) = RemoveAt(hooks, k)
    BY <1>2 DEF H!Spliced, H!Contains, Contains, H!RemoveAt, RemoveAt
  <2> HIDE DEF k
  <2> DEFINE r == RemoveAt(hooks, k)
  <2>4. /\ r \in Seq(Hooks) /\ Len(r) = Len(hooks) - 1
        /\ \A i \in 1..Len(hooks) - 1 : r[i] = hooks[IF i < k THEN i ELSE i + 1]
    BY <2>1, <2>2, RemovedAt
  <2> HIDE DEF r
  <2>5. ASSUME NEW i \in 1..Len(r), NEW j \in 1..Len(r), r[i] = r[j] PROVE i = j
    <3> DEFINE x == IF i < k THEN i ELSE i + 1
               y == IF j < k THEN j ELSE j + 1
    <3>1. x \in 1..Len(hooks) /\ y \in 1..Len(hooks) /\ hooks[x] = hooks[y]
      BY <2>1, <2>2, <2>4, <2>5
    <3>2. x = y
      BY <3>1 DEF HooksAreApart
    <3> QED
      BY <2>1, <2>2, <2>4, <3>2
  <2> QED
    BY <2>3, <2>4, <2>5 DEF r
<1> QED
  BY <1>1, <1>2

LEMMA TheTop ==
    ASSUME StackIsUnderWay, CallsAreATree, ~H!Idle
    PROVE  /\ H!Top \in 1..Len(calls) /\ H!Top = stack[Len(stack)] /\ Len(stack) \in Nat \ {0}
           /\ calls[H!Top] \in CallSet /\ calls[H!Top].st \in {"entered", "resumed"}
<1>1. stack # <<>> /\ stack \in Seq(1..Len(calls))
  BY DEF H!Idle, StackIsUnderWay
<1>2. Len(stack) \in Nat \ {0}
  BY <1>1
<1>3. H!Top = stack[Len(stack)]
  BY DEF H!Top, H!Last, Last
<1>4. H!Top \in 1..Len(calls)
  BY <1>1, <1>2, <1>3
<1> QED
  BY <1>2, <1>3, <1>4 DEF StackIsUnderWay, CallsAreATree

-----------------------------------------------------------------------------
(* The calls *)

LEMMA HasChild ==
    ASSUME NEW x \in CallSet, NEW m \in Nat
    PROVE  LET y == [x EXCEPT !.nexts = @ + 1, !.child = m]
           IN  /\ y \in CallSet /\ y.hook = x.hook /\ y.index = x.index /\ y.parent = x.parent
               /\ y.child = m /\ y.st = x.st
               /\ y = [[x EXCEPT !.nexts = @ + 1] EXCEPT !.child = m]
               /\ \A l \in Nat : y = [[x EXCEPT !.nexts = @ + 1, !.child = l] EXCEPT !.child = m]
<1> DEFINE w == [x EXCEPT !.nexts = @ + 1]
           y == [w EXCEPT !.child = m]
<1>1. x.nexts + 1 \in Nat
  BY DEF CallSet
<1>2. w \in CallSet /\ w.hook = x.hook /\ w.index = x.index /\ w.parent = x.parent /\ w.st = x.st
  BY <1>1 DEF CallSet
<1>3. \A l \in Nat : [x EXCEPT !.nexts = @ + 1, !.child = l] = [w EXCEPT !.child = l]
  BY DEF CallSet
<1> HIDE DEF w
<1>4. y \in CallSet /\ y.hook = w.hook /\ y.index = w.index /\ y.parent = w.parent
      /\ y.child = m /\ y.st = w.st
  BY <1>2 DEF CallSet
<1>5. \A l \in Nat : y = [[w EXCEPT !.child = l] EXCEPT !.child = m]
  BY <1>2 DEF CallSet
<1> HIDE DEF y
<1>6. [x EXCEPT !.nexts = @ + 1, !.child = m] = y
  BY <1>3 DEF y
<1>7. [[x EXCEPT !.nexts = @ + 1] EXCEPT !.child = m] = y
  BY DEF w, y
<1>8. \A l \in Nat : [[x EXCEPT !.nexts = @ + 1, !.child = l] EXCEPT !.child = m] = y
  BY <1>3, <1>5
<1> QED
  BY <1>2, <1>4, <1>6, <1>7, <1>8

(* What a call of next() does: the call on top of the stack has another
   child, or none when the chain is over.                                  *)
LEMMA GoesMeans ==
    ASSUME HookInv, NEW hs \in Seq(Hooks), ~H!Idle, H!Goes(hs, calls)
    PROVE  LET t == H!Top
               n == Len(calls)
               i == calls[t].index + 1
           IN /\ \/ /\ i > Len(hs) /\ stack' = stack /\ Len(calls') = n /\ calls'[t].child = 0
                 \/ /\ i \in 1..Len(hs) /\ stack' = Append(stack, n + 1) /\ Len(calls') = n + 1
                    /\ calls'[t].child = n + 1
                    /\ calls'[n + 1] = H!Call(hs[i], i, t)
              /\ calls'[t].hook = calls[t].hook /\ calls'[t].index = calls[t].index
              /\ calls'[t].parent = calls[t].parent /\ calls'[t].st = calls[t].st
              /\ calls' \in Seq(CallSet)
              /\ \A c \in 1..n : c # t => calls'[c] = calls[c]
<1> DEFINE t == H!Top
           n == Len(calls)
           i == calls[t].index + 1
           r == [calls[t] EXCEPT !.nexts = @ + 1, !.child = 0]
           q == [calls[t] EXCEPT !.nexts = @ + 1, !.child = n + 1]
           cs == [calls EXCEPT ![t].nexts = @ + 1, ![t].child = 0]
<1>1. StackIsUnderWay /\ CallsAreATree
  BY DEF HookInv
<1>2. H!Invoke(hs, cs, i, t, stack)
  BY DEF H!Goes, H!End
<1>3. t \in 1..n /\ calls[t] \in CallSet /\ calls \in Seq(CallSet) /\ n \in Nat
  BY <1>1, TheTop DEF CallsAreATree
<1> HIDE DEF t
<1>4. i \in Nat \ {0, 1}
  <2>1. calls[t].index \in Nat \ {0}
    BY <1>3 DEF CallSet
  <2> QED
    BY <2>1
<1>5. /\ r \in CallSet /\ r.hook = calls[t].hook /\ r.index = calls[t].index
      /\ r.parent = calls[t].parent /\ r.child = 0 /\ r.st = calls[t].st
  BY <1>3, HasChild
<1>6. /\ q \in CallSet /\ q.hook = calls[t].hook /\ q.index = calls[t].index
      /\ q.parent = calls[t].parent /\ q.child = n + 1 /\ q.st = calls[t].st
      /\ q = [r EXCEPT !.child = n + 1]
  <2>1. n + 1 \in Nat
    BY <1>3
  <2> QED
    BY <1>3, <2>1, HasChild
<1>7. cs = [calls EXCEPT ![t] = r]
  <2>1. r = [[calls[t] EXCEPT !.nexts = @ + 1] EXCEPT !.child = 0]
    BY <1>3, HasChild
  <2> QED
    BY <1>3, <2>1
<1> HIDE DEF r, q, cs, i
<1>8. cs \in Seq(CallSet) /\ Len(cs) = n /\ cs[t] = r /\ \A c \in 1..n : c # t => cs[c] = calls[c]
  BY <1>3, <1>5, <1>7
<1>9. CASE i > Len(hs)
  <2>1. calls' = cs /\ stack' = stack
    <3>1. ~(i <= Len(hs))
      BY <1>4, <1>9
    <3> QED
      BY <1>2, <3>1 DEF H!Invoke
  <2> QED
    BY <1>5, <1>8, <1>9, <2>1 DEF t, i
<1>10. CASE i <= Len(hs)
  <2> DEFINE ds == [cs EXCEPT ![t].child = n + 1]
             new == H!Call(hs[i], i, t)
  <2>1. calls' = Append(ds, new) /\ stack' = Append(stack, n + 1)
    <3>1. t # 0
      BY <1>3
    <3> QED
      BY <1>2, <1>8, <1>10, <3>1 DEF H!Invoke
  <2>2. ds = [cs EXCEPT ![t] = q]
    BY <1>6, <1>8
  <2>3. ds \in Seq(CallSet) /\ Len(ds) = n /\ ds[t] = q /\ \A c \in 1..n : c # t => ds[c] = calls[c]
    BY <1>3, <1>6, <1>8, <2>2
  <2>4. new \in CallSet
    <3>1. hs[i] \in Hooks /\ t \in Nat /\ i \in Nat \ {0}
      BY <1>3, <1>4, <1>10
    <3> QED
      BY <3>1 DEF H!Call, H!End, CallSet, States
  <2> HIDE DEF ds, new
  <2>5. /\ calls' \in Seq(CallSet) /\ Len(calls') = n + 1 /\ calls'[n + 1] = new
        /\ \A c \in 1..n : calls'[c] = ds[c]
    BY <2>1, <2>3, <2>4, AppendProperties
  <2>6. i \in 1..Len(hs)
    BY <1>4, <1>10
  <2> QED
    BY <1>3, <1>6, <2>1, <2>3, <2>5, <2>6 DEF t, i, new
<1>11. Len(hs) \in Nat
  OBVIOUS
<1> QED
  BY <1>4, <1>9, <1>10, <1>11

LEMMA Links ==
    ASSUME CallsAreATree, NEW c \in 1..Len(calls)
    PROVE  /\ calls[c].parent \in Nat /\ calls[c].parent < c /\ calls[c].index \in Nat \ {0}
           /\ calls[c].child = 0 \/ calls[c].child \in c + 1..Len(calls)
           /\ calls[c].parent # 0 => calls[c].parent \in 1..Len(calls)
           /\ calls[c].child # 0 => calls[c].child \in 1..Len(calls)
<1>1. calls[c] \in CallSet /\ Len(calls) \in Nat
  BY DEF CallsAreATree
<1>2. calls[c].parent \in Nat /\ calls[c].index \in Nat \ {0}
  BY <1>1 DEF CallSet
<1>3. calls[c].parent < c /\ (calls[c].child = 0 \/ calls[c].child \in c + 1..Len(calls))
  BY DEF CallsAreATree
<1> QED
  BY <1>1, <1>2, <1>3

LEMMA GoesStep ==
    ASSUME HookInv, ~H!Idle, HooksAreApart', H!Goes(hooks', calls),
           behaviour[calls[H!Top].hook] # "answer",
           unsubscribed' \/ UNCHANGED <<hooks, unsubscribed>>, UNCHANGED <<behaviour, ack, reported>>
    PROVE  HookInv'
<1> DEFINE t == H!Top
           n == Len(calls)
           i == calls[t].index + 1
<1>1. /\ \/ /\ i > Len(hooks') /\ stack' = stack /\ Len(calls') = n /\ calls'[t].child = 0
         \/ /\ i \in 1..Len(hooks') /\ stack' = Append(stack, n + 1) /\ Len(calls') = n + 1
            /\ calls'[t].child = n + 1
            /\ calls'[n + 1] = H!Call((hooks')[i], i, t)
      /\ calls'[t].hook = calls[t].hook /\ calls'[t].index = calls[t].index
      /\ calls'[t].parent = calls[t].parent /\ calls'[t].st = calls[t].st
      /\ calls' \in Seq(CallSet)
      /\ \A c \in 1..n : c # t => calls'[c] = calls[c]
  <2>1. hooks' \in Seq(Hooks)
    BY DEF HooksAreApart
  <2> QED
    BY <2>1, GoesMeans
<1>2. t \in 1..n /\ n \in Nat /\ calls[t].st \in {"entered", "resumed"} /\ calls \in Seq(CallSet)
  BY TheTop DEF HookInv, CallsAreATree
<1>0. behaviour[calls[t].hook] # "answer"
  OBVIOUS
<1> HIDE DEF t, i
<1>3. CallsAreATree /\ StackIsUnderWay /\ InPlace /\ PromisesHold /\ Resolved
  BY DEF HookInv
<1>4. \A c \in 1..n : /\ calls'[c].hook = calls[c].hook /\ calls'[c].index = calls[c].index
                      /\ calls'[c].parent = calls[c].parent /\ calls'[c].st = calls[c].st
                      /\ c # t => calls'[c].child = calls[c].child
  BY <1>1
<1>5. \/ Len(calls') = n /\ calls'[t].child = 0 /\ stack' = stack
      \/ /\ Len(calls') = n + 1 /\ calls'[t].child = n + 1 /\ stack' = Append(stack, n + 1)
         /\ i \in 1..Len(hooks') /\ i = calls[t].index + 1
         /\ calls'[n + 1].hook = hooks'[i] /\ calls'[n + 1].index = i
         /\ calls'[n + 1].parent = t /\ calls'[n + 1].child = 0 /\ calls'[n + 1].st = "entered"
  BY <1>1 DEF H!Call, H!End, i
<1>6. ASSUME NEW c \in 1..n
      PROVE  calls[c].parent \in Nat /\ calls[c].parent < c
             /\ (calls[c].child = 0 \/ calls[c].child \in c + 1..n)
  BY <1>3, Links
<1>7. CallsAreATree'
  <2>1. CASE Len(calls') = n
    BY <1>1, <1>2, <1>4, <1>5, <1>6, <2>1 DEF CallsAreATree
  <2>2. CASE Len(calls') = n + 1
    <3>1. ASSUME NEW c \in 1..n + 1
          PROVE  calls'[c].parent < c /\ (calls'[c].child = 0 \/ calls'[c].child \in c + 1..n + 1)
      <4>1. CASE c = n + 1
        BY <1>2, <1>5, <2>2, <4>1
      <4>2. CASE c = t
        BY <1>2, <1>4, <1>5, <1>6, <2>2, <4>2
      <4>3. CASE c \in 1..n /\ c # t
        BY <1>2, <1>4, <1>6, <4>3
      <4> QED
        BY <1>2, <4>1, <4>2, <4>3
    <3> QED
      BY <1>1, <2>2, <3>1 DEF CallsAreATree
  <2> QED
    BY <1>5, <2>1, <2>2
<1>8. StackIsUnderWay'
  <2>0. stack \in Seq(1..n) /\ Len(stack) \in Nat /\ \A s \in 1..Len(stack) : stack[s] \in 1..n
    BY <1>3 DEF StackIsUnderWay
  <2>s. /\ \A s \in 1..Len(stack) : calls[stack[s]].st \in {"entered", "resumed"}
        /\ \A s, r \in 1..Len(stack) : s < r => stack[s] < stack[r]
    BY <1>3 DEF StackIsUnderWay
  <2>1. CASE Len(calls') = n
    BY <1>2, <1>3, <1>4, <1>5, <2>0, <2>1 DEF StackIsUnderWay
  <2>2. CASE Len(calls') = n + 1
    <3>1. stack \in Seq(1..n + 1) /\ n + 1 \in 1..n + 1 /\ stack' = Append(stack, n + 1)
      BY <1>2, <1>5, <2>0, <2>2
    <3>2. /\ stack' \in Seq(1..n + 1) /\ Len(stack') = Len(stack) + 1
          /\ \A s \in 1..Len(stack) : stack'[s] = stack[s]
          /\ stack'[Len(stack) + 1] = n + 1
      BY <3>1, AppendProperties
    <3>3. ASSUME NEW s \in 1..Len(stack') PROVE calls'[stack'[s]].st \in {"entered", "resumed"}
      <4>1. CASE s \in 1..Len(stack)
        <5>1. stack'[s] = stack[s] /\ stack[s] \in 1..n
          BY <2>0, <3>2, <4>1
        <5> QED
          BY <1>4, <2>s, <4>1, <5>1
      <4>2. CASE s = Len(stack) + 1
        BY <1>2, <1>5, <2>2, <3>2, <4>2
      <4> QED
        BY <2>0, <3>2, <4>1, <4>2
    <3>4. ASSUME NEW s \in 1..Len(stack'), NEW r \in 1..Len(stack'), s < r
          PROVE  stack'[s] < stack'[r]
      <4>1. CASE r \in 1..Len(stack)
        <5>1. s \in 1..Len(stack) /\ stack'[s] = stack[s] /\ stack'[r] = stack[r]
          BY SMTT(30), <2>0, <3>2, <3>4, <4>1
        <5> QED
          BY <2>s, <3>4, <4>1, <5>1
      <4>2. CASE r = Len(stack) + 1
        <5>1. s \in 1..Len(stack) /\ stack'[r] = n + 1
          BY <2>0, <3>2, <3>4, <4>2
        <5>2. stack'[s] = stack[s] /\ stack[s] \in 1..n
          BY <2>0, <3>2, <5>1
        <5> QED
          BY <1>2, <5>1, <5>2
      <4> QED
        BY <2>0, <3>2, <4>1, <4>2
    <3> QED
      BY <2>2, <3>2, <3>3, <3>4 DEF StackIsUnderWay
  <2> QED
    BY <1>5, <2>1, <2>2
<1>9. InPlace'
  <2> SUFFICES ASSUME ~unsubscribed', NEW c \in 1..Len(calls')
               PROVE  /\ calls'[c].index <= Len(hooks') /\ hooks'[calls'[c].index] = calls'[c].hook
                      /\ calls'[c].parent # 0 => calls'[calls'[c].parent].index + 1 = calls'[c].index
    BY DEF InPlace
  <2>1. hooks' = hooks /\ ~unsubscribed
    OBVIOUS
  <2>2. CASE c \in 1..n
    <3>1. /\ calls[c].index <= Len(hooks) /\ hooks[calls[c].index] = calls[c].hook
          /\ calls[c].parent # 0 => calls[calls[c].parent].index + 1 = calls[c].index
      BY <1>3, <2>1, <2>2 DEF InPlace
    <3>2. calls[c].parent # 0 => calls[c].parent \in 1..n
      BY <1>2, <1>6, <2>2
    <3> QED
      BY <1>4, <2>1, <2>2, <3>1, <3>2
  <2>3. CASE c = n + 1 /\ Len(calls') = n + 1
    BY <1>2, <1>4, <1>5, <2>1, <2>3
  <2> QED
    BY <1>2, <1>5, <2>2, <2>3
<1>10. PromisesHold'
  <2> SUFFICES ASSUME NEW c \in 1..Len(calls')
               PROVE  /\ behaviour[calls'[c].hook] = "answer" => calls'[c].child = 0
                      /\ calls'[c].st = "ok" /\ calls'[c].child # 0
                            /\ behaviour[calls'[c].hook] # "drop"
                         => calls'[calls'[c].child].st = "ok"
    BY DEF PromisesHold
  <2>1. CASE c \in 1..n /\ c # t
    <3>1. /\ behaviour[calls[c].hook] = "answer" => calls[c].child = 0
          /\ calls[c].st = "ok" /\ calls[c].child # 0 /\ behaviour[calls[c].hook] # "drop"
             => calls[calls[c].child].st = "ok"
      BY <1>3, <2>1 DEF PromisesHold
    <3>2. calls[c].child # 0 => calls[c].child \in 1..n
      BY <1>2, <1>6, <2>1
    <3> QED
      BY <1>4, <2>1, <3>1, <3>2
  <2>2. CASE c = t
    BY <1>0, <1>2, <1>4, <2>2
  <2>3. CASE c = n + 1 /\ Len(calls') = n + 1
    BY <1>2, <1>5, <2>3
  <2> QED
    BY <1>2, <1>5, <2>1, <2>2, <2>3
<1>11. Resolved'
  <2>1. 1 \in 1..n /\ calls # <<>> /\ calls' # <<>>
    BY <1>1, <1>2, <1>5
  <2> QED
    BY <1>3, <1>4, <2>1 DEF Resolved
<1> QED
  BY <1>7, <1>8, <1>9, <1>10, <1>11 DEF HookInv

LEMMA WithState ==
    ASSUME NEW x \in CallSet, NEW v \in States
    PROVE  LET y == [x EXCEPT !.st = v]
           IN  /\ y \in CallSet /\ y.hook = x.hook /\ y.index = x.index /\ y.parent = x.parent
               /\ y.child = x.child /\ y.st = v
  BY DEF CallSet

(* A step that only settles calls, or has them go on. *)
LEMMA StatesChange ==
    ASSUME HookInv, calls' \in Seq(CallSet), Len(calls') = Len(calls),
           \A c \in 1..Len(calls) :
               /\ calls'[c].hook = calls[c].hook /\ calls'[c].index = calls[c].index
               /\ calls'[c].parent = calls[c].parent /\ calls'[c].child = calls[c].child,
           \A c \in 1..Len(calls) : calls[c].st \in {"ok", "failed"} => calls'[c].st = calls[c].st,
           \A c \in 1..Len(calls) :
               calls'[c].st = "ok" /\ calls[c].st # "ok" /\ calls[c].child # 0
                   /\ behaviour[calls[c].hook] # "drop"
               => calls[calls[c].child].st = "ok",
           StackIsUnderWay', UNCHANGED <<hooks, behaviour, unsubscribed, ack, reported>>
    PROVE  HookInv'
<1> DEFINE n == Len(calls)
<1>1. HooksAreApart /\ CallsAreATree /\ InPlace /\ PromisesHold /\ Resolved /\ n \in Nat
  BY DEF HookInv, CallsAreATree
<1>2. ASSUME NEW c \in 1..n
      PROVE  /\ calls[c].parent \in Nat /\ calls[c].parent < c
             /\ calls[c].child = 0 \/ calls[c].child \in c + 1..n
             /\ calls[c].parent # 0 => calls[c].parent \in 1..n
             /\ calls[c].child # 0 => calls[c].child \in 1..n
  BY <1>1, Links
<1>3. HooksAreApart'
  BY <1>1 DEF HooksAreApart
<1>4. CallsAreATree'
  BY <1>2 DEF CallsAreATree
<1>5. InPlace'
  <2> SUFFICES ASSUME ~unsubscribed, NEW c \in 1..n
               PROVE  /\ calls'[c].index <= Len(hooks) /\ hooks[calls'[c].index] = calls'[c].hook
                      /\ calls'[c].parent # 0 => calls'[calls'[c].parent].index + 1 = calls'[c].index
    BY DEF InPlace
  <2> QED
    BY <1>1, <1>2 DEF InPlace
<1>6. PromisesHold'
  <2> SUFFICES ASSUME NEW c \in 1..n
               PROVE  /\ behaviour[calls'[c].hook] = "answer" => calls'[c].child = 0
                      /\ calls'[c].st = "ok" /\ calls'[c].child # 0
                            /\ behaviour[calls'[c].hook] # "drop"
                         => calls'[calls'[c].child].st = "ok"
    BY DEF PromisesHold
  <2>1. calls[c].st = "ok" /\ calls[c].child # 0 /\ behaviour[calls[c].hook] # "drop"
        => calls[calls[c].child].st = "ok"
    BY <1>1 DEF PromisesHold
  <2>2. behaviour[calls[c].hook] = "answer" => calls[c].child = 0
    BY <1>1 DEF PromisesHold
  <2> QED
    BY <1>2, <2>1, <2>2
<1>7. Resolved'
  <2>1. calls' = <<>> <=> calls = <<>>
    BY <1>1
  <2>2. calls # <<>> => 1 \in 1..n
    BY <1>1 DEF CallsAreATree
  <2> QED
    BY <1>1, <2>1, <2>2 DEF Resolved
<1> QED
  BY <1>3, <1>4, <1>5, <1>6, <1>7 DEF HookInv

LEMMA OneChanges ==
    ASSUME HookInv, NEW t \in 1..Len(calls), NEW v \in States, calls' = [calls EXCEPT ![t].st = v]
    PROVE  /\ calls' \in Seq(CallSet) /\ Len(calls') = Len(calls) /\ calls'[t].st = v
           /\ \A c \in 1..Len(calls) :
               /\ calls'[c].hook = calls[c].hook /\ calls'[c].index = calls[c].index
               /\ calls'[c].parent = calls[c].parent /\ calls'[c].child = calls[c].child
           /\ \A c \in 1..Len(calls) : c # t => calls'[c] = calls[c]
<1> DEFINE y == [calls[t] EXCEPT !.st = v]
<1>1. calls \in Seq(CallSet) /\ calls[t] \in CallSet
  BY DEF HookInv, CallsAreATree
<1>2. y \in CallSet /\ y.hook = calls[t].hook /\ y.index = calls[t].index
      /\ y.parent = calls[t].parent /\ y.child = calls[t].child /\ y.st = v
  BY <1>1, WithState
<1>3. calls' = [calls EXCEPT ![t] = y]
  BY <1>1
<1> HIDE DEF y
<1>4. /\ calls' \in Seq(CallSet) /\ Len(calls') = Len(calls) /\ calls'[t] = y
      /\ \A c \in 1..Len(calls) : c # t => calls'[c] = calls[c]
  BY <1>1, <1>2, <1>3
<1> QED
  BY <1>2, <1>4

-----------------------------------------------------------------------------
(* The steps *)

LEMMA Popped ==
    ASSUME StackIsUnderWay, CallsAreATree, ~H!Idle, stack' = H!Front(stack)
    PROVE  /\ stack' \in Seq(1..Len(calls)) /\ Len(stack') = Len(stack) - 1
           /\ \A s \in 1..Len(stack') : s \in 1..Len(stack) /\ stack'[s] = stack[s] /\ stack[s] # H!Top
<1>1. stack \in Seq(1..Len(calls)) /\ Len(stack) \in Nat \ {0} /\ H!Top = stack[Len(stack)]
      /\ \A s \in 1..Len(stack) : stack[s] \in 1..Len(calls)
  BY TheTop DEF StackIsUnderWay
<1> DEFINE m == Len(stack) - 1
<1>2. m \in Int /\ 1 \in Int /\ \A s \in 1..m : stack[s] \in 1..Len(calls)
  BY <1>1
<1>3. stack' = SubSeq(stack, 1, m)
  BY DEF H!Front
<1>4. /\ stack' \in Seq(1..Len(calls)) /\ Len(stack') = IF 1 <= m THEN m - 1 + 1 ELSE 0
      /\ \A s \in 1..m - 1 + 1 : stack'[s] = stack[1 + s - 1]
  BY <1>2, <1>3, SubSeqProperties
<1>5. Len(stack') = m /\ \A s \in 1..m : stack'[s] = stack[s]
  <2>1. m \in Nat /\ m - 1 + 1 = m /\ \A s \in 1..m : 1 + s - 1 = s
    BY <1>1
  <2> HIDE DEF m
  <2>2. Len(stack') = m
    BY <1>4, <2>1
  <2>3. ASSUME NEW s \in 1..m PROVE stack'[s] = stack[s]
    BY <1>4, <2>1
  <2> QED
    BY <2>2, <2>3
<1>6. ASSUME NEW s \in 1..m PROVE s \in 1..Len(stack) /\ stack[s] # H!Top
  <2>1. s \in 1..Len(stack) /\ Len(stack) \in 1..Len(stack) /\ s < Len(stack)
    BY <1>1
  <2>2. stack[s] < stack[Len(stack)]
    BY <2>1 DEF StackIsUnderWay
  <2>3. stack[s] \in 1..Len(calls)
    BY <1>1, <2>1
  <2> QED
    BY <1>1, <2>1, <2>2, <2>3
<1> QED
  BY <1>4, <1>5, <1>6

LEMMA ReturnStep ==
    ASSUME HookInv, ~H!Idle, NEW v \in States, H!Return(v),
           v = "ok" => \/ calls[H!Top].child = 0 \/ behaviour[calls[H!Top].hook] = "drop"
    PROVE  HookInv'
<1> DEFINE t == H!Top
<1>1. /\ calls' = [calls EXCEPT ![t].st = v] /\ stack' = H!Front(stack)
      /\ UNCHANGED <<hooks, behaviour, ack, reported, unsubscribed>>
  BY DEF H!Return
<1>2. StackIsUnderWay /\ CallsAreATree
  BY DEF HookInv
<1>3. t \in 1..Len(calls) /\ calls[t].st \in {"entered", "resumed"}
  BY <1>2, TheTop
<1>4. /\ stack' \in Seq(1..Len(calls)) /\ Len(stack') = Len(stack) - 1
      /\ \A s \in 1..Len(stack') : s \in 1..Len(stack) /\ stack'[s] = stack[s] /\ stack[s] # t
  BY <1>1, <1>2, Popped
<1>5. v = "ok" => calls[t].child = 0 \/ behaviour[calls[t].hook] = "drop"
  OBVIOUS
<1> HIDE DEF t
<1>6. /\ calls' \in Seq(CallSet) /\ Len(calls') = Len(calls) /\ calls'[t].st = v
      /\ \A c \in 1..Len(calls) :
          /\ calls'[c].hook = calls[c].hook /\ calls'[c].index = calls[c].index
          /\ calls'[c].parent = calls[c].parent /\ calls'[c].child = calls[c].child
      /\ \A c \in 1..Len(calls) : c # t => calls'[c] = calls[c]
  BY <1>1, <1>3, OneChanges
<1>7. StackIsUnderWay'
  <2>1. ASSUME NEW s \in 1..Len(stack') PROVE calls'[stack'[s]].st \in {"entered", "resumed"}
    <3>1. stack'[s] = stack[s] /\ stack[s] # t /\ s \in 1..Len(stack)
      BY <1>4
    <3>2. stack[s] \in 1..Len(calls) /\ calls[stack[s]].st \in {"entered", "resumed"}
      BY <1>2, <3>1 DEF StackIsUnderWay
    <3> QED
      BY <1>6, <3>1, <3>2
  <2>2. ASSUME NEW s \in 1..Len(stack'), NEW r \in 1..Len(stack'), s < r
        PROVE  stack'[s] < stack'[r]
    <3>1. stack'[s] = stack[s] /\ stack'[r] = stack[r] /\ s \in 1..Len(stack) /\ r \in 1..Len(stack)
      BY <1>4
    <3> QED
      BY <1>2, <2>2, <3>1 DEF StackIsUnderWay
  <2> QED
    BY <1>4, <1>6, <2>1, <2>2 DEF StackIsUnderWay
<1>8. \A c \in 1..Len(calls) : calls[c].st \in {"ok", "failed"} => calls'[c].st = calls[c].st
  BY <1>3, <1>6
<1>9. \A c \in 1..Len(calls) :
          calls'[c].st = "ok" /\ calls[c].st # "ok" /\ calls[c].child # 0
              /\ behaviour[calls[c].hook] # "drop"
          => calls[calls[c].child].st = "ok"
  BY <1>3, <1>5, <1>6
<1> QED
  BY <1>1, <1>6, <1>7, <1>8, <1>9, StatesChange

LEMMA ThrowsStep ==
    ASSUME HookInv, H!Throws
    PROVE  HookInv'
<1> DEFINE n == Len(calls)
<1>1. /\ calls' = [c \in DOMAIN calls |->
                      IF H!Contains(stack, c) THEN [calls[c] EXCEPT !.st = "failed"] ELSE calls[c]]
      /\ stack' = <<>> /\ UNCHANGED <<hooks, behaviour, ack, reported, unsubscribed>>
  BY DEF H!Throws
<1>2. calls \in Seq(CallSet) /\ n \in Nat /\ DOMAIN calls = 1..n /\ \A c \in 1..n : calls[c] \in CallSet
  BY DEF HookInv, CallsAreATree
<1>3. ASSUME NEW c \in 1..n
      PROVE  /\ calls'[c] \in CallSet
             /\ calls'[c].hook = calls[c].hook /\ calls'[c].index = calls[c].index
             /\ calls'[c].parent = calls[c].parent /\ calls'[c].child = calls[c].child
             /\ \/ calls'[c] = calls[c]
                \/ calls'[c].st = "failed" /\ calls[c].st \in {"entered", "resumed"}
  <2>1. CASE H!Contains(stack, c)
    <3>1. calls'[c] = [calls[c] EXCEPT !.st = "failed"]
      BY <1>1, <1>2, <2>1
    <3>2. calls[c].st \in {"entered", "resumed"}
      BY <2>1 DEF H!Contains, HookInv, StackIsUnderWay
    <3>3. "failed" \in States
      BY DEF States
    <3> QED
      BY <1>2, <3>1, <3>2, <3>3, WithState
  <2>2. CASE ~H!Contains(stack, c)
    BY <1>1, <1>2, <2>2
  <2> QED
    BY <2>1, <2>2
<1>4. calls' \in Seq(CallSet) /\ Len(calls') = n
  <2>1. DOMAIN calls' = 1..n
    BY <1>1, <1>2
  <2>2. calls' \in [1..n -> CallSet]
    BY <1>1, <1>2, <1>3, <2>1
  <2> QED
    BY <1>2, <2>2
<1>5. StackIsUnderWay'
  BY <1>1 DEF StackIsUnderWay
<1> QED
  BY <1>1, <1>3, <1>4, <1>5, StatesChange

LEMMA ResumeStep ==
    ASSUME HookInv, NEW c \in DOMAIN calls, H!Resume(c)
    PROVE  HookInv'
<1>1. /\ calls[c].st = "suspended" /\ calls' = [calls EXCEPT ![c].st = "resumed"] /\ stack' = <<c>>
      /\ UNCHANGED <<hooks, behaviour, ack, reported, unsubscribed>>
  BY DEF H!Resume
<1>2. c \in 1..Len(calls) /\ "resumed" \in States
  BY DEF HookInv, CallsAreATree, States
<1>3. /\ calls' \in Seq(CallSet) /\ Len(calls') = Len(calls) /\ calls'[c].st = "resumed"
      /\ \A d \in 1..Len(calls) :
          /\ calls'[d].hook = calls[d].hook /\ calls'[d].index = calls[d].index
          /\ calls'[d].parent = calls[d].parent /\ calls'[d].child = calls[d].child
      /\ \A d \in 1..Len(calls) : d # c => calls'[d] = calls[d]
  BY <1>1, <1>2, OneChanges
<1>4. StackIsUnderWay'
  <2>1. <<c>> \in Seq(1..Len(calls)) /\ Len(<<c>>) = 1 /\ <<c>>[1] = c
    BY <1>2
  <2>2. \A s \in 1..1 : s = 1
    OBVIOUS
  <2> QED
    BY <1>1, <1>3, <2>1, <2>2 DEF StackIsUnderWay
<1> QED
  BY <1>1, <1>2, <1>3, <1>4, StatesChange

LEMMA SettleStep ==
    ASSUME HookInv, NEW c \in DOMAIN calls, H!Settle(c)
    PROVE  HookInv'
<1> DEFINE v == calls[calls[c].child].st
<1>1. /\ stack = <<>> /\ calls[c].st = "waiting" /\ v \in {"ok", "failed"}
      /\ calls' = [calls EXCEPT ![c].st = v]
      /\ UNCHANGED <<hooks, behaviour, stack, ack, reported, unsubscribed>>
  BY DEF H!Settle, H!Idle, H!Settled
<1>2. c \in 1..Len(calls) /\ v \in States
  BY <1>1 DEF HookInv, CallsAreATree, States
<1>3. v = "ok" => calls[calls[c].child].st = "ok"
  OBVIOUS
<1> HIDE DEF v
<1>4. /\ calls' \in Seq(CallSet) /\ Len(calls') = Len(calls) /\ calls'[c].st = v
      /\ \A d \in 1..Len(calls) :
          /\ calls'[d].hook = calls[d].hook /\ calls'[d].index = calls[d].index
          /\ calls'[d].parent = calls[d].parent /\ calls'[d].child = calls[d].child
      /\ \A d \in 1..Len(calls) : d # c => calls'[d] = calls[d]
  BY <1>1, <1>2, OneChanges
<1>5. StackIsUnderWay'
  BY <1>1 DEF StackIsUnderWay
<1> QED
  BY <1>1, <1>2, <1>3, <1>4, <1>5, StatesChange

LEMMA EmitStep ==
    ASSUME HookInv, H!Emit
    PROVE  HookInv'
<1>1. /\ calls = <<>> /\ stack = <<>> /\ ack = "none" /\ H!Invoke(hooks, calls, 1, 0, <<>>)
      /\ ack' = (IF hooks = <<>> THEN "ok" ELSE "none")
      /\ UNCHANGED <<hooks, behaviour, reported, unsubscribed>>
  BY DEF H!Emit, H!Idle
<1>2. hooks \in Seq(Hooks) /\ Len(hooks) \in Nat /\ HooksAreApart' /\ reported = 0
  BY <1>1 DEF HookInv, HooksAreApart, Resolved
<1>3. CASE hooks = <<>>
  <2>1. calls' = <<>> /\ stack' = <<>> /\ ack' = "ok"
    BY <1>1, <1>3 DEF H!Invoke
  <2> QED
    BY <1>1, <1>2, <2>1
       DEF HookInv, CallsAreATree, StackIsUnderWay, InPlace, PromisesHold, Resolved
<1>4. CASE hooks # <<>>
  <2> DEFINE r == H!Call(hooks[1], 1, 0)
  <2>1. 1 <= Len(hooks) /\ hooks[1] \in Hooks
    BY <1>2, <1>4
  <2>2. calls' = <<r>> /\ stack' = <<1>> /\ ack' = "none"
    BY <1>1, <1>4, <2>1 DEF H!Invoke
  <2>3. /\ r \in CallSet /\ r.hook = hooks[1] /\ r.index = 1 /\ r.parent = 0 /\ r.child = 0
        /\ r.st = "entered"
    BY <2>1 DEF H!Call, H!End, CallSet, States
  <2> HIDE DEF r
  <2>4. calls' \in Seq(CallSet) /\ Len(calls') = 1 /\ calls'[1] = r /\ 1..Len(calls') = {1}
    BY <2>2, <2>3
  <2>5. stack' \in Seq(1..Len(calls')) /\ Len(stack') = 1 /\ stack'[1] = 1 /\ 1..Len(stack') = {1}
    BY <2>2, <2>4
  <2>6. CallsAreATree' /\ InPlace' /\ PromisesHold'
    BY <1>1, <2>1, <2>3, <2>4 DEF CallsAreATree, InPlace, PromisesHold
  <2>7. StackIsUnderWay'
    BY <2>3, <2>4, <2>5 DEF StackIsUnderWay
  <2>8. Resolved'
    BY <1>1, <1>2, <2>2 DEF Resolved
  <2> QED
    BY <1>2, <2>6, <2>7, <2>8 DEF HookInv
<1> QED
  BY <1>3, <1>4

LEMMA RegisterStep ==
    ASSUME HookInv, NEW h \in Hooks, H!Register(h) \/ H!Unsubscribe(h)
    PROVE  HookInv'
<1>1. UNCHANGED <<behaviour, calls, stack, ack, reported>>
  BY DEF H!Register, H!Unsubscribe
<1>2. CallsAreATree' /\ StackIsUnderWay' /\ PromisesHold' /\ Resolved'
  BY <1>1 DEF HookInv, CallsAreATree, StackIsUnderWay, PromisesHold, Resolved
<1>3. CASE H!Register(h)
  <2>1. hooks' = Append(hooks, h) /\ ~H!Contains(hooks, h) /\ unsubscribed' = unsubscribed
    BY <1>3 DEF H!Register
  <2>2. hooks \in Seq(Hooks) /\ Len(hooks) \in Nat
        /\ \A i, j \in 1..Len(hooks) : hooks[i] = hooks[j] => i = j
    BY DEF HookInv, HooksAreApart
  <2>3. /\ hooks' \in Seq(Hooks) /\ Len(hooks') = Len(hooks) + 1 /\ hooks'[Len(hooks) + 1] = h
        /\ \A i \in 1..Len(hooks) : hooks'[i] = hooks[i]
    BY <2>1, <2>2, AppendProperties
  <2>4. \A i \in 1..Len(hooks) : hooks[i] # h
    BY <2>1 DEF H!Contains
  <2>5. HooksAreApart'
    <3>1. ASSUME NEW i \in 1..Len(hooks'), NEW j \in 1..Len(hooks'), hooks'[i] = hooks'[j]
          PROVE  i = j
      BY <2>2, <2>3, <2>4, <3>1
    <3> QED
      BY <1>1, <2>3, <3>1 DEF HookInv, HooksAreApart
  <2>6. InPlace'
    <3> SUFFICES ASSUME ~unsubscribed, NEW c \in 1..Len(calls)
                 PROVE  /\ calls[c].index <= Len(hooks') /\ hooks'[calls[c].index] = calls[c].hook
                        /\ calls[c].parent # 0 => calls[calls[c].parent].index + 1 = calls[c].index
      BY <1>1, <2>1 DEF InPlace
    <3>1. /\ calls[c].index <= Len(hooks) /\ hooks[calls[c].index] = calls[c].hook
          /\ calls[c].parent # 0 => calls[calls[c].parent].index + 1 = calls[c].index
      BY DEF HookInv, InPlace
    <3>2. calls[c].index \in Nat \ {0}
      BY Links DEF HookInv
    <3> QED
      BY <2>2, <2>3, <3>1, <3>2
  <2> QED
    BY <1>2, <2>5, <2>6 DEF HookInv
<1>4. CASE H!Unsubscribe(h)
  <2>1. hooks' = H!Spliced(h) /\ unsubscribed' = (calls # <<>>)
    BY <1>4 DEF H!Unsubscribe
  <2>2. HooksAreApart'
    BY <1>1, <2>1, SplicedIsApart DEF HookInv, HooksAreApart
  <2>3. InPlace'
    <3> SUFFICES ASSUME ~unsubscribed' PROVE \A c \in 1..Len(calls') : FALSE
      BY DEF InPlace
    <3>1. calls' = <<>>
      BY <1>1, <2>1
    <3> QED
      BY <3>1
  <2> QED
    BY <1>2, <2>2, <2>3 DEF HookInv
<1> QED
  BY <1>3, <1>4

LEMMA CallNextStep ==
    ASSUME HookInv, H!CallNext \/ H!CallNextOnce
    PROVE  HookInv'
<1>1. CASE H!CallNext
  <2>1. ~H!Idle /\ behaviour[calls[H!Top].hook] # "answer" /\ H!Goes(hooks, calls)
        /\ UNCHANGED <<hooks, behaviour, ack, reported, unsubscribed>>
    BY <1>1 DEF H!CallNext
  <2>2. HooksAreApart' /\ H!Goes(hooks', calls)
    BY <2>1 DEF HookInv, HooksAreApart
  <2> QED
    BY <2>1, <2>2, GoesStep
<1>2. CASE H!CallNextOnce
  <2> DEFINE h == calls[H!Top].hook
  <2>1. ~H!Idle /\ behaviour[h] = "once" /\ hooks' = H!Spliced(h) /\ unsubscribed' = TRUE
        /\ H!Goes(hooks', calls) /\ UNCHANGED <<behaviour, ack, reported>>
    BY <1>2 DEF H!CallNextOnce, H!Does
  <2>2. h \in Hooks
    BY <2>1, TheTop DEF HookInv, CallSet
  <2> HIDE DEF h
  <2>3. HooksAreApart'
    BY <2>1, <2>2, SplicedIsApart DEF HookInv, HooksAreApart
  <2>4. behaviour[calls[H!Top].hook] # "answer"
    BY <2>1 DEF h
  <2> QED
    BY <2>1, <2>3, <2>4, GoesStep
<1> QED
  BY <1>1, <1>2

LEMMA ReturnsStep ==
    ASSUME HookInv, H!ReturnNext \/ H!ReturnValue \/ H!Await \/ H!Rejects
    PROVE  HookInv'
<1>0. ~H!Idle
  BY DEF H!ReturnNext, H!ReturnValue, H!Await, H!Rejects, H!Does
<1>1. CASE H!ReturnNext
  <2>1. H!Return(IF calls[H!Top].child = 0 THEN "ok" ELSE "waiting")
    BY <1>1 DEF H!ReturnNext, H!End
  <2>2. CASE calls[H!Top].child = 0
    BY <1>0, <2>1, <2>2, ReturnStep DEF States
  <2>3. CASE calls[H!Top].child # 0
    BY <1>0, <2>1, <2>3, ReturnStep DEF States
  <2> QED
    BY <2>2, <2>3
<1>2. CASE H!ReturnValue
  <2>1. H!Return("ok") /\ behaviour[calls[H!Top].hook] \in {"answer", "drop"}
    BY <1>2 DEF H!ReturnValue, H!Does
  <2>2. behaviour[calls[H!Top].hook] = "answer" => calls[H!Top].child = 0
    BY <1>0, TheTop DEF HookInv, PromisesHold
  <2> QED
    BY <1>0, <2>1, <2>2, ReturnStep DEF States
<1>3. CASE H!Await
  BY <1>0, <1>3, ReturnStep DEF States, H!Await
<1>4. CASE H!Rejects
  BY <1>0, <1>4, ReturnStep DEF States, H!Rejects
<1> QED
  BY <1>1, <1>2, <1>3, <1>4

LEMMA ResolveStep ==
    ASSUME HookInv, H!Resolve
    PROVE  HookInv'
<1>1. /\ ack = "none" /\ calls # <<>> /\ calls[1].st \in {"ok", "failed"} /\ ack' = calls[1].st
      /\ reported' = (IF calls[1].st = "failed" THEN reported + 1 ELSE reported)
      /\ UNCHANGED <<hooks, behaviour, calls, stack, unsubscribed>>
  BY DEF H!Resolve, H!Settled
<1>2. Resolved'
  BY <1>1 DEF HookInv, Resolved
<1>3. HooksAreApart' /\ CallsAreATree' /\ StackIsUnderWay' /\ InPlace' /\ PromisesHold'
  BY <1>1 DEF HookInv, HooksAreApart, CallsAreATree, StackIsUnderWay, InPlace, PromisesHold
<1> QED
  BY <1>2, <1>3 DEF HookInv

-----------------------------------------------------------------------------
LEMMA HooksInitially == MCInit => HookInv
<1> SUFFICES ASSUME MCInit PROVE HookInv
  OBVIOUS
<1>1. H!Init
  BY DEF MCInit
<1>2. PICK hs \in SeqOf(Hooks, 3) : hs = hooks /\ \A i, j \in DOMAIN hs : hs[i] = hs[j] => i = j
  BY <1>1 DEF H!Init, H!SeqOf, SeqOf, H!IsInjective
<1>3. PICK m \in 0..3 : hs \in [1..m -> Hooks]
  BY <1>2 DEF SeqOf
<1>4. hs \in Seq(Hooks) /\ Len(hs) = m /\ DOMAIN hs = 1..m
  BY <1>3
<1>5. HooksAreApart
  <2>1. behaviour \in [Hooks -> Behaviours]
    BY <1>1 DEF H!Init
  <2> QED
    BY <1>2, <1>4, <2>1 DEF HooksAreApart
<1>6. calls = <<>> /\ stack = <<>> /\ ack = "none" /\ reported = 0 /\ unsubscribed = FALSE
  BY <1>1 DEF H!Init
<1> QED
  BY <1>5, <1>6 DEF HookInv, CallsAreATree, StackIsUnderWay, InPlace, PromisesHold, Resolved

LEMMA HooksStep == HookInv /\ H!Next => HookInv'
  BY RegisterStep, EmitStep, CallNextStep, ReturnsStep, ThrowsStep, ResumeStep, SettleStep, ResolveStep
     DEF H!Next

LEMMA HooksStutter == HookInv /\ UNCHANGED hookVars => HookInv'
<1> SUFFICES ASSUME HookInv, UNCHANGED <<hooks, behaviour, calls, stack, ack, reported, unsubscribed>>
             PROVE  HookInv'
  BY DEF hookVars
<1>1. HooksAreApart' /\ CallsAreATree'
  BY DEF HookInv, HooksAreApart, CallsAreATree
<1>2. StackIsUnderWay' /\ InPlace'
  BY DEF HookInv, StackIsUnderWay, InPlace
<1>3. PromisesHold' /\ Resolved'
  BY DEF HookInv, PromisesHold, Resolved
<1> QED
  BY <1>1, <1>2, <1>3 DEF HookInv

LEMMA HooksMeaning ==
    ASSUME HookInv
    PROVE  H!HooksTypeOK /\ H!ChainInOrder /\ H!FailuresAreReported
<1> DEFINE n == Len(calls)
<1>1. calls \in Seq(CallSet) /\ n \in Nat /\ DOMAIN calls = 1..n /\ stack \in Seq(1..n)
      /\ CallsAreATree /\ \A c \in 1..n : calls[c] \in CallSet
  BY DEF HookInv, CallsAreATree, StackIsUnderWay
<1>2. H!HooksTypeOK
  <2>1. ASSUME NEW c \in 1..n
        PROVE  /\ calls[c].hook \in Hooks /\ calls[c].parent < c
               /\ calls[c].child \in {0} \cup (c + 1)..n
               /\ calls[c].st \in States
    BY <1>1, Links DEF CallSet
  <2>2. \A s \in DOMAIN stack : stack[s] \in DOMAIN calls
    BY <1>1
  <2>3. hooks \in Seq(Hooks) /\ behaviour \in [Hooks -> Behaviours]
        /\ ack \in {"none", "ok", "failed"} /\ reported \in 0..1
    BY DEF HookInv, HooksAreApart, Resolved
  <2> QED
    BY <1>1, <2>1, <2>2, <2>3 DEF H!HooksTypeOK, H!End, States
<1>3. H!ChainInOrder
  <2> SUFFICES ASSUME ~unsubscribed, NEW c \in DOMAIN calls, calls[c].parent # 0
               PROVE  \E i \in 1..Len(hooks) - 1 :
                         hooks[i] = calls[calls[c].parent].hook /\ hooks[i + 1] = calls[c].hook
    BY DEF H!ChainInOrder
  <2> DEFINE p == calls[c].parent
             i == calls[p].index
  <2>1. c \in 1..n /\ p \in 1..n
    BY <1>1, Links
  <2>2. /\ i + 1 = calls[c].index /\ hooks[i] = calls[p].hook
        /\ calls[c].index <= Len(hooks) /\ hooks[calls[c].index] = calls[c].hook
    BY <2>1 DEF HookInv, InPlace
  <2>3. i \in Nat \ {0} /\ Len(hooks) \in Nat
    BY <1>1, <2>1, Links DEF HookInv, HooksAreApart
  <2> HIDE DEF i
  <2>4. i \in 1..Len(hooks) - 1
    BY <2>2, <2>3
  <2> QED
    BY <2>2, <2>4
<1>4. H!FailuresAreReported
  <2>1. ASSUME ack = "failed" PROVE reported = 1 /\ \E c \in H!Awaited : calls[c].st = "failed"
    <3>1. reported = 1 /\ calls # <<>> /\ calls[1].st = "failed"
      BY <2>1 DEF HookInv, Resolved
    <3>2. 1 \in DOMAIN calls
      BY <1>1, <3>1
    <3>3. 1 \in H!Awaited
      BY <3>2 DEF H!Awaited
    <3> QED
      BY <3>1, <3>3
  <2>2. ASSUME ack = "ok", NEW c \in H!Awaited PROVE calls[c].st = "ok"
    <3> DEFINE cs == {d \in 1..n : calls[d].st = "ok"}
    <3>1. calls # <<>>
      BY <1>1 DEF H!Awaited
    <3>2. 1 \in cs
      BY <1>1, <2>2, <3>1 DEF HookInv, Resolved
    <3>3. ASSUME NEW d \in cs, H!Awaits(d) PROVE calls[d].child \in cs
      <4>1. calls[d].child # 0 /\ behaviour[calls[d].hook] # "drop"
        BY <3>3 DEF H!Awaits, H!End
      <4>2. calls[calls[d].child].st = "ok"
        BY <4>1 DEF HookInv, PromisesHold
      <4>3. calls[d].child \in 1..n
        BY <1>1, <4>1, Links
      <4> QED
        BY <4>2, <4>3
    <3>4. cs \in SUBSET DOMAIN calls
      BY <1>1
    <3>5. c \in cs
      <4> HIDE DEF cs
      <4> QED
        BY <3>2, <3>3, <3>4 DEF H!Awaited
    <3> QED
      BY <3>5
  <2>3. ack = "ok" => reported = 0
    BY DEF HookInv, Resolved
  <2> QED
    BY <2>1, <2>2, <2>3 DEF H!FailuresAreReported
<1> QED
  BY <1>2, <1>3, <1>4

(* The hooks of a chain are called in the order of their registration while
   nobody unsubscribes; an emit fails when, and only when, a promise that it
   waited for failed, and that is reported once.                           *)
THEOREM ChainsAreHonoured == MCSpec => []HooksAreHonoured
<1>1. HookInv /\ [MCNext]_<<part, hookVars, serverVars, syncVars>> => HookInv'
  BY HooksStep, HooksStutter DEF MCNext
<1>2. HookInv => HooksAreHonoured
  BY HooksMeaning DEF HooksAreHonoured
<1> QED
  BY HooksInitially, <1>1, <1>2, PTL DEF MCSpec
=============================================================================
