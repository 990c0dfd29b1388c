----------------------------- MODULE SchemaSync -----------------------------
(***************************************************************************)
(* The command `livon` (packages/cli/src/index.ts): it asks a server for   *)
(* its schema, writes the client generated from it file by file, builds    *)
(* it, and starts the linked command; with --poll it goes on asking.       *)
(*                                                                         *)
(* The server's schema may change at any time, a request, a write or a     *)
(* build may fail, and the process may be killed between any two steps and *)
(* be started again.  The server sends its answers to all its clients, and *)
(* the process takes any answer for its own: other processes ask as well.  *)
(* A schema stands for its checksum, its etag and the sources generated    *)
(* from it.  Waiting before a retry takes no step.                         *)
(***************************************************************************)
EXTENDS Naturals, FiniteSets

CONSTANTS
    Schemas,
    Nothing,        \* no file, or one that is incomplete
    MaxAttempts,    \* maxAttempts
    MaxFailures,    \* bound: requests, writes and builds that fail, and answers to others
    MaxChanges,     \* bound: changes of the server's schema
    MaxStarts       \* bound: starts of the process

(* What the constants may be; the instances are checked against it. *)
SyncConstants ==
    /\ Nothing \notin Schemas
    /\ MaxAttempts \in Nat \ {0} /\ MaxFailures \in Nat /\ MaxChanges \in Nat /\ MaxStarts \in Nat \ {0}

VARIABLES
    options,      \* poll is set, and a command is linked
    served,       \* the server's schema
    disk,         \* per file: the schema it was made from
    phase,        \* how far run() is
    pending,      \* initialSyncPending
    etag,         \* what the request under way asks for: cachedEtag
    got,          \* the schema of the answer
    attempt,      \* runAttempt: attempt and resetApplied
    command,      \* the linked command: none, running or exited
    budget,       \* how many failures, changes and starts have happened
    told,         \* history: what the server told this process in its last tick, if that succeeded
    failed        \* history: what of "files" and "build" failed, or was left out for an
                  \* answer to another process, since it last succeeded

syncVars == <<options, served, disk, phase, pending, etag, got, attempt, command, budget, told, failed>>

Written == {"ast", "client", "index", "checksum"}    \* by writeClientFiles, in this order
Files   == Written \cup {"manifest", "dist"}
Phases  == Written \cup {"execute", "asked", "updated", "current", "manifest", "build", "idle",
                         "linked", "stopped"}
First   == [n |-> 0, resetApplied |-> FALSE]

NextPhase == [ast |-> "client", client |-> "index", index |-> "checksum", checksum |-> "updated"]

SyncInit ==
    /\ options \in [poll : BOOLEAN, linked : BOOLEAN]
    /\ served \in Schemas
    /\ disk = [f \in Files |-> Nothing]
    /\ phase = "execute" /\ pending = TRUE
    /\ etag = Nothing /\ got = Nothing
    /\ attempt = First /\ command = "none"
    /\ budget = [failures |-> 0, changes |-> 0, starts |-> 1]
    /\ told = Nothing /\ failed = {}

Spend(what, limit) == budget[what] < limit /\ budget' = [budget EXCEPT ![what] = @ + 1]

-----------------------------------------------------------------------------
(* The server is started again with another schema. *)
SchemaChanges(s) ==
    /\ s # served /\ served' = s
    /\ Spend("changes", MaxChanges)
    /\ UNCHANGED <<options, disk, phase, pending, etag, got, attempt, command, told, failed>>

(* Mutant: the sources on the disk are what is asked about. *)
AsksAboutSources ==
    /\ phase = "execute"
    /\ phase' = "asked"
    /\ etag' = IF pending THEN Nothing ELSE disk["ast"]
    /\ UNCHANGED <<options, served, disk, pending, got, attempt, command, budget, told, failed>>

(* execute: only a process that has synced once asks for changes only. *)
Asks ==
    /\ phase = "execute"
    /\ phase' = "asked"
    /\ etag' = IF pending THEN Nothing ELSE disk["checksum"]
    /\ UNCHANGED <<options, served, disk, pending, got, attempt, command, budget, told, failed>>

(* withRetry: the next attempt; one failure of a request that was connected
   makes it the first again.  After the last the tick gives up, or the
   process ends.                                                           *)
Retries(connected) ==
    LET reset == connected /\ ~attempt.resetApplied
        next  == IF reset THEN 1 ELSE attempt.n + 1
    IN IF next >= MaxAttempts
       THEN /\ attempt' = First
            /\ phase' = IF options.poll THEN "idle" ELSE "stopped"
            /\ told' = Nothing
       ELSE /\ attempt' = [n |-> next, resetApplied |-> attempt.resetApplied \/ reset]
            /\ phase' = "execute"
            /\ UNCHANGED told

(* The request is refused, or times out, or fails when it was connected. *)
RequestFails(connected) ==
    /\ phase = "asked"
    /\ Spend("failures", MaxFailures) /\ Retries(connected)
    /\ UNCHANGED <<options, served, disk, pending, etag, got, command, failed>>

(* The tick is done: the linked command is started, once. *)
Succeeds ==
    /\ attempt' = First
    /\ command' = IF options.linked /\ command = "none" THEN "running" ELSE command
    /\ phase' = IF options.poll THEN "idle" ELSE IF options.linked THEN "linked" ELSE "stopped"

NotModified ==
    /\ phase = "asked" /\ etag = served
    /\ pending' = FALSE /\ told' = served
    /\ Succeeds
    /\ UNCHANGED <<options, served, disk, etag, got, budget, failed>>

(* Messages are told by the name of their event alone: the answer to another
   process, that nothing has changed for it, ends the tick as well.         *)
AnotherIsNotModified ==
    /\ phase = "asked"
    /\ pending' = FALSE /\ told' = Nothing /\ failed' = {"files", "build"}
    /\ Spend("failures", MaxFailures) /\ Succeeds
    /\ UNCHANGED <<options, served, disk, etag, got>>

(* Mutant: the first sync of a process trusts the files it finds. *)
FilesTrusted == disk["checksum"] = served

(* writeClientFiles leaves everything as it is when the recorded etag is the
   one of the answer, unless this is the first sync of the process.        *)
FilesAreCurrent == ~pending /\ disk["checksum"] = served

(* The answer has the schema; so has one to another process. *)
TakesSchema ==
    /\ phase = "asked"
    /\ got' = served
    /\ phase' = IF FilesAreCurrent THEN "current" ELSE "ast"
    /\ UNCHANGED <<options, served, disk, pending, etag, attempt, command, told, failed>>

GetsSchema == etag # served /\ TakesSchema /\ UNCHANGED budget
AnotherGetsSchema == etag = served /\ TakesSchema /\ Spend("failures", MaxFailures)

(* generateClientFiles throws, before anything is written. *)
GenerateFails ==
    /\ phase = "ast"
    /\ Spend("failures", MaxFailures) /\ Retries(FALSE)
    /\ UNCHANGED <<options, served, disk, pending, etag, got, command, failed>>

Writes(f) ==
    /\ phase = f
    /\ disk' = [disk EXCEPT ![f] = got]
    /\ phase' = NextPhase[f]
    /\ failed' = IF f = "checksum" THEN failed \ {"files"} ELSE failed
    /\ UNCHANGED <<options, served, pending, etag, got, attempt, command, budget, told>>

Damaged(f) == {disk, [disk EXCEPT ![f] = Nothing]}

WriteFails(f) ==
    /\ phase = f
    /\ disk' \in Damaged(f)
    /\ failed' = failed \cup {"files"}
    /\ Spend("failures", MaxFailures) /\ Retries(FALSE)
    /\ UNCHANGED <<options, served, pending, etag, got, command>>

(* After the files: what was written is built, and what has no manifest.
   initialSyncPending is cleared before the build.                         *)
DecidesToBuild ==
    /\ phase \in {"updated", "current"}
    /\ pending' = FALSE
    /\ IF phase = "updated" \/ disk["manifest"] = Nothing
       THEN phase' = "manifest" /\ UNCHANGED <<attempt, command, told>>
       ELSE Succeeds /\ told' = got
    /\ UNCHANGED <<options, served, disk, etag, got, budget, failed>>

WritesManifest ==
    /\ phase = "manifest"
    /\ disk' = [disk EXCEPT !["manifest"] = got]
    /\ phase' = "build"
    /\ UNCHANGED <<options, served, pending, etag, got, attempt, command, budget, told, failed>>

(* rslib builds what is on the disk. *)
Built == IF disk["ast"] = disk["client"] /\ disk["client"] = disk["index"] THEN disk["ast"] ELSE Nothing

Builds ==
    /\ phase = "build"
    /\ disk' = [disk EXCEPT !["dist"] = Built]
    /\ told' = got /\ failed' = failed \ {"build"}
    /\ Succeeds
    /\ UNCHANGED <<options, served, pending, etag, got, budget>>

BuildFails(f) ==
    /\ phase = (IF f = "dist" THEN "build" ELSE "manifest")
    /\ disk' \in Damaged(f)
    /\ failed' = failed \cup {"build"}
    /\ Spend("failures", MaxFailures) /\ Retries(FALSE)
    /\ UNCHANGED <<options, served, pending, etag, got, command>>

(* setTimeout(tick): the next tick starts its attempts anew. *)
Ticks ==
    /\ phase = "idle" /\ phase' = "execute"
    /\ UNCHANGED <<options, served, disk, pending, etag, got, attempt, command, budget, told, failed>>

(* A signal, or the exit of the linked command, ends the process and with it
   the command; what was being written may be incomplete.                  *)
Underway == CASE phase \in Written \cup {"manifest"} -> Damaged(phase)
              [] phase = "build" -> Damaged("dist")
              [] OTHER -> {disk}

Exits ==
    /\ phase # "stopped" /\ phase' = "stopped"
    /\ disk' \in Underway
    /\ command' = IF command = "running" THEN "exited" ELSE command
    /\ UNCHANGED <<options, served, pending, etag, got, attempt, budget, told, failed>>

(* The command is started again, and finds the files. *)
Starts ==
    /\ phase = "stopped"
    /\ Spend("starts", MaxStarts)
    /\ phase' = "execute" /\ pending' = TRUE
    /\ etag' = Nothing /\ got' = Nothing /\ attempt' = First /\ command' = "none"
    /\ told' = Nothing /\ failed' = {}
    /\ UNCHANGED <<options, served, disk>>

Steps ==
    \/ Asks \/ NotModified \/ GetsSchema \/ DecidesToBuild \/ WritesManifest \/ Builds \/ Ticks
    \/ \E f \in Written : Writes(f)

SyncNext ==
    \/ Steps \/ GenerateFails \/ Exits \/ Starts
    \/ AnotherIsNotModified \/ AnotherGetsSchema
    \/ \E s \in Schemas : SchemaChanges(s)
    \/ \E connected \in BOOLEAN : RequestFails(connected)
    \/ \E f \in Written : WriteFails(f)
    \/ \E f \in {"manifest", "dist"} : BuildFails(f)

(* Requests are answered or time out, and writes and builds end. *)
SyncFairness == WF_syncVars(Steps)

-----------------------------------------------------------------------------
SyncTypeOK ==
    /\ options \in [poll : BOOLEAN, linked : BOOLEAN] /\ served \in Schemas
    /\ disk \in [Files -> Schemas \cup {Nothing}] /\ phase \in Phases
    /\ {etag, got, told} \subseteq Schemas \cup {Nothing}
    /\ attempt \in [n : 0..MaxAttempts - 1, resetApplied : BOOLEAN]
    /\ command \in {"none", "running", "exited"}
    /\ pending \in BOOLEAN /\ failed \subseteq {"files", "build"}

Resting == phase \in {"idle", "linked"} /\ told # Nothing

(* Whatever the process was doing when it was killed, and in whatever state
   it left the files: the first tick that succeeds after the next start has
   put all of them right, the build included, and they stay so until a write
   or a build fails in this process, or it takes an answer to another process
   for its own; after that, until all was written and built again.  The
   checksum that requests are made with is the one the server gave in a tick
   that succeeded, whatever has failed before.                             *)
SyncedIsWhole ==
    /\ Resting => disk["checksum"] = told
    /\ Resting /\ failed = {} => \A f \in Files \ {"manifest"} : disk[f] = told

(* A process that polls and is not killed ends up with what the server
   serves, when that stays the same and failures stop.                     *)
PollingCatchesUp ==
    options.poll /\ <>[](phase # "stopped") => <>[](disk["checksum"] = served)

(* packages/cli/README.md:38: "`livon` always runs in `rslib` mode after
   sync": a tick that succeeded has left a build of what it synced.        *)
SyncIsBuilt == Resting => disk["dist"] = disk["checksum"]
=============================================================================
