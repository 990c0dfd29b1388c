------------------------------ MODULE Releases ------------------------------
(***************************************************************************)
(* The release tools (tools/release): sync-root-version.mjs brings the     *)
(* packages to one version, release-check.mjs packs every package with a   *)
(* manifest fit for publication, and changeset-publish.mjs publishes with  *)
(* such manifests.  The last two write the manifests over the package.json *)
(* files of the workspace (publish-manifests.mjs) and put the originals    *)
(* back when they are through.  Any read, write or command may fail, and   *)
(* the process may be killed between two of them.                          *)
(*                                                                         *)
(* A manifest is what the tools look at: the version, whether the package  *)
(* is private, the ranges of its dependencies, the conditions of its       *)
(* exports by subpath, whether it has scripts and devDependencies, whether *)
(* it is described, and what pnpm packs.                                   *)
(***************************************************************************)
EXTENDS Naturals, Sequences, FiniteSets, SequencesExt, FiniteSetsExt

CONSTANTS
    Workspaces,    \* by package: its manifest
    RootVersion,   \* the version in the package.json of the root
    Bumps,         \* versions that `changeset version` gives to packages
    MaxStarts      \* bounds how many tools are started

VARIABLES
    files,         \* by package: the manifest on disk
    root,          \* the version of the root
    tool,          \* "none", "check", "publish" or "sync"
    step,          \* "idle", "apply", "work" or "restore"
    todo,          \* packages this step has still to do
    readIn,        \* by package: the manifest the tool read when it started
    backups,       \* by package: the manifest to put back
    errors,        \* what the check found
    starts,        \* how many tools were started
    sources,       \* history: the manifests as they were last committed
    mishap,        \* history: a tool ended without putting back
    passed,        \* history: the sources that last passed the check, or <<>>
    published      \* history: by package, the manifest last published

releaseVars == <<files, root, tool, step, todo, readIn, backups, errors, starts, sources, mishap, passed, published>>

(* Versions, whose identifiers are numbers or words; a word is its place in
   the order of words.  Manifests, by package.                             *)
IsRange(r) == r = [spec |-> r.spec, workspace |-> r.workspace, pinned |-> r.pinned]
IsIdentifier(i) == i = [numeric |-> i.numeric, value |-> i.value] /\ i.numeric \in BOOLEAN /\ i.value \in Nat
IsVersion(v) ==
    /\ v = [major |-> v.major, minor |-> v.minor, patch |-> v.patch, prerelease |-> v.prerelease]
    /\ {v.major, v.minor, v.patch} \subseteq Nat
    /\ v.prerelease \in Seq({v.prerelease[i] : i \in DOMAIN v.prerelease})
    /\ \A i \in DOMAIN v.prerelease : IsIdentifier(v.prerelease[i])
IsManifest(m) ==
    /\ IsVersion(m.version)
    /\ m = [version |-> m.version, private |-> m.private, ranges |-> m.ranges, exports |-> m.exports,
            dev |-> m.dev, described |-> m.described, packs |-> m.packs]
    /\ \A name \in DOMAIN m.ranges : IsRange(m.ranges[name])
AreManifests(w) == w = [p \in DOMAIN w |-> w[p]] /\ \A p \in DOMAIN w : IsManifest(w[p])

ReleaseConstants ==
    /\ \A w \in Workspaces : IsFiniteSet(DOMAIN w) /\ AreManifests(w)
    /\ \A v \in Bumps : IsVersion(v)

NoneOf == [p \in {} |-> <<>>]

ReleaseInit ==
    /\ files \in Workspaces /\ sources = files /\ root = RootVersion
    /\ tool = "none" /\ step = "idle" /\ todo = <<>>
    /\ readIn = NoneOf /\ backups = NoneOf /\ errors = {}
    /\ starts = 0 /\ mishap = FALSE /\ passed = <<>> /\ published = NoneOf

-----------------------------------------------------------------------------
(* comparePrereleaseIdentifiers: numbers come before words. *)
IdentifierNewer(left, right) ==
    IF left.numeric = right.numeric THEN left.value > right.value ELSE right.numeric

(* compareVersions, for the prereleases of one version: none is the newest,
   and of two of which one goes on where the other ends the longer is.     *)
PrereleaseIsNewer(left, right) ==
    LET common == {i \in DOMAIN left \cap DOMAIN right : left[i] # right[i]}
    IN CASE left = <<>> \/ right = <<>> -> left = <<>> /\ right # <<>>
         [] common # {} -> IdentifierNewer(left[Min(common)], right[Min(common)])
         [] OTHER -> Len(left) > Len(right)

Newer(left, right) ==
    CASE left.major # right.major -> left.major > right.major
      [] left.major = right.major /\ left.minor # right.minor -> left.minor > right.minor
      [] left.major = right.major /\ left.minor = right.minor /\ left.patch # right.patch -> left.patch > right.patch
      [] OTHER -> PrereleaseIsNewer(left.prerelease, right.prerelease)

(* Mutant: the first of the list in order, not the last. *)
TargetVersionFirst(manifests) ==
    LET versions == {manifests[p].version : p \in DOMAIN manifests}
    IN CHOOSE v \in versions : \A w \in versions : ~Newer(v, w)

(* resolveTargetVersion *)
TargetVersion(manifests) ==
    LET versions == {manifests[p].version : p \in DOMAIN manifests}
    IN CHOOSE v \in versions : \A w \in versions : ~Newer(w, v)

-----------------------------------------------------------------------------
(* resolveWorkspaceRange: a range of the workspace becomes one of the version
   the package has; of a package that is not there it is kept.             *)
ResolveRange(name, range, manifests) ==
    IF range.workspace /\ name \in DOMAIN manifests
    THEN [range EXCEPT !.workspace = FALSE,
                       !.pinned = IF range.spec \in {"", "*", "^", "^*", "~", "~*"}
                                  THEN <<manifests[name].version>> ELSE <<>>]
    ELSE range

(* sanitizeExports: without the condition development, and without what is
   empty then.                                                             *)
SanitizeExports(exports) ==
    [s \in {x \in DOMAIN exports : exports[x] \ {"development"} # {}} |-> exports[s] \ {"development"}]

(* sanitizePackageJson, of a package among the manifests that were read *)
Sanitize(m, manifests) ==
    [m EXCEPT !.exports = SanitizeExports(@), !.dev = FALSE,
              !.ranges = [name \in DOMAIN @ |-> ResolveRange(name, @[name], manifests)]]

(* validatePackedEntries: what has to be in the package, and what must not. *)
PackedIssues(m) ==
    {f \in {"README", "LICENSE", "NOTICES"} : f \notin m.packs}
    \cup {f \in {"src", "tests", "legacy"} : f \in m.packs}
    \cup (IF DOMAIN m.exports # {} /\ "dist" \notin m.packs THEN {"dist"} ELSE {})

(* validateSanitizedManifest *)
ManifestIssues(m) ==
    {name \in DOMAIN m.ranges : m.ranges[name].workspace \/ m.ranges[name].spec = "latest"}
    \cup (IF m.dev THEN {"dev"} ELSE {})
    \cup (IF m.described THEN {} ELSE {"described"})
    \cup (IF \E s \in DOMAIN m.exports : "development" \in m.exports[s] THEN {"development"} ELSE {})

-----------------------------------------------------------------------------
(* collectPublishablePackages, loadWorkspacePackageVersions *)
Publishable(manifests) == SetToSeq({p \in DOMAIN manifests : ~manifests[p].private})

Begin(which) ==
    /\ step = "idle" /\ starts < MaxStarts
    /\ starts' = starts + 1
    /\ tool' = which /\ step' = "apply" /\ readIn' = files
    /\ todo' = IF which = "sync"
               THEN SetToSeq({p \in DOMAIN files : files[p].version # TargetVersion(files)})
               ELSE Publishable(files)
    /\ backups' = NoneOf /\ errors' = {}
    /\ UNCHANGED <<files, root, sources, mishap, passed, published>>

End == tool' = "none" /\ step' = "idle" /\ todo' = <<>>

(* applySanitizedPackageJsons, one package: the backup is kept in a list that
   the caller has only when all are written.                               *)
ApplyOne ==
    LET p == Head(todo)
    IN /\ tool \in {"check", "publish"} /\ step = "apply" /\ todo # <<>>
       /\ backups' = [q \in DOMAIN backups \cup {p} |-> IF q = p THEN files[p] ELSE backups[q]]
       /\ files' = [files EXCEPT ![p] = Sanitize(@, readIn)]
       /\ todo' = Tail(todo)
       /\ UNCHANGED <<root, tool, step, readIn, errors, starts, sources, mishap, passed, published>>

Applied ==
    /\ tool \in {"check", "publish"} /\ step = "apply" /\ todo = <<>>
    /\ step' = "work" /\ todo' = Publishable(readIn)
    /\ UNCHANGED <<files, root, tool, readIn, backups, errors, starts, sources, mishap, passed, published>>

(* A manifest that cannot be read or written: the check restores from the
   list it has, which is empty; the publication is not in its try yet.     *)
ApplyFails ==
    /\ tool \in {"check", "publish"} /\ step = "apply" /\ todo # <<>>
    /\ mishap' = (mishap \/ DOMAIN backups # {})
    /\ End
    /\ UNCHANGED <<files, root, readIn, backups, errors, starts, sources, passed, published>>

(* The rest of run in release-check.mjs: one package is packed and looked at;
   the manifest looked at is made again from what was read at the start.   *)
PackOne ==
    LET p == Head(todo)
    IN /\ tool = "check" /\ step = "work" /\ todo # <<>>
       /\ errors' = errors \cup ({p} \X (PackedIssues(readIn[p]) \cup ManifestIssues(Sanitize(readIn[p], readIn))))
       /\ todo' = Tail(todo)
       /\ UNCHANGED <<files, root, tool, step, readIn, backups, starts, sources, mishap, passed, published>>

(* changeset publish, and run in changeset-publish.mjs: packages go out one
   after the other.                                                        *)
PublishOne ==
    LET p == Head(todo)
    IN /\ tool = "publish" /\ step = "work" /\ todo # <<>>
       /\ published' = [q \in DOMAIN published \cup {p} |-> IF q = p THEN files[p] ELSE published[q]]
       /\ todo' = Tail(todo)
       /\ UNCHANGED <<files, root, tool, step, readIn, backups, errors, starts, sources, mishap, passed>>

(* Mutant: only what was packed and published is put back. *)
WorkEndsShort ==
    /\ tool \in {"check", "publish"} /\ step = "work"
    /\ step' = "restore" /\ todo' = SetToSeq(DOMAIN backups \ ToSet(todo))
    /\ UNCHANGED <<files, root, tool, readIn, backups, errors, starts, sources, mishap, passed, published>>

(* The finally: whether all is done or a command failed. *)
WorkEnds ==
    /\ tool \in {"check", "publish"} /\ step = "work"
    /\ step' = "restore" /\ todo' = SetToSeq(DOMAIN backups)
    /\ errors' = IF todo # <<>> THEN errors \cup {<<"command", "failed">>} ELSE errors
    /\ UNCHANGED <<files, root, tool, readIn, backups, starts, sources, mishap, passed, published>>

(* restorePackageJsons *)
RestoreOne ==
    /\ step = "restore" /\ todo # <<>>
    /\ files' = [files EXCEPT ![Head(todo)] = backups[Head(todo)]]
    /\ todo' = Tail(todo)
    /\ UNCHANGED <<root, tool, step, readIn, backups, errors, starts, sources, mishap, passed, published>>

Restored ==
    /\ step = "restore" /\ todo = <<>>
    /\ passed' = IF tool = "check" /\ errors = {} THEN readIn ELSE passed
    /\ End
    /\ UNCHANGED <<files, root, readIn, backups, errors, starts, sources, mishap, published>>

-----------------------------------------------------------------------------
(* sync-root-version.mjs: one file after the other, the root last. *)
SyncOne ==
    /\ tool = "sync" /\ step = "apply" /\ todo # <<>>
    /\ files' = [files EXCEPT ![Head(todo)].version = TargetVersion(readIn)]
    /\ sources' = files' /\ todo' = Tail(todo)
    /\ UNCHANGED <<root, tool, step, readIn, backups, errors, starts, mishap, passed, published>>

Synced ==
    /\ tool = "sync" /\ step = "apply" /\ todo = <<>>
    /\ root' = TargetVersion(readIn)
    /\ End
    /\ UNCHANGED <<files, readIn, backups, errors, starts, sources, mishap, passed, published>>

(* changeset version, the first command of changeset-version.mjs: packages
   with a changeset get their next version, ahead of the others.           *)
Bump(p, version) ==
    /\ step = "idle" /\ ~mishap /\ files[p].version # version /\ Newer(version, files[p].version)
    /\ files' = [files EXCEPT ![p].version = version] /\ sources' = files'
    /\ UNCHANGED <<root, tool, step, todo, readIn, backups, errors, starts, mishap, passed, published>>

(* The process is killed, or a write of the restoration or of the
   synchronisation fails.                                                  *)
Killed ==
    /\ step # "idle"
    /\ mishap' = (mishap \/ (tool # "sync" /\ files # sources))
    /\ End
    /\ UNCHANGED <<files, root, readIn, backups, errors, starts, sources, passed, published>>

ReleaseNext ==
    \/ \E which \in {"check", "publish", "sync"} : Begin(which)
    \/ ApplyOne \/ Applied \/ ApplyFails
    \/ PackOne \/ PublishOne \/ WorkEnds \/ RestoreOne \/ Restored
    \/ SyncOne \/ Synced \/ Killed
    \/ \E p \in DOMAIN files, version \in Bumps : Bump(p, version)

-----------------------------------------------------------------------------
(* However a tool ends, with packages that cannot be packed or a publication
   that fails halfway, the workspace is again what was committed, unless a
   tool was killed or could not write a manifest.                          *)
ManifestsComeBack == step = "idle" /\ ~mishap => files = sources

(* What is published is fit for it, even from a workspace some tool was
   killed in: nothing in it refers to the workspace or to development, and
   what passed the check is published as it was checked.                   *)
PublishedIsClean ==
    \A p \in DOMAIN published :
        /\ ~published[p].private /\ ~published[p].dev
        /\ \A s \in DOMAIN published[p].exports : "development" \notin published[p].exports[s] /\ published[p].exports[s] # {}
        /\ \A name \in DOMAIN published[p].ranges \cap DOMAIN files : ~published[p].ranges[name].workspace
        /\ passed # <<>> /\ ~mishap /\ passed = sources /\ p \in DOMAIN passed /\ tool = "publish" /\ step = "restore" =>
               (files[p] = published[p] => PackedIssues(published[p]) \cup ManifestIssues(published[p]) = {})

(* A synchronisation leaves every package, and then the root, with one
   version, the newest there was; it lowers none, whenever it is killed, so
   that the next one ends with the same.                                   *)
VersionsComeTogether ==
    LET target == TargetVersion(readIn)
    IN tool = "sync" =>
           /\ \A p \in DOMAIN files : ~Newer(readIn[p].version, files[p].version) /\ ~Newer(readIn[p].version, target)
           /\ TargetVersion(files) = target
           /\ todo = <<>> => \A p \in DOMAIN files : files[p].version = target
=============================================================================
