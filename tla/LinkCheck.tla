------------------------------ MODULE LinkCheck ------------------------------
(***************************************************************************)
(* The check of the links of the repository                                *)
(* (tools/policies/link-check.ts): runLinkCheck reads the files one after  *)
(* the other, sorts what they refer to, looks for local targets in the     *)
(* tree, and asks for every external URL once, with several runners that   *)
(* share an index into the list of URLs.                                   *)
(*                                                                         *)
(* A file is a sequence of items, each with the form in which it refers to *)
(* its target and its line.  A target is a record: sort is "web" for http, *)
(* https and //, "other" for other protocols, "host" for what is skipped   *)
(* (local hosts, templates), "anchor" or "local"; a local one has a path   *)
(* and a root: "docs", "root" (both start with a slash), "here" or "bare". *)
(***************************************************************************)
EXTENDS Naturals, Sequences, FiniteSets, SequencesExt, FiniteSetsExt

CONSTANTS
    Trees,         \* repositories: by file, its kind, folder and items; the paths that exist
    Endings,      \* what is tried behind a path that has no file
    Answers,       \* status codes; 0: none was received
    Runners

VARIABLES
    tree,
    unread,        \* the files to read
    found,         \* the references of those that were read
    counted,       \* [text, binary]: how many were read
    urls,          \* external URLs, in the order in which they are checked
    next,          \* the index the runners share
    at,            \* by runner: [place, method, means]
    results,       \* by place: the status code, or Open
    asked,         \* history: by URL, what was asked and answered
    phase          \* "reading", "checking" or "done"

linkVars == <<tree, unread, found, counted, urls, next, at, results, asked, phase>>

(* The files of a tree are read in an order; a text has finitely many items;
   a path is a folder, a name and an ending, and there may be none.        *)
LinkConstants ==
    /\ 0 \in Answers /\ Answers \subseteq Nat /\ "" \in Endings
    /\ \A t \in Trees :
           /\ t.order \in Seq(DOMAIN t.files)
           /\ \A p \in t.paths : p = <<p[1], p[2], p[3]>>
           /\ \A f \in DOMAIN t.files :
                  t.files[f].kind \notin {"unreadable", "binary"} => IsFiniteSet(DOMAIN t.files[f].items)

Open == 1000
Idle == [place |-> 0, method |-> "none", means |-> "none"]

IsPath(target) == target.sort = "local" /\ target.root # "bare"
IsExternal(target) == target.sort \in {"web", "other", "host"}
ImportKinds == {"import_export", "require", "dynamic_import"}

LinkInit ==
    /\ tree \in Trees /\ unread = tree.order
    /\ found = {} /\ counted = [text |-> 0, binary |-> 0]
    /\ urls = <<>> /\ next = 0 /\ at = [r \in Runners |-> Idle]
    /\ results = <<>> /\ asked = [u \in {} |-> <<>>] /\ phase = "reading"

-----------------------------------------------------------------------------
(* extractStaticReferences, extractCodeModuleReferences: the forms that are
   looked for in a file of a kind; modules only where they are paths.      *)
FormsRead(kind) ==
    {"agent_load", "raw_url"}
    \cup (IF kind = "markdown" THEN {"markdown_link", "markdown_reference"} ELSE {})
    \cup (IF kind \in {"typescript", "javascript"} THEN ImportKinds ELSE {"html_attr"})

(* A link with an http address is also found as a bare address. *)
ReadAs(kind, item) ==
    {f \in FormsRead(kind) :
        \/ f = item.form /\ (f \in ImportKinds => IsPath(item.target))
        \/ f = "raw_url" /\ item.target.sort \in {"web", "host"} /\ ~item.target.short}
ReferencesAt(file, i) ==
    LET of == tree.files[file]
    IN {[kind |-> f, file |-> file, line |-> i, target |-> of.items[i].target] : f \in ReadAs(of.kind, of.items[i])}
ReferencesOf(file) == UNION {ReferencesAt(file, i) : i \in DOMAIN tree.files[file].items}

ReadFile ==
    LET file == Head(unread)
    IN /\ phase = "reading" /\ unread # <<>>
       /\ unread' = Tail(unread)
       /\ CASE tree.files[file].kind = "unreadable" -> UNCHANGED <<found, counted>>
            [] tree.files[file].kind = "binary" -> counted' = [counted EXCEPT !.binary = @ + 1] /\ UNCHANGED found
            [] OTHER -> /\ counted' = [counted EXCEPT !.text = @ + 1]
                        /\ found' = found \cup ReferencesOf(file)
       /\ UNCHANGED <<tree, urls, next, at, results, asked, phase>>

-----------------------------------------------------------------------------
(* Mutant: only next to the file that refers to it. *)
LocalCandidatesHere(ref) ==
    {<<tree.files[ref.file].folder, ref.target.path, s>> : s \in Endings}

(* What is behind the name of a target: a script is written with .js. *)
Written(target, ending) ==
    CASE ~target.script -> ending [] target.script /\ ending = "" -> ".js" [] OTHER -> ".js" \o ending
Bases(root, folder) ==
    CASE root = "docs" -> {"website/docs", "docs", "website/static/docs"}
      [] root = "root" -> {"", "website/static"}
      [] OTHER         -> {folder}
ScriptBase(root, folder) == CASE root = "docs" -> "docs" [] root = "root" -> "" [] OTHER -> folder

(* buildLocalCandidatePaths: where a local target may be. *)
LocalCandidates(ref) ==
    LET folder == tree.files[ref.file].folder
        scripts == IF ref.kind \in ImportKinds /\ tree.files[ref.file].kind = "typescript" /\ ref.target.script
                   THEN {<<b, ref.target.path, s>> : b \in {ScriptBase(ref.target.root, folder)}, s \in {".ts", "/index.ts"}}
                   ELSE {}
    IN scripts \cup {<<b, ref.target.path, Written(ref.target, s)>> : b \in Bases(ref.target.root, folder), s \in Endings}

(* shouldAllowMissingBuildOutputReference *)
MayBeMissing(ref) ==
    /\ ref.kind \in ImportKinds
    /\ tree.files[ref.file].kind = "javascript" /\ tree.files[ref.file].folder = "bin" /\ ref.target.built

LocalReferences == {r \in found : ~IsExternal(r.target) /\ r.target.sort # "anchor"}
ExternalReferences == {r \in found : r.target.sort = "web"}
IsBroken(ref) == LocalCandidates(ref) \cap tree.paths = {} /\ ~MayBeMissing(ref)
LocalIssues ==
    {[file |-> r.file, line |-> r.line, kind |-> r.kind, target |-> r.target] : r \in {x \in LocalReferences : IsBroken(x)}}

(* normalizeExternalUrl, and the map of the sources by URL: an address is
   checked once however often it is referred to.                           *)
ExternalUrls == {r.target.url : r \in ExternalReferences}
SourcesOf(url) == {<<r.file, r.line>> : r \in {x \in ExternalReferences : x.target.url = url}}

Sort ==
    /\ phase = "reading" /\ unread = <<>>
    /\ urls' = SetToSeq(ExternalUrls)
    /\ results' = [i \in DOMAIN urls' |-> Open]
    /\ asked' = [u \in ExternalUrls |-> <<>>]
    /\ phase' = "checking"
    /\ UNCHANGED <<tree, unread, found, counted, next, at>>

-----------------------------------------------------------------------------
(* runWithConcurrency: a runner takes the next index before it waits. *)
Take(r) ==
    /\ phase = "checking" /\ at[r] = Idle /\ next < Len(urls)
    /\ next' = next + 1
    /\ at' = [at EXCEPT ![r] = [place |-> next + 1, method |-> "HEAD", means |-> "fetch"]]
    /\ UNCHANGED <<tree, unread, found, counted, urls, results, asked, phase>>

(* Mutant: a method that gave no answer is not followed by the next. *)
AfterSilenceStops(runner) ==
    CASE runner.means = "fetch" -> [runner EXCEPT !.means = "curl"]
      [] OTHER -> Idle

(* fetchUrlStatus: fetch, then curl, and the same again with GET. *)
AfterSilence(runner) ==
    CASE runner.means = "fetch" -> [runner EXCEPT !.means = "curl"]
      [] runner.means = "curl" /\ runner.method = "HEAD" -> [runner EXCEPT !.method = "GET", !.means = "fetch"]
      [] OTHER -> Idle

(* An attempt ends with a status code, or with 0 for an error, the timeout,
   or a fetch that is missing.                                             *)
Attempt(r, code) ==
    LET url == urls[at[r].place]
        after == IF code > 0 THEN Idle ELSE AfterSilence(at[r])
    IN /\ at[r] # Idle
       /\ asked' = [asked EXCEPT ![url] = Append(@, <<at[r].method, at[r].means, code>>)]
       /\ at' = [at EXCEPT ![r] = after]
       /\ results' = IF after = Idle THEN [results EXCEPT ![at[r].place] = code] ELSE results
       /\ UNCHANGED <<tree, unread, found, counted, urls, next, phase>>

(* Promise.all: every runner is through. *)
Report ==
    /\ phase = "checking" /\ next = Len(urls) /\ \A r \in Runners : at[r] = Idle
    /\ phase' = "done"
    /\ UNCHANGED <<tree, unread, found, counted, urls, next, at, results, asked>>

LinkNext ==
    \/ ReadFile \/ Sort \/ Report
    \/ \E r \in Runners : Take(r) \/ \E code \in Answers : Attempt(r, code)

-----------------------------------------------------------------------------
(* classifyExternalStatus *)
RestrictedCodes == {401, 403, 405, 407, 429, 999} \cup 500..599
StateOf(code) ==
    CASE code \in 200..399 -> "ok" [] code \in RestrictedCodes -> "restricted" [] OTHER -> "broken"

ExternalIn(state) == {urls[i] : i \in {p \in DOMAIN urls : StateOf(results[p]) = state}}
Errors == [local |-> LocalIssues, external |-> ExternalIn("broken")]

(* Every URL is asked for by one runner, is asked again only as long as no
   answer came, and its result stands at its own place when all are through,
   whoever was faster.                                                     *)
EachUrlIsCheckedOnce ==
    /\ \A r, s \in Runners : at[r].place = at[s].place /\ at[r].place > 0 => r = s
    /\ \A u \in DOMAIN asked :
           /\ \A i, j \in DOMAIN asked[u] :
                  asked[u][i][1] = asked[u][j][1] /\ asked[u][i][2] = asked[u][j][2] => i = j
           /\ \A i \in DOMAIN asked[u] : i < Len(asked[u]) => asked[u][i][3] = 0
    /\ phase = "done" => \A i \in DOMAIN urls :
           /\ asked[urls[i]] # <<>> /\ results[i] = Last(asked[urls[i]])[3]
           /\ results[i] = 0 => Len(asked[urls[i]]) = 4

(* When the check is through it names every target of a file that is read
   when nothing of that name is where it may be, and none that is there as
   it is written; and it names a URL exactly when the answer was bad, with
   every place that refers to it: nothing is lost between the patterns that
   find the references and the report.                                     *)
Folders(file, target) ==
    CASE target.root = "root" -> {"", "website/static"}
      [] target.root = "docs" -> {"website/docs", "docs", "website/static/docs"}
      [] OTHER                -> {tree.files[file].folder}
PathsFor(file, target) == {p \in tree.paths : p[1] \in Folders(file, target) /\ p[2] = target.path}
LocalIsReported(file, i, item) ==
    LET paths == PathsFor(file, item.target)
        isNamed == \E e \in LocalIssues : e.file = file /\ e.line = i
    IN /\ paths = {} /\ ~(item.target.built /\ tree.files[file].folder = "bin") => isNamed
       /\ (\E p \in paths : p[3] = IF item.target.script THEN ".js" ELSE "") => ~isNamed
UrlIsReported(file, i, item) ==
    /\ <<file, i>> \in SourcesOf(item.target.url)
    /\ item.target.url \in Errors.external <=> StateOf(Last(asked[item.target.url])[3]) = "broken"
LinksAreReported ==
    phase = "done" =>
        \A file \in ToSet(tree.order) : tree.files[file].kind \notin {"unreadable", "binary"} =>
            \A i \in DOMAIN tree.files[file].items :
                LET item == tree.files[file].items[i]
                    isRead == item.form \in FormsRead(tree.files[file].kind)
                IN /\ isRead /\ item.target.sort = "local" /\ (item.form \in ImportKinds => IsPath(item.target))
                          => LocalIsReported(file, i, item)
                   /\ isRead /\ item.form \notin ImportKinds /\ item.target.sort = "web" => UrlIsReported(file, i, item)
=============================================================================
