----------------------------- MODULE ToolsProofs -----------------------------
(***************************************************************************)
(* Theorems about the tools of MCSupport: the check of the links, the      *)
(* release tools and the arguments of the command line, for any repository,*)
(* any workspace and any arguments.                                        *)
(***************************************************************************)
EXTENDS MCSupport, SequencesExt, FiniteSetsExt, TLAPS, SequenceTheorems, FiniteSetTheorems, WellFoundedInduction

-----------------------------------------------------------------------------
(* Lists, and what a step of MCSupport is for the tools *)

LEMMA EmptyList == IsInjective(<<>>) /\ ToSet(<<>>) = {} /\ \A S : <<>> \in Seq(S) /\ Len(<<>>) = 0
  BY EmptySeq DEF IsInjective, ToSet

LEMMA TailIs ==
    ASSUME NEW S, NEW s \in Seq(S), IsInjective(s), s # <<>>
    PROVE  /\ Tail(s) \in Seq(S) /\ IsInjective(Tail(s)) /\ Len(Tail(s)) = Len(s) - 1
           /\ ToSet(Tail(s)) = ToSet(s) \ {Head(s)} /\ Head(s) \in S
<1>1. /\ Tail(s) \in Seq(S) /\ Len(Tail(s)) = Len(s) - 1 /\ Len(s) \in Nat \ {0}
      /\ \A i \in 1..(Len(s) - 1) : Tail(s)[i] = s[i + 1]
      /\ Head(s) = s[1] /\ Head(s) \in S
  BY HeadTailProperties, EmptySeq
<1> DEFINE w == Tail(s)
<1> HIDE DEF w
<1>2. \A a, b \in 1..Len(s) : s[a] = s[b] => a = b
  BY DEF IsInjective
<1>3. IsInjective(w)
  <2>1. DOMAIN w = 1..(Len(s) - 1)
    BY <1>1, LenProperties DEF w
  <2> QED
    BY <1>1, <1>2, <2>1 DEF IsInjective, w
<1>4. ToSet(w) = ToSet(s) \ {Head(s)}
  <2>1. ToSet(w) = {w[i] : i \in 1..(Len(s) - 1)} /\ ToSet(s) = {s[i] : i \in 1..Len(s)}
    BY <1>1, LenProperties DEF ToSet, w
  <2>2. \A i \in 1..(Len(s) - 1) : i + 1 \in 1..Len(s) /\ w[i] = s[i + 1] /\ s[i + 1] # s[1]
    <3>1. \A i \in 1..(Len(s) - 1) : i + 1 \in 1..Len(s) /\ i + 1 # 1 /\ 1 \in 1..Len(s)
      BY <1>1
    <3> QED
      BY <1>1, <1>2, <3>1 DEF w
  <2>3. \A i \in 1..Len(s) : i # 1 => i - 1 \in 1..(Len(s) - 1) /\ w[i - 1] = s[i]
    <3>1. \A i \in 1..Len(s) : i # 1 => i - 1 \in 1..(Len(s) - 1) /\ (i - 1) + 1 = i
      BY <1>1
    <3> QED
      BY <1>1, <3>1 DEF w
  <2>4. 1 \in 1..Len(s)
    BY <1>1
  <2> QED
    BY <1>1, <2>1, <2>2, <2>3, <2>4
<1> QED
  BY <1>1, <1>3, <1>4 DEF w

(* One part acts, and the same one always. *)
LEMMA OneTool ==
    ASSUME [MCNext]_supportVars
    PROVE  /\ part' = part
           /\ part = "links" => Links!LinkNext \/ UNCHANGED linkVars
           /\ part = "releases" => Out!ReleaseNext \/ UNCHANGED releaseVars
           /\ part = "line" => Line!LineNext \/ UNCHANGED lineVars
<1>1. CASE UNCHANGED supportVars
  BY <1>1 DEF supportVars, toolVars
<1>2. CASE StorageNext /\ UNCHANGED <<part, keptVars, sentVars, toolVars>>
  BY <1>2 DEF toolVars
<1>3. CASE KeptNext /\ UNCHANGED <<part, vars, sentVars, toolVars>>
  BY <1>3 DEF toolVars
<1>4. CASE SentNext /\ UNCHANGED <<part, vars, keptVars, toolVars>>
  BY <1>4 DEF toolVars
<1>5. CASE ToolNext /\ UNCHANGED <<part, vars, keptVars, sentVars>>
  BY <1>5 DEF ToolNext
<1> QED
  BY <1>1, <1>2, <1>3, <1>4, <1>5 DEF MCNext

-----------------------------------------------------------------------------
(* The check of the links *)

LEMMA ImageIsFinite ==
    ASSUME NEW S, IsFiniteSet(S), NEW f, f = [x \in S |-> f[x]]
    PROVE  IsFiniteSet({f[x] : x \in S})
<1> DEFINE T == {f[x] : x \in S}
<1>1. f \in Surjection(S, T)
  <2>1. f \in [S -> T]
    OBVIOUS
  <2> QED
    BY <2>1 DEF Surjection
<1> QED
  BY <1>1, FS_Surjection

(* What SetToSeq makes of a finite set: all of it, each element once. *)
LEMMA ListOfSet ==
    ASSUME NEW S, IsFiniteSet(S), NEW s, s = SetToSeq(S)
    PROVE  /\ s \in Seq(S) /\ Len(s) = Cardinality(S)
           /\ \A i, j \in 1..Len(s) : s[i] = s[j] => i = j
           /\ \A x \in S : \E i \in 1..Len(s) : s[i] = x
<1> DEFINE n == Cardinality(S)
<1>1. n \in Nat /\ ExistsBijection(1..n, S)
  BY FS_CardinalityType
<1>2. PICK b \in [1..n -> S] : IsInjective(b)
  BY <1>1 DEF ExistsBijection, Bijection, Injection
<1>3. s \in [1..n -> S] /\ \A i, j \in 1..n : s[i] = s[j] => i = j
  <2>1. s \in [1..n -> S] /\ IsInjective(s)
    BY <1>2 DEF SetToSeq
  <2> QED
    BY <2>1 DEF IsInjective
<1>4. s \in Seq(S) /\ Len(s) = n
  <2> HIDE DEF n
  <2> QED
    BY <1>1, <1>3, SeqDef, LenProperties
<1>5. \A x \in S : \E i \in 1..n : s[i] = x
  <2>1. IsFiniteSet(1..n) /\ Cardinality(1..n) = n
    BY <1>1, FS_Interval
  <2>2. s \in Injection(1..n, S)
    BY <1>3 DEF Injection, IsInjective
  <2>3. s \in Surjection(1..n, S)
    BY <2>1, <2>2, FS_Injection
  <2> QED
    BY <2>3 DEF Surjection
<1> QED
  BY <1>3, <1>4, <1>5

LEMMA LinksOperators ==
    /\ \A S : Links!Cardinality(S) = Cardinality(S)
    /\ \A S : Links!IsFiniteSet(S) = IsFiniteSet(S)
    /\ \A S : Links!SetToSeq(S) = SetToSeq(S)
<1>1. \A S : Links!Cardinality(S) = Cardinality(S) /\ Links!IsFiniteSet(S) = IsFiniteSet(S)
  BY DEF Links!Cardinality, Cardinality, Links!IsFiniteSet, IsFiniteSet
<1>2. \A f : Links!IsInjective(f) <=> IsInjective(f)
  BY DEF Links!IsInjective, IsInjective
<1> QED
  BY <1>1, <1>2 DEF Links!SetToSeq, SetToSeq

(* A file refers to finitely many targets. *)
LEMMA ReferencesAreFinite ==
    ASSUME NEW file, IsFiniteSet(DOMAIN tree.files[file].items)
    PROVE  IsFiniteSet(Links!ReferencesOf(file))
<1> DEFINE of == tree.files[file]
           lines == DOMAIN of.items
           byLine == [i \in lines |-> Links!ReferencesAt(file, i)]
<1>1. IsFiniteSet(Links!FormsRead(of.kind))
  <2>1. Links!FormsRead(of.kind) \subseteq
            (({"agent_load", "raw_url"} \cup {"markdown_link", "markdown_reference"})
             \cup {"html_attr", "import_export"}) \cup {"require", "dynamic_import"}
    BY DEF Links!FormsRead, Links!ImportKinds
  <2>2. \A a, b : IsFiniteSet({a, b})
    <3> SUFFICES ASSUME NEW a, NEW b
                 PROVE  IsFiniteSet({a, b})
      OBVIOUS
    <3>1. {a, b} = {a} \cup {b}
      OBVIOUS
    <3>2. IsFiniteSet({a}) /\ IsFiniteSet({b})
      BY FS_Singleton
    <3> QED
      BY <3>1, <3>2, FS_Union
  <2> QED
    BY <2>1, <2>2, FS_Union, FS_Subset
<1>2. ASSUME NEW i \in lines
      PROVE  IsFiniteSet(Links!ReferencesAt(file, i))
  <2> DEFINE kinds == Links!ReadAs(of.kind, of.items[i])
             made == [f \in kinds |-> [kind |-> f, file |-> file, line |-> i, target |-> of.items[i].target]]
  <2>1. IsFiniteSet(kinds)
    BY <1>1, FS_Subset DEF Links!ReadAs
  <2>2. Links!ReferencesAt(file, i) = {made[f] : f \in kinds}
    BY DEF Links!ReferencesAt
  <2>3. made = [f \in kinds |-> made[f]]
    OBVIOUS
  <2> HIDE DEF kinds, made
  <2> QED
    BY <2>1, <2>2, <2>3, ImageIsFinite
<1>3. Links!ReferencesOf(file) = UNION {byLine[i] : i \in lines}
  <2>1. {Links!ReferencesAt(file, i) : i \in lines} = {byLine[i] : i \in lines}
    OBVIOUS
  <2> QED
    BY <2>1 DEF Links!ReferencesOf
<1>4. byLine = [i \in lines |-> byLine[i]]
  OBVIOUS
<1>5. \A i \in lines : IsFiniteSet(byLine[i])
  BY <1>2
<1> HIDE DEF byLine
<1>6. IsFiniteSet({byLine[i] : i \in lines})
  BY <1>4, ImageIsFinite
<1>7. \A S \in {byLine[i] : i \in lines} : IsFiniteSet(S)
  BY <1>5
<1> QED
  BY <1>3, <1>6, <1>7, FS_UNION

(* The attempts at one URL in their order. *)
Method(k) == IF k <= 2 THEN "HEAD" ELSE "GET"
Means(k)  == IF k \in {1, 3} THEN "fetch" ELSE "curl"
Attempting(p, k) == [place |-> p, method |-> Method(k), means |-> Means(k)]

Tries(s) ==
    /\ s \in Seq({"HEAD", "GET"} \X {"fetch", "curl"} \X Answers) /\ Len(s) \in 0..4
    /\ \A i \in 1..Len(s) : s[i][1] = Method(i) /\ s[i][2] = Means(i)
    /\ \A i \in 1..Len(s) : i < Len(s) => s[i][3] = 0
Silent(s)      == \A i \in 1..Len(s) : s[i][3] = 0
Ended(s, code) == Len(s) > 0 /\ code = s[Len(s)][3] /\ (code = 0 => Len(s) = 4)

(* One more attempt. *)
LEMMA TriesMore ==
    ASSUME NEW s, Tries(s), Silent(s), NEW k \in 1..4, Len(s) = k - 1, NEW code \in Answers
    PROVE  LET t == Append(s, <<Method(k), Means(k), code>>)
           IN  /\ Tries(t) /\ Len(t) = k /\ t[k][3] = code
               /\ code = 0 => Silent(t)
<1> DEFINE e == <<Method(k), Means(k), code>>
           T == {"HEAD", "GET"} \X {"fetch", "curl"} \X Answers
           t == Append(s, e)
<1>1. e \in T /\ e[1] = Method(k) /\ e[2] = Means(k) /\ e[3] = code
  <2>1. Method(k) \in {"HEAD", "GET"} /\ Means(k) \in {"fetch", "curl"}
    BY DEF Method, Means
  <2> QED
    BY <2>1
<1>2. s \in Seq(T) /\ Len(s) \in Nat
  BY DEF Tries
<1> HIDE DEF e, T
<1>3. /\ t \in Seq(T) /\ Len(t) = k /\ t[k] = e
      /\ \A i \in 1..(k - 1) : t[i] = s[i]
  BY <1>1, <1>2, AppendProperties
<1> HIDE DEF t
<1>4. \A i \in 1..k : i = k \/ i \in 1..(k - 1)
  OBVIOUS
<1>5. \A i \in 1..k : t[i][1] = Method(i) /\ t[i][2] = Means(i)
  BY <1>1, <1>3, <1>4 DEF Tries
<1>6. \A i \in 1..k : i < k => t[i][3] = 0
  BY <1>3, <1>4 DEF Silent
<1>7. Tries(t)
  BY <1>3, <1>5, <1>6 DEF Tries, T
<1>8. code = 0 => Silent(t)
  BY <1>1, <1>3, <1>6, <1>4 DEF Silent
<1> QED
  BY <1>1, <1>3, <1>7, <1>8 DEF t, e

Running(r, k) ==
    /\ at[r] = Attempting(at[r].place, k) /\ at[r].place \in 1..next
    /\ Len(asked[urls[at[r].place]]) = k - 1 /\ Silent(asked[urls[at[r].place]])

RunnersInv ==
    /\ at = [r \in Checkers |-> at[r]]
    /\ \A r \in Checkers : at[r] = Links!Idle \/ \E k \in 1..4 : Running(r, k)
    /\ \A r, s \in Checkers : at[r].place = at[s].place /\ at[r].place > 0 => r = s

UrlsInv ==
    /\ next \in Nat /\ Len(urls) \in Nat /\ next <= Len(urls)
    /\ DOMAIN urls = 1..Len(urls)
    /\ \A i, j \in 1..Len(urls) : urls[i] = urls[j] => i = j
    /\ asked = [u \in DOMAIN asked |-> asked[u]]
    /\ \A i \in 1..Len(urls) : urls[i] \in DOMAIN asked
    /\ \A u \in DOMAIN asked : Tries(asked[u])
    /\ results = [i \in 1..Len(urls) |-> results[i]]

ResultsInv ==
    /\ \A i \in 1..Len(urls) : i > next => Len(asked[urls[i]]) = 0
    /\ \A i \in 1..next : (\A r \in Checkers : at[r].place # i) => Ended(asked[urls[i]], results[i])

LinksInv ==
    /\ tree \in Trees /\ unread \in Seq(DOMAIN tree.files) /\ IsFiniteSet(found)
    /\ phase = "reading" => next = 0 /\ \A r \in Checkers : at[r] = Links!Idle
    /\ phase = "done" => next = Len(urls) /\ \A r \in Checkers : at[r] = Links!Idle
    /\ phase \in {"reading", "checking", "done"}
    /\ RunnersInv /\ UrlsInv /\ ResultsInv

LEMMA LinksAreCheckedOnce == LinksInv => Links!EachUrlIsCheckedOnce
<1> SUFFICES ASSUME LinksInv
             PROVE  Links!EachUrlIsCheckedOnce
  OBVIOUS
<1>1. \A r, s \in Checkers : at[r].place = at[s].place /\ at[r].place > 0 => r = s
  BY DEF LinksInv, RunnersInv
<1>2. ASSUME NEW u \in DOMAIN asked
      PROVE  /\ \A i, j \in DOMAIN asked[u] :
                    asked[u][i][1] = asked[u][j][1] /\ asked[u][i][2] = asked[u][j][2] => i = j
             /\ \A i \in DOMAIN asked[u] : i < Len(asked[u]) => asked[u][i][3] = 0
  <2>1. Tries(asked[u])
    BY <1>2 DEF LinksInv, UrlsInv
  <2>2. DOMAIN asked[u] = 1..Len(asked[u]) /\ Len(asked[u]) \in 0..4
    BY <2>1, LenProperties DEF Tries
  <2>3. \A i, j \in 1..4 : Method(i) = Method(j) /\ Means(i) = Means(j) => i = j
    BY DEF Method, Means
  <2>4. ASSUME NEW i \in 1..Len(asked[u]), NEW j \in 1..Len(asked[u]),
               asked[u][i][1] = asked[u][j][1], asked[u][i][2] = asked[u][j][2]
        PROVE  i = j
    <3>1. Method(i) = Method(j) /\ Means(i) = Means(j)
      BY <2>1, <2>4 DEF Tries
    <3>2. i \in 1..4 /\ j \in 1..4
      BY <2>2
    <3> QED
      BY <2>3, <3>1, <3>2
  <2> QED
    BY <2>1, <2>2, <2>4 DEF Tries
<1>3. ASSUME phase = "done", NEW i \in DOMAIN urls
      PROVE  /\ asked[urls[i]] # <<>> /\ results[i] = Links!Last(asked[urls[i]])[3]
             /\ results[i] = 0 => Len(asked[urls[i]]) = 4
  <2>1. i \in 1..next /\ \A r \in Checkers : at[r].place # i
    BY <1>3 DEF LinksInv, UrlsInv, Links!Idle
  <2>2. Ended(asked[urls[i]], results[i])
    BY <2>1 DEF LinksInv, ResultsInv
  <2>3. asked[urls[i]] # <<>>
    BY <2>2, EmptyList DEF Ended
  <2> QED
    BY <2>2, <2>3 DEF Ended, Links!Last
<1> QED
  BY <1>1, <1>2, <1>3 DEF Links!EachUrlIsCheckedOnce

LEMMA LinksStart ==
    ASSUME Links!LinkConstants, Links!LinkInit
    PROVE  LinksInv
<1>1. /\ tree \in Trees /\ unread \in Seq(DOMAIN tree.files) /\ found = {} /\ phase = "reading"
      /\ urls = <<>> /\ next = 0 /\ results = <<>> /\ asked = [u \in {} |-> <<>>]
      /\ at = [r \in Checkers |-> Links!Idle]
  BY Zenon DEF Links!LinkInit, Links!LinkConstants
<1>2. IsFiniteSet(found)
  BY <1>1, FS_EmptySet
<1>3. Len(urls) = 0 /\ DOMAIN urls = {} /\ 1..0 = {} /\ Len(results) = 0 /\ DOMAIN results = {}
  BY <1>1
<1>4. UrlsInv
  <2>1. results = [i \in 1..Len(urls) |-> results[i]]
    BY <1>1, <1>3
  <2> QED
    BY <1>1, <1>3, <2>1 DEF UrlsInv
<1>5. RunnersInv
  BY <1>1 DEF RunnersInv, Links!Idle
<1>6. ResultsInv
  BY <1>1, <1>3 DEF ResultsInv
<1> QED
  BY <1>1, <1>2, <1>4, <1>5, <1>6 DEF LinksInv

LEMMA ReadFileStep ==
    ASSUME Links!LinkConstants, LinksInv, Links!ReadFile
    PROVE  LinksInv'
<1> DEFINE file == Head(unread)
<1>1. /\ unread # <<>> /\ unread' = Tail(unread)
      /\ UNCHANGED <<tree, urls, next, at, results, asked, phase>>
      /\ \/ found' = found
         \/ /\ tree.files[file].kind \notin {"unreadable", "binary"}
            /\ found' = found \cup Links!ReferencesOf(file)
  BY DEF Links!ReadFile
<1>2. unread \in Seq(DOMAIN tree.files) /\ IsFiniteSet(found) /\ tree \in Trees
  BY DEF LinksInv
<1>3. unread' \in Seq(DOMAIN tree'.files) /\ file \in DOMAIN tree.files
  BY <1>1, <1>2, HeadTailProperties
<1>4. IsFiniteSet(found')
  <2>1. CASE found' = found
    BY <1>2, <2>1
  <2>2. CASE /\ tree.files[file].kind \notin {"unreadable", "binary"}
             /\ found' = found \cup Links!ReferencesOf(file)
    <3>1. IsFiniteSet(DOMAIN tree.files[file].items)
      BY Zenon, <1>2, <1>3, <2>2, LinksOperators DEF Links!LinkConstants
    <3>2. IsFiniteSet(Links!ReferencesOf(file))
      BY <3>1, ReferencesAreFinite
    <3> QED
      BY <1>2, <2>2, <3>2, FS_Union
  <2> QED
    BY <1>1, <2>1, <2>2
<1>5. RunnersInv' /\ UrlsInv' /\ ResultsInv'
  BY <1>1 DEF LinksInv, RunnersInv, UrlsInv, ResultsInv, Running
<1> QED
  BY <1>1, <1>2, <1>3, <1>4, <1>5 DEF LinksInv

LEMMA UrlsAreFinite ==
    ASSUME IsFiniteSet(found)
    PROVE  IsFiniteSet(Links!ExternalUrls)
<1> DEFINE E == Links!ExternalReferences
           f == [r \in E |-> r.target.url]
<1>1. IsFiniteSet(E)
  BY FS_Subset DEF Links!ExternalReferences
<1>2. Links!ExternalUrls = {f[r] : r \in E} /\ f = [r \in E |-> f[r]]
  BY DEF Links!ExternalUrls
<1> HIDE DEF E, f
<1> QED
  BY <1>1, <1>2, ImageIsFinite

LEMMA SortStep ==
    ASSUME LinksInv, Links!Sort
    PROVE  LinksInv'
<1> DEFINE U == Links!ExternalUrls
<1>1. /\ phase = "reading" /\ phase' = "checking" /\ urls' = Links!SetToSeq(U)
      /\ results' = [i \in DOMAIN urls' |-> Links!Open] /\ asked' = [u \in U |-> <<>>]
      /\ UNCHANGED <<tree, unread, found, next, at>>
  BY DEF Links!Sort
<1>2. IsFiniteSet(U)
  BY UrlsAreFinite DEF LinksInv
<1>3. /\ urls' \in Seq(U)
      /\ \A i, j \in 1..Len(urls') : urls'[i] = urls'[j] => i = j
  <2> HIDE DEF U
  <2>1. urls' = SetToSeq(U)
    BY <1>1, LinksOperators
  <2> QED
    BY <1>2, <2>1, ListOfSet
<1>4. Len(urls') \in Nat /\ DOMAIN urls' = 1..Len(urls') /\ \A i \in 1..Len(urls') : urls'[i] \in U
  BY <1>3, LenProperties, ElementOfSeq
<1> HIDE DEF U
<1>5. next' = 0 /\ (\A r \in Checkers : at'[r] = Links!Idle) /\ at' = [r \in Checkers |-> at'[r]]
  BY <1>1 DEF LinksInv, RunnersInv
<1>6. Tries(<<>>) /\ Len(<<>>) = 0
  BY EmptyList DEF Tries
<1>7. UrlsInv'
  BY <1>1, <1>3, <1>4, <1>5, <1>6 DEF UrlsInv
<1>8. RunnersInv'
  BY <1>5 DEF RunnersInv, Links!Idle
<1>9. ResultsInv'
  BY <1>1, <1>4, <1>5, <1>6 DEF ResultsInv
<1> QED
  BY <1>1, <1>7, <1>8, <1>9 DEF LinksInv

LEMMA TakeStep ==
    ASSUME LinksInv, NEW r \in Checkers, Links!Take(r)
    PROVE  LinksInv'
<1>1. /\ phase = "checking" /\ at[r] = Links!Idle /\ next < Len(urls) /\ next' = next + 1
      /\ at' = [at EXCEPT ![r] = [place |-> next + 1, method |-> "HEAD", means |-> "fetch"]]
      /\ UNCHANGED <<tree, unread, found, counted, urls, results, asked, phase>>
  BY DEF Links!Take
<1>2. RunnersInv /\ UrlsInv /\ ResultsInv
  BY DEF LinksInv
<1>3. next \in Nat /\ Len(urls) \in Nat /\ next + 1 \in 1..Len(urls)
  BY <1>1, <1>2 DEF UrlsInv
<1>4. at'[r] = Attempting(next + 1, 1) /\ \A s \in Checkers \ {r} : at'[s] = at[s]
  BY <1>1, <1>2 DEF RunnersInv, Attempting, Method, Means
<1>5. Running(r, 1)'
  <2>1. at'[r].place = next + 1
    BY <1>4 DEF Attempting
  <2>2. Len(asked[urls[next + 1]]) = 0
    BY <1>3, <1>2 DEF ResultsInv
  <2>3. Silent(asked[urls[next + 1]])
    BY <2>2 DEF Silent
  <2> QED
    BY <1>1, <1>3, <1>4, <2>1, <2>2, <2>3 DEF Running
<1>6. ASSUME NEW s \in Checkers \ {r}
      PROVE  /\ at'[s] = Links!Idle \/ \E k \in 1..4 : Running(s, k)'
             /\ at'[s].place \in 0..next
  <2>1. CASE at[s] = Links!Idle
    BY <1>3, <1>4, <2>1 DEF Links!Idle
  <2>2. CASE \E k \in 1..4 : Running(s, k)
    <3>1. PICK k \in 1..4 : Running(s, k)
      BY <2>2
    <3>2. at[s].place \in 1..next
      BY <3>1 DEF Running
    <3>3. Running(s, k)'
      BY <1>1, <1>3, <1>4, <3>1 DEF Running
    <3> QED
      BY <1>3, <1>4, <3>2, <3>3
  <2> QED
    BY <1>2, <2>1, <2>2 DEF RunnersInv
<1>7. RunnersInv'
  <2>1. at' = [s \in Checkers |-> at'[s]]
    BY <1>1, <1>2 DEF RunnersInv
  <2>2. \A s \in Checkers : at'[s] = Links!Idle \/ \E k \in 1..4 : Running(s, k)'
    BY <1>5, <1>6
  <2>3. at'[r].place = next + 1
    BY <1>4 DEF Attempting
  <2>4. \A s, t \in Checkers : at'[s].place = at'[t].place /\ at'[s].place > 0 => s = t
    <3>1. \A s \in Checkers \ {r} : at'[s].place # next + 1
      BY <1>3, <1>6
    <3>2. \A s, t \in Checkers \ {r} : at'[s].place = at'[t].place /\ at'[s].place > 0 => s = t
      BY <1>2, <1>4 DEF RunnersInv
    <3> QED
      BY <2>3, <3>1, <3>2
  <2> QED
    BY <2>1, <2>2, <2>4 DEF RunnersInv
<1>8. UrlsInv'
  BY <1>1, <1>2, <1>3 DEF UrlsInv
<1>9. ResultsInv'
  <2>1. \A i \in 1..Len(urls) : i > next' => Len(asked[urls[i]]) = 0
    BY <1>1, <1>2, <1>3 DEF ResultsInv
  <2>2. ASSUME NEW i \in 1..next', \A s \in Checkers : at'[s].place # i
        PROVE  Ended(asked[urls[i]], results[i])
    <3>1. i # next + 1
      BY <1>4, <2>2 DEF Attempting
    <3>2. i \in 1..next
      BY <1>1, <1>3, <2>2, <3>1
    <3>3. at[r].place # i
      BY <1>1, <3>2 DEF Links!Idle
    <3>4. \A s \in Checkers : at[s].place # i
      BY <1>4, <2>2, <3>3
    <3> QED
      BY <1>2, <3>2, <3>4 DEF ResultsInv
  <2> QED
    BY <1>1, <2>1, <2>2 DEF ResultsInv
<1> QED
  BY <1>1, <1>7, <1>8, <1>9 DEF LinksInv

LEMMA AfterAttempt ==
    ASSUME NEW p
    PROVE  /\ Links!AfterSilence(Attempting(p, 1)) = Attempting(p, 2)
           /\ Links!AfterSilence(Attempting(p, 2)) = Attempting(p, 3)
           /\ Links!AfterSilence(Attempting(p, 3)) = Attempting(p, 4)
           /\ Links!AfterSilence(Attempting(p, 4)) = Links!Idle
<1>1. /\ Attempting(p, 1) = [place |-> p, method |-> "HEAD", means |-> "fetch"]
      /\ Attempting(p, 2) = [place |-> p, method |-> "HEAD", means |-> "curl"]
      /\ Attempting(p, 3) = [place |-> p, method |-> "GET", means |-> "fetch"]
      /\ Attempting(p, 4) = [place |-> p, method |-> "GET", means |-> "curl"]
  BY DEF Attempting, Method, Means
<1>2. ASSUME NEW run, run = [place |-> p, method |-> "HEAD", means |-> "fetch"]
      PROVE  Links!AfterSilence(run) = [place |-> p, method |-> "HEAD", means |-> "curl"]
  BY <1>2 DEF Links!AfterSilence
<1>3. ASSUME NEW run, run = [place |-> p, method |-> "HEAD", means |-> "curl"]
      PROVE  Links!AfterSilence(run) = [place |-> p, method |-> "GET", means |-> "fetch"]
  BY <1>3 DEF Links!AfterSilence
<1>4. ASSUME NEW run, run = [place |-> p, method |-> "GET", means |-> "fetch"]
      PROVE  Links!AfterSilence(run) = [place |-> p, method |-> "GET", means |-> "curl"]
  BY <1>4 DEF Links!AfterSilence
<1>5. ASSUME NEW run, run = [place |-> p, method |-> "GET", means |-> "curl"]
      PROVE  Links!AfterSilence(run) = Links!Idle
  BY <1>5 DEF Links!AfterSilence
<1> QED
  BY <1>1, <1>2, <1>3, <1>4, <1>5

LEMMA AttemptStep ==
    ASSUME Links!LinkConstants, LinksInv, NEW r \in Checkers, NEW code \in Answers, Links!Attempt(r, code)
    PROVE  LinksInv'
<1> DEFINE p == at[r].place
           u == urls[p]
           after == IF code > 0 THEN Links!Idle ELSE Links!AfterSilence(at[r])
           more == Append(asked[u], <<at[r].method, at[r].means, code>>)
<1>1. /\ at[r] # Links!Idle
      /\ asked' = [asked EXCEPT ![u] = more]
      /\ at' = [at EXCEPT ![r] = after]
      /\ results' = IF after = Links!Idle THEN [results EXCEPT ![p] = code] ELSE results
      /\ UNCHANGED <<tree, unread, found, counted, urls, next, phase>>
  BY DEF Links!Attempt
<1>2. RunnersInv /\ UrlsInv /\ ResultsInv /\ code \in Nat
  BY Zenon DEF LinksInv, Links!LinkConstants
<1>3. PICK k \in 1..4 : Running(r, k)
  BY <1>1, <1>2 DEF RunnersInv
<1>4. next \in Nat /\ Len(urls) \in Nat /\ p \in 1..next /\ p \in 1..Len(urls) /\ u \in DOMAIN asked
  BY <1>2, <1>3 DEF UrlsInv, Running
<1>5. at[r] = Attempting(p, k) /\ Len(asked[u]) = k - 1 /\ Silent(asked[u]) /\ Tries(asked[u])
  BY <1>2, <1>3, <1>4 DEF Running, UrlsInv
<1>6. /\ more = Append(asked[u], <<Method(k), Means(k), code>>)
      /\ Tries(more) /\ Len(more) = k /\ more[k][3] = code
      /\ code = 0 => Silent(more)
  <2>1. at[r].method = Method(k) /\ at[r].means = Means(k)
    BY <1>5 DEF Attempting
  <2>2. more = Append(asked[u], <<Method(k), Means(k), code>>)
    BY <2>1
  <2> HIDE DEF u
  <2> QED
    BY <1>5, <2>2, TriesMore
<1>7. \/ after = Links!Idle /\ Ended(more, code)
      \/ code = 0 /\ k < 4 /\ after = Attempting(p, k + 1)
  <2>1. /\ code > 0 => after = Links!Idle
        /\ code = 0 => after = Links!AfterSilence(Attempting(p, k))
    BY <1>5
  <2>2. k < 4 => Links!AfterSilence(Attempting(p, k)) = Attempting(p, k + 1)
    <3>1. k = 1 \/ k = 2 \/ k = 3 \/ k = 4
      BY <1>3
    <3> HIDE DEF p
    <3> QED
      BY <3>1, AfterAttempt
  <2>3. k = 4 => Links!AfterSilence(Attempting(p, k)) = Links!Idle
    BY AfterAttempt
  <2>4. code > 0 \/ k = 4 => Ended(more, code)
    <3> HIDE DEF more
    <3>1. Len(more) = k /\ more[Len(more)][3] = code
      BY Zenon, <1>6
    <3>2. k > 0 /\ ((code > 0 \/ k = 4) => (code = 0 => k = 4))
      BY <1>2, <1>3
    <3> QED
      BY <3>1, <3>2 DEF Ended
  <2> HIDE DEF after, more, p
  <2>5. code > 0 \/ code = 0
    BY <1>2
  <2>6. k = 4 \/ k < 4
    BY <1>3
  <2> QED
    BY <2>1, <2>2, <2>3, <2>4, <2>5, <2>6, Zenon
<1> HIDE DEF after, more
<1>8. /\ at'[r] = after /\ \A s \in Checkers \ {r} : at'[s] = at[s]
      /\ asked'[u] = more /\ DOMAIN asked' = DOMAIN asked /\ \A v \in DOMAIN asked \ {u} : asked'[v] = asked[v]
      /\ \A i \in 1..Len(urls) : i # p => results'[i] = results[i] /\ urls[i] # u
      /\ after = Links!Idle => results'[p] = code
  BY <1>1, <1>2, <1>4 DEF RunnersInv, UrlsInv
<1>9. ASSUME NEW s \in Checkers \ {r}
      PROVE  /\ at'[s] = Links!Idle \/ \E j \in 1..4 : Running(s, j)'
             /\ at'[s].place # p
  <2>1. at[s].place # p
    BY <1>2, <1>4 DEF RunnersInv
  <2>2. ASSUME NEW j \in 1..4, Running(s, j)
        PROVE  Running(s, j)'
    <3>1. at[s].place \in 1..Len(urls)
      BY <1>2, <1>4, <2>2 DEF Running, UrlsInv
    <3>2. asked'[urls[at[s].place]] = asked[urls[at[s].place]]
      BY <1>2, <1>8, <2>1, <3>1 DEF UrlsInv
    <3> QED
      BY <1>1, <1>8, <2>2, <3>2 DEF Running
  <2> QED
    BY <1>2, <1>8, <2>1, <2>2 DEF RunnersInv
<1>10. RunnersInv'
  <2>1. at' = [s \in Checkers |-> at'[s]]
    BY <1>1, <1>2 DEF RunnersInv
  <2>2. at'[r] = Links!Idle \/ \E j \in 1..4 : Running(r, j)'
    <3>1. ASSUME code = 0, k < 4, after = Attempting(p, k + 1)
          PROVE  k + 1 \in 1..4 /\ Running(r, k + 1)'
      <4>1. at'[r].place = p
        BY <1>8, <3>1 DEF Attempting
      <4>2. k + 1 \in 1..4 /\ (k + 1) - 1 = k
        BY <1>3, <3>1
      <4> QED
        BY Zenon, <1>1, <1>4, <1>6, <1>8, <3>1, <4>1, <4>2 DEF Running
    <3> QED
      BY <1>7, <1>8, <3>1
  <2>3. at'[r].place \in {0, p}
    BY <1>7, <1>8 DEF Links!Idle, Attempting
  <2>4. \A s, t \in Checkers : at'[s].place = at'[t].place /\ at'[s].place > 0 => s = t
    <3>1. \A s, t \in Checkers \ {r} : at'[s].place = at'[t].place /\ at'[s].place > 0 => s = t
      BY <1>2, <1>8 DEF RunnersInv
    <3> QED
      BY <1>9, <2>3, <3>1
  <2> QED
    BY <1>9, <2>1, <2>2, <2>4 DEF RunnersInv
<1>11. UrlsInv'
  <2>1. results' = [i \in 1..Len(urls) |-> results'[i]] /\ asked' = [v \in DOMAIN asked' |-> asked'[v]]
    BY Zenon, <1>1, <1>2 DEF UrlsInv
  <2>2. \A v \in DOMAIN asked' : Tries(asked'[v])
    BY Zenon, <1>2, <1>6, <1>8 DEF UrlsInv
  <2> QED
    BY <1>1, <1>2, <1>8, <2>1, <2>2 DEF UrlsInv
<1>12. ResultsInv'
  <2>1. \A i \in 1..Len(urls) : i > next => Len(asked'[urls[i]]) = 0
    BY <1>2, <1>4, <1>8 DEF ResultsInv, UrlsInv
  <2>2. ASSUME NEW i \in 1..next, \A s \in Checkers : at'[s].place # i
        PROVE  Ended(asked'[urls[i]], results'[i])
    <3>1. CASE i = p
      BY <1>7, <1>8, <2>2, <3>1 DEF Attempting
    <3>2. CASE i # p
      <4>1. \A s \in Checkers : at[s].place # i
        BY <1>8, <2>2, <3>2
      <4>2. i \in 1..Len(urls)
        BY <1>2, <1>4 DEF UrlsInv
      <4>3. Ended(asked[urls[i]], results[i])
        BY <1>2, <4>1 DEF ResultsInv
      <4> QED
        BY <1>2, <1>8, <3>2, <4>2, <4>3 DEF UrlsInv
    <3> QED
      BY <3>1, <3>2
  <2> QED
    BY <1>1, <2>1, <2>2 DEF ResultsInv
<1>13. phase' = "checking"
  BY <1>1 DEF LinksInv
<1> QED
  BY <1>1, <1>10, <1>11, <1>12, <1>13 DEF LinksInv

LEMMA LinksSteps ==
    ASSUME Links!LinkConstants
    PROVE  /\ Links!LinkInit => LinksInv
           /\ LinksInv /\ Links!LinkNext => LinksInv'
           /\ LinksInv /\ UNCHANGED linkVars => LinksInv'
<1>1. Links!LinkInit => LinksInv
  BY LinksStart
<1>2. ASSUME LinksInv, Links!Report
      PROVE  LinksInv'
  <2>1. /\ phase' = "done" /\ next = Len(urls) /\ \A r \in Checkers : at[r] = Links!Idle
        /\ UNCHANGED <<tree, unread, found, counted, urls, next, at, results, asked>>
    BY <1>2 DEF Links!Report
  <2>2. RunnersInv' /\ UrlsInv' /\ ResultsInv'
    BY <1>2, <2>1 DEF LinksInv, RunnersInv, UrlsInv, ResultsInv, Running
  <2> QED
    BY <1>2, <2>1, <2>2 DEF LinksInv
<1>3. ASSUME LinksInv, UNCHANGED linkVars
      PROVE  LinksInv'
  <2>1. UNCHANGED <<tree, unread, found, counted, urls, next, at, results, asked, phase>>
    BY <1>3 DEF linkVars
  <2>2. RunnersInv' /\ UrlsInv' /\ ResultsInv'
    BY <1>3, <2>1 DEF LinksInv, RunnersInv, UrlsInv, ResultsInv, Running
  <2> QED
    BY <1>3, <2>1, <2>2 DEF LinksInv
<1>4. LinksInv /\ Links!LinkNext => LinksInv'
  BY <1>2, ReadFileStep, SortStep, TakeStep, AttemptStep DEF Links!LinkNext
<1> QED
  BY <1>1, <1>3, <1>4

-----------------------------------------------------------------------------
(* What the check of the links reports *)

IsText(file) == tree.files[file].kind \notin {"unreadable", "binary"}

(* What the texts that were read refer to has been found and nothing else,
   and after that the URLs among it are those that are checked.            *)
ReadInv ==
    /\ \A file \in Links!ToSet(tree.order) : IsText(file) =>
           file \in ToSet(unread) \/ Links!ReferencesOf(file) \subseteq found
    /\ \A r \in found : r \in Links!ReferencesOf(r.file)
    /\ phase # "reading" =>
           /\ unread = <<>>
           /\ \A u \in Links!ExternalUrls : \E i \in 1..Len(urls) : urls[i] = u

LEMMA ReferenceIs ==
    ASSUME NEW file, NEW r
    PROVE  r \in Links!ReferencesOf(file) <=>
               \E i \in DOMAIN tree.files[file].items :
                   \E f \in Links!ReadAs(tree.files[file].kind, tree.files[file].items[i]) :
                       r = [kind |-> f, file |-> file, line |-> i, target |-> tree.files[file].items[i].target]
  BY DEF Links!ReferencesOf, Links!ReferencesAt

LEMMA ReadStart ==
    ASSUME Links!LinkInit
    PROVE  ReadInv
<1>1. unread = tree.order /\ found = {} /\ phase = "reading"
  BY DEF Links!LinkInit
<1> QED
  BY <1>1 DEF ReadInv, ToSet, Links!ToSet

LEMMA ReadFileKeeps ==
    ASSUME LinksInv, ReadInv, Links!ReadFile
    PROVE  ReadInv'
<1> DEFINE file == Head(unread)
<1>1. /\ unread # <<>> /\ unread' = Tail(unread) /\ phase = "reading"
      /\ UNCHANGED <<tree, phase>>
      /\ ~IsText(file) => found' = found
      /\ IsText(file) => found' = found \cup Links!ReferencesOf(file)
  BY DEF Links!ReadFile, IsText
<1>2. unread \in Seq(DOMAIN tree.files)
  BY DEF LinksInv
<1>3. \A f \in ToSet(unread) : f = file \/ f \in ToSet(unread')
  <2>1. /\ unread' \in Seq(DOMAIN tree.files) /\ Len(unread') = Len(unread) - 1 /\ Len(unread) \in Nat \ {0}
        /\ \A i \in 1..(Len(unread) - 1) : unread'[i] = unread[i + 1]
        /\ file = unread[1]
    BY <1>1, <1>2, HeadTailProperties, EmptySeq
  <2>2. DOMAIN unread = 1..Len(unread) /\ DOMAIN unread' = 1..Len(unread')
    BY <1>2, <2>1, LenProperties
  <2>3. \A i \in 1..Len(unread) : i # 1 => i - 1 \in 1..(Len(unread) - 1) /\ (i - 1) + 1 = i
    BY <2>1
  <2>4. \A i \in 1..Len(unread) : i # 1 => unread'[i - 1] = unread[i] /\ i - 1 \in DOMAIN unread'
    BY <2>1, <2>2, <2>3
  <2> QED
    BY <2>1, <2>2, <2>4 DEF ToSet
<1>4. \A r \in Links!ReferencesOf(file) : r.file = file
  BY ReferenceIs
<1> HIDE DEF file
<1>5. \A f : Links!ReferencesOf(f)' = Links!ReferencesOf(f)
  BY <1>1 DEF Links!ReferencesOf, Links!ReferencesAt
<1>6. \A r \in found' : r \in Links!ReferencesOf(r.file)
  BY <1>1, <1>4 DEF ReadInv
<1>7. \A f \in Links!ToSet(tree.order) : IsText(f) => f \in ToSet(unread') \/ Links!ReferencesOf(f) \subseteq found'
  BY <1>1, <1>3 DEF ReadInv
<1> QED
  BY <1>1, <1>5, <1>6, <1>7 DEF ReadInv, IsText

LEMMA SortKeeps ==
    ASSUME LinksInv, ReadInv, Links!Sort
    PROVE  ReadInv'
<1> DEFINE U == Links!ExternalUrls
<1>1. /\ unread = <<>> /\ urls' = Links!SetToSeq(U)
      /\ UNCHANGED <<tree, unread, found>>
  BY DEF Links!Sort
<1>2. IsFiniteSet(U)
  BY UrlsAreFinite DEF LinksInv
<1>3. U' = U
  BY <1>1 DEF Links!ExternalUrls, Links!ExternalReferences
<1>4. \A u \in U : \E i \in 1..Len(urls') : urls'[i] = u
  <2> HIDE DEF U
  <2>1. urls' = SetToSeq(U)
    BY <1>1, LinksOperators
  <2> QED
    BY <1>2, <2>1, ListOfSet
<1> QED
  BY <1>1, <1>3, <1>4 DEF ReadInv, IsText, Links!ReferencesOf, Links!ReferencesAt

LEMMA ReadNext ==
    ASSUME LinksInv, ReadInv, Links!LinkNext \/ UNCHANGED linkVars
    PROVE  ReadInv'
<1>1. ASSUME UNCHANGED <<tree, unread, found, urls>>, phase' # "reading" => phase # "reading"
      PROVE  ReadInv'
  BY <1>1 DEF ReadInv, IsText, Links!ReferencesOf, Links!ReferencesAt, Links!ExternalUrls, Links!ExternalReferences
<1>2. CASE UNCHANGED linkVars
  BY <1>1, <1>2 DEF linkVars
<1>3. CASE Links!ReadFile
  BY <1>3, ReadFileKeeps
<1>4. CASE Links!Sort
  BY <1>4, SortKeeps
<1>5. CASE Links!Report
  BY <1>1, <1>5 DEF Links!Report
<1>6. ASSUME NEW r \in Checkers, Links!Take(r)
      PROVE  ReadInv'
  BY <1>1, <1>6 DEF Links!Take
<1>7. ASSUME NEW r \in Checkers, NEW code \in Answers, Links!Attempt(r, code)
      PROVE  ReadInv'
  BY <1>1, <1>7 DEF Links!Attempt
<1> QED
  BY <1>2, <1>3, <1>4, <1>5, <1>6, <1>7 DEF Links!LinkNext

(* Where a target is as it is written. *)
Root    == ""
Bare(t) == IF t.script THEN ".js" ELSE ""

LEMMA BareIs ==
    /\ \A t : Links!Written(t, Root) = Bare(t)
    /\ Links!LinkConstants => Root \in Endings
<1>1. \A t : ~t.script => Links!Written(t, "") = ""
  BY Zenon DEF Links!Written
<1>2. \A t : t.script => Links!Written(t, "") = ".js"
  BY Zenon DEF Links!Written
<1> QED
  BY <1>1, <1>2, Zenon DEF Root, Bare, Links!LinkConstants

LEMMA FoldersAre ==
    ASSUME NEW file, NEW target, NEW folder, folder = tree.files[file].folder
    PROVE  /\ Links!Bases(target.root, folder) = Links!Folders(file, target)
           /\ Links!ScriptBase(target.root, folder) \in Links!Folders(file, target)
<1>1. CASE target.root = "root"
  <2>1. /\ Links!Bases(target.root, folder) = {Root, "website/static"}
        /\ Links!Folders(file, target) = {Root, "website/static"}
        /\ Links!ScriptBase(target.root, folder) = Root
    BY <1>1, Zenon DEF Links!Folders, Links!Bases, Links!ScriptBase, Root
  <2> QED
    BY <2>1
<1>2. CASE target.root = "docs"
  <2>1. /\ Links!Bases(target.root, folder) = {"website/docs", "docs", "website/static/docs"}
        /\ Links!Folders(file, target) = {"website/docs", "docs", "website/static/docs"}
        /\ Links!ScriptBase(target.root, folder) = "docs"
    BY <1>2, Zenon DEF Links!Folders, Links!Bases, Links!ScriptBase
  <2> QED
    BY <2>1
<1>3. CASE target.root \notin {"docs", "root"}
  <2>1. /\ Links!Bases(target.root, folder) = {folder} /\ Links!Folders(file, target) = {folder}
        /\ Links!ScriptBase(target.root, folder) = folder
    BY <1>3, Zenon DEF Links!Folders, Links!Bases, Links!ScriptBase
  <2> QED
    BY <2>1
<1> QED
  BY <1>1, <1>2, <1>3

(* The candidates of a local target are under the folders that are meant. *)
LEMMA CandidatesAre ==
    ASSUME NEW r
    PROVE  /\ \A c \in Links!LocalCandidates(r) : c[1] \in Links!Folders(r.file, r.target) /\ c[2] = r.target.path
           /\ \A b \in Links!Folders(r.file, r.target) : \A s \in Endings :
                  <<b, r.target.path, Links!Written(r.target, s)>> \in Links!LocalCandidates(r)
<1> DEFINE folder == tree.files[r.file].folder
           bases == Links!Bases(r.target.root, folder)
           base == Links!ScriptBase(r.target.root, folder)
           scripts == IF r.kind \in Links!ImportKinds /\ tree.files[r.file].kind = "typescript" /\ r.target.script
                      THEN {<<b, r.target.path, s>> : b \in {base}, s \in {".ts", "/index.ts"}} ELSE {}
<1>1. bases = Links!Folders(r.file, r.target)
  BY FoldersAre
<1>2. Links!LocalCandidates(r) = scripts \cup {<<b, r.target.path, Links!Written(r.target, s)>> : b \in bases, s \in Endings}
  BY DEF Links!LocalCandidates
<1> HIDE DEF bases
<1>3. base \in bases
  BY <1>1, FoldersAre
<1>4. \A c \in scripts : c[1] = base /\ c[2] = r.target.path
  OBVIOUS
<1> HIDE DEF scripts, base
<1>5. \A c \in Links!LocalCandidates(r) : c[1] \in bases /\ c[2] = r.target.path
  BY <1>2, <1>3, <1>4
<1>6. \A b \in bases : \A s \in Endings : <<b, r.target.path, Links!Written(r.target, s)>> \in Links!LocalCandidates(r)
  BY <1>2
<1> QED
  BY <1>1, <1>5, <1>6

LEMMA LocalOneIsReported ==
    ASSUME Links!LinkConstants, LinksInv, ReadInv, NEW file, Links!ReferencesOf(file) \subseteq found,
           NEW i \in DOMAIN tree.files[file].items, NEW item, item = tree.files[file].items[i],
           item.form \in Links!FormsRead(tree.files[file].kind), item.target.sort = "local",
           item.form \in Links!ImportKinds => Links!IsPath(item.target)
    PROVE  Links!LocalIsReported(file, i, item)
<1> DEFINE ref == [kind |-> item.form, file |-> file, line |-> i, target |-> item.target]
           paths == Links!PathsFor(file, item.target)
           issue(r) == [file |-> r.file, line |-> r.line, kind |-> r.kind, target |-> r.target]
           isNamed == \E e \in Links!LocalIssues : e.file = file /\ e.line = i
<1>1. ref \in found
  <2>1. item.form \in Links!ReadAs(tree.files[file].kind, item)
    BY DEF Links!ReadAs
  <2>2. ref \in Links!ReferencesOf(file)
    BY <2>1, ReferenceIs
  <2> QED
    BY <2>2
<1>2. ref.kind = item.form /\ ref.file = file /\ ref.line = i /\ ref.target = item.target
  OBVIOUS
<1> HIDE DEF ref
<1>3. ref \in Links!LocalReferences
  BY <1>1, <1>2 DEF Links!LocalReferences, Links!IsExternal
<1>4. ASSUME paths = {}, ~(item.target.built /\ tree.files[file].folder = "bin")
      PROVE  isNamed
  <2>1. \A c \in Links!LocalCandidates(ref) : c[1] \in Links!Folders(file, item.target) /\ c[2] = item.target.path
    BY <1>2, CandidatesAre
  <2>2. Links!LocalCandidates(ref) \cap tree.paths = {}
    BY <1>4, <2>1 DEF Links!PathsFor
  <2>3. ~Links!MayBeMissing(ref)
    BY <1>2, <1>4 DEF Links!MayBeMissing
  <2>4. Links!IsBroken(ref)
    BY <2>2, <2>3 DEF Links!IsBroken
  <2>5. issue(ref) \in Links!LocalIssues
    BY <1>3, <2>4 DEF Links!LocalIssues
  <2>6. issue(ref).file = file /\ issue(ref).line = i
    BY <1>2
  <2> HIDE DEF issue
  <2> QED
    BY <2>5, <2>6
<1>5. ASSUME NEW p \in paths, p[3] = Bare(item.target), NEW e \in Links!LocalIssues, e.file = file, e.line = i
      PROVE  FALSE
  <2>1. PICK r \in Links!LocalReferences : Links!IsBroken(r) /\ e = issue(r)
    BY DEF Links!LocalIssues
  <2>2. r \in found /\ r.file = file /\ r.line = i
    BY <1>5, <2>1 DEF Links!LocalReferences
  <2>3. r \in Links!ReferencesOf(file)
    BY <2>2 DEF ReadInv
  <2>4. r.target = item.target
    BY <2>2, <2>3, ReferenceIs
  <2>5. p \in tree.paths /\ p[1] \in Links!Folders(file, item.target) /\ p[2] = item.target.path
    BY <1>5 DEF Links!PathsFor
  <2>6. p = <<p[1], p[2], p[3]>>
    <3>1. tree \in Trees
      BY DEF LinksInv
    <3> QED
      BY <2>5, <3>1, Zenon DEF Links!LinkConstants
  <2>7. Root \in Endings /\ p[3] = Links!Written(item.target, Root)
    BY <1>5, BareIs
  <2>8. p \in Links!LocalCandidates(r)
    <3>1. <<p[1], item.target.path, Links!Written(item.target, Root)>> \in Links!LocalCandidates(r)
      BY <2>2, <2>4, <2>5, <2>7, CandidatesAre
    <3> QED
      BY <2>5, <2>6, <2>7, <3>1, Zenon
  <2> QED
    BY <2>1, <2>5, <2>8 DEF Links!IsBroken
<1>6. (\E p \in paths : p[3] = Bare(item.target)) => ~isNamed
  BY <1>5
<1>7. (\E p \in paths : p[3] = (IF item.target.script THEN ".js" ELSE "")) => ~isNamed
  BY <1>6, Zenon DEF Bare
<1> QED
  BY <1>4, <1>7, Zenon DEF Links!LocalIsReported

LEMMA UrlOneIsReported ==
    ASSUME Links!LinkConstants, LinksInv, ReadInv, phase = "done", NEW file, Links!ReferencesOf(file) \subseteq found,
           NEW i \in DOMAIN tree.files[file].items, NEW item, item = tree.files[file].items[i],
           item.form \in Links!FormsRead(tree.files[file].kind), item.target.sort = "web", item.form \notin Links!ImportKinds
    PROVE  Links!UrlIsReported(file, i, item)
<1> DEFINE ref == [kind |-> item.form, file |-> file, line |-> i, target |-> item.target]
           url == item.target.url
<1>1. ref \in found
  <2>1. item.form \in Links!ReadAs(tree.files[file].kind, item)
    BY DEF Links!ReadAs
  <2>2. ref \in Links!ReferencesOf(file)
    BY <2>1, ReferenceIs
  <2> QED
    BY <2>2
<1>2. ref.kind = item.form /\ ref.file = file /\ ref.line = i /\ ref.target = item.target
  OBVIOUS
<1> HIDE DEF ref
<1>3. ref \in Links!ExternalReferences
  BY <1>1, <1>2 DEF Links!ExternalReferences
<1>4. <<file, i>> \in Links!SourcesOf(url)
  BY <1>2, <1>3 DEF Links!SourcesOf
<1>5. url \in Links!ExternalUrls
  BY <1>2, <1>3 DEF Links!ExternalUrls
<1>6. PICK k \in 1..Len(urls) : urls[k] = url
  BY <1>5 DEF ReadInv
<1>7. /\ DOMAIN urls = 1..Len(urls) /\ \A a, b \in 1..Len(urls) : urls[a] = urls[b] => a = b
  BY DEF LinksInv, UrlsInv
<1>8. results[k] = Links!Last(asked[url])[3]
  BY <1>6, <1>7, LinksAreCheckedOnce DEF Links!EachUrlIsCheckedOnce
<1> HIDE DEF url
<1>9. url \in Links!ExternalIn("broken") <=> Links!StateOf(results[k]) = "broken"
  BY <1>6, <1>7 DEF Links!ExternalIn
<1>10. Links!Errors.external = Links!ExternalIn("broken")
  BY DEF Links!Errors
<1>11. url \in Links!Errors.external <=> Links!StateOf(Links!Last(asked[url])[3]) = "broken"
  BY <1>8, <1>9, <1>10
<1> QED
  BY <1>4, <1>11, Zenon DEF Links!UrlIsReported, url

LEMMA AllIsReported ==
    ASSUME Links!LinkConstants, LinksInv, ReadInv
    PROVE  Links!LinksAreReported
<1> SUFFICES ASSUME phase = "done", NEW file \in Links!ToSet(tree.order), IsText(file), NEW i \in DOMAIN tree.files[file].items
             PROVE  LET item == tree.files[file].items[i]
                        isRead == item.form \in Links!FormsRead(tree.files[file].kind)
                    IN  /\ isRead /\ item.target.sort = "local" /\ (item.form \in Links!ImportKinds => Links!IsPath(item.target))
                              => Links!LocalIsReported(file, i, item)
                        /\ isRead /\ item.form \notin Links!ImportKinds /\ item.target.sort = "web" => Links!UrlIsReported(file, i, item)
  BY DEF Links!LinksAreReported, IsText
<1>1. Links!ReferencesOf(file) \subseteq found
  BY EmptyList DEF ReadInv
<1> QED
  BY <1>1, LocalOneIsReported, UrlOneIsReported

-----------------------------------------------------------------------------
(* The releases *)

Pub(w)       == {p \in DOMAIN w : ~w[p].private}
Fit(w, p)    == Out!Sanitize(w[p], w)
Issues(w, p) == Out!PackedIssues(w[p]) \cup Out!ManifestIssues(Fit(w, p))
Rewriting    == tool \in {"check", "publish"}
Written      == IF step = "restore" THEN ToSet(todo) ELSE DOMAIN backups

(* There is a manifest of every package, always of the same ones, and what
   passed the check had nothing wrong with it.                             *)
FilesInv ==
    /\ IsFiniteSet(DOMAIN files) /\ Out!AreManifests(files)
    /\ Out!AreManifests(sources) /\ DOMAIN sources = DOMAIN files
    /\ step # "idle" => Out!AreManifests(readIn) /\ DOMAIN readIn = DOMAIN files
    /\ passed # <<>> => DOMAIN passed = DOMAIN files /\ \A p \in Pub(passed) : Issues(passed, p) = {}

(* A tool does one step after the other, with each package once, and but for
   the two that rewrite the manifests these are the committed ones.        *)
StepsInv ==
    /\ <<tool, step>> \in {<<"none", "idle">>, <<"sync", "apply">>} \cup ({"check", "publish"} \X {"apply", "work", "restore"})
    /\ todo \in Seq(DOMAIN files) /\ IsInjective(todo)
    /\ ~mishap => (IF Rewriting THEN readIn ELSE files) = sources

(* While manifests are rewritten those of the packages that are done are fit,
   the others are as they were read, and the backups are what was read.    *)
BackupsInv == Rewriting =>
    /\ DOMAIN backups = IF step = "apply" THEN Pub(readIn) \ ToSet(todo) ELSE Pub(readIn)
    /\ \A p \in DOMAIN backups : backups[p] = readIn[p]
    /\ ToSet(todo) \subseteq Pub(readIn)
    /\ \A p \in DOMAIN files : files[p] = IF p \in Written THEN Fit(readIn, p) ELSE readIn[p]

(* The check notes all that is wrong with the packages it is through with. *)
ErrorsInv == tool = "check" =>
    /\ step = "work" => \A p \in Pub(readIn) \ ToSet(todo) : \A i \in Issues(readIn, p) : <<p, i>> \in errors
    /\ step = "restore" /\ errors = {} => \A p \in Pub(readIn) : Issues(readIn, p) = {}

(* What can be said of a manifest that is published, but for its packing. *)
IsClean(m, names) ==
    /\ ~m.private /\ ~m.dev
    /\ \A s \in DOMAIN m.exports : "development" \notin m.exports[s] /\ m.exports[s] # {}
    /\ \A name \in DOMAIN m.ranges \cap names : ~m.ranges[name].workspace

PublishedInv == \A p \in DOMAIN published : IsClean(published[p], DOMAIN files)

RelInv == FilesInv /\ StepsInv /\ BackupsInv /\ ErrorsInv /\ PublishedInv

LEMMA ReleasesOperators ==
    /\ \A S : Out!IsFiniteSet(S) = IsFiniteSet(S)
    /\ \A S : Out!SetToSeq(S) = SetToSeq(S)
<1>1. \A S : Out!Cardinality(S) = Cardinality(S) /\ Out!IsFiniteSet(S) = IsFiniteSet(S)
  BY DEF Out!Cardinality, Cardinality, Out!IsFiniteSet, IsFiniteSet
<1>2. \A f : Out!IsInjective(f) <=> IsInjective(f)
  BY DEF Out!IsInjective, IsInjective
<1> QED
  BY <1>1, <1>2 DEF Out!SetToSeq, SetToSeq

LessThan == OpToRel(<, Nat)

LEMMA LessThanMeaning == \A m, n \in Nat : m < n => <<m, n>> \in LessThan
  BY DEF LessThan, OpToRel

LEMMA HasLeast ==
    ASSUME NEW T \in SUBSET Nat, T # {}
    PROVE  \E t \in T : \A u \in T : t <= u
<1>1. IsWellFoundedOn(LessThan, Nat)
  BY NatLessThanWellFounded, Zenon DEF LessThan
<1>2. PICK t \in T : \A u \in T : <<u, t>> \notin LessThan
  BY <1>1, WFMin
<1>3. \A u \in T : ~(u < t)
  BY <1>2, LessThanMeaning, Zenon
<1>4. \A u \in T : t <= u
  BY <1>3, SMT
<1> QED
  BY <1>4

(* The order of versions: identifiers, lists of them, and versions. *)
LEMMA IdentifiersAreOrdered ==
    ASSUME NEW a, NEW b, NEW c, Out!IsIdentifier(a), Out!IsIdentifier(b), Out!IsIdentifier(c)
    PROVE  /\ a = b <=> ~Out!IdentifierNewer(a, b) /\ ~Out!IdentifierNewer(b, a)
           /\ Out!IdentifierNewer(a, b) => ~Out!IdentifierNewer(b, a)
           /\ Out!IdentifierNewer(a, b) /\ Out!IdentifierNewer(b, c) => Out!IdentifierNewer(a, c)
<1>1. \A x \in {a, b, c} : x.numeric \in BOOLEAN /\ x.value \in Nat /\ x = [numeric |-> x.numeric, value |-> x.value]
  BY DEF Out!IsIdentifier
<1>2. ~Out!IdentifierNewer(a, b) /\ ~Out!IdentifierNewer(b, a) => a.numeric = b.numeric /\ a.value = b.value
  BY <1>1 DEF Out!IdentifierNewer
<1>3. a.numeric = b.numeric /\ a.value = b.value => a = b
  BY <1>1
<1>4. a = b => ~Out!IdentifierNewer(a, b) /\ ~Out!IdentifierNewer(b, a)
  BY <1>1 DEF Out!IdentifierNewer
<1>5. Out!IdentifierNewer(a, b) => ~Out!IdentifierNewer(b, a)
  BY <1>1 DEF Out!IdentifierNewer
<1>6. Out!IdentifierNewer(a, b) /\ Out!IdentifierNewer(b, c) => Out!IdentifierNewer(a, c)
  BY <1>1 DEF Out!IdentifierNewer
<1> QED
  BY <1>2, <1>3, <1>4, <1>5, <1>6

(* At a place one list is ahead of another when it goes on where the other
   ends, or has the newer identifier there.                                *)
AheadAt(l, r, i) == i \in DOMAIN l /\ (i \in DOMAIN r => Out!IdentifierNewer(l[i], r[i]))
SameAt(l, r, i)  == (i \in DOMAIN l <=> i \in DOMAIN r) /\ (i \in DOMAIN l => l[i] = r[i])
Ahead(l, r)      == \E i \in Nat \ {0} : AheadAt(l, r, i) /\ \A j \in 1..(i - 1) : SameAt(l, r, j)
IsList(s) == s \in Seq({s[i] : i \in DOMAIN s}) /\ \A i \in DOMAIN s : Out!IsIdentifier(s[i])

LEMMA PlacesAreOrdered ==
    ASSUME NEW a, NEW b, NEW c, IsList(a), IsList(b), IsList(c), NEW i
    PROVE  /\ SameAt(a, b, i) <=> ~AheadAt(a, b, i) /\ ~AheadAt(b, a, i)
           /\ AheadAt(a, b, i) => ~AheadAt(b, a, i)
           /\ AheadAt(a, b, i) /\ AheadAt(b, c, i) => AheadAt(a, c, i)
           /\ SameAt(a, b, i) /\ AheadAt(b, c, i) => AheadAt(a, c, i)
           /\ AheadAt(a, b, i) /\ SameAt(b, c, i) => AheadAt(a, c, i)
           /\ SameAt(a, b, i) /\ SameAt(b, c, i) => SameAt(a, c, i)
<1>1. \A s, t \in {a, b, c} : i \in DOMAIN s /\ i \in DOMAIN t =>
          /\ s[i] = t[i] <=> ~Out!IdentifierNewer(s[i], t[i]) /\ ~Out!IdentifierNewer(t[i], s[i])
          /\ Out!IdentifierNewer(s[i], t[i]) => ~Out!IdentifierNewer(t[i], s[i])
  BY IdentifiersAreOrdered DEF IsList
<1>2. i \in DOMAIN a /\ i \in DOMAIN b /\ i \in DOMAIN c /\ Out!IdentifierNewer(a[i], b[i]) /\ Out!IdentifierNewer(b[i], c[i])
          => Out!IdentifierNewer(a[i], c[i])
  BY IdentifiersAreOrdered DEF IsList
<1> QED
  BY <1>1, <1>2 DEF AheadAt, SameAt

LEMMA ListsAreOrdered ==
    ASSUME NEW a, NEW b, NEW c, IsList(a), IsList(b), IsList(c)
    PROVE  /\ a = b <=> ~Ahead(a, b) /\ ~Ahead(b, a)
           /\ Ahead(a, b) => ~Ahead(b, a)
           /\ Ahead(a, b) /\ Ahead(b, c) => Ahead(a, c)
<1>1. ASSUME ~Ahead(a, b), ~Ahead(b, a)
      PROVE  a = b
  <2>1. \A s \in {a, b} : Len(s) \in Nat /\ DOMAIN s = 1..Len(s) /\ s = [i \in DOMAIN s |-> s[i]]
    BY LenProperties DEF IsList
  <2> DEFINE T == {i \in Nat \ {0} : ~SameAt(a, b, i)}
  <2>2. T = {}
    <3>1. SUFFICES ASSUME T # {}
                   PROVE  FALSE
      OBVIOUS
    <3>2. PICK i \in T : \A j \in T : i <= j
      BY <3>1, HasLeast
    <3>3. \A j \in 1..(i - 1) : SameAt(a, b, j) /\ SameAt(b, a, j)
      <4>1. \A j \in 1..(i - 1) : j \in Nat \ {0} /\ ~(i <= j)
        BY <3>2
      <4>2. \A j \in 1..(i - 1) : SameAt(a, b, j)
        BY <3>2, <4>1
      <4> QED
        BY <4>2 DEF SameAt
    <3>4. AheadAt(a, b, i) \/ AheadAt(b, a, i)
      BY <3>2, PlacesAreOrdered
    <3> QED
      BY <1>1, <3>2, <3>3, <3>4 DEF Ahead
  <2>3. \A i \in Nat \ {0} : SameAt(a, b, i)
    BY <2>2
  <2>4. DOMAIN a = DOMAIN b
    <3>1. \A i \in Nat \ {0} : i \in 1..Len(a) <=> i \in 1..Len(b)
      BY <2>1, <2>3 DEF SameAt
    <3>2. Len(a) \in Nat /\ Len(b) \in Nat
      BY <2>1
    <3>3. Len(a) + 1 \in Nat \ {0} /\ Len(b) + 1 \in Nat \ {0}
      BY <3>2
    <3>4. ~(Len(a) + 1 \in 1..Len(b)) /\ ~(Len(b) + 1 \in 1..Len(a))
      BY <3>1, <3>2, <3>3
    <3>5. Len(a) = Len(b)
      BY <3>2, <3>4
    <3> QED
      BY Zenon, <2>1, <3>5
  <2> QED
    BY <2>1, <2>3, <2>4 DEF SameAt
<1>2. ASSUME Ahead(a, b), Ahead(b, c)
      PROVE  Ahead(a, c)
  <2>1. PICK i \in Nat \ {0} : AheadAt(a, b, i) /\ \A j \in 1..(i - 1) : SameAt(a, b, j)
    BY <1>2 DEF Ahead
  <2>2. PICK k \in Nat \ {0} : AheadAt(b, c, k) /\ \A j \in 1..(k - 1) : SameAt(b, c, j)
    BY <1>2 DEF Ahead
  <2>3. \E n \in Nat \ {0} : /\ n <= i /\ n <= k
                             /\ n = i \/ n \in 1..(i - 1)
                             /\ n = k \/ n \in 1..(k - 1)
                             /\ n = i \/ n = k
    <3>1. CASE i <= k
      BY <3>1
    <3>2. CASE k <= i
      BY <3>2
    <3> QED
      BY <3>1, <3>2
  <2>4. PICK n \in Nat \ {0} : /\ n <= i /\ n <= k
                               /\ n = i \/ n \in 1..(i - 1)
                               /\ n = k \/ n \in 1..(k - 1)
                               /\ n = i \/ n = k
    BY <2>3
  <2>5. AheadAt(a, c, n)
    BY <2>1, <2>2, <2>4, PlacesAreOrdered
  <2>6. \A j \in 1..(n - 1) : SameAt(a, c, j)
    <3>1. \A j \in 1..(n - 1) : j \in 1..(i - 1) /\ j \in 1..(k - 1)
      BY <2>4
    <3> QED
      BY <2>1, <2>2, <3>1, PlacesAreOrdered
  <2> QED
    BY <2>5, <2>6 DEF Ahead
<1>3. ASSUME NEW s \in {a, b}
      PROVE  ~Ahead(s, s)
  <2>1. \A i : SameAt(s, s, i)
    BY DEF SameAt
  <2> QED
    BY <2>1, PlacesAreOrdered DEF Ahead
<1>4. ASSUME Ahead(a, b), Ahead(b, a)
      PROVE  FALSE
  <2>1. PICK i \in Nat \ {0} : AheadAt(a, b, i) /\ \A j \in 1..(i - 1) : SameAt(a, b, j)
    BY <1>4 DEF Ahead
  <2>2. PICK k \in Nat \ {0} : AheadAt(b, a, k) /\ \A j \in 1..(k - 1) : SameAt(b, a, j)
    BY <1>4 DEF Ahead
  <2>3. i = k \/ i \in 1..(k - 1) \/ k \in 1..(i - 1)
    OBVIOUS
  <2> QED
    BY <2>1, <2>2, <2>3, PlacesAreOrdered
<1> QED
  BY <1>1, <1>2, <1>3, <1>4

(* How the comparison of the code finds the list that is ahead. *)
LEMMA PrereleasesAreCompared ==
    ASSUME NEW l, NEW r, IsList(l), IsList(r), l # <<>>, r # <<>>
    PROVE  Out!PrereleaseIsNewer(l, r) <=> Ahead(l, r)
<1> DEFINE common == {i \in DOMAIN l \cap DOMAIN r : l[i] # r[i]}
<1>1. /\ Len(l) \in Nat /\ DOMAIN l = 1..Len(l)
      /\ Len(r) \in Nat /\ DOMAIN r = 1..Len(r)
  BY LenProperties DEF IsList
<1>2. CASE common # {}
  <2>1. common \in SUBSET Nat
    BY <1>1
  <2>2. \E x \in common : \A y \in common : x <= y
    BY <1>2, <2>1, HasLeast
  <2> DEFINE m == Out!Min(common)
  <2>3. m \in common /\ \A y \in common : m <= y
    BY <2>2 DEF Out!Min
  <2>4. Out!PrereleaseIsNewer(l, r) <=> Out!IdentifierNewer(l[m], r[m])
    BY <1>2 DEF Out!PrereleaseIsNewer
  <2> HIDE DEF m
  <2>5. m \in Nat \ {0} /\ m \in DOMAIN l /\ m \in DOMAIN r /\ l[m] # r[m]
    BY <1>1, <2>3
  <2>6. \A j \in 1..(m - 1) : SameAt(l, r, j)
    <3>1. \A j \in 1..(m - 1) : j \in DOMAIN l /\ j \in DOMAIN r /\ ~(m <= j)
      BY <1>1, <2>5
    <3> QED
      BY <2>3, <3>1 DEF SameAt
  <2>7. Out!IdentifierNewer(l[m], r[m]) => Ahead(l, r)
    BY <2>5, <2>6 DEF Ahead, AheadAt
  <2>8. ASSUME Ahead(l, r)
        PROVE  Out!IdentifierNewer(l[m], r[m])
    <3>1. PICK i \in Nat \ {0} : AheadAt(l, r, i) /\ \A j \in 1..(i - 1) : SameAt(l, r, j)
      BY <2>8 DEF Ahead
    <3>2. ~(m \in 1..(i - 1)) /\ ~(i \in 1..(m - 1))
      BY <2>5, <2>6, <3>1, PlacesAreOrdered DEF SameAt
    <3>3. i = m
      BY <2>5, <3>2
    <3> QED
      BY <2>5, <3>1, <3>3 DEF AheadAt
  <2> QED
    BY <2>4, <2>7, <2>8
<1>3. CASE common = {}
  <2>1. Out!PrereleaseIsNewer(l, r) <=> Len(l) > Len(r)
    BY <1>3 DEF Out!PrereleaseIsNewer
  <2>2. \A i \in DOMAIN l \cap DOMAIN r : l[i] = r[i] /\ ~AheadAt(l, r, i)
    <3>1. \A i \in DOMAIN l \cap DOMAIN r : l[i] = r[i]
      BY <1>3
    <3> QED
      BY <3>1, PlacesAreOrdered DEF SameAt
  <2>3. ASSUME Len(l) > Len(r)
        PROVE  Ahead(l, r)
    <3>1. Len(r) + 1 \in Nat \ {0} /\ Len(r) + 1 \in DOMAIN l /\ Len(r) + 1 \notin DOMAIN r
      BY <1>1, <2>3
    <3>2. \A j \in 1..((Len(r) + 1) - 1) : j \in DOMAIN l /\ j \in DOMAIN r
      BY <1>1, <2>3
    <3> QED
      BY <2>2, <3>1, <3>2 DEF Ahead, AheadAt, SameAt
  <2>4. ASSUME Ahead(l, r)
        PROVE  Len(l) > Len(r)
    <3>1. PICK i \in Nat \ {0} : AheadAt(l, r, i)
      BY <2>4 DEF Ahead
    <3>2. i \in DOMAIN l /\ i \notin DOMAIN r
      BY <2>2, <3>1 DEF AheadAt
    <3> QED
      BY <1>1, <3>2
  <2> QED
    BY <2>1, <2>3, <2>4
<1> QED
  BY <1>2, <1>3

LEMMA PrereleasesAreOrdered ==
    ASSUME NEW a, NEW b, NEW c, IsList(a), IsList(b), IsList(c)
    PROVE  /\ a = b <=> ~Out!PrereleaseIsNewer(a, b) /\ ~Out!PrereleaseIsNewer(b, a)
           /\ Out!PrereleaseIsNewer(a, b) => ~Out!PrereleaseIsNewer(b, a)
           /\ Out!PrereleaseIsNewer(a, b) /\ Out!PrereleaseIsNewer(b, c) => Out!PrereleaseIsNewer(a, c)
<1>1. ASSUME NEW l, NEW r, IsList(l), IsList(r)
      PROVE  Out!PrereleaseIsNewer(l, r) <=>
                 IF l = <<>> \/ r = <<>> THEN l = <<>> /\ r # <<>> ELSE Ahead(l, r)
  <2>1. CASE l = <<>> \/ r = <<>>
    BY <2>1 DEF Out!PrereleaseIsNewer
  <2>2. CASE l # <<>> /\ r # <<>>
    BY <1>1, <2>2, PrereleasesAreCompared
  <2> QED
    BY <2>1, <2>2
<1>2. /\ a = b <=> ~Ahead(a, b) /\ ~Ahead(b, a)
      /\ Ahead(a, b) => ~Ahead(b, a)
      /\ Ahead(a, b) /\ Ahead(b, c) => Ahead(a, c)
  BY ListsAreOrdered
<1>3. /\ Out!PrereleaseIsNewer(a, b) <=> IF a = <<>> \/ b = <<>> THEN a = <<>> /\ b # <<>> ELSE Ahead(a, b)
      /\ Out!PrereleaseIsNewer(b, a) <=> IF b = <<>> \/ a = <<>> THEN b = <<>> /\ a # <<>> ELSE Ahead(b, a)
      /\ Out!PrereleaseIsNewer(b, c) <=> IF b = <<>> \/ c = <<>> THEN b = <<>> /\ c # <<>> ELSE Ahead(b, c)
      /\ Out!PrereleaseIsNewer(a, c) <=> IF a = <<>> \/ c = <<>> THEN a = <<>> /\ c # <<>> ELSE Ahead(a, c)
  BY <1>1
<1>4. a = b <=> ~Out!PrereleaseIsNewer(a, b) /\ ~Out!PrereleaseIsNewer(b, a)
  BY <1>2, <1>3
<1>5. Out!PrereleaseIsNewer(a, b) => ~Out!PrereleaseIsNewer(b, a)
  BY <1>2, <1>3
<1>6. Out!PrereleaseIsNewer(a, b) /\ Out!PrereleaseIsNewer(b, c) => Out!PrereleaseIsNewer(a, c)
  BY <1>2, <1>3
<1> QED
  BY <1>4, <1>5, <1>6

(* The order of versions is a strict total order. *)
LEMMA VersionsAreOrdered ==
    ASSUME NEW a, NEW b, NEW c, Out!IsVersion(a), Out!IsVersion(b), Out!IsVersion(c)
    PROVE  /\ a = b <=> ~Out!Newer(a, b) /\ ~Out!Newer(b, a)
           /\ Out!Newer(a, b) => ~Out!Newer(b, a)
           /\ Out!Newer(a, b) /\ Out!Newer(b, c) => Out!Newer(a, c)
<1> DEFINE Pre(l, r) == Out!PrereleaseIsNewer(l.prerelease, r.prerelease)
<1>1. \A v \in {a, b, c} : IsList(v.prerelease) /\ v.major \in Nat /\ v.minor \in Nat /\ v.patch \in Nat
  BY DEF Out!IsVersion, IsList
<1>2. /\ a.prerelease = b.prerelease <=> ~Pre(a, b) /\ ~Pre(b, a)
      /\ Pre(a, b) => ~Pre(b, a)
      /\ Pre(a, b) /\ Pre(b, c) => Pre(a, c)
  BY <1>1, PrereleasesAreOrdered
<1>3. \A l, r \in {a, b, c} : Out!Newer(l, r) <=>
          \/ l.major > r.major
          \/ l.major = r.major /\ l.minor > r.minor
          \/ l.major = r.major /\ l.minor = r.minor /\ l.patch > r.patch
          \/ l.major = r.major /\ l.minor = r.minor /\ l.patch = r.patch /\ Pre(l, r)
  BY <1>1 DEF Out!Newer
<1>4. \A l, r \in {a, b} : l.major = r.major /\ l.minor = r.minor /\ l.patch = r.patch /\ l.prerelease = r.prerelease => l = r
  BY DEF Out!IsVersion
<1> HIDE DEF Pre
<1>5. a = b => ~Out!Newer(a, b) /\ ~Out!Newer(b, a)
  BY <1>1, <1>2, <1>3
<1>6. ~Out!Newer(a, b) /\ ~Out!Newer(b, a) => a = b
  BY <1>1, <1>2, <1>3, <1>4
<1>7. Out!Newer(a, b) => ~Out!Newer(b, a)
  BY <1>1, <1>2, <1>3
<1>8. Out!Newer(a, b) /\ Out!Newer(b, c) => Out!Newer(a, c)
  BY <1>1, <1>2, <1>3
<1> QED
  BY <1>5, <1>6, <1>7, <1>8

(* One of finitely many versions is the newest. *)
Newest(S, v) == v \in S /\ \A w \in S : ~Out!Newer(w, v)

LEMMA OneIsNewest ==
    ASSUME NEW S, IsFiniteSet(S), S # {}, \A v \in S : Out!IsVersion(v)
    PROVE  /\ \E v \in S : Newest(S, v)
           /\ \A v, w \in S : Newest(S, v) /\ Newest(S, w) => v = w
<1> DEFINE Older(v) == {w \in S : Out!Newer(v, w)}
           Left(v) == Cardinality(S) - Cardinality(Older(v))
           T == {Left(v) : v \in S}
<1>1. \A v \in S : /\ Older(v) \in SUBSET S /\ IsFiniteSet(Older(v))
                    /\ Cardinality(Older(v)) \in Nat /\ Cardinality(Older(v)) <= Cardinality(S)
  BY FS_Subset, FS_CardinalityType
<1>2. Cardinality(S) \in Nat
  BY FS_CardinalityType
<1>3. T \in SUBSET Nat /\ T # {}
  <2>1. \A v \in S : Left(v) \in Nat
    BY <1>1, <1>2
  <2> HIDE DEF Left
  <2> QED
    BY <2>1
<1>4. PICK t \in T : \A u \in T : t <= u
  BY <1>3, HasLeast
<1>5. PICK v \in S : \A w \in S : Left(v) <= Left(w)
  BY <1>4
<1>6. ASSUME NEW w \in S, Out!Newer(w, v)
      PROVE  FALSE
  <2>1. v \in Older(w) /\ v \notin Older(v)
    BY <1>6, VersionsAreOrdered
  <2>2. Older(v) \cup {v} \in SUBSET Older(w)
    BY <1>6, <2>1, VersionsAreOrdered
  <2>3. IsFiniteSet(Older(v)) /\ IsFiniteSet(Older(w))
    BY <1>1
  <2> HIDE DEF Older
  <2>4. Cardinality(Older(v) \cup {v}) = Cardinality(Older(v)) + 1
    BY <2>1, <2>3, FS_AddElement
  <2>5. Cardinality(Older(v) \cup {v}) <= Cardinality(Older(w))
    BY <2>2, <2>3, FS_Subset
  <2> QED
    BY <1>1, <1>2, <1>5, <2>4, <2>5
<1>7. Newest(S, v)
  BY <1>6 DEF Newest
<1>8. \A x, y \in S : Newest(S, x) /\ Newest(S, y) => x = y
  BY VersionsAreOrdered DEF Newest
<1> QED
  BY <1>7, <1>8

(* The version that a synchronisation brings the packages to. *)
VersionsIn(w) == {w[p].version : p \in DOMAIN w}

LEMMA TargetIsNewest ==
    ASSUME NEW w, IsFiniteSet(DOMAIN w), Out!AreManifests(w), DOMAIN w # {}
    PROVE  /\ Newest(VersionsIn(w), Out!TargetVersion(w)) /\ Out!IsVersion(Out!TargetVersion(w))
           /\ \A v : Newest(VersionsIn(w), v) => v = Out!TargetVersion(w)
<1> DEFINE S == VersionsIn(w)
<1>1. S # {} /\ \A v \in S : Out!IsVersion(v)
  BY DEF VersionsIn, Out!AreManifests, Out!IsManifest
<1>2. IsFiniteSet(S)
  <2> DEFINE D == DOMAIN w
             f == [p \in D |-> w[p].version]
  <2>1. S = {f[p] : p \in D} /\ f = [p \in D |-> f[p]]
    BY DEF VersionsIn
  <2> HIDE DEF f
  <2> QED
    BY <2>1, ImageIsFinite
<1>3. Out!TargetVersion(w) = CHOOSE v \in S : \A u \in S : ~Out!Newer(u, v)
  BY DEF Out!TargetVersion, VersionsIn
<1> HIDE DEF S
<1>4. /\ \E v \in S : Newest(S, v)
      /\ \A v, u \in S : Newest(S, v) /\ Newest(S, u) => v = u
  BY <1>1, <1>2, OneIsNewest
<1>5. Newest(S, Out!TargetVersion(w))
  BY <1>3, <1>4 DEF Newest
<1>6. \A v : Newest(S, v) => v = Out!TargetVersion(w)
  BY <1>4, <1>5 DEF Newest
<1> QED
  BY <1>1, <1>5, <1>6 DEF S, Newest

(* A range of a package that is there does not refer to the workspace. *)
LEMMA ResolvedIs ==
    ASSUME NEW name, NEW range, Out!IsRange(range), NEW w, NEW r, r = Out!ResolveRange(name, range, w)
    PROVE  /\ Out!IsRange(r) /\ r.spec = range.spec
           /\ name \in DOMAIN w => ~r.workspace
           /\ name \notin DOMAIN w => r = range
<1> DEFINE pinned == IF range.spec \in {"", "*", "^", "^*", "~", "~*"} THEN <<w[name].version>> ELSE <<>>
<1>1. CASE range.workspace /\ name \in DOMAIN w
  <2>1. r = [range EXCEPT !.workspace = FALSE, !.pinned = pinned]
    BY <1>1 DEF Out!ResolveRange
  <2> HIDE DEF pinned
  <2>2. r = [spec |-> range.spec, workspace |-> FALSE, pinned |-> pinned]
    BY <2>1 DEF Out!IsRange
  <2> QED
    BY <1>1, <2>2 DEF Out!IsRange
<1>2. CASE ~(range.workspace /\ name \in DOMAIN w)
  BY <1>2 DEF Out!ResolveRange
<1> QED
  BY <1>1, <1>2

(* What sanitizePackageJson changes and what it leaves. *)
LEMMA SanitizedIs ==
    ASSUME NEW m, Out!IsManifest(m), NEW w, NEW s, s = Out!Sanitize(m, w)
    PROVE  /\ Out!IsManifest(s) /\ ~s.dev
           /\ s.private = m.private /\ s.described = m.described /\ s.packs = m.packs
           /\ s.exports = Out!SanitizeExports(m.exports)
           /\ DOMAIN s.ranges = DOMAIN m.ranges
           /\ \A name \in DOMAIN m.ranges : s.ranges[name] = Out!ResolveRange(name, m.ranges[name], w)
<1> DEFINE ranges == [name \in DOMAIN m.ranges |-> Out!ResolveRange(name, m.ranges[name], w)]
           exports == Out!SanitizeExports(m.exports)
<1>1. s = [m EXCEPT !.exports = exports, !.dev = FALSE, !.ranges = ranges]
  BY DEF Out!Sanitize
<1>2. /\ DOMAIN ranges = DOMAIN m.ranges
      /\ \A name \in DOMAIN m.ranges : ranges[name] = Out!ResolveRange(name, m.ranges[name], w)
  OBVIOUS
<1> HIDE DEF ranges, exports
<1>3. s = [version |-> m.version, private |-> m.private, ranges |-> ranges, exports |-> exports,
           dev |-> FALSE, described |-> m.described, packs |-> m.packs]
  BY <1>1 DEF Out!IsManifest
<1>4. /\ s.version = m.version /\ s.private = m.private /\ s.ranges = ranges /\ s.exports = exports
      /\ s.dev = FALSE /\ s.described = m.described /\ s.packs = m.packs
  BY <1>3
<1>5. \A name \in DOMAIN ranges : Out!IsRange(ranges[name])
  BY <1>2, ResolvedIs DEF Out!IsManifest
<1> QED
  BY <1>2, <1>3, <1>4, <1>5 DEF Out!IsManifest, exports

LEMMA VersionedIs ==
    ASSUME NEW m, Out!IsManifest(m), NEW version, Out!IsVersion(version)
    PROVE  Out!IsManifest([m EXCEPT !.version = version])
<1> DEFINE s == [m EXCEPT !.version = version]
<1>1. s = [version |-> version, private |-> m.private, ranges |-> m.ranges, exports |-> m.exports,
           dev |-> m.dev, described |-> m.described, packs |-> m.packs]
  BY DEF Out!IsManifest
<1>2. /\ s.version = version /\ s.private = m.private /\ s.ranges = m.ranges /\ s.exports = m.exports
      /\ s.dev = m.dev /\ s.described = m.described /\ s.packs = m.packs
  BY <1>1
<1> HIDE DEF s
<1>3. Out!IsManifest(s)
  BY <1>1, <1>2 DEF Out!IsManifest
<1> QED
  BY <1>3 DEF s

(* A manifest that is rewritten may be published. *)
LEMMA FitIsClean ==
    ASSUME NEW w, Out!AreManifests(w), NEW p \in Pub(w)
    PROVE  IsClean(Fit(w, p), DOMAIN w)
<1> DEFINE m == w[p]
           s == Fit(w, p)
<1>1. p \in DOMAIN w /\ Out!IsManifest(m) /\ ~m.private /\ s = Out!Sanitize(m, w)
  BY DEF Out!AreManifests, Pub, Fit
<1> HIDE DEF m, s
<1>2. /\ ~s.dev /\ s.private = m.private /\ s.exports = Out!SanitizeExports(m.exports)
      /\ DOMAIN s.ranges = DOMAIN m.ranges
      /\ \A name \in DOMAIN m.ranges : s.ranges[name] = Out!ResolveRange(name, m.ranges[name], w)
  BY <1>1, SanitizedIs
<1>3. \A x \in DOMAIN s.exports : "development" \notin s.exports[x] /\ s.exports[x] # {}
  BY <1>2 DEF Out!SanitizeExports
<1>4. \A name \in DOMAIN s.ranges \cap DOMAIN w : ~s.ranges[name].workspace
  BY <1>1, <1>2, ResolvedIs DEF Out!IsManifest
<1>5. IsClean(s, DOMAIN w)
  BY <1>1, <1>2, <1>3, <1>4 DEF IsClean
<1> QED
  BY <1>5 DEF s

(* What passed the check and is clean has nothing wrong with it, whether the
   manifest is the one that was committed or the one made of it.           *)
LEMMA StillFit ==
    ASSUME NEW w, Out!AreManifests(w), NEW p \in DOMAIN w, Issues(w, p) = {},
           NEW m, m = w[p] \/ m = Fit(w, p), IsClean(m, DOMAIN w)
    PROVE  Out!PackedIssues(m) \cup Out!ManifestIssues(m) = {}
<1> DEFINE o == w[p]
           s == Fit(w, p)
<1>1. Out!IsManifest(o) /\ s = Out!Sanitize(o, w) /\ (m = o \/ m = s)
  BY DEF Out!AreManifests, Fit
<1>2. Out!PackedIssues(o) = {} /\ Out!ManifestIssues(s) = {}
  BY DEF Issues
<1> HIDE DEF o, s
<1>3. /\ s.described = o.described /\ s.packs = o.packs
      /\ s.exports = Out!SanitizeExports(o.exports)
      /\ DOMAIN s.ranges = DOMAIN o.ranges
      /\ \A name \in DOMAIN o.ranges : s.ranges[name] = Out!ResolveRange(name, o.ranges[name], w)
  BY <1>1, SanitizedIs
<1>4. CASE m = s
  <2>1. DOMAIN s.exports # {} => DOMAIN o.exports # {}
    BY <1>3 DEF Out!SanitizeExports
  <2>2. Out!PackedIssues(s) = {}
    BY <1>2, <1>3, <2>1 DEF Out!PackedIssues
  <2> QED
    BY <1>2, <1>4, <2>2
<1>5. CASE m = o
  <2>1. ASSUME NEW name \in DOMAIN o.ranges
        PROVE  ~o.ranges[name].workspace /\ o.ranges[name].spec # "latest"
    <3> DEFINE r == s.ranges[name]
    <3>1. ~r.workspace /\ r.spec # "latest"
      BY <1>2, <1>3 DEF Out!ManifestIssues
    <3>2. r = Out!ResolveRange(name, o.ranges[name], w) /\ Out!IsRange(o.ranges[name])
      BY <1>1, <1>3 DEF Out!IsManifest
    <3>3. r.spec = o.ranges[name].spec /\ (name \notin DOMAIN w => r = o.ranges[name])
      BY <3>2, ResolvedIs
    <3>4. name \in DOMAIN w => ~o.ranges[name].workspace
      BY <1>5 DEF IsClean
    <3> QED
      BY <3>1, <3>3, <3>4
  <2>2. s.described
    BY <1>2 DEF Out!ManifestIssues
  <2>3. ~o.dev /\ ~(\E x \in DOMAIN o.exports : "development" \in o.exports[x])
    BY <1>5 DEF IsClean
  <2>4. Out!ManifestIssues(o) = {}
    BY <1>3, <2>1, <2>2, <2>3 DEF Out!ManifestIssues
  <2> QED
    BY <1>2, <1>5, <2>4
<1> QED
  BY <1>1, <1>4, <1>5

(* The lists of packages that the tools go through. *)
LEMMA PackagesIs ==
    ASSUME NEW D, NEW S \in SUBSET D, IsFiniteSet(S), NEW s, s = Out!SetToSeq(S)
    PROVE  s \in Seq(D) /\ IsInjective(s) /\ ToSet(s) = S
<1>1. /\ s \in Seq(S) /\ \A i, j \in 1..Len(s) : s[i] = s[j] => i = j
      /\ \A x \in S : \E i \in 1..Len(s) : s[i] = x
  <2>1. s = SetToSeq(S)
    BY ReleasesOperators
  <2> QED
    BY <2>1, ListOfSet
<1>2. DOMAIN s = 1..Len(s) /\ \A i \in 1..Len(s) : s[i] \in S
  BY <1>1, LenProperties, ElementOfSeq
<1>3. s \in Seq(D)
  BY <1>1, <1>2, SeqDef
<1>4. ToSet(s) = S
  BY <1>1, <1>2 DEF ToSet
<1> QED
  BY <1>1, <1>2, <1>3, <1>4 DEF IsInjective

LEMMA TodoIs ==
    ASSUME StepsInv, todo # <<>>
    PROVE  /\ Head(todo) \in DOMAIN files /\ Head(todo) \in ToSet(todo)
           /\ Tail(todo) \in Seq(DOMAIN files) /\ IsInjective(Tail(todo))
           /\ ToSet(Tail(todo)) = ToSet(todo) \ {Head(todo)}
<1>1. todo \in Seq(DOMAIN files) /\ IsInjective(todo)
  BY DEF StepsInv
<1>2. Head(todo) = todo[1] /\ 1 \in DOMAIN todo
  BY <1>1, HeadTailProperties, EmptySeq, LenProperties
<1> QED
  BY <1>1, <1>2, TailIs DEF ToSet

LEMMA NothingTodo == ToSet(<<>>) = {} /\ IsInjective(<<>>) /\ \A S : <<>> \in Seq(S)
  BY EmptyList
(* What most steps leave. *)
LEMMA FilesStay ==
    ASSUME FilesInv, UNCHANGED <<files, readIn, sources, passed>>, step' = "idle" \/ step # "idle"
    PROVE  FilesInv'
BY DEF FilesInv, Issues, Pub, Fit

LEMMA PublishedStay ==
    ASSUME PublishedInv, UNCHANGED published, DOMAIN files' = DOMAIN files
    PROVE  PublishedInv'
BY DEF PublishedInv

LEMMA BackupsStay ==
    ASSUME BackupsInv, UNCHANGED <<files, tool, step, todo, readIn, backups>>
    PROVE  BackupsInv'
BY DEF BackupsInv, Rewriting, Written

LEMMA ToolEnds ==
    ASSUME RelInv, Out!End, ~mishap' => files' = sources'
    PROVE  StepsInv' /\ BackupsInv' /\ ErrorsInv'
<1>1. tool' = "none" /\ step' = "idle" /\ todo' = <<>>
  BY DEF Out!End
<1>2. StepsInv'
  BY <1>1, NothingTodo DEF StepsInv, Rewriting
<1> QED
  BY <1>1, <1>2 DEF BackupsInv, ErrorsInv, Rewriting

LEMMA ManifestWritten ==
    ASSUME FilesInv, NEW p \in DOMAIN files, NEW m, Out!IsManifest(m), files' = [files EXCEPT ![p] = m]
    PROVE  /\ Out!AreManifests(files') /\ DOMAIN files' = DOMAIN files
           /\ files'[p] = m /\ \A q \in DOMAIN files : q # p => files'[q] = files[q]
<1>1. files' = [q \in DOMAIN files |-> IF q = p THEN m ELSE files[q]]
  OBVIOUS
<1>2. \A q \in DOMAIN files : Out!IsManifest(files[q])
  BY DEF FilesInv, Out!AreManifests
<1> QED
  BY <1>1, <1>2 DEF Out!AreManifests

LEMMA ReleasesStart ==
    ASSUME Out!ReleaseConstants, Out!ReleaseInit
    PROVE  RelInv
<1>1. /\ files \in Workspaces /\ sources = files /\ tool = "none" /\ step = "idle" /\ todo = <<>>
      /\ passed = <<>> /\ published = Out!NoneOf
  BY DEF Out!ReleaseInit
<1>2. IsFiniteSet(DOMAIN files) /\ Out!AreManifests(files)
  BY <1>1, ReleasesOperators DEF Out!ReleaseConstants
<1>3. FilesInv
  BY <1>1, <1>2 DEF FilesInv
<1>4. StepsInv
  BY <1>1, NothingTodo DEF StepsInv, Rewriting
<1>5. BackupsInv /\ ErrorsInv
  BY <1>1 DEF BackupsInv, ErrorsInv, Rewriting
<1>6. PublishedInv
  BY <1>1 DEF PublishedInv, Out!NoneOf
<1> QED
  BY <1>3, <1>4, <1>5, <1>6 DEF RelInv

LEMMA BeginStep ==
    ASSUME RelInv, NEW which \in {"check", "publish", "sync"}, Out!Begin(which)
    PROVE  RelInv'
<1> DEFINE D == DOMAIN files
           behind == {p \in D : files[p].version # Out!TargetVersion(files)}
<1>1. /\ step = "idle" /\ tool' = which /\ step' = "apply" /\ readIn' = files
      /\ todo' = IF which = "sync" THEN Out!SetToSeq(behind) ELSE Out!SetToSeq(Pub(files))
      /\ backups' = Out!NoneOf /\ errors' = {}
      /\ UNCHANGED <<files, sources, mishap, passed, published>>
  BY DEF Out!Begin, Out!Publishable, Pub
<1>2. FilesInv /\ StepsInv /\ PublishedInv /\ IsFiniteSet(D)
  BY DEF RelInv, FilesInv
<1>3. behind \in SUBSET D /\ Pub(files) \in SUBSET D /\ IsFiniteSet(behind) /\ IsFiniteSet(Pub(files))
  BY <1>2, FS_Subset DEF Pub
<1>4. todo' \in Seq(D) /\ IsInjective(todo') /\ (which # "sync" => ToSet(todo') = Pub(files))
  <2> HIDE DEF D, behind
  <2> QED
    BY <1>1, <1>3, PackagesIs
<1> HIDE DEF behind
<1>5. FilesInv'
  BY <1>1, <1>2 DEF FilesInv, Issues, Pub, Fit
<1>6. StepsInv'
  BY <1>1, <1>2, <1>4 DEF StepsInv, Rewriting
<1>7. BackupsInv'
  BY <1>1, <1>4 DEF BackupsInv, Rewriting, Written, Out!NoneOf
<1>8. ErrorsInv' /\ PublishedInv'
  BY <1>1, <1>2, PublishedStay DEF ErrorsInv
<1> QED
  BY <1>5, <1>6, <1>7, <1>8 DEF RelInv

LEMMA ApplyOneStep ==
    ASSUME RelInv, Out!ApplyOne
    PROVE  RelInv'
<1> DEFINE p == Head(todo)
<1>1. /\ Rewriting /\ step = "apply" /\ todo # <<>> /\ todo' = Tail(todo)
      /\ backups' = [q \in DOMAIN backups \cup {p} |-> IF q = p THEN files[p] ELSE backups[q]]
      /\ files' = [files EXCEPT ![p] = Out!Sanitize(files[p], readIn)]
      /\ UNCHANGED <<tool, step, readIn, errors, sources, mishap, passed, published>>
  BY DEF Out!ApplyOne, Rewriting
<1>2. FilesInv /\ StepsInv /\ BackupsInv /\ PublishedInv
  BY DEF RelInv
<1>3. /\ p \in DOMAIN files /\ p \in ToSet(todo) /\ todo' \in Seq(DOMAIN files) /\ IsInjective(todo')
      /\ ToSet(todo') = ToSet(todo) \ {p}
  BY <1>1, <1>2, TodoIs
<1>4. /\ DOMAIN backups = Pub(readIn) \ ToSet(todo) /\ ToSet(todo) \subseteq Pub(readIn)
      /\ \A q \in DOMAIN backups : backups[q] = readIn[q]
      /\ \A q \in DOMAIN files : files[q] = IF q \in DOMAIN backups THEN Fit(readIn, q) ELSE readIn[q]
  BY <1>1, <1>2 DEF BackupsInv, Written
<1>5. files[p] = readIn[p] /\ Out!Sanitize(files[p], readIn) = Fit(readIn, p)
  BY <1>3, <1>4 DEF Fit
<1>6. Out!IsManifest(Fit(readIn, p))
  BY <1>2, <1>3, <1>5, SanitizedIs DEF FilesInv, Out!AreManifests
<1> HIDE DEF p
<1>7. /\ Out!AreManifests(files') /\ DOMAIN files' = DOMAIN files
      /\ files'[p] = Fit(readIn, p) /\ \A q \in DOMAIN files : q # p => files'[q] = files[q]
  BY <1>1, <1>2, <1>3, <1>5, <1>6, ManifestWritten
<1>8. FilesInv'
  BY <1>1, <1>2, <1>7 DEF FilesInv, Issues, Pub, Fit
<1>9. StepsInv'
  BY <1>1, <1>2, <1>3, <1>7 DEF StepsInv, Rewriting
<1>10. BackupsInv'
  <2>1. DOMAIN backups' = Pub(readIn) \ ToSet(todo') /\ \A q \in DOMAIN backups' : backups'[q] = readIn[q]
    BY <1>1, <1>3, <1>4, <1>5
  <2>2. \A q \in DOMAIN files' : files'[q] = IF q \in DOMAIN backups' THEN Fit(readIn, q) ELSE readIn[q]
    BY <1>1, <1>4, <1>7
  <2>3. ToSet(todo') \subseteq Pub(readIn)
    BY <1>3, <1>4
  <2> QED
    BY <1>1, <2>1, <2>2, <2>3 DEF BackupsInv, Written, Pub, Fit
<1>11. ErrorsInv' /\ PublishedInv'
  BY <1>1, <1>2, <1>7, PublishedStay DEF ErrorsInv
<1> QED
  BY <1>8, <1>9, <1>10, <1>11 DEF RelInv

LEMMA AppliedStep ==
    ASSUME RelInv, Out!Applied
    PROVE  RelInv'
<1>1. /\ Rewriting /\ step = "apply" /\ todo = <<>> /\ step' = "work" /\ todo' = Out!SetToSeq(Pub(readIn))
      /\ UNCHANGED <<files, tool, readIn, backups, errors, sources, mishap, passed, published>>
  BY DEF Out!Applied, Rewriting, Out!Publishable, Pub
<1>2. FilesInv /\ StepsInv /\ BackupsInv /\ PublishedInv
  BY DEF RelInv
<1>3. Pub(readIn) \in SUBSET DOMAIN files /\ IsFiniteSet(Pub(readIn))
  <2>1. Pub(readIn) \in SUBSET DOMAIN files /\ IsFiniteSet(DOMAIN files)
    BY <1>1, <1>2 DEF FilesInv, Pub
  <2> QED
    BY <2>1, FS_Subset
<1>4. todo' \in Seq(DOMAIN files) /\ IsInjective(todo') /\ ToSet(todo') = Pub(readIn)
  BY <1>1, <1>3, PackagesIs
<1>5. FilesInv' /\ PublishedInv'
  BY <1>1, <1>2, FilesStay, PublishedStay
<1>6. StepsInv'
  BY <1>1, <1>2, <1>4 DEF StepsInv, Rewriting
<1>7. BackupsInv'
  <2>1. DOMAIN backups = Pub(readIn)
    BY <1>1, <1>2, NothingTodo DEF BackupsInv
  <2> QED
    BY <1>1, <1>2, <1>4, <2>1 DEF BackupsInv, Rewriting, Written, Pub, Fit
<1>8. ErrorsInv'
  BY <1>1, <1>4 DEF ErrorsInv, Issues, Pub, Fit
<1> QED
  BY <1>5, <1>6, <1>7, <1>8 DEF RelInv

LEMMA ApplyFailsStep ==
    ASSUME RelInv, Out!ApplyFails
    PROVE  RelInv'
<1>1. /\ Rewriting /\ step = "apply" /\ mishap' = (mishap \/ DOMAIN backups # {}) /\ Out!End
      /\ UNCHANGED <<files, readIn, sources, passed, published>>
  BY DEF Out!ApplyFails, Rewriting
<1>2. FilesInv /\ StepsInv /\ BackupsInv /\ PublishedInv
  BY DEF RelInv
<1>3. FilesInv' /\ PublishedInv'
  BY <1>1, <1>2, FilesStay, PublishedStay
<1>4. ASSUME ~mishap'
      PROVE  files' = sources'
  <2>1. ~mishap /\ DOMAIN backups = {}
    BY <1>1, <1>4
  <2>2. \A q \in DOMAIN files : files[q] = readIn[q]
    BY <1>1, <1>2, <2>1 DEF BackupsInv, Written
  <2>3. files = readIn
    BY <1>1, <1>2, <2>2 DEF FilesInv, Out!AreManifests
  <2> QED
    BY <1>1, <1>2, <2>1, <2>3 DEF StepsInv
<1> QED
  BY <1>1, <1>3, <1>4, ToolEnds DEF RelInv
LEMMA PackOneStep ==
    ASSUME RelInv, Out!PackOne
    PROVE  RelInv'
<1> DEFINE p == Head(todo)
           issues == Issues(readIn, p)
<1>1. /\ tool = "check" /\ step = "work" /\ todo # <<>> /\ todo' = Tail(todo)
      /\ errors' = errors \cup ({p} \X issues)
      /\ UNCHANGED <<files, tool, step, readIn, backups, sources, mishap, passed, published>>
  BY DEF Out!PackOne, Issues, Fit
<1>2. FilesInv /\ StepsInv /\ BackupsInv /\ ErrorsInv /\ PublishedInv
  BY DEF RelInv
<1>3. /\ todo' \in Seq(DOMAIN files) /\ IsInjective(todo') /\ ToSet(todo') = ToSet(todo) \ {p}
  BY <1>1, <1>2, TodoIs
<1>4. FilesInv' /\ PublishedInv'
  BY <1>1, <1>2, FilesStay, PublishedStay
<1>5. StepsInv'
  BY <1>1, <1>2, <1>3 DEF StepsInv, Rewriting
<1>6. BackupsInv'
  BY <1>1, <1>2, <1>3 DEF BackupsInv, Rewriting, Written, Pub, Fit
<1>7. ErrorsInv'
  <2>1. \A q \in Pub(readIn) \ ToSet(todo) : \A i \in Issues(readIn, q) : <<q, i>> \in errors
    BY Zenon, <1>1, <1>2 DEF ErrorsInv
  <2>2. \A i \in issues : <<p, i>> \in {p} \X issues
    OBVIOUS
  <2> HIDE DEF p, issues
  <2>3. \A q \in Pub(readIn) \ ToSet(todo') : q = p \/ q \in Pub(readIn) \ ToSet(todo)
    BY <1>3
  <2>4. \A q \in Pub(readIn) \ ToSet(todo') : \A i \in Issues(readIn, q) : <<q, i>> \in errors'
    <3>1. \A i \in issues : <<p, i>> \in errors'
      BY <1>1, <2>2
    <3>2. \A i \in Issues(readIn, p) : <<p, i>> \in errors'
      BY <3>1 DEF issues
    <3>3. \A x \in errors : x \in errors'
      BY <1>1
    <3> QED
      BY Zenon, <2>1, <2>3, <3>2, <3>3
  <2>5. tool' = "check" /\ step' = "work" /\ readIn' = readIn
    BY <1>1
  <2> QED
    BY <2>4, <2>5 DEF ErrorsInv, Issues, Pub, Fit
<1> QED
  BY <1>4, <1>5, <1>6, <1>7 DEF RelInv

LEMMA PublishOneStep ==
    ASSUME RelInv, Out!PublishOne
    PROVE  RelInv'
<1> DEFINE p == Head(todo)
<1>1. /\ tool = "publish" /\ step = "work" /\ todo # <<>> /\ todo' = Tail(todo)
      /\ published' = [q \in DOMAIN published \cup {p} |-> IF q = p THEN files[p] ELSE published[q]]
      /\ UNCHANGED <<files, tool, step, readIn, backups, errors, sources, mishap, passed>>
  BY DEF Out!PublishOne
<1>2. FilesInv /\ StepsInv /\ BackupsInv /\ PublishedInv
  BY DEF RelInv
<1>3. /\ p \in ToSet(todo) /\ p \in DOMAIN files
      /\ todo' \in Seq(DOMAIN files) /\ IsInjective(todo') /\ ToSet(todo') = ToSet(todo) \ {p}
  BY <1>1, <1>2, TodoIs
<1> HIDE DEF p
<1>4. p \in Pub(readIn) /\ files[p] = Fit(readIn, p)
  BY <1>1, <1>2, <1>3 DEF BackupsInv, Rewriting, Written
<1>5. FilesInv'
  BY <1>1, <1>2, FilesStay
<1>6. StepsInv'
  BY <1>1, <1>2, <1>3 DEF StepsInv, Rewriting
<1>7. BackupsInv'
  BY <1>1, <1>2, <1>3 DEF BackupsInv, Rewriting, Written, Pub, Fit
<1>8. ErrorsInv'
  BY <1>1 DEF ErrorsInv
<1>9. PublishedInv'
  <2>1. Out!AreManifests(readIn) /\ DOMAIN readIn = DOMAIN files
    BY <1>1, <1>2 DEF FilesInv
  <2>2. IsClean(files[p], DOMAIN files)
    BY <1>4, <2>1, FitIsClean
  <2>3. \A q \in DOMAIN published' : published'[q] = IF q = p THEN files[p] ELSE published[q]
    BY <1>1
  <2>4. \A q \in DOMAIN published' : q = p \/ q \in DOMAIN published
    BY <1>1
  <2> QED
    BY <1>1, <1>2, <2>2, <2>3, <2>4 DEF PublishedInv
<1> QED
  BY <1>5, <1>6, <1>7, <1>8, <1>9 DEF RelInv

LEMMA WorkEndsStep ==
    ASSUME RelInv, Out!WorkEnds
    PROVE  RelInv'
<1>1. /\ Rewriting /\ step = "work" /\ step' = "restore" /\ todo' = Out!SetToSeq(DOMAIN backups)
      /\ errors' = IF todo # <<>> THEN errors \cup {<<"command", "failed">>} ELSE errors
      /\ UNCHANGED <<files, tool, readIn, backups, sources, mishap, passed, published>>
  BY DEF Out!WorkEnds, Rewriting
<1>2. FilesInv /\ StepsInv /\ BackupsInv /\ ErrorsInv /\ PublishedInv
  BY DEF RelInv
<1>3. DOMAIN backups = Pub(readIn) /\ \A p \in DOMAIN files : files[p] = IF p \in DOMAIN backups THEN Fit(readIn, p) ELSE readIn[p]
  BY <1>1, <1>2 DEF BackupsInv, Written
<1>4. DOMAIN backups \in SUBSET DOMAIN files /\ IsFiniteSet(DOMAIN backups)
  <2>1. DOMAIN backups \in SUBSET DOMAIN files /\ IsFiniteSet(DOMAIN files)
    BY <1>1, <1>2, <1>3 DEF FilesInv, Pub
  <2> QED
    BY <2>1, FS_Subset
<1>5. todo' \in Seq(DOMAIN files) /\ IsInjective(todo') /\ ToSet(todo') = DOMAIN backups
  BY <1>1, <1>4, PackagesIs
<1>6. FilesInv' /\ PublishedInv'
  BY <1>1, <1>2, FilesStay, PublishedStay
<1>7. StepsInv'
  BY <1>1, <1>2, <1>5 DEF StepsInv, Rewriting
<1>8. BackupsInv'
  BY <1>1, <1>2, <1>3, <1>5 DEF BackupsInv, Rewriting, Written, Pub, Fit
<1>9. ErrorsInv'
  <2>1. ASSUME tool = "check", errors' = {}, NEW p \in Pub(readIn)
        PROVE  Issues(readIn, p) = {}
    <3>1. todo = <<>> /\ errors = {}
      BY <1>1, <2>1
    <3>2. p \in Pub(readIn) \ ToSet(todo)
      BY <2>1, <3>1, NothingTodo
    <3>3. \A i \in Issues(readIn, p) : <<p, i>> \in errors
      BY <1>1, <1>2, <2>1, <3>2 DEF ErrorsInv
    <3> QED
      BY <3>1, <3>3
  <2> QED
    BY <1>1, <2>1 DEF ErrorsInv, Issues, Pub, Fit
<1> QED
  BY <1>6, <1>7, <1>8, <1>9 DEF RelInv

LEMMA RestoreOneStep ==
    ASSUME RelInv, Out!RestoreOne
    PROVE  RelInv'
<1> DEFINE p == Head(todo)
<1>1. /\ step = "restore" /\ todo # <<>> /\ todo' = Tail(todo)
      /\ files' = [files EXCEPT ![p] = backups[p]]
      /\ UNCHANGED <<tool, step, readIn, backups, errors, sources, mishap, passed, published>>
  BY DEF Out!RestoreOne
<1>2. FilesInv /\ StepsInv /\ BackupsInv /\ ErrorsInv /\ PublishedInv
  BY DEF RelInv
<1>3. /\ p \in DOMAIN files /\ p \in ToSet(todo) /\ todo' \in Seq(DOMAIN files) /\ IsInjective(todo')
      /\ ToSet(todo') = ToSet(todo) \ {p}
  BY <1>1, <1>2, TodoIs
<1>4. Rewriting
  BY <1>1, <1>2 DEF StepsInv, Rewriting
<1>5. backups[p] = readIn[p] /\ Out!IsManifest(readIn[p])
  BY <1>1, <1>2, <1>3, <1>4 DEF BackupsInv, FilesInv, Out!AreManifests
<1> HIDE DEF p
<1>6. /\ Out!AreManifests(files') /\ DOMAIN files' = DOMAIN files
      /\ files'[p] = readIn[p] /\ \A q \in DOMAIN files : q # p => files'[q] = files[q]
  BY <1>1, <1>2, <1>3, <1>5, ManifestWritten
<1>7. FilesInv'
  BY <1>1, <1>2, <1>6 DEF FilesInv, Issues, Pub, Fit
<1>8. StepsInv'
  BY <1>1, <1>2, <1>3, <1>4, <1>6 DEF StepsInv, Rewriting
<1>9. BackupsInv'
  <2>1. \A q \in DOMAIN files : files[q] = IF q \in ToSet(todo) THEN Fit(readIn, q) ELSE readIn[q]
    BY <1>1, <1>2, <1>4 DEF BackupsInv, Written
  <2>2. \A q \in DOMAIN files' : files'[q] = IF q \in ToSet(todo') THEN Fit(readIn, q) ELSE readIn[q]
    BY <1>3, <1>6, <2>1
  <2> QED
    BY <1>1, <1>2, <1>3, <1>4, <2>2 DEF BackupsInv, Rewriting, Written, Pub, Fit
<1>10. ErrorsInv' /\ PublishedInv'
  BY <1>1, <1>2, <1>6, PublishedStay DEF ErrorsInv, Issues, Pub, Fit
<1> QED
  BY <1>7, <1>8, <1>9, <1>10 DEF RelInv

LEMMA RestoredStep ==
    ASSUME RelInv, Out!Restored
    PROVE  RelInv'
<1>1. /\ step = "restore" /\ todo = <<>> /\ Out!End
      /\ passed' = IF tool = "check" /\ errors = {} THEN readIn ELSE passed
      /\ UNCHANGED <<files, readIn, sources, mishap, published>>
  BY DEF Out!Restored
<1>2. FilesInv /\ StepsInv /\ BackupsInv /\ ErrorsInv /\ PublishedInv
  BY DEF RelInv
<1>3. Rewriting /\ step' = "idle"
  BY <1>1, <1>2 DEF StepsInv, Rewriting, Out!End
<1>4. files = readIn
  <2>1. \A q \in DOMAIN files : files[q] = readIn[q]
    BY <1>1, <1>2, <1>3, NothingTodo DEF BackupsInv, Written
  <2> QED
    BY <1>1, <1>2, <2>1 DEF FilesInv, Out!AreManifests
<1>5. FilesInv'
  <2>1. CASE tool = "check" /\ errors = {}
    <3>1. passed' = readIn /\ DOMAIN readIn = DOMAIN files /\ \A p \in Pub(readIn) : Issues(readIn, p) = {}
      BY <1>1, <1>2, <2>1 DEF FilesInv, ErrorsInv
    <3> QED
      BY <1>1, <1>2, <1>3, <3>1 DEF FilesInv, Issues, Pub, Fit
  <2>2. CASE passed' = passed
    BY <1>1, <1>2, <1>3, <2>2, FilesStay
  <2> QED
    BY <1>1, <2>1, <2>2
<1>6. ~mishap' => files' = sources'
  BY <1>1, <1>2, <1>3, <1>4 DEF StepsInv
<1>7. PublishedInv'
  BY <1>1, <1>2, PublishedStay
<1> QED
  BY <1>1, <1>5, <1>6, <1>7, ToolEnds DEF RelInv

(* One version is written, by the synchronisation or `changeset version`. *)
LEMMA VersionStep ==
    ASSUME RelInv, NEW p \in DOMAIN files, NEW version, Out!IsVersion(version),
           files' = [files EXCEPT ![p].version = version], sources' = files',
           UNCHANGED <<tool, step, readIn, passed, published>>, ~Rewriting,
           todo' \in Seq(DOMAIN files), IsInjective(todo')
    PROVE  RelInv'
<1>1. FilesInv /\ StepsInv /\ PublishedInv
  BY DEF RelInv
<1> DEFINE m == [files[p] EXCEPT !.version = version]
<1>2. Out!IsManifest(m)
  BY <1>1, VersionedIs DEF FilesInv, Out!AreManifests
<1>3. files' = [files EXCEPT ![p] = m]
  OBVIOUS
<1> HIDE DEF m
<1>4. Out!AreManifests(files') /\ DOMAIN files' = DOMAIN files
  BY <1>1, <1>2, <1>3, ManifestWritten
<1>5. FilesInv'
  BY <1>1, <1>4 DEF FilesInv, Issues, Pub, Fit
<1>6. StepsInv'
  BY <1>1, <1>4 DEF StepsInv, Rewriting
<1>7. BackupsInv' /\ ErrorsInv'
  BY DEF BackupsInv, ErrorsInv, Rewriting
<1> QED
  BY <1>1, <1>4, <1>5, <1>6, <1>7, PublishedStay DEF RelInv

LEMMA SyncSteps ==
    ASSUME Out!ReleaseConstants, RelInv, Out!SyncOne \/ Out!Synced \/ \E p \in DOMAIN files, version \in Bumps : Out!Bump(p, version)
    PROVE  RelInv'
<1>1. FilesInv /\ StepsInv /\ PublishedInv
  BY DEF RelInv
<1>2. CASE Out!SyncOne
  <2>1. Head(todo) \in DOMAIN files /\ todo' \in Seq(DOMAIN files) /\ IsInjective(todo')
    BY <1>1, <1>2, TodoIs DEF Out!SyncOne
  <2>2. IsFiniteSet(DOMAIN readIn) /\ Out!AreManifests(readIn) /\ DOMAIN readIn # {}
    BY <1>1, <1>2, <2>1 DEF Out!SyncOne, FilesInv
  <2>3. Out!IsVersion(Out!TargetVersion(readIn))
    BY <2>2, TargetIsNewest
  <2> QED
    BY <1>2, <2>1, <2>3, VersionStep DEF Out!SyncOne, Rewriting
<1>3. CASE Out!Synced
  <2>1. ~mishap' => files' = sources'
    BY <1>1, <1>3 DEF Out!Synced, StepsInv, Rewriting
  <2>2. FilesInv' /\ PublishedInv'
    BY <1>1, <1>3, FilesStay, PublishedStay DEF Out!Synced
  <2> QED
    BY <1>3, <2>1, <2>2, ToolEnds DEF Out!Synced, RelInv
<1>4. ASSUME NEW p \in DOMAIN files, NEW version \in Bumps, Out!Bump(p, version)
      PROVE  RelInv'
  <2>1. ~Rewriting /\ todo' \in Seq(DOMAIN files) /\ IsInjective(todo')
    BY <1>1, <1>4 DEF Out!Bump, StepsInv, Rewriting
  <2>2. Out!IsVersion(version)
    BY <1>4 DEF Out!ReleaseConstants
  <2> QED
    BY <1>4, <2>1, <2>2, VersionStep DEF Out!Bump
<1> QED
  BY <1>2, <1>3, <1>4

LEMMA KilledStep ==
    ASSUME RelInv, Out!Killed
    PROVE  RelInv'
<1>1. /\ step # "idle" /\ mishap' = (mishap \/ (tool # "sync" /\ files # sources)) /\ Out!End
      /\ UNCHANGED <<files, readIn, sources, passed, published>>
  BY DEF Out!Killed
<1>2. FilesInv /\ StepsInv /\ PublishedInv
  BY DEF RelInv
<1>3. FilesInv' /\ PublishedInv'
  BY <1>1, <1>2, FilesStay, PublishedStay
<1>4. ~mishap' => files' = sources'
  BY <1>1, <1>2 DEF StepsInv, Rewriting
<1> QED
  BY <1>1, <1>3, <1>4, ToolEnds DEF RelInv

LEMMA ReleasesSteps ==
    ASSUME Out!ReleaseConstants
    PROVE  /\ Out!ReleaseInit => RelInv
           /\ RelInv /\ (Out!ReleaseNext \/ UNCHANGED releaseVars) => RelInv'
<1>1. ASSUME RelInv, Out!ReleaseNext
      PROVE  RelInv'
  BY <1>1, BeginStep, ApplyOneStep, AppliedStep, ApplyFailsStep, PackOneStep, PublishOneStep, WorkEndsStep,
     RestoreOneStep, RestoredStep, SyncSteps, KilledStep DEF Out!ReleaseNext
<1>2. ASSUME RelInv, UNCHANGED releaseVars
      PROVE  RelInv'
  <2>1. /\ UNCHANGED <<files, tool, step, todo, readIn, backups, errors>>
        /\ UNCHANGED <<sources, mishap, passed, published>>
    BY <1>2 DEF releaseVars
  <2>2. FilesInv /\ StepsInv /\ BackupsInv /\ ErrorsInv /\ PublishedInv
    BY <1>2 DEF RelInv
  <2>3. FilesInv' /\ BackupsInv' /\ PublishedInv'
    BY <2>1, <2>2, PublishedStay, BackupsStay DEF FilesInv, Issues, Pub, Fit
  <2>4. StepsInv' /\ ErrorsInv'
    BY <2>1, <2>2 DEF StepsInv, ErrorsInv, Rewriting, Issues, Pub, Fit
  <2> QED
    BY <2>3, <2>4 DEF RelInv
<1> QED
  BY <1>1, <1>2, ReleasesStart

(* A release puts back what it changed, and publishes what is fit for it. *)
LEMMA ReleasesAreSound ==
    ASSUME RelInv
    PROVE  Out!ManifestsComeBack /\ Out!PublishedIsClean
<1>1. FilesInv /\ StepsInv /\ BackupsInv /\ PublishedInv
  BY DEF RelInv
<1>2. Out!ManifestsComeBack
  BY <1>1 DEF Out!ManifestsComeBack, StepsInv, Rewriting
<1>3. ASSUME NEW p \in DOMAIN published, passed # <<>>, ~mishap, passed = sources, p \in DOMAIN passed,
             tool = "publish", step = "restore", files[p] = published[p]
      PROVE  Out!PackedIssues(published[p]) \cup Out!ManifestIssues(published[p]) = {}
  <2> DEFINE m == published[p]
  <2>1. Rewriting /\ readIn = passed /\ Out!AreManifests(passed) /\ DOMAIN passed = DOMAIN files
    BY <1>1, <1>3 DEF StepsInv, FilesInv, Rewriting
  <2>2. /\ m = passed[p] \/ m = Fit(passed, p)
        /\ m = passed[p] \/ p \in Pub(passed)
    <3>1. /\ files[p] = IF p \in ToSet(todo) THEN Fit(passed, p) ELSE passed[p]
          /\ ToSet(todo) \subseteq Pub(passed)
      BY <1>1, <1>3, <2>1 DEF BackupsInv, Written
    <3> QED
      BY <1>3, <3>1
  <2>3. IsClean(m, DOMAIN passed)
    BY <1>1, <2>1 DEF PublishedInv
  <2>4. Issues(passed, p) = {}
    BY <1>1, <1>3, <2>2, <2>3 DEF FilesInv, Pub, IsClean
  <2> HIDE DEF m
  <2>5. Out!PackedIssues(m) \cup Out!ManifestIssues(m) = {}
    BY <1>3, <2>1, <2>2, <2>3, <2>4, StillFit
  <2> QED
    BY <2>5 DEF m
<1>4. \A p \in DOMAIN published : IsClean(published[p], DOMAIN files)
  BY <1>1 DEF PublishedInv
<1>5. Out!PublishedIsClean
  BY <1>3, <1>4 DEF Out!PublishedIsClean, IsClean
<1> QED
  BY <1>2, <1>5

(* A synchronisation has given the packages that it is through with the
   version that was the newest when it started, and left the others.       *)
SyncInv == tool = "sync" =>
    \A p \in DOMAIN files :
        /\ files[p].version \in {readIn[p].version, Out!TargetVersion(readIn)}
        /\ p \notin ToSet(todo) => files[p].version = Out!TargetVersion(readIn)

LEMMA BeginSync ==
    ASSUME RelInv, NEW which \in {"check", "publish", "sync"}, Out!Begin(which)
    PROVE  SyncInv'
<1> DEFINE D == DOMAIN files
           behind == {p \in D : files[p].version # Out!TargetVersion(files)}
<1>1. /\ tool' = which /\ readIn' = files /\ UNCHANGED files
      /\ which = "sync" => todo' = Out!SetToSeq(behind)
  BY DEF Out!Begin
<1>2. behind \in SUBSET D /\ IsFiniteSet(behind)
  <2>1. IsFiniteSet(D)
    BY DEF RelInv, FilesInv
  <2> QED
    BY <2>1, FS_Subset
<1>3. which = "sync" => ToSet(todo') = behind
  <2> HIDE DEF D, behind
  <2> QED
    BY <1>1, <1>2, PackagesIs
<1> QED
  BY <1>1, <1>3 DEF SyncInv

LEMMA SyncOneKeeps ==
    ASSUME RelInv, SyncInv, Out!SyncOne
    PROVE  SyncInv'
<1> DEFINE p == Head(todo)
           T == Out!TargetVersion(readIn)
<1>1. /\ tool = "sync" /\ todo # <<>> /\ todo' = Tail(todo) /\ UNCHANGED readIn
      /\ files' = [files EXCEPT ![p].version = T]
  BY DEF Out!SyncOne
<1>2. FilesInv /\ StepsInv
  BY DEF RelInv
<1>3. p \in DOMAIN files /\ ToSet(todo') = ToSet(todo) \ {p}
  BY <1>1, <1>2, TodoIs
<1>4. Out!IsManifest(files[p])
  BY <1>2, <1>3 DEF FilesInv, Out!AreManifests
<1>5. T' = T
  BY <1>1
<1> HIDE DEF p, T
<1>6. /\ DOMAIN files' = DOMAIN files /\ files'[p].version = T
      /\ \A q \in DOMAIN files : q # p => files'[q] = files[q]
  BY <1>1, <1>3, <1>4 DEF Out!IsManifest
<1>7. \A q \in DOMAIN files : /\ files[q].version \in {readIn[q].version, T}
                              /\ q \notin ToSet(todo) => files[q].version = T
  BY <1>1 DEF SyncInv, T
<1>8. \A q \in DOMAIN files' : /\ files'[q].version \in {readIn'[q].version, T}
                               /\ q \notin ToSet(todo') => files'[q].version = T
  BY <1>1, <1>3, <1>6, <1>7
<1> QED
  BY <1>5, <1>8 DEF SyncInv, T

LEMMA SyncNext ==
    ASSUME RelInv, SyncInv, Out!ReleaseNext \/ UNCHANGED releaseVars
    PROVE  SyncInv'
<1>1. StepsInv
  BY DEF RelInv
<1>2. CASE UNCHANGED releaseVars
  BY <1>2 DEF releaseVars, SyncInv
<1>3. CASE \/ Out!ApplyOne \/ Out!Applied \/ Out!ApplyFails \/ Out!PackOne \/ Out!PublishOne \/ Out!WorkEnds
           \/ Out!RestoreOne \/ Out!Restored \/ Out!Synced \/ Out!Killed
  <2>1. tool' # "sync"
    BY <1>1, <1>3 DEF StepsInv, Out!End, Out!ApplyOne, Out!Applied, Out!ApplyFails, Out!PackOne, Out!PublishOne, Out!WorkEnds,
                      Out!RestoreOne, Out!Restored, Out!Synced, Out!Killed
  <2> QED
    BY <2>1 DEF SyncInv
<1>4. ASSUME NEW p \in DOMAIN files, NEW version \in Bumps, Out!Bump(p, version)
      PROVE  SyncInv'
  <2>1. tool' # "sync"
    BY <1>1, <1>4 DEF StepsInv, Out!Bump
  <2> QED
    BY <2>1 DEF SyncInv
<1> QED
  BY <1>2, <1>3, <1>4, BeginSync, SyncOneKeeps DEF Out!ReleaseNext

(* So no version is lowered, and what the next synchronisation would bring
   the packages to is the same version.                                    *)
LEMMA SyncBringsTogether ==
    ASSUME RelInv, SyncInv
    PROVE  Out!VersionsComeTogether
<1> DEFINE T == Out!TargetVersion(readIn)
<1> SUFFICES ASSUME tool = "sync"
             PROVE  /\ \A p \in DOMAIN files : ~Out!Newer(readIn[p].version, files[p].version) /\ ~Out!Newer(readIn[p].version, T)
                    /\ Out!TargetVersion(files) = T
                    /\ todo = <<>> => \A p \in DOMAIN files : files[p].version = T
  BY DEF Out!VersionsComeTogether
<1>1. /\ IsFiniteSet(DOMAIN files) /\ Out!AreManifests(files) /\ Out!AreManifests(readIn)
      /\ DOMAIN readIn = DOMAIN files
  BY DEF RelInv, FilesInv, StepsInv
<1>2. \A p \in DOMAIN files : /\ files[p].version \in {readIn[p].version, T}
                              /\ p \notin ToSet(todo) => files[p].version = T
  BY DEF SyncInv
<1>3. todo = <<>> => \A p \in DOMAIN files : files[p].version = T
  BY <1>2, NothingTodo
<1>4. CASE DOMAIN files = {}
  <2>1. VersionsIn(files) = VersionsIn(readIn)
    BY <1>1, <1>4 DEF VersionsIn
  <2>2. Out!TargetVersion(files) = T
    BY <2>1 DEF Out!TargetVersion, VersionsIn
  <2> QED
    BY <1>4, <2>2
<1>5. CASE DOMAIN files # {}
  <2>1. Newest(VersionsIn(readIn), T) /\ Out!IsVersion(T)
    BY <1>1, <1>5, TargetIsNewest
  <2>2. \A p \in DOMAIN files : readIn[p].version \in VersionsIn(readIn) /\ Out!IsVersion(readIn[p].version)
    BY <1>1 DEF VersionsIn, Out!AreManifests, Out!IsManifest
  <2> HIDE DEF T
  <2>3. \A p \in DOMAIN files : ~Out!Newer(readIn[p].version, T) /\ ~Out!Newer(readIn[p].version, readIn[p].version)
    BY <2>1, <2>2, VersionsAreOrdered DEF Newest
  <2>4. Newest(VersionsIn(files), T)
    <3>1. VersionsIn(files) \subseteq VersionsIn(readIn)
      BY <1>1, <1>2, <2>1, <2>2 DEF VersionsIn, Newest
    <3>2. PICK p \in DOMAIN files : readIn[p].version = T
      BY <1>1, <2>1 DEF VersionsIn, Newest
    <3>3. T \in VersionsIn(files)
      BY <1>2, <3>2 DEF VersionsIn
    <3> QED
      BY <2>1, <3>1, <3>3 DEF Newest
  <2>5. Out!TargetVersion(files) = T
    BY <1>1, <1>5, <2>4, TargetIsNewest
  <2> QED
    BY <1>2, <1>3, <2>3, <2>5
<1> QED
  BY <1>3, <1>4, <1>5

-----------------------------------------------------------------------------
(* The arguments of the command line *)


LEMMA LineOperators ==
    /\ \A S : Line!Max(S) = Max(S) /\ Line!Min(S) = Min(S)
    /\ \A s : Line!ToSet(s) = ToSet(s)
  BY DEF Line!Max, Line!Min, Line!ToSet, Max, Min, ToSet

LEMMA GreatestIs ==
    ASSUME NEW S \in SUBSET Nat, NEW m \in S, \A x \in S : x <= m
    PROVE  Line!Max(S) = m
<1>1. \E x \in S : \A y \in S : x >= y
  <2>1. \A y \in S : m \in Nat /\ y \in Nat /\ y <= m
    OBVIOUS
  <2> QED
    BY <2>1
<1>2. Line!Max(S) \in S /\ \A y \in S : Line!Max(S) >= y
  BY <1>1 DEF Line!Max
<1>3. Line!Max(S) \in Nat /\ m \in Nat /\ Line!Max(S) <= m /\ Line!Max(S) >= m
  BY <1>2
<1> QED
  BY <1>3

LEMMA LeastIs ==
    ASSUME NEW S \in SUBSET Nat, NEW m \in S, \A x \in S : m <= x
    PROVE  Line!Min(S) = m
<1>1. Line!Min(S) \in S /\ \A y \in S : Line!Min(S) <= y
  BY DEF Line!Min
<1>2. Line!Min(S) \in Nat /\ m \in Nat /\ m <= Line!Min(S) /\ Line!Min(S) <= m
  BY <1>1
<1> QED
  BY <1>2

LEMMA MarksDiffer ==
    /\ Line!Blank # Line!Unset /\ Line!Blank # "local" /\ Line!Unset # "--"
    /\ Line!Blank \notin Line!Valued /\ Line!Blank \notin Line!Switches /\ Line!Blank # "--"
    /\ Line!Valued \cap Line!Switches = {} /\ "--" \notin Line!Valued /\ "--" \notin Line!Switches
    /\ Line!Delimiter.flag = "--" /\ Line!Delimiter.text = Line!Unset /\ ~Line!IsWord(Line!Delimiter)
<1>1. /\ Line!Blank # Line!Unset /\ Line!Blank # "local" /\ Line!Blank # "--"
      /\ Line!Blank \notin Line!Valued /\ Line!Blank \notin Line!Switches
  BY Zenon DEF Line!Blank, Line!Unset, Line!Valued, Line!Switches
<1>2. /\ Line!Valued \cap Line!Switches = {} /\ "--" \notin Line!Valued /\ "--" \notin Line!Switches
      /\ Line!Unset # "--" /\ Line!Delimiter.flag = "--" /\ Line!Delimiter.text = Line!Unset
  BY DEF Line!Valued, Line!Switches, Line!Unset, Line!Delimiter, Line!Flag
<1> QED
  BY <1>1, <1>2 DEF Line!IsWord

(* What is left of a list after its first m elements. *)
LEMMA SuffixIs ==
    ASSUME NEW S, NEW s \in Seq(S), NEW N \in Nat, N = Len(s), NEW m \in Nat, m <= N,
           NEW t, t = SubSeq(s, m + 1, N)
    PROVE  t \in Seq(S) /\ Len(t) = N - m /\ \A i \in 1..(N - m) : t[i] = s[m + i]
<1>1. \A i \in (m + 1)..N : s[i] \in S
  <2>1. \A i \in (m + 1)..N : i \in 1..N
    OBVIOUS
  <2> QED
    BY <2>1, ElementOfSeq
<1>2. m + 1 \in Int /\ N \in Int
  OBVIOUS
<1>3. /\ t \in Seq(S) /\ Len(t) = IF m + 1 <= N THEN N - (m + 1) + 1 ELSE 0
      /\ \A i \in 1..(N - (m + 1) + 1) : t[i] = s[(m + 1) + i - 1]
  BY <1>1, <1>2, SubSeqProperties
<1>4. N - (m + 1) + 1 = N - m /\ (m + 1 <= N \/ N - m = 0)
  OBVIOUS
<1>5. Len(t) = N - m
  BY <1>3, <1>4
<1>6. \A i \in 1..(N - m) : (m + 1) + i - 1 = m + i
  OBVIOUS
<1>7. \A i \in 1..(N - m) : t[i] = s[m + i]
  BY <1>3, <1>4, <1>6
<1> QED
  BY <1>3, <1>5, <1>7

LEMMA SuffixesAre ==
    ASSUME NEW S, NEW s \in Seq(S), NEW N \in Nat, N = Len(s), NEW m \in Nat, m < N,
           NEW t, t = SubSeq(s, m + 1, N), NEW u, u = SubSeq(s, (m + 1) + 1, N)
    PROVE  t # <<>> /\ Head(t) = s[m + 1] /\ Tail(t) = u
<1>1. t \in Seq(S) /\ Len(t) = N - m /\ \A i \in 1..(N - m) : t[i] = s[m + i]
  BY SuffixIs
<1>2. u \in Seq(S) /\ Len(u) = N - (m + 1) /\ \A i \in 1..(N - (m + 1)) : u[i] = s[(m + 1) + i]
  <2>1. m + 1 \in Nat /\ m + 1 <= N
    OBVIOUS
  <2> QED
    BY <2>1, SuffixIs
<1>3. t # <<>> /\ N - m \in Nat /\ N - m # 0 /\ 1 \in 1..(N - m)
  <2>1. N - m \in Nat /\ N - m # 0 /\ 1 \in 1..(N - m)
    OBVIOUS
  <2>2. t = <<>> => Len(t) = 0
    BY EmptySeq
  <2> QED
    BY <1>1, <2>1, <2>2
<1>4. /\ Tail(t) \in Seq(S) /\ Len(Tail(t)) = Len(t) - 1
      /\ \A i \in 1..Len(Tail(t)) : Tail(t)[i] = t[i + 1]
  BY <1>1, <1>3, HeadTailProperties
<1>5. Len(Tail(t)) = N - (m + 1)
  <2>1. (N - m) - 1 = N - (m + 1)
    OBVIOUS
  <2> QED
    BY <1>1, <1>4, <2>1
<1>6. \A i \in 1..(N - (m + 1)) : i + 1 \in 1..(N - m) /\ m + (i + 1) = (m + 1) + i
  OBVIOUS
<1>7. \A i \in 1..(N - (m + 1)) : Tail(t)[i] = u[i]
  BY <1>1, <1>2, <1>4, <1>5, <1>6
<1>8. Tail(t) = u
  BY <1>2, <1>4, <1>5, <1>7, SeqEqual
<1>9. Head(t) = t[1] /\ t[1] = s[m + 1]
  BY <1>1, <1>3
<1> QED
  BY <1>3, <1>8, <1>9

(* A flag with a value is known by its name, a switch if it has none. *)
LEMMA KnownFlags ==
    ASSUME NEW arg
    PROVE  /\ arg.flag \in Line!Valued => Line!KnownAs(arg) = arg.flag
           /\ Line!KnownAs(arg) \in Line!Valued => Line!KnownAs(arg) = arg.flag
           /\ Line!KnownAs(arg) \in Line!Switches => Line!KnownAs(arg) = arg.flag /\ arg.text = Line!Unset
           /\ Line!IsWord(arg) => Line!KnownAs(arg) = Line!Blank
<1>1. Line!Unset \notin Line!Valued /\ Line!Unset \notin Line!Switches
  BY DEF Line!Unset, Line!Valued, Line!Switches
<1> QED
  BY <1>1, MarksDiffer DEF Line!KnownAs, Line!IsWord

(* What is left of the line after its first n arguments. *)
From(n) == SubSeq(line, n + 1, Len(line))
IsLine  == line \in Seq({line[i] : i \in DOMAIN line}) /\ \A i \in 1..Len(line) : line[i] = [flag |-> line[i].flag, text |-> line[i].text]

LEMMA LeftIs ==
    ASSUME IsLine, NEW n \in Nat, n <= Len(line)
    PROVE  /\ Len(line) \in Nat /\ DOMAIN line = 1..Len(line) /\ Len(From(n)) = Len(line) - n
           /\ From(n) = <<>> <=> n = Len(line)
           /\ n < Len(line) => /\ Head(From(n)) = line[n + 1] /\ Tail(From(n)) = From(n + 1)
           /\ n + 1 < Len(line) => From(n)[2] = line[n + 2] /\ Tail(Tail(From(n))) = From(n + 2)
<1>1. PICK S : line \in Seq(S)
  BY DEF IsLine
<1>2. PICK N \in Nat : N = Len(line) /\ DOMAIN line = 1..N
  BY <1>1, LenProperties
<1>3. /\ From(n) \in Seq(S) /\ Len(From(n)) = N - n
      /\ \A i \in 1..(N - n) : From(n)[i] = line[n + i]
  BY <1>1, <1>2, SuffixIs DEF From
<1>4. From(n) = <<>> <=> n = N
  <2>1. n = N <=> N - n = 0
    BY <1>2
  <2>2. From(n) = <<>> <=> Len(From(n)) = 0
    BY <1>3, EmptySeq
  <2> QED
    BY <1>3, <2>1, <2>2
<1>5. ASSUME NEW m \in Nat, m < N
      PROVE  Head(From(m)) = line[m + 1] /\ Tail(From(m)) = From(m + 1)
  BY <1>1, <1>2, <1>5, SuffixesAre DEF From
<1>6. ASSUME n + 1 < N
      PROVE  From(n)[2] = line[n + 2] /\ Tail(Tail(From(n))) = From(n + 2)
  <2>1. 2 \in 1..(N - n) /\ (n + 1) + 1 = n + 2 /\ n < N /\ n + 1 \in Nat
    BY <1>6
  <2>2. Tail(From(n)) = From(n + 1) /\ Tail(From(n + 1)) = From((n + 1) + 1)
    BY <1>5, <1>6, <2>1
  <2> QED
    BY <1>3, <2>1, <2>2
<1> QED
  BY <1>2, <1>3, <1>4, <1>5, <1>6

(* What the options are when the first n arguments are read.               *)
AtIn(n, flags) == {i \in 1..n : Line!KnownAs(line[i]) \in flags}
LastIn(n, flag, default) == IF AtIn(n, {flag}) = {} THEN default ELSE Line!ValueAt(Line!Max(AtIn(n, {flag})))
Kept(value) == IF value = Line!Unset THEN Line!Blank ELSE value
FlagOf(f)   == IF f = "esm" THEN "--esm" ELSE "--cjs"
IsOptions(g) ==
    g = [endpoint |-> g.endpoint, out |-> g.out, poll |-> g.poll, timeout |-> g.timeout, port |-> g.port, event |-> g.event,
         payload |-> g.payload, dts |-> g.dts, formats |-> g.formats, custom |-> g.custom]

GivenIs(g, n) ==
    /\ IsOptions(g)
    /\ g.endpoint = Kept(LastIn(n, "--endpoint", Line!Blank))
    /\ g.out = Kept(LastIn(n, "--out", Line!Blank))
    /\ g.poll = LastIn(n, "--poll", Line!Unset)
    /\ g.port = Line!Unset <=> \A i \in AtIn(n, {"--port"}) : Line!ValueAt(i) = Line!Unset
    /\ g.event = Line!Unset => AtIn(n, {"--no-event", "--event"}) # {}
    /\ g.dts = (AtIn(n, {"--js"}) = {})
    /\ g.custom = (AtIn(n, {"--esm", "--cjs"}) # {})
    /\ g.formats = IF AtIn(n, {"--esm", "--cjs"}) = {} THEN Line!BuildFormats
                   ELSE {f \in Line!BuildFormats : AtIn(n, {FlagOf(f)}) # {}}

(* The m that follows n when the argument after n is read, with or without a
   value of its own.                                                       *)
Follows(n, m) == n \in Nat /\ (m = n + 1 \/ (m = n + 2 /\ Line!IsWord(line[n + 2])))

LEMMA AtGrows ==
    ASSUME NEW n, NEW m, Follows(n, m), NEW flags, Line!Blank \notin flags
    PROVE  AtIn(m, flags) = AtIn(n, flags) \cup (IF Line!KnownAs(line[n + 1]) \in flags THEN {n + 1} ELSE {})
<1>1. n \in Nat
  BY DEF Follows
<1>2. CASE m = n + 1
  <2>1. 1..m = 1..n \cup {n + 1}
    BY <1>1, <1>2
  <2> QED
    BY <2>1 DEF AtIn
<1>3. CASE m = n + 2 /\ Line!IsWord(line[n + 2])
  <2>1. 1..m = 1..n \cup {n + 1, n + 2}
    BY <1>1, <1>3
  <2>2. Line!KnownAs(line[n + 2]) \notin flags
    BY <1>3, KnownFlags
  <2> QED
    BY <2>1, <2>2 DEF AtIn
<1> QED
  BY <1>2, <1>3 DEF Follows

LEMMA LastGrows ==
    ASSUME NEW n, NEW m, Follows(n, m), NEW flag, flag # Line!Blank, NEW default
    PROVE  LastIn(m, flag, default) = IF Line!KnownAs(line[n + 1]) = flag THEN Line!ValueAt(n + 1) ELSE LastIn(n, flag, default)
<1>1. AtIn(m, {flag}) = AtIn(n, {flag}) \cup (IF Line!KnownAs(line[n + 1]) = flag THEN {n + 1} ELSE {})
  BY AtGrows
<1>2. CASE Line!KnownAs(line[n + 1]) = flag
  <2>1. AtIn(m, {flag}) \in SUBSET Nat /\ n + 1 \in AtIn(m, {flag}) /\ \A i \in AtIn(m, {flag}) : i <= n + 1
    BY <1>1, <1>2 DEF AtIn, Follows
  <2>2. Line!Max(AtIn(m, {flag})) = n + 1
    BY <2>1, GreatestIs
  <2> QED
    BY <1>2, <2>1, <2>2 DEF LastIn
<1>3. CASE Line!KnownAs(line[n + 1]) # flag
  BY <1>1, <1>3 DEF LastIn
<1> QED
  BY <1>2, <1>3

(* What one flag with its value does to the options. *)
OneFlag(g, h, flag, value) ==
    /\ IsOptions(h)
    /\ h.endpoint = IF flag = "--endpoint" THEN Kept(value) ELSE g.endpoint
    /\ h.out = IF flag = "--out" THEN Kept(value) ELSE g.out
    /\ h.poll = IF flag = "--poll" THEN value ELSE g.poll
    /\ h.port = IF flag = "--port" /\ value # Line!Unset THEN value ELSE g.port
    /\ h.event = Line!Unset => g.event = Line!Unset \/ flag \in {"--event", "--no-event"}
    /\ h.dts = (g.dts /\ flag # "--js")
    /\ h.custom = (g.custom \/ flag \in {"--esm", "--cjs"})
    /\ h.formats = IF flag \in {"--esm", "--cjs"}
                   THEN (IF g.custom THEN g.formats ELSE {}) \cup {IF flag = "--esm" THEN "esm" ELSE "cjs"} ELSE g.formats

LEMMA GivenGrows ==
    ASSUME NEW n, NEW m, Follows(n, m), NEW g, GivenIs(g, n), NEW h, OneFlag(g, h, Line!KnownAs(line[n + 1]), Line!ValueAt(n + 1))
    PROVE  GivenIs(h, m)
<1> DEFINE flag == Line!KnownAs(line[n + 1])
           value == Line!ValueAt(n + 1)
<1>1. \A f \in {"--endpoint", "--out", "--poll", "--port", "--no-event", "--event", "--js", "--esm", "--cjs"} : f # Line!Blank
  BY MarksDiffer DEF Line!Valued, Line!Switches
<1>2. /\ LastIn(m, "--endpoint", Line!Blank) = IF flag = "--endpoint" THEN value ELSE LastIn(n, "--endpoint", Line!Blank)
      /\ LastIn(m, "--out", Line!Blank) = IF flag = "--out" THEN value ELSE LastIn(n, "--out", Line!Blank)
      /\ LastIn(m, "--poll", Line!Unset) = IF flag = "--poll" THEN value ELSE LastIn(n, "--poll", Line!Unset)
  BY <1>1, LastGrows
<1>3. ASSUME NEW flags \in SUBSET {"--port", "--no-event", "--event", "--js", "--esm", "--cjs"}
      PROVE  AtIn(m, flags) = AtIn(n, flags) \cup (IF flag \in flags THEN {n + 1} ELSE {})
  <2>1. Line!Blank \notin flags
    BY <1>1
  <2> HIDE DEF flag
  <2> QED
    BY <2>1, AtGrows DEF flag
<1>4. h.endpoint = Kept(LastIn(m, "--endpoint", Line!Blank)) /\ h.out = Kept(LastIn(m, "--out", Line!Blank)) /\ h.poll = LastIn(m, "--poll", Line!Unset)
  BY <1>2 DEF OneFlag, GivenIs
<1> HIDE DEF flag, value
<1>5. h.port = Line!Unset <=> \A i \in AtIn(m, {"--port"}) : Line!ValueAt(i) = Line!Unset
  <2>1. AtIn(m, {"--port"}) = AtIn(n, {"--port"}) \cup (IF flag = "--port" THEN {n + 1} ELSE {})
    BY <1>3
  <2>2. h.port = IF flag = "--port" /\ value # Line!Unset THEN value ELSE g.port
    BY DEF OneFlag, flag, value
  <2>3. g.port = Line!Unset <=> \A i \in AtIn(n, {"--port"}) : Line!ValueAt(i) = Line!Unset
    BY DEF GivenIs
  <2>4. value = Line!ValueAt(n + 1)
    BY DEF value
  <2> QED
    BY <2>1, <2>2, <2>3, <2>4
<1>6. h.event = Line!Unset => AtIn(m, {"--no-event", "--event"}) # {}
  <2>1. AtIn(m, {"--no-event", "--event"}) = AtIn(n, {"--no-event", "--event"}) \cup (IF flag \in {"--no-event", "--event"} THEN {n + 1} ELSE {})
    BY <1>3
  <2>2. h.event = Line!Unset => g.event = Line!Unset \/ flag \in {"--event", "--no-event"}
    BY DEF OneFlag, flag
  <2> QED
    BY <2>1, <2>2 DEF GivenIs
<1>7. h.dts = (AtIn(m, {"--js"}) = {})
  <2>1. AtIn(m, {"--js"}) = AtIn(n, {"--js"}) \cup (IF flag = "--js" THEN {n + 1} ELSE {})
    BY <1>3
  <2>2. h.dts = (g.dts /\ flag # "--js") /\ g.dts = (AtIn(n, {"--js"}) = {})
    BY DEF OneFlag, GivenIs, flag
  <2> QED
    BY <2>1, <2>2
<1>8. AtIn(m, {"--esm", "--cjs"}) = AtIn(n, {"--esm", "--cjs"}) \cup (IF flag \in {"--esm", "--cjs"} THEN {n + 1} ELSE {})
  BY <1>3
<1>9. h.custom = (AtIn(m, {"--esm", "--cjs"}) # {})
  <2>1. h.custom = (g.custom \/ flag \in {"--esm", "--cjs"}) /\ g.custom = (AtIn(n, {"--esm", "--cjs"}) # {})
    BY DEF OneFlag, GivenIs, flag
  <2> QED
    BY <1>8, <2>1
<1>10. h.formats = IF AtIn(m, {"--esm", "--cjs"}) = {} THEN Line!BuildFormats
                  ELSE {f \in Line!BuildFormats : AtIn(m, {FlagOf(f)}) # {}}
  <2>1. /\ AtIn(m, {"--esm"}) = AtIn(n, {"--esm"}) \cup (IF flag = "--esm" THEN {n + 1} ELSE {})
        /\ AtIn(m, {"--cjs"}) = AtIn(n, {"--cjs"}) \cup (IF flag = "--cjs" THEN {n + 1} ELSE {})
    BY <1>3
  <2>2. AtIn(n, {"--esm", "--cjs"}) = AtIn(n, {"--esm"}) \cup AtIn(n, {"--cjs"})
    BY DEF AtIn
  <2>3. /\ g.custom = (AtIn(n, {"--esm", "--cjs"}) # {})
        /\ g.formats = IF AtIn(n, {"--esm", "--cjs"}) = {} THEN {"esm", "cjs"}
                       ELSE {f \in {"esm", "cjs"} : AtIn(n, {FlagOf(f)}) # {}}
    BY DEF GivenIs, Line!BuildFormats
  <2>4. h.formats = IF flag \in {"--esm", "--cjs"}
                    THEN (IF g.custom THEN g.formats ELSE {}) \cup {IF flag = "--esm" THEN "esm" ELSE "cjs"} ELSE g.formats
    BY DEF OneFlag, flag
  <2> DEFINE In(k, f) == AtIn(k, {FlagOf(f)}) # {}
  <2>5. \A k : (In(k, "esm") <=> AtIn(k, {"--esm"}) # {}) /\ (In(k, "cjs") <=> AtIn(k, {"--cjs"}) # {})
    BY DEF FlagOf
  <2>6. CASE flag = "--esm"
    <3>1. In(m, "esm") /\ (In(m, "cjs") <=> In(n, "cjs")) /\ AtIn(m, {"--esm", "--cjs"}) # {}
      BY <1>8, <2>1, <2>5, <2>6
    <3>2. h.formats = (IF g.custom THEN g.formats ELSE {}) \cup {"esm"}
      BY <2>4, <2>6
    <3>3. g.custom => g.formats = {f \in {"esm", "cjs"} : In(n, f)}
      BY <2>3
    <3>4. ~g.custom => ~In(n, "cjs")
      BY <2>2, <2>3, <2>5
    <3> HIDE DEF In
    <3>5. h.formats = {f \in {"esm", "cjs"} : In(m, f)}
      BY <3>1, <3>2, <3>3, <3>4
    <3> QED
      BY <3>1, <3>5 DEF In, Line!BuildFormats
  <2>7. CASE flag = "--cjs"
    <3>1. In(m, "cjs") /\ (In(m, "esm") <=> In(n, "esm")) /\ AtIn(m, {"--esm", "--cjs"}) # {}
      BY <1>8, <2>1, <2>5, <2>7
    <3>2. h.formats = (IF g.custom THEN g.formats ELSE {}) \cup {"cjs"}
      BY <2>4, <2>7
    <3>3. g.custom => g.formats = {f \in {"esm", "cjs"} : In(n, f)}
      BY <2>3
    <3>4. ~g.custom => ~In(n, "esm")
      BY <2>2, <2>3, <2>5
    <3> HIDE DEF In
    <3>5. h.formats = {f \in {"esm", "cjs"} : In(m, f)}
      BY <3>1, <3>2, <3>3, <3>4
    <3> QED
      BY <3>1, <3>5 DEF In, Line!BuildFormats
  <2>8. CASE flag \notin {"--esm", "--cjs"}
    <3>1. (In(m, "cjs") <=> In(n, "cjs")) /\ (In(m, "esm") <=> In(n, "esm")) /\ AtIn(m, {"--esm", "--cjs"}) = AtIn(n, {"--esm", "--cjs"})
      BY <1>8, <2>1, <2>5, <2>8
    <3>2. h.formats = g.formats
      BY <2>4, <2>8
    <3>3. g.formats = IF AtIn(n, {"--esm", "--cjs"}) = {} THEN {"esm", "cjs"} ELSE {f \in {"esm", "cjs"} : In(n, f)}
      BY <2>3
    <3> HIDE DEF In
    <3>4. h.formats = IF AtIn(m, {"--esm", "--cjs"}) = {} THEN {"esm", "cjs"} ELSE {f \in {"esm", "cjs"} : In(m, f)}
      BY <3>1, <3>2, <3>3
    <3> QED
      BY <3>4 DEF In, Line!BuildFormats
  <2> QED
    BY <2>6, <2>7, <2>8
<1>11. IsOptions(h)
  BY DEF OneFlag
<1> QED
  BY <1>4, <1>5, <1>6, <1>7, <1>9, <1>10, <1>11 DEF GivenIs

(* The first argument of the command, or the end of the line. *)
LEMMA CommandIs ==
    ASSUME IsLine
    PROVE  /\ Len(line) \in Nat /\ Line!CommandAt \in 1..(Len(line) + 1)
           /\ \A i \in 1..Len(line) : i < Line!CommandAt => ~Line!Starts(i)
           /\ Line!CommandAt <= Len(line) => Line!Starts(Line!CommandAt)
<1>1. PICK N \in Nat : N = Len(line) /\ DOMAIN line = 1..N
  BY LenProperties DEF IsLine
<1> DEFINE T == {i \in DOMAIN line : Line!Starts(i)} \cup {N + 1}
           C == Line!Min(T)
<1>2. T \in SUBSET Nat /\ N + 1 \in T /\ T \in SUBSET (1..(N + 1))
  BY <1>1
<1>3. PICK c \in T : \A x \in T : c <= x
  BY <1>2, HasLeast
<1>4. C = c
  BY <1>2, <1>3, LeastIs
<1>5. Line!CommandAt = C
  BY <1>1 DEF Line!CommandAt
<1>6. \A i \in 1..N : Line!Starts(i) => i \in T
  BY <1>1
<1>7. c \in 1..N => Line!Starts(c)
  BY <1>2, <1>3
<1> HIDE DEF T, C
<1>8. \A i \in 1..N : i < c => ~Line!Starts(i)
  BY <1>2, <1>3, <1>6
<1>9. c \in 1..(N + 1) /\ (c <= N => c \in 1..N)
  BY <1>2, <1>3
<1> QED
  BY <1>1, <1>4, <1>5, <1>7, <1>8, <1>9

ReadSoFar(n) ==
    /\ n \in Nat /\ n <= Len(line) /\ n < Line!CommandAt
    /\ n < Len(line) => ~Line!TakenAsValue(n + 1)
    /\ GivenIs(given, n)

LinkedOf ==
    SubSeq(line, IF Line!CommandAt <= Len(line) /\ line[Line!CommandAt] = Line!Delimiter
                 THEN Line!CommandAt + 1 ELSE Line!CommandAt, Len(line))

(* While the arguments are read the options are those of the ones that have
   been read; then they are those of all before the command.               *)
LineInv ==
    /\ line \in Lines
    /\ verdict = "reading" =>
           \/ linked = <<>> /\ \E n : ReadSoFar(n) /\ rest = From(n)
           \/ rest = <<>> /\ linked = LinkedOf /\ GivenIs(given, Line!CommandAt - 1)
    /\ verdict # "reading" => Line!LinesAreUnderstood
    /\ verdict = "run" => given.formats # {} /\ given.formats \subseteq Line!BuildFormats

LEMMA LinesAre == Line!LineConstants /\ line \in Lines => IsLine /\ \A i \in 1..Len(line) : Line!IsWord(line[i]) => line[i].text # Line!Unset
<1> SUFFICES ASSUME Line!LineConstants, line \in Lines
             PROVE  IsLine /\ \A i \in 1..Len(line) : Line!IsWord(line[i]) => line[i].text # Line!Unset
  OBVIOUS
<1>1. /\ line \in Seq({line[i] : i \in DOMAIN line})
      /\ \A i \in DOMAIN line : line[i] = [flag |-> line[i].flag, text |-> line[i].text] /\ (line[i].flag = Line!Blank => line[i].text # Line!Unset)
  BY DEF Line!LineConstants
<1>2. DOMAIN line = 1..Len(line)
  BY <1>1, LenProperties
<1> QED
  BY <1>1, <1>2 DEF IsLine, Line!IsWord

LEMMA LineStarts ==
    ASSUME Line!LineConstants, Line!LineInit
    PROVE  LineInv
<1>1. line \in Lines /\ rest = line /\ given = Line!DefaultOptions /\ linked = <<>> /\ verdict = "reading"
  BY DEF Line!LineInit
<1>2. IsLine
  BY <1>1, LinesAre
<1>3. rest = From(0)
  <2>1. PICK S : line \in Seq(S)
    BY <1>2 DEF IsLine
  <2>2. PICK N \in Nat : N = Len(line) /\ DOMAIN line = 1..N
    BY <2>1, LenProperties
  <2>3. From(0) \in Seq(S) /\ Len(From(0)) = N - 0 /\ \A i \in 1..(N - 0) : From(0)[i] = line[0 + i]
    BY <2>1, <2>2, SuffixIs DEF From
  <2>4. N - 0 = N /\ \A i \in 1..N : 0 + i = i
    OBVIOUS
  <2>5. From(0) = line
    BY <2>1, <2>2, <2>3, <2>4, SeqEqual
  <2> QED
    BY <1>1, <2>5
<1>4. \A flags : AtIn(0, flags) = {}
  BY DEF AtIn
<1>5. GivenIs(given, 0)
  <2>1. /\ IsOptions(given) /\ given.endpoint = Line!Blank /\ given.out = Line!Blank
        /\ given.poll = Line!Unset /\ given.port = Line!Unset
        /\ given.dts = TRUE /\ given.formats = Line!BuildFormats /\ given.custom = FALSE
    BY <1>1 DEF Line!DefaultOptions, IsOptions
  <2>2. given.event # Line!Unset
    BY <1>1, Zenon DEF Line!DefaultOptions, Line!Unset
  <2>3. \A flag, default : LastIn(0, flag, default) = default
    BY <1>4 DEF LastIn
  <2>4. Kept(Line!Blank) = Line!Blank
    BY DEF Kept
  <2> QED
    BY <1>4, <2>1, <2>2, <2>3, <2>4 DEF GivenIs
<1>6. ReadSoFar(0)
  <2>1. 0 <= Len(line) /\ 0 < Line!CommandAt
    BY <1>2, CommandIs
  <2>2. ~Line!TakenAsValue(0 + 1)
    BY DEF Line!TakenAsValue
  <2> QED
    BY <1>5, <2>1, <2>2 DEF ReadSoFar
<1> QED
  BY <1>1, <1>3, <1>6 DEF LineInv

(* What is said of the line stays. *)
LEMMA SameLine ==
    ASSUME line' = line
    PROVE  /\ \A i : Line!Starts(i)' = Line!Starts(i) /\ Line!TakenAsValue(i)' = Line!TakenAsValue(i)
           /\ \A i : Line!ValueAt(i)' = Line!ValueAt(i)
           /\ Line!CommandAt' = Line!CommandAt
           /\ \A n : From(n)' = From(n)
           /\ \A n, flags : AtIn(n, flags)' = AtIn(n, flags)
           /\ \A n, flag, default : LastIn(n, flag, default)' = LastIn(n, flag, default)
           /\ LinkedOf' = LinkedOf
<1>1. \A i : Line!Starts(i)' = Line!Starts(i) /\ Line!TakenAsValue(i)' = Line!TakenAsValue(i)
  BY DEF Line!Starts, Line!TakenAsValue
<1>2. \A i : Line!ValueAt(i)' = Line!ValueAt(i)
  BY DEF Line!ValueAt, Line!TakenAsValue
<1>3. Line!CommandAt' = Line!CommandAt
  BY DEF Line!CommandAt, Line!Starts, Line!TakenAsValue
<1>4. \A n : From(n)' = From(n)
  BY DEF From
<1>5. \A n, flags : AtIn(n, flags)' = AtIn(n, flags)
  BY DEF AtIn, Line!KnownAs
<1>6. \A n, flag, default : LastIn(n, flag, default)' = LastIn(n, flag, default)
  BY DEF LastIn, AtIn, Line!ValueAt, Line!TakenAsValue, Line!KnownAs
<1>7. LinkedOf' = LinkedOf
  BY <1>3 DEF LinkedOf
<1> QED
  BY <1>1, <1>2, <1>3, <1>4, <1>5, <1>6, <1>7

LEMMA SameGiven ==
    ASSUME line' = line, NEW n, GivenIs(given', n)
    PROVE  GivenIs(given, n)'
<1>1. IsOptions(given)' /\ (Line!BuildFormats)' = Line!BuildFormats
  BY DEF GivenIs, IsOptions
<1>2. /\ given'.endpoint = Kept(LastIn(n, "--endpoint", Line!Blank)')
      /\ given'.out = Kept(LastIn(n, "--out", Line!Blank)')
      /\ given'.poll = LastIn(n, "--poll", Line!Unset)'
  BY SameLine DEF GivenIs
<1>3. given'.port = Line!Unset <=> \A i \in AtIn(n, {"--port"})' : Line!ValueAt(i)' = Line!Unset
  BY SameLine DEF GivenIs
<1>4. /\ given'.event = Line!Unset => AtIn(n, {"--no-event", "--event"})' # {}
      /\ given'.dts = (AtIn(n, {"--js"})' = {})
      /\ given'.custom = (AtIn(n, {"--esm", "--cjs"})' # {})
  BY SameLine DEF GivenIs
<1>5. given'.formats = IF AtIn(n, {"--esm", "--cjs"})' = {} THEN Line!BuildFormats
                       ELSE {f \in Line!BuildFormats : AtIn(n, {FlagOf(f)})' # {}}
  BY SameLine DEF GivenIs
<1> QED
  BY <1>1, <1>2, <1>3, <1>4, <1>5 DEF GivenIs

(* A flag with its value, or without, is read. *)
LEMMA FlagRead ==
    ASSUME LineInv, IsLine, verdict = "reading", rest # <<>>, NEW n, ReadSoFar(n), rest = From(n)
    PROVE  /\ n < Len(line) /\ Head(rest) = line[n + 1] /\ Tail(rest) = From(n + 1) /\ n + 1 \in 1..Len(line)
           /\ n + 1 < Line!CommandAt <=> ~Line!Starts(n + 1)
           /\ Line!Starts(n + 1) => Line!CommandAt = n + 1
<1>1. n \in Nat /\ n <= Len(line) /\ Len(line) \in Nat /\ n < Line!CommandAt
  BY CommandIs DEF ReadSoFar
<1>2. n # Len(line)
  BY <1>1, LeftIs
<1>3. n < Len(line) /\ n + 1 \in 1..Len(line)
  BY <1>1, <1>2
<1>4. Head(rest) = line[n + 1] /\ Tail(rest) = From(n + 1)
  BY <1>1, <1>3, LeftIs
<1>5. Line!CommandAt \in Nat /\ (Line!CommandAt = n + 1 \/ n + 1 < Line!CommandAt)
  <2>1. Line!CommandAt \in Nat
    BY <1>1, CommandIs
  <2> QED
    BY <1>1, <2>1
<1>6. n + 1 < Line!CommandAt => ~Line!Starts(n + 1)
  BY <1>3, CommandIs
<1>7. Line!CommandAt = n + 1 => Line!Starts(n + 1)
  BY <1>1, <1>3, CommandIs
<1> QED
  BY <1>3, <1>4, <1>5, <1>6, <1>7

LEMMA ReadOn ==
    ASSUME LineInv, IsLine, verdict = "reading", UNCHANGED <<line, linked, verdict>>, linked = <<>>,
           NEW n, ReadSoFar(n), NEW m, Follows(n, m), m <= Len(line), rest' = From(m),
           \A i \in (n + 1)..m : ~Line!Starts(i), m < Len(line) => ~Line!TakenAsValue(m + 1),
           OneFlag(given, given', Line!KnownAs(line[n + 1]), Line!ValueAt(n + 1))
    PROVE  LineInv'
<1>1. GivenIs(given', m)
  BY GivenGrows DEF ReadSoFar
<1>2. n \in Nat /\ m \in Nat /\ n < m /\ Len(line) \in Nat /\ Line!CommandAt \in Nat /\ n < Line!CommandAt
  BY CommandIs DEF Follows, ReadSoFar
<1>3. m < Line!CommandAt
  <2>1. SUFFICES ASSUME Line!CommandAt <= m
                 PROVE  FALSE
    BY <1>2
  <2>2. Line!CommandAt \in (n + 1)..m /\ Line!CommandAt <= Len(line)
    BY <1>2, <2>1
  <2> QED
    BY <2>2, CommandIs
<1>4. ReadSoFar(m)'
  BY <1>1, <1>2, <1>3, SameLine, SameGiven DEF ReadSoFar
<1> QED
  BY <1>4, SameLine DEF LineInv

(* The value that follows a flag, and where the next argument begins. *)
LEMMA ValueIsRead ==
    ASSUME LineInv, IsLine, verdict = "reading", rest # <<>>, NEW n, ReadSoFar(n), rest = From(n), Head(rest).flag \in Line!Valued
    PROVE  \E m : /\ Follows(n, m) /\ m <= Len(line) /\ Line!OptionValue(rest).rest = From(m)
                  /\ Line!OptionValue(rest).value = Line!ValueAt(n + 1)
                  /\ \A i \in (n + 1)..m : ~Line!Starts(i)
                  /\ m < Len(line) => ~Line!TakenAsValue(m + 1)
<1>1. /\ n \in Nat /\ Len(line) \in Nat /\ n < Len(line) /\ Head(rest) = line[n + 1]
      /\ Tail(rest) = From(n + 1) /\ line[n + 1].flag \in Line!Valued /\ Len(rest) = Len(line) - n
      /\ n + 1 < Len(line) => rest[2] = line[n + 2] /\ Tail(Tail(rest)) = From(n + 2)
  BY FlagRead, LeftIs, CommandIs DEF ReadSoFar
<1>2. ~Line!Starts(n + 1)
  BY <1>1, MarksDiffer DEF Line!Starts, Line!IsWord
<1>3. \A i \in (n + 1)..(n + 1) : i = n + 1
  BY <1>1
<1>4. (n + 1) + 1 = n + 2 /\ (n + 2) - 1 = n + 1 /\ n + 2 > 1
  BY <1>1
<1>5. Line!TakenAsValue(n + 2) <=> Line!IsWord(line[n + 2]) /\ line[n + 1].text = Line!Unset
  BY <1>1, <1>4 DEF Line!TakenAsValue
<1>6. Len(rest) > 1 <=> n + 1 < Len(line)
  BY <1>1
<1>7. CASE line[n + 1].text # Line!Unset
  <2>1. Line!OptionValue(rest) = [value |-> line[n + 1].text, rest |-> From(n + 1)]
    BY <1>1, <1>7 DEF Line!OptionValue
  <2>2. Line!ValueAt(n + 1) = line[n + 1].text
    BY <1>7 DEF Line!ValueAt
  <2>3. ~Line!TakenAsValue((n + 1) + 1)
    BY <1>4, <1>5, <1>7
  <2>4. Follows(n, n + 1) /\ n + 1 <= Len(line)
    BY <1>1 DEF Follows
  <2>20. Line!OptionValue(rest).rest = From(n + 1) /\ Line!OptionValue(rest).value = line[n + 1].text
    BY <2>1
  <2> QED
    BY <1>2, <1>3, <2>2, <2>3, <2>4, <2>20
<1>8. CASE line[n + 1].text = Line!Unset /\ n + 1 < Len(line) /\ Line!IsWord(line[n + 2])
  <2>1. rest[2] = line[n + 2] /\ Tail(Tail(rest)) = From(n + 2)
    BY <1>1, <1>8
  <2>2. Line!OptionValue(rest) = [value |-> line[n + 2].text, rest |-> From(n + 2)]
    BY <1>1, <1>6, <1>8, <2>1 DEF Line!OptionValue
  <2>3. Line!ValueAt(n + 1) = line[n + 2].text
    BY <1>4, <1>5, <1>8 DEF Line!ValueAt
  <2>4. ~Line!Starts(n + 2)
    BY <1>5, <1>8, MarksDiffer DEF Line!Starts
  <2>5. \A i \in (n + 1)..(n + 2) : i = n + 1 \/ i = n + 2
    BY <1>1
  <2>6. ~Line!TakenAsValue((n + 2) + 1)
    <3>1. ((n + 2) + 1) - 1 = n + 2
      BY <1>1
    <3>2. line[n + 2].flag \notin Line!Valued
      BY <1>8, MarksDiffer DEF Line!IsWord
    <3> QED
      BY <3>1, <3>2 DEF Line!TakenAsValue
  <2>7. Follows(n, n + 2) /\ n + 2 <= Len(line)
    BY <1>1, <1>8 DEF Follows
  <2>20. Line!OptionValue(rest).rest = From(n + 2) /\ Line!OptionValue(rest).value = line[n + 2].text
    BY <2>2
  <2> QED
    BY <1>2, <2>3, <2>4, <2>5, <2>6, <2>7, <2>20
<1>9. CASE line[n + 1].text = Line!Unset /\ ~(n + 1 < Len(line) /\ Line!IsWord(line[n + 2]))
  <2>1. ~(Len(rest) > 1 /\ Line!IsWord(rest[2]))
    BY <1>1, <1>6, <1>9
  <2>2. Line!OptionValue(rest) = [value |-> Line!Unset, rest |-> From(n + 1)]
    BY Zenon, <1>1, <1>9, <2>1 DEF Line!OptionValue
  <2>3. ~(n + 1 < Len(line) /\ Line!TakenAsValue((n + 1) + 1))
    BY <1>4, <1>5, <1>9
  <2>4. Line!ValueAt(n + 1) = Line!Unset
    BY <1>9, <2>3 DEF Line!ValueAt
  <2>5. Follows(n, n + 1) /\ n + 1 <= Len(line)
    BY <1>1 DEF Follows
  <2>20. Line!OptionValue(rest).rest = From(n + 1) /\ Line!OptionValue(rest).value = Line!Unset
    BY <2>2
  <2> QED
    BY <1>2, <1>3, <2>3, <2>4, <2>5, <2>20
<1> QED
  BY <1>7, <1>8, <1>9

LEMMA GivenIsTyped == \A n : GivenIs(given, n) => IsOptions(given) /\ given.dts \in BOOLEAN /\ given.custom \in BOOLEAN
  BY DEF GivenIs

(* What the flags with a value, and those without, do to the options. *)
LEMMA AssignIs ==
    ASSUME IsOptions(given), given.dts \in BOOLEAN, given.custom \in BOOLEAN, NEW flag \in Line!Valued, NEW value
    PROVE  OneFlag(given, Line!Assign(flag, value), flag, value)
<1>1. /\ flag # "--js" /\ flag # "--esm" /\ flag # "--cjs" /\ flag # "--no-event"
  BY MarksDiffer DEF Line!Switches
<1>2. CASE flag = "--endpoint"
  <2>1. Line!Assign(flag, value) = [given EXCEPT !.endpoint = Kept(value)]
    BY <1>2 DEF Line!Assign, Kept
  <2> QED
    BY <1>1, <1>2, <2>1 DEF OneFlag, IsOptions
<1>3. CASE flag = "--out"
  <2>1. Line!Assign(flag, value) = [given EXCEPT !.out = Kept(value)]
    BY <1>3 DEF Line!Assign, Kept
  <2> QED
    BY <1>1, <1>3, <2>1 DEF OneFlag, IsOptions
<1>4. CASE flag = "--poll"
  <2>1. Line!Assign(flag, value) = [given EXCEPT !.poll = value]
    BY <1>4 DEF Line!Assign
  <2> QED
    BY <1>1, <1>4, <2>1 DEF OneFlag, IsOptions
<1>5. CASE flag = "--event"
  <2>1. Line!Assign(flag, value) = [given EXCEPT !.event = value]
    BY <1>5 DEF Line!Assign
  <2> QED
    BY <1>1, <1>5, <2>1 DEF OneFlag, IsOptions
<1>6. CASE flag = "--timeout"
  <2>1. Line!Assign(flag, value) = given \/ Line!Assign(flag, value) = [given EXCEPT !.timeout = value]
    BY <1>6 DEF Line!Assign
  <2> QED
    BY <1>1, <1>6, <2>1 DEF OneFlag, IsOptions
<1>7. CASE flag = "--port"
  <2>1. Line!Assign(flag, value) = IF value = Line!Unset THEN given ELSE [given EXCEPT !.port = value]
    BY <1>7 DEF Line!Assign
  <2> QED
    BY <1>1, <1>7, <2>1 DEF OneFlag, IsOptions
<1>8. CASE flag = "--payload"
  <2>1. Line!Assign(flag, value) = given \/ Line!Assign(flag, value) = [given EXCEPT !.payload = value]
    BY <1>8 DEF Line!Assign
  <2> QED
    BY <1>1, <1>8, <2>1 DEF OneFlag, IsOptions
<1>9. CASE flag \notin {"--endpoint", "--out", "--poll", "--event", "--timeout", "--port", "--payload"}
  <2>1. Line!Assign(flag, value) = given
    BY <1>9 DEF Line!Assign
  <2> QED
    BY <1>1, <1>9, <2>1 DEF OneFlag, IsOptions
<1> QED
  BY <1>2, <1>3, <1>4, <1>5, <1>6, <1>7, <1>8, <1>9

LEMMA SwitchIs ==
    ASSUME IsOptions(given), given.dts \in BOOLEAN, given.custom \in BOOLEAN, NEW value, rest # <<>>, Line!ReadSwitch
    PROVE  OneFlag(given, given', Line!KnownAs(Head(rest)), value)
<1> DEFINE flag == Line!KnownAs(Head(rest))
<1>1. /\ flag \in {"--no-event", "--js", "--esm", "--cjs"}
      /\ given' = CASE flag = "--no-event" -> [given EXCEPT !.event = Line!Unset]
                    [] flag = "--js"       -> [given EXCEPT !.dts = FALSE]
                    [] flag = "--esm"      -> Line!AddBuildFormat(given, "esm")
                    [] flag = "--cjs"      -> Line!AddBuildFormat(given, "cjs")
  <2>1. flag \in Line!Switches /\ Head(rest).flag = flag
    BY KnownFlags DEF Line!ReadSwitch
  <2> QED
    BY <2>1 DEF Line!ReadSwitch, Line!Switches
<1> HIDE DEF flag
<1>2. CASE flag = "--no-event"
  <2>1. given' = [given EXCEPT !.event = Line!Unset]
    BY <1>1, <1>2
  <2> QED
    BY <1>2, <2>1 DEF OneFlag, IsOptions, flag
<1>3. CASE flag = "--js"
  <2>1. given' = [given EXCEPT !.dts = FALSE]
    BY <1>1, <1>3
  <2> QED
    BY <1>3, <2>1 DEF OneFlag, IsOptions, flag
<1>4. CASE flag = "--esm"
  <2>1. given' = Line!AddBuildFormat(given, "esm")
    BY <1>1, <1>4
  <2> QED
    BY <1>4, <2>1 DEF Line!AddBuildFormat, OneFlag, IsOptions, flag
<1>5. CASE flag = "--cjs"
  <2>1. given' = Line!AddBuildFormat(given, "cjs")
    BY <1>1, <1>5
  <2> QED
    BY <1>5, <2>1 DEF Line!AddBuildFormat, OneFlag, IsOptions, flag
<1> QED
  BY <1>1, <1>2, <1>3, <1>4, <1>5

(* A value that is refused stands before the command. *)
LEMMA RefusedRead ==
    ASSUME Line!LineConstants, LineInv, IsLine, UNCHANGED <<line, linked>>, verdict' = "refused",
           NEW n \in Nat, n + 1 \in 1..Len(line), n + 1 < Line!CommandAt,
           line[n + 1].flag \in Line!Checked, Line!ValueAt(n + 1) # Line!Unset, Line!ValueAt(n + 1) \notin Positive
    PROVE  LineInv'
<1>1. n + 1 \in 1..(Line!CommandAt - 1)
  BY CommandIs
<1>2. n + 1 \in Line!At(Line!Checked)'
  <2>1. Line!KnownAs(line[n + 1]) \in Line!Checked
    BY KnownFlags DEF Line!Checked, Line!Valued
  <2> QED
    BY <1>1, <2>1, SameLine DEF Line!At, Line!Checked, Line!KnownAs
<1>3. Line!ValueAt(n + 1)' # Line!Unset /\ Line!ValueAt(n + 1)' \notin Positive
  BY SameLine
<1>4. Line!LinesAreUnderstood'
  BY <1>2, <1>3 DEF Line!LinesAreUnderstood, Line!Unset, Line!Checked
<1> QED
  BY <1>4 DEF LineInv

LEMMA ValuedKeeps ==
    ASSUME Line!LineConstants, LineInv, IsLine, verdict = "reading", rest # <<>>, linked = <<>>,
           NEW n, ReadSoFar(n), rest = From(n), Line!ReadValued
    PROVE  LineInv'
<1> DEFINE read == Line!OptionValue(rest)
<1>1. /\ Head(rest).flag \in Line!Valued /\ rest' = read.rest /\ UNCHANGED <<line, linked>>
      /\ IF Head(rest).flag \in Line!Checked /\ read.value # Line!Unset /\ read.value \notin Positive
         THEN verdict' = "refused" /\ UNCHANGED given
         ELSE given' = Line!Assign(Head(rest).flag, read.value) /\ UNCHANGED verdict
  BY DEF Line!ReadValued
<1>2. PICK m : /\ Follows(n, m) /\ m <= Len(line) /\ read.rest = From(m)
               /\ read.value = Line!ValueAt(n + 1)
               /\ \A i \in (n + 1)..m : ~Line!Starts(i)
               /\ m < Len(line) => ~Line!TakenAsValue(m + 1)
  BY <1>1, ValueIsRead
<1> HIDE DEF read
<1>3. n \in Nat /\ Head(rest) = line[n + 1] /\ n + 1 \in 1..Len(line)
  BY FlagRead DEF ReadSoFar
<1>4. CASE Head(rest).flag \in Line!Checked /\ read.value # Line!Unset /\ read.value \notin Positive
  <2>1. n + 1 \in (n + 1)..m
    BY <1>2 DEF Follows
  <2>2. n + 1 < Line!CommandAt
    BY <1>2, <2>1, FlagRead
  <2>3. verdict' = "refused"
    BY <1>1, <1>4
  <2> QED
    BY <1>1, <1>2, <1>3, <1>4, <2>2, <2>3, RefusedRead
<1>5. CASE ~(Head(rest).flag \in Line!Checked /\ read.value # Line!Unset /\ read.value \notin Positive)
  <2>1. given' = Line!Assign(line[n + 1].flag, Line!ValueAt(n + 1)) /\ UNCHANGED verdict /\ line[n + 1].flag \in Line!Valued
    BY <1>1, <1>2, <1>3, <1>5
  <2>2. OneFlag(given, given', Line!KnownAs(line[n + 1]), Line!ValueAt(n + 1))
    BY <2>1, AssignIs, GivenIsTyped, KnownFlags DEF ReadSoFar
  <2>3. rest' = From(m) /\ UNCHANGED <<line, linked, verdict>>
    BY <1>1, <1>2, <2>1
  <2> QED
    BY <1>2, <2>2, <2>3, ReadOn
<1> QED
  BY <1>4, <1>5

(* A flag without a value is read. *)
LEMMA BareKeeps ==
    ASSUME Line!LineConstants, LineInv, IsLine, verdict = "reading", rest # <<>>, linked = <<>>,
           NEW n, ReadSoFar(n), rest = From(n), Line!ReadSwitch \/ Line!ReadUnknown
    PROVE  LineInv'
<1>1. /\ n \in Nat /\ Head(rest) = line[n + 1] /\ n + 1 \in 1..Len(line) /\ n + 1 <= Len(line)
      /\ Tail(rest) = From(n + 1)
  BY FlagRead, CommandIs DEF ReadSoFar
<1>2. IsOptions(given) /\ given.dts \in BOOLEAN /\ given.custom \in BOOLEAN
  BY GivenIsTyped DEF ReadSoFar
<1>3. UNCHANGED <<line, linked, verdict>> /\ rest' = From(n + 1)
  BY <1>1 DEF Line!ReadSwitch, Line!ReadUnknown
<1>4. line[n + 1].flag \notin Line!Valued /\ ~Line!Starts(n + 1)
  <2>1. CASE Line!ReadSwitch
    <3>1. line[n + 1].flag \in Line!Switches
      BY <1>1, <2>1, KnownFlags DEF Line!ReadSwitch
    <3> QED
      BY <3>1, MarksDiffer DEF Line!Starts, Line!IsWord
  <2>2. CASE Line!ReadUnknown
    <3>1. /\ ~Line!IsWord(line[n + 1]) /\ line[n + 1] # Line!Delimiter /\ line[n + 1].flag \notin Line!Valued
      BY <1>1, <2>2, KnownFlags DEF Line!ReadUnknown
    <3> QED
      BY <3>1 DEF Line!Starts
  <2> QED
    BY <2>1, <2>2
<1>5. OneFlag(given, given', Line!KnownAs(line[n + 1]), Line!ValueAt(n + 1))
  <2>1. CASE Line!ReadSwitch
    BY <1>1, <1>2, <2>1, SwitchIs
  <2>2. CASE Line!ReadUnknown
    <3>1. /\ given' = given /\ Line!KnownAs(line[n + 1]) \notin Line!Valued
          /\ Line!KnownAs(line[n + 1]) \notin {"--no-event", "--js", "--esm", "--cjs"}
      BY <1>1, <2>2 DEF Line!ReadUnknown, Line!Switches
    <3>2. Line!KnownAs(line[n + 1]) \notin {"--endpoint", "--out", "--poll", "--port", "--event"}
      BY <3>1 DEF Line!Valued
    <3> QED
      BY <1>2, <3>1, <3>2 DEF OneFlag
  <2> QED
    BY <2>1, <2>2
<1>6. ~Line!TakenAsValue((n + 1) + 1)
  <2>1. ((n + 1) + 1) - 1 = n + 1
    BY <1>1
  <2> QED
    BY <1>4, <2>1 DEF Line!TakenAsValue
<1>7. Follows(n, n + 1) /\ \A i \in (n + 1)..(n + 1) : ~Line!Starts(i)
  BY <1>1, <1>4 DEF Follows
<1> QED
  BY <1>1, <1>3, <1>5, <1>6, <1>7, ReadOn

LEMMA CommandKeeps ==
    ASSUME Line!LineConstants, LineInv, IsLine, verdict = "reading", rest # <<>>, linked = <<>>,
           NEW n, ReadSoFar(n), rest = From(n), Line!ReadCommand
    PROVE  LineInv'
<1>1. /\ n \in Nat /\ Head(rest) = line[n + 1] /\ n + 1 \in 1..Len(line) /\ n < Len(line) /\ Len(line) \in Nat
      /\ Tail(rest) = From(n + 1) /\ GivenIs(given, n)
  BY FlagRead, CommandIs DEF ReadSoFar
<1>2. /\ Line!IsWord(line[n + 1]) \/ line[n + 1] = Line!Delimiter
      /\ linked' = IF line[n + 1] = Line!Delimiter THEN From(n + 1) ELSE From(n)
      /\ rest' = <<>> /\ UNCHANGED <<line, given, verdict>>
  BY <1>1 DEF Line!ReadCommand
<1>3. Line!CommandAt = n + 1
  <2>1. Line!Starts(n + 1)
    BY <1>1, <1>2 DEF Line!Starts, ReadSoFar
  <2> QED
    BY <2>1, FlagRead
<1>4. linked' = LinkedOf
  <2>1. n + 1 <= Len(line) /\ (n + 1) + 1 = n + 2
    BY <1>1
  <2> QED
    BY <1>2, <1>3, <2>1 DEF LinkedOf, From
<1>5. GivenIs(given', n) /\ Line!CommandAt - 1 = n
  BY <1>1, <1>2, <1>3
<1>6. Line!CommandAt' - 1 = n /\ LinkedOf' = LinkedOf
  BY <1>2, <1>5, SameLine
<1>7. GivenIs(given, n)'
  BY <1>2, <1>5, SameGiven
<1>8. GivenIs(given, Line!CommandAt - 1)'
  BY <1>2, <1>5, <1>6, <1>7, SameGiven, SameLine
<1> QED
  BY <1>2, <1>4, <1>6, <1>8 DEF LineInv

(* When the whole line is read the options are those before the command. *)
LEMMA AllIsRead ==
    ASSUME LineInv, IsLine, verdict = "reading", rest = <<>>
    PROVE  linked = LinkedOf /\ GivenIs(given, Line!CommandAt - 1)
<1>1. CASE linked = <<>> /\ \E n : ReadSoFar(n) /\ rest = From(n)
  <2>1. PICK n : ReadSoFar(n) /\ rest = From(n)
    BY <1>1
  <2>2. n \in Nat /\ n <= Len(line) /\ n < Line!CommandAt /\ Len(line) \in Nat /\ Line!CommandAt \in 1..(Len(line) + 1)
    BY <2>1, CommandIs DEF ReadSoFar
  <2>3. n = Len(line)
    BY <2>1, <2>2, LeftIs
  <2>4. Line!CommandAt = n + 1 /\ Line!CommandAt - 1 = n /\ ~(Line!CommandAt <= Len(line))
    BY <2>2, <2>3
  <2>5. LinkedOf = From(n)
    BY <2>4 DEF LinkedOf, From
  <2> QED
    BY <1>1, <2>1, <2>4, <2>5 DEF ReadSoFar
<1>2. CASE linked = LinkedOf /\ GivenIs(given, Line!CommandAt - 1)
  BY <1>2
<1> QED
  BY <1>1, <1>2 DEF LineInv

LEMMA FinishKeeps ==
    ASSUME Line!LineConstants, LineInv, IsLine, Line!Finish
    PROVE  LineInv'
<1> DEFINE last == Line!CommandAt - 1
<1>1. /\ verdict = "reading" /\ rest = <<>> /\ UNCHANGED <<line, rest, linked>>
      /\ given' = Line!Complete(given) /\ verdict' = IF Line!Acceptable(given') THEN "run" ELSE "refused"
  BY DEF Line!Finish
<1>2. linked = LinkedOf /\ GivenIs(given, last)
  BY <1>1, AllIsRead
<1>3. /\ given'.endpoint = IF given.endpoint = Line!Blank /\ given.port # Line!Unset THEN "local" ELSE given.endpoint
      /\ given'.out = given.out /\ given'.poll = given.poll /\ given'.event = given.event
      /\ given'.dts = given.dts /\ given'.formats = given.formats /\ given'.port = given.port
  BY <1>1, <1>2 DEF Line!Complete, GivenIs, IsOptions
<1>4. /\ \A flags : Line!At(flags)' = AtIn(last, flags)
      /\ \A flag, default : Line!LastOf(flag, default)' = LastIn(last, flag, default)
  <2>1. \A flags : Line!At(flags)' = AtIn(last, flags)
    BY <1>1, SameLine DEF Line!At, AtIn, Line!KnownAs
  <2>2. Line!CommandAt' = Line!CommandAt /\ line' = line
    BY <1>1, SameLine
  <2>3. \A flag, default : Line!LastOf(flag, default)' = Line!LastOf(flag, default)
    BY <2>2 DEF Line!LastOf, Line!At, Line!ValueAt, Line!TakenAsValue, Line!Max, Line!KnownAs
  <2>4. \A flag, default : Line!LastOf(flag, default) = LastIn(last, flag, default)
    BY DEF Line!LastOf, Line!At, LastIn, AtIn
  <2> QED
    BY <2>1, <2>3, <2>4
<1>5. /\ given.endpoint = Kept(LastIn(last, "--endpoint", Line!Blank)) /\ given.out = Kept(LastIn(last, "--out", Line!Blank))
      /\ given.poll = LastIn(last, "--poll", Line!Unset)
      /\ given.port = Line!Unset <=> \A i \in AtIn(last, {"--port"}) : Line!ValueAt(i) = Line!Unset
      /\ given.event = Line!Unset => AtIn(last, {"--no-event", "--event"}) # {}
      /\ given.dts = (AtIn(last, {"--js"}) = {})
      /\ given.formats = IF AtIn(last, {"--esm", "--cjs"}) = {} THEN Line!BuildFormats
                         ELSE {f \in Line!BuildFormats : AtIn(last, {FlagOf(f)}) # {}}
  BY <1>2 DEF GivenIs
<1>6. \A v : /\ Kept(v) = Line!Blank <=> v \in {Line!Blank, Line!Unset}
             /\ Kept(v) # Line!Blank => Kept(v) = v
  BY DEF Kept
<1>9. Line!HasPort' <=> given.port # Line!Unset
  <2>1. Line!At({"--port"})' = AtIn(last, {"--port"})
    BY <1>4
  <2> HIDE DEF last
  <2>2. Line!HasPort' <=> \E i \in Line!At({"--port"})' : Line!ValueAt(i)' # Line!Unset
    BY DEF Line!HasPort, Line!Unset
  <2>3. \A i : Line!ValueAt(i)' = Line!ValueAt(i)
    BY <1>1, SameLine
  <2> QED
    BY <1>5, <2>1, <2>2, <2>3
<1> HIDE DEF last
<1>7. CASE Line!Acceptable(given')
  <2>1. verdict' = "run" /\ given'.out # Line!Blank
    BY <1>1, <1>7 DEF Line!Acceptable
  <2>2. given'.out = Line!LastOf("--out", Line!Blank)' /\ given'.poll = Line!LastOf("--poll", Line!Unset)'
    BY <1>3, <1>4, <1>5, <1>6, <2>1
  <2>3. Line!LastOf("--endpoint", Line!Blank)' \notin {Line!Blank, Line!Unset} => given'.endpoint = Line!LastOf("--endpoint", Line!Blank)'
    BY <1>3, <1>4, <1>5, <1>6
  <2>10. Line!HasPort' => Line!LastOf("--endpoint", Line!Blank)' \in Sockets \cup {Line!Blank, Line!Unset}
    BY <1>3, <1>4, <1>5, <1>6, <1>7, <1>9 DEF Line!Acceptable
  <2>4. given'.dts = (Line!At({"--js"})' = {})
    BY <1>3, <1>4, <1>5
  <2>5. given'.formats = IF Line!At({"--esm", "--cjs"})' = {} THEN Line!BuildFormats
                         ELSE {f \in Line!BuildFormats : Line!At({IF f = "esm" THEN "--esm" ELSE "--cjs"})' # {}}
    BY <1>3, <1>4, <1>5 DEF FlagOf
  <2>6. linked' = SubSeq(line', IF Line!CommandAt' <= Len(line') /\ line'[Line!CommandAt'] = Line!Delimiter THEN Line!CommandAt' + 1 ELSE Line!CommandAt', Len(line'))
    BY <1>1, <1>2, SameLine DEF LinkedOf
  <2>7. Line!LinesAreUnderstood'
    <3>1. verdict' # "refused" /\ (Line!BuildFormats)' = Line!BuildFormats
      BY <2>1
    <3>2. (Line!Delimiter)' = Line!Delimiter /\ (Line!Blank)' = Line!Blank /\ (Line!Unset)' = Line!Unset
      BY DEF Line!Delimiter, Line!Flag
    <3> QED
      BY <2>2, <2>3, <2>4, <2>5, <2>6, <2>10, <3>1, <3>2 DEF Line!LinesAreUnderstood
  <2>8. given'.formats # {} /\ given'.formats \subseteq Line!BuildFormats
    <3>1. AtIn(last, {"--esm", "--cjs"}) = AtIn(last, {"--esm"}) \cup AtIn(last, {"--cjs"})
      BY DEF AtIn
    <3>2. Line!BuildFormats = {"esm", "cjs"} /\ FlagOf("esm") = "--esm" /\ FlagOf("cjs") = "--cjs"
      BY DEF Line!BuildFormats, FlagOf
    <3>3. CASE AtIn(last, {"--esm", "--cjs"}) = {}
      BY <1>3, <1>5, <3>2, <3>3
    <3>4. CASE AtIn(last, {"--esm", "--cjs"}) # {}
      <4>1. AtIn(last, {FlagOf("esm")}) # {} \/ AtIn(last, {FlagOf("cjs")}) # {}
        BY <3>1, <3>2, <3>4
      <4>2. given'.formats = {f \in Line!BuildFormats : AtIn(last, {FlagOf(f)}) # {}}
        BY <1>3, <1>5, <3>4
      <4>3. "esm" \in Line!BuildFormats /\ "cjs" \in Line!BuildFormats
        BY <3>2
      <4> QED
        BY <4>1, <4>2, <4>3
    <3> QED
      BY <3>3, <3>4
  <2>9. line' \in Lines
    BY <1>1 DEF LineInv
  <2> QED
    BY <2>1, <2>7, <2>8, <2>9 DEF LineInv, Line!BuildFormats
<1>8. CASE ~Line!Acceptable(given')
  <2>1. verdict' = "refused" 
        /\ \/ given'.endpoint = Line!Blank \/ given'.out = Line!Blank \/ given'.event = Line!Unset
           \/ given'.endpoint # Line!Blank /\ given'.port # Line!Unset /\ given'.endpoint \notin Sockets
    BY <1>1, <1>8 DEF Line!Acceptable
  <2>2. ASSUME given'.endpoint = Line!Blank
        PROVE  Line!LastOf("--endpoint", Line!Blank)' \in {Line!Blank, Line!Unset} /\ ~Line!HasPort'
    <3>1. given.endpoint = Line!Blank /\ given.port = Line!Unset
      BY <1>3, <2>2, MarksDiffer
    <3> QED
      BY <1>4, <1>5, <1>6, <1>9, <3>1
  <2>3. ASSUME given'.out = Line!Blank
        PROVE  Line!LastOf("--out", Line!Blank)' \in {Line!Blank, Line!Unset}
    BY <1>3, <1>4, <1>5, <1>6, <2>3
  <2>4. ASSUME given'.event = Line!Unset
        PROVE  Line!At({"--no-event", "--event"})' # {}
    BY <1>3, <1>4, <1>5, <2>4
  <2>7. ASSUME given'.endpoint # Line!Blank, given'.port # Line!Unset, given'.endpoint \notin Sockets
        PROVE  Line!LastOf("--endpoint", Line!Blank)' \notin Sockets \cup {Line!Blank, Line!Unset} /\ Line!HasPort'
    <3>1. "local" \in Sockets
      BY DEF Line!LineConstants
    <3>2. given.endpoint = given'.endpoint /\ given.port # Line!Unset
      BY <1>3, <2>7, <3>1
    <3> QED
      BY <1>4, <1>5, <1>6, <1>9, <2>7, <3>2
  <2>5. Line!LinesAreUnderstood'
    BY <2>1, <2>2, <2>3, <2>4, <2>7 DEF Line!LinesAreUnderstood
  <2>6. line' \in Lines
    BY <1>1 DEF LineInv
  <2> QED
    BY <2>1, <2>5, <2>6 DEF LineInv
<1> QED
  BY <1>7, <1>8

LEMMA LineKeeps ==
    ASSUME Line!LineConstants, LineInv, Line!LineNext
    PROVE  LineInv'
<1>1. IsLine
  BY LinesAre DEF LineInv
<1>2. CASE Line!Finish
  BY <1>1, <1>2, FinishKeeps
<1>3. CASE verdict = "reading" /\ rest # <<>> /\ (Line!ReadValued \/ Line!ReadSwitch \/ Line!ReadUnknown \/ Line!ReadCommand)
  <2>1. linked = <<>> /\ \E n : ReadSoFar(n) /\ rest = From(n)
    BY <1>3 DEF LineInv
  <2>2. PICK n : ReadSoFar(n) /\ rest = From(n)
    BY <2>1
  <2> QED
    BY <1>1, <1>3, <2>1, <2>2, ValuedKeeps, BareKeeps, CommandKeeps
<1> QED
  BY <1>2, <1>3 DEF Line!LineNext

LEMMA LineStays == LineInv /\ UNCHANGED lineVars => LineInv'
<1> SUFFICES ASSUME LineInv, UNCHANGED lineVars PROVE LineInv'
  OBVIOUS
<1>1. UNCHANGED <<line, rest, given, linked, verdict>>
  BY DEF lineVars
<1>2. ASSUME NEW n, ReadSoFar(n), rest = From(n)
      PROVE  ReadSoFar(n)' /\ rest' = From(n)'
  <2>1. GivenIs(given, n)'
    BY <1>1, <1>2, SameGiven DEF ReadSoFar
  <2> QED
    BY <1>1, <1>2, <2>1, SameLine DEF ReadSoFar
<1>3. ASSUME GivenIs(given, Line!CommandAt - 1), linked = LinkedOf
      PROVE  GivenIs(given, Line!CommandAt - 1)' /\ linked' = LinkedOf'
  <2>1. GivenIs(given', Line!CommandAt - 1) /\ Line!CommandAt' = Line!CommandAt /\ LinkedOf' = LinkedOf
    BY <1>1, <1>3, SameLine
  <2> QED
    BY <1>1, <1>3, <2>1, SameGiven
<1>4. Line!LinesAreUnderstood => Line!LinesAreUnderstood'
  <2>1. Line!CommandAt' = Line!CommandAt /\ line' = line /\ \A i : Line!ValueAt(i)' = Line!ValueAt(i)
    BY <1>1, SameLine
  <2>2. \A flags : Line!At(flags)' = Line!At(flags)
    BY <2>1 DEF Line!At, Line!KnownAs
  <2>3. \A flag, default : Line!LastOf(flag, default)' = Line!LastOf(flag, default)
    BY <2>1 DEF Line!LastOf, Line!At, Line!ValueAt, Line!TakenAsValue, Line!Max, Line!KnownAs
  <2>4. /\ Line!LastOf("--out", Line!Blank)' = Line!LastOf("--out", Line!Blank)
        /\ Line!LastOf("--poll", Line!Unset)' = Line!LastOf("--poll", Line!Unset)
        /\ Line!LastOf("--endpoint", Line!Blank)' = Line!LastOf("--endpoint", Line!Blank)
    BY <2>3
  <2>5. \A f : Line!At({IF f = "esm" THEN "--esm" ELSE "--cjs"})' = Line!At({IF f = "esm" THEN "--esm" ELSE "--cjs"})
    BY <2>2
  <2>6. Line!HasPort' = Line!HasPort
    BY <2>1, <2>2 DEF Line!HasPort
  <2> QED
    BY <1>1, <2>1, <2>2, <2>4, <2>5, <2>6 DEF Line!LinesAreUnderstood
<1> QED
  BY <1>1, <1>2, <1>3, <1>4 DEF LineInv

(* What the line and the package owe. *)
LEMMA LineIsUnderstood ==
    ASSUME LineInv
    PROVE  Line!LinesAreUnderstood /\ Line!PackageResolves
<1>1. Line!LinesAreUnderstood
  BY DEF LineInv, Line!LinesAreUnderstood
<1>2. Line!PackageResolves
  <2> SUFFICES ASSUME verdict = "run"
               PROVE  /\ UNION {Line!Manifest[k] : k \in DOMAIN Line!Manifest} \subseteq Line!BuiltFiles
                      /\ Line!ClientModule = "api" => Line!Imported \subseteq Line!ToSet(Line!Entries)
    BY DEF Line!PackageResolves
  <2>1. Line!ToSet(Line!Entries) = {"index", Line!ClientModule, "ast"}
    <3>1. Line!Entries = <<"index", Line!ClientModule, "ast">>
      BY DEF Line!Entries
    <3>2. DOMAIN Line!Entries = 1..3
      BY <3>1
    <3> QED
      BY <3>1, <3>2 DEF Line!ToSet
  <2>2. given.formats # {} /\ given.formats \subseteq {"esm", "cjs"}
    BY DEF LineInv, Line!BuildFormats
  <2>3. DOMAIN Line!Manifest = {"import", "require", "types", "default"}
    BY DEF Line!Manifest
  <2> DEFINE built == {"index", Line!ClientModule, "ast"} \X ((IF "esm" \in given.formats THEN {".js"} ELSE {})
                       \cup (IF "cjs" \in given.formats THEN {".cjs"} ELSE {})
                       \cup (IF given.dts THEN {".d.ts"} ELSE {}))
  <2>4. Line!BuiltFiles = built
    BY <2>1 DEF Line!BuiltFiles
  <2>5. Line!ManifestOutputFile("esm") = <<"index", ".js">> /\ Line!ManifestOutputFile("cjs") = <<"index", ".cjs">>
    BY DEF Line!ManifestOutputFile
  <2>6. /\ "esm" \in given.formats => <<"index", ".js">> \in built
        /\ "cjs" \in given.formats => <<"index", ".cjs">> \in built
        /\ given.dts => <<"index", ".d.ts">> \in built
    OBVIOUS
  <2> HIDE DEF built
  <2>7. Line!Manifest["import"] \subseteq built /\ Line!Manifest["require"] \subseteq built /\ Line!Manifest["types"] \subseteq built
    BY <2>5, <2>6 DEF Line!Manifest
  <2>8. Line!Manifest["default"] \subseteq built
    BY <2>2, <2>5, <2>6 DEF Line!Manifest
  <2>9. \A k \in DOMAIN Line!Manifest : Line!Manifest[k] \subseteq built
    BY <2>3, <2>7, <2>8
  <2>10. Line!ClientModule = "api" => Line!Imported \subseteq Line!ToSet(Line!Entries)
    BY <2>1 DEF Line!Imported
  <2> QED
    BY <2>4, <2>9, <2>10
<1> QED
  BY <1>1, <1>2

-----------------------------------------------------------------------------
(* Every URL is checked once and has its own result, and a release leaves the
   workspace as it was and publishes what is fit for it.                   *)
THEOREM ToolsAlwaysFinish == MCSpec => []ToolsFinish
<1> DEFINE Inv == /\ part = "links" => LinksInv
                  /\ part = "releases" => RelInv
<1>0. Links!LinkConstants /\ Out!ReleaseConstants
  BY SupportConstants
<1>1. MCInit => Inv
  <2> SUFFICES ASSUME MCInit
               PROVE  Inv
    OBVIOUS
  <2>1. Links!LinkInit /\ Out!ReleaseInit
    BY DEF MCInit
  <2> QED
    BY <1>0, <2>1, LinksSteps, ReleasesSteps
<1>2. Inv /\ [MCNext]_supportVars => Inv'
  <2> SUFFICES ASSUME Inv, [MCNext]_supportVars
               PROVE  Inv'
    OBVIOUS
  <2>1. part' = part
    BY OneTool
  <2>2. part = "links" => LinksInv'
    BY <1>0, OneTool, LinksSteps
  <2>3. part = "releases" => RelInv'
    BY <1>0, OneTool, ReleasesSteps
  <2> QED
    BY <2>1, <2>2, <2>3
<1>3. Inv => ToolsFinish
  BY LinksAreCheckedOnce, ReleasesAreSound DEF ToolsFinish
<1> QED
  BY <1>1, <1>2, <1>3, PTL DEF MCSpec

(* The linked command runs with the options of its line whatever the order
   they stand in and a line is refused only for what is wrong with it, the
   package that is made has what its manifest names, the check of the links
   reports a link exactly when it is broken, and a synchronisation brings all
   packages to the newest of their versions (readCliArgs and readCliInput,
   createGeneratedPackageManifest, link-check.ts, sync-root-version.mjs).  *)
THEOREM ToolsDoAllTheirWork == MCSpec => []ToolsDoTheirWork
<1> DEFINE Inv == /\ part = "links" => LinksInv /\ ReadInv
                  /\ part = "releases" => RelInv /\ SyncInv
                  /\ part = "line" => LineInv
<1>0. Links!LinkConstants /\ Out!ReleaseConstants /\ Line!LineConstants
  BY SupportConstants
<1>1. MCInit => Inv
  <2> SUFFICES ASSUME MCInit
               PROVE  Inv
    OBVIOUS
  <2>1. Links!LinkInit /\ Out!ReleaseInit /\ Line!LineInit
    BY DEF MCInit
  <2>2. tool # "sync"
    BY <2>1 DEF Out!ReleaseInit
  <2>3. SyncInv
    BY <2>2 DEF SyncInv
  <2> QED
    BY <1>0, <2>1, <2>3, LinksSteps, ReadStart, ReleasesSteps, LineStarts
<1>2. Inv /\ [MCNext]_supportVars => Inv'
  <2> SUFFICES ASSUME Inv, [MCNext]_supportVars
               PROVE  Inv'
    OBVIOUS
  <2>1. part' = part
    BY OneTool
  <2>2. ASSUME part = "links"
        PROVE  LinksInv' /\ ReadInv'
    BY <1>0, <2>2, OneTool, LinksSteps, ReadNext
  <2>3. ASSUME part = "releases"
        PROVE  RelInv' /\ SyncInv'
    BY <1>0, <2>3, OneTool, ReleasesSteps, SyncNext
  <2>4. ASSUME part = "line"
        PROVE  LineInv'
    BY <1>0, <2>4, OneTool, LineKeeps, LineStays
  <2> QED
    BY <2>1, <2>2, <2>3, <2>4
<1>3. Inv => ToolsDoTheirWork
  BY <1>0, AllIsReported, SyncBringsTogether, LineIsUnderstood DEF ToolsDoTheirWork
<1> QED
  BY <1>1, <1>2, <1>3, PTL DEF MCSpec
=============================================================================
