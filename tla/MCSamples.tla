------------------------------ MODULE MCSamples ------------------------------
(***************************************************************************)
(* What the parts of MCSupport work on, and three more parts, which are    *)
(* recursive functions of what they are given: the schemas, a contract     *)
(* with the client that is generated from it, and the serialisation of     *)
(* values.                                                                 *)
(***************************************************************************)
EXTENDS MCSupport

-----------------------------------------------------------------------------
(* The schemas, values and contracts of the instances of Schema and Client,
   and the objects of the one of Serialization.                            *)

Capitals == ("user" :> "User") @@ ("profile" :> "Profile") @@ ("name" :> "Name") @@ ("get" :> "Get")
            @@ ("send" :> "Send") @@ ("string" :> "String") @@ ("number" :> "Number") @@ ("date" :> "Date")
            @@ ("input" :> "Input") @@ ("depends" :> "Depends") @@ ("greeting" :> "Greeting")
            @@ ("text" :> "Text") @@ ("kind" :> "Kind") @@ ("list" :> "List") @@ ("id" :> "Id")
            @@ ("on" :> "On") @@ ("avatar" :> "Avatar")

(* Keys *)
Kind     == <<"kind">>
Text     == <<"text">>
Name     == <<"name">>
Get      == <<"get">>
ToSend   == <<"send">>
Greeting == <<"greeting">>

(* Values *)
TextOf(content) == [kind |-> "string", content |-> content]
TextA   == TextOf("a")
TextB   == TextOf("b")
One     == [kind |-> "number", content |-> "1"]
NaN     == [kind |-> "number", content |-> "invalid"]
Day     == [kind |-> "date", content |-> "day"]
Absent  == [kind |-> "undefined"]
NullVal == [kind |-> "null"]
Seq1(items) == [kind |-> "array", items |-> items]
R(fields)   == [kind |-> "record", fields |-> fields]

UserAB == R((Kind :> TextA) @@ (Name :> TextB))

SampleValues ==
    { TextA, TextB, One, NaN, Day, Absent, NullVal,
      Seq1(<<>>), Seq1(<<TextA>>), Seq1(<<TextA, TextB>>), Seq1(<<One, TextA, TextB>>), Seq1(<<TextA, One>>),
      Seq1(<<UserAB, R(Kind :> TextA)>>),
      R(<<>>), R(Kind :> TextA), UserAB, R((Kind :> TextB) @@ (Name :> TextA)), R((Kind :> TextA) @@ (Name :> One)),
      R((Kind :> TextB) @@ (Text :> One)), R(Text :> One), R((Name :> TextA) @@ (Text :> TextA)),
      R(Name :> NullVal), R((Name :> R(Kind :> TextA)) @@ (Text :> TextA)),
      R(Name :> R((Kind :> TextA) @@ (Text :> TextB))), R((Name :> R(<<>>)) @@ (Kind :> TextA) @@ (Text :> One)) }

ApiValues ==
    { TextA, One, R(Text :> One), UserAB, R((Name :> UserAB) @@ (Text :> One)), Seq1(<<UserAB>>), Seq1(<<TextA, One>>),
      R((Kind :> TextA) @@ (Name :> TextB) @@ (Text :> One)), Seq1(<<One, UserAB>>),
      R((Kind :> TextA) @@ (Text :> UserAB)), R((Kind :> TextA) @@ (Text :> UserAB) @@ (Name :> TextB)) }

-----------------------------------------------------------------------------
(* Schemas *)
Primitive(type)        == [t |-> "primitive", type |-> type, name |-> <<type>>, parts |-> <<>>]
Lit(v)                 == [t |-> "literal", only |-> v, name |-> <<"kind", v.content>>, parts |-> <<>>]
Enum(values)           == [t |-> "enum", values |-> values, name |-> <<"kind">>, parts |-> <<>>]
Obj(name, keys, parts) == [t |-> "object", name |-> name, keys |-> keys, parts |-> parts]
Arr(name, s)           == [t |-> "array", name |-> name, parts |-> <<s>>]
Tup(name, parts)       == [t |-> "tuple", name |-> name, parts |-> parts]
AnyOf(parts, select)   == [t |-> "or", name |-> <<>>, parts |-> parts, select |-> select]
Both(l, r)             == [t |-> "and", name |-> <<>>, parts |-> <<l, r>>]
Wrap(t, s)             == [t |-> t, parts |-> <<s>>]
Checked(t, s, bad)     == [t |-> t, parts |-> <<s>>, rejects |-> bad, code |-> "custom"]
Hooked(t, s, with)     == [t |-> t, parts |-> <<s>>, hook |-> with]
Shape(keys, parts)     == [t |-> "shape", name |-> <<>>, keys |-> keys, parts |-> parts]
NoSchema               == [t |-> "none"]

Str     == Primitive("string")
Num     == Primitive("number")
OptNum  == Wrap("optional", Num)
OptStr  == Wrap("optional", Str)
Short   == Checked("chain", Str, {TextB})
KindA   == Obj(<<"User">>, <<Kind, Name>>, <<Lit(TextA), Str>>)
KindB   == Obj(<<"Message">>, <<Kind, Text>>, <<Lit(TextB), OptNum>>)
Nested2 == Obj(<<"Profile">>, <<Name, Text>>, <<Wrap("nullable", Obj(<<"Name">>, <<Kind>>, <<Str>>)), OptStr>>)
Issues2 == R(<<"issues">> :> Seq1(<<[code |-> "hook", at |-> 0]>>))

SampleSchemas ==
    { Str, Primitive("date"), Short, Checked("refine", Short, {TextA}), Enum({TextA, One}),
      KindA, KindB, Nested2,
      Arr(<<"list">>, Short), Arr(<<"list">>, KindA), Tup(<<"list">>, <<Str, OptNum>>),
      AnyOf(<<KindA, KindB>>, <<>>), AnyOf(<<Str, Num>>, <<>>),
      AnyOf(<<Obj(<<"User">>, <<Text>>, <<OptNum>>), Obj(<<"Message">>, <<Name>>, <<Str>>)>>, <<>>),
      AnyOf(<<Str, Num>>, ("string" :> 1) @@ ("number" :> 0) @@ ("null" :> 3)),
      AnyOf(<<Str, Num>>, "string" :> 2),
      Both(Obj(<<"User">>, <<Kind>>, <<Str>>),
           Obj(<<"Message">>, <<Kind, Text>>, <<Wrap("describe", Lit(TextA)), OptNum>>)),
      Both(Nested2, Obj(<<"Message">>, <<Name>>, <<Obj(<<"Name">>, <<Text>>, <<OptStr>>)>>)),
      Both(Arr(<<"list">>, AnyOf(<<Str, Num>>, <<>>)), Arr(<<"list">>, Str)),
      Both(Primitive("date"), Primitive("date")),
      Hooked("before", Str, (One :> TextA) @@ (NullVal :> Issues2) @@ (Absent :> R(<<"input">> :> TextB))),
      Hooked("after", Arr(<<"list">>, Str),
             (Seq1(<<TextA>>) :> R(<<"value">> :> Seq1(<<TextA, TextB>>))) @@ (Seq1(<<TextA, TextB>>) :> Issues2)) }

-----------------------------------------------------------------------------
(* Contracts *)
Op(key, in, out, topics)    == [key |-> key, input |-> in, output |-> out, publish |-> topics]
FieldOp(key, on, in, out)   == [key |-> key, dependsOn |-> on, input |-> in, output |-> out]
Topic(key, payload, in, out) == [key |-> key, payload |-> payload, input |-> in, output |-> out]
Api(type, others, ops, fields, topics) ==
    [type |-> type, rest |-> others, operations |-> ops, fields |-> fields, subscriptions |-> topics]

User    == Obj(<<"User">>, <<Kind, Name>>, <<Str, Str>>)
UserId  == Obj(<<"User", "-", "id">>, <<Kind>>, <<Str>>)
UserId2 == Obj(<<"User", "Id">>, <<Text>>, <<Num>>)
Letter == Obj(<<"Message">>, <<Name, Text>>, <<User, OptNum>>)
Profile == Obj(<<"Profile">>, <<Text>>, <<Str>>)
WithId  == Both(UserId, Obj(<<"Message">>, <<Text>>, <<User>>))
Three   == Both(WithId, Obj(<<"Named">>, <<Name>>, <<Str>>))

(* An entity with two field operations, and a topic that is published. *)
Talk == Api(User, <<Op(Get, Str, Arr(<<"Users">>, User), <<>>)>>, <<Op(ToSend, User, Letter, <<<<"on">>>>)>>,
            <<FieldOp(Greeting, User, NoSchema, Str), FieldOp(<<"avatar">>, Shape(<<Kind>>, <<Str>>), Str, User)>>,
            <<Topic(<<"on">>, Letter, NoSchema, User)>>)
(* A field operation of the same name, of another entity. *)
Profiles == Api(Profile, <<>>, <<Op(<<"list">>, Num, AnyOf(<<Str, Num>>, <<>>), <<>>)>>,
                <<FieldOp(Greeting, Profile, NoSchema, Str)>>, <<Topic(Text, Str, UserId, Enum({TextA, TextB}))>>)
(* Entities in a pair and in both sides of an intersection. *)
Pairs == Api(User, <<Op(Get, Num, Tup(<<"Pair">>, <<Num, User>>), <<>>),
                     Op(ToSend, Obj(<<"Send", "Operation">>, <<Text>>, <<Num>>), WithId, <<>>),
                     Op(<<"list">>, Three, Wrap("optional", Three), <<>>)>>, <<>>,
             <<FieldOp(Greeting, User, Num, WithId)>>, <<>>)
(* Names that are the same as types; an operation given twice. *)
Alike == Api(UserId, <<Op(Get, UserId2, Tup(<<"list">>, <<Str, Num>>), <<>>)>>,
             <<Op(Get, UserId, Both(User, UserId2), <<>>)>>, <<FieldOp(Get, UserId, NoSchema, UserId2)>>, <<>>)
(* Two field operations with one method. *)
Twins1 == Api(User, <<>>, <<>>, <<FieldOp(<<"profile", "Name">>, User, NoSchema, Str)>>, <<>>)
Twins2 == Api(Obj(<<"User", "Profile">>, <<Text>>, <<Str>>), <<>>, <<>>,
              <<FieldOp(<<"Name">>, Obj(<<"User", "Profile">>, <<Text>>, <<Str>>), NoSchema, Str)>>, <<>>)

Single(api)    == [composed |-> FALSE, apis |-> <<api>>]
Composed(apis) == [composed |-> TRUE, apis |-> apis]

SampleContracts ==
    { Single(Talk), Composed(<<Talk, Profiles>>), Single(Pairs),
      Single(Alike), Composed(<<Alike, Profiles>>), Composed(<<Twins1, Twins2>>),
      Composed(<<Talk, Talk>>), Single([Talk EXCEPT !.subscriptions = <<>>]),
      Single([Twins1 EXCEPT !.type = Wrap("optional", User)]), Single([Twins1 EXCEPT !.type = NoSchema]) }

-----------------------------------------------------------------------------
(* What the objects of Serialization are made of, and what is put into them. *)
Marked(type) == ("__livonSerializedValue__" :> One) @@ ("__livonType__" :> TextOf(type))
Thing(kind, items, fields, pairs) == [kind |-> kind, items |-> items, fields |-> fields, pairs |-> pairs]
Other == [kind |-> "ref", object |-> "o2"]

SampleObjects ==
    {Thing("array", items, <<>>, <<>>) : items \in {<<>>, <<Other, Other>>}}
    \cup {Thing("set", items, <<>>, <<>>) : items \in {<<One, Day>>, <<Day, One>>}}
    \cup {Thing("map", <<>>, <<>>, pairs) : pairs \in {<<>>, <<<<One, Day>>, <<Day, One>>>>, <<<<Day, One>>, <<One, Day>>>>}}
    \cup {Thing("record", <<>>, fields, <<>>) : fields \in {<<>>, Marked("other"), Marked("date")}}
    \cup {Thing("instance", <<>>, <<>>, <<>>)}
SampleLeaves ==
    {TextOf("date"), One, Day, [kind |-> "number", content |-> "NaN"], [kind |-> "function", content |-> "f"]}
SampleFields == {"__livonSerializedValue__", "__livonType__", "value"}

-----------------------------------------------------------------------------
(* What CommandLine, LinkCheck and Releases are given: the
   arguments of a start, a repository with its links, and a workspace.     *)

(* Arguments: every order of what follows, up to three at a time. *)
Arg(flag, text) == [flag |-> flag, text |-> text]
Dashes(name) == Arg(name, "undefined")
Plain(word)  == Arg("", word)
ToApi   == <<Arg("--out", "gen/api.ts")>>
ToWs    == <<Dashes("--endpoint"), Plain("ws")>>
Pieces ==
    { ToApi, ToWs, <<Dashes("--out"), Plain("gen")>>, <<Dashes("--out")>>, <<Dashes("--port"), Plain("1")>>,
      <<Dashes("--port"), Plain("gen")>>, <<Dashes("--timeout")>>, <<Arg("--poll", "1")>>, <<Dashes("--poll")>>,
      <<Dashes("--esm")>>, <<Dashes("--cjs")>>, <<Dashes("--js")>>, <<Dashes("--no-event")>>,
      <<Dashes("--event"), Plain("x")>>, <<Dashes("--endpoint"), Plain("x")>>, <<Arg("--js", "x")>>, <<Dashes("--verbose")>>, <<Dashes("--header"), Plain("x")>>,
      <<Dashes("--payload"), Plain("x")>>, <<Plain("pnpm")>>, <<Dashes("--")>> }
SampleLines == {ToWs \o p \o ToApi \o q : p, q \in Pieces} \cup {p \o q \o r : p, q \in Pieces, r \in {ToApi, ToWs, <<>>}}
ModulesOf ==
    [w \in {"gen/api.ts", "gen", "ws", "1", "x", "pnpm"} |-> IF w = "gen/api.ts" THEN "api" ELSE "client"]

-----------------------------------------------------------------------------
(* Links of a README, a module and a script, a binary and a lost file. *)
Url(name, short) == [sort |-> "web", url |-> name, short |-> short]
Path(base, name, script, built) == [sort |-> "local", root |-> base, path |-> name, script |-> script, built |-> built]
Item(form, target) == [form |-> form, target |-> target]

ReadmeFile ==
    << Item("markdown_link", Url("u1", FALSE)), Item("markdown_link", Url("u2", TRUE)), Item("html_attr", Url("u1", FALSE)),
       Item("markdown_link", Path("here", "guide", FALSE, FALSE)), Item("markdown_reference", Path("docs", "intro", FALSE, FALSE)),
       Item("markdown_link", Path("bare", "none", FALSE, FALSE)), Item("markdown_link", [sort |-> "anchor"]),
       Item("markdown_link", [sort |-> "other"]), Item("raw_url", [sort |-> "host", short |-> FALSE]) >>
ModuleFile ==
    << Item("import_export", Path("here", "util", TRUE, FALSE)), Item("import_export", Path("bare", "react", FALSE, FALSE)),
       Item("dynamic_import", Path("root", "tool", TRUE, FALSE)), Item("raw_url", Url("u2", FALSE)),
       Item("html_attr", Path("here", "lost", FALSE, FALSE)), Item("require", Path("here", "lost", FALSE, FALSE)),
       Item("raw_url", Url("u3", FALSE)) >>
ScriptFile ==
    << Item("import_export", Path("here", "cli", TRUE, TRUE)), Item("require", Path("here", "cli", TRUE, FALSE)),
       Item("agent_load", Path("root", "intro", FALSE, FALSE)) >>
SampleTrees ==
    {[order |-> <<"readme", "module", "script", "logo", "gone">>,
      files |-> ("readme" :> [kind |-> "markdown", folder |-> "packages/a", items |-> ReadmeFile])
             @@ ("module" :> [kind |-> "typescript", folder |-> "packages/a", items |-> ModuleFile])
             @@ ("script" :> [kind |-> "javascript", folder |-> "bin", items |-> ScriptFile])
             @@ ("logo" :> [kind |-> "binary"]) @@ ("gone" :> [kind |-> "unreadable"]),
      paths |-> {<<"packages/a", "guide", "">>, <<"packages/a", "util", ".ts">>, <<"", "tool", ".js">>,
                 <<"website/docs", "intro", "">>}]}

-----------------------------------------------------------------------------
(* Versions in the order in which they were released, and a workspace. *)
Rc(n) == <<[numeric |-> FALSE, value |-> 1], [numeric |-> TRUE, value |-> n]>>
Version(minor, prerelease) == [major |-> 0, minor |-> minor, patch |-> 0, prerelease |-> prerelease]
Releases27and28 == <<Version(27, Rc(6)), Version(27, <<>>), Version(28, Rc(3)), Version(28, Rc(10)), Version(28, <<>>)>>
FirstRelease == Releases27and28[1]
NextReleases == {Releases27and28[5]}

Manifest(version, private, ranges, exports, packs) ==
    [version |-> version, private |-> private, ranges |-> ranges, exports |-> exports,
     dev |-> TRUE, described |-> TRUE, packs |-> packs]
OfWorkspace(spec) == [spec |-> spec, workspace |-> TRUE, pinned |-> <<>>]
Outside(spec)     == [spec |-> spec, workspace |-> FALSE, pinned |-> <<>>]
Entry == ("." :> {"development", "import"}) @@ ("./x" :> {"development"})
Complete == {"README", "LICENSE", "NOTICES", "dist"}
Workspace(packs) ==
    ("sync" :> Manifest(Releases27and28[1], FALSE, ("runtime" :> OfWorkspace("^")) @@ ("zod" :> Outside("1.0.0")), Entry, Complete))
    @@ ("runtime" :> Manifest(Releases27and28[3], FALSE, <<>>, Entry, packs))
    @@ ("app" :> Manifest(Releases27and28[2], TRUE, "sync" :> OfWorkspace("*"), <<>>, {}))
SampleWorkspaces == {Workspace(Complete), Workspace(Complete \cup {"src"})}

-----------------------------------------------------------------------------
(* What the parts of MCSupport are given that is not in the configuration *)

AllParts == {"storage", "index", "queue", "plans", "caches", "rooms", "wire", "links", "releases",
             "schemas", "contract", "saved", "line"}
SampleTopics  == ("say" :> <<"said">>) @@ ("get" :> <<>>)
SampleEndings == {"", ".md", ".ts", "/index.ts", "/README.md"}

-----------------------------------------------------------------------------
(* The parts *)

CONSTANTS MaxParses, MaxCalls, MaxPuts

VARIABLES
    schema, value, issues, parses, settled,
    contract, stage, server, ast, client, made, call, lastRun, answer,
    objects, puts

C      == INSTANCE Client WITH Schemas <- SampleSchemas, Inputs <- SampleValues, Upper <- Capitals,
                               Contracts <- SampleContracts, Values <- ApiValues, ran <- lastRun
Saved  == INSTANCE Serialization WITH Objects <- {"o1", "o2"}, Made <- SampleObjects, Leaves <- SampleLeaves,
                                      Fields <- SampleFields, MapKeys <- {Day, Other}

ASSUME SamplesConstants == C!SchemaConstants /\ C!ClientConstants /\ Saved!SavedConstants

(* compareVersions orders versions as they were released. *)
ASSUME NewerIsReleasedLater ==
    \A i, j \in DOMAIN Releases27and28 : Out!Newer(Releases27and28[i], Releases27and28[j]) <=> i > j

parseVars  == <<schema, value, issues, parses, settled>>
clientVars == <<contract, stage, server, ast, client, made, call, lastRun, answer>>
savedVars  == <<objects, puts>>
sampleVars == <<parseVars, clientVars, savedVars>>

SamplesInit ==
    /\ MCInit
    /\ C!SchemaInit /\ (part # "schemas" => schema = Str /\ value = One)
    /\ C!ClientInit /\ (part # "contract" => contract = Single(Talk))
    /\ Saved!SavedInit /\ (part # "saved" => objects = [o \in {"o1", "o2"} |-> Thing("instance", <<>>, <<>>, <<>>)])

SampleNext ==
    \/ part = "schemas" /\ C!SchemaNext /\ UNCHANGED <<clientVars, savedVars>>
    \/ part = "contract" /\ C!ClientNext /\ UNCHANGED <<parseVars, savedVars>>
    \/ part = "saved" /\ Saved!SavedNext /\ UNCHANGED <<parseVars, clientVars>>

SamplesNext ==
    \/ MCNext /\ UNCHANGED sampleVars
    \/ SampleNext /\ UNCHANGED supportVars

SamplesSpec == SamplesInit /\ [][SamplesNext]_<<supportVars, sampleVars>> /\ StorageFairness

-----------------------------------------------------------------------------
(* What parsing returns is of the schema's type and has nothing more, nothing
   of the type is refused, the right item is blamed, and what has been parsed
   is left as it is by the next parse; what a value is serialised to gives
   the value back, and tells it from every other (Schema, Serialization).  *)
ValuesAreKept ==
    /\ part = "schemas" => /\ C!SchemaTypeOK /\ C!ResultsConform /\ C!NothingOfItsTypeIsRefused
                           /\ C!ParsingSettles /\ C!FirstBadItem
    /\ part = "saved" => Saved!CopiesAreWhole /\ Saved!StableKeysAgree

(* A call of the client runs the operation it is meant for, the entities of its
   answer have their field operations, and the generated types say what the
   schemas say (Client).                                                   *)
ClientsFollowTheApi ==
    part = "contract" => /\ C!ClientTypeOK /\ C!CallsReachTheirOperation
                         /\ C!EntitiesHaveTheirFields /\ C!TypesFollowTheContract
==============================================================================
