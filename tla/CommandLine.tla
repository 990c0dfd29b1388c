----------------------------- MODULE CommandLine -----------------------------
(***************************************************************************)
(* The arguments of the command `livon` and the package it makes of the    *)
(* generated client (packages/cli/src/index.ts): readCliArgs reads one     *)
(* argument after the other, readCliInput completes and checks the         *)
(* options; the package exports what the build makes of the formats.       *)
(*                                                                         *)
(* An argument is a flag, alone or with a value after "=", or a word, and  *)
(* no value is empty.  A flag that takes a value is known by what its text *)
(* begins with, so that --outdir stands for --out.  Of the method, which   *)
(* nothing uses, and the headers, which are passed on, only that they take *)
(* a value is kept.                                                        *)
(***************************************************************************)
EXTENDS Naturals, Sequences, FiniteSets, SequencesExt, FiniteSetsExt

CONSTANTS
    Lines,         \* the arguments of a start
    Positive,      \* words that are positive numbers, the only ones that are JSON too
    Sockets,       \* words that are URLs of ws: or wss:
    ModuleOf       \* by value of --out: the module it names; "client" for a directory

VARIABLES
    line,          \* process.argv
    rest,          \* what has not been read yet
    given,         \* the options
    linked,        \* the command to start
    verdict        \* "reading", "run" or "refused"

lineVars == <<line, rest, given, linked, verdict>>

Unset == "undefined"
Blank == ""

(* A word is not the mark for no value; "local" stands for the endpoint that
   is taken when only a port is given.                                     *)
LineConstants ==
    /\ "local" \in Sockets
    /\ \A l \in Lines :
        /\ l \in Seq({l[i] : i \in DOMAIN l})
        /\ \A i \in DOMAIN l : l[i] = [flag |-> l[i].flag, text |-> l[i].text] /\ (l[i].flag = Blank => l[i].text # Unset)

Flag(name)          == [flag |-> name, text |-> Unset]
Inline(name, value) == [flag |-> name, text |-> value]
Word(value)         == [flag |-> Blank, text |-> value]
Delimiter           == Flag("--")
IsWord(arg)         == arg.flag = Blank

Valued  == {"--endpoint", "--out", "--poll", "--timeout", "--port", "--event", "--payload", "--method", "--header"}
Switches == {"--no-event", "--js", "--esm", "--cjs"}
Checked == {"--timeout", "--port", "--payload"}    \* positive numbers, and JSON

(* The name an argument is known by: a switch has no value, and is no switch
   when it is given one.                                                   *)
KnownAs(arg) == IF arg.flag \in Switches /\ arg.text # Unset THEN Unset ELSE arg.flag

BuildFormats == {"esm", "cjs"}
DefaultOptions ==
    [endpoint |-> Blank, out |-> Blank, poll |-> Unset, timeout |-> Unset, port |-> Unset, event |-> "$explain",
     payload |-> Unset, dts |-> TRUE, formats |-> BuildFormats, custom |-> FALSE]

LineInit ==
    /\ line \in Lines /\ rest = line
    /\ given = DefaultOptions /\ linked = <<>> /\ verdict = "reading"

-----------------------------------------------------------------------------
(* Mutant: whatever comes next is the value. *)
OptionValueGreedy(args) ==
    CASE Head(args).text # Unset -> [value |-> Head(args).text, rest |-> Tail(args)]
      [] Head(args).text = Unset /\ Len(args) > 1 -> [value |-> args[2].text, rest |-> Tail(Tail(args))]
      [] OTHER -> [value |-> Unset, rest |-> Tail(args)]

(* readOptionValue: the value after "=", or the next argument unless that is
   a flag.                                                                 *)
OptionValue(args) ==
    CASE Head(args).text # Unset -> [value |-> Head(args).text, rest |-> Tail(args)]
      [] Head(args).text = Unset /\ Len(args) > 1 /\ IsWord(args[2]) -> [value |-> args[2].text, rest |-> Tail(Tail(args))]
      [] OTHER -> [value |-> Unset, rest |-> Tail(args)]

(* The first format given takes the place of the default, others join it. *)
AddBuildFormat(options, format) ==
    [options EXCEPT !.formats = IF options.custom THEN @ \cup {format} ELSE {format}, !.custom = TRUE]

Assign(flag, value) ==
    CASE flag = "--endpoint" -> [given EXCEPT !.endpoint = IF value = Unset THEN Blank ELSE value]
      [] flag = "--out"      -> [given EXCEPT !.out = IF value = Unset THEN Blank ELSE value]
      [] flag = "--poll"     -> [given EXCEPT !.poll = value]
      [] flag = "--event"    -> [given EXCEPT !.event = value]
      [] flag = "--timeout"  -> IF value = Unset THEN given ELSE [given EXCEPT !.timeout = value]
      [] flag = "--port"     -> IF value = Unset THEN given ELSE [given EXCEPT !.port = value]
      [] flag = "--payload"  -> IF value = Unset THEN given ELSE [given EXCEPT !.payload = value]
      [] OTHER               -> given

ReadValued ==
    LET arg == Head(rest)
        read == OptionValue(rest)
    IN /\ arg.flag \in Valued
       /\ rest' = read.rest
       /\ IF arg.flag \in Checked /\ read.value # Unset /\ read.value \notin Positive
          THEN verdict' = "refused" /\ UNCHANGED given
          ELSE given' = Assign(arg.flag, read.value) /\ UNCHANGED verdict
       /\ UNCHANGED <<line, linked>>

ReadSwitch ==
    /\ KnownAs(Head(rest)) \in Switches
    /\ rest' = Tail(rest)
    /\ given' = CASE Head(rest).flag = "--no-event" -> [given EXCEPT !.event = Unset]
                  [] Head(rest).flag = "--js"       -> [given EXCEPT !.dts = FALSE]
                  [] Head(rest).flag = "--esm"      -> AddBuildFormat(given, "esm")
                  [] Head(rest).flag = "--cjs"      -> AddBuildFormat(given, "cjs")
    /\ UNCHANGED <<line, linked, verdict>>

(* A flag that is not known, or a switch with a value, is passed over, and a
   word after it is no value of its own.                                   *)
ReadUnknown ==
    /\ ~IsWord(Head(rest)) /\ Head(rest) # Delimiter
    /\ KnownAs(Head(rest)) \notin Valued \cup Switches
    /\ rest' = Tail(rest)
    /\ UNCHANGED <<line, given, linked, verdict>>

(* A word that is no value, or what comes after the delimiter, is the command. *)
ReadCommand ==
    /\ IsWord(Head(rest)) \/ Head(rest) = Delimiter
    /\ linked' = IF Head(rest) = Delimiter THEN Tail(rest) ELSE rest
    /\ rest' = <<>>
    /\ UNCHANGED <<line, given, verdict>>

(* readCliInput: a port alone stands for an endpoint; it is put into the one
   that is given, which has to be the URL of a socket for that
   (applyPortToEndpoint), and is kept apart here.                          *)
Complete(options) ==
    [options EXCEPT !.endpoint = IF @ = Blank /\ options.port # Unset THEN "local" ELSE @]
Acceptable(options) ==
    /\ options.endpoint # Blank /\ (options.port # Unset => options.endpoint \in Sockets)
    /\ options.out # Blank /\ options.event # Unset

Finish ==
    /\ verdict = "reading" /\ rest = <<>>
    /\ given' = Complete(given)
    /\ verdict' = IF Acceptable(given') THEN "run" ELSE "refused"
    /\ UNCHANGED <<line, rest, linked>>

LineNext ==
    \/ verdict = "reading" /\ rest # <<>> /\ (ReadValued \/ ReadSwitch \/ ReadUnknown \/ ReadCommand)
    \/ Finish

-----------------------------------------------------------------------------
(* The generated package *)

(* resolveOutputPaths, writeClientFiles: index.ts takes the client from the
   module the generator calls api, whatever --out names.                   *)
ClientModule == ModuleOf[given.out]
Imported == {"ast", "api"}

(* createBuildEntries *)
Entries == <<"index", ClientModule, "ast">>
EntriesAreUnique == Cardinality(ToSet(Entries)) = Len(Entries)

(* buildGeneratedClient: what rslib puts into dist for the formats, by entry
   and extension.                                                          *)
BuiltFiles ==
    ToSet(Entries) \X ((IF "esm" \in given.formats THEN {".js"} ELSE {})
                       \cup (IF "cjs" \in given.formats THEN {".cjs"} ELSE {})
                       \cup (IF given.dts THEN {".d.ts"} ELSE {}))

(* createGeneratedPackageManifest *)
ManifestOutputFile(format) == <<"index", IF format = "esm" THEN ".js" ELSE ".cjs">>
Manifest ==
    [import  |-> {ManifestOutputFile(f) : f \in given.formats \cap {"esm"}},
     require |-> {ManifestOutputFile(f) : f \in given.formats \cap {"cjs"}},
     types   |-> IF given.dts THEN {<<"index", ".d.ts">>} ELSE {},
     default |-> {ManifestOutputFile(IF "esm" \in given.formats THEN "esm" ELSE "cjs")}]

-----------------------------------------------------------------------------
(* What a line of arguments says, without reading it in order: the flags
   before the command, each with its value.                                *)
TakenAsValue(i) ==
    i > 1 /\ IsWord(line[i]) /\ line[i - 1].flag \in Valued /\ line[i - 1].text = Unset
Starts(i) == line[i] = Delimiter \/ (IsWord(line[i]) /\ ~TakenAsValue(i))
CommandAt == Min({i \in DOMAIN line : Starts(i)} \cup {Len(line) + 1})
At(flags) == {i \in 1..CommandAt - 1 : KnownAs(line[i]) \in flags}
ValueAt(i) ==
    CASE line[i].text # Unset -> line[i].text
      [] line[i].text = Unset /\ i < Len(line) /\ TakenAsValue(i + 1) -> line[i + 1].text
      [] OTHER -> Unset
HasPort == \E i \in At({"--port"}) : ValueAt(i) # Unset
LastOf(flag, default) == IF At({flag}) = {} THEN default ELSE ValueAt(Max(At({flag})))

(* When the command runs, its options are those of the line, in whatever
   order they stand; the linked command is what is left, flags of its own
   included; a port comes with an endpoint it can be put into; and a line is
   refused only for a value that is no number or no JSON, for an endpoint that
   takes no port, or for an option that is missing.                        *)
LinesAreUnderstood ==
    /\ verdict = "run" =>
        /\ given.out = LastOf("--out", Blank) /\ given.poll = LastOf("--poll", Unset)
        /\ LastOf("--endpoint", Blank) \notin {Blank, Unset} => given.endpoint = LastOf("--endpoint", Blank)
        /\ HasPort => LastOf("--endpoint", Blank) \in Sockets \cup {Blank, Unset}
        /\ given.dts = (At({"--js"}) = {})
        /\ given.formats = IF At({"--esm", "--cjs"}) = {} THEN BuildFormats
                           ELSE {f \in BuildFormats : At({IF f = "esm" THEN "--esm" ELSE "--cjs"}) # {}}
        /\ linked = SubSeq(line, IF CommandAt <= Len(line) /\ line[CommandAt] = Delimiter THEN CommandAt + 1 ELSE CommandAt, Len(line))
    /\ verdict = "refused" =>
        \/ \E i \in At(Checked) : ValueAt(i) # Unset /\ ValueAt(i) \notin Positive
        \/ LastOf("--endpoint", Blank) \in {Blank, Unset} /\ ~HasPort
        \/ LastOf("--endpoint", Blank) \notin Sockets \cup {Blank, Unset} /\ HasPort
        \/ LastOf("--out", Blank) \in {Blank, Unset}
        \/ At({"--no-event", "--event"}) # {}

(* What the manifest names is built, for every choice of formats, and when
   --out names a module api, so is what the index takes from others.       *)
PackageResolves ==
    verdict = "run" /\ EntriesAreUnique =>
        /\ UNION {Manifest[k] : k \in DOMAIN Manifest} \subseteq BuiltFiles
        /\ ClientModule = "api" => Imported \subseteq ToSet(Entries)
=============================================================================
