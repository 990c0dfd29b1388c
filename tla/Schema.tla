-------------------------------- MODULE Schema --------------------------------
(***************************************************************************)
(* The schemas of packages/schema: what parsing a value yields, and the    *)
(* node that describes a schema in the syntax tree the client generator    *)
(* reads.  A schema is a record [t, parts, ...]: t is its form, parts are  *)
(* the schemas it is built from.  A hook or predicate of the application is *)
(* a finite function on values.                                            *)
(*                                                                         *)
(* A value is parsed again wherever it passes: a result is parsed by the   *)
(* operation's output schema (operation.ts), by the payload schema of the   *)
(* subscription it is published to and by that subscription's output schema *)
(* (schemaModule.ts).  Parse is one such parse of the value that the        *)
(* previous one has returned.                                              *)
(*                                                                         *)
(* And the contract that is made of schemas (api.ts, schemaModule.ts).     *)
(***************************************************************************)
EXTENDS Integers, Sequences, FiniteSets, TLC, SequencesExt

CONSTANTS
    Schemas,    \* the schemas of the instance
    Inputs,     \* the values the first parse is given
    MaxParses   \* bound: how often a value is parsed

SchemaConstants == MaxParses \in Nat \ {0}

VARIABLES
    schema,     \* the schema
    value,      \* the value as the last parse returned it
    issues,     \* the issues of the last parse; empty when it succeeded
    parses,     \* how many parses have been made
    settled     \* history: a parse gave its input back

schemaVars == <<schema, value, issues, parses, settled>>

-----------------------------------------------------------------------------
(* Values *)

Leaf(kind, content) == [kind |-> kind, content |-> content]
Undefined           == [kind |-> "undefined"]
Null                == [kind |-> "null"]
List(items)         == [kind |-> "array", items |-> items]
Rec(fields)         == [kind |-> "record", fields |-> fields]

(* Dates and byte arrays are objects, too. *)
IsRecord(v) == v.kind \in {"record", "date", "binary"}
IsList(v)   == v.kind = "array"

(* Reading a property or an item that is not there gives undefined. *)
Field(v, key) == IF v.kind = "record" /\ key \in DOMAIN v.fields THEN v.fields[key] ELSE Undefined
Item(v, i)    == IF i \in DOMAIN v.items THEN v.items[i] ELSE Undefined

FieldsOf(v) == IF v.kind = "record" THEN v.fields ELSE <<>>

-----------------------------------------------------------------------------
(* Results *)

Good(v)        == [ok |-> TRUE, value |-> v]
Bad(list)      == [ok |-> FALSE, issues |-> list]
Issue(code)    == [code |-> code, at |-> 0]

(* What an exception becomes: a validation error of a nested schema has a
   message and neither a code nor a place.                                 *)
Nested == Bad(<<Issue("")>>)

Guarded(accepted, v, code) == IF accepted THEN Good(v) ELSE Bad(<<Issue(code)>>)

(* The guards of the primitive schemas; a NaN is no number and an invalid
   date no date.                                                           *)
IsOf(type, v) == v.kind = type /\ v.content # "invalid"

(* A hook's answer: its issues, and the value in the field it may be wrapped
   in; any other answer is the value itself.                               *)
HookIssues(answer) == IF Field(answer, <<"issues">>).kind = "array" THEN Field(answer, <<"issues">>).items ELSE <<>>
Unwrapped(answer, key) ==
    IF answer.kind = "record" /\ key \in DOMAIN answer.fields THEN answer.fields[key] ELSE answer

Hook(s, v) == IF v \in DOMAIN s.hook THEN s.hook[v] ELSE v

(* Two records are merged key by key; whatever is not a pair of objects is
   what the left schema says.  A date has no keys.                         *)
Merged(left, right) ==
    IF IsRecord(left) /\ IsRecord(right) THEN Rec(FieldsOf(right) @@ FieldsOf(left)) ELSE left

FirstOf(S) == CHOOSE i \in S : \A j \in S : i <= j

PrimitiveResult(s, v) == Guarded(IsOf(s.type, v), v, s.type)
LiteralResult(s, v)   == Guarded(v = s.only, v, "literal.value")
EnumResult(s, v)      == Guarded(v \in s.values, v, "enum.value")

RECURSIVE Validate(_, _)

(* An object schema reads its own keys and drops all others. *)
ObjectResult(s, v) ==
    LET part(key) == s.parts[CHOOSE i \in DOMAIN s.keys : s.keys[i] = key]
        keys      == {s.keys[i] : i \in DOMAIN s.keys}
        results   == [key \in keys |-> Validate(part(key), Field(v, key))]
    IN IF ~IsRecord(v) THEN Bad(<<Issue("object.type")>>)
       ELSE IF \A key \in keys : results[key].ok
            THEN Good(Rec([key \in keys |-> results[key].value]))
            ELSE Nested

(* The first item that does not parse is the one reported. *)
ArrayResult(s, v) ==
    LET results == [i \in DOMAIN v.items |-> Validate(s.parts[1], v.items[i])]
        failed  == {i \in DOMAIN results : ~results[i].ok}
    IN IF ~IsList(v) THEN Bad(<<Issue("array.type")>>)
       ELSE IF failed = {} THEN Good(List([i \in DOMAIN results |-> results[i].value]))
       ELSE Bad(<<[code |-> "array.item", at |-> FirstOf(failed)]>>)

(* A tuple takes as many items as it has schemas. *)
TupleResult(s, v) ==
    LET results == [i \in DOMAIN s.parts |-> Validate(s.parts[i], Item(v, i))]
    IN IF ~IsList(v) THEN Bad(<<Issue("tuple.type")>>)
       ELSE IF \A i \in DOMAIN results : results[i].ok
            THEN Good(List([i \in DOMAIN results |-> results[i].value]))
            ELSE Nested

(* Mutant: an option that takes the value hands it on as it came. *)
UnionAsItCame(s, v) ==
    IF \E i \in DOMAIN s.parts : Validate(s.parts[i], v).ok THEN Good(v) ELSE Bad(<<Issue("union.match")>>)

(* The option the discriminator selects, or else the first that parses. *)
UnionResult(s, v) ==
    LET selected == IF v.kind \in DOMAIN s.select THEN s.select[v.kind] ELSE 0
        matching == {i \in DOMAIN s.parts : Validate(s.parts[i], v).ok}
    IN CASE selected > Len(s.parts) -> Bad(<<Issue("or.discriminator")>>)
         [] selected \in DOMAIN s.parts ->
              LET result == Validate(s.parts[selected], v) IN IF result.ok THEN result ELSE Nested
         [] OTHER -> IF matching = {} THEN Bad(<<Issue("union.match")>>)
                     ELSE Validate(s.parts[FirstOf(matching)], v)

(* Both sides see the value as it came, and the issues of both are told. *)
BothResult(s, v) ==
    LET left  == Validate(s.parts[1], v)
        right == Validate(s.parts[2], v)
    IN IF left.ok /\ right.ok THEN Good(Merged(left.value, right.value))
       ELSE Bad((IF left.ok THEN <<>> ELSE left.issues) \o (IF right.ok THEN <<>> ELSE right.issues))

Before(s, v) ==
    LET answer == Hook(s, v)
    IN IF HookIssues(answer) # <<>> THEN Bad(HookIssues(answer))
       ELSE Validate(s.parts[1], Unwrapped(answer, <<"input">>))

After(s, v) ==
    LET result == Validate(s.parts[1], v)
        answer == Hook(s, result.value)
    IN IF ~result.ok THEN result
       ELSE IF HookIssues(answer) # <<>> THEN Bad(HookIssues(answer))
       ELSE Good(Unwrapped(answer, <<"value">>))

Refine(s, v) ==
    LET result == Validate(s.parts[1], v)
    IN IF ~result.ok THEN result ELSE Guarded(result.value \notin s.rejects, result.value, s.code)

(* A method of the chain (min, max, email, literal, ...) parses with the
   schema it was called on and then looks at the result.                   *)
Chain(s, v) ==
    LET result == Validate(s.parts[1], v)
    IN IF ~result.ok THEN Nested ELSE Guarded(result.value \notin s.rejects, result.value, s.code)

Validate(s, v) ==
    CASE s.t = "primitive" -> PrimitiveResult(s, v)
      [] s.t = "literal"   -> LiteralResult(s, v)
      [] s.t = "enum"      -> EnumResult(s, v)
      [] s.t = "object"    -> ObjectResult(s, v)
      [] s.t = "array"     -> ArrayResult(s, v)
      [] s.t = "tuple"     -> TupleResult(s, v)
      [] s.t = "or"        -> UnionResult(s, v)
      [] s.t = "and"       -> BothResult(s, v)
      [] s.t = "optional"  -> IF v = Undefined THEN Good(v) ELSE Validate(s.parts[1], v)
      [] s.t = "nullable"  -> IF v = Null THEN Good(v) ELSE Validate(s.parts[1], v)
      [] s.t = "before"    -> Before(s, v)
      [] s.t = "after"     -> After(s, v)
      [] s.t = "refine"    -> Refine(s, v)
      [] s.t = "chain"     -> Chain(s, v)
      [] s.t = "describe"  -> Validate(s.parts[1], v)

-----------------------------------------------------------------------------
SchemaInit ==
    /\ schema \in Schemas /\ value \in Inputs
    /\ issues = <<>> /\ parses = 0 /\ settled = FALSE

(* parse: the value, or an error with the issues. *)
Parse ==
    /\ parses < MaxParses /\ issues = <<>>
    /\ LET result == Validate(schema, value)
       IN IF result.ok
          THEN /\ value' = result.value /\ settled' = (result.value = value) /\ issues' = <<>>
          ELSE /\ issues' = result.issues /\ settled' = FALSE /\ UNCHANGED value
    /\ parses' = parses + 1 /\ UNCHANGED schema

SchemaNext == Parse

-----------------------------------------------------------------------------
(* What a schema means: the values of the type that is inferred from it.  A
   record may have more fields than its type names.                        *)
RECURSIVE Conforms(_, _)
Conforms(s, v) ==
    CASE s.t = "primitive" -> IsOf(s.type, v)
      [] s.t = "literal"   -> v = s.only
      [] s.t = "enum"      -> v \in s.values
      [] s.t = "object"    -> /\ IsRecord(v)
                              /\ \A i \in DOMAIN s.keys : Conforms(s.parts[i], Field(v, s.keys[i]))
      [] s.t = "array"     -> IsList(v) /\ \A i \in DOMAIN v.items : Conforms(s.parts[1], v.items[i])
      [] s.t = "tuple"     -> /\ IsList(v) /\ Len(v.items) = Len(s.parts)
                              /\ \A i \in DOMAIN s.parts : Conforms(s.parts[i], v.items[i])
      [] s.t = "or"        -> \E i \in DOMAIN s.parts : Conforms(s.parts[i], v)
      [] s.t = "and"       -> \A i \in DOMAIN s.parts : Conforms(s.parts[i], v)
      [] s.t = "optional"  -> v = Undefined \/ Conforms(s.parts[1], v)
      [] s.t = "nullable"  -> v = Null \/ Conforms(s.parts[1], v)
      [] s.t \in {"refine", "chain"} -> v \notin s.rejects /\ Conforms(s.parts[1], v)
      [] OTHER             -> Conforms(s.parts[1], v)

RECURSIVE Within(_)
Within(s) == {s} \cup UNION {Within(s.parts[i]) : i \in DOMAIN s.parts}

Declared(s) == {s.keys[i] : i \in DOMAIN s.keys}
PartOf(s, key) == s.parts[CHOOSE i \in DOMAIN s.keys : s.keys[i] = key]
Flat == {"primitive", "literal", "enum"}

(* Premise: the sides of an intersection are objects, and a field they share
   holds no object, because the fields of only one would be left.          *)
MergesWhole(s) ==
    s.t = "and" =>
        /\ \A i \in DOMAIN s.parts : s.parts[i].t = "object"
        /\ \A key \in Declared(s.parts[1]) \cap Declared(s.parts[2]) : PartOf(s.parts[1], key).t \in Flat

(* Premise: no value that one option of a union returns is of the type of an
   option before it.                                                       *)
ToldApart(s) ==
    s.t = "or" => /\ s.select = <<>>
                  /\ \A i, j \in DOMAIN s.parts : i < j =>
                       \/ /\ s.parts[i].t = "primitive" /\ s.parts[j].t = "primitive"
                          /\ s.parts[i].type # s.parts[j].type
                       \/ /\ s.parts[i].t = "object" /\ s.parts[j].t = "object"
                          /\ \E key \in Declared(s.parts[i]) \cap Declared(s.parts[j]) :
                               /\ PartOf(s.parts[i], key).t = "literal"
                               /\ PartOf(s.parts[j], key).t = "literal"
                               /\ PartOf(s.parts[i], key).only # PartOf(s.parts[j], key).only

Unhooked(s) == s.t \notin {"before", "after"}

(* The records of a value have no field the schema does not name. *)
RECURSIVE Bare(_, _)
Bare(s, v) ==
    CASE s.t \in Flat    -> TRUE
      [] s.t = "object"  -> /\ DOMAIN FieldsOf(v) \subseteq Declared(s)
                            /\ \A key \in Declared(s) : Bare(PartOf(s, key), Field(v, key))
      [] s.t = "array"   -> \A i \in DOMAIN v.items : Bare(s.parts[1], v.items[i])
      [] s.t = "tuple"   -> \A i \in DOMAIN s.parts : Bare(s.parts[i], v.items[i])
      [] s.t = "or"      -> \E i \in DOMAIN s.parts : Conforms(s.parts[i], v) /\ Bare(s.parts[i], v)
      [] s.t = "and"     -> /\ DOMAIN FieldsOf(v) \subseteq Declared(s.parts[1]) \cup Declared(s.parts[2])
                            /\ \A p \in {s.parts[1], s.parts[2]} : \A key \in Declared(p) :
                                  Bare(PartOf(p, key), Field(v, key))
      [] OTHER           -> v \in {Undefined, Null} \/ Bare(s.parts[1], v)

SchemaTypeOK ==
    /\ schema \in Schemas /\ parses \in 0..MaxParses /\ settled \in BOOLEAN
    /\ \A i \in DOMAIN issues : issues[i].at \in Nat

(* The premise of what follows: no hook rewrites the value, and no
   discriminator overrules the options.                                    *)
Plain(s) == Unhooked(s) /\ (s.t = "or" => s.select = <<>>)

(* What parse returns is of the schema's type, however the schema is built
   from unions, refinements and options, and it has nothing more: what a
   client adds to an object does not reach the operation (types.ts, Infer;
   object.ts:38-69).                                                       *)
ResultsConform ==
    parses > 0 /\ issues = <<>> /\ (\A s \in Within(schema) : MergesWhole(s)) =>
        /\ Conforms(schema, value)
        /\ (\A s \in Within(schema) : Unhooked(s)) => Bare(schema, value)

(* No value of the type is refused, whichever way the schema comes to it. *)
NothingOfItsTypeIsRefused ==
    issues # <<>> /\ (\A s \in Within(schema) : Plain(s)) => ~Conforms(schema, value)

(* A value that has been parsed can be parsed again, and then stays as it is:
   the server parses what an operation returns two or three times before it
   is sent (operation.ts:455, schemaModule.ts:344-356).                    *)
ParsingSettles ==
    parses > 1 /\ (\A s \in Within(schema) : MergesWhole(s) /\ ToldApart(s) /\ Plain(s)) =>
        issues = <<>> /\ settled

(* The issue of a list names its first item that is not of the item's type. *)
FirstBadItem ==
    (schema.t = "array" /\ IsList(value) /\ issues # <<>> /\ \A s \in Within(schema) : Plain(s)) =>
       LET at == issues[1].at
       IN /\ ~Conforms(schema.parts[1], value.items[at])
          /\ \A i \in 1..(at - 1) : Conforms(schema.parts[1], value.items[i])

-----------------------------------------------------------------------------
(* The contract between server and client: operations, field operations of
   an entity and subscriptions, declared with api() and put together with
   composeApi(); the syntax tree that describes them to the client; and
   which operation the schema module runs for an event.  A name is a sequence
   of words, a separator being a word of its own, so that names are put
   together, split and compared as the strings are.                        *)

CONSTANT Upper   \* the words that begin with a small letter, capitalised

Separators == {".", ":", "-", "$"}

(* An output, input or type that is not given. *)
NotGiven == [t |-> "none"]
Given(s) == IF s = NotGiven THEN <<>> ELSE <<s>>

-----------------------------------------------------------------------------
(* Names of schemas *)

CapWord(w)    == IF w \in DOMAIN Upper THEN Upper[w] ELSE w
Capitalize(n) == IF n = <<>> THEN n ELSE <<CapWord(Head(n))>> \o Tail(n)

(* Words after a separator are capitalised and the separators left out. *)
Joined(n) ==
    LET word(i) == IF i = 1 \/ n[i - 1] \in Separators THEN CapWord(n[i]) ELSE n[i]
    IN SelectSeq([i \in DOMAIN n |-> word(i)], LAMBDA w : w \notin Separators)

Segment(n) == IF Joined(n) = <<>> THEN <<"Schema">> ELSE Joined(n)

RECURSIVE NameOf(_)
NameOf(s) ==
    CASE s.t = "enum" -> <<"enum", ":">> \o s.name
      [] s.t = "or" /\ s.name = <<>> ->
           FlattenSeq([i \in DOMAIN s.parts |->
                          (IF i = 1 THEN <<>> ELSE <<"Or">>) \o Segment(NameOf(s.parts[i]))])
      [] s.t = "and" /\ s.name = <<>> -> NameOf(s.parts[1]) \o Capitalize(NameOf(s.parts[2]))
      [] s.t = "describe" -> NameOf(s.parts[1])
      [] s.t \in {"optional", "nullable", "refine", "before", "after", "chain"} ->
           NameOf(s.parts[1]) \o <<".", s.t>>
      [] OTHER -> s.name

-----------------------------------------------------------------------------
(* Nodes of the syntax tree *)

Ast(type, name, children) ==
    [type |-> type, name |-> name, children |-> children, values |-> {}, owner |-> <<>>, field |-> <<>>,
     response |-> <<>>, publish |-> <<>>]

(* optional, nullable, the hooks and the methods of the chain leave no trace
   in the node of the schema they are called on.  The node of an intersection
   has no name of its own: it is named after the schema it is asked for, and
   not at all on the left of another.                                      *)
RECURSIVE RawNode(_), Node(_)
Node(s) ==
    LET node == RawNode(s) IN IF node.name = <<>> THEN [node EXCEPT !.name = NameOf(s)] ELSE node

RawNode(s) ==
    LET parts == [i \in DOMAIN s.parts |-> Node(s.parts[i])]
    IN CASE s.t = "primitive" -> Ast(s.type, s.name, <<>>)
         [] s.t = "literal"   -> [Ast("literal", s.name, <<>>) EXCEPT !.values = {s.only}]
         [] s.t = "enum"      -> [Ast("enum", s.name, <<>>) EXCEPT !.values = s.values]
         [] s.t = "object"    -> Ast("object", s.name, [i \in DOMAIN s.keys |-> Ast("field", s.keys[i], <<parts[i]>>)])
         [] s.t = "or"        -> Ast("union", NameOf(s), parts)
         [] s.t = "and"       -> Ast("and", <<>>, <<RawNode(s.parts[1]), parts[2]>>)
         [] s.t \in {"array", "tuple"} -> Ast(s.t, s.name, parts)
         [] OTHER             -> RawNode(s.parts[1])

-----------------------------------------------------------------------------
(* An api is given as [type, rest, operations, fields, subscriptions]: the
   schema of its entity, operations among its own keys and under
   "operations", field operations, and subscriptions.                      *)

(* Field operations may be given a shape instead of a schema; every shape
   becomes an object of the same name.                                     *)
Normalized(s, name) == IF s.t = "shape" THEN [s EXCEPT !.t = "object", !.name = name] ELSE s

Operations(a) ==
    LET named(k) == \E i \in DOMAIN a.operations : a.operations[i].key = k
    IN a.operations \o SelectSeq(a.rest, LAMBDA op : ~named(op.key))

Fields(a) ==
    [i \in DOMAIN a.fields |->
        [a.fields[i] EXCEPT !.dependsOn = Normalized(@, <<"depends", "On">>),
                            !.input     = Normalized(@, <<"input">>)]]

KeysOf(list) == {list[i].key : i \in DOMAIN list}
Apart(list)  == Cardinality(KeysOf(list)) = Len(list)
Owner(a)     == IF a.type = NotGiven THEN <<>> ELSE NameOf(a.type)

(* api() throws unless field operations have an entity and every topic that
   is published has a subscription.                                        *)
Valid(a) ==
    /\ a.fields # <<>> => a.type # NotGiven
    /\ \A op \in ToSet(Operations(a)) : ToSet(op.publish) \subseteq KeysOf(a.subscriptions)

Nodes(list) == [i \in DOMAIN list |-> Node(list[i])]

OperationNode(op) ==
    [Ast("operation", op.key, Nodes(<<op.input>> \o Given(op.output))) EXCEPT !.publish = op.publish]

SubscriptionNode(sub) ==
    [Ast("subscription", sub.key, Nodes(<<sub.payload>> \o Given(sub.input) \o Given(sub.output)))
        EXCEPT !.response = NameOf(IF sub.output = NotGiven THEN sub.payload ELSE sub.output)]

FieldNode(a, op) ==
    [Ast("field", Owner(a) \o <<".">> \o op.key, Nodes(<<op.dependsOn>> \o Given(op.input) \o Given(op.output)))
        EXCEPT !.owner = Owner(a), !.field = op.key]

ApiNode(a) ==
    Ast("api", Owner(a),
        [i \in DOMAIN Operations(a) |-> OperationNode(Operations(a)[i])]
        \o [i \in DOMAIN a.subscriptions |-> SubscriptionNode(a.subscriptions[i])]
        \o [i \in DOMAIN Fields(a) |-> FieldNode(a, Fields(a)[i])])

-----------------------------------------------------------------------------
(* What the schema module serves: a contract is one api, or several that
   composeApi puts together.                                               *)

FieldKey(owner, key) == IF owner = <<>> THEN key ELSE owner \o <<".">> \o key

Keyed(a) == [i \in DOMAIN Fields(a) |->
                [key |-> FieldKey(Owner(a), Fields(a)[i].key), op |-> Fields(a)[i], owner |-> Owner(a)]]
Topics(a) == a.subscriptions

AllOf(contract) ==
    LET apis == contract.apis IN
    [operations |-> FlattenSeq([i \in DOMAIN apis |-> Operations(apis[i])]),
     topics     |-> FlattenSeq([i \in DOMAIN apis |-> Topics(apis[i])]),
     keyed      |-> FlattenSeq([i \in DOMAIN apis |-> Keyed(apis[i])])]

(* composeApi throws when two apis have an operation, a subscription or a
   field operation of an entity in common.                                 *)
Composes(contract) ==
    /\ \A i \in DOMAIN contract.apis : Valid(contract.apis[i])
    /\ contract.composed => LET all == AllOf(contract) IN
                            Apart(all.operations) /\ Apart(all.topics) /\ Apart(all.keyed)

Root(contract) ==
    IF contract.composed
    THEN Ast("api-composed", <<>>, [i \in DOMAIN contract.apis |-> ApiNode(contract.apis[i])])
    ELSE ApiNode(contract.apis[1])

(* What an event names: an operation by its key, or a field operation as
   "$owner.field", split at the first dot.  A single api keeps its field
   operations under their own names, a composed one under owner and name.  *)
First(list, k) == CHOOSE i \in DOMAIN list : list[i].key = k

Served(contract) ==
    LET all == AllOf(contract)
    IN [operations |-> all.operations,
        topics     |-> all.topics,
        keyed      |-> all.keyed,
        fields     |-> IF contract.composed THEN all.keyed
                       ELSE [i \in DOMAIN all.keyed |-> [all.keyed[i] EXCEPT !.key = all.keyed[i].op.key]]]

Nowhere == [is |-> "nothing"]
Target(kind, owner, op) == [is |-> kind, owner |-> owner, op |-> op]

ResolveField(server, event) ==
    LET body     == Tail(event)
        dots     == {i \in DOMAIN body : body[i] = "."}
        dot      == FirstOf(dots)
        field    == SubSeq(body, dot + 1, Len(body))
        keys     == KeysOf(server.fields)
        found(k) == LET f == server.fields[First(server.fields, k)] IN Target("field", f.owner, f.op)
    IN IF Head(event) # "$" \/ dots = {} \/ dot \in {1, Len(body)} THEN Nowhere
       ELSE IF body \in keys THEN found(body)
       ELSE IF field \in keys THEN found(field)
       ELSE Nowhere

Resolve(server, event) ==
    IF event \in KeysOf(server.operations)
    THEN Target("operation", <<>>, server.operations[First(server.operations, event)])
    ELSE ResolveField(server, event)

(* What an operation answers to an input, when its executor returns result:
   the output as its schema parses it, or an error.                        *)
Parsed(s, v) == IF s = NotGiven THEN Good(v) ELSE Validate(s, v)

RunOperation(op, input, result) ==
    IF ~Validate(op.input, input).ok THEN Nested ELSE Parsed(op.output, result)

RunFieldOperation(op, dependsOn, input, result) ==
    IF ~Validate(op.dependsOn, dependsOn).ok \/ ~Parsed(op.input, input).ok THEN Nested
    ELSE Parsed(op.output, result)
===============================================================================
