-------------------------------- MODULE Client --------------------------------
(***************************************************************************)
(* The generator (packages/client/src/generate.ts) and the client it makes *)
(* types for.                                                              *)
(*                                                                         *)
(* The types: one declaration for every named schema, one for every        *)
(* operation, field operation and subscription of the syntax tree.  A type *)
(* is a record [ty, ...]; what is written around it, comments and          *)
(* examples, is left out.  The order in which names are given away only    *)
(* decides who of those that collide gets a number.                        *)
(*                                                                         *)
(* A client made by createClient (packages/client/src/client.ts) from the  *)
(* syntax tree of a contract, and the server that serves the contract      *)
(* (schemaModule.ts).  A method of the client sends an event; the server   *)
(* runs the operation the event names; what it answers is given the field  *)
(* operations of the entities in it, which may be called in turn.          *)
(***************************************************************************)
EXTENDS Schema

-----------------------------------------------------------------------------
(* The generated types *)

(* Names *)

(* pascalCaseName and sanitizeTypeName *)
TypeNameBase(n) == IF Joined(n) = <<>> THEN <<"Type">> ELSE Joined(n)

Numbers == <<<<>>, <<"1">>, <<"2">>, <<"3">>, <<"4">>, <<"5">>, <<"6">>>>

(* resolveUniqueName: the name, or the name with the first number that makes
   it one nobody has.                                                      *)
UniqueName(base, used) ==
    base \o Numbers[FirstOf({i \in DOMAIN Numbers : base \o Numbers[i] \notin used})]

(* Mutant: a name is not remembered once it has been given. *)
NamesForgotten(bases, used) ==
    [used |-> used, names |-> [i \in DOMAIN bases |-> UniqueName(bases[i], used)]]

(* Names for the bases, given away one after the other. *)
NamesFor(bases, used) ==
    LET give(acc, base) ==
            LET name == UniqueName(base, acc.used)
            IN [used |-> acc.used \cup {name}, names |-> Append(acc.names, name)]
    IN FoldLeft(give, [used |-> used, names |-> <<>>], bases)

-----------------------------------------------------------------------------
(* Collecting *)

RECURSIVE Walk(_)
Walk(node) == <<node>> \o FlattenSeq([i \in DOMAIN node.children |-> Walk(node.children[i])])

IsTypeDefinition(node) == node.type \notin {"api", "api-composed", "operation", "field", "subscription"}

IndexIn(list, x) == FirstOf({i \in DOMAIN list : list[i] = x})

(* collectNamedNodes: the first node of a name stands for all of them. *)
NamedNodes(root) ==
    LET nodes == SelectSeq(Walk(root), LAMBDA node : node.name # <<>> /\ IsTypeDefinition(node))
        names == [i \in DOMAIN nodes |-> nodes[i].name]
        kept  == SelectSeq([i \in DOMAIN nodes |-> i], LAMBDA i : IndexIn(names, names[i]) = i)
        given == NamesFor([i \in DOMAIN kept |-> TypeNameBase(names[kept[i]])], {}).names
    IN [n \in ToSet(names) |->
          LET i == IndexIn(names, n) IN [typeName |-> given[IndexIn(kept, i)], node |-> nodes[i]]]

OperationNodes(root)    == SelectSeq(Walk(root), LAMBDA node : node.type = "operation")
SubscriptionNodes(root) == SelectSeq(Walk(root), LAMBDA node : node.type = "subscription")
FieldNodes(root)        == SelectSeq(Walk(root), LAMBDA node : node.type = "field" /\ node.owner # <<>>)

(* The node is only a list of children: with two of them, the second is taken
   for the output, also when it is the input of a field operation without one. *)
Child(node, i) == IF i \in DOMAIN node.children THEN node.children[i] ELSE NotGiven
FieldInput(node)  == IF Len(node.children) = 3 THEN node.children[2] ELSE NotGiven

(* Mutant: the second child is the output, whatever there is. *)
SecondChild(node) == Child(node, 2)

FieldOutput(node) == IF Len(node.children) = 3 THEN node.children[3] ELSE Child(node, 2)

-----------------------------------------------------------------------------
(* Rendering *)

Unknown      == [ty |-> "unknown"]
Ref(name)    == [ty |-> "ref", name |-> name]
Call(in, out) == [ty |-> "call", input |-> in, output |-> out]

RECURSIVE Render(_, _, _)
Render(node, named, ignored) ==
    LET parts == [i \in DOMAIN node.children |-> Render(node.children[i], named, <<>>)]
    IN IF node = NotGiven THEN Unknown
       ELSE IF node.name # ignored /\ node.name \in DOMAIN named /\ IsTypeDefinition(node)
       THEN Ref(named[node.name].typeName)
       ELSE
         CASE node.type \in {"string", "number", "boolean"} -> [ty |-> "keyword", kind |-> node.type]
         [] node.type = "date"   -> Ref(<<"Date">>)
         [] node.type = "binary" -> Ref(<<"Uint8Array">>)
         [] node.type \in {"literal", "enum"} -> [ty |-> "values", values |-> node.values]
         [] node.type \in {"array", "tuple", "union"} -> [ty |-> node.type, of |-> parts]
         [] node.type = "and" -> [ty |-> "and", of |-> SelectSeq(parts, LAMBDA p : p # Unknown)]
         [] node.type = "object" -> [ty |-> "record"]
         [] OTHER -> Unknown

(* What handlers of a topic are given: the type its response is named by, or
   else the type of the payload.                                           *)
PayloadType(node, named) ==
    IF node.response \in DOMAIN named THEN Ref(named[node.response].typeName)
    ELSE Render(Child(node, 1), named, node.name)

SubscriptionEvents(root, named) ==
    LET nodes == SubscriptionNodes(root)
    IN [i \in DOMAIN nodes |-> [key |-> nodes[i].name, payload |-> PayloadType(nodes[i], named)]]

(* What operations publish, with the type of their output. *)
PublishEvents(root, named) ==
    LET ops == OperationNodes(root)
        published(op) == [j \in DOMAIN op.publish |->
                            [key |-> op.publish[j], payload |-> Render(Child(op, 2), named, <<>>)]]
    IN FlattenSeq([i \in DOMAIN ops |-> published(ops[i])])

(* Mutant: what is published goes before what is subscribed to. *)
PublishedFirst(root, named) == PublishEvents(root, named) \o SubscriptionEvents(root, named)

(* The events of the client: a topic that is published and subscribed to has
   the type of its subscription.                                           *)
Events(root, named) ==
    LET subscribed == SubscriptionEvents(root, named)
    IN subscribed \o SelectSeq(PublishEvents(root, named),
                               LAMBDA e : \A i \in DOMAIN subscribed : subscribed[i].key # e.key)

-----------------------------------------------------------------------------
(* Declarations: what has a name, and what it says. *)

(* The types of field operations, named after the type of their owner. *)
FieldOperationTypes(nodes, named, used) ==
    LET ownerType(node) ==
            IF node.owner \in DOMAIN named THEN named[node.owner].typeName ELSE TypeNameBase(node.owner)
        given == NamesFor([i \in DOMAIN nodes |-> ownerType(nodes[i]) \o TypeNameBase(nodes[i].field) \o <<"Field">>], used)
    IN [used |-> given.used,
        types |-> [i \in DOMAIN nodes |->
                     [name |-> given.names[i], owner |-> nodes[i].owner, field |-> nodes[i].field,
                      call |-> Call(Render(FieldInput(nodes[i]), named, <<>>),
                                    Render(FieldOutput(nodes[i]), named, <<>>))]]]

OperationTypes(nodes, named, used) ==
    LET given == NamesFor([i \in DOMAIN nodes |-> TypeNameBase(nodes[i].name) \o <<"Operation">>], used)
    IN [used |-> given.used,
        types |-> [i \in DOMAIN nodes |->
                     [name |-> given.names[i], key |-> nodes[i].name,
                      call |-> Call(Render(Child(nodes[i], 1), named, <<>>),
                                    Render(Child(nodes[i], 2), named, <<>>))]]]

(* The handlers of events, one of a topic. *)
SubscriptionTypes(events, used) ==
    LET firsts == SelectSeq([i \in DOMAIN events |-> i],
                            LAMBDA i : \A j \in 1..(i - 1) : events[j].key # events[i].key)
        given  == NamesFor([i \in DOMAIN firsts |-> TypeNameBase(events[firsts[i]].key) \o <<"Subscription">>], used)
    IN [i \in DOMAIN firsts |-> [name |-> given.names[i], key |-> events[firsts[i]].key,
                                 payload |-> events[firsts[i]].payload]]

(* The declaration of a named node: an interface for an object, with its
   fields and its field operations, an alias for anything else.            *)
Body(node, named, fieldTypes) ==
    IF node.type = "object"
    THEN [ty |-> "interface",
          keys |-> [i \in DOMAIN node.children |-> node.children[i].name],
          of   |-> [i \in DOMAIN node.children |-> Render(Child(node.children[i], 1), named, <<>>)],
          methods |-> SelectSeq(fieldTypes, LAMBDA f : f.owner = node.name)]
    ELSE Render(node, named, node.name)

(* generateClientFiles *)
Generated(root) ==
    LET named  == NamedNodes(root)
        types  == {named[n].typeName : n \in DOMAIN named}
        fields == FieldOperationTypes(FieldNodes(root), named, types)
        calls  == OperationTypes(OperationNodes(root), named, fields.used)
    IN [named   |-> named,
        bodies  |-> [t \in types |-> LET n == CHOOSE n \in DOMAIN named : named[n].typeName = t
                                     IN Body(named[n].node, named, fields.types)],
        fields  |-> fields.types,
        calls   |-> calls.types,
        topics  |-> SubscriptionTypes(Events(root, named), calls.used)]

-----------------------------------------------------------------------------
(* What a type means *)

BuiltIns == {<<"Date">>, <<"Uint8Array">>, <<"Array">>, <<"Record">>, <<"Promise">>, <<"Partial">>}

RECURSIVE Admits(_, _, _)
Admits(g, type, v) ==
    CASE type.ty \in {"unknown", "record"} -> TRUE
      [] type.ty = "keyword" -> v.kind = type.kind
      [] type.ty = "values"  -> v \in type.values
      [] type.ty = "array"   -> IsList(v) /\ \A i \in DOMAIN v.items : Admits(g, type.of[1], v.items[i])
      [] type.ty = "tuple"   -> /\ IsList(v) /\ Len(v.items) = Len(type.of)
                                /\ \A i \in DOMAIN type.of : Admits(g, type.of[i], v.items[i])
      [] type.ty = "union"   -> \E i \in DOMAIN type.of : Admits(g, type.of[i], v)
      [] type.ty = "and"     -> \A i \in DOMAIN type.of : Admits(g, type.of[i], v)
      [] type.ty = "interface" ->
           IsRecord(v) /\ \A i \in DOMAIN type.keys : Admits(g, type.of[i], Field(v, type.keys[i]))
      [] type = Ref(<<"Date">>)       -> v.kind = "date"
      [] type = Ref(<<"Uint8Array">>) -> v.kind = "binary"
      [] OTHER -> Admits(g, g.bodies[type.name], v)

RECURSIVE Mentions(_)
Mentions(type) ==
    CASE type.ty = "ref" -> {type.name}
      [] type.ty \in {"array", "tuple", "union", "and", "interface"} ->
           UNION {Mentions(type.of[i]) : i \in DOMAIN type.of}
      [] OTHER -> {}

(* Premise: nodes of one name are the same, and no schema's type is named as
   one of TypeScript's own.                                                *)
NamesApart(root) ==
    LET nodes == {node \in ToSet(Walk(root)) : IsTypeDefinition(node) /\ node.name # <<>>}
    IN /\ \A m, n \in nodes : m.name = n.name => m = n
       /\ \A n \in nodes : TypeNameBase(n.name) \notin BuiltIns

(* No two declarations of the generated client have the same name. *)
DeclaredOnce(g) ==
    LET others == [i \in DOMAIN g.fields |-> g.fields[i].name] \o [i \in DOMAIN g.calls |-> g.calls[i].name]
                  \o [i \in DOMAIN g.topics |-> g.topics[i].name]
    IN /\ \A m, n \in DOMAIN g.named : g.named[m].typeName = g.named[n].typeName => m = n
       /\ IsInjective(others) /\ ToSet(others) \cap DOMAIN g.bodies = {}

(* Whatever a declaration mentions is declared, and every field operation of an
   entity that is an object is a method of its interface.                  *)
AllDeclared(g) ==
    LET calls == {g.calls[i].call : i \in DOMAIN g.calls} \cup {g.fields[i].call : i \in DOMAIN g.fields}
        types == {g.bodies[t] : t \in DOMAIN g.bodies} \cup {c.input : c \in calls} \cup {c.output : c \in calls}
                 \cup {g.topics[i].payload : i \in DOMAIN g.topics}
        isObject(n) == n \in DOMAIN g.named /\ g.named[n].node.type = "object"
    IN /\ \A type \in types : Mentions(type) \subseteq DOMAIN g.bodies \cup BuiltIns
       /\ \A i \in DOMAIN g.fields :
            isObject(g.fields[i].owner) =>
              g.fields[i] \in ToSet(g.bodies[g.named[g.fields[i].owner].typeName].methods)

(* Premise: the syntax tree has all there is to the schema. *)
Spelled(s) == s.t \notin {"optional", "nullable", "before", "after"}
Exact(s)   == s.t \notin {"refine", "chain"}

(* The type has the values of the schema, and when nothing is refined, no
   others; what is not declared is unknown.                                *)
Describes(g, type, s, values) ==
    /\ s = NotGiven => type = Unknown
    /\ s # NotGiven /\ (\A p \in Within(s) : Spelled(p)) =>
        \A v \in values : /\ Conforms(s, v) => Admits(g, type, v)
                          /\ Admits(g, type, v) /\ (\A p \in Within(s) : Exact(p)) => Conforms(s, v)

-----------------------------------------------------------------------------
(* The client *)

CONSTANTS
    Contracts,   \* the contracts of the instance
    Values,      \* what callers pass and executors return
    MaxCalls     \* bound on the calls made

ClientConstants == MaxCalls \in Nat \ {0}

VARIABLES
    contract,    \* the contract
    stage,       \* "declared", "served", "connected", or "thrown" when it cannot be put together
    server,      \* what the schema module serves
    ast,         \* the syntax tree the server explains itself with
    client,      \* the methods of the client and its registry of field operations
    made,        \* how many calls have been made
    call,        \* the call under way
    ran,         \* history: what the server ran for the last call
    answer       \* what the last call was answered

clientVars == <<contract, stage, server, ast, client, made, call, ran, answer>>

NoServer == [operations |-> <<>>, topics |-> <<>>, keyed |-> <<>>, fields |-> <<>>]
NoClient == [methods |-> <<>>, registry |-> {}]
NoCall  == [is |-> "no call"]
NoRun   == [is |-> "not run"]
NoValue == [kind |-> "none"]

-----------------------------------------------------------------------------
LowWord(w)   == IF \E x \in DOMAIN Upper : Upper[x] = w THEN CHOOSE x \in DOMAIN Upper : Upper[x] = w ELSE w
CamelCase(n) == IF Joined(n) = <<>> THEN n ELSE <<LowWord(Head(Joined(n)))>> \o Tail(Joined(n))

FieldMethod(owner, field) == <<"$">> \o CamelCase(owner) \o Capitalize(field)
FieldEvent(owner, field)  == <<"$">> \o owner \o <<".">> \o field

(* The field operations by owner, as the client reads them off the tree. *)
Registry(root) ==
    {[owner |-> n.owner, field |-> n.field, event |-> FieldEvent(n.owner, n.field), output |-> FieldOutput(n)] :
        n \in ToSet(FieldNodes(root))}

(* What the module has besides the operations: they are written over by
   these (Object.assign of createClientCore), or write over those of
   createClient; the generated api adds a toggle per topic.                *)
Reserved == {<<"emit", "Event">>, <<"set", "Request">>, <<"register">>, <<"name">>, <<"room">>}

(* The methods of the client: an operation's event is its name; a field
   operation is left out when its method exists.                           *)
Methods(root) ==
    LET operations  == OperationNodes(root)
        fields      == FieldNodes(root)
        method(n)   == FieldMethod(n.owner, n.field)
        names       == {operations[i].name : i \in DOMAIN operations}
        named(m)    == operations[CHOOSE i \in DOMAIN operations : operations[i].name = m]
        newField(m) == fields[FirstOf({i \in DOMAIN fields : method(fields[i]) = m})]
    IN [m \in names \cup {method(fields[i]) : i \in DOMAIN fields} |->
          IF m \in names THEN [event |-> m, output |-> Child(named(m), 2)]
          ELSE [event |-> FieldEvent(newField(m).owner, newField(m).field), output |-> FieldOutput(newField(m))]]

-----------------------------------------------------------------------------
(* hydrateByNode: the entities of a value, found along the nodes, are given
   their field operations; a field that exists hides one of the same name.
   Values of a union stay as they are.                                     *)
Attached(v, name, registry) ==
    {spec \in registry : spec.owner = name /\ spec.field \notin DOMAIN FieldsOf(v)}

RECURSIVE Hydrate(_, _, _)
Hydrate(v, node, registry) ==
    LET child(i) == Child(node, i)
        fieldNode(key) == child(FirstOf({i \in DOMAIN node.children : node.children[i].name = key}))
        named  == IF node = NotGiven THEN {} ELSE {node.children[i].name : i \in DOMAIN node.children}
        values == [key \in named \cup DOMAIN FieldsOf(v) |->
                      IF key \in named THEN Hydrate(Field(v, key), Child(fieldNode(key), 1), registry)
                      ELSE Field(v, key)]
        done   == IF "methods" \in DOMAIN v THEN v.methods ELSE {}
    IN CASE node = NotGiven -> v
         [] node.type = "array" /\ IsList(v) ->
              List([i \in DOMAIN v.items |-> Hydrate(v.items[i], child(1), registry)])
         [] node.type = "tuple" /\ IsList(v) ->
              List([i \in DOMAIN v.items |-> Hydrate(v.items[i], child(i), registry)])
         [] node.type = "and" ->
              FoldLeft(LAMBDA w, n : Hydrate(w, n, registry), v, node.children)
         [] node.type = "object" /\ IsRecord(v) ->
              [kind |-> "record", fields |-> values, methods |-> done \cup Attached(v, node.name, registry)]
         [] OTHER -> v

(* What goes over the wire: methods are not enumerable. *)
RECURSIVE Sent(_)
Sent(v) ==
    CASE v.kind = "record" -> Rec([key \in DOMAIN v.fields |-> Sent(v.fields[key])])
      [] v.kind = "array"  -> List([i \in DOMAIN v.items |-> Sent(v.items[i])])
      [] OTHER -> v

(* The records in a value. *)
RECURSIVE RecordsIn(_)
RecordsIn(v) ==
    CASE v.kind = "record" -> {v} \cup UNION {RecordsIn(v.fields[key]) : key \in DOMAIN v.fields}
      [] v.kind = "array"  -> UNION {RecordsIn(v.items[i]) : i \in DOMAIN v.items}
      [] OTHER -> {}

-----------------------------------------------------------------------------
ClientInit ==
    /\ contract \in Contracts /\ stage = "declared"
    /\ server = NoServer /\ ast = NotGiven /\ client = NoClient
    /\ made = 0 /\ call = NoCall /\ ran = NoRun /\ answer = NoValue

(* The server starts: api and composeApi throw when the contract is wrong. *)
Start ==
    /\ stage = "declared"
    /\ IF Composes(contract)
       THEN stage' = "served" /\ server' = Served(contract) /\ ast' = Root(contract)
       ELSE stage' = "thrown" /\ UNCHANGED <<server, ast>>
    /\ UNCHANGED <<contract, client, made, call, ran, answer>>

(* createClient, with the tree the server was asked for. *)
Connect ==
    /\ stage = "served" /\ stage' = "connected"
    /\ client' = [methods |-> Methods(ast), registry |-> Registry(ast)]
    /\ UNCHANGED <<contract, server, ast, made, call, ran, answer>>

Request(method, dependsOn, input, meant) ==
    /\ stage = "connected" /\ call = NoCall /\ made < MaxCalls
    /\ call' = [event |-> method.event, output |-> method.output, dependsOn |-> dependsOn, input |-> input,
                meant |-> meant]
    /\ made' = made + 1 /\ ran' = NoRun /\ answer' = NoValue
    /\ UNCHANGED <<contract, stage, server, ast, client>>

(* An operation is called by its name. *)
CallOperation(op, v) ==
    /\ op.key \in DOMAIN client.methods
    /\ Request(client.methods[op.key], NoValue, v, Target("operation", <<>>, op))

(* A field operation is called by its method on the client, with the entity. *)
CallField(f, entity, v) ==
    /\ FieldMethod(f.owner, f.op.key) \in DOMAIN client.methods
    /\ Request(client.methods[FieldMethod(f.owner, f.op.key)], entity, v, Target("field", f.owner, f.op))

(* A field operation is called on an entity of the last answer. *)
CallOnEntity(f, v) ==
    \E entity \in RecordsIn(answer) :
        /\ "methods" \in DOMAIN entity
        /\ \E spec \in entity.methods :
              /\ spec.owner = f.owner /\ spec.field = f.op.key
              /\ Request(spec, Sent(entity), v, Target("field", f.owner, f.op))

Calls ==
    \/ \E op \in ToSet(server.operations), v \in Values : CallOperation(op, v)
    \/ \E f \in ToSet(server.keyed), entity \in Values, v \in Values : CallField(f, entity, v)
    \/ \E f \in ToSet(server.keyed), v \in Values : CallOnEntity(f, v)

(* The server runs what the event names, and its executor returns result;
   an error rejects the call, and without an operation nobody answers.     *)
Serve(result) ==
    LET target  == Resolve(server, call.event)
        outcome == IF target.is = "operation" THEN RunOperation(target.op, call.input, result)
                   ELSE RunFieldOperation(target.op, call.dependsOn, call.input, result)
    IN /\ call # NoCall
       /\ ran' = [target |-> target, meant |-> call.meant]
       /\ answer' = IF target = Nowhere \/ ~outcome.ok THEN NoValue
                    ELSE Hydrate(outcome.value, call.output, client.registry)
       /\ call' = NoCall
       /\ UNCHANGED <<contract, stage, server, ast, client, made>>

ClientNext == Start \/ Connect \/ Calls \/ \E result \in Values : Serve(result)

-----------------------------------------------------------------------------
(* Premise: no two methods share a name, none is one the client has already,
   and the owner of a field operation is an object whose name has no dot.
   A field operation that takes an input has an output: the tree does not
   tell one from the other.                                                *)
Unambiguous ==
    LET fields  == server.keyed
        methods == [i \in DOMAIN server.operations |-> server.operations[i].key]
                   \o [i \in DOMAIN fields |-> FieldMethod(fields[i].owner, fields[i].op.key)]
    IN /\ IsInjective(methods)
       /\ ToSet(methods) \cap (Reserved \cup KeysOf(server.topics)) = {}
       /\ \A i \in DOMAIN contract.apis : contract.apis[i].fields # <<>> =>
             contract.apis[i].type.t = "object" /\ "." \notin ToSet(Owner(contract.apis[i]))
       /\ \A f \in ToSet(fields) : f.op.input # NotGiven => f.op.output # NotGiven

ClientTypeOK ==
    /\ contract \in Contracts /\ stage \in {"declared", "served", "connected", "thrown"} /\ made \in 0..MaxCalls
    /\ call # NoCall \/ ran # NoRun => stage = "connected"

(* Every call runs the operation it was meant for, in one api and in several
   that were composed (client.ts:443-471 against schemaModule.ts:263-279).  *)
CallsReachTheirOperation ==
    ran # NoRun /\ Unambiguous => ran.target = ran.meant

(* The entities in a value of a schema; a union hides those of its options. *)
RECURSIVE Entities(_, _)
Entities(s, v) ==
    CASE s.t = "object" -> {<<s, v>>} \cup
           UNION {Entities(s.parts[i], Field(v, s.keys[i])) : i \in DOMAIN s.keys}
      [] s.t = "array" -> UNION {Entities(s.parts[1], v.items[i]) : i \in DOMAIN v.items}
      [] s.t = "tuple" -> UNION {Entities(s.parts[i], v.items[i]) : i \in DOMAIN s.parts}
      [] s.t = "and"   -> Entities(s.parts[1], v) \cup Entities(s.parts[2], v)
      [] s.t \in {"optional", "nullable"} -> IF v \in {Undefined, Null} THEN {} ELSE Entities(s.parts[1], v)
      [] s.t \in {"refine", "chain", "describe"} -> Entities(s.parts[1], v)
      [] OTHER -> {}

(* Every entity of an answer, however deep in it, has the field operations
   that were declared for it.                                              *)
EntitiesHaveTheirFields ==
    (/\ ran # NoRun /\ answer # NoValue /\ Unambiguous
     /\ ran.target.op.output # NotGiven
     /\ \A s \in Within(ran.target.op.output) : MergesWhole(s) /\ Unhooked(s)) =>
       \A e \in Entities(ran.target.op.output, answer), f \in ToSet(server.keyed) :
          f.owner = e[1].name /\ f.op.key \notin DOMAIN e[2].fields =>
              /\ "methods" \in DOMAIN e[2]
              /\ \E spec \in e[2].methods : spec.owner = f.owner /\ spec.field = f.op.key

(* What the declarations of a generated client say of the server's operations,
   field operations and subscriptions.                                     *)
SaysWhatIsServed(g) ==
    LET operation(k) == server.operations[First(server.operations, k)]
        topic(k) == server.topics[First(server.topics, k)]
        field(d) == CHOOSE f \in ToSet(server.keyed) : f.owner = d.owner /\ f.op.key = d.field
    IN /\ DeclaredOnce(g) /\ AllDeclared(g)
       /\ \A i \in DOMAIN g.calls :
            /\ Describes(g, g.calls[i].call.input, operation(g.calls[i].key).input, Values)
            /\ Describes(g, g.calls[i].call.output, operation(g.calls[i].key).output, Values)
       /\ Unambiguous => \A i \in DOMAIN g.fields :
            /\ Describes(g, g.fields[i].call.input, field(g.fields[i]).op.input, Values)
            /\ Describes(g, g.fields[i].call.output, field(g.fields[i]).op.output, Values)
       /\ \A i \in DOMAIN g.topics :
            LET t == topic(g.topics[i].key)
            IN t.output = NotGiven \/ NameOf(t.output) \in DOMAIN g.named =>
                 Describes(g, g.topics[i].payload, IF t.output = NotGiven THEN t.payload ELSE t.output, Values)

(* The types of a generated client say of every operation, field operation
   and subscription what its schemas say (generate.ts against api.ts).     *)
TypesFollowTheContract ==
    stage = "served" /\ NamesApart(ast) => SaysWhatIsServed(Generated(ast))
=============================================================================
