---------------------------- MODULE Serialization ----------------------------
(***************************************************************************)
(* packages/sync/src/utils/structuredSerialization.ts, and the copy that   *)
(* cloneValue.ts makes with it where the platform has no structuredClone.  *)
(*                                                                         *)
(* A program builds a value out of objects that may refer to each other;   *)
(* what serialising, deserialising and the stable key make of the value is *)
(* a function of it.  JSON itself is left out: what is serialised is the   *)
(* JSON value, its records without the order of their keys.                *)
(***************************************************************************)
EXTENDS Naturals, Sequences, FiniteSets, TLC, Functions, Relation

CONSTANTS Objects, Made, Leaves, Fields, MapKeys, MaxPuts

VARIABLES
    objects,     \* the objects of the program: their kind, and what they hold
    puts         \* how many times something was put into one (bounded by MaxPuts)

savedVars == <<objects, puts>>

MarkKey == "__livonSerializedValue__"
TypeKey == "__livonType__"

Ref(o) == [kind |-> "ref", object |-> o]
Text(content) == [kind |-> "string", content |-> content]
SerializedValueMarker == [kind |-> "number", content |-> "1"]

Anything == Leaves \cup {Ref(o) : o \in Objects}
Kinds    == {"array", "set", "map", "record", "instance"}
SpecialNumbers == {"NaN", "Infinity", "-Infinity", "-0"}

(* What the constants may be; the instances are checked against it. *)
SavedConstants == MaxPuts \in Nat /\ MapKeys \subseteq Anything /\ \A object \in Made : object.kind \in Kinds

(* An object with what it was made of. *)
Object(kind, items, fields, pairs) == [kind |-> kind, items |-> items, fields |-> fields, pairs |-> pairs]

SavedInit == objects \in [Objects -> Made] /\ puts = 0

Put(o, object) ==
    /\ puts < MaxPuts /\ puts' = puts + 1
    /\ objects' = [objects EXCEPT ![o] = object]

(* The program goes on building: push, Set.add, Map.set of a new key, an assignment. *)
Push(o, v) ==
    /\ objects[o].kind \in {"array", "set"}
    /\ objects[o].kind = "set" => v \notin Range(objects[o].items)
    /\ Put(o, [objects[o] EXCEPT !.items = Append(@, v)])
SetEntry(o, k, v) ==
    /\ objects[o].kind = "map" /\ \A pair \in Range(objects[o].pairs) : pair[1] # k
    /\ Put(o, [objects[o] EXCEPT !.pairs = Append(@, <<k, v>>)])
Assign(o, field, v) ==
    /\ objects[o].kind \in {"record", "instance"} /\ field \notin DOMAIN objects[o].fields
    /\ Put(o, [objects[o] EXCEPT !.fields = (field :> v) @@ @])

SavedNext ==
    \E o \in Objects, v \in Anything :
       Push(o, v) \/ (\E k \in MapKeys : SetEntry(o, k, v)) \/ (\E f \in Fields : Assign(o, f, v))

(* What an object holds. *)
PartsIn(object) ==
    Range(object.items) \cup Range(object.fields) \cup {pair[1] : pair \in Range(object.pairs)}
      \cup {pair[2] : pair \in Range(object.pairs)}

-----------------------------------------------------------------------------
(* Serialising. *)

JsonRecord(fields) == [kind |-> "record", fields |-> fields]
JsonArray(items)   == [kind |-> "array", items |-> items]

(* createMarker, isSerializedMarker *)
CreateMarker(type, fields) ==
    JsonRecord(fields @@ (MarkKey :> SerializedValueMarker) @@ (TypeKey :> Text(type)))
IsSerializedMarker(input) ==
    /\ input.kind = "record" /\ {MarkKey, TypeKey} \subseteq DOMAIN input.fields
    /\ input.fields[MarkKey] = SerializedValueMarker /\ input.fields[TypeKey].kind = "string"

(* An instance of a class that has no fields of its own. *)
IsUnsupportedObject(object) == object.kind = "instance" /\ object.fields = <<>>

(* Mutant: an object stays among the parents. *)
NeverReleased(object, parents) ==
    \/ \E o \in parents : Ref(o) \in PartsIn(object)
    \/ \E i, j \in DOMAIN object.items : i # j /\ object.items[i].kind = "ref" /\ object.items[i] = object.items[j]

(* withParentTracking: an object inside of itself cannot be serialised; the
   same object in two places can.                                          *)
HoldsParent(object, parents) == \E o \in parents : Ref(o) \in PartsIn(object)

(* Whether serialising throws: at an object inside of itself, and when asked
   to at a function, a symbol or an object it knows nothing of.            *)
RECURSIVE Throws(_, _, _)
Throws(v, unsupported, parents) ==
    IF v.kind # "ref" THEN unsupported = "throw" /\ v.kind \in {"function", "symbol"}
    ELSE LET object == objects[v.object] IN
         \/ unsupported = "throw" /\ IsUnsupportedObject(object)
         \/ HoldsParent(object, parents \cup {v.object})
         \/ \E w \in PartsIn(object) : Throws(w, unsupported, parents \cup {v.object})

(* Mutant: numbers as JSON writes them. *)
NumbersOfJson(input) ==
    IF input.content \in SpecialNumbers THEN [kind |-> "other", content |-> "null"] ELSE input

(* buildSerializedNumber *)
BuildSerializedNumber(input) ==
    IF input.content \in SpecialNumbers THEN CreateMarker("number", "value" :> Text(input.content)) ELSE input

(* serializeUnsupportedValue, where it does not throw *)
SerializeUnsupportedValue(sourceType, content) ==
    CreateMarker("stringified", ("sourceType" :> Text(sourceType)) @@ ("value" :> Text(content)))

(* What is not an object of the program's. *)
BuildSerializedLeaf(input) ==
    CASE input.kind = "number"               -> BuildSerializedNumber(input)
      [] input.kind = "undefined"            -> CreateMarker("undefined", <<>>)
      [] input.kind \in {"bigint", "date"}   -> CreateMarker(input.kind, "value" :> Text(input.content))
      [] input.kind = "regexp"               -> CreateMarker("regexp", "source" :> Text(input.content))
      [] input.kind \in {"function", "symbol"} -> SerializeUnsupportedValue(input.kind, input.content)
      [] OTHER                               -> input

(* Mutant: the order stays. *)
AsTheyCame(items, sortCollections) == JsonArray(items)

(* The items of a set and the entries of a map; sorted, only what they are and
   how often matters.                                                      *)
Collection(items, sortCollections) ==
    IF sortCollections
    THEN [kind |-> "sorted", counts |-> [x \in Range(items) |-> Cardinality({i \in DOMAIN items : items[i] = x})]]
    ELSE JsonArray(items)

(* An object that looks like a marker is escaped, which tells it from a marker
   in a stable key.                                                        *)
Escaped(record) ==
    IF IsSerializedMarker(record) THEN CreateMarker("escaped-object", "value" :> record) ELSE record

(* buildSerializedValue, with buildSerializedObject and buildSerializedArray *)
RECURSIVE BuildSerializedValue(_, _)
BuildSerializedValue(v, sortCollections) ==
    IF v.kind # "ref" THEN BuildSerializedLeaf(v)
    ELSE LET object == objects[v.object]
             items  == [i \in DOMAIN object.items |-> BuildSerializedValue(object.items[i], sortCollections)]
             pairs  == [i \in DOMAIN object.pairs |->
                          JsonRecord(("key"   :> BuildSerializedValue(object.pairs[i][1], sortCollections))
                                  @@ ("value" :> BuildSerializedValue(object.pairs[i][2], sortCollections)))]
         IN CASE object.kind = "array" -> JsonArray(items)
              [] object.kind = "set"   -> CreateMarker("set", "values" :> Collection(items, sortCollections))
              [] object.kind = "map"   -> CreateMarker("map", "entries" :> Collection(pairs, sortCollections))
              [] IsUnsupportedObject(object) -> SerializeUnsupportedValue("unsupported-object", "[object Object]")
              [] OTHER -> Escaped(JsonRecord([f \in DOMAIN object.fields |->
                                                BuildSerializedValue(object.fields[f], sortCollections)]))

(* createStableSerializedValue, and the string stableSerializeStructuredValue
   makes of it.                                                            *)
StableStructuredValue(v) == BuildSerializedValue(v, TRUE)

-----------------------------------------------------------------------------
(* Deserialising, into values whose objects are in their places. *)

(* What a marker of the program's own turns into when it lacks what its type
   asks for is not looked into.                                            *)
Garbled == [kind |-> "garbled"]

(* What the fields of a marker must be for its type. *)
WellMade(fields, field, kind) == field \in DOMAIN fields /\ fields[field].kind = kind

(* decodeSerializedRecord is the case of a record, decodeSerializedValue all. *)
RECURSIVE DecodeSerializedValue(_)
DecodeSerializedValue(input) ==
    LET Record(fields) == JsonRecord([f \in DOMAIN fields |-> DecodeSerializedValue(fields[f])])
        Marked(fields, type) ==
          CASE type = "undefined" -> [kind |-> "undefined", content |-> ""]
            [] type = "number" -> [kind |-> "number",
                                   content |-> IF WellMade(fields, "value", "string") /\ fields.value.content \in SpecialNumbers
                                               THEN fields.value.content ELSE "-0"]
            [] type \in {"bigint", "date"} /\ WellMade(fields, "value", "string") ->
                 [kind |-> type, content |-> fields.value.content]
            [] type = "regexp" /\ WellMade(fields, "source", "string") ->
                 [kind |-> "regexp", content |-> fields.source.content]
            [] type = "set" /\ WellMade(fields, "values", "array") ->
                 [kind |-> "set", items |-> [i \in DOMAIN fields.values.items |->
                                               DecodeSerializedValue(fields.values.items[i])]]
            [] type = "map" /\ WellMade(fields, "entries", "array") ->
                 [kind |-> "map", pairs |-> [i \in DOMAIN fields.entries.items |->
                                               LET entry == fields.entries.items[i].fields
                                               IN <<DecodeSerializedValue(entry.key), DecodeSerializedValue(entry.value)>>]]
            [] type = "escaped-object" /\ "value" \in DOMAIN fields -> DecodeSerializedValue(fields.value)
            [] type = "stringified" /\ "value" \in DOMAIN fields -> fields.value
            [] type \in {"bigint", "date", "regexp", "set", "map", "escaped-object", "stringified"} -> Garbled
            [] OTHER -> Record(fields)
    IN CASE input.kind = "array" -> JsonArray([i \in DOMAIN input.items |-> DecodeSerializedValue(input.items[i])])
         [] IsSerializedMarker(input) -> Marked(input.fields, input.fields[TypeKey].content)
         [] input.kind = "record" -> Record(input.fields)
         [] OTHER -> input

(* What is written, where it does not throw, and what is made of it again. *)
SerializeStructuredValue(v)         == BuildSerializedValue(v, FALSE)
DeserializeStructuredValue(written) == DecodeSerializedValue(written)

CloneWithJson(v) == DeserializeStructuredValue(SerializeStructuredValue(v))

-----------------------------------------------------------------------------
(* What is expected of them. *)

(* The objects inside an object, however deep. *)
Inside == TransitiveClosure([o, p \in Objects |-> Ref(p) \in PartsIn(objects[o])], Objects)
Reached(o)    == {p \in Objects : p = o \/ Inside[o, p]}
IsCircular(o) == \E p \in Reached(o) : Inside[p, p]
IsUnknown(o)  == \E p \in Reached(o) : \/ IsUnsupportedObject(objects[p])
                                       \/ \E v \in PartsIn(objects[p]) : v.kind \in {"function", "symbol"}

(* An object of the program's that looks like a marker whose type is known:
   escaped when serialised, but taken for the marker when deserialised.    *)
KnownTypes == {"undefined", "number", "bigint", "date", "regexp", "map", "set", "escaped-object", "stringified"}
HasKnownMarker(o) ==
    \E p \in Reached(o) : /\ objects[p].kind \in {"record", "instance"}
                          /\ IsSerializedMarker(JsonRecord(objects[p].fields))
                          /\ objects[p].fields[TypeKey].content \in KnownTypes

(* A value with its objects in their places. *)
RECURSIVE Unfolded(_)
Unfolded(v) ==
    IF v.kind # "ref" THEN v
    ELSE LET object == objects[v.object]
             items  == [i \in DOMAIN object.items |-> Unfolded(object.items[i])]
             pairs  == [i \in DOMAIN object.pairs |-> <<Unfolded(object.pairs[i][1]), Unfolded(object.pairs[i][2])>>]
         IN CASE object.kind = "array" -> [kind |-> "array", items |-> items]
              [] object.kind = "set"   -> [kind |-> "set", items |-> items]
              [] object.kind = "map"   -> [kind |-> "map", pairs |-> pairs]
              [] OTHER -> [kind |-> "record", fields |-> [f \in DOMAIN object.fields |-> Unfolded(object.fields[f])]]

(* A copy is made of every value that is not inside of itself and has only
   what can be serialised, the same object in two places included, and of no
   other; and the copy is the value, every type kept but the class of an
   instance, unless the program has objects that look like markers.        *)
CopiesAreWhole ==
    \A o \in Objects :
       /\ Throws(Ref(o), "throw", {}) <=> IsCircular(o) \/ IsUnknown(o)
       /\ ~IsCircular(o) /\ ~IsUnknown(o) /\ ~HasKnownMarker(o) => CloneWithJson(Ref(o)) = Unfolded(Ref(o))

(* The same content: sets and maps without their order, records and instances
   by their fields.                                                        *)
RECURSIVE Alike(_, _)
Alike(v, w) ==
    IF "ref" \notin {v.kind, w.kind} THEN v = w
    ELSE /\ v.kind = w.kind
         /\ LET a == objects[v.object]
                b == objects[w.object]
                Plain(object) == object.kind \in {"record", "instance"} /\ ~IsUnsupportedObject(object)
            IN /\ a.kind = b.kind \/ (Plain(a) /\ Plain(b))
               /\ IsUnsupportedObject(a) <=> IsUnsupportedObject(b)
               /\ Len(a.items) = Len(b.items) /\ Len(a.pairs) = Len(b.pairs) /\ DOMAIN a.fields = DOMAIN b.fields
               /\ \A f \in DOMAIN a.fields : Alike(a.fields[f], b.fields[f])
               /\ \E order \in Bijection(DOMAIN a.items, DOMAIN a.items) :
                    /\ a.kind = "array" => \A i \in DOMAIN order : order[i] = i
                    /\ \A i \in DOMAIN order : Alike(a.items[i], b.items[order[i]])
               /\ \E order \in Bijection(DOMAIN a.pairs, DOMAIN a.pairs) :
                    \A i \in DOMAIN order : \A side \in 1..2 : Alike(a.pairs[i][side], b.pairs[order[i]][side])

(* Stable keys are the same for the same content, and for no other. *)
StableKeysAgree ==
    \A o, p \in Objects :
       o # p /\ ~IsCircular(o) /\ ~IsCircular(p) =>
         (StableStructuredValue(Ref(o)) = StableStructuredValue(Ref(p)) <=> Alike(Ref(o), Ref(p)))
=============================================================================
