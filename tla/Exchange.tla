------------------------------- MODULE Exchange -------------------------------
(***************************************************************************)
(* What the envelopes of requests, answers and publications hold on their  *)
(* way: from a client (packages/client-ws-transport) through the server's  *)
(* transport (packages/server-ws-transport), the hooks of the runtime      *)
(* (packages/runtime) and the schema module (packages/schema), and back to *)
(* all clients; and what is reported of those that fail, which the         *)
(* dead-letter module emits again (packages/dlq-module).                   *)
(*                                                                         *)
(* The connections stay open here: ClientTransport and Service have those  *)
(* that fail.  What msgpack packs it unpacks; what a message leaves out of *)
(* an envelope is modelled.                                                *)
(***************************************************************************)
EXTENDS Naturals, Sequences, FiniteSets

CONSTANTS
    Askers,        \* clients
    Published,     \* by operation: the topics it publishes to, in order
    Hooks,         \* what the application's own receive hook may do
    MaxAsked,      \* bound: requests
    MaxReplays     \* bound: reports that are emitted again

ExchangeConstants ==
    /\ Hooks \subseteq {"none", "adds", "refuses", "throws"} /\ Hooks # {}
    /\ MaxAsked \in Nat /\ MaxReplays \in Nat
    /\ \A op \in DOMAIN Published : Published[op] \in Seq(STRING)

VARIABLES
    hook,       \* the hook the server has
    asked,      \* history: per request its operation
    waiting,    \* the clients' pending maps: ids of requests
    up,         \* messages on the way to the server, with their client
    runs,       \* emitReceive calls under way
    down,       \* messages on the way to each client
    reports,    \* what the error hooks were given
    replays,    \* how often a report was emitted again
    outcome,    \* history: what each settled request was settled with
    heard,      \* history: the events each client was given
    emitted     \* history: the events the server emitted

exchangeVars == <<hook, asked, waiting, up, runs, down, reports, replays, outcome, heard, emitted>>

-----------------------------------------------------------------------------
(* Envelopes.  An absent payload or error is <<>>, absent metadata and
   context have no keys; ids and values of metadata are tuples.            *)
Envelope(id, event, status, metadata, context, payload, error) ==
    [id |-> id, event |-> event, status |-> status, metadata |-> metadata,
     context |-> context, payload |-> payload, error |-> error]

Empty == <<>>
IsEnvelopePayload(e) == e.payload # <<>>

(* mergeMetadata, mergeContext: the second has the last word. *)
Merge(base, extra) ==
    [x \in DOMAIN base \cup DOMAIN extra |-> IF x \in DOMAIN extra THEN extra[x] ELSE base[x]]

(* defaultEncode: an envelope with a payload is sent without its error. *)
Encode(e) == IF IsEnvelopePayload(e) THEN [e EXCEPT !.error = <<>>] ELSE e

(* defaultDecode, decodeEventError: of an error what is not a text is lost. *)
DecodeEventError(error) == [message |-> IF error.message = <<>> THEN <<"Unknown error">> ELSE error.message, context |-> error.context]
Decode(wire) == IF IsEnvelopePayload(wire) THEN wire ELSE [wire EXCEPT !.error = <<DecodeEventError(wire.error[1])>>]

(* buildEnvelope, in a room or in none. *)
BuildEnvelope(input, room) == [input EXCEPT !.metadata = Merge(room, input.metadata)]

(* mergeEvent: what next(update) changes for the hooks that follow. *)
MergeEvent(base, update) ==
    [base EXCEPT !.metadata = Merge(@, update.metadata), !.context = Merge(@, update.context),
                 !.payload = IF update.payload # <<>> THEN update.payload ELSE @,
                 !.error   = IF update.error # <<>> THEN update.error ELSE @]

(* errorFromUnknown of what was thrown: an Error or an object with a message
   and a context, or without; a text; or anything else.                    *)
ErrorFromUnknown(thrown) ==
    [message |-> IF thrown.message = <<>> THEN <<"Unknown error">> ELSE thrown.message,
     context |-> IF thrown.kind = "object" THEN thrown.context ELSE Empty]

(* buildFailedEnvelope *)
BuildFailedEnvelope(e, thrown) ==
    [e EXCEPT !.error = <<ErrorFromUnknown(thrown)>>, !.context = Merge(@, ErrorFromUnknown(thrown).context)]

Thrown == { [kind |-> "object", message |-> <<>>, context |-> [cause |-> <<"hook">>]],
            [kind |-> "text", message |-> <<"failed">>, context |-> Empty] }
Update == Envelope(<<>>, "", "receiving", [seen |-> <<"yes">>], [user |-> <<"known">>], <<>>, <<>>)
Refusal == [message |-> <<"refused">>, context |-> Empty]

-----------------------------------------------------------------------------
ExchangeInit ==
    /\ hook \in Hooks
    /\ asked = Empty /\ outcome = Empty
    /\ waiting = {} /\ up = {} /\ runs = {} /\ reports = {} /\ heard = {} /\ emitted = {}
    /\ down = [c \in Askers |-> <<>>]
    /\ replays = 0

(* A client's request: its correlation is its id as well. *)
Request(c, op) ==
    LET id == <<c, Cardinality(DOMAIN asked)>>
        e  == Envelope(id, op, "sending", [correlationId |-> id], Empty, <<<<op, id>>>>, <<>>)
    IN /\ id[2] < MaxAsked
       /\ asked' = Merge(asked, [q \in {id} |-> op])
       /\ waiting' = waiting \cup {id}
       /\ up' = up \cup {[from |-> c, wire |-> Encode(e)]}
       /\ UNCHANGED <<hook, runs, down, reports, replays, outcome, heard, emitted>>

(* Its timeout: what comes later finds no request. *)
TimesOut(q) ==
    /\ waiting' = waiting \ {q}
    /\ UNCHANGED <<hook, asked, up, runs, down, reports, replays, outcome, heard, emitted>>

(* The server's buildClientContext and buildReceiveEmitInput: the context of
   the connection has the last word.                                       *)
ClientContext(c) == Merge([transport |-> <<"ws">>, clientId |-> <<c>>], [user |-> <<"unknown">>])
ReceiveInput(e, c) == [e EXCEPT !.status = "receiving", !.context = Merge(@, ClientContext(c))]

Run(e) == [env |-> e, phase |-> "hook", topics |-> <<>>]

Receive(m) ==
    /\ up' = up \ {m}
    /\ runs' = runs \cup {Run(BuildEnvelope(ReceiveInput(Decode(m.wire), m.from), Empty))}
    /\ UNCHANGED <<hook, asked, waiting, down, reports, replays, outcome, heard, emitted>>

(* emitEvent: the transport sends the event to every client. *)
Emit(e) ==
    /\ down' = [c \in Askers |-> Append(down[c], Encode(e))]
    /\ emitted' = emitted \cup {e.id}

Becomes(r, s) == runs' = (runs \ {r}) \cup {s}
Ends(r) == runs' = runs \ {r}

(* What the server emits in a run has an id of its own, and the metadata and
   the context of the request.                                             *)
Sent(r, event, metadata, payload, error) ==
    Envelope(Append(r.env.id, event), event, "sending", metadata, r.env.context, payload, error)

(* The application's hook: it does nothing, adds to the envelope for the
   hooks that follow, emits an error event in place of an answer, or throws. *)
Passes(r) ==
    /\ r.phase = "hook" /\ hook \in {"none", "adds"}
    /\ Becomes(r, [r EXCEPT !.phase = "schema", !.env = IF hook = "adds" THEN MergeEvent(@, Update) ELSE @])
    /\ UNCHANGED <<hook, asked, waiting, up, down, reports, replays, outcome, heard, emitted>>

Refuses(r) ==
    /\ r.phase = "hook" /\ hook = "refuses"
    /\ Emit(Sent(r, r.env.event, r.env.metadata, <<>>, <<Refusal>>))
    /\ Ends(r)
    /\ UNCHANGED <<hook, asked, waiting, up, reports, replays, outcome, heard>>

Reports(r, e) ==
    /\ reports' = reports \cup {e} /\ Ends(r)
    /\ UNCHANGED <<hook, asked, waiting, up, down, replays, outcome, heard, emitted>>

HookThrows(r) ==
    /\ r.phase = "hook" /\ hook = "throws"
    /\ \E thrown \in Thrown : Reports(r, BuildFailedEnvelope(r.env, thrown))

(* schemaModule.onReceive: an event that names no operation is passed on; an
   operation that throws is reported by emitErrorEvent, and nobody answers. *)
Unknown(r) ==
    /\ r.phase = "schema" /\ r.env.event \notin DOMAIN Published
    /\ Ends(r)
    /\ UNCHANGED <<hook, asked, waiting, up, down, reports, replays, outcome, heard, emitted>>

OperationThrows(r) ==
    /\ r.phase = "schema" /\ r.env.event \in DOMAIN Published
    /\ Reports(r, [r.env EXCEPT !.error = <<[message |-> <<"thrown">>, context |-> [phase |-> <<"execute">>]]>>])

Succeeds(r) ==
    /\ r.phase = "schema" /\ r.env.event \in DOMAIN Published
    /\ Becomes(r, [r EXCEPT !.phase = "publish", !.topics = Published[r.env.event]])
    /\ UNCHANGED <<hook, asked, waiting, up, down, reports, replays, outcome, heard, emitted>>

(* publisher: the room of the operation and the key of the publication are
   added to the metadata of the request.                                   *)
Publish(r) ==
    /\ r.phase = "publish" /\ r.topics # <<>>
    /\ LET topic == Head(r.topics) IN
       Emit(Sent(r, topic, Merge(r.env.metadata, [room |-> <<"hall">>]), <<<<topic, r.env.payload[1][2]>>>>, <<>>))
    /\ Becomes(r, [r EXCEPT !.topics = Tail(@)])
    /\ UNCHANGED <<hook, asked, waiting, up, reports, replays, outcome, heard>>

(* Mutant: the answer is made with an envelope's metadata of its own. *)
AnswerAnew(r) ==
    /\ r.phase = "publish" /\ r.topics = <<>>
    /\ Emit(Sent(r, r.env.event, Empty, r.env.payload, <<>>))
    /\ Ends(r)
    /\ UNCHANGED <<hook, asked, waiting, up, reports, replays, outcome, heard>>

(* The answer: the result stands for the operation and its input. *)
Answer(r) ==
    /\ r.phase = "publish" /\ r.topics = <<>>
    /\ Emit(Sent(r, r.env.event, r.env.metadata, r.env.payload, <<>>))
    /\ Ends(r)
    /\ UNCHANGED <<hook, asked, waiting, up, reports, replays, outcome, heard>>

(* replayInputFromStoredEvent: the envelope of the report, its error with it,
   goes through the hooks again.                                           *)
Replay(e) ==
    /\ replays < MaxReplays /\ replays' = replays + 1
    /\ reports' = reports \ {e}
    /\ runs' = runs \cup {Run(BuildEnvelope([e EXCEPT !.context = Merge(@, [dlq |-> <<"1">>])], Empty))}
    /\ UNCHANGED <<hook, asked, waiting, up, down, outcome, heard, emitted>>

(* The client's handleEnvelope: an envelope whose correlation is that of a
   pending request settles it; it is also given to the application, as an
   event, unless it settled a request of its own name.                     *)
Deliver(c) ==
    LET e  == Decode(Head(down[c]))
        q  == IF "correlationId" \in DOMAIN e.metadata THEN e.metadata["correlationId"] ELSE <<>>
        settles == q \in waiting /\ q[1] = c
    IN /\ down[c] # <<>>
       /\ down' = [down EXCEPT ![c] = Tail(@)]
       /\ waiting' = IF settles THEN waiting \ {q} ELSE waiting
       /\ outcome' = IF settles THEN Merge(outcome, [p \in {q} |-> e]) ELSE outcome
       /\ heard' = IF settles /\ e.event = asked[q] THEN heard ELSE heard \cup {<<c, e.id>>}
       /\ UNCHANGED <<hook, asked, up, runs, reports, replays, emitted>>

ExchangeNext ==
    \/ \E c \in Askers : Deliver(c) \/ \E op \in DOMAIN Published \cup {"unknown"} : Request(c, op)
    \/ \E q \in waiting : TimesOut(q)
    \/ \E m \in up : Receive(m)
    \/ \E r \in runs :
        \/ Passes(r) \/ Refuses(r) \/ HookThrows(r)
        \/ Unknown(r) \/ OperationThrows(r) \/ Succeeds(r) \/ Publish(r) \/ Answer(r)
    \/ \E e \in reports : Replay(e)

-----------------------------------------------------------------------------
(* A request is settled by what its own operation emitted for it, whoever
   else's events come to its client; with its answer, unless the operation
   publishes, as the publications carry its correlation as well and come
   first; or with the error a hook refused it with.                        *)
RequestsGetTheirOwn ==
    \A q \in DOMAIN outcome :
        LET e == outcome[q] IN
        /\ IsEnvelopePayload(e) => e.payload[1] = <<e.event, q>> /\ hook # "refuses"
        /\ ~IsEnvelopePayload(e) => e.error[1] = Refusal
        /\ e.event = asked[q] \/ \E i \in DOMAIN Published[asked[q]] : e.event = Published[asked[q]][i]

(* A run, and what is reported of it, has the message of a client as that
   client sent it and the context of its connection, through every hook and
   every replay: what a replay answers is the request.                     *)
RunsKnowTheirRequest ==
    /\ \A e \in {r.env : r \in runs} \cup reports :
        /\ e.id \in DOMAIN asked /\ e.event = asked[e.id]
        /\ e.payload[1] = <<e.event, e.id>> /\ e.metadata["correlationId"] = e.id
        /\ e.context["clientId"] = <<e.id[1]>>
    /\ \A e \in reports : e.error[1].message # <<>>

(* When nothing is under way, what the server emitted has come to every
   client, as an event or as the answer to its own request, and no request
   waits that something was emitted for.                                   *)
AllIsDelivered ==
    (up = {} /\ runs = {} /\ \A c \in Askers : down[c] = <<>>) =>
        /\ \A id \in emitted, c \in Askers :
            \/ <<c, id>> \in heard
            \/ c = id[1] /\ \E q \in DOMAIN outcome : outcome[q].id = id
        /\ \A q \in waiting : ~\E id \in emitted : q = <<id[1], id[2]>>

Delivered == RequestsGetTheirOwn /\ RunsKnowTheirRequest /\ AllIsDelivered
=============================================================================
