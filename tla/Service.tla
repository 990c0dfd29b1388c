------------------------------ MODULE Service ------------------------------
(***************************************************************************)
(* A server as apps/server builds it: the runtime with the websocket       *)
(* transport (packages/server-ws-transport), the dead-letter module and    *)
(* the schema module (packages/schema/src/schemaModule.ts, operation.ts).  *)
(*                                                                         *)
(* A message of a client is emitted to the receive hooks: the transport    *)
(* echoes a ping, the schema module executes an operation, publishes to    *)
(* its topics one after the other, and emits the answer.  What is emitted  *)
(* goes through the transport's send hook to every client at once.  Each   *)
(* failure on the way is reported to the dead-letter module with the       *)
(* envelope it was met with: the request for a failing decode, operation,  *)
(* publication or encoding of the answer, the emitted event for one that   *)
(* could not be encoded or sent.                                           *)
(***************************************************************************)
EXTENDS DeadLetterQueue, Sequences, SequencesExt

CONSTANTS
    Clients,         \* sockets
    Requests,        \* ids of the messages of clients that name an operation
    Topics,          \* the topics each request's operation publishes to, in order
    MaxExecutions    \* bound on the executions of one request

(* The ids of what is emitted: per execution one for each topic and one for
   the answer, and one for the echo of a client's ping.  They are not those
   of requests.                                                            *)
TopicNames == UNION {ToSet(Topics[q]) : q \in Requests}
EventIds   == (Requests \X (0..MaxExecutions) \X (TopicNames \cup {"answer"}))
              \cup (Clients \X {0} \X {"echo"})

ASSUME ServiceAssumption ==
    /\ MaxExecutions \in Nat
    /\ \A q \in Requests : Topics[q] \in Seq(TopicNames)
    /\ EventIds \cap Requests = {}

VARIABLES
    connected,       \* the clients map
    open,            \* the sockets whose readyState is OPEN
    arrived,         \* the ids of the messages that have been received
    runs,            \* the emitReceive of requests under way
    executions,      \* how often a request's operation was executed
    owed             \* history: what failed and has not gone through since

serviceVars == <<connected, open, arrived, runs, executions, owed>>
vars == <<dlqVars, serviceVars>>

(* A run: the request, its attempts so far (context.dlq), whether it is a
   replay the tick waits for, and how much it has done.                    *)
Run(q, n, replay) == [id |-> q, attempts |-> n, replay |-> replay, phase |-> "received", topics |-> <<>>]

(* An emitted event has an id of its own; it carries the request's context.
   A client that it could not be sent to is added to the context.          *)
Server == "server"
Sending(id, n)   == [id |-> id, attempts |-> n, replayAs |-> "sending", by |-> Server]
Emitted(r, what) == Sending(<<r.id, executions[r.id], what>>, r.attempts)
Received(r)      == [id |-> r.id, attempts |-> r.attempts, replayAs |-> "receiving", by |-> Server]

(* The ids of the events the dead-letter module has, in whatever stage. *)
Kept == IdsOf(storing \cup stored \cup ready \cup replaying)

Init ==
    /\ DlqInit
    /\ connected = {} /\ open = {} /\ arrived = {} /\ runs = {}
    /\ executions = [q \in Requests |-> 0]
    /\ owed = {}

-----------------------------------------------------------------------------
(* server.on('connection') and the socket's close: in between, a socket that
   is closing is still in the map.                                         *)
Connects(c) ==
    /\ c \notin connected
    /\ connected' = connected \cup {c} /\ open' = open \cup {c}
    /\ UNCHANGED <<dlqVars, arrived, runs, executions, owed>>

StartsClosing(c) ==
    /\ c \in open
    /\ open' = open \ {c}
    /\ owed' = {o \in owed : o.by # c}
    /\ UNCHANGED <<dlqVars, connected, arrived, runs, executions>>

Closes(c) ==
    /\ c \in connected \ open
    /\ connected' = connected \ {c}
    /\ UNCHANGED <<dlqVars, open, arrived, runs, executions, owed>>

(* The transport's onSend hook: e is encoded once and sent to every open
   client; each failure is reported by itself, and next() is called in any
   case.  What fails, or is sent, is what is owed from now on.             *)
Send(e, unencodable, failing) ==
    /\ unencodable \in BOOLEAN /\ failing \subseteq connected \cap open
    /\ unencodable => failing = {}
    /\ Report({[e EXCEPT !.by = c] : c \in failing} \cup {f \in {e} : unencodable})
    /\ owed' = {o \in owed : o.id # e.id}
               \cup {[id |-> e.id, by |-> c] : c \in IF unencodable THEN connected \cap open ELSE failing}

Sends(e) == \E u \in BOOLEAN, f \in SUBSET (connected \cap open) : Send(e, u, f)

(* The request of a run fails: emitErrorEvent, or the runtime's own report. *)
Fails(r) ==
    /\ Report({Received(r)})
    /\ owed' = owed \cup {[id |-> r.id, by |-> Server]}

Quiet == UNCHANGED <<storing, ticker, owed>>

(* The emitReceive of a run resolves. *)
Ends(r) ==
    /\ runs' = runs \ {r}
    /\ IF r.replay THEN EndReplay(r.id) ELSE UNCHANGED <<tick, ready, stored, replaying, rejections, lost, maxAttempts>>

Becomes(r, s) ==
    /\ runs' = (runs \ {r}) \cup {s}
    /\ UNCHANGED <<stored, tick, ready, replaying, rejections, lost, maxAttempts>>

-----------------------------------------------------------------------------
(* socket.on('message'): a message that cannot be decoded is only reported
   to the transport's callback; every other one is emitted.                *)
Message(c, q) ==
    /\ c \in open /\ q \notin arrived
    /\ arrived' = arrived \cup {q}
    /\ runs' = runs \cup {Run(q, 0, FALSE)}
    /\ UNCHANGED <<dlqVars, connected, open, executions, owed>>

(* schemaModule.onReceive: the payload is decoded outside the try. *)
Undecodable(r) ==
    /\ r.phase = "received"
    /\ Fails(r) /\ Ends(r)
    /\ UNCHANGED <<connected, open, arrived, executions>>

Execute(r) ==
    /\ r.phase = "received" /\ executions[r.id] < MaxExecutions
    /\ executions' = [executions EXCEPT ![r.id] = @ + 1]
    /\ Becomes(r, [r EXCEPT !.phase = "executing", !.topics = Topics[r.id]])
    /\ UNCHANGED <<storing, ticker, owed, connected, open, arrived>>

(* runOperation: parsing the input, the operation, or parsing its output
   throws: an error event, and the run resolves.                           *)
Throws(r) ==
    /\ r.phase = "executing"
    /\ Fails(r) /\ Ends(r)
    /\ UNCHANGED <<connected, open, arrived, executions>>

Succeeds(r) ==
    /\ r.phase = "executing"
    /\ Becomes(r, [r EXCEPT !.phase = "publishing"])
    /\ owed' = owed \ {[id |-> r.id, by |-> Server]}
    /\ UNCHANGED <<storing, ticker, connected, open, arrived, executions>>

(* runPublishHooks: one topic after the other, and the failure of one is
   reported and does not keep the next from being published.               *)
Publish(r) ==
    /\ r.phase = "publishing" /\ r.topics # <<>>
    /\ \/ Quiet
       \/ Fails(r)
       \/ Sends(Emitted(r, Head(r.topics)))
    /\ Becomes(r, [r EXCEPT !.topics = Tail(r.topics)])
    /\ UNCHANGED <<connected, open, arrived, executions>>

(* The answer: when it cannot be encoded the runtime reports the request. *)
Answer(r) ==
    /\ r.phase = "publishing" /\ r.topics = <<>>
    /\ Fails(r) \/ Sends(Emitted(r, "answer"))
    /\ Ends(r)
    /\ UNCHANGED <<connected, open, arrived, executions>>

(* A ping, or a request for the schema, is answered with an event of its own. *)
Echo(c) ==
    /\ c \in open
    /\ LET e == Sending(<<c, 0, "echo">>, 0) IN
       /\ e.id \notin arrived
       /\ arrived' = arrived \cup {e.id}
       /\ Sends(e)
    /\ UNCHANGED <<connected, open, runs, executions, stored, tick, ready, replaying, rejections, lost, maxAttempts>>

(* replayStoredEvent: a received event is emitted to the receive hooks
   again, with the context that counts its attempts; another one is sent,
   each here in a step of its own.                                         *)
Replay ==
    /\ StartReplays
    /\ runs' = runs \cup {Run(e.id, e.attempts, TRUE) : e \in {f \in ready : f.status = "receiving"}}
    /\ UNCHANGED <<storing, ticker, connected, open, arrived, executions, owed>>

Resend(e) ==
    /\ e \in replaying /\ e.status = "sending"
    /\ Sends([Sending(e.id, e.attempts) EXCEPT !.by = e.by])
    /\ EndReplay(e.id)
    /\ UNCHANGED <<connected, open, arrived, runs, executions>>

Pipeline(r) == Execute(r) \/ Succeeds(r) \/ Publish(r) \/ Answer(r)

Next ==
    \/ DlqCallbacks /\ UNCHANGED serviceVars
    \/ \E c \in Clients : Connects(c) \/ StartsClosing(c) \/ Closes(c) \/ Echo(c)
    \/ \E c \in Clients, q \in Requests : Message(c, q)
    \/ \E r \in runs : Undecodable(r) \/ Throws(r) \/ Pipeline(r)
    \/ Replay \/ \E e \in replaying : Resend(e)

(* The interval timer fires, the application's callbacks settle and an
   operation that was started ends.                                        *)
Fairness ==
    /\ WF_vars((TickerFires \/ NothingPending \/ Load \/ \E e \in storing : Stores(e)) /\ UNCHANGED serviceVars)
    /\ WF_vars(Replay \/ \E e \in replaying : Resend(e))
    /\ WF_vars(\E r \in runs : Pipeline(r))

Spec == Init /\ [][Next]_vars /\ Fairness

-----------------------------------------------------------------------------
ServiceTypeOK ==
    /\ DlqTypeOK
    /\ open \subseteq connected /\ connected \subseteq Clients
    /\ \A r \in runs : r.id \in arrived /\ r.phase \in {"received", "executing", "publishing"}
    /\ executions \in [Requests -> 0..MaxExecutions]

(* What failed and has not gone through since is kept by the dead-letter
   module, unless the application could not store it.                      *)
FailuresAreKept == \A o \in owed : o.id \in Kept \cup lost

(* An event is replayed by one run at a time, which its tick waits for: the
   next tick does not load it again while it is under way.                 *)
ReplaysDoNotOverlap ==
    /\ ReplaysHaveATick
    /\ \A r \in runs : r.replay => r.id \in IdsOf(replaying)
    /\ \A r, s \in runs : r.replay /\ s.replay /\ r.id = s.id => r = s

(* Retrying ends: the ticker stops again and again. *)
TickerStops == []<>~ticker
=============================================================================
