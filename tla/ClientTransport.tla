--------------------------- MODULE ClientTransport ---------------------------
(***************************************************************************)
(* The websocket transport of clients (packages/client-ws-transport): a    *)
(* current socket, a queue of requests that wait for one, requests that    *)
(* wait for their answer, and two timers that reconnect.                   *)
(*                                                                         *)
(* Everything is a callback: the events of every socket ever opened, the   *)
(* timers, the calls of the application, and the continuations of promises *)
(* (tasks), which run before the next event or timer does but not before   *)
(* the rest of the code that made them runnable: the application may make  *)
(* further calls first.                                                    *)
(*                                                                         *)
(* A socket that is still connecting is dropped for another one whenever   *)
(* anybody asks for a connection, and keeps its listeners.  (connectPromise *)
(* is set and cleared together with socket, so the test that would share   *)
(* an attempt under way comes too late and is left out.)  Sockets are      *)
(* numbered; the number of a socket that can have no effect any more is    *)
(* used again.                                                             *)
(*                                                                         *)
(* Left out: encoding, the reports to onError, and the events that are     *)
(* passed on to the runtime when a message is not (only) an answer.        *)
(***************************************************************************)
EXTENDS Integers, Sequences, FiniteSets

CONSTANTS
    Options,       \* the configurations of transports, and whether send may throw
                   \* and answers may be undecodable
    MaxRequests,   \* bound: requests made
    MaxSockets,    \* bound: sockets with an effect at a time
    MaxTasks       \* bound: continuations the application lets pile up

ASSUME TransportAssumption ==
    /\ Options \subseteq [reconnect : BOOLEAN, queue : BOOLEAN, queueMaxSize : Nat,
                          dropOldest : BOOLEAN, requestTimeout : BOOLEAN,
                          throws : BOOLEAN, garbles : BOOLEAN]
    /\ MaxRequests \in Nat /\ MaxSockets \in Nat /\ MaxTasks \in Nat

Requests == 1..MaxRequests
Sockets  == 1..MaxSockets
NoSocket == 0

VARIABLES
    options,              \* what the transport was created with: never changes
    socket,               \* the current socket
    readyState,           \* of every socket
    attempt,              \* the promise of the socket's connection attempt
    awaits,               \* who waits for that promise
    reconnectTimer,
    reconnectPollTimer,
    reconnectRequested,
    queued,
    pending,
    timers,               \* the pending requests whose timeout is running
    sentOn,               \* the socket a request was sent on
    asked,                \* requests the server may answer
    settled,              \* how often a request's resolve or reject was called
    garbled,              \* history: requests whose answer could not be decoded
    issued,               \* requests made so far
    tasks                 \* continuations that are ready to run

connection == <<socket, readyState, attempt, awaits>>
reconnects == <<reconnectTimer, reconnectPollTimer, reconnectRequested>>
sending    == <<pending, timers, sentOn, asked>>
vars == <<options, socket, readyState, attempt, awaits, reconnectTimer, reconnectPollTimer,
          reconnectRequested, queued, pending, timers, sentOn, asked, settled, garbled,
          issued, tasks>>

(* Who called ensureSocket: request, the two timers, connect, flushQueued for
   either of them, or, without a queue, a request that will be sent.       *)
Callers == {"request", "reconnect", "poll", "connect", "flush", "connectFlush", "send"}
Waiting == [what : Callers \ {"send"}, request : {0}] \cup [what : {"send"}, request : Requests]
Task    == [what : Callers \ {"send"}, request : {0}, on : Sockets]
           \cup [what : {"send"}, request : Requests, on : Sockets]
Caller(what) == [what |-> what, request |-> 0]
Nobody  == [what |-> "reconnect", request |-> 0]

TypeOK ==
    /\ options \in Options
    /\ socket \in Sockets \cup {NoSocket}
    /\ readyState \in [Sockets -> {"connecting", "open", "closing", "closed"}]
    /\ attempt \in [Sockets -> {"none", "pending", "opened", "failed"}]
    /\ awaits \in [Sockets -> Waiting]
    /\ {reconnectTimer, reconnectPollTimer, reconnectRequested} \subseteq BOOLEAN
    /\ queued \in Seq(Requests) /\ Len(queued) <= options.queueMaxSize
    /\ pending \subseteq Requests /\ timers \subseteq Requests
    /\ sentOn \in [Requests -> Sockets \cup {NoSocket}]
    /\ asked \subseteq Requests /\ garbled \subseteq Requests
    /\ settled \in [Requests -> Nat]
    /\ issued \in 0..MaxRequests
    /\ tasks \in Seq(Task)

Init ==
    /\ options \in Options
    /\ socket = NoSocket
    /\ readyState = [s \in Sockets |-> "closed"]
    /\ attempt = [s \in Sockets |-> "none"]
    /\ awaits = [s \in Sockets |-> Nobody]
    /\ reconnectTimer = FALSE
    /\ reconnectPollTimer = FALSE
    /\ reconnectRequested = FALSE
    /\ queued = <<>>
    /\ pending = {}
    /\ timers = {}
    /\ sentOn = [r \in Requests |-> NoSocket]
    /\ asked = {}
    /\ settled = [r \in Requests |-> 0]
    /\ garbled = {}
    /\ issued = 0
    /\ tasks = <<>>

-----------------------------------------------------------------------------
(* Helpers *)

Members(seq) == {seq[n] : n \in DOMAIN seq}

IsOpen == socket # NoSocket /\ readyState[socket] = "open"

(* Microtasks are done: the next event or timer may have its turn. *)
Quiet == tasks = <<>>

(* Sockets without an effect, to number the next one. *)
Free == {s \in Sockets : readyState[s] = "closed" /\ attempt[s] # "pending" /\ s # socket
                         /\ \A n \in DOMAIN tasks : tasks[n].on # s}

(* resolve or reject of requests *)
Settle(rs) == settled' = [r \in Requests |-> IF r \in rs THEN settled[r] + 1 ELSE settled[r]]

(* scheduleReconnect and scheduleReconnectPoll, if a connection is wanted. *)
Armed(timer, requested) == timer \/ (options.reconnect /\ requested)

ScheduleBoth(requested) ==
    /\ reconnectTimer' = Armed(reconnectTimer, requested)
    /\ reconnectPollTimer' = Armed(reconnectPollTimer, requested)

(* What becomes ready when the promise of the socket is resolved. *)
Ready(rest, caller, s) ==
    IF caller.what = "reconnect" THEN rest
    ELSE Append(rest, [what |-> caller.what, request |-> caller.request, on |-> s])

(* ensureSocket: the open socket, or a new one in place of any other. *)
EnsureSocket(caller, rest) ==
    IF IsOpen
    THEN tasks' = Ready(rest, caller, socket) /\ UNCHANGED connection
    ELSE /\ Free # {}
         /\ LET s == CHOOSE t \in Free : TRUE
            IN /\ socket' = s
               /\ readyState' = [readyState EXCEPT ![s] = "connecting"]
               /\ attempt' = [attempt EXCEPT ![s] = "pending"]
               /\ awaits' = [awaits EXCEPT ![s] = caller]
         /\ tasks' = rest

(* Mutant: a sent request's timeout is not started. *)
SendUntimed(s, rs) ==
    /\ pending' = pending \cup rs
    /\ sentOn' = [r \in Requests |-> IF r \in rs THEN s ELSE sentOn[r]]
    /\ asked' = IF readyState[s] = "open" THEN asked \cup rs ELSE asked
    /\ UNCHANGED timers

(* sendQueued, where send does not throw. *)
Send(s, rs) ==
    /\ pending' = pending \cup rs
    /\ timers' = IF options.requestTimeout THEN timers \cup rs ELSE timers
    /\ sentOn' = [r \in Requests |-> IF r \in rs THEN s ELSE sentOn[r]]
    /\ asked' = IF readyState[s] = "open" THEN asked \cup rs ELSE asked

(* Mutant: the queue is full one entry later. *)
EnqueueOneMore(r) ==
    /\ queued' = Append(IF Len(queued) > options.queueMaxSize THEN Tail(queued) ELSE queued, r)
    /\ Settle(IF Len(queued) > options.queueMaxSize THEN {Head(queued)} ELSE {})

(* enqueue *)
Enqueue(r) ==
    LET full == Len(queued) >= options.queueMaxSize
    IN \/ ~full /\ queued' = Append(queued, r) /\ Settle({})
       \/ /\ full /\ options.dropOldest /\ queued # <<>>
          /\ queued' = Append(Tail(queued), r)
          /\ Settle({Head(queued)})
       \/ /\ full /\ (~options.dropOldest \/ queued = <<>>)
          /\ UNCHANGED queued
          /\ Settle({r})

-----------------------------------------------------------------------------
(* Calls of the application *)

(* request, with an open socket whose send does not throw *)
RequestSent(r) ==
    /\ IsOpen
    /\ Send(socket, {r})
    /\ UNCHANGED <<connection, queued, settled, reconnectTimer, reconnectPollTimer, tasks>>

(* request, without a queue *)
RequestUnqueued(r) ==
    /\ ~options.queue
    /\ \/ /\ IsOpen /\ options.throws
          /\ Settle({r})
          /\ UNCHANGED <<connection, tasks>>
       \/ /\ ~IsOpen
          /\ EnsureSocket([what |-> "send", request |-> r], tasks)
          /\ UNCHANGED settled
    /\ UNCHANGED <<sending, queued, reconnectTimer, reconnectPollTimer>>

(* request, put in the queue for want of an open socket or after send threw *)
RequestQueued(r) ==
    /\ options.queue
    /\ ~IsOpen \/ options.throws
    /\ Enqueue(r)
    /\ ScheduleBoth(TRUE)
    /\ EnsureSocket(Caller("request"), tasks)
    /\ UNCHANGED sending

Request ==
    LET r == issued + 1
    IN /\ r \in Requests
       /\ issued' = r
       /\ reconnectRequested' = TRUE
       /\ RequestSent(r) \/ RequestUnqueued(r) \/ RequestQueued(r)
       /\ UNCHANGED <<options, garbled>>

Connect ==
    /\ reconnectRequested' = TRUE
    /\ EnsureSocket(Caller("connect"), tasks)
    /\ UNCHANGED <<options, reconnectTimer, reconnectPollTimer, queued, sending, settled,
                   garbled, issued>>

(* close: what is pending is only rejected if there is a current socket. *)
Close ==
    LET current == socket # NoSocket
    IN /\ reconnectRequested' = FALSE
       /\ reconnectTimer' = FALSE
       /\ reconnectPollTimer' = FALSE
       /\ queued' = <<>>
       /\ Settle(Members(queued) \cup (IF current THEN pending ELSE {}))
       /\ pending' = IF current THEN {} ELSE pending
       /\ timers' = IF current THEN timers \ pending ELSE timers
       /\ socket' = NoSocket
       /\ readyState' = [s \in Sockets |->
                            IF s = socket /\ readyState[s] \in {"connecting", "open"}
                            THEN "closing" ELSE readyState[s]]
       /\ UNCHANGED <<options, attempt, awaits, sentOn, asked, garbled, issued, tasks>>

Calls ==
    \/ Len(tasks) < MaxTasks /\ (Request \/ Connect)
    \/ Close

-----------------------------------------------------------------------------
(* Continuations *)

(* Mutants: a request whose send threw is lost, or goes to the end. *)
FlushNextLosing(s, n) ==
    /\ Send(s, {queued[m] : m \in 1..n})
    /\ queued' = SubSeq(queued, n + 2, Len(queued))

FlushNextToTheEnd(s, n) ==
    /\ Send(s, {queued[m] : m \in 1..n})
    /\ queued' = IF n < Len(queued)
                 THEN Append(SubSeq(queued, n + 2, Len(queued)), queued[n + 1])
                 ELSE <<>>

(* flushNext: n requests are sent, and send throws for the next, if any. *)
FlushNext(s, n) ==
    /\ Send(s, {queued[m] : m \in 1..n})
    /\ queued' = SubSeq(queued, n + 1, Len(queued))

(* flushQueued, up to the promise of the socket; connect then polls. *)
StartFlush ==
    LET task == Head(tasks)
        then == IF task.what = "connect" THEN "connectFlush" ELSE "flush"
        poll == task.what = "poll" \/ (task.what = "connect" /\ queued = <<>>)
    IN /\ task.what \in {"request", "poll", "connect"}
       /\ IF queued = <<>> THEN tasks' = Tail(tasks) /\ UNCHANGED connection
          ELSE EnsureSocket(Caller(then), Tail(tasks))
       /\ reconnectPollTimer' = Armed(reconnectPollTimer, poll /\ reconnectRequested)
       /\ UNCHANGED <<reconnectTimer, queued, sending, settled>>

(* The rest of flushQueued; a send that throws asks for a reconnection, and
   connect polls whatever happens.                                         *)
Flush ==
    LET task == Head(tasks)
    IN /\ task.what \in {"flush", "connectFlush"}
       /\ \E n \in 0..Len(queued) :
             LET stuck == n < Len(queued)
                 poll  == stuck \/ task.what = "connectFlush"
             IN /\ stuck => options.throws
                /\ FlushNext(task.on, n)
                /\ reconnectTimer' = Armed(reconnectTimer, stuck /\ reconnectRequested)
                /\ reconnectPollTimer' = Armed(reconnectPollTimer, poll /\ reconnectRequested)
       /\ tasks' = Tail(tasks)
       /\ UNCHANGED <<connection, settled>>

(* A request without a queue is sent, or rejected where send throws. *)
SendNow ==
    LET task == Head(tasks)
    IN /\ task.what = "send"
       /\ \/ Send(task.on, {task.request}) /\ UNCHANGED settled
          \/ options.throws /\ Settle({task.request}) /\ UNCHANGED sending
       /\ tasks' = Tail(tasks)
       /\ UNCHANGED <<connection, queued, reconnectTimer, reconnectPollTimer>>

RunTask ==
    /\ tasks # <<>>
    /\ StartFlush \/ Flush \/ SendNow
    /\ UNCHANGED <<options, reconnectRequested, garbled, issued>>

-----------------------------------------------------------------------------
(* Events of sockets *)

(* handleOpen: nothing looks whether the socket is the current one. *)
Opens(s) ==
    /\ Quiet
    /\ readyState[s] = "connecting" /\ attempt[s] = "pending"
    /\ readyState' = [readyState EXCEPT ![s] = "open"]
    /\ attempt' = [attempt EXCEPT ![s] = "opened"]
    /\ awaits' = [awaits EXCEPT ![s] = Nobody]
    /\ reconnectPollTimer' = FALSE
    /\ tasks' = Ready(tasks, awaits[s], s)
    /\ UNCHANGED <<options, socket, reconnectTimer, reconnectRequested, queued, sending,
                   settled, garbled, issued>>

(* Mutant: a failed attempt is not repeated. *)
AttemptFailsForGood(s) ==
    /\ Quiet
    /\ attempt[s] = "pending"
    /\ socket' = NoSocket
    /\ readyState' = [readyState EXCEPT ![s] = "closed"]
    /\ attempt' = [attempt EXCEPT ![s] = "failed"]
    /\ awaits' = [awaits EXCEPT ![s] = Nobody]
    /\ Settle(IF awaits[s].what = "send" THEN {awaits[s].request} ELSE {})
    /\ UNCHANGED <<options, reconnects, queued, sending, garbled, issued, tasks>>

(* handleError, handlePrematureClose and the connect timeout: the current
   socket is forgotten, be it this one or not.  The continuations of the
   promise do nothing that this has not done, but for a request without a
   queue.                                                                  *)
AttemptFails(s) ==
    /\ Quiet
    /\ attempt[s] = "pending"
    /\ socket' = NoSocket
    /\ readyState' = [readyState EXCEPT ![s] = "closed"]
    /\ attempt' = [attempt EXCEPT ![s] = "failed"]
    /\ awaits' = [awaits EXCEPT ![s] = Nobody]
    /\ ScheduleBoth(reconnectRequested)
    /\ Settle(IF awaits[s].what = "send" THEN {awaits[s].request} ELSE {})
    /\ UNCHANGED <<options, reconnectRequested, queued, sending, garbled, issued, tasks>>

(* The closing handshake of an open socket begins at the other end. *)
StartsClosing(s) ==
    /\ Quiet
    /\ readyState[s] = "open"
    /\ readyState' = [readyState EXCEPT ![s] = "closing"]
    /\ UNCHANGED <<options, socket, attempt, awaits, reconnects, queued, sending, settled,
                   garbled, issued, tasks>>

(* Mutant: what is pending waits for the next connection. *)
ClosesQuietly(s) ==
    /\ Quiet
    /\ readyState[s] \in {"open", "closing"} /\ attempt[s] = "opened"
    /\ readyState' = [readyState EXCEPT ![s] = "closed"]
    /\ attempt' = [attempt EXCEPT ![s] = "none"]
    /\ socket' = NoSocket
    /\ asked' = {r \in asked : sentOn[r] # s}
    /\ ScheduleBoth(reconnectRequested)
    /\ UNCHANGED <<options, awaits, reconnectRequested, queued, pending, timers, sentOn,
                   settled, garbled, issued, tasks>>

(* handleClose: the current socket is forgotten and all that is pending is
   rejected, be it of this socket or not.                                  *)
Closes(s) ==
    /\ Quiet
    /\ readyState[s] \in {"open", "closing"} /\ attempt[s] = "opened"
    /\ readyState' = [readyState EXCEPT ![s] = "closed"]
    /\ attempt' = [attempt EXCEPT ![s] = "none"]
    /\ socket' = NoSocket
    /\ Settle(pending)
    /\ pending' = {}
    /\ timers' = timers \ pending
    /\ asked' = {r \in asked : sentOn[r] # s}
    /\ ScheduleBoth(reconnectRequested)
    /\ UNCHANGED <<options, awaits, reconnectRequested, queued, sentOn, garbled, issued, tasks>>

(* Mutant: an answer leaves the timeout running. *)
AnswerUncancelled(r, decodes) ==
    /\ Quiet
    /\ r \in asked /\ readyState[sentOn[r]] = "open"
    /\ decodes \/ options.garbles
    /\ asked' = asked \ {r}
    /\ pending' = pending \ {r}
    /\ Settle(IF decodes THEN {r} \cap pending ELSE {})
    /\ garbled' = IF decodes THEN garbled ELSE garbled \cup ({r} \cap pending)
    /\ UNCHANGED <<options, connection, reconnects, queued, timers, sentOn, issued, tasks>>

(* handleEnvelope of an answer: the request it correlates with is settled if
   it is still pending.  An answer whose payload cannot be decoded is only
   reported, after the request was taken out of pending.                   *)
Answer(r, decodes) ==
    /\ Quiet
    /\ r \in asked /\ readyState[sentOn[r]] = "open"
    /\ decodes \/ options.garbles
    /\ asked' = asked \ {r}
    /\ pending' = pending \ {r}
    /\ timers' = IF r \in pending THEN timers \ {r} ELSE timers
    /\ Settle(IF decodes THEN {r} \cap pending ELSE {})
    /\ garbled' = IF decodes THEN garbled ELSE garbled \cup ({r} \cap pending)
    /\ UNCHANGED <<options, connection, reconnects, queued, sentOn, issued, tasks>>

-----------------------------------------------------------------------------
(* Timers *)

RequestTimesOut(r) ==
    /\ Quiet
    /\ r \in timers
    /\ timers' = timers \ {r}
    /\ pending' = pending \ {r}
    /\ Settle({r})
    /\ UNCHANGED <<options, connection, reconnects, queued, sentOn, asked, garbled, issued,
                   tasks>>

(* The queue is not flushed on this way. *)
ReconnectTimerFires ==
    /\ Quiet
    /\ reconnectTimer
    /\ reconnectTimer' = FALSE
    /\ EnsureSocket(Caller("reconnect"), tasks)
    /\ UNCHANGED <<options, reconnectPollTimer, reconnectRequested, queued, sending, settled,
                   garbled, issued>>

ReconnectPollFires ==
    /\ Quiet
    /\ reconnectPollTimer
    /\ IF ~reconnectRequested \/ IsOpen THEN UNCHANGED <<connection, tasks>>
       ELSE EnsureSocket(Caller("poll"), tasks)
    /\ reconnectPollTimer' = Armed(FALSE, reconnectRequested /\ IsOpen)
    /\ UNCHANGED <<options, reconnectTimer, reconnectRequested, queued, sending, settled,
                   garbled, issued>>

-----------------------------------------------------------------------------
Next ==
    \/ Calls
    \/ RunTask
    \/ \E s \in Sockets : Opens(s) \/ AttemptFails(s) \/ StartsClosing(s) \/ Closes(s)
    \/ \E r \in Requests, decodes \in BOOLEAN : Answer(r, decodes)
    \/ \E r \in Requests : RequestTimesOut(r)
    \/ ReconnectTimerFires
    \/ ReconnectPollFires

Spec == Init /\ [][Next]_vars

-----------------------------------------------------------------------------
(* Properties *)

Made     == 1..issued
Unsent   == {awaits[s].request : s \in {t \in Sockets : awaits[t].what = "send"}}
            \cup {tasks[n].request : n \in {m \in DOMAIN tasks : tasks[m].what = "send"}}

(* A request whose promise is not settled is in the queue once, or pending,
   or waits for its socket, and in one of these only.  (But for the requests
   whose answer could not be decoded.)                                     *)
InOnePlace ==
    \A r \in Made : settled[r] = 0 =>
        Cardinality({n \in DOMAIN queued : queued[n] = r})
            + Cardinality({r} \cap pending) + Cardinality({r} \cap Unsent)
            + Cardinality({r} \cap garbled) = 1

QueueInOrder == \A m, n \in DOMAIN queued : m < n => queued[m] < queued[n]

(* No request is forgotten, and those that wait do so in the order in which
   they were made, whatever sockets close and whatever sends fail.         *)
NoRequestIsForgotten == InOnePlace /\ QueueInOrder

(* In whatever state the sockets and the queue come to, a request that is not
   settled is queued, waits for its answer or has its timeout.             *)
RequestsAreKept == TypeOK /\ NoRequestIsForgotten

(* The life of a request as RequestLife has it. *)
Life(r) ==
    IF settled[r] > 1 THEN "settled again"
    ELSE IF settled[r] = 1 THEN "settled"
    ELSE IF r \in garbled THEN "lost"
    ELSE IF r \in pending THEN "sent"
    ELSE IF r \in Made THEN "waiting" ELSE "new"

Promised == INSTANCE RequestLife WITH life <- [r \in Requests |-> Life(r)]

(* The transport implements RequestLife: however answers, timeouts, closing
   sockets, a full queue, sends that throw and close race, a request is sent
   once at most, and its promise settled once at most.                     *)
ImplementsRequestLife == Promised!Spec

(* A pending request was sent on a connection whose end will be noticed: it
   can still be answered, or will be rejected when that socket closes.     *)
PendingHasAConnection ==
    \A r \in pending : readyState[sentOn[r]] \in {"open", "closing"}
                       /\ attempt[sentOn[r]] = "opened"

(* With a request timeout, the requests that wait for an answer are exactly
   those whose timeout is running.                                         *)
TimeoutsMatchPending ==
    timers = IF options.requestTimeout THEN pending ELSE {}

(* No request waits for an answer for ever, and no timeout of one that was
   answered or rejected fires.                                             *)
PendingIsWatched == PendingHasAConnection /\ TimeoutsMatchPending

(* While a connection is wanted there is one, or an attempt at one, or a
   timer that will make an attempt: the transport never gives up.          *)
ReconnectIsArmed ==
    options.reconnect /\ reconnectRequested =>
        \/ reconnectTimer \/ reconnectPollTimer
        \/ socket # NoSocket /\ \/ attempt[socket] = "pending"
                                \/ /\ attempt[socket] = "opened"
                                   /\ readyState[socket] \in {"open", "closing"}

(* close leaves no request pending. *)
CloseRejectsEverything == [][Close => pending' = {}]_vars

-----------------------------------------------------------------------------
(* Transports for the configurations of TLC: one whose queue drops what is
   oldest, one whose send may throw and whose requests have a timeout, one
   whose queue rejects what is new and whose answers may be undecodable, and
   one without queue and reconnection.                                     *)
Plain  == [reconnect |-> TRUE, queue |-> TRUE, queueMaxSize |-> 1, dropOldest |-> TRUE,
           requestTimeout |-> FALSE, throws |-> FALSE, garbles |-> FALSE]
Timed  == [Plain EXCEPT !.queueMaxSize = 2, !.requestTimeout = TRUE, !.throws = TRUE]
Full   == [Plain EXCEPT !.dropOldest = FALSE, !.garbles = TRUE]
Direct == [Plain EXCEPT !.queue = FALSE, !.reconnect = FALSE, !.throws = TRUE,
                        !.requestTimeout = TRUE]

AllKinds  == {Plain, Timed, Full, Direct}
OnlyPlain == {Plain}
=============================================================================
