----------------------- MODULE ClientTransportProofs -----------------------
(***************************************************************************)
(* Theorems about the client transport, for every configuration and every  *)
(* bound.                                                                  *)
(*                                                                         *)
(* The argument: a socket that is open has been opened, and continuations  *)
(* run on sockets that were; so what is sent is sent on a connection whose *)
(* end will be noticed.  Each request is in one place at a time, and every *)
(* step moves it along the way RequestLife allows.                         *)
(***************************************************************************)
EXTENDS ClientTransport, TLAPS, SequenceTheorems, FiniteSetTheorems

(* The configuration is one of the given ones and never changes. *)
LEMMA OptionsType ==
    ASSUME TypeOK
    PROVE  /\ options.queueMaxSize \in Nat
           /\ {options.reconnect, options.queue, options.dropOldest,
               options.requestTimeout, options.throws, options.garbles} \subseteq BOOLEAN
  BY TransportAssumption DEF TypeOK

(* The number of the next socket is one that is free. *)
NextSocket == CHOOSE t \in Free : TRUE

LEMMA NextSocketIsFree == Free # {} => NextSocket \in Free
  BY DEF NextSocket

LEMMA FreeMeaning ==
    \A s \in Free : /\ s \in Sockets /\ s # socket
                    /\ readyState[s] = "closed" /\ attempt[s] # "pending"
                    /\ \A n \in DOMAIN tasks : tasks[n].on # s
  BY DEF Free

LEMMA SocketNumbers == NoSocket \notin Sockets /\ Sockets \subseteq Nat /\ Requests \subseteq Nat
  BY TransportAssumption DEF NoSocket, Sockets, Requests

LEMMA TaskSeq == TypeOK => tasks \in Seq(Task)
  BY DEF TypeOK

LEMMA ReadyType ==
    ASSUME NEW rest \in Seq(Task), NEW caller \in Waiting, NEW s \in Sockets
    PROVE  Ready(rest, caller, s) \in Seq(Task)
<1>1. [what |-> caller.what, request |-> caller.request, on |-> s] \in Task
  BY DEF Task, Waiting
<1> QED
  BY <1>1, AppendProperties DEF Ready

(* ensureSocket keeps the types of what it changes. *)
LEMMA EnsureSocketType ==
    ASSUME TypeOK, NEW caller \in Waiting, NEW rest \in Seq(Task), EnsureSocket(caller, rest)
    PROVE  /\ socket' \in Sockets \cup {NoSocket}
           /\ readyState' \in [Sockets -> {"connecting", "open", "closing", "closed"}]
           /\ attempt' \in [Sockets -> {"none", "pending", "opened", "failed"}]
           /\ awaits' \in [Sockets -> Waiting]
           /\ tasks' \in Seq(Task)
<1>1. CASE IsOpen
  <2>1. socket \in Sockets
    BY <1>1 DEF IsOpen, TypeOK
  <2>2. UNCHANGED connection /\ tasks' \in Seq(Task)
    BY <1>1, <2>1, ReadyType DEF EnsureSocket
  <2> QED
    BY <2>2 DEF connection, TypeOK
<1>2. CASE ~IsOpen
  <2>1. NextSocket \in Sockets
    BY <1>2, NextSocketIsFree, FreeMeaning DEF EnsureSocket
  <2>2. /\ socket' = NextSocket
        /\ readyState' = [readyState EXCEPT ![NextSocket] = "connecting"]
        /\ attempt' = [attempt EXCEPT ![NextSocket] = "pending"]
        /\ awaits' = [awaits EXCEPT ![NextSocket] = caller]
        /\ tasks' = rest
    BY <1>2 DEF EnsureSocket, NextSocket
  <2> QED
    BY <2>1, <2>2 DEF TypeOK
<1> QED
  BY <1>1, <1>2

LEMMA CallerType == \A what \in Callers \ {"send"} : Caller(what) \in Waiting
  BY DEF Caller, Waiting

LEMMA NobodyType == Nobody \in Waiting
  BY DEF Nobody, Waiting, Callers

LEMMA SettleType ==
    ASSUME TypeOK, NEW rs, Settle(rs)
    PROVE  /\ settled' \in [Requests -> Nat]
           /\ \A r \in Requests : settled'[r] = IF r \in rs THEN settled[r] + 1 ELSE settled[r]
  BY DEF Settle, TypeOK

LEMMA SendType ==
    ASSUME TypeOK, NEW s \in Sockets, NEW rs \in SUBSET Requests, Send(s, rs)
    PROVE  /\ pending' \subseteq Requests /\ timers' \subseteq Requests
           /\ sentOn' \in [Requests -> Sockets \cup {NoSocket}]
           /\ asked' \subseteq Requests
  BY DEF Send, TypeOK

LEMMA EnqueueType ==
    ASSUME TypeOK, NEW r \in Requests, Enqueue(r)
    PROVE  /\ queued' \in Seq(Requests) /\ Len(queued') <= options.queueMaxSize
           /\ settled' \in [Requests -> Nat]
<1>1. options.queueMaxSize \in Nat /\ queued \in Seq(Requests) /\ Len(queued) \in Nat
      /\ Len(queued) <= options.queueMaxSize
  BY OptionsType DEF TypeOK
<1>2. settled' \in [Requests -> Nat]
  BY SettleType DEF Enqueue
<1>3. CASE ~(Len(queued) >= options.queueMaxSize) /\ queued' = Append(queued, r)
  BY <1>1, <1>2, <1>3, AppendProperties
<1>4. CASE queued # <<>> /\ queued' = Append(Tail(queued), r)
  <2>1. Tail(queued) \in Seq(Requests) /\ Len(Tail(queued)) = Len(queued) - 1
    BY <1>1, <1>4, HeadTailProperties
  <2> QED
    BY <1>1, <1>2, <1>4, <2>1, AppendProperties
<1>5. CASE UNCHANGED queued
  BY <1>1, <1>2, <1>5
<1> QED
  BY <1>3, <1>4, <1>5 DEF Enqueue

(* flushNext and flushQueued send from the front of the queue. *)
LEMMA FlushType ==
    ASSUME TypeOK, NEW s \in Sockets, NEW n \in 0..Len(queued), FlushNext(s, n)
    PROVE  /\ queued' \in Seq(Requests) /\ Len(queued') <= options.queueMaxSize
           /\ pending' \subseteq Requests /\ timers' \subseteq Requests
           /\ sentOn' \in [Requests -> Sockets \cup {NoSocket}]
           /\ asked' \subseteq Requests
<1>1. queued \in Seq(Requests) /\ Len(queued) \in Nat /\ options.queueMaxSize \in Nat
      /\ Len(queued) <= options.queueMaxSize
  BY OptionsType, LenProperties DEF TypeOK
<1>2. \A m \in 1..Len(queued) : queued[m] \in Requests
  BY <1>1, ElementOfSeq
<1>3. {queued[m] : m \in 1..n} \in SUBSET Requests
  BY <1>1, <1>2
<1>4. Send(s, {queued[m] : m \in 1..n}) /\ queued' = SubSeq(queued, n + 1, Len(queued))
  BY DEF FlushNext
<1>5. \A m \in n + 1 .. Len(queued) : queued[m] \in Requests
  BY <1>1, <1>2
<1>6. queued' \in Seq(Requests) /\ Len(queued') <= Len(queued)
  BY <1>1, <1>4, <1>5, SubSeqProperties
<1> QED
  BY <1>1, <1>3, <1>4, <1>6, SendType

LEMMA NextTaskType ==
    ASSUME TypeOK, tasks # <<>>
    PROVE  /\ Head(tasks) \in Task /\ Tail(tasks) \in Seq(Task)
           /\ Head(tasks).on \in Sockets
<1>1. Head(tasks) \in Task /\ Tail(tasks) \in Seq(Task)
  BY TaskSeq, HeadTailProperties
<1> QED
  BY <1>1 DEF Task

LEMMA TypeInitial == Init => TypeOK
<1> SUFFICES ASSUME Init PROVE TypeOK
  OBVIOUS
<1>1. options.queueMaxSize \in Nat
  BY TransportAssumption DEF Init
<1>2. Nobody \in Waiting
  BY NobodyType
<1>3. queued \in Seq(Requests) /\ Len(queued) = 0
      /\ tasks \in Seq(Task)
  BY EmptySeq DEF Init
<1>4. issued \in 0..MaxRequests
  BY TransportAssumption DEF Init
<1>5. settled \in [Requests -> Nat] /\ sentOn \in [Requests -> Sockets \cup {NoSocket}]
  BY DEF Init
<1>6. awaits \in [Sockets -> Waiting] /\ attempt \in [Sockets -> {"none", "pending", "opened", "failed"}]
  BY <1>2 DEF Init
<1>7. Len(queued) <= options.queueMaxSize
  BY <1>1, <1>3
<1>8. readyState \in [Sockets -> {"connecting", "open", "closing", "closed"}]
  BY DEF Init
<1> QED
  BY <1>3, <1>4, <1>5, <1>6, <1>7, <1>8 DEF Init, TypeOK

(* Every step keeps the types. *)
LEMMA TypeStep == TypeOK /\ [Next]_vars => TypeOK'
<1> SUFFICES ASSUME TypeOK, [Next]_vars PROVE TypeOK'
  OBVIOUS
<1>1. CASE Request
  <2> DEFINE r == issued + 1
  <2>1. /\ r \in Requests /\ issued' = r /\ reconnectRequested' = TRUE
        /\ UNCHANGED <<options, garbled>> /\ issued' \in 0..MaxRequests
    BY <1>1 DEF Request, Requests
  <2>2. CASE RequestSent(r)
    <3>1. socket \in Sockets
      BY <2>2 DEF RequestSent, IsOpen, TypeOK
    <3>2. Send(socket, {r}) /\ {r} \in SUBSET Requests
      BY <2>1, <2>2 DEF RequestSent
    <3> HIDE DEF r
    <3> QED
      BY <2>1, <2>2, <3>1, <3>2, SendType DEF RequestSent, connection, TypeOK
  <2>3. CASE RequestUnqueued(r)
    <3> HIDE DEF r
    <3>1. CASE Settle({r}) /\ UNCHANGED <<connection, tasks>>
      BY <2>1, <2>3, <3>1, SettleType DEF RequestUnqueued, connection, sending, TypeOK
    <3>2. CASE EnsureSocket([what |-> "send", request |-> r], tasks) /\ UNCHANGED settled
      <4>1. [what |-> "send", request |-> r] \in Waiting
        BY <2>1 DEF Waiting, Callers
      <4> QED
        BY <2>1, <2>3, <3>2, <4>1, TaskSeq, EnsureSocketType
           DEF RequestUnqueued, sending, TypeOK
    <3> QED
      BY <2>3, <3>1, <3>2 DEF RequestUnqueued
  <2>4. CASE RequestQueued(r)
    <3> HIDE DEF r
    <3>1. Enqueue(r) /\ ScheduleBoth(TRUE) /\ EnsureSocket(Caller("request"), tasks)
          /\ UNCHANGED sending
      BY <2>4 DEF RequestQueued
    <3>2. {reconnectTimer', reconnectPollTimer'} \subseteq BOOLEAN
      BY <3>1, OptionsType DEF ScheduleBoth, Armed, TypeOK
    <3>3. Caller("request") \in Waiting
      BY CallerType DEF Callers
    <3> QED
      BY <2>1, <3>1, <3>2, <3>3, TaskSeq, EnsureSocketType, EnqueueType
         DEF sending, TypeOK
  <2> QED
    BY <1>1, <2>2, <2>3, <2>4 DEF Request
<1>2. CASE Connect
  <2>1. Caller("connect") \in Waiting
    BY CallerType DEF Callers
  <2> QED
    BY <1>2, <2>1, TaskSeq, EnsureSocketType DEF Connect, sending, TypeOK
<1>3. CASE Close
  <2>1. settled' \in [Requests -> Nat]
    BY <1>3, SettleType DEF Close
  <2>2. queued' \in Seq(Requests) /\ Len(queued') = 0 /\ options.queueMaxSize \in Nat
    BY <1>3, EmptySeq, OptionsType DEF Close
  <2>3. readyState' \in [Sockets -> {"connecting", "open", "closing", "closed"}]
    BY <1>3 DEF Close, TypeOK
  <2>4. pending' \subseteq Requests /\ timers' \subseteq Requests
    BY <1>3 DEF Close, TypeOK
  <2>5. /\ reconnectRequested' = FALSE /\ reconnectTimer' = FALSE
        /\ reconnectPollTimer' = FALSE /\ socket' = NoSocket
        /\ UNCHANGED <<options, attempt, awaits, sentOn, asked, garbled, issued, tasks>>
    BY <1>3 DEF Close
  <2>6. Len(queued') <= options'.queueMaxSize
    BY <2>2, <2>5
  <2>7. {reconnectTimer', reconnectPollTimer', reconnectRequested'} \subseteq BOOLEAN
    BY <2>5
  <2> QED
    BY <2>1, <2>2, <2>3, <2>4, <2>5, <2>6, <2>7 DEF TypeOK
<1>4. CASE RunTask
  <2>1. /\ tasks # <<>>
        /\ UNCHANGED <<options, reconnectRequested, garbled, issued>>
    BY <1>4 DEF RunTask
  <2>2. Head(tasks) \in Task /\ Tail(tasks) \in Seq(Task) /\ Head(tasks).on \in Sockets
    BY <2>1, NextTaskType
  <2>3. CASE StartFlush
    <3>1. /\ reconnectPollTimer' \in BOOLEAN
          /\ UNCHANGED <<reconnectTimer, queued, sending, settled>>
      <4>1. PICK poll \in BOOLEAN : reconnectPollTimer' = Armed(reconnectPollTimer, poll)
        <5> DEFINE poll == \/ Head(tasks).what = "poll"
                           \/ (Head(tasks).what = "connect" /\ queued = <<>>)
        <5>1. reconnectPollTimer' = Armed(reconnectPollTimer, poll /\ reconnectRequested)
          BY <2>3 DEF StartFlush
        <5>2. (poll /\ reconnectRequested) \in BOOLEAN
          OBVIOUS
        <5> QED
          BY <5>1, <5>2
      <4> QED
        BY <2>3, <4>1, OptionsType DEF StartFlush, Armed, TypeOK
    <3>2. CASE tasks' = Tail(tasks) /\ UNCHANGED connection
      BY <2>1, <2>2, <3>1, <3>2 DEF connection, sending, TypeOK
    <3>3. ASSUME NEW then \in {"connectFlush", "flush"},
                 EnsureSocket(Caller(then), Tail(tasks))
          PROVE  TypeOK'
      <4>1. Caller(then) \in Waiting
        BY CallerType DEF Callers
      <4> QED
        BY <2>1, <2>2, <3>1, <3>3, <4>1, EnsureSocketType DEF sending, TypeOK
    <3> QED
      BY <2>3, <3>2, <3>3 DEF StartFlush
  <2>4. CASE Flush
    <3>1. PICK n \in 0..Len(queued), stuck \in BOOLEAN, poll \in BOOLEAN :
             /\ FlushNext(Head(tasks).on, n)
             /\ reconnectTimer' = Armed(reconnectTimer, stuck)
             /\ reconnectPollTimer' = Armed(reconnectPollTimer, poll)
      <4>1. PICK n \in 0..Len(queued) :
             /\ FlushNext(Head(tasks).on, n)
             /\ reconnectTimer' = Armed(reconnectTimer, n < Len(queued) /\ reconnectRequested)
             /\ reconnectPollTimer' = Armed(reconnectPollTimer,
                   (n < Len(queued) \/ Head(tasks).what = "connectFlush") /\ reconnectRequested)
        BY <2>4 DEF Flush
      <4> QED
        BY <4>1
    <3>2. {reconnectTimer', reconnectPollTimer'} \subseteq BOOLEAN
      BY <3>1, OptionsType DEF Armed, TypeOK
    <3>3. tasks' = Tail(tasks) /\ UNCHANGED <<connection, settled>>
      BY <2>4 DEF Flush
    <3> QED
      BY <2>1, <2>2, <3>1, <3>2, <3>3, FlushType DEF connection, TypeOK
  <2>5. CASE SendNow
    <3>1. /\ Head(tasks).what = "send" /\ tasks' = Tail(tasks)
          /\ UNCHANGED <<connection, queued, reconnectTimer, reconnectPollTimer>>
      BY <2>5 DEF SendNow
    <3>2. CASE Settle({Head(tasks).request}) /\ UNCHANGED sending
      BY <2>1, <2>2, <3>1, <3>2, SettleType DEF connection, sending, TypeOK
    <3>3. CASE Send(Head(tasks).on, {Head(tasks).request}) /\ UNCHANGED settled
      <4>1. {Head(tasks).request} \in SUBSET Requests
        BY <2>2, <3>1 DEF Task
      <4> QED
        BY <2>1, <2>2, <3>1, <3>3, <4>1, SendType DEF connection, TypeOK
    <3> QED
      BY <2>5, <3>2, <3>3 DEF SendNow
  <2> QED
    BY <1>4, <2>3, <2>4, <2>5 DEF RunTask
<1>5. ASSUME NEW s \in Sockets, Opens(s) PROVE TypeOK'
  <2>1. awaits[s] \in Waiting /\ tasks' \in Seq(Task)
    BY <1>5, TaskSeq, ReadyType DEF Opens, TypeOK
  <2> QED
    BY <1>5, <2>1, NobodyType DEF Opens, sending, TypeOK
<1>6. ASSUME NEW s \in Sockets, AttemptFails(s) PROVE TypeOK'
  <2>1. settled' \in [Requests -> Nat]
    BY <1>6, SettleType DEF AttemptFails
  <2>2. {reconnectTimer', reconnectPollTimer'} \subseteq BOOLEAN
    BY <1>6, OptionsType DEF AttemptFails, ScheduleBoth, Armed, TypeOK
  <2> QED
    BY <1>6, <2>1, <2>2, NobodyType DEF AttemptFails, sending, TypeOK
<1>7. ASSUME NEW s \in Sockets, StartsClosing(s) PROVE TypeOK'
  BY <1>7 DEF StartsClosing, sending, reconnects, TypeOK
<1>8. ASSUME NEW s \in Sockets, Closes(s) PROVE TypeOK'
  <2>1. settled' \in [Requests -> Nat]
    BY <1>8, SettleType DEF Closes
  <2>2. {reconnectTimer', reconnectPollTimer'} \subseteq BOOLEAN
    BY <1>8, OptionsType DEF Closes, ScheduleBoth, Armed, TypeOK
  <2> QED
    BY <1>8, <2>1, <2>2 DEF Closes, TypeOK
<1>9. ASSUME NEW r \in Requests, NEW decodes \in BOOLEAN, Answer(r, decodes) PROVE TypeOK'
  <2>1. settled' \in [Requests -> Nat]
    BY <1>9, SettleType DEF Answer
  <2>2. timers' \subseteq Requests /\ garbled' \subseteq Requests
    BY <1>9 DEF Answer, TypeOK
  <2> QED
    BY <1>9, <2>1, <2>2 DEF Answer, connection, reconnects, TypeOK
<1>10. ASSUME NEW r \in Requests, RequestTimesOut(r) PROVE TypeOK'
  <2>1. settled' \in [Requests -> Nat]
    BY <1>10, SettleType DEF RequestTimesOut
  <2> QED
    BY <1>10, <2>1 DEF RequestTimesOut, connection, reconnects, TypeOK
<1>11. CASE ReconnectTimerFires
  <2>1. Caller("reconnect") \in Waiting
    BY CallerType DEF Callers
  <2> QED
    BY <1>11, <2>1, TaskSeq, EnsureSocketType DEF ReconnectTimerFires, sending, TypeOK
<1>12. CASE ReconnectPollFires
  <2>1. Caller("poll") \in Waiting
    BY CallerType DEF Callers
  <2>2. reconnectPollTimer' \in BOOLEAN
    BY <1>12 DEF ReconnectPollFires, Armed
  <2>3. CASE UNCHANGED <<connection, tasks>>
    BY <1>12, <2>2, <2>3 DEF ReconnectPollFires, connection, sending, TypeOK
  <2>4. CASE EnsureSocket(Caller("poll"), tasks)
    BY <1>12, <2>1, <2>2, <2>4, TaskSeq, EnsureSocketType
       DEF ReconnectPollFires, sending, TypeOK
  <2> QED
    BY <1>12, <2>3, <2>4 DEF ReconnectPollFires
<1>13. CASE UNCHANGED vars
  BY <1>13 DEF vars, TypeOK
<1> QED
  BY <1>1, <1>2, <1>3, <1>4, <1>5, <1>6, <1>7, <1>8, <1>9, <1>10, <1>11, <1>12, <1>13
     DEF Next, Calls

(* The state of a transport has the types the code gives it: in particular
   the queue never holds more than its configuration allows.               *)
THEOREM TypeCorrect == Spec => []TypeOK
<1>1. Init => TypeOK
  BY TypeInitial
<1>2. TypeOK /\ [Next]_vars => TypeOK'
  BY TypeStep
<1> QED
  BY <1>1, <1>2, PTL DEF Spec

-----------------------------------------------------------------------------
(* Connections *)

(* The connection of a socket is there, or its end was not noticed yet. *)
Up(s) == readyState[s] \in {"open", "closing"} /\ attempt[s] = "opened"

(* A socket that is open has been opened, a continuation runs on a connection
   that is up, and a request that waits for a socket waits for its opening. *)
SocketsMatch ==
    /\ \A s \in Sockets : readyState[s] = "open" => attempt[s] = "opened"
    /\ \A n \in DOMAIN tasks : Up(tasks[n].on)
    /\ \A s \in Sockets : awaits[s].what = "send" => attempt[s] = "pending"

(* Stronger than ReconnectIsArmed: the poll is not needed for it. *)
ConnectionComes ==
    options.reconnect /\ reconnectRequested =>
        \/ reconnectTimer
        \/ socket # NoSocket /\ (attempt[socket] = "pending" \/ Up(socket))

Watched ==
    /\ SocketsMatch
    /\ PendingIsWatched /\ (\A r \in pending : sentOn[r] \in Sockets)
    /\ ConnectionComes

(* What ensureSocket does: one more continuation, or another socket. *)
LEMMA EnsureSocketCases ==
    ASSUME NEW caller, NEW rest, EnsureSocket(caller, rest)
    PROVE  \/ /\ IsOpen /\ tasks' = Ready(rest, caller, socket)
              /\ UNCHANGED <<socket, readyState, attempt, awaits>>
           \/ \E s \in Free :
                 /\ ~IsOpen /\ socket' = s /\ tasks' = rest
                 /\ readyState' = [readyState EXCEPT ![s] = "connecting"]
                 /\ attempt' = [attempt EXCEPT ![s] = "pending"]
                 /\ awaits' = [awaits EXCEPT ![s] = caller]
<1>1. CASE IsOpen
  BY <1>1 DEF EnsureSocket, connection
<1>2. CASE ~IsOpen
  <2>1. NextSocket \in Free
    BY <1>2, NextSocketIsFree DEF EnsureSocket
  <2>2. /\ socket' = NextSocket
        /\ readyState' = [readyState EXCEPT ![NextSocket] = "connecting"]
        /\ attempt' = [attempt EXCEPT ![NextSocket] = "pending"]
        /\ awaits' = [awaits EXCEPT ![NextSocket] = caller]
        /\ tasks' = rest
    BY <1>2 DEF EnsureSocket, NextSocket
  <2> QED
    BY <1>2, <2>1, <2>2
<1> QED
  BY <1>1, <1>2

(* The continuations that are ready after Ready, and after one has run. *)
LEMMA ReadyTasks ==
    ASSUME NEW rest \in Seq(Task), NEW caller \in Waiting, NEW s \in Sockets
    PROVE  \A n \in DOMAIN Ready(rest, caller, s) :
              \/ n \in DOMAIN rest /\ Ready(rest, caller, s)[n] = rest[n]
              \/ Ready(rest, caller, s)[n].on = s
<1>1. CASE caller.what = "reconnect"
  BY <1>1 DEF Ready
<1>2. CASE caller.what # "reconnect"
  <2> DEFINE t == [what |-> caller.what, request |-> caller.request, on |-> s]
  <2>1. t \in Task /\ t.on = s
    BY DEF Task, Waiting
  <2>2. Ready(rest, caller, s) = Append(rest, t)
    BY <1>2 DEF Ready
  <2> HIDE DEF t
  <2>3. /\ Append(rest, t) \in Seq(Task) /\ Len(Append(rest, t)) = Len(rest) + 1
        /\ \A n \in 1..Len(rest) : Append(rest, t)[n] = rest[n]
        /\ Append(rest, t)[Len(rest) + 1] = t
    BY <2>1, AppendProperties
  <2>4. Len(rest) \in Nat /\ DOMAIN rest = 1..Len(rest)
        /\ DOMAIN Append(rest, t) = 1..(Len(rest) + 1)
    BY <2>3, LenProperties
  <2> QED
    BY <2>1, <2>2, <2>3, <2>4
<1> QED
  BY <1>1, <1>2

LEMMA TailTasks ==
    ASSUME TypeOK, tasks # <<>>
    PROVE  /\ 1 \in DOMAIN tasks /\ Head(tasks) = tasks[1]
           /\ \A n \in DOMAIN Tail(tasks) :
                 n + 1 \in DOMAIN tasks /\ Tail(tasks)[n] = tasks[n + 1]
<1>1. tasks \in Seq(Task)
  BY TaskSeq
<1>2. /\ Tail(tasks) \in Seq(Task) /\ Len(Tail(tasks)) = Len(tasks) - 1
      /\ \A n \in 1..Len(Tail(tasks)) : Tail(tasks)[n] = tasks[n + 1]
  BY <1>1, HeadTailProperties
<1>3. Len(tasks) \in Nat \ {0} /\ DOMAIN tasks = 1..Len(tasks)
  BY <1>1, EmptySeq, LenProperties
<1>4. DOMAIN Tail(tasks) = 1..Len(Tail(tasks))
  BY <1>2, LenProperties
<1> QED
  BY <1>1, <1>2, <1>3, <1>4

(* ensureSocket leaves the connections that are up alone, and after it there
   is a connection or an attempt at one.                                   *)
LEMMA EnsureSocketConnects ==
    ASSUME TypeOK, SocketsMatch, NEW caller \in Waiting, NEW rest \in Seq(Task),
           \A n \in DOMAIN rest : \E m \in DOMAIN tasks : rest[n] = tasks[m],
           EnsureSocket(caller, rest)
    PROVE  /\ SocketsMatch'
           /\ \A s \in Sockets : Up(s) => Up(s)'
           /\ socket' # NoSocket /\ (attempt'[socket'] = "pending" \/ Up(socket)')
<1>1. CASE /\ IsOpen /\ tasks' = Ready(rest, caller, socket)
           /\ UNCHANGED <<socket, readyState, attempt, awaits>>
  <2>1. socket \in Sockets /\ Up(socket)
    BY <1>1 DEF IsOpen, TypeOK, SocketsMatch, Up
  <2>2. \A n \in DOMAIN tasks' : Up(tasks'[n].on)
    BY <1>1, <2>1, ReadyTasks DEF SocketsMatch
  <2> QED
    BY <1>1, <2>1, <2>2 DEF SocketsMatch, Up, IsOpen
<1>2. CASE \E s \in Free :
              /\ ~IsOpen /\ socket' = s /\ tasks' = rest
              /\ readyState' = [readyState EXCEPT ![s] = "connecting"]
              /\ attempt' = [attempt EXCEPT ![s] = "pending"]
              /\ awaits' = [awaits EXCEPT ![s] = caller]
  <2>1. PICK s \in Free :
              /\ ~IsOpen /\ socket' = s /\ tasks' = rest
              /\ readyState' = [readyState EXCEPT ![s] = "connecting"]
              /\ attempt' = [attempt EXCEPT ![s] = "pending"]
              /\ awaits' = [awaits EXCEPT ![s] = caller]
    BY <1>2
  <2>2. s \in Sockets /\ readyState[s] = "closed"
        /\ \A n \in DOMAIN tasks : tasks[n].on # s
    BY FreeMeaning
  <2>3. \A t \in Sockets : Up(t) => t # s
    BY <2>2 DEF Up
  <2>4. \A t \in Sockets \ {s} : readyState'[t] = readyState[t] /\ attempt'[t] = attempt[t]
                                 /\ awaits'[t] = awaits[t]
    BY <2>1 DEF TypeOK
  <2>5. readyState'[s] = "connecting" /\ attempt'[s] = "pending"
    BY <2>1, <2>2 DEF TypeOK
  <2>6. \A t \in Sockets : Up(t) => Up(t)'
    BY <2>3, <2>4 DEF Up
  <2>7. \A n \in DOMAIN tasks' : Up(tasks[n].on)'
    <3>1. \A n \in DOMAIN tasks : tasks[n].on \in Sockets
      BY TaskSeq, LenProperties, ElementOfSeq DEF Task
    <3> QED
      BY <2>1, <2>6, <3>1 DEF SocketsMatch, Up
  <2>8. socket' # NoSocket
    BY <2>1, <2>2, SocketNumbers
  <2>9. /\ \A t \in Sockets : readyState'[t] = "open" => attempt'[t] = "opened"
        /\ \A t \in Sockets : awaits'[t].what = "send" => attempt'[t] = "pending"
    BY <2>4, <2>5 DEF SocketsMatch
  <2> QED
    BY <2>1, <2>5, <2>6, <2>7, <2>8, <2>9 DEF SocketsMatch
<1> QED
  BY <1>1, <1>2, EnsureSocketCases

(* Pending requests stay on connections that are up. *)
LEMMA PendingStays ==
    ASSUME TypeOK, Watched, \A s \in Sockets : Up(s) => Up(s)',
           UNCHANGED <<options, pending, timers, sentOn>>
    PROVE  PendingIsWatched' /\ (\A r \in pending' : sentOn'[r] \in Sockets)
  BY DEF Watched, PendingIsWatched, PendingHasAConnection, TimeoutsMatchPending, Up

LEMMA SendIsWatched ==
    ASSUME TypeOK, Watched, NEW s \in Sockets, Up(s), NEW rs \in SUBSET Requests, Send(s, rs),
           UNCHANGED <<options, readyState, attempt>>
    PROVE  PendingIsWatched' /\ (\A r \in pending' : sentOn'[r] \in Sockets)
<1>1. \A r \in pending' : sentOn'[r] \in Sockets /\ Up(sentOn[r])'
  <2> SUFFICES ASSUME NEW r \in pending' PROVE sentOn'[r] \in Sockets /\ Up(sentOn[r])'
    OBVIOUS
  <2>1. r \in Requests /\ sentOn'[r] = (IF r \in rs THEN s ELSE sentOn[r])
    BY DEF Send, TypeOK
  <2>2. CASE r \in rs
    BY <2>1, <2>2 DEF Up
  <2>3. CASE r \notin rs
    BY <2>1, <2>3 DEF Send, Watched, PendingIsWatched, PendingHasAConnection, Up
  <2> QED
    BY <2>2, <2>3
<1>2. TimeoutsMatchPending'
  BY DEF Send, Watched, PendingIsWatched, TimeoutsMatchPending
<1> QED
  BY <1>1, <1>2 DEF PendingIsWatched, PendingHasAConnection, Up

(* Some pending requests are settled or lost. *)
LEMMA FewerAreWatched ==
    ASSUME TypeOK, Watched, NEW rs, pending' = pending \ rs,
           timers' = timers \ (rs \cap pending),
           \A r \in pending \ rs : Up(sentOn[r]) => Up(sentOn[r])',
           UNCHANGED <<options, sentOn>>
    PROVE  PendingIsWatched' /\ (\A r \in pending' : sentOn'[r] \in Sockets)
<1>1. TimeoutsMatchPending'
  BY DEF Watched, PendingIsWatched, TimeoutsMatchPending
<1> QED
  BY <1>1 DEF Watched, PendingIsWatched, PendingHasAConnection, Up

LEMMA NextTaskIsUp ==
    ASSUME TypeOK, SocketsMatch, tasks # <<>>
    PROVE  Up(Head(tasks).on) /\ \A n \in DOMAIN Tail(tasks) : Up(Tail(tasks)[n].on)
  BY TailTasks DEF SocketsMatch

LEMMA WatchedInitial == Init => Watched
  BY TransportAssumption DEF Init, Watched, SocketsMatch, PendingIsWatched, PendingHasAConnection,
     TimeoutsMatchPending, ConnectionComes, Nobody, Up

LEMMA WatchedStep == TypeOK /\ Watched /\ [Next]_vars => Watched'
<1> SUFFICES ASSUME TypeOK, Watched, [Next]_vars PROVE Watched'
  OBVIOUS
<1>a. SocketsMatch /\ PendingIsWatched /\ ConnectionComes
  BY DEF Watched
<1>b. tasks \in Seq(Task) /\ \A n \in DOMAIN tasks : \E m \in DOMAIN tasks : tasks[n] = tasks[m]
  BY TaskSeq
<1>c. ASSUME NEW caller \in Waiting, EnsureSocket(caller, tasks),
             UNCHANGED <<options, pending, timers, sentOn>>
      PROVE  Watched'
  BY <1>a, <1>b, <1>c, EnsureSocketConnects, PendingStays DEF Watched, ConnectionComes
<1>1. CASE Request
  <2> DEFINE r == issued + 1
  <2>1. r \in Requests /\ UNCHANGED options
    BY <1>1 DEF Request
  <2>2. CASE RequestSent(r)
    <3> HIDE DEF r
    <3>1. socket \in Sockets /\ Up(socket)
      BY <2>2, <1>a DEF RequestSent, IsOpen, TypeOK, SocketsMatch, Up
    <3>2. Send(socket, {r}) /\ {r} \in SUBSET Requests
      BY <2>1, <2>2 DEF RequestSent
    <3>3. UNCHANGED <<socket, readyState, attempt, awaits, tasks>>
      BY <2>2 DEF RequestSent, connection
    <3>4. PendingIsWatched' /\ (\A q \in pending' : sentOn'[q] \in Sockets)
      BY <2>1, <3>1, <3>2, <3>3, SendIsWatched
    <3>5. socket' # NoSocket /\ Up(socket)'
      BY <3>1, <3>3, SocketNumbers DEF Up
    <3> QED
      BY <1>a, <3>3, <3>4, <3>5 DEF Watched, SocketsMatch, ConnectionComes, Up
  <2>3. CASE RequestUnqueued(r)
    <3> HIDE DEF r
    <3>1. CASE IsOpen /\ UNCHANGED <<connection, tasks>>
      <4>1. UNCHANGED <<socket, readyState, attempt, awaits, tasks, pending, timers, sentOn>>
        BY <2>3, <3>1 DEF RequestUnqueued, sending, connection
      <4>2. socket' # NoSocket /\ Up(socket)'
        BY <1>a, <3>1, <4>1, SocketNumbers DEF IsOpen, SocketsMatch, Up, TypeOK
      <4>3. PendingIsWatched' /\ (\A q \in pending' : sentOn'[q] \in Sockets)
        BY <2>1, <4>1, PendingStays DEF Up
      <4> QED
        BY <1>a, <4>1, <4>2, <4>3 DEF Watched, SocketsMatch, ConnectionComes, Up
    <3>2. CASE EnsureSocket([what |-> "send", request |-> r], tasks)
      <4>1. [what |-> "send", request |-> r] \in Waiting
        BY <2>1 DEF Waiting, Callers
      <4> QED
        BY <2>1, <2>3, <3>2, <4>1, <1>c DEF RequestUnqueued, sending
    <3> QED
      BY <2>3, <3>1, <3>2 DEF RequestUnqueued
  <2>4. CASE RequestQueued(r)
    <3> HIDE DEF r
    <3>1. Caller("request") \in Waiting
      BY CallerType DEF Callers
    <3> QED
      BY <2>1, <2>4, <3>1, <1>c DEF RequestQueued, sending
  <2> QED
    BY <1>1, <2>2, <2>3, <2>4 DEF Request
<1>2. CASE Connect
  <2>1. Caller("connect") \in Waiting
    BY CallerType DEF Callers
  <2> QED
    BY <1>2, <2>1, <1>c DEF Connect, sending
<1>3. CASE Close
  <2>1. \A s \in Sockets : Up(s) => Up(s)'
    BY <1>3 DEF Close, Up, TypeOK
  <2>2. PICK rs : /\ pending' = pending \ rs /\ timers' = timers \ (rs \cap pending)
                  /\ UNCHANGED <<options, sentOn>>
    <3>1. CASE socket # NoSocket
      <4>1. pending' = pending \ pending /\ timers' = timers \ (pending \cap pending)
        BY <1>3, <3>1 DEF Close
      <4> QED
        BY <1>3, <4>1 DEF Close
    <3>2. CASE socket = NoSocket
      <4>1. pending' = pending \ {} /\ timers' = timers \ ({} \cap pending)
        BY <1>3, <3>2 DEF Close
      <4> QED
        BY <1>3, <4>1 DEF Close
    <3> QED
      BY <3>1, <3>2
  <2>3. PendingIsWatched' /\ (\A q \in pending' : sentOn'[q] \in Sockets)
    BY <2>1, <2>2, FewerAreWatched DEF Watched
  <2>4. SocketsMatch'
    <3>1. \A n \in DOMAIN tasks : tasks[n].on \in Sockets
      BY TaskSeq, LenProperties, ElementOfSeq DEF Task
    <3> QED
      BY <1>3, <1>a, <2>1, <3>1 DEF Close, SocketsMatch, Up, TypeOK
  <2>5. ConnectionComes'
    BY <1>3 DEF Close, ConnectionComes
  <2> QED
    BY <2>3, <2>4, <2>5 DEF Watched
<1>4. CASE RunTask
  <2>1. tasks # <<>> /\ UNCHANGED <<options, reconnectRequested>>
    BY <1>4 DEF RunTask
  <2>2. Head(tasks) \in Task /\ Tail(tasks) \in Seq(Task) /\ Head(tasks).on \in Sockets
    BY <2>1, NextTaskType
  <2>3. Up(Head(tasks).on) /\ \A n \in DOMAIN Tail(tasks) : Up(Tail(tasks)[n].on)
    BY <1>a, <2>1, NextTaskIsUp
  <2>4. \A n \in DOMAIN Tail(tasks) : \E m \in DOMAIN tasks : Tail(tasks)[n] = tasks[m]
    BY <2>1, TailTasks
  <2>5. CASE StartFlush
    <3>1. UNCHANGED <<reconnectTimer, pending, timers, sentOn>>
      BY <2>5 DEF StartFlush, sending
    <3>2. CASE tasks' = Tail(tasks) /\ UNCHANGED connection
      <4>1. UNCHANGED <<socket, readyState, attempt, awaits>>
        BY <3>2 DEF connection
      <4>2. PendingIsWatched' /\ (\A q \in pending' : sentOn'[q] \in Sockets)
        BY <2>1, <3>1, <4>1, PendingStays DEF Up
      <4> QED
        BY <1>a, <2>1, <2>3, <3>1, <3>2, <4>1, <4>2
           DEF Watched, SocketsMatch, ConnectionComes, Up
    <3>3. ASSUME NEW then \in {"connectFlush", "flush"},
                 EnsureSocket(Caller(then), Tail(tasks))
          PROVE  Watched'
      <4>1. Caller(then) \in Waiting
        BY CallerType DEF Callers
      <4> QED
        BY <1>a, <2>1, <2>2, <2>4, <3>1, <3>3, <4>1, EnsureSocketConnects, PendingStays
           DEF Watched, ConnectionComes
    <3> QED
      BY <2>5, <3>2, <3>3 DEF StartFlush
  <2>6. CASE Flush
    <3>1. PICK n \in 0..Len(queued) :
             /\ FlushNext(Head(tasks).on, n)
             /\ reconnectTimer' = Armed(reconnectTimer, n < Len(queued) /\ reconnectRequested)
      BY <2>6 DEF Flush
    <3>2. tasks' = Tail(tasks) /\ UNCHANGED <<socket, readyState, attempt, awaits>>
      BY <2>6 DEF Flush, connection
    <3>3. {queued[m] : m \in 1..n} \in SUBSET Requests
      BY LenProperties, ElementOfSeq DEF TypeOK
    <3>4. PendingIsWatched' /\ (\A q \in pending' : sentOn'[q] \in Sockets)
      BY <2>1, <2>2, <2>3, <3>1, <3>2, <3>3, SendIsWatched DEF FlushNext
    <3>5. reconnectTimer => reconnectTimer'
      BY <3>1 DEF Armed
    <3> QED
      BY <1>a, <2>1, <2>3, <3>2, <3>4, <3>5 DEF Watched, SocketsMatch, ConnectionComes, Up
  <2>7. CASE SendNow
    <3>1. /\ Head(tasks).what = "send" /\ tasks' = Tail(tasks)
          /\ UNCHANGED <<socket, readyState, attempt, awaits, reconnectTimer>>
      BY <2>7 DEF SendNow, connection
    <3>2. PendingIsWatched' /\ (\A q \in pending' : sentOn'[q] \in Sockets)
      <4>1. CASE UNCHANGED sending
        BY <2>1, <3>1, <4>1, PendingStays DEF sending, Up
      <4>2. CASE Send(Head(tasks).on, {Head(tasks).request})
        <5>1. {Head(tasks).request} \in SUBSET Requests
          BY <2>2, <3>1 DEF Task
        <5> QED
          BY <2>1, <2>2, <2>3, <3>1, <4>2, <5>1, SendIsWatched
      <4> QED
        BY <2>7, <4>1, <4>2 DEF SendNow
    <3> QED
      BY <1>a, <2>1, <2>3, <3>1, <3>2 DEF Watched, SocketsMatch, ConnectionComes, Up
  <2> QED
    BY <1>4, <2>5, <2>6, <2>7 DEF RunTask
<1>5. ASSUME NEW s \in Sockets, Opens(s) PROVE Watched'
  <2>1. \A t \in Sockets : Up(t) => Up(t)'
    BY <1>5 DEF Opens, Up, TypeOK
  <2>2. PendingIsWatched' /\ (\A q \in pending' : sentOn'[q] \in Sockets)
    BY <1>5, <2>1, PendingStays DEF Opens, sending
  <2>3. Up(s)'
    BY <1>5 DEF Opens, Up, TypeOK
  <2>4. \A n \in DOMAIN tasks' : Up(tasks[n].on)'
    <3>1. tasks = <<>> /\ tasks' = Ready(tasks, awaits[s], s) /\ awaits[s] \in Waiting
      BY <1>5 DEF Opens, Quiet, TypeOK
    <3>2. DOMAIN tasks = {}
      BY <3>1
    <3>3. \A n \in DOMAIN tasks' : tasks'[n].on = s
      BY ZenonT(60), <1>b, <3>1, <3>2, ReadyTasks
    <3> QED
      BY <2>3, <3>3 DEF Up
  <2>5. /\ \A t \in Sockets : readyState'[t] = "open" => attempt'[t] = "opened"
        /\ \A t \in Sockets : awaits'[t].what = "send" => attempt'[t] = "pending"
    BY <1>5, <1>a DEF Opens, SocketsMatch, TypeOK, Nobody
  <2>6. ConnectionComes'
    BY <1>5, <1>a, <2>1, <2>3 DEF Opens, ConnectionComes, TypeOK, Up
  <2> QED
    BY <2>2, <2>4, <2>5, <2>6 DEF Watched, SocketsMatch
<1>6. ASSUME NEW s \in Sockets, AttemptFails(s) PROVE Watched'
  <2>1. \A t \in Sockets : Up(t) => Up(t)'
    BY <1>6 DEF AttemptFails, Up, TypeOK
  <2>2. PendingIsWatched' /\ (\A q \in pending' : sentOn'[q] \in Sockets)
    BY <1>6, <2>1, PendingStays DEF AttemptFails, sending
  <2>3. SocketsMatch'
    <3>1. \A t \in Sockets : readyState'[t] = "open" => attempt'[t] = "opened"
      BY <1>6, <1>a DEF AttemptFails, SocketsMatch, TypeOK
    <3>2. \A t \in Sockets : awaits'[t].what = "send" => attempt'[t] = "pending"
      BY <1>6, <1>a DEF AttemptFails, SocketsMatch, TypeOK, Nobody
    <3>3. tasks' = <<>>
      BY <1>6 DEF AttemptFails, Quiet
    <3> QED
      BY <3>1, <3>2, <3>3 DEF SocketsMatch
  <2>4. ConnectionComes'
    BY <1>6 DEF AttemptFails, ScheduleBoth, Armed, ConnectionComes
  <2> QED
    BY <2>2, <2>3, <2>4 DEF Watched
<1>7. ASSUME NEW s \in Sockets, StartsClosing(s) PROVE Watched'
  <2>1. \A t \in Sockets : Up(t) => Up(t)'
    BY <1>7 DEF StartsClosing, Up, TypeOK
  <2>2. PendingIsWatched' /\ (\A q \in pending' : sentOn'[q] \in Sockets)
    BY <1>7, <2>1, PendingStays DEF StartsClosing, sending
  <2>3. SocketsMatch'
    BY <1>7, <1>a DEF StartsClosing, SocketsMatch, Quiet, TypeOK
  <2>4. ConnectionComes'
    BY <1>7, <1>a, <2>1 DEF StartsClosing, ConnectionComes, reconnects, TypeOK, Up
  <2> QED
    BY <2>2, <2>3, <2>4 DEF Watched
<1>8. ASSUME NEW s \in Sockets, Closes(s) PROVE Watched'
  <2>1. PendingIsWatched' /\ (\A q \in pending' : sentOn'[q] \in Sockets)
    BY <1>8, <1>a DEF Closes, PendingIsWatched, PendingHasAConnection, TimeoutsMatchPending
  <2>2. SocketsMatch'
    <3>1. \A t \in Sockets : readyState'[t] = "open" => attempt'[t] = "opened"
      BY <1>8, <1>a DEF Closes, SocketsMatch, TypeOK
    <3>2. \A t \in Sockets : awaits'[t].what = "send" => attempt'[t] = "pending"
      BY <1>8, <1>a DEF Closes, SocketsMatch, TypeOK
    <3>3. tasks' = <<>>
      BY <1>8 DEF Closes, Quiet
    <3> QED
      BY <3>1, <3>2, <3>3 DEF SocketsMatch
  <2>3. ConnectionComes'
    BY <1>8 DEF Closes, ScheduleBoth, Armed, ConnectionComes
  <2> QED
    BY <2>1, <2>2, <2>3 DEF Watched
<1>9. ASSUME NEW r \in Requests, NEW decodes \in BOOLEAN, Answer(r, decodes) PROVE Watched'
  <2>1. /\ pending' = pending \ {r} /\ timers' = timers \ ({r} \cap pending)
        /\ UNCHANGED <<options, socket, readyState, attempt, awaits, tasks, sentOn,
                       reconnectTimer, reconnectRequested>>
    BY <1>9 DEF Answer, connection, reconnects
  <2>2. PendingIsWatched' /\ (\A q \in pending' : sentOn'[q] \in Sockets)
    BY <2>1, FewerAreWatched DEF Up
  <2> QED
    BY <1>a, <2>1, <2>2 DEF Watched, SocketsMatch, ConnectionComes, Up
<1>10. ASSUME NEW r \in Requests, RequestTimesOut(r) PROVE Watched'
  <2>1. /\ pending' = pending \ {r} /\ timers' = timers \ {r} /\ r \in timers
        /\ UNCHANGED <<options, socket, readyState, attempt, awaits, tasks, sentOn,
                       reconnectTimer, reconnectRequested>>
    BY <1>10 DEF RequestTimesOut, connection, reconnects
  <2>2. timers' = timers \ ({r} \cap pending)
    BY <1>a, <2>1 DEF PendingIsWatched, TimeoutsMatchPending
  <2>3. PendingIsWatched' /\ (\A q \in pending' : sentOn'[q] \in Sockets)
    BY <2>1, <2>2, FewerAreWatched DEF Up
  <2> QED
    BY <1>a, <2>1, <2>3 DEF Watched, SocketsMatch, ConnectionComes, Up
<1>11. CASE ReconnectTimerFires
  <2>1. Caller("reconnect") \in Waiting
    BY CallerType DEF Callers
  <2> QED
    BY <1>11, <2>1, <1>c DEF ReconnectTimerFires, sending
<1>12. CASE ReconnectPollFires
  <2>1. UNCHANGED <<options, pending, timers, sentOn, reconnectTimer, reconnectRequested>>
    BY <1>12 DEF ReconnectPollFires, sending
  <2>2. CASE UNCHANGED <<connection, tasks>>
    <3>1. UNCHANGED <<socket, readyState, attempt, awaits, tasks>>
      BY <2>2 DEF connection
    <3>2. PendingIsWatched' /\ (\A q \in pending' : sentOn'[q] \in Sockets)
      BY <2>1, <3>1, PendingStays DEF Up
    <3> QED
      BY <1>a, <2>1, <3>1, <3>2 DEF Watched, SocketsMatch, ConnectionComes, Up
  <2>3. CASE EnsureSocket(Caller("poll"), tasks)
    <3>1. Caller("poll") \in Waiting
      BY CallerType DEF Callers
    <3> QED
      BY <2>1, <2>3, <3>1, <1>c
  <2> QED
    BY <1>12, <2>2, <2>3 DEF ReconnectPollFires
<1>13. CASE UNCHANGED vars
  BY <1>13 DEF vars, Watched, SocketsMatch, PendingIsWatched, PendingHasAConnection,
     TimeoutsMatchPending, ConnectionComes, Up
<1> QED
  BY <1>1, <1>2, <1>3, <1>4, <1>5, <1>6, <1>7, <1>8, <1>9, <1>10, <1>11, <1>12, <1>13
     DEF Next, Calls

LEMMA WatchedInvariant == Spec => [](TypeOK /\ Watched)
<1>1. Init => TypeOK /\ Watched
  BY TypeInitial, WatchedInitial
<1>2. TypeOK /\ Watched /\ [Next]_vars => (TypeOK /\ Watched)'
  BY TypeStep, WatchedStep
<1> QED
  BY <1>1, <1>2, PTL DEF Spec

(* A request that waits for its answer was sent on a connection whose end
   will be noticed (handleClose rejects it), and has its timeout running
   where there is one: none waits for ever, and no timeout of a settled
   request fires.                                                          *)
THEOREM EveryPendingRequestIsWatched == Spec => []PendingIsWatched
<1>1. Watched => PendingIsWatched
  BY DEF Watched
<1> QED
  BY <1>1, WatchedInvariant, PTL

(* While a connection is wanted (reconnectRequested) there is one, an attempt
   at one, or the reconnect timer: no order of failing attempts, dropped
   sockets and sends that throw makes the transport give up.  In fact the
   poll is not needed for it.                                              *)
THEOREM TheTransportNeverGivesUp == Spec => []ReconnectIsArmed
<1>1. Watched => ReconnectIsArmed
  BY DEF Watched, ConnectionComes, ReconnectIsArmed, Up
<1> QED
  BY <1>1, WatchedInvariant, PTL

-----------------------------------------------------------------------------
(* Requests that wait for a socket: in awaits or in a continuation *)

SendsOfTasks(ts) == {ts[n].request : n \in {m \in DOMAIN ts : ts[m].what = "send"}}
SendsOfSockets(aw) == {aw[s].request : s \in {t \in Sockets : aw[t].what = "send"}}

OnceInTasks(ts) ==
    \A m, n \in DOMAIN ts :
        ts[m].what = "send" /\ ts[n].what = "send" /\ ts[m].request = ts[n].request => m = n

OnceInSockets(aw) ==
    \A s, t \in Sockets :
        aw[s].what = "send" /\ aw[t].what = "send" /\ aw[s].request = aw[t].request => s = t

(* No request waits for two sockets. *)
WaitsOnce ==
    /\ OnceInTasks(tasks) /\ OnceInSockets(awaits)
    /\ SendsOfTasks(tasks) \cap SendsOfSockets(awaits) = {}

LEMMA UnsentMeaning == Unsent = SendsOfSockets(awaits) \cup SendsOfTasks(tasks)
  BY DEF Unsent, SendsOfSockets, SendsOfTasks

LEMMA SendsOfReady ==
    ASSUME NEW rest \in Seq(Task), OnceInTasks(rest), NEW caller \in Waiting, NEW s \in Sockets,
           caller.what = "send" => caller.request \notin SendsOfTasks(rest)
    PROVE  /\ SendsOfTasks(Ready(rest, caller, s)) =
                 SendsOfTasks(rest) \cup (IF caller.what = "send" THEN {caller.request} ELSE {})
           /\ OnceInTasks(Ready(rest, caller, s))
<1>1. CASE caller.what = "reconnect"
  BY <1>1 DEF Ready
<1>2. CASE caller.what # "reconnect"
  <2> DEFINE t == [what |-> caller.what, request |-> caller.request, on |-> s]
             longer == Append(rest, t)
  <2>1. t \in Task /\ t.what = caller.what /\ t.request = caller.request
    BY DEF Task, Waiting
  <2>2. Ready(rest, caller, s) = longer
    BY <1>2 DEF Ready
  <2>3. /\ longer \in Seq(Task) /\ Len(longer) = Len(rest) + 1
        /\ \A n \in 1..Len(rest) : longer[n] = rest[n]
        /\ longer[Len(rest) + 1] = t
    <3> HIDE DEF t
    <3> QED
      BY <2>1, AppendProperties
  <2>4. Len(rest) \in Nat /\ DOMAIN rest = 1..Len(rest) /\ DOMAIN longer = 1..(Len(rest) + 1)
    BY <2>3, LenProperties
  <2> HIDE DEF t, longer
  <2>5. \A x : x \in SendsOfTasks(longer) <=>
                  x \in SendsOfTasks(rest) \/ (t.what = "send" /\ x = t.request)
    BY <2>3, <2>4 DEF SendsOfTasks
  <2>6. \A n \in DOMAIN rest : rest[n].what = "send" /\ t.what = "send" => rest[n].request # t.request
    BY <2>1 DEF SendsOfTasks
  <2>7. OnceInTasks(longer)
    <3> SUFFICES ASSUME NEW m \in DOMAIN longer, NEW n \in DOMAIN longer,
                        longer[m].what = "send", longer[n].what = "send",
                        longer[m].request = longer[n].request
                 PROVE  m = n
      BY DEF OnceInTasks
    <3>1. CASE m \in DOMAIN rest /\ n \in DOMAIN rest
      BY <2>3, <2>4, <3>1 DEF OnceInTasks
    <3>2. CASE m = Len(rest) + 1
      BY <2>3, <2>4, <2>6, <3>2
    <3>3. CASE n = Len(rest) + 1
      BY <2>3, <2>4, <2>6, <3>3
    <3> QED
      BY <2>4, <3>1, <3>2, <3>3
  <2> QED
    BY <2>1, <2>2, <2>5, <2>7
<1> QED
  BY <1>1, <1>2

LEMMA SendsOfTail ==
    ASSUME TypeOK, tasks # <<>>, OnceInTasks(tasks)
    PROVE  /\ SendsOfTasks(Tail(tasks)) =
                 SendsOfTasks(tasks)
                 \ (IF Head(tasks).what = "send" THEN {Head(tasks).request} ELSE {})
           /\ Head(tasks).what = "send" => Head(tasks).request \in SendsOfTasks(tasks)
           /\ OnceInTasks(Tail(tasks))
<1>1. /\ 1 \in DOMAIN tasks /\ Head(tasks) = tasks[1]
      /\ \A n \in DOMAIN Tail(tasks) : n + 1 \in DOMAIN tasks /\ Tail(tasks)[n] = tasks[n + 1]
  BY TailTasks
<1>2. /\ Len(tasks) \in Nat \ {0} /\ DOMAIN tasks = 1..Len(tasks)
      /\ DOMAIN Tail(tasks) = 1..(Len(tasks) - 1)
  <2>1. Tail(tasks) \in Seq(Task) /\ Len(Tail(tasks)) = Len(tasks) - 1
    BY TaskSeq, HeadTailProperties
  <2> QED
    BY <2>1, TaskSeq, EmptySeq, LenProperties
<1>3. \A n \in DOMAIN tasks : n = 1 \/ (n - 1 \in DOMAIN Tail(tasks) /\ tasks[n] = Tail(tasks)[n - 1])
  BY <1>1, <1>2
<1>4. \A n \in DOMAIN Tail(tasks) : n \in Nat /\ n + 1 # 1
  BY <1>2
<1>5. OnceInTasks(Tail(tasks))
  <2> SUFFICES ASSUME NEW m \in DOMAIN Tail(tasks), NEW n \in DOMAIN Tail(tasks),
                      Tail(tasks)[m].what = "send", Tail(tasks)[n].what = "send",
                      Tail(tasks)[m].request = Tail(tasks)[n].request
               PROVE  m = n
    BY DEF OnceInTasks
  <2>1. m + 1 = n + 1
    BY <1>1 DEF OnceInTasks
  <2> QED
    BY <1>4, <2>1
<1>6. \A x : x \in SendsOfTasks(Tail(tasks)) =>
                x \in SendsOfTasks(tasks) /\ ~(Head(tasks).what = "send" /\ x = Head(tasks).request)
  <2> SUFFICES ASSUME NEW n \in DOMAIN Tail(tasks), Tail(tasks)[n].what = "send"
               PROVE  /\ Tail(tasks)[n].request \in SendsOfTasks(tasks)
                      /\ ~(Head(tasks).what = "send"
                           /\ Tail(tasks)[n].request = Head(tasks).request)
    BY DEF SendsOfTasks
  <2> QED
    BY <1>1, <1>4 DEF SendsOfTasks, OnceInTasks
<1>7. \A x : x \in SendsOfTasks(tasks) =>
                x \in SendsOfTasks(Tail(tasks)) \/ (Head(tasks).what = "send" /\ x = Head(tasks).request)
  BY <1>1, <1>3 DEF SendsOfTasks
<1>8. Head(tasks).what = "send" => Head(tasks).request \in SendsOfTasks(tasks)
  BY <1>1 DEF SendsOfTasks
<1> QED
  BY <1>5, <1>6, <1>7, <1>8

(* Another caller waits for a socket that no request waits for. *)
LEMMA SendsOfNewSocket ==
    ASSUME NEW aw \in [Sockets -> Waiting], OnceInSockets(aw), NEW s \in Sockets,
           aw[s].what # "send", NEW caller \in Waiting,
           caller.what = "send" => caller.request \notin SendsOfSockets(aw)
    PROVE  /\ SendsOfSockets([aw EXCEPT ![s] = caller]) =
                 SendsOfSockets(aw) \cup (IF caller.what = "send" THEN {caller.request} ELSE {})
           /\ OnceInSockets([aw EXCEPT ![s] = caller])
<1> DEFINE after == [aw EXCEPT ![s] = caller]
<1>1. after[s] = caller /\ \A t \in Sockets \ {s} : after[t] = aw[t]
  OBVIOUS
<1> HIDE DEF after
<1>2. \A t \in Sockets : aw[t].what = "send" /\ caller.what = "send" => aw[t].request # caller.request
  BY DEF SendsOfSockets
<1>3. OnceInSockets(after)
  BY <1>1, <1>2 DEF OnceInSockets
<1>4. \A x : x \in SendsOfSockets(after) <=>
                x \in SendsOfSockets(aw) \/ (caller.what = "send" /\ x = caller.request)
  BY <1>1 DEF SendsOfSockets
<1>5. SendsOfSockets(after) =
         SendsOfSockets(aw) \cup (IF caller.what = "send" THEN {caller.request} ELSE {})
  BY <1>4
<1> QED
  BY <1>3, <1>5 DEF after

(* Nobody waits for the socket any more. *)
LEMMA SendsOfOldSocket ==
    ASSUME NEW aw \in [Sockets -> Waiting], OnceInSockets(aw), NEW s \in Sockets
    PROVE  /\ SendsOfSockets([aw EXCEPT ![s] = Nobody]) =
                 SendsOfSockets(aw) \ (IF aw[s].what = "send" THEN {aw[s].request} ELSE {})
           /\ aw[s].what = "send" => aw[s].request \in SendsOfSockets(aw)
           /\ OnceInSockets([aw EXCEPT ![s] = Nobody])
<1> DEFINE after == [aw EXCEPT ![s] = Nobody]
<1>1. after[s] = Nobody /\ Nobody.what # "send" /\ \A t \in Sockets \ {s} : after[t] = aw[t]
  BY DEF Nobody
<1> HIDE DEF after
<1>2. OnceInSockets(after)
  BY <1>1 DEF OnceInSockets
<1>3. \A x : x \in SendsOfSockets(after) <=>
                x \in SendsOfSockets(aw) /\ ~(aw[s].what = "send" /\ x = aw[s].request)
  BY <1>1 DEF SendsOfSockets, OnceInSockets
<1>4. aw[s].what = "send" => aw[s].request \in SendsOfSockets(aw)
  BY DEF SendsOfSockets
<1> QED
  BY <1>2, <1>3, <1>4 DEF after

(* ensureSocket moves nobody, but for the request it is called for. *)
LEMMA EnsureSocketWaits ==
    ASSUME TypeOK, SocketsMatch, NEW caller \in Waiting, NEW rest \in Seq(Task),
           OnceInTasks(rest), OnceInSockets(awaits),
           SendsOfTasks(rest) \cap SendsOfSockets(awaits) = {},
           caller.what = "send" =>
               caller.request \notin SendsOfTasks(rest) \cup SendsOfSockets(awaits),
           EnsureSocket(caller, rest)
    PROVE  /\ WaitsOnce'
           /\ Unsent' = SendsOfSockets(awaits) \cup SendsOfTasks(rest)
                        \cup (IF caller.what = "send" THEN {caller.request} ELSE {})
<1>1. CASE IsOpen /\ tasks' = Ready(rest, caller, socket) /\ UNCHANGED awaits
  <2>1. socket \in Sockets
    BY <1>1 DEF IsOpen, TypeOK
  <2>2. /\ SendsOfTasks(tasks') =
              SendsOfTasks(rest) \cup (IF caller.what = "send" THEN {caller.request} ELSE {})
        /\ OnceInTasks(tasks')
    BY <1>1, <2>1, SendsOfReady
  <2>3. Unsent' = SendsOfSockets(awaits') \cup SendsOfTasks(tasks')
    BY DEF Unsent, SendsOfSockets, SendsOfTasks
  <2>4. SendsOfTasks(tasks') \cap SendsOfSockets(awaits') = {}
    BY <1>1, <2>2
  <2>5. OnceInSockets(awaits')
    BY <1>1
  <2> QED
    BY <1>1, <2>2, <2>3, <2>4, <2>5 DEF WaitsOnce
<1>2. ASSUME NEW s \in Free, tasks' = rest, awaits' = [awaits EXCEPT ![s] = caller]
      PROVE  /\ WaitsOnce'
             /\ Unsent' = SendsOfSockets(awaits) \cup SendsOfTasks(rest)
                          \cup (IF caller.what = "send" THEN {caller.request} ELSE {})
  <2>1. s \in Sockets /\ awaits[s].what # "send"
    BY FreeMeaning DEF SocketsMatch
  <2>2. awaits \in [Sockets -> Waiting]
    BY DEF TypeOK
  <2>3. /\ SendsOfSockets(awaits') =
              SendsOfSockets(awaits) \cup (IF caller.what = "send" THEN {caller.request} ELSE {})
        /\ OnceInSockets(awaits')
    BY <1>2, <2>1, <2>2, SendsOfNewSocket
  <2>4. Unsent' = SendsOfSockets(awaits') \cup SendsOfTasks(tasks')
    BY DEF Unsent, SendsOfSockets, SendsOfTasks
  <2>5. SendsOfTasks(tasks') \cap SendsOfSockets(awaits') = {}
    BY <1>2, <2>3
  <2> QED
    BY <1>2, <2>3, <2>4, <2>5 DEF WaitsOnce
<1> QED
  BY <1>1, <1>2, EnsureSocketCases

-----------------------------------------------------------------------------
(* The queue *)

Queued == Members(queued)

LEMMA QueueMembers ==
    TypeOK => /\ queued \in Seq(Requests) /\ Len(queued) \in Nat /\ DOMAIN queued = 1..Len(queued)
              /\ \A n \in DOMAIN queued : queued[n] \in Requests
              /\ Queued \subseteq Requests
<1> SUFFICES ASSUME TypeOK
             PROVE  /\ queued \in Seq(Requests) /\ Len(queued) \in Nat
                    /\ DOMAIN queued = 1..Len(queued)
                    /\ \A n \in DOMAIN queued : queued[n] \in Requests
                    /\ Queued \subseteq Requests
  OBVIOUS
<1>1. queued \in Seq(Requests)
  BY DEF TypeOK
<1>2. Len(queued) \in Nat /\ DOMAIN queued = 1..Len(queued)
  BY <1>1, LenProperties
<1>3. \A n \in DOMAIN queued : queued[n] \in Requests
  BY <1>1, <1>2, ElementOfSeq
<1> QED
  BY <1>1, <1>2, <1>3 DEF Queued, Members

Increasing(seq) == \A m, n \in DOMAIN seq : m < n => seq[m] < seq[n]

LEMMA AppendMembers ==
    ASSUME NEW seq \in Seq(Requests), Increasing(seq), NEW r \in Requests,
           \A q \in Members(seq) : q < r
    PROVE  Members(Append(seq, r)) = Members(seq) \cup {r} /\ Increasing(Append(seq, r))
<1> DEFINE longer == Append(seq, r)
<1>1. /\ longer \in Seq(Requests) /\ Len(longer) = Len(seq) + 1
      /\ \A n \in 1..Len(seq) : longer[n] = seq[n]
      /\ longer[Len(seq) + 1] = r
  BY AppendProperties
<1>2. Len(seq) \in Nat /\ DOMAIN seq = 1..Len(seq) /\ DOMAIN longer = 1..(Len(seq) + 1)
  BY <1>1, LenProperties
<1> HIDE DEF longer
<1>3. \A x : x \in Members(longer) <=> x \in Members(seq) \/ x = r
  BY <1>1, <1>2 DEF Members
<1>4. Increasing(longer)
  <2> SUFFICES ASSUME NEW m \in DOMAIN longer, NEW n \in DOMAIN longer, m < n
               PROVE  longer[m] < longer[n]
    BY DEF Increasing
  <2>1. m \in DOMAIN seq /\ longer[m] = seq[m] /\ seq[m] \in Members(seq)
    BY <1>1, <1>2 DEF Members
  <2>2. CASE n \in DOMAIN seq
    BY <1>1, <1>2, <2>1, <2>2 DEF Increasing
  <2>3. CASE n = Len(seq) + 1
    BY <1>1, <2>1, <2>3
  <2> QED
    BY <1>2, <2>2, <2>3
<1> QED
  BY <1>3, <1>4 DEF longer

(* What is left of the queue after n requests were taken from its front. *)
LEMMA SuffixMembers ==
    ASSUME NEW seq \in Seq(Requests), Increasing(seq), NEW n \in 0..Len(seq),
           NEW rest, rest = SubSeq(seq, n + 1, Len(seq))
    PROVE  /\ Members(rest) = Members(seq) \ {seq[m] : m \in 1..n}
           /\ {seq[m] : m \in 1..n} \subseteq Members(seq)
           /\ Increasing(rest)
<1>1. Len(seq) \in Nat /\ DOMAIN seq = 1..Len(seq) /\ \A m \in DOMAIN seq : seq[m] \in Requests
  BY LenProperties, ElementOfSeq
<1>2. \A m \in n + 1 .. Len(seq) : seq[m] \in Requests
  BY <1>1
<1>3. /\ rest \in Seq(Requests) /\ Len(rest) = Len(seq) - n
      /\ \A m \in 1 .. Len(seq) - n : rest[m] = seq[m + n]
  <2>1. /\ rest \in Seq(Requests)
        /\ Len(rest) = IF n + 1 <= Len(seq) THEN Len(seq) - (n + 1) + 1 ELSE 0
        /\ \A m \in 1 .. Len(seq) - (n + 1) + 1 : rest[m] = seq[(n + 1) + m - 1]
    BY <1>1, <1>2, SubSeqProperties
  <2>2. n \in Nat /\ Len(seq) - n \in Nat /\ Len(seq) - (n + 1) + 1 = Len(seq) - n
    BY <1>1
  <2>3. ASSUME NEW m \in 1 .. Len(seq) - n PROVE rest[m] = seq[m + n]
    <3>1. (n + 1) + m - 1 = m + n
      BY <2>2
    <3> QED
      BY <2>1, <2>2, <3>1
  <2>4. Len(rest) = Len(seq) - n
    <3>1. CASE n + 1 <= Len(seq)
      BY <2>1, <2>2, <3>1
    <3>2. CASE ~(n + 1 <= Len(seq))
      <4>1. n <= Len(seq) /\ Len(seq) \in Nat /\ n \in Nat
        BY <1>1
      <4>2. n = Len(seq) /\ Len(seq) - n = 0
        BY <3>2, <4>1
      <4> QED
        BY <2>1, <3>2, <4>2
    <3> QED
      BY <3>1, <3>2
  <2> QED
    BY <2>1, <2>3, <2>4
<1>4. DOMAIN rest = 1 .. Len(seq) - n
  BY <1>3, LenProperties
<1>5. Increasing(rest)
  <2> SUFFICES ASSUME NEW k \in DOMAIN rest, NEW m \in DOMAIN rest, k < m
               PROVE  rest[k] < rest[m]
    BY DEF Increasing
  <2>1. k + n \in DOMAIN seq /\ m + n \in DOMAIN seq /\ k + n < m + n
    BY <1>1, <1>4
  <2> QED
    BY <1>3, <1>4, <2>1 DEF Increasing
<1>6. \A k, m \in DOMAIN seq : seq[k] = seq[m] => k = m
  <2> SUFFICES ASSUME NEW k \in DOMAIN seq, NEW m \in DOMAIN seq, seq[k] = seq[m], k # m
               PROVE  FALSE
    OBVIOUS
  <2>1. k < m \/ m < k
    BY <1>1
  <2>2. seq[k] < seq[m] \/ seq[m] < seq[k]
    BY <2>1 DEF Increasing
  <2>3. seq[k] \in Nat /\ seq[m] \in Nat
    BY <1>1, SocketNumbers
  <2> QED
    BY <2>2, <2>3
<1>7. \A x \in Members(rest) : x \in Members(seq) /\ \A m \in 1..n : x # seq[m]
  <2> SUFFICES ASSUME NEW k \in DOMAIN rest
               PROVE  rest[k] \in Members(seq) /\ \A m \in 1..n : rest[k] # seq[m]
    BY DEF Members
  <2>1. k \in 1 .. Len(seq) - n /\ n \in Nat
    BY <1>1, <1>4
  <2>2. k + n \in DOMAIN seq /\ \A m \in 1..n : m \in DOMAIN seq /\ m # k + n
    BY <1>1, <2>1
  <2>3. rest[k] = seq[k + n]
    BY <1>3, <2>1
  <2> QED
    BY <1>6, <2>2, <2>3 DEF Members
<1>8. \A x \in Members(seq) : x \in Members(rest) \/ \E m \in 1..n : x = seq[m]
  <2> SUFFICES ASSUME NEW k \in DOMAIN seq, k \notin 1..n PROVE seq[k] \in Members(rest)
    BY DEF Members
  <2>1. k - n \in 1 .. Len(seq) - n /\ (k - n) + n = k
    BY <1>1
  <2>2. rest[k - n] = seq[k]
    BY <1>3, <2>1
  <2> QED
    BY <1>4, <2>1, <2>2 DEF Members
<1>9. {seq[m] : m \in 1..n} \subseteq Members(seq)
  BY <1>1 DEF Members
<1> QED
  BY <1>5, <1>7, <1>8, <1>9

LEMMA EnqueueMembers ==
    ASSUME TypeOK, QueueInOrder, NEW r \in Requests, \A q \in Queued : q < r, Enqueue(r)
    PROVE  /\ QueueInOrder'
           /\ \E rs \in SUBSET (Queued \cup {r}) :
                 Settle(rs) /\ Queued' = (Queued \cup {r}) \ rs
<1>1. /\ queued \in Seq(Requests) /\ Len(queued) \in Nat /\ Increasing(queued)
      /\ Members(queued) = Queued
  BY QueueMembers DEF QueueInOrder, Increasing, Queued
<1>2. r \notin Queued
  <2>1. r \in Nat
    BY SocketNumbers
  <2> QED
    BY <2>1
<1>3. ASSUME queued' = Append(queued, r), Settle({})
      PROVE  /\ QueueInOrder'
             /\ \E rs \in SUBSET (Queued \cup {r}) :
                   Settle(rs) /\ Queued' = (Queued \cup {r}) \ rs
  <2>1. Members(queued') = Queued \cup {r} /\ Increasing(queued')
    BY <1>1, <1>3, AppendMembers
  <2>2. QueueInOrder' /\ Queued' = (Queued \cup {r}) \ {}
    BY <2>1 DEF QueueInOrder, Increasing, Queued, Members
  <2> QED
    BY <1>3, <2>2
<1>4. ASSUME queued # <<>>, queued' = Append(Tail(queued), r), Settle({Head(queued)})
      PROVE  /\ QueueInOrder'
             /\ \E rs \in SUBSET (Queued \cup {r}) :
                   Settle(rs) /\ Queued' = (Queued \cup {r}) \ rs
  <2>1. Tail(queued) = SubSeq(queued, 1 + 1, Len(queued)) /\ Len(queued) # 0
    BY <1>1, <1>4, TailIsSubSeq, EmptySeq
  <2>2. 1 \in 0..Len(queued) /\ Tail(queued) \in Seq(Requests)
    BY <1>1, <1>4, <2>1, HeadTailProperties
  <2>3. Head(queued) = queued[1]
    BY <1>1, <1>4
  <2>4. {queued[m] : m \in 1..1} = {Head(queued)}
    BY <2>3
  <2>5. /\ Members(Tail(queued)) = Queued \ {Head(queued)}
        /\ Head(queued) \in Queued
        /\ Increasing(Tail(queued))
    BY <1>1, <2>1, <2>2, <2>4, SuffixMembers
  <2>6. Members(queued') = (Queued \ {Head(queued)}) \cup {r} /\ Increasing(queued')
    BY <1>4, <2>2, <2>5, AppendMembers
  <2>7. Queued' = (Queued \cup {r}) \ {Head(queued)}
    BY <1>2, <2>5, <2>6 DEF Queued, Members
  <2>8. QueueInOrder'
    BY <2>6 DEF QueueInOrder, Increasing
  <2> QED
    BY <1>4, <2>5, <2>7, <2>8
<1>5. ASSUME UNCHANGED queued, Settle({r})
      PROVE  /\ QueueInOrder'
             /\ \E rs \in SUBSET (Queued \cup {r}) :
                   Settle(rs) /\ Queued' = (Queued \cup {r}) \ rs
  <2>1. QueueInOrder' /\ Queued' = (Queued \cup {r}) \ {r}
    BY <1>2, <1>5 DEF QueueInOrder, Queued, Members
  <2> QED
    BY <1>5, <2>1
<1> QED
  BY <1>3, <1>4, <1>5 DEF Enqueue

-----------------------------------------------------------------------------
(* Where requests are *)

Held == Queued \cup pending \cup garbled \cup Unsent

OnePlaceEach ==
    /\ Queued \cap (pending \cup garbled \cup Unsent) = {}
    /\ pending \cap (garbled \cup Unsent) = {}
    /\ garbled \cap Unsent = {}

(* A request was settled, once, if and only if it was made and is nowhere. *)
SettledAreNowhere ==
    /\ Held \subseteq Made
    /\ \A r \in Requests : settled[r] = IF r \in Made \ Held THEN 1 ELSE 0

Places == WaitsOnce /\ QueueInOrder /\ OnePlaceEach /\ SettledAreNowhere

(* What a step may do with requests. *)
Moved ==
    /\ Queued' \cup Unsent' \subseteq Queued \cup Unsent \cup (Made' \ Made)
    /\ pending' \subseteq pending \cup Queued \cup Unsent \cup (Made' \ Made)
    /\ garbled \subseteq garbled' /\ garbled' \subseteq garbled \cup pending
    /\ Made \subseteq Made'

LEMMA MadeMeaning == TypeOK => Made \subseteq Requests /\ issued \in Nat
  BY TransportAssumption DEF TypeOK, Made, Requests

(* Counting the requests a step makes and settles. *)
LEMMA SettleNowhere ==
    ASSUME TypeOK, Places, NEW new \in SUBSET (Requests \ Made), Made' = Made \cup new,
           NEW rs \in SUBSET (Held \cup new), Settle(rs), Held' = (Held \cup new) \ rs
    PROVE  SettledAreNowhere'
<1>1. Held' \subseteq Made'
  BY DEF Places, SettledAreNowhere
<1>2. ASSUME NEW r \in Requests
      PROVE  settled'[r] = IF r \in Made' \ Held' THEN 1 ELSE 0
  <2>1. settled[r] = IF r \in Made \ Held THEN 1 ELSE 0
    BY DEF Places, SettledAreNowhere
  <2>2. settled'[r] = IF r \in rs THEN settled[r] + 1 ELSE settled[r]
    BY SettleType
  <2>3. Held \subseteq Made
    BY DEF Places, SettledAreNowhere
  <2> QED
    BY <2>1, <2>2, <2>3
<1> QED
  BY <1>1, <1>2 DEF SettledAreNowhere

LEMMA SettleNobody == TypeOK /\ UNCHANGED settled => Settle({})
  BY DEF Settle, TypeOK

LEMMA UnsentType == TypeOK => Unsent \subseteq Requests
<1> SUFFICES ASSUME TypeOK PROVE Unsent \subseteq Requests
  OBVIOUS
<1>1. \A n \in DOMAIN tasks : tasks[n] \in Task
  BY TaskSeq, LenProperties, ElementOfSeq
<1>2. \A s \in Sockets : awaits[s] \in Waiting
  BY DEF TypeOK
<1> QED
  BY <1>1, <1>2 DEF Unsent, Task, Waiting

(* Only the sockets and the continuations change. *)
LEMMA NobodyMoves ==
    ASSUME TypeOK, Places, WaitsOnce', Unsent' = Unsent,
           UNCHANGED <<queued, pending, garbled, settled, issued>>
    PROVE  Places' /\ Moved
<1>1. Queued' = Queued /\ Made' = Made /\ QueueInOrder'
  BY DEF Queued, Members, Made, Places, QueueInOrder
<1>2. Held' = (Held \cup {}) \ {} /\ Settle({})
  BY <1>1, SettleNobody DEF Held
<1>3. SettledAreNowhere'
  BY <1>1, <1>2, SettleNowhere
<1> QED
  BY <1>1, <1>3 DEF Places, OnePlaceEach, Moved

(* The same, where what changes them is ensureSocket for nobody's request. *)
LEMMA NobodyMovesForASocket ==
    ASSUME TypeOK, SocketsMatch, Places, NEW what \in Callers \ {"send"},
           EnsureSocket(Caller(what), tasks),
           UNCHANGED <<queued, pending, garbled, settled, issued>>
    PROVE  Places' /\ Moved
<1>1. Caller(what) \in Waiting /\ Caller(what).what # "send"
  BY CallerType DEF Caller
<1>2. WaitsOnce' /\ Unsent' = Unsent
  BY <1>1, TaskSeq, EnsureSocketWaits, UnsentMeaning DEF Places, WaitsOnce
<1> QED
  BY <1>2, NobodyMoves

LEMMA WaitsOnceStays == WaitsOnce /\ UNCHANGED <<awaits, tasks>> => WaitsOnce' /\ Unsent' = Unsent
  BY DEF WaitsOnce, OnceInTasks, OnceInSockets, SendsOfTasks, SendsOfSockets, Unsent

LEMMA PlacesInitial == Init => Places
<1> SUFFICES ASSUME Init PROVE Places
  OBVIOUS
<1>1. tasks = <<>> /\ queued = <<>> /\ pending = {} /\ garbled = {} /\ issued = 0
      /\ settled = [r \in Requests |-> 0]
  BY DEF Init
<1>2. \A s \in Sockets : awaits[s].what # "send"
  BY DEF Init, Nobody
<1>3. DOMAIN tasks = {} /\ DOMAIN queued = {} /\ Made = {}
  BY <1>1 DEF Made
<1>4. Unsent = {} /\ Queued = {} /\ WaitsOnce
  BY <1>2, <1>3 DEF Unsent, Queued, Members, WaitsOnce, OnceInTasks, OnceInSockets,
     SendsOfTasks, SendsOfSockets
<1>5. QueueInOrder
  BY <1>3 DEF QueueInOrder
<1>6. Held = {}
  BY <1>1, <1>4 DEF Held
<1> QED
  BY <1>1, <1>3, <1>4, <1>5, <1>6 DEF Places, OnePlaceEach, SettledAreNowhere

LEMMA RequestMoves ==
    ASSUME TypeOK, Watched, Places, Request
    PROVE  Places' /\ Moved
<1> DEFINE r == issued + 1
<1>1. /\ r \in Requests /\ issued' = r /\ r \notin Made /\ Made' = Made \cup {r}
      /\ \A q \in Made : q < r
      /\ UNCHANGED <<options, garbled>>
  BY MadeMeaning DEF Request, Made
<1>2. r \notin Held /\ Held \subseteq Made /\ Queued \subseteq Made
  BY <1>1 DEF Places, SettledAreNowhere, Held
<1>3. RequestSent(r) \/ RequestUnqueued(r) \/ RequestQueued(r)
  BY DEF Request
<1> HIDE DEF r
<1>4. {r} \in SUBSET (Requests \ Made) /\ Made' \ Made = {r} /\ Made \subseteq Made'
  BY <1>1
<1>5. CASE RequestSent(r)
  <2>1. pending' = pending \cup {r} /\ UNCHANGED <<awaits, tasks, queued, settled>>
    BY <1>5 DEF RequestSent, Send, connection
  <2>2. WaitsOnce' /\ Unsent' = Unsent /\ QueueInOrder' /\ Queued' = Queued
    BY <2>1, WaitsOnceStays DEF Places, QueueInOrder, Queued, Members
  <2>3. Held' = (Held \cup {r}) \ {} /\ Settle({})
    BY <1>1, <2>1, <2>2, SettleNobody DEF Held
  <2>4. SettledAreNowhere'
    BY <1>1, <1>4, <2>3, SettleNowhere
  <2> QED
    BY <1>1, <1>2, <1>4, <2>1, <2>2, <2>4 DEF Places, OnePlaceEach, Moved, Held
<1>6. CASE RequestUnqueued(r)
  <2>1. UNCHANGED <<queued, pending>>
    BY <1>6 DEF RequestUnqueued, sending
  <2>2. QueueInOrder' /\ Queued' = Queued
    BY <2>1 DEF Places, QueueInOrder, Queued, Members
  <2>3. CASE Settle({r}) /\ UNCHANGED <<connection, tasks>>
    <3>1. WaitsOnce' /\ Unsent' = Unsent
      BY <2>3, WaitsOnceStays DEF Places, connection
    <3>2. Held' = (Held \cup {r}) \ {r}
      BY <1>1, <1>2, <2>1, <2>2, <3>1 DEF Held
    <3>3. SettledAreNowhere'
      BY <1>1, <1>4, <2>3, <3>2, SettleNowhere
    <3> QED
      BY <1>1, <1>4, <2>1, <2>2, <3>1, <3>3 DEF Places, OnePlaceEach, Moved
  <2>4. CASE EnsureSocket([what |-> "send", request |-> r], tasks) /\ UNCHANGED settled
    <3>1. [what |-> "send", request |-> r] \in Waiting
      BY <1>1 DEF Waiting, Callers
    <3>2. r \notin SendsOfTasks(tasks) \cup SendsOfSockets(awaits)
      BY <1>2, UnsentMeaning DEF Held
    <3>3. WaitsOnce' /\ Unsent' = Unsent \cup {r}
      <4>1. SocketsMatch /\ WaitsOnce
        BY DEF Watched, Places
      <4> QED
        BY <2>4, <3>1, <3>2, <4>1, TaskSeq, EnsureSocketWaits, UnsentMeaning DEF WaitsOnce
    <3>4. Held' = (Held \cup {r}) \ {} /\ Settle({})
      BY <1>1, <2>1, <2>2, <2>4, <3>3, SettleNobody DEF Held
    <3>5. SettledAreNowhere'
      BY <1>1, <1>4, <3>4, SettleNowhere
    <3> QED
      BY <1>1, <1>2, <1>4, <2>1, <2>2, <3>3, <3>5 DEF Places, OnePlaceEach, Moved, Held
  <2> QED
    BY <1>6, <2>3, <2>4 DEF RequestUnqueued
<1>7. CASE RequestQueued(r)
  <2>1. /\ Enqueue(r) /\ EnsureSocket(Caller("request"), tasks)
        /\ UNCHANGED <<pending, garbled>>
    BY <1>1, <1>7 DEF RequestQueued, sending
  <2>2. Caller("request") \in Waiting /\ Caller("request").what # "send"
    BY CallerType DEF Caller, Callers
  <2>3. WaitsOnce' /\ Unsent' = Unsent
    <3>1. SocketsMatch /\ WaitsOnce
      BY DEF Watched, Places
    <3> QED
      BY <2>1, <2>2, <3>1, TaskSeq, EnsureSocketWaits, UnsentMeaning DEF WaitsOnce
  <2>4. QueueInOrder /\ \A q \in Queued : q < r
    BY <1>1, <1>2 DEF Places
  <2>5. QueueInOrder'
    BY <1>1, <2>1, <2>4, EnqueueMembers
  <2>6. PICK rs \in SUBSET (Queued \cup {r}) : Settle(rs) /\ Queued' = (Queued \cup {r}) \ rs
    BY <1>1, <2>1, <2>4, EnqueueMembers
  <2>7. Held' = (Held \cup {r}) \ rs
    BY <1>2, <2>1, <2>3, <2>6 DEF Held, Places, OnePlaceEach
  <2>8. SettledAreNowhere'
    <3>1. rs \in SUBSET (Held \cup {r})
      BY DEF Held
    <3> QED
      BY <1>1, <1>4, <2>6, <2>7, <3>1, SettleNowhere
  <2> QED
    BY <1>2, <1>4, <2>1, <2>3, <2>5, <2>6, <2>8 DEF Places, OnePlaceEach, Moved, Held
<1> QED
  BY <1>3, <1>5, <1>6, <1>7

LEMMA CloseMoves ==
    ASSUME TypeOK, Places, Close
    PROVE  Places' /\ Moved
<1> DEFINE dropped == IF socket # NoSocket THEN pending ELSE {}
<1>1. /\ Settle(Queued \cup dropped) /\ pending' = pending \ dropped /\ queued' = <<>>
      /\ UNCHANGED <<awaits, garbled, issued, tasks>>
  BY DEF Close, Queued
<1>2. dropped \subseteq pending
  OBVIOUS
<1> HIDE DEF dropped
<1>3. WaitsOnce' /\ Unsent' = Unsent /\ Made' = Made
  BY <1>1, WaitsOnceStays DEF Places, Made
<1>4. Queued' = {} /\ QueueInOrder'
  <2>1. DOMAIN queued' = {}
    BY <1>1
  <2> QED
    BY <2>1 DEF Queued, Members, QueueInOrder
<1>5. Held' = (Held \cup {}) \ (Queued \cup dropped)
  BY <1>1, <1>2, <1>3, <1>4 DEF Held, Places, OnePlaceEach
<1>6. SettledAreNowhere'
  <2>1. Queued \cup dropped \in SUBSET (Held \cup {})
    BY <1>2 DEF Held
  <2> QED
    BY <1>1, <1>3, <1>5, <2>1, SettleNowhere
<1> QED
  BY <1>1, <1>3, <1>4, <1>6 DEF Places, OnePlaceEach, Moved

LEMMA RunTaskMoves ==
    ASSUME TypeOK, Watched, Places, RunTask
    PROVE  Places' /\ Moved
<1>1. tasks # <<>> /\ UNCHANGED <<garbled, issued>> /\ SocketsMatch /\ WaitsOnce
  BY DEF RunTask, Watched, Places
<1>2. Head(tasks) \in Task /\ Tail(tasks) \in Seq(Task) /\ Head(tasks).on \in Sockets
  BY <1>1, NextTaskType
<1>3. /\ SendsOfTasks(Tail(tasks)) =
            SendsOfTasks(tasks) \ (IF Head(tasks).what = "send" THEN {Head(tasks).request} ELSE {})
      /\ Head(tasks).what = "send" => Head(tasks).request \in SendsOfTasks(tasks)
      /\ OnceInTasks(Tail(tasks))
  BY <1>1, SendsOfTail DEF WaitsOnce
<1>4. ASSUME tasks' = Tail(tasks), UNCHANGED awaits
      PROVE  /\ WaitsOnce'
             /\ Unsent' = Unsent \ (IF Head(tasks).what = "send" THEN {Head(tasks).request} ELSE {})
  <2>1. WaitsOnce'
    <3>1. OnceInTasks(tasks') /\ OnceInSockets(awaits')
          /\ SendsOfTasks(tasks') \cap SendsOfSockets(awaits') = {}
      BY <1>1, <1>3, <1>4 DEF WaitsOnce
    <3> QED
      BY <3>1 DEF WaitsOnce
  <2>2. Unsent' = SendsOfSockets(awaits') \cup SendsOfTasks(tasks')
    BY DEF Unsent, SendsOfSockets, SendsOfTasks
  <2> QED
    BY <1>1, <1>3, <1>4, <2>1, <2>2, UnsentMeaning DEF WaitsOnce
<1>5. Made' = Made
  BY <1>1 DEF Made
<1>6. CASE StartFlush
  <2>1. Head(tasks).what # "send" /\ UNCHANGED <<queued, pending, settled>>
    BY <1>6 DEF StartFlush, sending
  <2>2. WaitsOnce' /\ Unsent' = Unsent
    <3>1. CASE tasks' = Tail(tasks) /\ UNCHANGED connection
      BY <1>4, <2>1, <3>1 DEF connection
    <3>2. ASSUME NEW then \in {"connectFlush", "flush"}, EnsureSocket(Caller(then), Tail(tasks))
          PROVE  WaitsOnce' /\ Unsent' = Unsent
      <4>1. Caller(then) \in Waiting /\ Caller(then).what # "send"
        BY CallerType DEF Caller, Callers
      <4>2. SendsOfTasks(Tail(tasks)) = SendsOfTasks(tasks)
        BY <1>3, <2>1
      <4> QED
        BY <1>1, <1>2, <1>3, <3>2, <4>1, <4>2, EnsureSocketWaits, UnsentMeaning DEF WaitsOnce
    <3> QED
      BY <1>6, <3>1, <3>2 DEF StartFlush
  <2> QED
    BY <1>1, <2>1, <2>2, NobodyMoves
<1>7. CASE Flush
  <2>1. PICK n \in 0..Len(queued) : FlushNext(Head(tasks).on, n)
    BY <1>7 DEF Flush
  <2> DEFINE sent == {queued[m] : m \in 1..n}
  <2>2. /\ Head(tasks).what # "send" /\ tasks' = Tail(tasks) /\ UNCHANGED <<awaits, settled>>
    BY <1>7 DEF Flush, connection
  <2>3. WaitsOnce' /\ Unsent' = Unsent
    BY <1>4, <2>2
  <2>4. /\ queued \in Seq(Requests) /\ Increasing(queued)
        /\ queued' = SubSeq(queued, n + 1, Len(queued))
    BY <2>1 DEF TypeOK, Places, QueueInOrder, Increasing, FlushNext
  <2>5. Members(queued') = Members(queued) \ sent /\ sent \subseteq Members(queued)
        /\ Increasing(queued')
    BY <2>4, SuffixMembers
  <2>6. Queued' = Queued \ sent /\ sent \subseteq Queued /\ QueueInOrder'
    BY <2>5 DEF Queued, QueueInOrder, Increasing, Members
  <2>7. pending' = pending \cup sent
    BY <2>1 DEF FlushNext, Send
  <2> HIDE DEF sent
  <2>8. Held' = (Held \cup {}) \ {} /\ Settle({})
    BY <1>1, <2>2, <2>3, <2>6, <2>7, SettleNobody DEF Held
  <2>9. SettledAreNowhere'
    BY <1>5, <2>8, SettleNowhere
  <2> QED
    BY <1>1, <1>5, <2>3, <2>6, <2>7, <2>9 DEF Places, OnePlaceEach, Moved
<1>8. CASE SendNow
  <2> DEFINE r == Head(tasks).request
  <2>1. /\ Head(tasks).what = "send" /\ tasks' = Tail(tasks) /\ UNCHANGED <<awaits, queued>>
    BY <1>8 DEF SendNow, connection
  <2>2. WaitsOnce' /\ Unsent' = Unsent \ {r} /\ r \in Unsent
    BY <1>3, <1>4, <2>1, UnsentMeaning
  <2>3. QueueInOrder' /\ Queued' = Queued
    BY <2>1 DEF Places, QueueInOrder, Queued, Members
  <2>4. \/ pending' = pending \cup {r} /\ UNCHANGED settled
        \/ Settle({r}) /\ UNCHANGED pending
    BY <1>8 DEF SendNow, Send, sending
  <2> HIDE DEF r
  <2>5. CASE pending' = pending \cup {r} /\ UNCHANGED settled
    <3>1. Held' = (Held \cup {}) \ {} /\ Settle({})
      BY <1>1, <2>2, <2>3, <2>5, SettleNobody DEF Held
    <3>2. SettledAreNowhere'
      BY <1>5, <3>1, SettleNowhere
    <3> QED
      BY <1>1, <1>5, <2>2, <2>3, <2>5, <3>2 DEF Places, OnePlaceEach, Moved
  <2>6. CASE Settle({r}) /\ UNCHANGED pending
    <3>1. Held' = (Held \cup {}) \ {r}
      BY <1>1, <2>2, <2>3, <2>6 DEF Held, Places, OnePlaceEach
    <3>2. SettledAreNowhere'
      <4>1. {r} \in SUBSET (Held \cup {})
        BY <2>2 DEF Held
      <4> QED
        BY <1>5, <2>6, <3>1, <4>1, SettleNowhere
    <3> QED
      BY <1>1, <1>5, <2>2, <2>3, <2>6, <3>2 DEF Places, OnePlaceEach, Moved
  <2> QED
    BY <2>4, <2>5, <2>6
<1> QED
  BY <1>6, <1>7, <1>8 DEF RunTask

LEMMA OpensMoves ==
    ASSUME TypeOK, Places, NEW s \in Sockets, Opens(s)
    PROVE  Places' /\ Moved
<1>1. /\ awaits' = [awaits EXCEPT ![s] = Nobody] /\ tasks' = Ready(tasks, awaits[s], s)
      /\ UNCHANGED <<queued, pending, garbled, settled, issued>>
  BY DEF Opens, sending
<1>2. awaits \in [Sockets -> Waiting] /\ awaits[s] \in Waiting /\ tasks \in Seq(Task) /\ WaitsOnce
  BY TaskSeq DEF TypeOK, Places
<1> DEFINE moved == IF awaits[s].what = "send" THEN {awaits[s].request} ELSE {}
<1>3. /\ SendsOfSockets(awaits') = SendsOfSockets(awaits) \ moved
      /\ awaits[s].what = "send" => awaits[s].request \in SendsOfSockets(awaits)
      /\ OnceInSockets(awaits')
  BY <1>1, <1>2, SendsOfOldSocket DEF WaitsOnce
<1>4. awaits[s].what = "send" => awaits[s].request \notin SendsOfTasks(tasks)
  BY <1>2, <1>3 DEF WaitsOnce
<1>5. SendsOfTasks(tasks') = SendsOfTasks(tasks) \cup moved /\ OnceInTasks(tasks')
  BY <1>1, <1>2, <1>4, SendsOfReady DEF WaitsOnce
<1>6. WaitsOnce'
  <2>1. SendsOfTasks(tasks') \cap SendsOfSockets(awaits') = {}
    BY <1>2, <1>3, <1>5 DEF WaitsOnce
  <2> QED
    BY <1>3, <1>5, <2>1 DEF WaitsOnce
<1>7. Unsent' = Unsent
  <2>1. Unsent' = SendsOfSockets(awaits') \cup SendsOfTasks(tasks')
    BY DEF Unsent, SendsOfSockets, SendsOfTasks
  <2>2. moved \subseteq SendsOfSockets(awaits)
    BY <1>3
  <2> QED
    BY <1>3, <1>5, <2>1, <2>2, UnsentMeaning
<1> QED
  BY <1>1, <1>6, <1>7, NobodyMoves

LEMMA AttemptFailsMoves ==
    ASSUME TypeOK, Places, NEW s \in Sockets, AttemptFails(s)
    PROVE  Places' /\ Moved
<1> DEFINE rejected == IF awaits[s].what = "send" THEN {awaits[s].request} ELSE {}
<1>1. /\ awaits' = [awaits EXCEPT ![s] = Nobody] /\ Settle(rejected)
      /\ UNCHANGED <<queued, pending, garbled, issued, tasks>>
  BY DEF AttemptFails, sending
<1>2. awaits \in [Sockets -> Waiting] /\ WaitsOnce
  BY DEF TypeOK, Places
<1>3. /\ SendsOfSockets(awaits') = SendsOfSockets(awaits) \ rejected
      /\ rejected \subseteq SendsOfSockets(awaits)
      /\ OnceInSockets(awaits')
  BY <1>1, <1>2, SendsOfOldSocket DEF WaitsOnce
<1> HIDE DEF rejected
<1>4. WaitsOnce'
  <2>1. OnceInTasks(tasks') /\ SendsOfTasks(tasks') \cap SendsOfSockets(awaits') = {}
    BY <1>1, <1>2, <1>3 DEF WaitsOnce
  <2> QED
    BY <1>3, <2>1 DEF WaitsOnce
<1>5. Unsent' = Unsent \ rejected /\ rejected \subseteq Unsent
  <2>1. Unsent' = SendsOfSockets(awaits') \cup SendsOfTasks(tasks')
    BY DEF Unsent, SendsOfSockets, SendsOfTasks
  <2> QED
    BY <1>1, <1>2, <1>3, <2>1, UnsentMeaning DEF WaitsOnce
<1>6. QueueInOrder' /\ Queued' = Queued /\ Made' = Made
  BY <1>1 DEF Places, QueueInOrder, Queued, Members, Made
<1>7. Held' = (Held \cup {}) \ rejected
  BY <1>1, <1>5, <1>6 DEF Held, Places, OnePlaceEach
<1>8. SettledAreNowhere'
  <2>1. rejected \in SUBSET (Held \cup {})
    BY <1>5 DEF Held
  <2> QED
    BY <1>1, <1>6, <1>7, <2>1, SettleNowhere
<1> QED
  BY <1>1, <1>4, <1>5, <1>6, <1>8 DEF Places, OnePlaceEach, Moved

(* Some pending requests are settled, others are lost. *)
LEMMA PendingMoves ==
    ASSUME TypeOK, Places, NEW rs \in SUBSET pending, NEW lost \in SUBSET pending,
           rs \cap lost = {}, Settle(rs), pending' = pending \ (rs \cup lost),
           garbled' = garbled \cup lost, UNCHANGED <<awaits, tasks, queued, issued>>
    PROVE  Places' /\ Moved
<1>1. WaitsOnce' /\ Unsent' = Unsent
  BY WaitsOnceStays DEF Places
<1>2. QueueInOrder' /\ Queued' = Queued /\ Made' = Made
  BY DEF Places, QueueInOrder, Queued, Members, Made
<1>3. Held' = (Held \cup {}) \ rs
  BY <1>1, <1>2 DEF Held, Places, OnePlaceEach
<1>4. SettledAreNowhere'
  <2>1. rs \in SUBSET (Held \cup {})
    BY DEF Held
  <2> QED
    BY <1>2, <1>3, <2>1, SettleNowhere
<1> QED
  BY <1>1, <1>2, <1>4 DEF Places, OnePlaceEach, Moved

LEMMA PlacesStep == TypeOK /\ Watched /\ Places /\ Next => Places' /\ Moved
<1> SUFFICES ASSUME TypeOK, Watched, Places, Next PROVE Places' /\ Moved
  OBVIOUS
<1>1. CASE Request
  BY <1>1, RequestMoves
<1>2. CASE Connect
  <2>1. "connect" \in Callers \ {"send"}
    BY DEF Callers
  <2> QED
    BY <1>2, <2>1, NobodyMovesForASocket DEF Connect, sending, Watched
<1>3. CASE Close
  BY <1>3, CloseMoves
<1>4. CASE RunTask
  BY <1>4, RunTaskMoves
<1>5. ASSUME NEW s \in Sockets, Opens(s) PROVE Places' /\ Moved
  BY <1>5, OpensMoves
<1>6. ASSUME NEW s \in Sockets, AttemptFails(s) PROVE Places' /\ Moved
  BY <1>6, AttemptFailsMoves
<1>7. ASSUME NEW s \in Sockets, StartsClosing(s) PROVE Places' /\ Moved
  BY <1>7, WaitsOnceStays, NobodyMoves DEF StartsClosing, sending, Places
<1>8. ASSUME NEW s \in Sockets, Closes(s) PROVE Places' /\ Moved
  <2>1. /\ Settle(pending) /\ pending' = pending \ (pending \cup {})
        /\ garbled' = garbled \cup {} /\ UNCHANGED <<awaits, tasks, queued, issued>>
    BY <1>8 DEF Closes
  <2> QED
    BY <2>1, PendingMoves
<1>9. ASSUME NEW r \in Requests, NEW decodes \in BOOLEAN, Answer(r, decodes)
      PROVE  Places' /\ Moved
  <2>1. pending' = pending \ {r} /\ UNCHANGED <<awaits, tasks, queued, issued>>
    BY <1>9 DEF Answer, connection
  <2>2. CASE decodes
    <3>1. Settle({r} \cap pending) /\ garbled' = garbled \cup {}
      BY <1>9, <2>2 DEF Answer
    <3>2. pending' = pending \ (({r} \cap pending) \cup {})
      BY <2>1
    <3>3. {r} \cap pending \in SUBSET pending /\ {} \in SUBSET pending
          /\ ({r} \cap pending) \cap {} = {}
      OBVIOUS
    <3> QED
      BY <2>1, <3>1, <3>2, <3>3, PendingMoves
  <2>3. CASE ~decodes
    <3>1. Settle({}) /\ garbled' = garbled \cup ({r} \cap pending)
      BY <1>9, <2>3 DEF Answer
    <3>2. pending' = pending \ ({} \cup ({r} \cap pending))
      BY <2>1
    <3> QED
      BY <2>1, <3>1, <3>2, PendingMoves
  <2> QED
    BY <2>2, <2>3
<1>10. ASSUME NEW r \in Requests, RequestTimesOut(r) PROVE Places' /\ Moved
  <2>1. r \in pending
    BY <1>10 DEF RequestTimesOut, Watched, PendingIsWatched, TimeoutsMatchPending
  <2>2. /\ Settle({r}) /\ pending' = pending \ ({r} \cup {}) /\ garbled' = garbled \cup {}
        /\ UNCHANGED <<awaits, tasks, queued, issued>>
    BY <1>10 DEF RequestTimesOut, connection
  <2>3. {r} \in SUBSET pending /\ {} \in SUBSET pending /\ {r} \cap {} = {}
    BY <2>1
  <2> QED
    BY <2>2, <2>3, PendingMoves
<1>11. CASE ReconnectTimerFires
  <2>1. "reconnect" \in Callers \ {"send"}
    BY DEF Callers
  <2> QED
    BY <1>11, <2>1, NobodyMovesForASocket DEF ReconnectTimerFires, sending, Watched
<1>12. CASE ReconnectPollFires
  <2>1. UNCHANGED <<queued, pending, garbled, settled, issued>>
    BY <1>12 DEF ReconnectPollFires, sending
  <2>2. CASE UNCHANGED <<connection, tasks>>
    BY <2>1, <2>2, WaitsOnceStays, NobodyMoves DEF connection, Places
  <2>3. CASE EnsureSocket(Caller("poll"), tasks)
    <3>1. "poll" \in Callers \ {"send"}
      BY DEF Callers
    <3> QED
      BY <2>1, <2>3, <3>1, NobodyMovesForASocket DEF Watched
  <2> QED
    BY <1>12, <2>2, <2>3 DEF ReconnectPollFires
<1> QED
  BY <1>1, <1>2, <1>3, <1>4, <1>5, <1>6, <1>7, <1>8, <1>9, <1>10, <1>11, <1>12
     DEF Next, Calls

LEMMA PlacesStutter == Places /\ UNCHANGED vars => Places'
  BY WaitsOnceStays DEF vars, Places, OnePlaceEach, SettledAreNowhere, Held, Queued, Members,
     QueueInOrder, Made

LEMMA PlacesInvariant == Spec => [](TypeOK /\ Watched /\ Places)
<1>1. Init => TypeOK /\ Watched /\ Places
  BY TypeInitial, WatchedInitial, PlacesInitial
<1>2. TypeOK /\ Watched /\ Places /\ [Next]_vars => (TypeOK /\ Watched /\ Places)'
  BY TypeStep, WatchedStep, PlacesStep, PlacesStutter
<1> QED
  BY <1>1, <1>2, PTL DEF Spec

(* A request is counted once if it is there, in whatever set it is. *)
LEMMA OneOf ==
    ASSUME NEW r, NEW S
    PROVE  Cardinality({r} \cap S) = IF r \in S THEN 1 ELSE 0
<1>1. CASE r \in S
  <2>1. {r} \cap S = {r}
    BY <1>1
  <2> QED
    BY <1>1, <2>1, FS_Singleton
<1>2. CASE r \notin S
  <2>1. {r} \cap S = {}
    BY <1>2
  <2> QED
    BY <1>2, <2>1, FS_EmptySet
<1> QED
  BY <1>1, <1>2

LEMMA OnceInTheQueue ==
    ASSUME TypeOK, QueueInOrder, NEW r \in Requests
    PROVE  Cardinality({n \in DOMAIN queued : queued[n] = r}) = IF r \in Queued THEN 1 ELSE 0
<1>1. CASE r \in Queued
  <2>1. PICK n \in DOMAIN queued : queued[n] = r
    BY <1>1 DEF Queued, Members
  <2>2. ASSUME NEW m \in DOMAIN queued, queued[m] = r PROVE m = n
    <3>1. m \in Nat /\ n \in Nat /\ r \in Nat
      BY QueueMembers, SocketNumbers
    <3>2. ~(m < n) /\ ~(n < m)
      BY <2>1, <2>2, <3>1 DEF QueueInOrder
    <3> QED
      BY <3>1, <3>2
  <2>3. {m \in DOMAIN queued : queued[m] = r} = {n}
    BY <2>1, <2>2
  <2> QED
    BY <1>1, <2>3, FS_Singleton
<1>2. CASE r \notin Queued
  <2>1. {n \in DOMAIN queued : queued[n] = r} = {}
    BY <1>2 DEF Queued, Members
  <2> QED
    BY <1>2, <2>1, FS_EmptySet
<1> QED
  BY <1>1, <1>2

LEMMA PlacesMean == TypeOK /\ Places => NoRequestIsForgotten
<1> SUFFICES ASSUME TypeOK, Places PROVE NoRequestIsForgotten
  OBVIOUS
<1>1. QueueInOrder
  BY DEF Places
<1>2. ASSUME NEW r \in Made, settled[r] = 0
      PROVE  Cardinality({n \in DOMAIN queued : queued[n] = r})
                 + Cardinality({r} \cap pending) + Cardinality({r} \cap Unsent)
                 + Cardinality({r} \cap garbled) = 1
  <2>1. r \in Requests
    BY MadeMeaning
  <2>2. r \in Held
    BY <1>2, <2>1 DEF Places, SettledAreNowhere
  <2>3. Cardinality({n \in DOMAIN queued : queued[n] = r}) = IF r \in Queued THEN 1 ELSE 0
    BY <1>1, <2>1, OnceInTheQueue
  <2>4. /\ Cardinality({r} \cap pending) = IF r \in pending THEN 1 ELSE 0
        /\ Cardinality({r} \cap Unsent) = IF r \in Unsent THEN 1 ELSE 0
        /\ Cardinality({r} \cap garbled) = IF r \in garbled THEN 1 ELSE 0
    BY OneOf
  <2> QED
    BY <2>2, <2>3, <2>4 DEF Held, Places, OnePlaceEach
<1> QED
  BY <1>1, <1>2 DEF NoRequestIsForgotten, InOnePlace

(* Whatever sockets do, a request whose promise is not settled is queued, or
   waits for its answer, or for its socket, and in one of these places only;
   and the queue is in the order in which the requests were made.          *)
THEOREM NoRequestIsEverForgotten == Spec => []RequestsAreKept
<1>1. TypeOK /\ Places => RequestsAreKept
  BY PlacesMean DEF RequestsAreKept
<1> QED
  BY <1>1, PlacesInvariant, PTL

-----------------------------------------------------------------------------
(* The refinement *)

LEMMA LifeMeaning ==
    ASSUME TypeOK, Places, NEW r \in Requests
    PROVE  Life(r) = IF r \notin Made THEN "new"
                     ELSE IF r \in garbled THEN "lost"
                     ELSE IF r \in pending THEN "sent"
                     ELSE IF r \in Queued \cup Unsent THEN "waiting"
                     ELSE "settled"
<1>1. settled[r] = IF r \in Made \ Held THEN 1 ELSE 0
  BY DEF Places, SettledAreNowhere
<1>2. Held \subseteq Made /\ OnePlaceEach
  BY DEF Places, SettledAreNowhere
<1>3. CASE r \in Made \ Held
  BY <1>1, <1>3 DEF Life, Held
<1>4. CASE r \notin Made \ Held
  <2>1. settled[r] = 0
    BY <1>1, <1>4
  <2> QED
    BY <1>2, <1>4, <2>1 DEF Life, Held, OnePlaceEach
<1> QED
  BY <1>3, <1>4

LEMMA LifeMoves ==
    ASSUME TypeOK, TypeOK', Places, Places', Moved, NEW r \in Requests
    PROVE  Life(r)' = Life(r) \/ <<Life(r), Life(r)'>> \in Promised!Moves
<1> DEFINE Place(new, lost, sent, waiting) ==
             IF r \notin new THEN "new" ELSE IF r \in lost THEN "lost"
             ELSE IF r \in sent THEN "sent" ELSE IF r \in waiting THEN "waiting"
             ELSE "settled"
<1>1. Life(r) = Place(Made, garbled, pending, Queued \cup Unsent)
  BY LifeMeaning
<1>2. Life(r)' = Place(Made', garbled', pending', Queued' \cup Unsent')
  <2>1. settled'[r] = IF r \in Made' \ Held' THEN 1 ELSE 0
    BY DEF Places, SettledAreNowhere
  <2>2. Held' \subseteq Made' /\ OnePlaceEach'
    BY DEF Places, SettledAreNowhere
  <2>3. CASE r \in Made' \ Held'
    BY <2>1, <2>3 DEF Life, Held
  <2>4. CASE r \notin Made' \ Held'
    <3>1. settled'[r] = 0
      BY <2>1, <2>4
    <3> QED
      BY <2>2, <2>4, <3>1 DEF Life, Held, OnePlaceEach
  <2> QED
    BY <2>3, <2>4
<1>3. OnePlaceEach /\ OnePlaceEach' /\ Held \subseteq Made /\ Held' \subseteq Made'
  BY DEF Places, SettledAreNowhere
<1> QED
  BY <1>1, <1>2, <1>3 DEF Moved, OnePlaceEach, Held, Promised!Moves

(* The transport implements RequestLife: however answers, timeouts, closing
   sockets, a full queue, sends that throw and close race, a request is sent
   once at most and its promise settled once at most.                      *)
THEOREM TheTransportImplementsRequestLife == Spec => ImplementsRequestLife
<1>1. Init => Promised!Init
  <2> SUFFICES ASSUME Init PROVE Promised!Init
    OBVIOUS
  <2>1. TypeOK /\ Places
    BY TypeInitial, PlacesInitial
  <2>2. Made = {}
    BY DEF Init, Made
  <2>3. \A r \in Requests : Life(r) = "new"
    BY <2>1, <2>2, LifeMeaning
  <2> QED
    BY <2>3 DEF Promised!Init
<1>2. /\ TypeOK /\ Watched /\ Places /\ (TypeOK /\ Watched /\ Places)' /\ [Next]_vars
      => [Promised!Next]_([r \in Requests |-> Life(r)])
  <2> SUFFICES ASSUME TypeOK, Watched, Places, TypeOK', Places', [Next]_vars
               PROVE  [Promised!Next]_([r \in Requests |-> Life(r)])
    OBVIOUS
  <2>1. CASE Next
    <3>1. Moved
      BY <2>1, PlacesStep
    <3>2. \A r \in Requests : Life(r)' = Life(r) \/ <<Life(r), Life(r)'>> \in Promised!Moves
      BY <3>1, LifeMoves
    <3> QED
      BY <3>2 DEF Promised!Next
  <2>2. CASE UNCHANGED vars
    <3>1. \A r \in Requests : Life(r)' = Life(r)
      BY <2>2 DEF vars, Life, Made
    <3> QED
      BY <3>1
  <2> QED
    BY <2>1, <2>2
<1>3. Spec => [](TypeOK /\ Watched /\ Places)
  BY PlacesInvariant
<1> QED
  BY <1>1, <1>2, <1>3, PTL DEF Spec, ImplementsRequestLife, Promised!Spec
=============================================================================
