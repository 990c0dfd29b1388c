---------------------------- MODULE RuntimeQueue ----------------------------
(***************************************************************************)
(* One channel of the runtime queue (packages/sync/src/runtimeQueue/       *)
(* createRuntimeQueue.ts), through which the entity store notifies units   *)
(* and the cache storage writes: tasks wait under a key, a task enqueued   *)
(* under the key of a waiting one replaces it in its place, and a callback *)
(* the runtime has been asked for takes them in batches.                   *)
(*                                                                         *)
(* A task that runs may enqueue others, and flush; its call then runs the  *)
(* queue inside the batch that is under way, so what runs is a stack.      *)
(* What a task throws is swallowed, and makes no difference.               *)
(***************************************************************************)
EXTENDS Naturals, Sequences, SequencesExt, FiniteSets

CONSTANTS
    Keys,         \* the keys of tasks; a task without one has a key of its own
    BatchSize,    \* resolveBatchSize
    MaxTasks      \* bound: tasks enqueued

(* What the constants may be; the instances are checked against it. *)
QueueConstants == BatchSize \in Nat \ {0} /\ MaxTasks \in Nat

VARIABLES
    tasks,       \* channelTaskMap: what waits, in the order of the map
    scheduled,   \* scheduledChannels has the channel
    stack,       \* the batches under way, the innermost last
    enqueued,    \* how many tasks have been enqueued
    ran,         \* history: the tasks that have run
    replaced     \* history: the tasks another one has replaced

queueVars == <<tasks, scheduled, stack, enqueued, ran, replaced>>

Task(k, n)  == [key |-> k, id |-> n]
Ids(s)      == {t.id : t \in ToSet(s)}
InTask      == stack # <<>> /\ Last(stack).inTask
Batch(q)    == SubSeq(q, 1, IF Len(q) < BatchSize THEN Len(q) ELSE BatchSize)
Remaining(q) == SubSeq(q, Len(Batch(q)) + 1, Len(q))

QueueInit ==
    /\ tasks = <<>> /\ scheduled = FALSE /\ stack = <<>>
    /\ enqueued = 0 /\ ran = {} /\ replaced = {}

(* runBatch takes its tasks out of the map before it runs the first. *)
Starts(q, flush) ==
    /\ stack' = Append(stack, [rest |-> Batch(q), taken |-> Batch(q), flush |-> flush, inTask |-> FALSE])
    /\ tasks' = Remaining(q)

(* Map.set: a waiting key keeps its place. *)
Put(q, t) ==
    IF \E i \in DOMAIN q : q[i].key = t.key
    THEN [i \in DOMAIN q |-> IF q[i].key = t.key THEN t ELSE q[i]]
    ELSE Append(q, t)

(* enqueue, by anybody outside or by the task that runs. *)
Enqueue(k, sync) ==
    LET t == Task(k, enqueued + 1) q == Put(tasks, t) IN
    /\ stack = <<>> \/ InTask
    /\ enqueued < MaxTasks /\ enqueued' = enqueued + 1
    /\ replaced' = replaced \cup (Ids(tasks) \ Ids(q))
    /\ IF sync THEN Starts(q, TRUE) /\ UNCHANGED scheduled
               ELSE tasks' = q /\ scheduled' = TRUE /\ UNCHANGED stack
    /\ UNCHANGED ran

(* flush(), and flush(channel) *)
Flush ==
    /\ stack = <<>> \/ InTask
    /\ tasks # <<>>
    /\ Starts(tasks, TRUE)
    /\ UNCHANGED <<scheduled, enqueued, ran, replaced>>

(* The callback the runtime was asked for; the queue may be empty by then. *)
Callback ==
    /\ stack = <<>> /\ scheduled
    /\ scheduled' = FALSE
    /\ Starts(tasks, FALSE)
    /\ UNCHANGED <<enqueued, ran, replaced>>

Top(frame) == [stack EXCEPT ![Len(stack)] = frame]

RunTask ==
    /\ stack # <<>> /\ ~InTask /\ Last(stack).rest # <<>>
    /\ stack' = Top([Last(stack) EXCEPT !.rest = Tail(@), !.inTask = TRUE])
    /\ ran' = ran \cup {Head(Last(stack).rest).id}
    /\ UNCHANGED <<tasks, scheduled, enqueued, replaced>>

TaskEnds ==
    /\ InTask
    /\ stack' = Top([Last(stack) EXCEPT !.inTask = FALSE])
    /\ UNCHANGED <<tasks, scheduled, enqueued, ran, replaced>>

(* Mutant: the keys of the batch are taken out when it has run. *)
BatchEndsLate ==
    /\ stack # <<>> /\ ~InTask /\ Last(stack).rest = <<>>
    /\ LET keys == {t.key : t \in ToSet(Last(stack).taken)}
           left == SelectSeq(tasks, LAMBDA t : t.key \notin keys)
       IN  /\ tasks' = left /\ stack' = Front(stack)
           /\ scheduled' = (scheduled \/ (~Last(stack).flush /\ left # <<>>))
    /\ UNCHANGED <<enqueued, ran, replaced>>

(* The batch is done: a flush goes on until nothing waits, the callback asks
   for another one.                                                        *)
BatchEnds ==
    /\ stack # <<>> /\ ~InTask /\ Last(stack).rest = <<>>
    /\ IF Last(stack).flush /\ tasks # <<>>
       THEN /\ stack' = Top([Last(stack) EXCEPT !.rest = Batch(tasks), !.taken = Batch(tasks)])
            /\ tasks' = Remaining(tasks) /\ UNCHANGED scheduled
       ELSE /\ stack' = Front(stack)
            /\ scheduled' = (scheduled \/ (~Last(stack).flush /\ tasks # <<>>))
            /\ UNCHANGED tasks
    /\ UNCHANGED <<enqueued, ran, replaced>>

QueueNext ==
    \/ \E k \in Keys, sync \in BOOLEAN : Enqueue(k, sync)
    \/ Flush \/ Callback \/ RunTask \/ TaskEnds \/ BatchEnds

-----------------------------------------------------------------------------
Underway == UNION {Ids(stack[i].rest) : i \in DOMAIN stack}

QueueTypeOK ==
    /\ tasks \in Seq([key : Keys, id : 1..MaxTasks]) /\ scheduled \in BOOLEAN
    /\ \A i \in DOMAIN stack : stack[i].flush \in BOOLEAN /\ stack[i].inTask \in BOOLEAN
    /\ enqueued \in 0..MaxTasks /\ ran \cup replaced \subseteq 1..enqueued

(* No task is lost, whoever enqueues under its key while batches run: it
   waits, is in a batch under way, has run, or was replaced by a later one
   of its key; only one of these; and what waits is going to be taken, by
   the callback or by the batch that is under way.                         *)
NoTaskIsLost ==
    /\ 1..enqueued = Ids(tasks) \cup Underway \cup ran \cup replaced
    /\ Ids(tasks) \cap (Underway \cup ran \cup replaced) = {}
    /\ (Underway \cup ran) \cap replaced = {} /\ Underway \cap ran = {}
    /\ tasks # <<>> => scheduled \/ stack # <<>>
=============================================================================
