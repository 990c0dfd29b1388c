---------------------------- MODULE SupportProofs ----------------------------
(***************************************************************************)
(* Theorems about what the units of packages/sync rest on.  First, what    *)
(* holds of the cache storage for any keys, records and retry budget; then *)
(* the parts of MCSupport, one after the other, each for any bound and any *)
(* sets it works on: the runtime queue, the scheduler of destructions, the *)
(* bounded caches, the list that limits a source's records, and the        *)
(* client's subscriptions and envelopes.                                   *)
(***************************************************************************)
EXTENDS MCSupport, SequencesExt, TLAPS, SequenceTheorems, FiniteSetTheorems, NaturalsInduction, WellFoundedInduction

USE StorageAssumption

-----------------------------------------------------------------------------
(* The tables of operations *)

LEMMA EmptyType == Empty \in [Keys -> Operations] /\ Queued(Empty) = {}
  BY DEF Empty, Operations, Queued

LEMMA OverType ==
    ASSUME NEW Set, NEW queue \in [Keys -> Set], NEW operations \in [Keys -> Operations],
           Records \subseteq Set
    PROVE  Over(queue, operations) \in [Keys -> Set]
  BY DEF Over, Operations, Records

LEMMA BatchTypes ==
    /\ NoReads \in [phase : Phases, keys : SUBSET Keys]
    /\ NoWrites \in [phase : Phases, operations : [Keys -> Operations]]
  BY EmptyType DEF NoReads, NoWrites, Phases

(* What the helpers do to the types of what they change. *)
LEMMA ScheduleReconnectType ==
    ASSUME TypeOK, NEW wish \in BOOLEAN, ScheduleReconnect(wish)
    PROVE  reconnectScheduled' \in BOOLEAN /\ timers' \in Nat
<1>1. reconnectScheduled \in BOOLEAN /\ timers \in Nat
  BY DEF TypeOK
<1>2. CASE reconnectScheduled' = TRUE /\ timers' = timers + 1
  BY <1>1, <1>2
<1>3. CASE UNCHANGED <<reconnectScheduled, timers>>
  BY <1>1, <1>3
<1> QED
  BY <1>2, <1>3 DEF ScheduleReconnect

LEMMA FlushReadsType ==
    ASSUME TypeOK, FlushReads
    PROVE  /\ pendingReadKeys' \in SUBSET Keys
           /\ reads' \in [phase : Phases, keys : SUBSET Keys]
  BY BatchTypes DEF TypeOK, FlushReads, Readable, Joined, Phases

LEMMA FlushWritesType ==
    ASSUME TypeOK, FlushWrites
    PROVE  /\ pendingWrites' \in [Keys -> Operations]
           /\ writes' \in [phase : Phases, operations : [Keys -> Operations]]
  BY EmptyType DEF TypeOK, FlushWrites, Joined, Phases

LEMMA OpenDatabaseType ==
    ASSUME TypeOK, NEW needed, OpenDatabase(needed)
    PROVE  database' \in Phases \ {"transaction"}
  BY DEF TypeOK, OpenDatabase, Phases

LEMMA HandleFailureType ==
    ASSUME TypeOK, NEW permanent \in BOOLEAN, NEW readKeys \in SUBSET Keys,
           NEW operations \in [Keys -> Operations],
           HandleFailure(permanent, readKeys, operations)
    PROVE  /\ valuesByKey' \in [Keys -> Records]
           /\ missingKeys' \in SUBSET Keys /\ \A k \in missingKeys' : valuesByKey'[k] = Nothing
           /\ pendingReadKeys' \in SUBSET Keys
           /\ pendingWrites' \in [Keys -> Operations]
           /\ status' \in {"ready", "degraded", "disabled"}
           /\ transientFailureCount' \in 0..(MaxTransientFailures - 1)
           /\ reconnectScheduled' \in BOOLEAN /\ timers' \in Nat
           /\ database' \in Phases \ {"transaction"}
           /\ wanted' \in [Keys -> Operations]
           /\ reverted' \in SUBSET Keys
<1>1. CASE Disable
  BY <1>1, EmptyType DEF TypeOK, Disable, Records, Phases
<1>2. CASE ~permanent /\ transientFailureCount + 1 < MaxTransientFailures
           /\ Degrade(readKeys, operations)
  <2>1. Over(pendingWrites, operations) \in [Keys -> Operations]
    BY OverType DEF TypeOK, Operations
  <2>2. transientFailureCount' \in 0..(MaxTransientFailures - 1)
    BY <1>2 DEF TypeOK, Degrade
  <2>3. reconnectScheduled' \in BOOLEAN /\ timers' \in Nat
    BY <1>2, ScheduleReconnectType DEF Degrade
  <2> QED
    BY <1>2, <2>1, <2>2, <2>3 DEF TypeOK, Degrade, Phases, memory, Queued
<1> QED
  BY <1>1, <1>2 DEF HandleFailure, TypeOK

-----------------------------------------------------------------------------
(* Types *)

(* The history and the queues of any write are operations. *)
LEMMA WriteType ==
    ASSUME TypeOK, NEW k \in Keys, NEW operation \in Records, Write(k, operation)
    PROVE  TypeOK'
<1>1. reconnectScheduled' \in BOOLEAN /\ timers' \in Nat
  BY ScheduleReconnectType DEF Write
<1>2. /\ valuesByKey' \in [Keys -> Records] /\ missingKeys' \in SUBSET Keys
      /\ \A x \in missingKeys' : valuesByKey'[x] = Nothing
  BY DEF TypeOK, Write
<1>3. pendingWrites' \in [Keys -> Operations] /\ wanted' \in [Keys -> Operations]
  BY DEF TypeOK, Write, Operations
<1>4. reverted' \in SUBSET Keys /\ writesScheduled' \in BOOLEAN
  BY DEF TypeOK, Write, ScheduleWrites
<1> QED
  BY <1>1, <1>2, <1>3, <1>4 DEF TypeOK, Write

LEMMA CallsType ==
    ASSUME TypeOK, Calls
    PROVE  TypeOK'
<1>1. ASSUME NEW k \in Keys, GetItem(k)
      PROVE  TypeOK'
  <2>1. reconnectScheduled' \in BOOLEAN /\ timers' \in Nat
    BY <1>1, ScheduleReconnectType DEF GetItem
  <2> QED
    BY <1>1, <2>1 DEF TypeOK, GetItem, ScheduleReads, memory, history
<1>2. CASE Flush
  <2>1. reconnectScheduled' \in BOOLEAN /\ timers' \in Nat
    BY <1>2, ScheduleReconnectType DEF Flush
  <2>2. database' \in Phases \ {"transaction"}
    BY <1>2, OpenDatabaseType DEF Flush
  <2> QED
    BY <1>2, <2>1, <2>2, FlushReadsType, FlushWritesType
    DEF TypeOK, Flush, memory, tasks, history
<1> QED
  BY <1>1, <1>2, WriteType DEF Calls

LEMMA FailureType ==
    ASSUME TypeOK, NEW permanent \in BOOLEAN,
           ReadsFail(permanent) \/ WritesFail(permanent) \/ ReconnectFails
    PROVE  TypeOK'
<1>1. CASE ReadsFail(permanent)
  BY <1>1, HandleFailureType, EmptyType, BatchTypes DEF TypeOK, ReadsFail, tasks
<1>2. CASE WritesFail(permanent)
  BY <1>2, HandleFailureType, BatchTypes DEF TypeOK, WritesFail, tasks
<1>3. CASE ReconnectFails
  BY <1>3, HandleFailureType, EmptyType DEF TypeOK, ReconnectFails, tasks, Phases
<1> QED
  BY <1>1, <1>2, <1>3

LEMMA OpeningType ==
    ASSUME TypeOK, NEW got \in {"opened", "refused", "denied"},
           BatchesGet(got) \/ ReconnectGets(got)
    PROVE  TypeOK'
<1>1. CASE BatchesGet(got)
  <2>1. /\ reads' \in [phase : Phases, keys : SUBSET Keys]
        /\ writes' \in [phase : Phases, operations : [Keys -> Operations]]
    BY <1>1 DEF TypeOK, BatchesGet, Phases
  <2> QED
    BY <1>1, <2>1 DEF TypeOK, BatchesGet, Phases, memory, queues, tasks, retries, history
<1>2. CASE ReconnectGets(got)
  BY <1>2 DEF TypeOK, ReconnectGets, Phases, memory, queues, tasks, retries, history
<1> QED
  BY <1>1, <1>2

LEMMA BatchType ==
    ASSUME TypeOK, RunReadsTask \/ RunWritesTask \/ BeginReads \/ BeginWrites
    PROVE  TypeOK'
<1>1. CASE RunReadsTask
  <2>1. database' \in Phases \ {"transaction"}
    BY <1>1, OpenDatabaseType DEF RunReadsTask
  <2> QED
    BY <1>1, <2>1, FlushReadsType DEF TypeOK, RunReadsTask, memory, retries, history
<1>2. CASE RunWritesTask
  <2>1. database' \in Phases \ {"transaction"}
    BY <1>2, OpenDatabaseType DEF RunWritesTask
  <2> QED
    BY <1>2, <2>1, FlushWritesType DEF TypeOK, RunWritesTask, memory, retries, history
<1>3. CASE BeginReads
  BY <1>3 DEF TypeOK, BeginReads, Phases, memory, queues, tasks, retries, history
<1>4. CASE BeginWrites
  BY <1>4 DEF TypeOK, BeginWrites, Phases, memory, queues, tasks, retries, history
<1> QED
  BY <1>1, <1>2, <1>3, <1>4

LEMMA SuccessType ==
    ASSUME TypeOK, ReadsSucceed \/ WritesSucceed \/ Reconnects \/ ReconnectTimerFires
    PROVE  TypeOK'
<1>1. CASE ReadsSucceed
  <2>1. /\ valuesByKey' \in [Keys -> Records] /\ missingKeys' \in SUBSET Keys
        /\ \A k \in missingKeys' : valuesByKey'[k] = Nothing
    BY <1>1 DEF TypeOK, ReadsSucceed
  <2>2. readsScheduled' \in BOOLEAN
    BY <1>1 DEF TypeOK, ReadsSucceed, ScheduleReads
  <2> QED
    BY <1>1, <2>1, <2>2, BatchTypes DEF TypeOK, ReadsSucceed, queues, retries, history
<1>2. CASE WritesSucceed
  <2>1. stored' \in [Keys -> Records]
    BY <1>2 DEF TypeOK, WritesSucceed, Over, Operations, Records
  <2>2. writesScheduled' \in BOOLEAN
    BY <1>2 DEF TypeOK, WritesSucceed, ScheduleWrites
  <2> QED
    BY <1>2, <2>1, <2>2, BatchTypes DEF TypeOK, WritesSucceed, memory, queues, retries, history
<1>3. CASE Reconnects
  BY <1>3 DEF TypeOK, Reconnects, Phases, memory, queues, history
<1>4. CASE ReconnectTimerFires
  <2>1. timers' \in Nat
    BY <1>4 DEF TypeOK, ReconnectTimerFires
  <2>2. reconnect' \in Phases \ {"transaction"} /\ database' \in Phases \ {"transaction"}
    BY <1>4 DEF TypeOK, ReconnectTimerFires, Phases
  <2> QED
    BY <1>4, <2>1, <2>2 DEF TypeOK, ReconnectTimerFires, memory, queues, tasks, history
<1> QED
  BY <1>1, <1>2, <1>3, <1>4

(* A step is a call, a failure, an answer to open, or a batch's progress. *)
LEMMA Steps ==
    ASSUME Next
    PROVE  \/ Calls
           \/ \E permanent \in BOOLEAN : ReadsFail(permanent) \/ WritesFail(permanent)
           \/ ReconnectFails
           \/ \E got \in {"opened", "refused", "denied"} :
                  BatchesGet(got) \/ ReconnectGets(got)
           \/ RunReadsTask \/ RunWritesTask \/ BeginReads \/ BeginWrites
           \/ ReadsSucceed \/ WritesSucceed \/ Reconnects \/ ReconnectTimerFires
<1>1. ASSUME OpenSucceeds \/ \E permanent \in BOOLEAN : OpenFails(permanent)
      PROVE  \E got \in {"opened", "refused", "denied"} :
                BatchesGet(got) \/ ReconnectGets(got)
  BY <1>1 DEF OpenSucceeds, OpenFails
<1>2. ASSUME ContinueReads \/ ContinueWrites \/ TransactionFails
      PROVE  \/ BeginReads \/ BeginWrites
             \/ \E permanent \in BOOLEAN : ReadsFail(permanent) \/ WritesFail(permanent)
  BY <1>2 DEF ContinueReads, ContinueWrites, TransactionFails
<1> QED
  BY <1>1, <1>2 DEF Next, Microtasks, Events

LEMMA TypeSteps ==
    /\ Init => TypeOK
    /\ TypeOK /\ [Next]_vars => TypeOK'
<1>1. Init => TypeOK
  <2>1. Init => transientFailureCount \in 0..(MaxTransientFailures - 1)
    BY DEF Init
  <2>2. Init => /\ valuesByKey \in [Keys -> Records]
                /\ missingKeys \in SUBSET Keys
                /\ \A k \in missingKeys : valuesByKey[k] = Nothing
                /\ pendingReadKeys \in SUBSET Keys
    BY DEF Init, Records
  <2>3. Init => /\ reconnect \in Phases \ {"transaction"}
                /\ database \in Phases \ {"transaction"}
                /\ older \in {"reads", "writes"}
                /\ timers \in Nat
    BY DEF Init, Phases
  <2>4. Init => /\ pendingWrites \in [Keys -> Operations] /\ wanted \in [Keys -> Operations]
                /\ reverted \in SUBSET Keys
                /\ reads \in [phase : Phases, keys : SUBSET Keys]
                /\ writes \in [phase : Phases, operations : [Keys -> Operations]]
    BY EmptyType, BatchTypes DEF Init
  <2> QED
    BY <2>1, <2>2, <2>3, <2>4 DEF Init, TypeOK
<1>2. TypeOK /\ [Next]_vars => TypeOK'
  <2>1. ASSUME TypeOK, Next
        PROVE  TypeOK'
    BY <2>1, Steps, CallsType, FailureType, OpeningType, BatchType, SuccessType
  <2>2. ASSUME TypeOK, UNCHANGED vars
        PROVE  TypeOK'
    BY <2>2 DEF TypeOK, vars
  <2> QED
    BY <2>1, <2>2
<1> QED
  BY <1>1, <1>2

(* The storage's state keeps its types; in particular the count of failures
   stays below the retry budget.                                           *)
THEOREM TypeCorrect == Spec => []TypeOK
<1>1. Init => TypeOK
  BY TypeSteps
<1>2. TypeOK /\ [Next]_vars => TypeOK'
  BY TypeSteps
<1> QED
  BY <1>1, <1>2, PTL DEF Spec

-----------------------------------------------------------------------------
(* Work that is queued *)

(* A failure leaves the storage not ready; a success, a call and a
   reconnection look at the queues.                                        *)
LEMMA PendingSteps ==
    /\ Init => PendingWorkIsScheduled
    /\ TypeOK /\ PendingWorkIsScheduled /\ [Next]_vars => PendingWorkIsScheduled'
<1>1. Init => PendingWorkIsScheduled
  BY EmptyType DEF Init, PendingWorkIsScheduled
<1>2. TypeOK /\ PendingWorkIsScheduled /\ [Next]_vars => PendingWorkIsScheduled'
  <2> SUFFICES ASSUME TypeOK, PendingWorkIsScheduled, [Next]_vars
               PROVE  PendingWorkIsScheduled'
    OBVIOUS
  <2> USE DEF PendingWorkIsScheduled, Queued
  <2>1. ASSUME NEW permanent, NEW readKeys, NEW operations,
               HandleFailure(permanent, readKeys, operations)
        PROVE  status' # "ready"
    BY <2>1 DEF HandleFailure, Disable, Degrade
  <2>2. ASSUME NEW k \in Keys, GetItem(k)
        PROVE  PendingWorkIsScheduled'
    BY <2>2 DEF GetItem, ScheduleReads
  <2>3. ASSUME NEW k \in Keys, NEW operation \in Records, Write(k, operation)
        PROVE  PendingWorkIsScheduled'
    BY <2>3 DEF Write, ScheduleWrites
  <2>4. CASE Flush
    BY <2>4 DEF Flush, FlushReads, FlushWrites, StartsReads, StartsWrites, Empty, tasks,
                Joined
  <2>5. CASE RunReadsTask
    BY <2>5 DEF RunReadsTask, FlushReads, StartsReads, retries
  <2>6. CASE RunWritesTask
    BY <2>6 DEF RunWritesTask, FlushWrites, StartsWrites, Empty, retries
  <2>7. CASE BeginReads \/ BeginWrites
    <3>1. reads'.phase # "none" <=> reads.phase # "none"
      BY <2>7 DEF BeginReads, BeginWrites, TypeOK
    <3>2. writes'.phase # "none" <=> writes.phase # "none"
      BY <2>7 DEF BeginReads, BeginWrites, TypeOK
    <3> QED
      BY <2>7, <3>1, <3>2 DEF BeginReads, BeginWrites, queues, tasks, retries
  <2>8. CASE ReadsSucceed \/ WritesSucceed
    BY <2>8 DEF ReadsSucceed, WritesSucceed, ScheduleReads, ScheduleWrites, queues, retries
  <2>9. CASE Reconnects \/ ReconnectTimerFires
    BY <2>9 DEF Reconnects, ReconnectTimerFires, queues, tasks
  <2>10. ASSUME NEW got \in {"opened", "refused", "denied"},
                BatchesGet(got) \/ ReconnectGets(got)
         PROVE  PendingWorkIsScheduled'
    <3>1. reads'.phase # "none" <=> reads.phase # "none"
      BY <2>10 DEF BatchesGet, ReconnectGets, TypeOK
    <3>2. writes'.phase # "none" <=> writes.phase # "none"
      BY <2>10 DEF BatchesGet, ReconnectGets, TypeOK
    <3> QED
      BY <2>10, <3>1, <3>2 DEF BatchesGet, ReconnectGets, queues, tasks, retries
  <2>11. CASE ReconnectFails \/ \E permanent \in BOOLEAN :
                                     ReadsFail(permanent) \/ WritesFail(permanent)
    BY <2>1, <2>11 DEF ReconnectFails, ReadsFail, WritesFail
  <2>12. CASE UNCHANGED vars
    BY <2>12 DEF vars
  <2> QED
    BY <2>2, <2>3, <2>4, <2>5, <2>6, <2>7, <2>8, <2>9, <2>10, <2>11, <2>12, Steps DEF Calls
<1> QED
  BY <1>1, <1>2

(* Whatever is queued while the storage is ready has somebody who will take
   it: a microtask or a batch under way.                                   *)
THEOREM QueuedWorkIsScheduled == Spec => []PendingWorkIsScheduled
<1>1. Init => PendingWorkIsScheduled
  BY PendingSteps
<1>2. TypeOK /\ PendingWorkIsScheduled /\ [Next]_vars => PendingWorkIsScheduled'
  BY PendingSteps
<1> QED
  BY <1>1, <1>2, TypeCorrect, PTL DEF Spec

-----------------------------------------------------------------------------
(* Reconnecting *)

(* A reconnection that is scheduled has its timer. *)
TimerInv == reconnectScheduled => timers > 0

(* A call of a degraded storage leaves an attempt to reconnect under way:
   it schedules one itself, or finds one that is in flight or whose timer
   is still to fire.                                                       *)
THEOREM CallsAlwaysRevive == Spec => CallsRevive
<1>1. Init => TimerInv
  BY DEF Init, TimerInv
<1>2. ASSUME TypeOK, NEW wish \in BOOLEAN, ScheduleReconnect(wish), TimerInv
      PROVE  TimerInv' /\ (wish => reconnectScheduled' \/ reconnect # "none")
  <2>1. timers \in Nat
    BY <1>2 DEF TypeOK
  <2>2. CASE reconnectScheduled' = TRUE /\ timers' = timers + 1
    BY <2>1, <2>2 DEF TimerInv
  <2>3. CASE UNCHANGED <<reconnectScheduled, timers>>
                /\ ~(wish /\ ~reconnectScheduled /\ reconnect = "none")
    BY <1>2, <2>3 DEF TimerInv
  <2> QED
    BY <1>2, <2>2, <2>3 DEF ScheduleReconnect
<1>3. TypeOK /\ TimerInv /\ [Next]_vars => TimerInv'
  <2> SUFFICES ASSUME TypeOK, TimerInv, [Next]_vars
               PROVE  TimerInv'
    OBVIOUS
  <2>1. CASE Calls
    BY <1>2, <2>1 DEF Calls, GetItem, Write, Flush
  <2>2. ASSUME NEW permanent \in BOOLEAN, NEW readKeys, NEW operations,
               HandleFailure(permanent, readKeys, operations)
        PROVE  TimerInv'
    BY <1>2, <2>2 DEF HandleFailure, Disable, Degrade, TimerInv
  <2>3. CASE ReconnectFails \/ \E permanent \in BOOLEAN :
                                    ReadsFail(permanent) \/ WritesFail(permanent)
    BY <2>2, <2>3 DEF ReconnectFails, ReadsFail, WritesFail
  <2>4. ASSUME NEW got \in {"opened", "refused", "denied"},
               BatchesGet(got) \/ ReconnectGets(got)
        PROVE  TimerInv'
    BY <2>4 DEF BatchesGet, ReconnectGets, retries, TimerInv
  <2>5. CASE RunReadsTask \/ RunWritesTask \/ BeginReads \/ BeginWrites
    BY <2>5 DEF RunReadsTask, RunWritesTask, BeginReads, BeginWrites, retries, TimerInv
  <2>6. CASE ReadsSucceed \/ WritesSucceed \/ Reconnects \/ ReconnectTimerFires
    BY <2>6 DEF ReadsSucceed, WritesSucceed, Reconnects, ReconnectTimerFires, retries,
                TimerInv
  <2>7. CASE UNCHANGED vars
    BY <2>7 DEF vars, TimerInv
  <2> QED
    BY <2>1, <2>3, <2>4, <2>5, <2>6, <2>7, Steps
<1>4. ASSUME TypeOK, TimerInv, Calls, status = "degraded"
      PROVE  (reconnectScheduled' /\ timers' > 0) \/ reconnect' # "none"
  BY <1>2, <1>4 DEF Calls, GetItem, Write, Flush, TimerInv
<1> QED
  BY <1>1, <1>3, <1>4, TypeCorrect, PTL DEF Spec, CallsRevive

-----------------------------------------------------------------------------
(* Writes *)

(* A batch exists only while it is under way, and a write is where it
   should be also while the storage is disabled, when there is none.       *)
WriteInv ==
    /\ writes.phase = "none" => writes.operations = Empty
    /\ \A k \in Queued(wanted) \ reverted :
          \/ pendingWrites[k] = wanted[k]
          \/ pendingWrites[k] = NoOperation /\ writes.operations[k] = wanted[k]
          \/ pendingWrites[k] = NoOperation /\ writes.operations[k] = NoOperation
             /\ stored[k] = wanted[k]

(* A write the application made is in the queue, under way or stored, unless
   an older one that failed replaced it or the storage was disabled since. *)
THEOREM WritesAreNeverLost == Spec => []NoWriteIsLost
<1>1. Init => WriteInv
  BY EmptyType DEF Init, WriteInv, NoWrites
<1>2. TypeOK /\ WriteInv /\ [Next]_vars => WriteInv'
  <2> SUFFICES ASSUME TypeOK, WriteInv, [Next]_vars
               PROVE  WriteInv'
    OBVIOUS
  <2> USE DEF WriteInv, Queued
  <2>1. ASSUME NEW k \in Keys, NEW operation \in Records, Write(k, operation)
        PROVE  WriteInv'
    BY <2>1 DEF Write, TypeOK
  <2>2. ASSUME FlushWrites, UNCHANGED <<stored, wanted, reverted>>
        PROVE  WriteInv'
    BY <2>2 DEF FlushWrites, StartsWrites, TypeOK, Empty, Joined, Phases
  <2>3. CASE WritesSucceed
    BY <2>3 DEF WritesSucceed, Over, NoWrites, Empty, TypeOK, history, queues
  <2>4. ASSUME NEW permanent \in BOOLEAN, WritesFail(permanent)
        PROVE  WriteInv'
    <3>1. CASE Disable
      BY <2>4, <3>1 DEF WritesFail, Disable, NoWrites, Empty
    <3>2. CASE Degrade({}, writes.operations)
      BY <2>4, <3>2 DEF WritesFail, Degrade, Over, NoWrites, Empty, TypeOK
    <3> QED
      BY <2>4, <3>1, <3>2 DEF WritesFail, HandleFailure
  <2>5. ASSUME NEW permanent \in BOOLEAN, NEW readKeys,
               HandleFailure(permanent, readKeys, Empty), UNCHANGED <<writes, stored>>
        PROVE  WriteInv'
    <3>1. CASE Disable
      BY <2>5, <3>1 DEF Disable, Empty
    <3>2. CASE Degrade(readKeys, Empty)
      BY <2>5, <3>2 DEF Degrade, Over, Empty, TypeOK
    <3> QED
      BY <2>5, <3>1, <3>2 DEF HandleFailure
  <2>6. CASE ReconnectFails \/ \E permanent \in BOOLEAN : ReadsFail(permanent)
    BY <2>5, <2>6 DEF ReconnectFails, ReadsFail
  <2>7. ASSUME NEW got \in {"opened", "refused", "denied"},
               BatchesGet(got) \/ ReconnectGets(got)
        PROVE  WriteInv'
    BY <2>7 DEF BatchesGet, ReconnectGets, TypeOK, history, queues
  <2>8. CASE BeginWrites
    BY <2>8 DEF BeginWrites, TypeOK, history, queues
  <2>9. ASSUME UNCHANGED <<pendingWrites, writes, stored, wanted, reverted>>
        PROVE  WriteInv'
    BY <2>9
  <2>10. CASE \/ \E k \in Keys : GetItem(k)
              \/ RunReadsTask \/ BeginReads \/ ReadsSucceed \/ Reconnects
              \/ ReconnectTimerFires \/ UNCHANGED vars
    BY <2>9, <2>10 DEF GetItem, RunReadsTask, BeginReads, ReadsSucceed, Reconnects,
                       ReconnectTimerFires, vars, queues, history
  <2>11. CASE RunWritesTask \/ Flush
    BY <2>2, <2>11 DEF RunWritesTask, Flush, history
  <2> QED
    BY <2>1, <2>3, <2>4, <2>6, <2>7, <2>8, <2>10, <2>11, Steps DEF Calls
<1>3. WriteInv => NoWriteIsLost
  BY DEF WriteInv, NoWriteIsLost
<1> QED
  BY <1>1, <1>2, <1>3, TypeCorrect, PTL DEF Spec

HIDE StorageAssumption

-----------------------------------------------------------------------------
(* Sequences without repetition *)

(* Map.delete, of the order of a map's keys. *)
Dropped(s, k) == IF k \in ToSet(s) THEN RemoveAt(s, CHOOSE i \in DOMAIN s : s[i] = k) ELSE s

LEMMA ToSetOfSeq ==
    ASSUME NEW S, NEW s \in Seq(S)
    PROVE  ToSet(s) \subseteq S /\ \A x : x \in ToSet(s) <=> \E i \in 1..Len(s) : s[i] = x
  BY DEF ToSet

LEMMA RemoveAtIs ==
    ASSUME NEW S, NEW s \in Seq(S), NEW j \in 1..Len(s)
    PROVE  /\ RemoveAt(s, j) \in Seq(S) /\ Len(RemoveAt(s, j)) = Len(s) - 1
           /\ \A i \in 1..(Len(s) - 1) : RemoveAt(s, j)[i] = IF i < j THEN s[i] ELSE s[i + 1]
<1> DEFINE a == SubSeq(s, 1, j - 1)
           b == SubSeq(s, j + 1, Len(s))
<1>0. Len(s) \in Nat /\ j \in Nat /\ j >= 1 /\ j <= Len(s)
  BY LenProperties
<1>1. a \in Seq(S) /\ Len(a) = j - 1 /\ \A i \in 1..(j - 1) : a[i] = s[i]
  <2>1. \A i \in 1..(j - 1) : s[i] \in S
    BY <1>0, ElementOfSeq
  <2>2. /\ a \in Seq(S)
        /\ Len(a) = IF 1 <= j - 1 THEN (j - 1) - 1 + 1 ELSE 0
        /\ \A i \in 1..((j - 1) - 1 + 1) : a[i] = s[1 + i - 1]
    BY <1>0, <2>1, SubSeqProperties
  <2> QED
    BY <1>0, <2>2
<1>2. b \in Seq(S) /\ Len(b) = Len(s) - j /\ \A i \in 1..(Len(s) - j) : b[i] = s[j + i]
  <2>1. \A i \in (j + 1)..Len(s) : s[i] \in S
    BY <1>0, ElementOfSeq
  <2>2. /\ b \in Seq(S)
        /\ Len(b) = IF j + 1 <= Len(s) THEN Len(s) - (j + 1) + 1 ELSE 0
        /\ \A i \in 1..(Len(s) - (j + 1) + 1) : b[i] = s[(j + 1) + i - 1]
    BY <1>0, <2>1, SubSeqProperties
  <2>3. \A i \in 1..(Len(s) - j) : b[i] = s[(j + 1) + i - 1] /\ (j + 1) + i - 1 = j + i
    BY <1>0, <2>2
  <2> QED
    BY <1>0, <2>2, <2>3
<1> HIDE DEF a, b
<1>3. /\ a \o b \in Seq(S) /\ Len(a \o b) = Len(s) - 1
      /\ \A i \in 1..(Len(s) - 1) : (a \o b)[i] = IF i <= j - 1 THEN a[i] ELSE b[i - (j - 1)]
  <2>1. Len(a) + Len(b) = Len(s) - 1
    BY <1>0, <1>1, <1>2
  <2>2. /\ a \o b \in Seq(S) /\ Len(a \o b) = Len(a) + Len(b)
        /\ \A i \in 1..(Len(a) + Len(b)) : (a \o b)[i] = IF i <= Len(a) THEN a[i] ELSE b[i - Len(a)]
    BY <1>1, <1>2, ConcatProperties
  <2> QED
    BY <1>1, <2>1, <2>2
<1>4. \A i \in 1..(Len(s) - 1) : (a \o b)[i] = IF i < j THEN s[i] ELSE s[i + 1]
  <2> TAKE i \in 1..(Len(s) - 1)
  <2>1. CASE i < j
    BY <1>0, <1>1, <1>3, <2>1
  <2>2. CASE ~(i < j)
    <3>1. i - (j - 1) \in 1..(Len(s) - j) /\ j + (i - (j - 1)) = i + 1
      BY <1>0, <2>2
    <3> QED
      BY <1>0, <1>2, <1>3, <2>2, <3>1
  <2> QED
    BY <2>1, <2>2
<1> QED
  BY <1>3, <1>4 DEF RemoveAt, a, b

LEMMA DroppedIs ==
    ASSUME NEW S, NEW s \in Seq(S), IsInjective(s), NEW k
    PROVE  /\ Dropped(s, k) \in Seq(S) /\ IsInjective(Dropped(s, k))
           /\ ToSet(Dropped(s, k)) = ToSet(s) \ {k}
           /\ k \in ToSet(s) => Len(Dropped(s, k)) = Len(s) - 1
           /\ k \notin ToSet(s) => Dropped(s, k) = s
<1>1. CASE k \notin ToSet(s)
  BY SMTT(30), <1>1 DEF Dropped
<1>2. CASE k \in ToSet(s)
  <2> DEFINE j == CHOOSE i \in DOMAIN s : s[i] = k
             w == RemoveAt(s, j)
  <2>1. j \in 1..Len(s) /\ s[j] = k
    BY <1>2, ToSetOfSeq
  <2> HIDE DEF j
  <2>2. Len(s) \in Nat
    BY LenProperties
  <2>3. /\ w \in Seq(S) /\ Len(w) = Len(s) - 1
        /\ \A i \in 1..(Len(s) - 1) : w[i] = IF i < j THEN s[i] ELSE s[i + 1]
    BY <2>1, RemoveAtIs
  <2> HIDE DEF w
  <2>4. \A a, b \in 1..Len(s) : s[a] = s[b] => a = b
    BY DEF IsInjective
  <2>5. IsInjective(w)
    <3> SUFFICES ASSUME NEW a \in 1..(Len(s) - 1), NEW b \in 1..(Len(s) - 1), w[a] = w[b]
                 PROVE  a = b
      BY <2>3 DEF IsInjective
    <3> QED
      BY <2>1, <2>2, <2>3, <2>4
  <2>6. ToSet(w) \subseteq ToSet(s) \ {k}
    <3> SUFFICES ASSUME NEW a \in 1..(Len(s) - 1)
                 PROVE  w[a] \in ToSet(s) \ {k}
      BY <2>3, ToSetOfSeq
    <3>1. \E i \in 1..Len(s) : s[i] = w[a] /\ i # j
      <4>1. CASE a < j
        <5>1. a \in 1..Len(s) /\ a # j /\ w[a] = s[a]
          BY <2>1, <2>2, <2>3, <4>1
        <5> QED
          BY <5>1
      <4>2. CASE ~(a < j)
        <5>1. a + 1 \in 1..Len(s) /\ a + 1 # j /\ w[a] = s[a + 1]
          BY <2>1, <2>2, <2>3, <4>2
        <5> QED
          BY <5>1
      <4> QED
        BY <4>1, <4>2
    <3> QED
      BY <2>1, <2>4, <3>1, ToSetOfSeq
  <2>7. ToSet(s) \ {k} \subseteq ToSet(w)
    <3> SUFFICES ASSUME NEW i \in 1..Len(s), s[i] # k
                 PROVE  \E a \in 1..Len(w) : w[a] = s[i]
      BY <2>3, ToSetOfSeq
    <3>1. CASE i < j
      <4>1. i \in 1..(Len(s) - 1)
        BY <2>1, <2>2, <3>1
      <4> QED
        BY <2>3, <3>1, <4>1
    <3>2. CASE i > j
      <4>1. i - 1 \in 1..(Len(s) - 1) /\ ~(i - 1 < j) /\ (i - 1) + 1 = i
        BY <2>1, <2>2, <3>2
      <4> QED
        BY <2>3, <4>1
    <3> QED
      BY <2>1, <2>2, <3>1, <3>2
  <2> QED
    BY <1>2, <2>3, <2>5, <2>6, <2>7 DEF Dropped, w, j
<1> QED
  BY <1>1, <1>2

LEMMA AppendIs ==
    ASSUME NEW S, NEW s \in Seq(S), NEW k \in S, IsInjective(s), k \notin ToSet(s)
    PROVE  /\ Append(s, k) \in Seq(S) /\ IsInjective(Append(s, k))
           /\ ToSet(Append(s, k)) = ToSet(s) \cup {k} /\ Len(Append(s, k)) = Len(s) + 1
<1>1. /\ Append(s, k) \in Seq(S) /\ Len(Append(s, k)) = Len(s) + 1
      /\ \A i \in 1..Len(s) : Append(s, k)[i] = s[i]
      /\ Append(s, k)[Len(s) + 1] = k /\ Len(s) \in Nat
  BY AppendProperties, LenProperties
<1> DEFINE w == Append(s, k)
<1> HIDE DEF w
<1>2. \A i \in 1..Len(s) : s[i] # k
  BY ToSetOfSeq
<1>3. \A a, b \in 1..Len(s) : s[a] = s[b] => a = b
  BY DEF IsInjective
<1>4. DOMAIN w = 1..(Len(s) + 1) /\ \A i \in 1..(Len(s) + 1) : i \in 1..Len(s) \/ i = Len(s) + 1
  BY <1>1, LenProperties DEF w
<1>5. IsInjective(w)
  BY <1>1, <1>2, <1>3, <1>4 DEF IsInjective, w
<1>6. ToSet(w) = ToSet(s) \cup {k}
  <2>1. ToSet(w) = {w[i] : i \in 1..(Len(s) + 1)} /\ ToSet(s) = {s[i] : i \in 1..Len(s)}
    BY <1>4, LenProperties DEF ToSet
  <2>2. Len(s) + 1 \in 1..(Len(s) + 1) /\ \A i \in 1..Len(s) : i \in 1..(Len(s) + 1)
    BY <1>1
  <2>3. w[Len(s) + 1] = k /\ \A i \in 1..Len(s) : w[i] = s[i]
    BY <1>1 DEF w
  <2> QED
    BY <1>4, <2>1, <2>2, <2>3
<1> QED
  BY <1>1, <1>5, <1>6 DEF w

LEMMA TailIs ==
    ASSUME NEW S, NEW s \in Seq(S), IsInjective(s), s # <<>>
    PROVE  /\ Tail(s) \in Seq(S) /\ IsInjective(Tail(s)) /\ Len(Tail(s)) = Len(s) - 1
           /\ ToSet(Tail(s)) = ToSet(s) \ {Head(s)} /\ Head(s) \in S
<1>1. /\ Tail(s) \in Seq(S) /\ Len(Tail(s)) = Len(s) - 1 /\ Len(s) \in Nat \ {0}
      /\ \A i \in 1..(Len(s) - 1) : Tail(s)[i] = s[i + 1]
      /\ Head(s) = s[1] /\ Head(s) \in S
  BY HeadTailProperties, EmptySeq
<1> DEFINE w == Tail(s)
<1> HIDE DEF w
<1>2. \A a, b \in 1..Len(s) : s[a] = s[b] => a = b
  BY DEF IsInjective
<1>3. IsInjective(w)
  <2>1. DOMAIN w = 1..(Len(s) - 1)
    BY <1>1, LenProperties DEF w
  <2> QED
    BY <1>1, <1>2, <2>1 DEF IsInjective, w
<1>4. ToSet(w) = ToSet(s) \ {Head(s)}
  <2>1. ToSet(w) = {w[i] : i \in 1..(Len(s) - 1)} /\ ToSet(s) = {s[i] : i \in 1..Len(s)}
    BY <1>1, LenProperties DEF ToSet, w
  <2>2. \A i \in 1..(Len(s) - 1) : i + 1 \in 1..Len(s) /\ w[i] = s[i + 1] /\ s[i + 1] # s[1]
    <3>1. \A i \in 1..(Len(s) - 1) : i + 1 \in 1..Len(s) /\ i + 1 # 1 /\ 1 \in 1..Len(s)
      BY <1>1
    <3> QED
      BY <1>1, <1>2, <3>1 DEF w
  <2>3. \A i \in 1..Len(s) : i # 1 => i - 1 \in 1..(Len(s) - 1) /\ w[i - 1] = s[i]
    <3>1. \A i \in 1..Len(s) : i # 1 => i - 1 \in 1..(Len(s) - 1) /\ (i - 1) + 1 = i
      BY <1>1
    <3> QED
      BY <1>1, <3>1 DEF w
  <2>4. 1 \in 1..Len(s)
    BY <1>1
  <2> QED
    BY <1>1, <2>1, <2>2, <2>3, <2>4
<1> QED
  BY <1>1, <1>3, <1>4 DEF w

LEMMA LengthIsCardinality ==
    ASSUME NEW S, NEW s \in Seq(S), IsInjective(s)
    PROVE  Cardinality(ToSet(s)) = Len(s) /\ IsFiniteSet(ToSet(s))
<1>1. Len(s) \in Nat /\ DOMAIN s = 1..Len(s)
  BY LenProperties
<1>2. s \in Surjection(1..Len(s), ToSet(s)) /\ s \in Injection(1..Len(s), ToSet(s))
  BY <1>1, ToSetOfSeq DEF Surjection, Injection, IsInjective, ToSet
<1>3. IsFiniteSet(1..Len(s)) /\ Cardinality(1..Len(s)) = Len(s)
  <2>1. Cardinality(1..Len(s)) = IF 1 > Len(s) THEN 0 ELSE Len(s) - 1 + 1
    BY <1>1, FS_Interval
  <2> QED
    BY <1>1, <2>1, FS_Interval
<1> QED
  BY <1>2, <1>3, FS_Surjection
-----------------------------------------------------------------------------
(* The list that limits the records of a source *)

LEMMA IndexOperators ==
    \A s, u : /\ Index!ToSet(s) = ToSet(s) /\ Index!IsInjective(s) = IsInjective(s)
              /\ Index!Without(s, u) = Dropped(s, u)
  BY DEF Index!ToSet, ToSet, Index!IsInjective, IsInjective, Index!Without, Dropped, Index!RemoveAt, RemoveAt

(* Keys of units, each once, and no more than the limit. *)
Lists == {s \in Seq(CacheUnits) : IsInjective(s) /\ Len(s) <= MaxEntries}

LEMMA TouchedIs ==
    ASSUME NEW u \in CacheUnits, Index!Copy(u) \in Lists, MaxEntries \in Nat \ {0}
    PROVE  /\ Index!Touched(u) \in Lists /\ u \in ToSet(Index!Touched(u))
           /\ ToSet(Index!Touched(u)) \subseteq ToSet(Index!Copy(u)) \cup {u}
           /\ Index!Newest(Index!Copy(u), u) =>
                  u \in ToSet(Index!Copy(u)) /\ ToSet(Index!Touched(u)) = ToSet(Index!Copy(u))
<1> DEFINE s == Index!Copy(u)
           d == Dropped(s, u)
           moved == Append(d, u)
           grown == u \notin ToSet(s) /\ Len(moved) > MaxEntries
<1>1. s \in Seq(CacheUnits) /\ IsInjective(s) /\ Len(s) <= MaxEntries /\ Len(s) \in Nat
  BY LenProperties DEF Lists
<1>2. Index!Touched(u) = IF grown THEN Tail(moved) ELSE moved
  BY IndexOperators DEF Index!Touched
<1> HIDE DEF s
<1>3. /\ d \in Seq(CacheUnits) /\ IsInjective(d) /\ ToSet(d) = ToSet(s) \ {u}
      /\ u \in ToSet(s) => Len(d) = Len(s) - 1
      /\ u \notin ToSet(s) => d = s
  BY <1>1, DroppedIs
<1> HIDE DEF d
<1>4. /\ moved \in Seq(CacheUnits) /\ IsInjective(moved)
      /\ ToSet(moved) = ToSet(d) \cup {u} /\ Len(moved) = Len(d) + 1 /\ Len(d) \in Nat
  BY <1>3, AppendIs, LenProperties
<1>5. ToSet(moved) = ToSet(s) \cup {u}
  BY <1>3, <1>4
<1>6. CASE grown
  <2>1. d = s /\ Len(s) = MaxEntries /\ s # <<>>
    BY <1>1, <1>3, <1>4, <1>6
  <2>2. Head(moved) = Head(s) /\ Head(s) \in ToSet(s)
    <3>1. 1 \in 1..Len(s) /\ Head(s) = s[1]
      BY <1>1, <2>1
    <3>2. Head(moved) = Head(s)
      BY <1>1, <2>1, HeadTailAppend
    <3> QED
      BY <1>1, <3>1, <3>2, ToSetOfSeq
  <2>3. moved # <<>>
    BY <1>4, EmptySeq
  <2>4. /\ Tail(moved) \in Seq(CacheUnits) /\ IsInjective(Tail(moved)) /\ Len(Tail(moved)) = Len(moved) - 1
        /\ ToSet(Tail(moved)) = ToSet(moved) \ {Head(moved)}
    BY <1>4, <2>3, TailIs
  <2>5. Len(Tail(moved)) <= MaxEntries
    BY <1>1, <1>4, <2>1, <2>4
  <2>6. u # Head(moved)
    BY <1>6, <2>2
  <2>7. ~Index!Newest(s, u)
    <3>1. Len(s) \in 1..Len(s)
      BY <1>1, <2>1
    <3>2. s[Len(s)] \in ToSet(s)
      BY <1>1, <3>1, ToSetOfSeq
    <3> QED
      BY <1>6, <3>2 DEF Index!Newest, Index!Last
  <2> HIDE DEF moved
  <2> QED
    BY <1>2, <1>5, <1>6, <2>4, <2>5, <2>6, <2>7 DEF Lists, s
<1>7. CASE ~grown
  <2>1. Len(moved) <= MaxEntries
    BY <1>1, <1>3, <1>4, <1>7
  <2>2. Index!Newest(s, u) => u \in ToSet(s)
    <3>1. s # <<>> => Len(s) \in 1..Len(s)
      BY <1>1, EmptySeq
    <3>2. s # <<>> => s[Len(s)] \in ToSet(s)
      BY <1>1, <3>1, ToSetOfSeq
    <3> QED
      BY <3>2 DEF Index!Newest, Index!Last
  <2> HIDE DEF moved
  <2> QED
    BY <1>2, <1>4, <1>5, <1>7, <2>1, <2>2 DEF Lists, s
<1> QED
  BY <1>6, <1>7

(* The index and every copy of it are lists within the limit, and as long as
   only current copies were used, the index names the records.             *)
IndexInv ==
    /\ Index!IndexTypeOK
    /\ index \in Lists /\ \A u \in CacheUnits : copies[u].order \in Lists
    /\ ~outdated => Index!Records = ToSet(index)

LEMMA EmptyList == IsInjective(<<>>) /\ ToSet(<<>>) = {} /\ \A S : <<>> \in Seq(S) /\ Len(<<>>) = 0
  BY EmptySeq DEF IsInjective, ToSet

LEMMA IndexSteps ==
    ASSUME MaxEntries \in Nat \ {0}, MaxSessions \in Nat \ {0}
    PROVE  /\ Index!IndexInit => IndexInv
           /\ IndexInv /\ Index!IndexNext => IndexInv'
           /\ IndexInv /\ UNCHANGED indexVars => IndexInv'
<1>1. Index!IndexInit => IndexInv
  <2> SUFFICES ASSUME Index!IndexInit
               PROVE  IndexInv
    OBVIOUS
  <2>1. <<>> \in Lists
    BY EmptyList DEF Lists
  <2>2. Index!IndexTypeOK
    <3>1. <<>> \in Seq(CacheUnits) /\ 1 \in 1..MaxSessions
      BY EmptyList
    <3>2. [loaded |-> FALSE, order |-> <<>>] \in [loaded : BOOLEAN, order : Seq(CacheUnits)]
      BY <3>1
    <3>3. copies \in [CacheUnits -> [loaded : BOOLEAN, order : Seq(CacheUnits)]]
      BY <3>2 DEF Index!IndexInit, Index!NotLoaded
    <3>4. records \in [CacheUnits -> {"none", "fresh", "old"}]
      BY DEF Index!IndexInit
    <3> QED
      BY <3>1, <3>3, <3>4 DEF Index!IndexInit, Index!IndexTypeOK
  <2>3. index = <<>> /\ \A u \in CacheUnits : copies[u].order = <<>>
    BY DEF Index!IndexInit, Index!NotLoaded
  <2>4. Index!Records = ToSet(index)
    BY EmptyList DEF Index!IndexInit, Index!Records
  <2> QED
    BY <2>1, <2>2, <2>3, <2>4 DEF IndexInv
<1>2. ASSUME IndexInv, Index!IndexNext
      PROVE  IndexInv'
  <2>1. \A u \in CacheUnits : Index!Copy(u) \in Lists
    BY <1>2 DEF IndexInv, Index!Copy
  <2>2. \A s \in Lists : s \in Seq(CacheUnits)
    BY DEF Lists
  <2>3. ASSUME NEW u \in CacheUnits, NEW s \in Lists, Index!Uses(u, s)
        PROVE  /\ copies' \in [CacheUnits -> [loaded : BOOLEAN, order : Seq(CacheUnits)]]
               /\ \A v \in CacheUnits : copies'[v].order \in Lists
               /\ outdated' \in BOOLEAN
               /\ ~outdated' => ~outdated /\ Index!Copy(u) = index
    BY <1>2, <2>2, <2>3 DEF Index!Uses, Index!Loaded, IndexInv, Index!IndexTypeOK
  <2>4. ASSUME NEW u \in CacheUnits, Index!Touch(u),
               records' \in [CacheUnits -> {"none", "fresh", "old"}],
               hydrated' \subseteq CacheUnits, sessions' = sessions,
               ~outdated => Index!Records' = (Index!Records \cup {u}) \ Index!Evicted(u)
        PROVE  IndexInv'
    <3> DEFINE t == Index!Touched(u)
    <3>1. /\ t \in Lists /\ u \in ToSet(t) /\ ToSet(t) \subseteq ToSet(Index!Copy(u)) \cup {u}
          /\ Index!Newest(Index!Copy(u), u) => u \in ToSet(Index!Copy(u)) /\ ToSet(t) = ToSet(Index!Copy(u))
      BY <2>1, TouchedIs
    <3>2. /\ copies' \in [CacheUnits -> [loaded : BOOLEAN, order : Seq(CacheUnits)]]
          /\ \A v \in CacheUnits : copies'[v].order \in Lists
          /\ outdated' \in BOOLEAN
          /\ ~outdated' => ~outdated /\ Index!Copy(u) = index
      BY <2>3, <2>4, <3>1 DEF Index!Touch
    <3>3. index' \in Lists /\ index' \in Seq(CacheUnits)
      BY <1>2, <2>2, <2>4, <3>1 DEF Index!Touch, IndexInv
    <3>4. Index!Evicted(u) = ToSet(Index!Copy(u)) \ ToSet(t)
      BY IndexOperators DEF Index!Evicted
    <3>5. ASSUME ~outdated'
          PROVE  Index!Records' = ToSet(index')
      <4>1. Index!Records = ToSet(index) /\ Index!Copy(u) = index
        BY <1>2, <3>2, <3>5 DEF IndexInv
      <4>2. Index!Records' = ToSet(t)
        BY <2>4, <3>1, <3>2, <3>4, <3>5, <4>1
      <4>3. index' = IF Index!Newest(Index!Copy(u), u) THEN index ELSE t
        BY <2>4 DEF Index!Touch
      <4>4. ToSet(index') = ToSet(t)
        BY <3>1, <4>1, <4>3
      <4> QED
        BY <4>2, <4>4
    <3>6. Index!IndexTypeOK'
      BY <1>2, <2>4, <3>2, <3>3 DEF IndexInv, Index!IndexTypeOK
    <3> QED
      BY <3>2, <3>3, <3>5, <3>6 DEF IndexInv
  <2>5. ASSUME NEW u \in CacheUnits, Index!Discard(u), hydrated' = hydrated, sessions' = sessions
        PROVE  IndexInv'
    <3> DEFINE s == Index!Copy(u)
               t == Dropped(s, u)
    <3>1. s \in Seq(CacheUnits) /\ IsInjective(s) /\ Len(s) <= MaxEntries /\ Len(s) \in Nat
      BY <2>1, LenProperties DEF Lists
    <3>2. /\ t \in Seq(CacheUnits) /\ IsInjective(t) /\ ToSet(t) = ToSet(s) \ {u}
          /\ u \in ToSet(s) => Len(t) = Len(s) - 1
          /\ u \notin ToSet(s) => t = s
      BY <3>1, DroppedIs
    <3>3. t \in Lists
      BY <3>1, <3>2 DEF Lists
    <3>4. /\ copies' \in [CacheUnits -> [loaded : BOOLEAN, order : Seq(CacheUnits)]]
          /\ \A v \in CacheUnits : copies'[v].order \in Lists
          /\ outdated' \in BOOLEAN
          /\ ~outdated' => ~outdated /\ s = index
      BY <2>3, <2>5, <3>3, IndexOperators DEF Index!Discard
    <3>5. index' = IF u \in ToSet(s) THEN t ELSE index
      BY <2>5, IndexOperators DEF Index!Discard
    <3>6. index' \in Lists /\ index' \in Seq(CacheUnits)
      BY <1>2, <2>2, <3>3, <3>5 DEF IndexInv
    <3>7. records' \in [CacheUnits -> {"none", "fresh", "old"}] /\ Index!Records' = Index!Records \ {u}
      BY <1>2, <2>5 DEF Index!Discard, Index!Records, IndexInv, Index!IndexTypeOK
    <3>8. ASSUME ~outdated'
          PROVE  Index!Records' = ToSet(index')
      BY <1>2, <3>2, <3>4, <3>5, <3>7, <3>8 DEF IndexInv
    <3>9. Index!IndexTypeOK'
      BY <1>2, <2>5, <3>4, <3>6, <3>7 DEF IndexInv, Index!IndexTypeOK
    <3> QED
      BY <3>4, <3>6, <3>8, <3>9 DEF IndexInv
  <2>6. ASSUME NEW u \in CacheUnits, Index!Hydrate(u)
        PROVE  IndexInv'
    <3>1. CASE records[u] = "old" /\ Index!Discard(u) /\ UNCHANGED hydrated
      BY <2>5, <2>6, <3>1 DEF Index!Hydrate
    <3>2. CASE /\ records[u] = "fresh" /\ Index!Touch(u) /\ hydrated' = hydrated \cup {u}
               /\ records' = [k \in CacheUnits |-> IF k \in Index!Evicted(u) THEN "none" ELSE records[k]]
      <4>1. records' \in [CacheUnits -> {"none", "fresh", "old"}] /\ hydrated' \subseteq CacheUnits
        BY <1>2, <3>2 DEF IndexInv, Index!IndexTypeOK
      <4>2. Index!Records' = (Index!Records \cup {u}) \ Index!Evicted(u)
        BY <3>2 DEF Index!Records
      <4> QED
        BY <2>4, <2>6, <3>2, <4>1, <4>2 DEF Index!Hydrate
    <3> QED
      BY <2>6, <3>1, <3>2 DEF Index!Hydrate
  <2>7. ASSUME NEW u \in CacheUnits, Index!Write(u)
        PROVE  IndexInv'
    <3>1. records' \in [CacheUnits -> {"none", "fresh", "old"}] /\ hydrated' \subseteq CacheUnits
      BY <1>2, <2>7 DEF IndexInv, Index!IndexTypeOK, Index!Write
    <3>2. u \notin Index!Evicted(u)
      BY <2>1, TouchedIs, IndexOperators DEF Index!Evicted
    <3>3. Index!Records' = (Index!Records \cup {u}) \ Index!Evicted(u)
      BY <2>7, <3>2 DEF Index!Records, Index!Write
    <3> QED
      BY <2>4, <2>7, <3>1, <3>3 DEF Index!Write
  <2>8. ASSUME NEW u \in CacheUnits, Index!Clear(u)
        PROVE  IndexInv'
    BY <2>5, <2>8 DEF Index!Clear
  <2>9. ASSUME NEW u \in CacheUnits, Index!Age(u)
        PROVE  IndexInv'
    <3>1. records' \in [CacheUnits -> {"none", "fresh", "old"}] /\ Index!Records' = Index!Records
      BY <1>2, <2>9 DEF Index!Age, Index!Records, IndexInv, Index!IndexTypeOK
    <3> QED
      BY <1>2, <2>9, <3>1 DEF Index!Age, IndexInv, Index!IndexTypeOK
  <2>10. CASE Index!Restart
    <3>1. <<>> \in Lists /\ <<>> \in Seq(CacheUnits)
      BY EmptyList DEF Lists
    <3>2. copies' \in [CacheUnits -> [loaded : BOOLEAN, order : Seq(CacheUnits)]]
          /\ \A v \in CacheUnits : copies'[v].order \in Lists
      BY <2>10, <3>1 DEF Index!Restart, Index!NotLoaded
    <3>3. sessions' \in 1..MaxSessions
      BY <1>2, <2>10 DEF Index!Restart, IndexInv, Index!IndexTypeOK
    <3>4. Index!Records' = Index!Records
      BY <2>10 DEF Index!Restart, Index!Records
    <3> QED
      BY <1>2, <2>10, <3>2, <3>3, <3>4 DEF Index!Restart, IndexInv, Index!IndexTypeOK
  <2> QED
    BY <1>2, <2>6, <2>7, <2>8, <2>9, <2>10 DEF Index!IndexNext
<1>3. ASSUME IndexInv, UNCHANGED indexVars
      PROVE  IndexInv'
  BY <1>3 DEF indexVars, IndexInv, Index!IndexTypeOK, Index!Records
<1> QED
  BY <1>1, <1>2, <1>3
-----------------------------------------------------------------------------
(* The caches that hold the keys used last *)

LEMMA CachesOperators ==
    \A s, k, n :
        /\ Caches!ToSet(s) = ToSet(s) /\ Caches!IsInjective(s) = IsInjective(s)
        /\ Caches!Cardinality(s) = Cardinality(s) /\ Caches!Without(s, k) = Dropped(s, k) /\ Caches!R!Without(s, k) = Dropped(s, k)
        /\ Caches!R!LastOf(s, n) = IF Len(s) <= n THEN s ELSE SubSeq(s, Len(s) - n + 1, Len(s))
  BY DEF Caches!ToSet, ToSet, Caches!IsInjective, IsInjective, Caches!Without, Dropped, Caches!RemoveAt, RemoveAt,
         Caches!Cardinality, Cardinality, Caches!R!Without, Caches!R!ToSet, Caches!R!RemoveAt, Caches!R!LastOf

LEMMA Tuples ==
    ASSUME NEW S, NEW a \in S, NEW b \in S
    PROVE  /\ <<a>> \in Seq(S) /\ IsInjective(<<a>>) /\ ToSet(<<a>>) = {a} /\ Len(<<a>>) = 1
           /\ <<>> \o <<a>> = <<a>> /\ <<a>> \o <<b>> = <<a, b>>
           /\ Append(<<>>, a) = <<a>> /\ Append(<<a>>, b) = <<a, b>>
<1>1. <<a>> \in Seq(S) /\ IsInjective(<<a>>) /\ ToSet(<<a>>) = {a} /\ Len(<<a>>) = 1
  BY DEF IsInjective, ToSet
<1>2. <<a, b>> \in Seq(S) /\ Len(<<a, b>>) = 2 /\ <<a, b>>[1] = a /\ <<a, b>>[2] = b
  OBVIOUS
<1>3. \A w \in Seq(S) : Len(w) = 2 /\ w[1] = a /\ w[2] = b => w = <<a, b>>
  <2> TAKE w \in Seq(S)
  <2> HAVE Len(w) = 2 /\ w[1] = a /\ w[2] = b
  <2>1. \A i \in 1..Len(w) : w[i] = <<a, b>>[i]
    BY <1>2
  <2> QED
    BY <1>2, <2>1, SeqEqual
<1>4. Append(<<a>>, b) = <<a, b>>
  <2> DEFINE w == Append(<<a>>, b)
  <2>1. w \in Seq(S) /\ Len(w) = Len(<<a>>) + 1 /\ (\A i \in 1..Len(<<a>>) : w[i] = <<a>>[i]) /\ w[Len(<<a>>) + 1] = b
    BY <1>1, AppendProperties
  <2> HIDE DEF w
  <2>2. w \in Seq(S) /\ Len(w) = 2 /\ w[1] = a /\ w[2] = b
    BY <1>1, <2>1
  <2> QED
    BY <1>3, <2>2 DEF w
<1>5. <<a>> \o <<b>> = <<a, b>>
  BY <1>1, <1>4, AppendIsConcat
<1>6. <<>> \o <<a>> = <<a>> /\ Append(<<>>, a) = <<a>>
  OBVIOUS
<1> QED
  BY <1>1, <1>4, <1>5, <1>6

LEMMA Triples ==
    ASSUME NEW S, NEW a \in S, NEW b \in S, NEW c \in S
    PROVE  Append(<<a, b>>, c) = <<a, b, c>> /\ SubSeq(<<a, b, c>>, 2, 3) = <<b, c>>
<1>1. <<a, b>> \in Seq(S) /\ Len(<<a, b>>) = 2 /\ <<a, b>>[1] = a /\ <<a, b>>[2] = b
  OBVIOUS
<1>2. <<a, b, c>> \in Seq(S) /\ Len(<<a, b, c>>) = 3 /\ <<a, b, c>> # <<>>
  OBVIOUS
<1>3. Append(<<a, b>>, c) = <<a, b, c>>
  <2> DEFINE w == Append(<<a, b>>, c)
             v == <<a, b, c>>
  <2>1. w \in Seq(S) /\ Len(w) = Len(<<a, b>>) + 1 /\ (\A i \in 1..Len(<<a, b>>) : w[i] = <<a, b>>[i]) /\ w[Len(<<a, b>>) + 1] = c
    BY <1>1, AppendProperties
  <2>2. v \in Seq(S) /\ Len(v) = 3 /\ v[1] = a /\ v[2] = b /\ v[3] = c
    BY <1>2
  <2> HIDE DEF w, v
  <2>3. w \in Seq(S) /\ Len(w) = 3 /\ w[1] = a /\ w[2] = b /\ w[3] = c
    BY <1>1, <2>1
  <2>4. \A i \in 1..Len(w) : w[i] = v[i]
    BY <2>2, <2>3
  <2>5. w = v
    BY <2>2, <2>3, <2>4, SeqEqual
  <2> QED
    BY <2>5 DEF w, v
<1>4. SubSeq(<<a, b, c>>, 2, 3) = <<b, c>>
  <2>1. Tail(<<a, b, c>>) = SubSeq(<<a, b, c>>, 2, Len(<<a, b, c>>))
    BY <1>2, TailIsSubSeq
  <2>2. Tail(<<a, b, c>>) = <<b, c>>
    OBVIOUS
  <2> QED
    BY <1>2, <2>1, <2>2
<1> QED
  BY <1>3, <1>4

LEMMA SmallSequences ==
    ASSUME NEW S, NEW a \in S, NEW b \in S, a # b
    PROVE  /\ Dropped(<<>>, a) = <<>> /\ Dropped(<<a>>, a) = <<>> /\ Dropped(<<a>>, b) = <<a>>
           /\ Dropped(<<a, b>>, a) = <<b>> /\ Dropped(<<a, b>>, b) = <<a>>
           /\ \A k : k # a /\ k # b => Dropped(<<a, b>>, k) = <<a, b>>
<1>1. ToSet(<<>>) = {} /\ ToSet(<<a>>) = {a} /\ ToSet(<<a, b>>) = {a, b}
  BY DEF ToSet
<1>2. IsInjective(<<a>>) /\ IsInjective(<<a, b>>) /\ <<a>> \in Seq(S) /\ <<a, b>> \in Seq(S)
  BY DEF IsInjective
<1>3. Dropped(<<>>, a) = <<>> /\ Dropped(<<a>>, b) = <<a>> /\ \A k : k # a /\ k # b => Dropped(<<a, b>>, k) = <<a, b>>
  BY <1>1 DEF Dropped
<1>4. \A w \in Seq(S) : Len(w) = 0 => w = <<>>
  BY EmptySeq
<1>5. ASSUME NEW w \in Seq(S), NEW c \in S, Len(w) = 1, ToSet(w) = {c}
      PROVE  w = <<c>>
  <2>1. w[1] \in ToSet(w)
    BY <1>5, ToSetOfSeq
  <2> QED
    BY <1>5, <2>1
<1>6. Dropped(<<a>>, a) = <<>>
  <2>1. Dropped(<<a>>, a) \in Seq(S) /\ (a \in ToSet(<<a>>) => Len(Dropped(<<a>>, a)) = Len(<<a>>) - 1)
    BY <1>2, DroppedIs
  <2> QED
    BY <1>1, <1>4, <2>1
<1>7. ASSUME NEW k \in {a, b}, NEW c \in {a, b}, c # k
      PROVE  Dropped(<<a, b>>, k) = <<c>>
  <2>1. /\ Dropped(<<a, b>>, k) \in Seq(S) /\ ToSet(Dropped(<<a, b>>, k)) = ToSet(<<a, b>>) \ {k}
        /\ k \in ToSet(<<a, b>>) => Len(Dropped(<<a, b>>, k)) = Len(<<a, b>>) - 1
    BY <1>2, DroppedIs
  <2>2. Len(Dropped(<<a, b>>, k)) = 1 /\ ToSet(Dropped(<<a, b>>, k)) = {c}
    BY <1>1, <1>7, <2>1
  <2> QED
    BY <1>5, <2>1, <2>2
<1> QED
  BY <1>3, <1>6, <1>7

(* The last of a list, index by index *)
Lasts(s, n) == IF Len(s) <= n THEN s ELSE SubSeq(s, Len(s) - n + 1, Len(s))
Smaller(m, n) == IF m <= n THEN m ELSE n

LEMMA LastsAre ==
    ASSUME NEW S, NEW s \in Seq(S), NEW n \in Nat
    PROVE  /\ Lasts(s, n) \in Seq(S) /\ Len(Lasts(s, n)) = Smaller(Len(s), n)
           /\ \A i \in 1..Smaller(Len(s), n) : Lasts(s, n)[i] = s[Len(s) - Smaller(Len(s), n) + i]
<1>1. Len(s) \in Nat
  BY LenProperties
<1>2. CASE Len(s) <= n
  <2>1. Lasts(s, n) = s /\ Smaller(Len(s), n) = Len(s)
    BY <1>2 DEF Lasts, Smaller
  <2>2. \A i \in 1..Len(s) : Len(s) - Len(s) + i = i
    BY <1>1
  <2> QED
    BY <2>1, <2>2
<1>3. CASE ~(Len(s) <= n)
  <2> DEFINE a == Len(s) - n + 1
             w == SubSeq(s, a, Len(s))
  <2>1. Lasts(s, n) = w /\ Smaller(Len(s), n) = n
    BY <1>3 DEF Lasts, Smaller
  <2>2. a \in Nat /\ a >= 1 /\ a <= Len(s) + 1 /\ Len(s) - a + 1 = n
    BY <1>1, <1>3
  <2> HIDE DEF a
  <2>3. \A i \in a..Len(s) : s[i] \in S
    <3>1. \A i \in a..Len(s) : i \in 1..Len(s)
      BY <1>1, <2>2
    <3> QED
      BY <3>1, ElementOfSeq
  <2>4. /\ w \in Seq(S) /\ Len(w) = IF a <= Len(s) THEN Len(s) - a + 1 ELSE 0
        /\ \A i \in 1..(Len(s) - a + 1) : w[i] = s[a + i - 1]
    BY <1>1, <2>2, <2>3, SubSeqProperties
  <2> HIDE DEF w
  <2>5. Len(w) = n
    BY <1>1, <2>2, <2>4
  <2>6. \A i \in 1..n : w[i] = s[Len(s) - n + i]
    <3>1. \A i \in 1..n : a + i - 1 = Len(s) - n + i
      BY <1>1 DEF a
    <3> QED
      BY <2>2, <2>4, <3>1
  <2> QED
    BY <2>1, <2>4, <2>5, <2>6
<1> QED
  BY <1>2, <1>3

LEMMA LastsAgree ==
    ASSUME NEW S, NEW s \in Seq(S), NEW t \in Seq(S), NEW n \in Nat, NEW m \in Nat,
           m = Smaller(Len(s), n), m = Smaller(Len(t), n),
           \A i \in 1..m : s[Len(s) - m + i] = t[Len(t) - m + i]
    PROVE  Lasts(s, n) = Lasts(t, n)
<1> DEFINE a == Lasts(s, n)
           b == Lasts(t, n)
<1>1. a \in Seq(S) /\ Len(a) = m /\ \A i \in 1..m : a[i] = s[Len(s) - m + i]
  <2>1. /\ a \in Seq(S) /\ Len(a) = Smaller(Len(s), n)
        /\ \A i \in 1..Smaller(Len(s), n) : a[i] = s[Len(s) - Smaller(Len(s), n) + i]
    BY Zenon, LastsAre
  <2> HIDE DEF a
  <2> QED
    BY <2>1
<1>2. b \in Seq(S) /\ Len(b) = m /\ \A i \in 1..m : b[i] = t[Len(t) - m + i]
  <2>1. /\ b \in Seq(S) /\ Len(b) = Smaller(Len(t), n)
        /\ \A i \in 1..Smaller(Len(t), n) : b[i] = t[Len(t) - Smaller(Len(t), n) + i]
    BY Zenon, LastsAre
  <2> HIDE DEF b
  <2> QED
    BY <2>1
<1> HIDE DEF a, b
<1>3. \A i \in 1..m : a[i] = b[i]
  BY <1>1, <1>2
<1>4. a = b
  BY <1>1, <1>2, <1>3, SeqEqual
<1> QED
  BY <1>4 DEF a, b

LEMMA DroppedAt ==
    ASSUME NEW S, NEW s \in Seq(S), IsInjective(s), NEW p \in 1..Len(s), NEW k, s[p] = k
    PROVE  /\ Dropped(s, k) \in Seq(S) /\ Len(Dropped(s, k)) = Len(s) - 1
           /\ \A i \in 1..(Len(s) - 1) : Dropped(s, k)[i] = IF i < p THEN s[i] ELSE s[i + 1]
<1>1. k \in ToSet(s) /\ DOMAIN s = 1..Len(s)
  BY ToSetOfSeq, LenProperties
<1>2. \A a, b \in 1..Len(s) : s[a] = s[b] => a = b
  BY <1>1 DEF IsInjective
<1>3. (CHOOSE i \in DOMAIN s : s[i] = k) = p
  BY <1>1, <1>2
<1>4. Dropped(s, k) = RemoveAt(s, p)
  BY <1>1, <1>3 DEF Dropped
<1> QED
  BY <1>4, RemoveAtIs

(* The key used last goes to the end of the order, and to the end of its last
   ones.                                                                   *)
LEMMA LastsTouched ==
    ASSUME NEW S, NEW s \in Seq(S), IsInjective(s), NEW n \in Nat \ {0}, NEW k \in ToSet(s)
    PROVE  Lasts(Append(Dropped(s, k), k), n) = Lasts(Append(Dropped(Lasts(s, n), k), k), n)
<1> DEFINE N == Len(s)
           M == Smaller(Len(s), n)
           r == Lasts(s, n)
           d == Dropped(s, k)
           e == Dropped(r, k)
<1>1. /\ N \in Nat /\ M \in Nat /\ M <= N /\ M <= n /\ (M = N \/ M = n)
      /\ r \in Seq(S) /\ Len(r) = M /\ \A i \in 1..M : r[i] = s[N - M + i]
  <2>1. N \in Nat
    BY LenProperties
  <2>2. M \in Nat /\ M <= N /\ M <= n /\ (M = N \/ M = n)
    BY <2>1 DEF Smaller
  <2> QED
    BY <2>1, <2>2, LastsAre
<1>2. PICK p \in 1..N : s[p] = k
  BY ToSetOfSeq
<1>3. k \in S
  BY ToSetOfSeq
<1>4. d \in Seq(S) /\ Len(d) = N - 1 /\ \A i \in 1..(N - 1) : d[i] = IF i < p THEN s[i] ELSE s[i + 1]
  BY ZenonT(60), <1>2, DroppedAt
<1>5. \A a, b \in 1..N : s[a] = s[b] => a = b
  BY LenProperties DEF IsInjective
<1>6. IsInjective(r)
  <2>1. DOMAIN r = 1..M
    BY <1>1, LenProperties
  <2> HIDE DEF N, M, r
  <2>2. ASSUME NEW a \in 1..M, NEW b \in 1..M, r[a] = r[b]
        PROVE  a = b
    <3>0. N \in Nat /\ M \in Nat /\ M <= N
      BY <1>1
    <3>1. N - M + a \in 1..N /\ N - M + b \in 1..N
      BY <3>0
    <3>2. s[N - M + a] = s[N - M + b]
      BY <1>1, <2>2
    <3>3. N - M + a = N - M + b
      BY <1>5, <3>1, <3>2
    <3> QED
      BY <3>0, <3>3
  <2> QED
    BY <2>1, <2>2 DEF IsInjective
<1> DEFINE u == Append(d, k)
           v == Append(e, k)
<1>7. u \in Seq(S) /\ Len(u) = N /\ (\A i \in 1..(N - 1) : u[i] = d[i]) /\ u[N] = k
  <2> HIDE DEF d
  <2>1. u \in Seq(S) /\ Len(u) = Len(d) + 1 /\ (\A i \in 1..Len(d) : u[i] = d[i]) /\ u[Len(d) + 1] = k
    BY <1>3, <1>4, AppendProperties
  <2> HIDE DEF u, N
  <2> QED
    BY <1>1, <1>4, <2>1
<1>8. CASE \E q \in 1..M : r[q] = k
  <2>1. PICK q \in 1..M : r[q] = k
    BY <1>8
  <2>2. e \in Seq(S) /\ Len(e) = M - 1 /\ \A i \in 1..(M - 1) : e[i] = IF i < q THEN r[i] ELSE r[i + 1]
    <3> HIDE DEF M, r
    <3>1. q \in 1..Len(r) /\ r \in Seq(S) /\ r[q] = k /\ IsInjective(r)
      BY <1>1, <1>6, <2>1
    <3>2. /\ Dropped(r, k) \in Seq(S) /\ Len(Dropped(r, k)) = Len(r) - 1
          /\ \A i \in 1..(Len(r) - 1) : Dropped(r, k)[i] = IF i < q THEN r[i] ELSE r[i + 1]
      BY ZenonT(60), <3>1, DroppedAt
    <3> QED
      BY <1>1, <3>2
  <2>3. v \in Seq(S) /\ Len(v) = M /\ (\A i \in 1..(M - 1) : v[i] = e[i]) /\ v[M] = k
    <3> HIDE DEF e
    <3>1. v \in Seq(S) /\ Len(v) = Len(e) + 1 /\ (\A i \in 1..Len(e) : v[i] = e[i]) /\ v[Len(e) + 1] = k
      <4>1. e \in Seq(S)
        BY <2>2
      <4> QED
        BY <1>3, <4>1, AppendProperties
    <3> HIDE DEF v, M
    <3> QED
      BY <1>1, <2>2, <3>1
  <2> HIDE DEF N, M, r, d, e, u, v
  <2>4. p = N - M + q
    <3>1. N - M + q \in 1..N /\ s[N - M + q] = k
      BY <1>1, <2>1
    <3> QED
      BY <1>2, <1>5, <3>1
  <2>5. \A i \in 1..M : u[N - M + i] = v[M - M + i]
    <3> SUFFICES ASSUME NEW i \in 1..M PROVE u[N - M + i] = v[i]
      BY <1>1
    <3>1. CASE i = M
      BY <1>1, <1>7, <2>3, <3>1
    <3>2. CASE i # M
      <4>1. i \in 1..(M - 1) /\ N - M + i \in 1..(N - 1) /\ i + 1 \in 1..M /\ (N - M + i) + 1 = N - M + (i + 1)
        BY <1>1, <3>2
      <4>2. N - M + i < p <=> i < q
        BY <1>1, <2>4
      <4>3. u[N - M + i] = IF i < q THEN s[N - M + i] ELSE s[(N - M + i) + 1]
        BY <1>4, <1>7, <4>1, <4>2
      <4>4. v[i] = IF i < q THEN r[i] ELSE r[i + 1]
        BY <2>2, <2>3, <4>1
      <4>5. r[i] = s[N - M + i] /\ r[i + 1] = s[N - M + (i + 1)]
        BY <1>1, <4>1
      <4> QED
        BY <4>1, <4>3, <4>4, <4>5
    <3> QED
      BY <3>1, <3>2
  <2>6. M = Smaller(Len(u), n) /\ M = Smaller(Len(v), n)
    BY <1>1, <1>7, <2>3 DEF Smaller, M, N
  <2>7. Lasts(u, n) = Lasts(v, n)
    <3>1. \A i \in 1..M : u[Len(u) - M + i] = v[Len(v) - M + i]
      BY <1>7, <2>3, <2>5
    <3> QED
      BY Zenon, <1>1, <1>7, <2>3, <2>6, <3>1, LastsAgree
  <2> QED
    BY <2>7 DEF u, v, d, e, r
<1>9. CASE ~\E q \in 1..M : r[q] = k
  <2>1. e = r
    <3>1. k \notin ToSet(r)
      BY <1>1, <1>9, ToSetOfSeq
    <3> QED
      BY <3>1 DEF Dropped
  <2>2. v \in Seq(S) /\ Len(v) = M + 1 /\ (\A i \in 1..M : v[i] = r[i]) /\ v[M + 1] = k
    <3> HIDE DEF e, r
    <3>1. v \in Seq(S) /\ Len(v) = Len(e) + 1 /\ (\A i \in 1..Len(e) : v[i] = e[i]) /\ v[Len(e) + 1] = k
      BY <1>1, <1>3, <2>1, AppendProperties
    <3> HIDE DEF v, M
    <3> QED
      BY <1>1, <2>1, <3>1
  <2> HIDE DEF N, M, r, d, e, u, v
  <2>3. p <= N - M /\ M = n
    <3>1. ~(p > N - M)
      <4> SUFFICES ASSUME p > N - M PROVE FALSE
        OBVIOUS
      <4>1. p - (N - M) \in 1..M /\ N - M + (p - (N - M)) = p
        BY <1>1
      <4> QED
        BY <1>1, <1>2, <1>9, <4>1
    <3> QED
      BY <1>1, <3>1
  <2>5. \A i \in 1..n : u[N - n + i] = v[(n + 1) - n + i]
    <3> SUFFICES ASSUME NEW i \in 1..n PROVE u[N - n + i] = v[i + 1]
      <4>1. \A i \in 1..n : (n + 1) - n + i = i + 1
        OBVIOUS
      <4> QED
        BY <4>1
    <3>1. CASE i = n
      BY <1>1, <1>7, <2>2, <2>3, <3>1
    <3>2. CASE i # n
      <4>1. i \in 1..(n - 1) /\ N - n + i \in 1..(N - 1) /\ i + 1 \in 1..n /\ (N - n + i) + 1 = N - n + (i + 1)
        BY <1>1, <2>3, <3>2
      <4>2. ~(N - n + i < p)
        BY <1>1, <2>3
      <4>3. u[N - n + i] = s[(N - n + i) + 1]
        BY <1>4, <1>7, <4>1, <4>2
      <4>4. v[i + 1] = s[N - n + (i + 1)]
        BY <1>1, <2>2, <2>3, <4>1
      <4> QED
        BY <4>1, <4>3, <4>4
    <3> QED
      BY <3>1, <3>2
  <2>6. n = Smaller(Len(u), n) /\ n = Smaller(Len(v), n) /\ Len(v) = n + 1
    BY <1>1, <1>7, <2>2, <2>3 DEF Smaller
  <2>7. Lasts(u, n) = Lasts(v, n)
    <3>1. \A i \in 1..n : u[Len(u) - n + i] = v[Len(v) - n + i]
      BY <1>7, <2>5, <2>6
    <3> QED
      BY Zenon, <1>7, <2>2, <2>6, <3>1, LastsAgree
  <2> QED
    BY <2>7 DEF u, v, d, e, r
<1> QED
  BY <1>8, <1>9

(* A new key goes to the end of both, and the first of the order may go when
   there are more than the last ones.                                      *)
LEMMA LastsCreated ==
    ASSUME NEW S, NEW s \in Seq(S), IsInjective(s), NEW n \in Nat \ {0}, NEW k \in S, k \notin ToSet(s)
    PROVE  /\ Lasts(Append(s, k), n) = Lasts(Append(Dropped(Lasts(s, n), k), k), n)
           /\ Len(s) + 1 > n => Lasts(Tail(Append(s, k)), n) = Lasts(Append(Dropped(Lasts(s, n), k), k), n)
<1> DEFINE N == Len(s)
           M == Smaller(Len(s), n)
           r == Lasts(s, n)
           u == Append(s, k)
           v == Append(r, k)
           m == Smaller(Len(s) + 1, n)
           t == Tail(u)
<1>1. /\ N \in Nat /\ M \in Nat /\ M <= N /\ M <= n /\ (M = N \/ M = n)
      /\ r \in Seq(S) /\ Len(r) = M /\ \A i \in 1..M : r[i] = s[N - M + i]
  <2>1. N \in Nat
    BY LenProperties
  <2>2. M \in Nat /\ M <= N /\ M <= n /\ (M = N \/ M = n)
    BY <2>1 DEF Smaller
  <2> QED
    BY <2>1, <2>2, LastsAre
<1>2. Dropped(r, k) = r
  <2>1. k \notin ToSet(r)
    <3> HIDE DEF N, M, r
    <3>1. \A i \in 1..M : N - M + i \in 1..N
      BY <1>1
    <3>2. \A i \in 1..N : s[i] # k
      BY ToSetOfSeq DEF N
    <3> QED
      BY <1>1, <3>1, <3>2, ToSetOfSeq
  <2> QED
    BY <2>1 DEF Dropped
<1>3. u \in Seq(S) /\ Len(u) = N + 1 /\ (\A i \in 1..N : u[i] = s[i]) /\ u[N + 1] = k
  BY AppendProperties
<1>4. v \in Seq(S) /\ Len(v) = M + 1 /\ (\A i \in 1..M : v[i] = r[i]) /\ v[M + 1] = k
  <2> HIDE DEF r
  <2>1. v \in Seq(S) /\ Len(v) = Len(r) + 1 /\ (\A i \in 1..Len(r) : v[i] = r[i]) /\ v[Len(r) + 1] = k
    BY <1>1, AppendProperties
  <2> HIDE DEF v, M
  <2> QED
    BY <1>1, <2>1
<1>5. /\ t \in Seq(S) /\ Len(t) = N /\ \A i \in 1..N : t[i] = u[i + 1]
  <2> HIDE DEF u
  <2>1. u # <<>>
    BY <1>1, <1>3, EmptySeq
  <2>2. t \in Seq(S) /\ Len(t) = Len(u) - 1 /\ \A i \in 1..(Len(u) - 1) : t[i] = u[i + 1]
    BY <1>3, <2>1, HeadTailProperties
  <2> HIDE DEF t, N
  <2> QED
    BY <1>1, <1>3, <2>2
<1>6. m \in Nat /\ m <= M + 1 /\ m <= n /\ m = Smaller(N + 1, n) /\ m = Smaller(M + 1, n) /\ m >= 1
  BY <1>1 DEF Smaller
<1> HIDE DEF N, M, r, u, v, m, t
<1>7. Lasts(u, n) = Lasts(v, n)
  <2>1. \A i \in 1..m : u[(N + 1) - m + i] = v[(M + 1) - m + i]
    <3> SUFFICES ASSUME NEW i \in 1..m PROVE u[(N + 1) - m + i] = v[(M + 1) - m + i]
      OBVIOUS
    <3>1. CASE i = m
      <4>1. (N + 1) - m + i = N + 1 /\ (M + 1) - m + i = M + 1
        BY <1>1, <1>6, <3>1
      <4> QED
        BY <1>3, <1>4, <4>1
    <3>2. CASE i # m
      <4>1. /\ (N + 1) - m + i \in 1..N /\ (M + 1) - m + i \in 1..M
            /\ N - M + ((M + 1) - m + i) = (N + 1) - m + i
        <5>1. N \in Nat /\ M \in Nat /\ M <= N /\ m \in Nat /\ m <= M + 1
          BY <1>1, <1>6
        <5> QED
          BY <3>2, <5>1
      <4>2. u[(N + 1) - m + i] = s[(N + 1) - m + i] /\ v[(M + 1) - m + i] = r[(M + 1) - m + i]
        BY <1>3, <1>4, <4>1
      <4>3. r[(M + 1) - m + i] = s[N - M + ((M + 1) - m + i)]
        BY <1>1, <4>1
      <4> QED
        BY <4>1, <4>2, <4>3
    <3> QED
      BY <3>1, <3>2
  <2> QED
    <3>1. \A i \in 1..m : u[Len(u) - m + i] = v[Len(v) - m + i]
      BY <1>3, <1>4, <2>1
    <3>2. m = Smaller(Len(u), n) /\ m = Smaller(Len(v), n)
      BY <1>3, <1>4, <1>6
    <3> QED
      BY Zenon, <1>3, <1>4, <1>6, <3>1, <3>2, LastsAgree
<1>8. ASSUME N + 1 > n
      PROVE  Lasts(t, n) = Lasts(v, n)
  <2>1. M = n /\ N >= n /\ n = Smaller(N, n) /\ n = Smaller(M + 1, n)
    BY <1>1, <1>8 DEF Smaller
  <2>2. \A i \in 1..n : t[N - n + i] = v[(M + 1) - n + i]
    <3> SUFFICES ASSUME NEW i \in 1..n PROVE t[N - n + i] = v[(M + 1) - n + i]
      OBVIOUS
    <3>1. N - n + i \in 1..N /\ (N - n + i) + 1 = N - n + (i + 1) /\ (M + 1) - n + i = i + 1
      BY <1>1, <2>1
    <3>2. t[N - n + i] = u[N - n + (i + 1)]
      BY <1>5, <3>1
    <3>3. CASE i = n
      <4>1. N - n + (i + 1) = N + 1 /\ i + 1 = M + 1
        BY <1>1, <2>1, <3>3
      <4> QED
        BY <1>3, <1>4, <3>1, <3>2, <4>1
    <3>4. CASE i # n
      <4>1. i + 1 \in 1..M /\ N - n + (i + 1) \in 1..N
        BY <1>1, <2>1, <3>4
      <4>2. v[i + 1] = r[i + 1] /\ r[i + 1] = s[N - M + (i + 1)] /\ u[N - n + (i + 1)] = s[N - n + (i + 1)]
        BY <1>1, <1>3, <1>4, <4>1
      <4> QED
        BY <2>1, <3>1, <3>2, <4>2
    <3> QED
      BY <3>3, <3>4
  <2> QED
    <3>1. \A i \in 1..n : t[Len(t) - n + i] = v[Len(v) - n + i]
      BY <1>4, <1>5, <2>2
    <3>2. n = Smaller(Len(t), n) /\ n = Smaller(Len(v), n)
      BY <1>4, <1>5, <2>1
    <3> QED
      BY Zenon, <1>4, <1>5, <3>1, <3>2, LastsAgree
<1> QED
  BY <1>2, <1>7, <1>8 DEF N, r, u, v, t

(* What the caches that keep an order hold: the last of the order are those
   used last, and there are others only while undefined has an entry.      *)
KeysInv ==
    /\ Caches!KeysTypeOK /\ Caches!HoldsWhatWasUsed
    /\ order \in Seq(EntryKeys)
    /\ UndefinedKey \in entries => cache \in {"serialized", "primitive"}
    /\ UndefinedKey \notin entries => Len(order) <= Limit
    /\ cache = "object" => /\ Limit = 2
                           /\ slots.latest = None => slots.previous = None
                           /\ slots.latest # None => slots.latest # slots.previous

LEMMA LastOfIs == \A s, n : Caches!R!LastOf(s, n) = Lasts(s, n)
  BY CachesOperators DEF Lasts

(* A use of a key in the caches that keep an order *)
LEMMA OrderedUse ==
    ASSUME Limit \in Nat \ {0}, KeysInv, cache # "object", NEW k \in EntryKeys, Caches!R!Use(k),
           k = UndefinedKey => cache \in {"serialized", "primitive"},
           Caches!Touch(k) \/ Caches!Create(k)
    PROVE  /\ entries' \subseteq EntryKeys /\ entries' = ToSet(order') /\ IsInjective(order')
           /\ order' \in Seq(EntryKeys) /\ recent' = Lasts(order', Limit)
           /\ UndefinedKey \in entries' => cache \in {"serialized", "primitive"}
           /\ UndefinedKey \notin entries' => Len(order') <= Limit
<1>1. /\ order \in Seq(EntryKeys) /\ IsInjective(order) /\ Len(order) \in Nat
      /\ entries = ToSet(order) /\ recent = Lasts(order, Limit) /\ entries \subseteq EntryKeys
      /\ UndefinedKey \in entries => cache \in {"serialized", "primitive"}
      /\ UndefinedKey \notin entries => Len(order) <= Limit
  BY CachesOperators, LastOfIs, LenProperties DEF KeysInv, Caches!KeysTypeOK, Caches!HoldsWhatWasUsed
<1>2. recent' = Lasts(Append(Dropped(recent, k), k), Limit)
  BY CachesOperators, LastOfIs DEF Caches!R!Use
<1>5. CASE Caches!Touch(k)
  <2> DEFINE d == Dropped(order, k)
  <2>1. order' = Append(d, k) /\ entries' = entries /\ k \in entries
    BY <1>5, CachesOperators DEF Caches!Touch
  <2>2. /\ d \in Seq(EntryKeys) /\ IsInjective(d) /\ ToSet(d) = ToSet(order) \ {k} /\ Len(d) = Len(order) - 1
    BY <1>1, <2>1, DroppedIs
  <2>3. recent' = Lasts(order', Limit)
    BY <1>1, <1>2, <2>1, LastsTouched
  <2> HIDE DEF d
  <2>4. /\ Append(d, k) \in Seq(EntryKeys) /\ IsInjective(Append(d, k))
        /\ ToSet(Append(d, k)) = ToSet(d) \cup {k} /\ Len(Append(d, k)) = Len(d) + 1
    BY <2>2, AppendIs
  <2> QED
    BY <1>1, <2>1, <2>2, <2>3, <2>4
<1>6. CASE Caches!Create(k)
  <2> DEFINE w == Append(order, k)
  <2>1. k \notin entries
    BY <1>6 DEF Caches!Create
  <2>2. IF Len(order) + 1 > Limit /\ Head(w) # UndefinedKey
        THEN order' = Tail(w) /\ entries' = (entries \cup {k}) \ {Head(w)}
        ELSE order' = w /\ entries' = entries \cup {k}
    <3>1. IF Caches!Cardinality(entries) + 1 > Limit /\ Head(w) # UndefinedKey
          THEN order' = Tail(w) /\ entries' = (entries \cup {k}) \ {Head(w)}
          ELSE order' = w /\ entries' = entries \cup {k}
      BY <1>6, Zenon DEF Caches!Create
    <3>2. Caches!Cardinality(entries) = Len(order)
      BY <1>1, LengthIsCardinality, CachesOperators
    <3> HIDE DEF w
    <3> QED
      BY <3>1, <3>2, Zenon
  <2>3. /\ Lasts(w, Limit) = recent'
        /\ Len(order) + 1 > Limit => Lasts(Tail(w), Limit) = recent'
    BY <1>1, <1>2, <2>1, LastsCreated
  <2> HIDE DEF w
  <2>4. /\ w \in Seq(EntryKeys) /\ IsInjective(w) /\ ToSet(w) = entries \cup {k} /\ Len(w) = Len(order) + 1
        /\ w # <<>>
    <3>1. w \in Seq(EntryKeys) /\ IsInjective(w) /\ ToSet(w) = entries \cup {k} /\ Len(w) = Len(order) + 1
      BY <1>1, <2>1, AppendIs DEF w
    <3> QED
      BY <1>1, <3>1, EmptySeq
  <2>5. CASE Len(order) + 1 > Limit /\ Head(w) # UndefinedKey
    <3>1. /\ Tail(w) \in Seq(EntryKeys) /\ IsInjective(Tail(w)) /\ Len(Tail(w)) = Len(w) - 1
          /\ ToSet(Tail(w)) = ToSet(w) \ {Head(w)}
      BY <2>4, TailIs
    <3>2. order' = Tail(w) /\ entries' = (entries \cup {k}) \ {Head(w)}
      BY <2>2, <2>5
    <3>3. recent' = Lasts(order', Limit)
      BY <2>3, <2>5, <3>2
    <3>4. UndefinedKey \in entries' => cache \in {"serialized", "primitive"}
      BY <1>1, <3>2
    <3>5. UndefinedKey \notin entries' => Len(order') <= Limit
      BY <1>1, <2>4, <2>5, <3>1, <3>2
    <3> QED
      BY <1>1, <2>4, <3>1, <3>2, <3>3, <3>4, <3>5
  <2>6. CASE ~(Len(order) + 1 > Limit /\ Head(w) # UndefinedKey)
    <3>1. order' = w /\ entries' = entries \cup {k}
      BY <2>2, <2>6
    <3>2. recent' = Lasts(order', Limit)
      BY <2>3, <3>1
    <3>3. UndefinedKey \in entries' => cache \in {"serialized", "primitive"}
      BY <1>1, <3>1
    <3>4. UndefinedKey \notin entries' => Len(order') <= Limit
      <4>1. Head(w) \in ToSet(w)
        <5>1. Head(w) = w[1] /\ 1 \in 1..Len(w)
          BY <1>1, <2>4, HeadTailProperties
        <5> QED
          BY <2>4, <5>1, ToSetOfSeq
      <4> QED
        BY <1>1, <2>4, <2>6, <3>1, <4>1
    <3> QED
      BY <1>1, <2>4, <3>1, <3>2, <3>3, <3>4
  <2> QED
    BY <2>5, <2>6
<1> QED
  BY <1>5, <1>6

(* A use of a key of the cache that has two slots *)
LEMMA SlotUse ==
    ASSUME None \notin EntryKeys, KeysInv, cache = "object", NEW k \in EntryKeys, Caches!R!Use(k), Caches!GetSlot(k)
    PROVE  /\ slots' \in [latest : EntryKeys \cup {None}, previous : EntryKeys \cup {None}]
           /\ slots'.latest # None /\ slots'.latest # slots'.previous
           /\ recent' = Caches!Kept(slots'.previous) \o Caches!Kept(slots'.latest)
<1> DEFINE a == slots.latest
           b == slots.previous
           d == Dropped(recent, k)
<1>1. /\ slots \in [latest : EntryKeys \cup {None}, previous : EntryKeys \cup {None}] /\ Limit = 2
      /\ recent = Caches!Kept(b) \o Caches!Kept(a)
      /\ a = None => b = None
      /\ a # None => a # b
  BY DEF KeysInv, Caches!KeysTypeOK, Caches!HoldsWhatWasUsed
<1>2. recent' = IF Len(Append(d, k)) <= 2 THEN Append(d, k)
                ELSE SubSeq(Append(d, k), Len(Append(d, k)) - 2 + 1, Len(Append(d, k)))
  <2> DEFINE w == Append(d, k)
  <2>1. recent' = Caches!R!LastOf(Append(Caches!R!Without(recent, k), k), Limit)
    BY DEF Caches!R!Use
  <2>2. Caches!R!Without(recent, k) = d
    BY CachesOperators
  <2>3. Caches!R!LastOf(w, Limit) = IF Len(w) <= Limit THEN w ELSE SubSeq(w, Len(w) - Limit + 1, Len(w))
    <3> HIDE DEF w
    <3> QED
      BY CachesOperators
  <2> HIDE DEF d
  <2> QED
    BY <1>1, <2>1, <2>2, <2>3
<1>3. slots' = IF a = k THEN slots ELSE [latest |-> k, previous |-> a]
  BY DEF Caches!GetSlot
<1>4. Caches!Kept(None) = <<>> /\ \A x \in EntryKeys : Caches!Kept(x) = <<x>>
  BY DEF Caches!Kept
<1>9. \A x, y \in EntryKeys : Append(<<x>>, y) = <<x, y>> /\ <<x>> \o <<y>> = <<x, y>>
  BY Zenon, Tuples
<1> HIDE DEF d
<1>5. ASSUME NEW p \in EntryKeys, d = <<p>>, p # k
      PROVE  recent' = <<p, k>>
  <2>1. Append(d, k) = <<p, k>> /\ Len(<<p, k>>) <= 2
    <3>1. Append(<<p>>, k) = <<p, k>>
      BY <1>9
    <3>2. Len(<<p, k>>) = 2
      OBVIOUS
    <3> QED
      BY <1>5, <3>1, <3>2
  <2> QED
    BY <1>2, <2>1
<1>6. CASE a = None
  <2>1. recent = <<>>
    BY <1>1, <1>4, <1>6
  <2>2. d = <<>>
    BY <2>1, EmptyList DEF d, Dropped
  <2>3. recent' = <<k>>
    BY <1>2, <2>2
  <2>4. slots' = [latest |-> k, previous |-> None] /\ <<>> \o <<k>> = <<k>>
    BY <1>3, <1>6, Tuples
  <2> QED
    BY <1>4, <2>3, <2>4
<1>7. CASE a # None /\ b = None
  <2>1. recent = <<a>> /\ a \in EntryKeys
    BY <1>1, <1>4, <1>7
  <2>2. CASE k = a
    <3>2. d = <<>>
      <4>1. <<a>> \in Seq(EntryKeys) /\ IsInjective(<<a>>) /\ a \in ToSet(<<a>>) /\ Len(<<a>>) = 1
        BY <2>1, Tuples
      <4>2. /\ Dropped(<<a>>, a) \in Seq(EntryKeys)
            /\ a \in ToSet(<<a>>) => Len(Dropped(<<a>>, a)) = Len(<<a>>) - 1
        BY <4>1, DroppedIs
      <4>3. Len(Dropped(<<a>>, a)) = 0
        BY <4>1, <4>2
      <4>4. Dropped(<<a>>, a) = <<>>
        BY <4>2, <4>3, EmptySeq
      <4> QED
        BY <2>1, <2>2, <4>4 DEF d
    <3>3. recent' = <<k>>
      BY <1>2, <3>2
    <3> QED
      BY <1>1, <1>3, <1>4, <1>7, <2>2, <3>3
  <2>3. CASE k # a
    <3>1. d = <<a>>
      BY <2>1, <2>3, SmallSequences DEF d
    <3>2. recent' = <<a, k>>
      BY <1>5, <2>1, <2>3, <3>1
    <3>3. slots' = [latest |-> k, previous |-> a] /\ <<a>> \o <<k>> = <<a, k>>
      BY <1>3, <1>9, <2>1, <2>3
    <3> QED
      BY <1>4, <1>7, <2>1, <2>3, <3>2, <3>3
  <2> QED
    BY <2>2, <2>3
<1>8. CASE a # None /\ b # None
  <2>1. recent = <<b, a>> /\ a \in EntryKeys /\ b \in EntryKeys /\ a # b
    <3>1. a \in EntryKeys /\ b \in EntryKeys /\ a # b
      BY <1>1, <1>8
    <3>2. <<b>> \o <<a>> = <<b, a>>
      BY <1>9, <3>1
    <3> QED
      BY <1>1, <1>4, <3>1, <3>2
  <2>2. CASE k = a
    <3>1. d = <<b>>
      BY <2>1, <2>2, SmallSequences DEF d
    <3>2. recent' = <<b, k>>
      BY <1>5, <2>1, <2>2, <3>1
    <3> QED
      BY <1>1, <1>3, <1>4, <2>1, <2>2, <3>2
  <2>3. CASE k = b
    <3>1. d = <<a>>
      BY <2>1, <2>3, SmallSequences DEF d
    <3>2. recent' = <<a, k>>
      BY <1>5, <2>1, <2>3, <3>1
    <3>3. slots' = [latest |-> k, previous |-> a] /\ <<a>> \o <<k>> = <<a, k>>
      BY <1>3, <1>9, <2>1, <2>3
    <3> QED
      BY <1>4, <1>8, <2>1, <2>3, <3>2, <3>3
  <2>4. CASE k # a /\ k # b
    <3>1. d = <<b, a>>
      BY Zenon, <2>1, <2>4, SmallSequences DEF d
    <3>2. Append(d, k) = <<b, a, k>> /\ Len(<<b, a, k>>) = 3 /\ SubSeq(<<b, a, k>>, 2, 3) = <<a, k>>
      <4>1. Append(<<b, a>>, k) = <<b, a, k>> /\ SubSeq(<<b, a, k>>, 2, 3) = <<a, k>>
        BY <2>1, Triples
      <4> QED
        BY <3>1, <4>1
    <3>3. recent' = <<a, k>>
      BY <1>2, <3>2
    <3>4. slots' = [latest |-> k, previous |-> a] /\ <<a>> \o <<k>> = <<a, k>>
      BY <1>3, <1>9, <2>1, <2>4
    <3> QED
      BY <1>4, <1>8, <2>1, <2>4, <3>3, <3>4
  <2> QED
    BY <2>2, <2>3, <2>4
<1> QED
  BY <1>6, <1>7, <1>8

LEMMA KeysSteps ==
    ASSUME Limit \in Nat \ {0}, None \notin EntryKeys
    PROVE  /\ Caches!KeysInit => KeysInv
           /\ KeysInv /\ Caches!KeysNext => KeysInv'
           /\ KeysInv /\ UNCHANGED keyVars => KeysInv'
<1>1. ASSUME entries = {}, order = <<>>, recent = <<>>, slots = [latest |-> None, previous |-> None],
             cache \in Caches!Caches, cache = "object" => Limit = 2
      PROVE  KeysInv
  <2>1. <<>> \in Seq(EntryKeys) /\ Len(<<>>) = 0 /\ <<>> \o <<>> = <<>>
    BY EmptyList
  <2>2. Caches!KeysTypeOK
    BY <1>1, EmptyList, CachesOperators DEF Caches!KeysTypeOK
  <2>3. Caches!HoldsWhatWasUsed
    BY <1>1, <2>1, LastOfIs DEF Caches!HoldsWhatWasUsed, Caches!Kept, Lasts
  <2> QED
    BY <1>1, <2>1, <2>2, <2>3 DEF KeysInv
<1>2. Caches!KeysInit => KeysInv
  BY <1>1 DEF Caches!KeysInit, Caches!R!Init
<1>3. ASSUME KeysInv, NEW k \in EntryKeys, Caches!GetOrCreate(k)
      PROVE  KeysInv'
  <2>1. CASE cache = "object"
    <3>1. /\ slots' \in [latest : EntryKeys \cup {None}, previous : EntryKeys \cup {None}]
          /\ slots'.latest # None /\ slots'.latest # slots'.previous
          /\ recent' = Caches!Kept(slots'.previous) \o Caches!Kept(slots'.latest)
      BY <1>3, <2>1, SlotUse DEF Caches!GetOrCreate
    <3>2. UNCHANGED <<entries, order, cache>>
      BY <1>3, <2>1 DEF Caches!GetOrCreate
    <3>3. Caches!KeysTypeOK'
      BY <1>3, <3>1, <3>2, CachesOperators DEF KeysInv, Caches!KeysTypeOK
    <3>4. Caches!HoldsWhatWasUsed'
      BY <2>1, <3>1, <3>2 DEF Caches!HoldsWhatWasUsed, Caches!Kept
    <3> QED
      BY <1>3, <3>1, <3>2, <3>3, <3>4 DEF KeysInv
  <2>2. CASE cache # "object"
    <3>1. UNCHANGED <<cache, slots>>
      BY <1>3, <2>2 DEF Caches!GetOrCreate
    <3>2. /\ entries' \subseteq EntryKeys /\ entries' = ToSet(order') /\ IsInjective(order')
          /\ order' \in Seq(EntryKeys) /\ recent' = Lasts(order', Limit)
          /\ UndefinedKey \in entries' => cache \in {"serialized", "primitive"}
          /\ UndefinedKey \notin entries' => Len(order') <= Limit
      BY <1>3, <2>2, OrderedUse DEF Caches!GetOrCreate
    <3>3. Caches!KeysTypeOK'
      BY <1>3, <3>1, <3>2, CachesOperators DEF KeysInv, Caches!KeysTypeOK
    <3>4. Caches!HoldsWhatWasUsed'
      <4>1. Caches!R!LastOf(order', Limit) = Lasts(order', Limit)
        BY LastOfIs
      <4>2. Caches!R!LastOf(order, Limit)' = Caches!R!LastOf(order', Limit)
        BY DEF Caches!R!LastOf
      <4> QED
        BY <2>2, <3>1, <3>2, <4>1, <4>2 DEF Caches!HoldsWhatWasUsed
    <3> QED
      BY <2>2, <3>1, <3>2, <3>3, <3>4 DEF KeysInv
  <2> QED
    BY <2>1, <2>2
<1>4. ASSUME KeysInv, NEW k \in EntryKeys, Caches!Delete(k)
      PROVE  KeysInv'
  <2>1. /\ cache # "object" /\ UNCHANGED <<cache, slots>> /\ entries' = entries \ {k}
        /\ order' = Dropped(order, k) /\ recent' = Dropped(recent, k)
    BY <1>4, CachesOperators DEF Caches!Delete, Caches!R!Forget
  <2>2. /\ order \in Seq(EntryKeys) /\ IsInjective(order) /\ Len(order) <= Limit /\ Len(order) \in Nat
        /\ entries = ToSet(order) /\ UndefinedKey \notin entries
    <3>1. UndefinedKey \notin entries
      BY <1>4 DEF KeysInv, Caches!Delete
    <3> QED
      BY <1>4, <3>1, CachesOperators, LenProperties DEF KeysInv, Caches!KeysTypeOK
  <2>9. recent = order
    BY <1>4, <2>1, <2>2, LastOfIs DEF KeysInv, Caches!HoldsWhatWasUsed, Lasts
  <2>3. /\ order' \in Seq(EntryKeys) /\ IsInjective(order') /\ ToSet(order') = ToSet(order) \ {k}
        /\ k \in ToSet(order) => Len(order') = Len(order) - 1
        /\ k \notin ToSet(order) => order' = order
    BY <2>1, <2>2, DroppedIs
  <2>4. Len(order') <= Limit
    BY <2>2, <2>3
  <2>5. Caches!KeysTypeOK'
    BY <1>4, <2>1, <2>2, <2>3, CachesOperators DEF KeysInv, Caches!KeysTypeOK
  <2>6. Caches!HoldsWhatWasUsed'
    <3>1. recent' = order'
      BY <2>1, <2>9
    <3>2. Caches!R!LastOf(order, Limit)' = order'
      BY <2>4 DEF Caches!R!LastOf
    <3> QED
      BY <2>1, <3>1, <3>2 DEF Caches!HoldsWhatWasUsed
  <2> QED
    BY <2>1, <2>2, <2>3, <2>4, <2>5, <2>6 DEF KeysInv
<1>5. ASSUME KeysInv, Caches!Clear
      PROVE  KeysInv'
  <2>1. /\ entries' = {} /\ order' = <<>> /\ recent' = <<>> /\ slots' = [latest |-> None, previous |-> None]
        /\ cache' = cache
    BY <1>5 DEF Caches!Clear, Caches!R!ForgetAll
  <2>2. <<>> \in Seq(EntryKeys) /\ Len(<<>>) = 0 /\ <<>> \o <<>> = <<>>
    BY EmptyList
  <2>3. Caches!KeysTypeOK'
    BY <1>5, <2>1, EmptyList, CachesOperators DEF KeysInv, Caches!KeysTypeOK
  <2>4. Caches!HoldsWhatWasUsed'
    <3>1. Caches!R!LastOf(order, Limit)' = <<>>
      BY <2>1, <2>2 DEF Caches!R!LastOf
    <3> QED
      BY <2>1, <2>2, <3>1 DEF Caches!HoldsWhatWasUsed, Caches!Kept
  <2> QED
    BY <1>5, <2>1, <2>2, <2>3, <2>4 DEF KeysInv
<1>6. ASSUME KeysInv, UNCHANGED keyVars
      PROVE  KeysInv'
  BY <1>6 DEF keyVars, KeysInv, Caches!KeysTypeOK, Caches!HoldsWhatWasUsed, Caches!Kept, Caches!R!LastOf
<1> QED
  BY <1>2, <1>3, <1>4, <1>5, <1>6 DEF Caches!KeysNext
-----------------------------------------------------------------------------
(* The runtime queue *)

Tasks  == [key : TaskKeys, id : 1..MaxTasks]
Frames == [rest : Seq(Tasks), taken : Seq(Tasks), flush : BOOLEAN, inTask : BOOLEAN]

(* No task is twice in a list, and no key waits twice. *)
Distinct(s)  == \A p, q \in DOMAIN s : s[p].id = s[q].id => p = q
KeysApart(s) == \A p, q \in DOMAIN s : s[p].key = s[q].key => p = q

LEMMA IdsOfTasks ==
    ASSUME NEW s \in Seq(Tasks)
    PROVE  /\ Queue!Ids(s) = {s[p].id : p \in 1..Len(s)} /\ Queue!Ids(s) \subseteq 1..MaxTasks
           /\ DOMAIN s = 1..Len(s) /\ Len(s) \in Nat
           /\ \A p \in 1..Len(s) : s[p] \in Tasks /\ s[p].id \in Queue!Ids(s)
  <1>1. DOMAIN s = 1..Len(s) /\ Len(s) \in Nat /\ \A p \in 1..Len(s) : s[p] \in Tasks
    BY LenProperties, ElementOfSeq
  <1>2. Queue!Ids(s) = {s[p].id : p \in 1..Len(s)}
    BY <1>1 DEF Queue!Ids, Queue!ToSet
  <1> QED
    BY <1>1, <1>2 DEF Tasks

LEMMA NoIds == Queue!Ids(<<>>) = {} /\ <<>> \in Seq(Tasks) /\ Distinct(<<>>) /\ KeysApart(<<>>)
<1>1. <<>> \in Seq(Tasks) /\ Len(<<>>) = 0
  BY EmptySeq
<1> QED
  <2>1. Queue!Ids(<<>>) = {<<>>[p].id : p \in 1..Len(<<>>)} /\ DOMAIN <<>> = 1..Len(<<>>)
    BY <1>1, IdsOfTasks
  <2>2. 1..Len(<<>>) = {}
    BY <1>1
  <2> QED
    BY <1>1, <2>1, <2>2 DEF Distinct, KeysApart

(* A batch and what remains share the queue between them. *)
LEMMA BatchIs ==
    ASSUME BatchSize \in Nat \ {0}, NEW q \in Seq(Tasks), Distinct(q), KeysApart(q)
    PROVE  /\ Queue!Batch(q) \in Seq(Tasks) /\ Queue!Remaining(q) \in Seq(Tasks)
           /\ Distinct(Queue!Batch(q)) /\ Distinct(Queue!Remaining(q)) /\ KeysApart(Queue!Remaining(q))
           /\ Queue!Ids(Queue!Batch(q)) \cup Queue!Ids(Queue!Remaining(q)) = Queue!Ids(q)
           /\ Queue!Ids(Queue!Batch(q)) \cap Queue!Ids(Queue!Remaining(q)) = {}
<1> DEFINE n == IF Len(q) < BatchSize THEN Len(q) ELSE BatchSize
           a == SubSeq(q, 1, n)
           b == SubSeq(q, n + 1, Len(q))
<1>1. Len(q) \in Nat /\ DOMAIN q = 1..Len(q) /\ n \in Nat /\ n <= Len(q)
  BY IdsOfTasks
<1> HIDE DEF n
<1>2. a \in Seq(Tasks) /\ Len(a) = n /\ \A i \in 1..n : a[i] = q[i]
  <2>1. \A i \in 1..n : q[i] \in Tasks
    BY <1>1, ElementOfSeq
  <2>2. a \in Seq(Tasks) /\ Len(a) = (IF 1 <= n THEN n - 1 + 1 ELSE 0)
        /\ \A i \in 1..(n - 1 + 1) : a[i] = q[1 + i - 1]
    BY <1>1, <2>1, SubSeqProperties
  <2> QED
    BY <1>1, <2>2
<1>3. b \in Seq(Tasks) /\ Len(b) = Len(q) - n /\ \A i \in 1..(Len(q) - n) : b[i] = q[n + i]
  <2>1. \A i \in (n + 1)..Len(q) : q[i] \in Tasks
    BY <1>1, ElementOfSeq
  <2>2. b \in Seq(Tasks) /\ Len(b) = (IF n + 1 <= Len(q) THEN Len(q) - (n + 1) + 1 ELSE 0)
        /\ \A i \in 1..(Len(q) - (n + 1) + 1) : b[i] = q[(n + 1) + i - 1]
    BY <1>1, <2>1, SubSeqProperties
  <2>3. Len(q) - (n + 1) + 1 = Len(q) - n /\ (IF n + 1 <= Len(q) THEN Len(q) - (n + 1) + 1 ELSE 0) = Len(q) - n
    <3>1. \A l, m \in Nat : m <= l =>
              l - (m + 1) + 1 = l - m /\ (IF m + 1 <= l THEN l - (m + 1) + 1 ELSE 0) = l - m
      OBVIOUS
    <3> QED
      BY <1>1, <3>1, Zenon
  <2> HIDE DEF b
  <2>4. \A i \in 1..(Len(q) - n) : (n + 1) + i - 1 = n + i
    BY <1>1
  <2>5. \A i \in 1..(Len(q) - n) : b[i] = q[n + i]
    BY <2>2, <2>3, <2>4
  <2> QED
    BY <2>2, <2>3, <2>5
<1>4. Queue!Batch(q) = a /\ Queue!Remaining(q) = b
  BY <1>2 DEF Queue!Batch, Queue!Remaining, n
<1> HIDE DEF a, b
<1>5. /\ Queue!Ids(a) = {a[i].id : i \in 1..n} /\ DOMAIN a = 1..n
      /\ Queue!Ids(b) = {b[i].id : i \in 1..(Len(q) - n)} /\ DOMAIN b = 1..(Len(q) - n)
      /\ Queue!Ids(q) = {q[i].id : i \in 1..Len(q)}
  <2>1. Queue!Ids(a) = {a[i].id : i \in 1..Len(a)} /\ DOMAIN a = 1..Len(a)
    BY <1>2, IdsOfTasks
  <2>2. Queue!Ids(b) = {b[i].id : i \in 1..Len(b)} /\ DOMAIN b = 1..Len(b)
    BY <1>3, IdsOfTasks
  <2> QED
    BY <1>2, <1>3, <2>1, <2>2, IdsOfTasks
<1>6. \A i \in 1..n : i \in 1..Len(q)
  BY <1>1
<1>7. \A i \in 1..(Len(q) - n) : n + i \in 1..Len(q) /\ n + i > n
  BY <1>1
<1>8. \A i \in 1..Len(q) : i \in 1..n \/ (i - n \in 1..(Len(q) - n) /\ n + (i - n) = i)
  BY <1>1
<1>9. Distinct(a)
  BY <1>1, <1>2, <1>5, <1>6 DEF Distinct
<1>10. Distinct(b)
  <2> SUFFICES ASSUME NEW i \in 1..(Len(q) - n), NEW j \in 1..(Len(q) - n), b[i].id = b[j].id
               PROVE  i = j
    BY <1>5 DEF Distinct
  <2>1. q[n + i].id = q[n + j].id /\ n + i \in DOMAIN q /\ n + j \in DOMAIN q
    BY <1>1, <1>3, <1>7
  <2>2. n + i = n + j
    BY <2>1 DEF Distinct
  <2> QED
    BY <1>1, <2>2
<1>11. KeysApart(b)
  <2> SUFFICES ASSUME NEW i \in 1..(Len(q) - n), NEW j \in 1..(Len(q) - n), b[i].key = b[j].key
               PROVE  i = j
    BY <1>5 DEF KeysApart
  <2>1. q[n + i].key = q[n + j].key /\ n + i \in DOMAIN q /\ n + j \in DOMAIN q
    BY <1>1, <1>3, <1>7
  <2>2. n + i = n + j
    BY <2>1 DEF KeysApart
  <2> QED
    BY <1>1, <2>2
<1>12. Queue!Ids(a) \cup Queue!Ids(b) = Queue!Ids(q)
  <2>1. \A i \in 1..Len(q) : i - n \in 1..(Len(q) - n) => b[i - n] = q[n + (i - n)]
    BY <1>3
  <2>2. \A i \in 1..Len(q) : q[i].id \in Queue!Ids(a) \cup Queue!Ids(b)
    BY <1>2, <1>5, <1>8, <2>1
  <2>3. Queue!Ids(a) \subseteq Queue!Ids(q)
    BY <1>2, <1>5, <1>6
  <2>4. Queue!Ids(b) \subseteq Queue!Ids(q)
    BY <1>3, <1>5, <1>7
  <2> QED
    BY <1>5, <2>2, <2>3, <2>4
<1>13. Queue!Ids(a) \cap Queue!Ids(b) = {}
  <2> SUFFICES ASSUME NEW i \in 1..n, NEW j \in 1..(Len(q) - n), a[i].id = b[j].id
               PROVE  FALSE
    BY <1>5
  <2>1. q[i].id = q[n + j].id /\ i \in DOMAIN q /\ n + j \in DOMAIN q
    BY <1>1, <1>2, <1>3, <1>6, <1>7
  <2>2. i = n + j
    BY <2>1 DEF Distinct
  <2> QED
    BY <1>1, <1>7, <2>2
<1> QED
  BY <1>2, <1>3, <1>4, <1>9, <1>10, <1>11, <1>12, <1>13

(* A task that is put into the queue is there, and only one can have gone. *)
LEMMA PutIs ==
    ASSUME NEW q \in Seq(Tasks), Distinct(q), KeysApart(q), NEW t \in Tasks, t.id \notin Queue!Ids(q)
    PROVE  /\ Queue!Put(q, t) \in Seq(Tasks) /\ Distinct(Queue!Put(q, t)) /\ KeysApart(Queue!Put(q, t))
           /\ t.id \in Queue!Ids(Queue!Put(q, t)) /\ Queue!Ids(Queue!Put(q, t)) \subseteq Queue!Ids(q) \cup {t.id}
<1> DEFINE w == Queue!Put(q, t)
<1>1. DOMAIN q = 1..Len(q) /\ Len(q) \in Nat /\ \A p \in 1..Len(q) : q[p] \in Tasks /\ q[p].id \in Queue!Ids(q)
  BY IdsOfTasks
<1>2. \A p \in 1..Len(q) : q[p].id # t.id
  BY <1>1
<1>3. CASE \E i \in DOMAIN q : q[i].key = t.key
  <2>1. w = [i \in 1..Len(q) |-> IF q[i].key = t.key THEN t ELSE q[i]]
    BY Zenon, <1>1, <1>3 DEF Queue!Put
  <2>2. PICK j \in 1..Len(q) : q[j].key = t.key
    BY <1>1, <1>3
  <2>3. \A i \in 1..Len(q) : q[i].key = t.key <=> i = j
    BY <1>1, <2>2 DEF KeysApart
  <2> HIDE DEF w
  <2>4. w = [i \in 1..Len(q) |-> IF i = j THEN t ELSE q[i]]
    BY <2>1, <2>3
  <2>5. w \in Seq(Tasks) /\ Len(w) = Len(q)
    <3>1. w \in [1..Len(q) -> Tasks]
      BY <1>1, <2>4
    <3> QED
      BY <1>1, <3>1
  <2>6. DOMAIN w = 1..Len(q) /\ w[j] = t /\ \A i \in 1..Len(q) : i # j => w[i] = q[i]
    BY <2>2, <2>4
  <2>7. Queue!Ids(w) = {w[p].id : p \in 1..Len(q)}
    BY <2>5, IdsOfTasks
  <2>8. Distinct(w)
    BY <1>1, <1>2, <2>6 DEF Distinct
  <2>9. KeysApart(w)
    BY <1>1, <2>2, <2>3, <2>6 DEF KeysApart
  <2>10. t.id \in Queue!Ids(w) /\ Queue!Ids(w) \subseteq Queue!Ids(q) \cup {t.id}
    BY <1>1, <2>2, <2>6, <2>7
  <2> QED
    BY <2>5, <2>8, <2>9, <2>10 DEF w
<1>4. CASE ~\E i \in DOMAIN q : q[i].key = t.key
  <2>1. w = Append(q, t)
    BY <1>4 DEF Queue!Put
  <2> HIDE DEF w
  <2>2. /\ w \in Seq(Tasks) /\ Len(w) = Len(q) + 1 /\ w[Len(q) + 1] = t
        /\ \A i \in 1..Len(q) : w[i] = q[i]
    BY <2>1, AppendProperties
  <2>3. DOMAIN w = 1..(Len(q) + 1) /\ Queue!Ids(w) = {w[p].id : p \in 1..(Len(q) + 1)}
    BY <2>2, IdsOfTasks
  <2>4. Len(q) + 1 \in 1..(Len(q) + 1) /\ \A p \in 1..(Len(q) + 1) : p = Len(q) + 1 \/ p \in 1..Len(q)
    BY <1>1
  <2>5. \A p \in 1..Len(q) : q[p].key # t.key
    BY <1>1, <1>4
  <2>6. Distinct(w)
    BY <1>1, <1>2, <2>2, <2>3, <2>4 DEF Distinct
  <2>7. KeysApart(w)
    BY <1>1, <2>2, <2>3, <2>4, <2>5 DEF KeysApart
  <2>8. t.id \in Queue!Ids(w) /\ Queue!Ids(w) \subseteq Queue!Ids(q) \cup {t.id}
    BY <1>1, <2>2, <2>3, <2>4
  <2> QED
    BY <2>2, <2>6, <2>7, <2>8 DEF w
<1> QED
  BY <1>3, <1>4
(* The tasks that are still to run in a stack of batches, and that none is
   there twice.                                                            *)
Under(st) == UNION {Queue!Ids(st[i].rest) : i \in DOMAIN st}
Apart(st) ==
    /\ \A i \in DOMAIN st : Distinct(st[i].rest)
    /\ \A i, j \in DOMAIN st : i # j => Queue!Ids(st[i].rest) \cap Queue!Ids(st[j].rest) = {}

LEMMA PushIs ==
    ASSUME NEW st \in Seq(Frames), Apart(st), NEW f \in Frames, Distinct(f.rest),
           Under(st) \cap Queue!Ids(f.rest) = {}
    PROVE  /\ Append(st, f) \in Seq(Frames) /\ Apart(Append(st, f))
           /\ Under(Append(st, f)) = Under(st) \cup Queue!Ids(f.rest)
<1> DEFINE w == Append(st, f)
           n == Len(st)
<1>1. /\ w \in Seq(Frames) /\ Len(w) = n + 1 /\ w[n + 1] = f
      /\ \A i \in 1..n : w[i] = st[i]
  BY AppendProperties
<1>2. n \in Nat /\ DOMAIN st = 1..n
  BY LenProperties
<1> HIDE DEF w, n
<1>3. /\ DOMAIN w = 1..(n + 1) /\ n + 1 \in 1..(n + 1)
      /\ \A i \in 1..(n + 1) : i = n + 1 \/ (i \in 1..n /\ i # n + 1)
      /\ \A i \in 1..n : i \in 1..(n + 1)
  <2>1. DOMAIN w = 1..Len(w)
    BY <1>1, LenProperties
  <2> QED
    BY <1>1, <1>2, <2>1
<1>4. \A i \in 1..n : Queue!Ids(st[i].rest) \subseteq Under(st)
  BY <1>2 DEF Under
<1>5. Apart(w)
  <2>1. \A i \in DOMAIN w : Distinct(w[i].rest)
    BY <1>1, <1>2, <1>3 DEF Apart
  <2>2. ASSUME NEW i \in 1..(n + 1), NEW j \in 1..(n + 1), i # j
        PROVE  Queue!Ids(w[i].rest) \cap Queue!Ids(w[j].rest) = {}
    <3>1. CASE i = n + 1
      <4>1. j \in 1..n /\ w[j] = st[j] /\ w[i] = f
        BY <1>1, <1>3, <2>2, <3>1
      <4> QED
        BY <1>4, <4>1
    <3>2. CASE j = n + 1
      <4>1. i \in 1..n /\ w[i] = st[i] /\ w[j] = f
        BY <1>1, <1>3, <2>2, <3>2
      <4> QED
        BY <1>4, <4>1
    <3>3. CASE i # n + 1 /\ j # n + 1
      <4>1. i \in 1..n /\ w[i] = st[i] /\ j \in 1..n /\ w[j] = st[j]
        BY <1>1, <1>3, <2>2, <3>3
      <4> QED
        BY <1>2, <2>2, <4>1 DEF Apart
    <3> QED
      BY <3>1, <3>2, <3>3
  <2> QED
    BY <1>3, <2>1, <2>2 DEF Apart
<1>6. Under(w) = Under(st) \cup Queue!Ids(f.rest)
  <2>1. ASSUME NEW x \in Under(w)
        PROVE  x \in Under(st) \cup Queue!Ids(f.rest)
    <3>1. PICK i \in 1..(n + 1) : x \in Queue!Ids(w[i].rest)
      BY <1>3, <2>1 DEF Under
    <3> QED
      BY <1>1, <1>3, <1>4, <3>1
  <2>2. ASSUME NEW x \in Under(st)
        PROVE  x \in Under(w)
    <3>1. PICK i \in 1..n : x \in Queue!Ids(st[i].rest)
      BY <1>2, <2>2 DEF Under
    <3> QED
      BY <1>1, <1>3, <3>1 DEF Under
  <2>3. Queue!Ids(f.rest) \subseteq Under(w)
    BY <1>1, <1>3 DEF Under
  <2> QED
    BY <2>1, <2>2, <2>3
<1> QED
  BY <1>1, <1>5, <1>6 DEF w

LEMMA PopIs ==
    ASSUME NEW st \in Seq(Frames), Apart(st), st # <<>>
    PROVE  /\ Queue!Front(st) \in Seq(Frames) /\ Apart(Queue!Front(st))
           /\ Queue!Last(st) \in Frames /\ Distinct(Queue!Last(st).rest)
           /\ Queue!Ids(Queue!Last(st).rest) \subseteq Under(st)
           /\ Under(Queue!Front(st)) = Under(st) \ Queue!Ids(Queue!Last(st).rest)
           /\ Append(Queue!Front(st), Queue!Last(st)) = st
<1> DEFINE n == Len(st)
           w == Queue!Front(st)
<1>1. n \in Nat /\ n >= 1 /\ DOMAIN st = 1..n
  BY LenProperties, EmptySeq
<1>2. w \in Seq(Frames) /\ Len(w) = n - 1 /\ \A i \in 1..(n - 1) : w[i] = st[i]
  <2>1. w = SubSeq(st, 1, n - 1)
    BY DEF Queue!Front
  <2>2. \A i \in 1..(n - 1) : st[i] \in Frames
    BY <1>1, ElementOfSeq
  <2> HIDE DEF n, w
  <2>3. /\ w \in Seq(Frames) /\ Len(w) = (IF 1 <= n - 1 THEN (n - 1) - 1 + 1 ELSE 0)
        /\ \A i \in 1..((n - 1) - 1 + 1) : w[i] = st[1 + i - 1]
    BY <1>1, <2>1, <2>2, SubSeqProperties
  <2> QED
    BY <1>1, <2>3
<1>3. Queue!Last(st) = st[n] /\ st[n] \in Frames /\ n \in 1..n
  BY <1>1, ElementOfSeq DEF Queue!Last
<1> HIDE DEF n, w
<1>4. /\ DOMAIN w = 1..(n - 1) /\ \A i \in 1..(n - 1) : i \in 1..n /\ i # n
      /\ \A i \in 1..n : i = n \/ i \in 1..(n - 1)
  <2>1. DOMAIN w = 1..Len(w)
    BY <1>2, LenProperties
  <2> QED
    BY <1>1, <1>2, <2>1
<1>5. Apart(w) /\ Distinct(st[n].rest)
  BY <1>1, <1>2, <1>3, <1>4 DEF Apart
<1>6. Queue!Ids(st[n].rest) \subseteq Under(st)
  BY <1>1, <1>3 DEF Under
<1>7. Under(w) = Under(st) \ Queue!Ids(st[n].rest)
  <2>1. ASSUME NEW x \in Under(w)
        PROVE  x \in Under(st) \ Queue!Ids(st[n].rest)
    <3>1. PICK i \in 1..(n - 1) : x \in Queue!Ids(w[i].rest)
      BY <1>4, <2>1 DEF Under
    <3>2. w[i] = st[i] /\ i \in 1..n /\ i # n
      BY <1>2, <1>4
    <3>3. Queue!Ids(st[i].rest) \cap Queue!Ids(st[n].rest) = {}
      BY <1>1, <1>3, <3>2 DEF Apart
    <3>4. x \in Under(st)
      BY <1>1, <3>1, <3>2 DEF Under
    <3> QED
      BY <3>1, <3>2, <3>3, <3>4
  <2>2. ASSUME NEW x \in Under(st), x \notin Queue!Ids(st[n].rest)
        PROVE  x \in Under(w)
    <3>1. PICK i \in 1..n : x \in Queue!Ids(st[i].rest)
      BY <1>1, <2>2 DEF Under
    <3>2. i \in 1..(n - 1) /\ w[i] = st[i]
      BY <1>2, <1>4, <2>2, <3>1
    <3> QED
      BY <1>4, <3>1, <3>2 DEF Under
  <2> QED
    BY <2>1, <2>2
<1>8. Append(w, st[n]) = st
  <2> DEFINE v == Append(w, st[n])
  <2>1. /\ v \in Seq(Frames) /\ Len(v) = Len(w) + 1 /\ v[Len(w) + 1] = st[n]
        /\ \A i \in 1..Len(w) : v[i] = w[i]
    BY <1>2, <1>3, AppendProperties
  <2> HIDE DEF v
  <2>2. Len(w) + 1 = n /\ Len(v) = n
    BY <1>1, <1>2, <2>1
  <2>3. \A i \in 1..n : v[i] = st[i]
    BY <1>2, <1>4, <2>1, <2>2
  <2> QED
    BY <2>1, <2>2, <2>3, SeqEqual DEF n, v
<1> QED
  BY <1>2, <1>3, <1>5, <1>6, <1>7, <1>8 DEF w

(* The innermost batch is replaced. *)
LEMMA TopIs ==
    ASSUME NEW st \in Seq(Frames), st # <<>>, NEW f \in Frames
    PROVE  [st EXCEPT ![Len(st)] = f] = Append(Queue!Front(st), f)
<1> DEFINE n == Len(st)
           w == Queue!Front(st)
           v == Append(w, f)
           x == [st EXCEPT ![n] = f]
<1>1. n \in Nat /\ n >= 1 /\ DOMAIN st = 1..n
  BY LenProperties, EmptySeq
<1>2. w \in Seq(Frames) /\ Len(w) = n - 1 /\ \A i \in 1..(n - 1) : w[i] = st[i]
  <2>1. w = SubSeq(st, 1, n - 1)
    BY DEF Queue!Front
  <2>2. \A i \in 1..(n - 1) : st[i] \in Frames
    BY <1>1, ElementOfSeq
  <2> HIDE DEF n, w
  <2>3. /\ w \in Seq(Frames) /\ Len(w) = (IF 1 <= n - 1 THEN (n - 1) - 1 + 1 ELSE 0)
        /\ \A i \in 1..((n - 1) - 1 + 1) : w[i] = st[1 + i - 1]
    BY <1>1, <2>1, <2>2, SubSeqProperties
  <2> QED
    BY <1>1, <2>3
<1>3. x \in Seq(Frames) /\ Len(x) = n /\ \A i \in 1..n : x[i] = IF i = n THEN f ELSE st[i]
  <2>1. n \in 1..Len(st)
    BY <1>1
  <2> QED
    BY <2>1, ExceptSeq
<1> HIDE DEF n, w, x
<1>4. /\ v \in Seq(Frames) /\ Len(v) = Len(w) + 1 /\ v[Len(w) + 1] = f
      /\ \A i \in 1..Len(w) : v[i] = w[i]
  BY <1>2, AppendProperties
<1> HIDE DEF v
<1>5. Len(w) + 1 = n /\ Len(v) = n /\ \A i \in 1..n : i = n \/ i \in 1..(n - 1)
  BY <1>1, <1>2, <1>4
<1>6. \A i \in 1..n : v[i] = x[i]
  BY <1>1, <1>2, <1>3, <1>4, <1>5
<1>7. v = x
  BY <1>3, <1>4, <1>5, <1>6, SeqEqual
<1> QED
  BY <1>7 DEF v, x, w, n
QueueInv ==
    /\ Queue!QueueTypeOK /\ Queue!NoTaskIsLost
    /\ waitingTasks \in Seq(Tasks) /\ Distinct(waitingTasks) /\ KeysApart(waitingTasks)
    /\ stack \in Seq(Frames) /\ Apart(stack)

(* Between them the four places have every task once. *)
Shared(n, waits, under, done, gone) ==
    /\ 1..n = waits \cup under \cup done \cup gone
    /\ waits \cap (under \cup done \cup gone) = {}
    /\ (under \cup done) \cap gone = {} /\ under \cap done = {}

LEMMA QueueInvIs ==
    QueueInv <=>
        /\ waitingTasks \in Seq(Tasks) /\ Distinct(waitingTasks) /\ KeysApart(waitingTasks)
        /\ stack \in Seq(Frames) /\ Apart(stack)
        /\ scheduled \in BOOLEAN /\ enqueued \in 0..MaxTasks
        /\ Shared(enqueued, Queue!Ids(waitingTasks), Under(stack), ran, replaced)
        /\ waitingTasks # <<>> => scheduled \/ stack # <<>>
<1>1. Queue!Underway = Under(stack)
  BY DEF Queue!Underway, Under
<1>2. stack \in Seq(Frames) => \A i \in DOMAIN stack : stack[i].flush \in BOOLEAN /\ stack[i].inTask \in BOOLEAN
  <2> SUFFICES ASSUME stack \in Seq(Frames), NEW i \in DOMAIN stack
               PROVE  stack[i] \in Frames
    BY DEF Frames
  <2> QED
    BY LenProperties, ElementOfSeq
<1>3. waitingTasks \in Seq(Tasks) <=> waitingTasks \in Seq([key : TaskKeys, id : 1..MaxTasks])
  BY DEF Tasks
<1> QED
  BY <1>1, <1>2, <1>3 DEF QueueInv, Queue!QueueTypeOK, Queue!NoTaskIsLost, Shared

(* The same of the next state. *)
LEMMA QueueInvNext ==
    ASSUME waitingTasks' \in Seq(Tasks), Distinct(waitingTasks'), KeysApart(waitingTasks'),
           stack' \in Seq(Frames), Apart(stack'),
           scheduled' \in BOOLEAN, enqueued' \in 0..MaxTasks,
           Shared(enqueued', Queue!Ids(waitingTasks'), Under(stack'), ran', replaced'),
           waitingTasks' # <<>> => scheduled' \/ stack' # <<>>
    PROVE  QueueInv'
<1>1. Queue!Underway' = Under(stack')
  BY DEF Queue!Underway, Under, Queue!Ids, Queue!ToSet
<1>2. \A i \in DOMAIN stack' : stack'[i].flush \in BOOLEAN /\ stack'[i].inTask \in BOOLEAN
  <2> SUFFICES ASSUME NEW i \in DOMAIN stack'
               PROVE  stack'[i] \in Frames
    BY DEF Frames
  <2> QED
    BY LenProperties, ElementOfSeq
<1>3. waitingTasks' \in Seq([key : TaskKeys, id : 1..MaxTasks])
  BY DEF Tasks
<1>4. Queue!QueueTypeOK'
  BY <1>2, <1>3 DEF Queue!QueueTypeOK, Shared
<1>5. Queue!NoTaskIsLost'
  BY <1>1 DEF Queue!NoTaskIsLost, Shared, Queue!Ids, Queue!ToSet
<1>6. (Distinct(waitingTasks) /\ KeysApart(waitingTasks) /\ Apart(stack))'
  BY DEF Distinct, KeysApart, Apart, Queue!Ids, Queue!ToSet
<1> QED
  BY <1>4, <1>5, <1>6 DEF QueueInv, Tasks, Frames

LEMMA FrameIs ==
    ASSUME NEW left \in Seq(Tasks), NEW taken \in Seq(Tasks), NEW flush \in BOOLEAN, NEW inTask \in BOOLEAN
    PROVE  [rest |-> left, taken |-> taken, flush |-> flush, inTask |-> inTask] \in Frames
  BY DEF Frames

LEMMA StartsIs ==
    ASSUME BatchSize \in Nat \ {0},
           NEW q \in Seq(Tasks), Distinct(q), KeysApart(q), NEW flush \in BOOLEAN,
           stack \in Seq(Frames), Apart(stack), Under(stack) \cap Queue!Ids(q) = {},
           Queue!Starts(q, flush)
    PROVE  /\ waitingTasks' \in Seq(Tasks) /\ Distinct(waitingTasks') /\ KeysApart(waitingTasks')
           /\ stack' \in Seq(Frames) /\ Apart(stack') /\ stack' # <<>>
           /\ Queue!Ids(waitingTasks') \cup Under(stack') = Queue!Ids(q) \cup Under(stack)
           /\ Queue!Ids(waitingTasks') \cap Under(stack') = {}
<1> DEFINE b == Queue!Batch(q)
           r == Queue!Remaining(q)
           f == [rest |-> b, taken |-> b, flush |-> flush, inTask |-> FALSE]
<1>1. stack' = Append(stack, f) /\ waitingTasks' = r
  BY DEF Queue!Starts
<1>2. /\ b \in Seq(Tasks) /\ r \in Seq(Tasks) /\ Distinct(b) /\ Distinct(r) /\ KeysApart(r)
      /\ Queue!Ids(b) \cup Queue!Ids(r) = Queue!Ids(q) /\ Queue!Ids(b) \cap Queue!Ids(r) = {}
  BY BatchIs
<1> HIDE DEF b, r
<1>3. f \in Frames /\ f.rest = b
  BY <1>2, FrameIs
<1> HIDE DEF f
<1>4. /\ Append(stack, f) \in Seq(Frames) /\ Apart(Append(stack, f))
      /\ Under(Append(stack, f)) = Under(stack) \cup Queue!Ids(f.rest)
  BY <1>2, <1>3, PushIs
<1>5. Append(stack, f) # <<>>
  BY <1>3, AppendProperties
<1> QED
  BY <1>1, <1>2, <1>3, <1>4, <1>5

(* A list of tasks without its first one. *)
LEMMA RestIs ==
    ASSUME NEW s \in Seq(Tasks), s # <<>>, Distinct(s)
    PROVE  /\ Tail(s) \in Seq(Tasks) /\ Distinct(Tail(s)) /\ Head(s).id \in Queue!Ids(s)
           /\ Queue!Ids(Tail(s)) = Queue!Ids(s) \ {Head(s).id}
<1> DEFINE w == Tail(s)
           n == Len(s)
<1>1. /\ Head(s) = s[1] /\ w \in Seq(Tasks) /\ Len(w) = n - 1 /\ n \in Nat /\ n >= 1
      /\ \A i \in 1..(n - 1) : w[i] = s[i + 1]
  BY HeadTailProperties, EmptySeq, LenProperties
<1> HIDE DEF w, n
<1>2. /\ DOMAIN w = 1..(n - 1) /\ Queue!Ids(w) = {w[p].id : p \in 1..(n - 1)}
      /\ DOMAIN s = 1..n /\ Queue!Ids(s) = {s[p].id : p \in 1..n}
  <2>1. DOMAIN w = 1..Len(w) /\ Queue!Ids(w) = {w[p].id : p \in 1..Len(w)}
    BY <1>1, IdsOfTasks
  <2>2. DOMAIN s = 1..Len(s) /\ Queue!Ids(s) = {s[p].id : p \in 1..Len(s)}
    BY IdsOfTasks
  <2> QED
    BY <1>1, <2>1, <2>2 DEF n
<1>3. /\ \A i \in 1..(n - 1) : i + 1 \in 1..n /\ i + 1 # 1
      /\ \A i \in 1..n : i = 1 \/ (i - 1 \in 1..(n - 1) /\ (i - 1) + 1 = i)
      /\ \A i, j \in 1..(n - 1) : i + 1 = j + 1 => i = j
      /\ 1 \in 1..n
  BY <1>1
<1>4. Distinct(w)
  <2> SUFFICES ASSUME NEW i \in 1..(n - 1), NEW j \in 1..(n - 1), w[i].id = w[j].id
               PROVE  i = j
    BY <1>2 DEF Distinct
  <2>1. s[i + 1].id = s[j + 1].id /\ i + 1 \in DOMAIN s /\ j + 1 \in DOMAIN s
    BY <1>1, <1>2, <1>3
  <2>2. i + 1 = j + 1
    BY <2>1 DEF Distinct
  <2> QED
    BY <1>3, <2>2
<1>5. Queue!Ids(w) \subseteq Queue!Ids(s) \ {s[1].id}
  <2> SUFFICES ASSUME NEW i \in 1..(n - 1)
               PROVE  w[i].id \in Queue!Ids(s) /\ w[i].id # s[1].id
    BY <1>2
  <2>1. w[i] = s[i + 1] /\ i + 1 \in DOMAIN s /\ i + 1 # 1 /\ 1 \in DOMAIN s
    BY <1>1, <1>2, <1>3
  <2> QED
    BY <1>2, <2>1 DEF Distinct
<1>6. Queue!Ids(s) \ {s[1].id} \subseteq Queue!Ids(w)
  <2> SUFFICES ASSUME NEW i \in 1..n, i # 1
               PROVE  s[i].id \in Queue!Ids(w)
    BY <1>2
  <2>1. i - 1 \in 1..(n - 1) /\ (i - 1) + 1 = i
    BY <1>3
  <2>2. w[i - 1] = s[i]
    BY <1>1, <2>1
  <2> QED
    BY <1>2, <2>1, <2>2
<1> QED
  BY <1>1, <1>2, <1>3, <1>4, <1>5, <1>6 DEF w

LEMMA QueueSteps ==
    ASSUME BatchSize \in Nat \ {0}, MaxTasks \in Nat
    PROVE  /\ Queue!QueueInit => QueueInv
           /\ QueueInv /\ Queue!QueueNext => QueueInv'
           /\ QueueInv /\ UNCHANGED queueVars => QueueInv'
<1>1. Queue!QueueInit => QueueInv
  <2> SUFFICES ASSUME Queue!QueueInit
               PROVE  QueueInv
    OBVIOUS
  <2>1. /\ waitingTasks = <<>> /\ scheduled = FALSE /\ stack = <<>>
        /\ enqueued = 0 /\ ran = {} /\ replaced = {}
    BY DEF Queue!QueueInit
  <2>2. /\ <<>> \in Seq(Frames) /\ DOMAIN <<>> = {}
    BY EmptySeq
  <2>3. Under(<<>>) = {} /\ Apart(<<>>)
    BY <2>2 DEF Under, Apart
  <2>4. Shared(0, {}, {}, {}, {})
    BY DEF Shared
  <2>5. Distinct(waitingTasks) /\ KeysApart(waitingTasks) /\ waitingTasks \in Seq(Tasks)
    BY <2>1, NoIds
  <2>6. Shared(enqueued, Queue!Ids(waitingTasks), Under(stack), ran, replaced)
    BY <2>1, <2>3, <2>4, NoIds
  <2>7. stack \in Seq(Frames) /\ Apart(stack) /\ scheduled \in BOOLEAN /\ enqueued \in 0..MaxTasks
    <3>1. Apart(stack) /\ stack \in Seq(Frames)
      <4>1. stack = <<>>
        BY <2>1
      <4> QED
        BY <2>2, <2>3, <4>1, Zenon
    <3>2. 0 \in 0..MaxTasks
      OBVIOUS
    <3> QED
      BY <2>1, <3>1, <3>2
  <2> QED
    BY <2>1, <2>5, <2>6, <2>7, QueueInvIs
<1>2. ASSUME QueueInv, Queue!QueueNext
      PROVE  QueueInv'
  <2> DEFINE W == Queue!Ids(waitingTasks)
             U == Under(stack)
  <2>1. /\ waitingTasks \in Seq(Tasks) /\ Distinct(waitingTasks) /\ KeysApart(waitingTasks)
        /\ stack \in Seq(Frames) /\ Apart(stack)
        /\ scheduled \in BOOLEAN /\ enqueued \in 0..MaxTasks
        /\ Shared(enqueued, W, U, ran, replaced)
        /\ waitingTasks # <<>> => scheduled \/ stack # <<>>
    BY <1>2, QueueInvIs
  <2>2. U \cap W = {} /\ W \subseteq 1..enqueued /\ U \subseteq 1..enqueued
    BY <2>1 DEF Shared
  <2>3. ASSUME NEW k \in TaskKeys, NEW sync \in BOOLEAN, Queue!Enqueue(k, sync)
        PROVE  QueueInv'
    <3> DEFINE n == enqueued + 1
               t == Queue!Task(k, n)
               q == Queue!Put(waitingTasks, t)
    <3>1. n \in 1..MaxTasks /\ n \notin 1..enqueued /\ 1..n = 1..enqueued \cup {n} /\ enqueued' = n
      BY <2>1, <2>3 DEF Queue!Enqueue
    <3> HIDE DEF n
    <3>2. t \in Tasks /\ t.id = n
      BY <3>1 DEF Tasks, Queue!Task
    <3> HIDE DEF t
    <3>3. /\ q \in Seq(Tasks) /\ Distinct(q) /\ KeysApart(q)
          /\ n \in Queue!Ids(q) /\ Queue!Ids(q) \subseteq W \cup {n}
      BY <2>1, <2>2, <3>1, <3>2, PutIs
    <3>4. replaced' = replaced \cup (W \ Queue!Ids(q)) /\ ran' = ran
      BY <2>3 DEF Queue!Enqueue, t, n
    <3>5. IF sync THEN Queue!Starts(q, TRUE) /\ scheduled' = scheduled
                  ELSE waitingTasks' = q /\ scheduled' = TRUE /\ stack' = stack
      BY <2>3 DEF Queue!Enqueue, t, n
    <3> HIDE DEF q
    <3>6. U \cap Queue!Ids(q) = {}
      BY <2>2, <3>1, <3>3
    <3>7. /\ waitingTasks' \in Seq(Tasks) /\ Distinct(waitingTasks') /\ KeysApart(waitingTasks')
          /\ stack' \in Seq(Frames) /\ Apart(stack') /\ scheduled' \in BOOLEAN
          /\ Queue!Ids(waitingTasks') \cup Under(stack') = Queue!Ids(q) \cup U
          /\ Queue!Ids(waitingTasks') \cap Under(stack') = {}
          /\ scheduled' \/ stack' # <<>>
      <4>1. CASE sync = TRUE
        BY <2>1, <3>3, <3>5, <3>6, <4>1, StartsIs
      <4>2. CASE sync = FALSE
        BY <2>1, <3>3, <3>5, <3>6, <4>2
      <4> QED
        BY <4>1, <4>2
    <3>8. Shared(n, Queue!Ids(waitingTasks'), Under(stack'), ran', replaced')
      BY <2>1, <3>1, <3>3, <3>4, <3>6, <3>7 DEF Shared
    <3> QED
      BY <2>1, <3>1, <3>7, <3>8, QueueInvNext
  <2>4. ASSUME Queue!Flush
        PROVE  QueueInv'
    <3>1. Queue!Starts(waitingTasks, TRUE)
      BY <2>4 DEF Queue!Flush
    <3>2. scheduled' = scheduled /\ enqueued' = enqueued /\ ran' = ran /\ replaced' = replaced
      BY <2>4 DEF Queue!Flush
    <3>3. /\ waitingTasks' \in Seq(Tasks) /\ Distinct(waitingTasks') /\ KeysApart(waitingTasks')
          /\ stack' \in Seq(Frames) /\ Apart(stack') /\ stack' # <<>>
          /\ Queue!Ids(waitingTasks') \cup Under(stack') = W \cup U
          /\ Queue!Ids(waitingTasks') \cap Under(stack') = {}
      BY <2>1, <2>2, <3>1, StartsIs
    <3>4. Shared(enqueued', Queue!Ids(waitingTasks'), Under(stack'), ran', replaced')
      BY <2>1, <3>2, <3>3 DEF Shared
    <3> QED
      BY <2>1, <3>2, <3>3, <3>4, QueueInvNext
  <2>5. ASSUME Queue!Callback
        PROVE  QueueInv'
    <3>1. Queue!Starts(waitingTasks, FALSE)
      BY <2>5 DEF Queue!Callback
    <3>2. scheduled' = FALSE /\ enqueued' = enqueued /\ ran' = ran /\ replaced' = replaced
      BY <2>5 DEF Queue!Callback
    <3>3. /\ waitingTasks' \in Seq(Tasks) /\ Distinct(waitingTasks') /\ KeysApart(waitingTasks')
          /\ stack' \in Seq(Frames) /\ Apart(stack') /\ stack' # <<>>
          /\ Queue!Ids(waitingTasks') \cup Under(stack') = W \cup U
          /\ Queue!Ids(waitingTasks') \cap Under(stack') = {}
      BY <2>1, <2>2, <3>1, StartsIs
    <3>4. Shared(enqueued', Queue!Ids(waitingTasks'), Under(stack'), ran', replaced')
      BY <2>1, <3>2, <3>3 DEF Shared
    <3> QED
      BY <2>1, <3>2, <3>3, <3>4, QueueInvNext
  <2> DEFINE top == Queue!Last(stack)
             below == Queue!Front(stack)
             R == Queue!Ids(top.rest)
  <2>6. stack # <<>> =>
            /\ below \in Seq(Frames) /\ Apart(below) /\ top \in Frames /\ Distinct(top.rest)
            /\ R \subseteq U /\ Under(below) = U \ R
    BY <2>1, PopIs
  <2>7. ASSUME NEW f \in Frames, stack # <<>>, stack' = Queue!Top(f), Distinct(f.rest),
               Queue!Ids(f.rest) \cap (U \ R) = {}
        PROVE  /\ stack' \in Seq(Frames) /\ Apart(stack') /\ stack' # <<>>
               /\ Under(stack') = (U \ R) \cup Queue!Ids(f.rest)
    <3>1. stack' = Append(below, f)
      BY <2>1, <2>7, TopIs DEF Queue!Top
    <3>2. below \in Seq(Frames) /\ Apart(below) /\ Under(below) = U \ R
      BY <2>6, <2>7
    <3> HIDE DEF below, U, R
    <3>3. Append(below, f) # <<>>
      BY <3>2, AppendProperties
    <3> QED
      BY <2>7, <3>1, <3>2, <3>3, PushIs
  <2>8. ASSUME Queue!RunTask
        PROVE  QueueInv'
    <3> DEFINE f == [top EXCEPT !.rest = Tail(@), !.inTask = TRUE]
               x == Head(top.rest).id
    <3>1. stack # <<>> /\ top.rest # <<>> /\ stack' = Queue!Top(f) /\ ran' = ran \cup {x}
      BY <2>8 DEF Queue!RunTask
    <3>2. waitingTasks' = waitingTasks /\ scheduled' = scheduled /\ enqueued' = enqueued /\ replaced' = replaced
      BY <2>8 DEF Queue!RunTask
    <3>3. top \in Frames /\ top.rest \in Seq(Tasks) /\ Distinct(top.rest)
      BY <2>6, <3>1 DEF Frames
    <3>4. f \in Frames /\ f.rest = Tail(top.rest)
      <4>1. Tail(top.rest) \in Seq(Tasks)
        BY <3>1, <3>3, RestIs
      <4> QED
        BY <3>3, <4>1 DEF Frames
    <3>5. Distinct(f.rest) /\ Queue!Ids(f.rest) = R \ {x} /\ x \in R
      <4> HIDE DEF f
      <4> QED
        BY <3>1, <3>3, <3>4, RestIs
    <3> HIDE DEF f, x
    <3>6. /\ stack' \in Seq(Frames) /\ Apart(stack') /\ stack' # <<>>
          /\ Under(stack') = (U \ R) \cup Queue!Ids(f.rest)
      <4>1. Queue!Ids(f.rest) \cap (U \ R) = {}
        BY <3>5
      <4> QED
        BY <2>7, <3>1, <3>4, <3>5, <4>1
    <3>7. Under(stack') = U \ {x} /\ x \in U
      <4>1. U \cap W = {} /\ R \subseteq U
        BY <2>2, <2>6, <3>1
      <4> QED
        BY <3>5, <3>6, <4>1
    <3>8. Shared(enqueued', Queue!Ids(waitingTasks'), Under(stack'), ran', replaced')
      BY <2>1, <3>1, <3>2, <3>7 DEF Shared
    <3> QED
      BY <2>1, <3>2, <3>6, <3>8, QueueInvNext
  <2>9. ASSUME Queue!TaskEnds
        PROVE  QueueInv'
    <3> DEFINE f == [top EXCEPT !.inTask = FALSE]
    <3>1. stack # <<>> /\ stack' = Queue!Top(f)
      BY <2>9 DEF Queue!TaskEnds, Queue!InTask
    <3>2. /\ waitingTasks' = waitingTasks /\ scheduled' = scheduled /\ enqueued' = enqueued
          /\ replaced' = replaced /\ ran' = ran
      BY <2>9 DEF Queue!TaskEnds
    <3>3. f \in Frames /\ f.rest = top.rest
      BY <2>6, <3>1 DEF Frames
    <3>4. Distinct(f.rest) /\ Queue!Ids(f.rest) = R
      BY <2>6, <3>1, <3>3
    <3> HIDE DEF f
    <3>5. /\ stack' \in Seq(Frames) /\ Apart(stack') /\ stack' # <<>>
          /\ Under(stack') = (U \ R) \cup Queue!Ids(f.rest)
      <4>1. Queue!Ids(f.rest) \cap (U \ R) = {}
        BY <3>4
      <4> QED
        BY <2>7, <3>1, <3>3, <3>4, <4>1
    <3>6. Under(stack') = U
      BY <2>6, <3>1, <3>4, <3>5
    <3>7. Shared(enqueued', Queue!Ids(waitingTasks'), Under(stack'), ran', replaced')
      BY <2>1, <3>2, <3>6
    <3> QED
      BY <2>1, <3>2, <3>5, <3>7, QueueInvNext
  <2>10. ASSUME Queue!BatchEnds
         PROVE  QueueInv'
    <3>1. /\ stack # <<>> /\ top.rest = <<>>
          /\ enqueued' = enqueued /\ ran' = ran /\ replaced' = replaced
      BY <2>10 DEF Queue!BatchEnds
    <3>2. R = {}
      BY <3>1, NoIds
    <3>3. CASE top.flush /\ waitingTasks # <<>>
      <4> DEFINE b == Queue!Batch(waitingTasks)
                 f == [top EXCEPT !.rest = b, !.taken = b]
      <4>1. stack' = Queue!Top(f) /\ waitingTasks' = Queue!Remaining(waitingTasks) /\ scheduled' = scheduled
        BY <2>10, <3>3 DEF Queue!BatchEnds
      <4>2. /\ b \in Seq(Tasks) /\ waitingTasks' \in Seq(Tasks)
            /\ Distinct(b) /\ Distinct(waitingTasks') /\ KeysApart(waitingTasks')
            /\ Queue!Ids(b) \cup Queue!Ids(waitingTasks') = W
            /\ Queue!Ids(b) \cap Queue!Ids(waitingTasks') = {}
        BY <2>1, <4>1, BatchIs
      <4> HIDE DEF b
      <4>3. f \in Frames /\ f.rest = b
        BY <2>6, <3>1, <4>2 DEF Frames
      <4> HIDE DEF f
      <4>4. /\ stack' \in Seq(Frames) /\ Apart(stack') /\ stack' # <<>>
            /\ Under(stack') = (U \ R) \cup Queue!Ids(f.rest)
        <5>1. Queue!Ids(f.rest) \cap (U \ R) = {} /\ Distinct(f.rest)
          BY <2>2, <4>2, <4>3
        <5> QED
          BY <2>7, <3>1, <4>1, <4>3, <5>1
      <4>5. Under(stack') = U \cup Queue!Ids(b)
        BY <3>2, <4>3, <4>4
      <4>6. Shared(enqueued', Queue!Ids(waitingTasks'), Under(stack'), ran', replaced')
        BY <2>1, <2>2, <3>1, <4>2, <4>5 DEF Shared
      <4> QED
        BY <2>1, <3>1, <4>1, <4>2, <4>4, <4>6, QueueInvNext
    <3>4. CASE ~(top.flush /\ waitingTasks # <<>>)
      <4>1. /\ stack' = below /\ waitingTasks' = waitingTasks
            /\ scheduled' = (scheduled \/ (~top.flush /\ waitingTasks # <<>>))
        BY <2>10, <3>4 DEF Queue!BatchEnds
      <4>2. below \in Seq(Frames) /\ Apart(below) /\ Under(below) = U
        BY <2>6, <3>1, <3>2
      <4>3. top.flush \in BOOLEAN
        BY <2>6, <3>1 DEF Frames
      <4>4. waitingTasks' # <<>> => scheduled' = TRUE
        BY <2>1, <3>4, <4>1, <4>3
      <4>5. scheduled' \in BOOLEAN
        BY <4>1
      <4>6. Shared(enqueued', Queue!Ids(waitingTasks'), Under(stack'), ran', replaced')
        BY <2>1, <3>1, <4>1, <4>2
      <4> QED
        BY <2>1, <3>1, <4>1, <4>2, <4>4, <4>5, <4>6, QueueInvNext
    <3> QED
      BY <3>3, <3>4
  <2> QED
    BY <1>2, <2>3, <2>4, <2>5, <2>8, <2>9, <2>10 DEF Queue!QueueNext
<1>3. ASSUME QueueInv, UNCHANGED queueVars
      PROVE  QueueInv'
  <2>1. /\ waitingTasks' = waitingTasks /\ scheduled' = scheduled /\ stack' = stack
        /\ enqueued' = enqueued /\ ran' = ran /\ replaced' = replaced
    BY <1>3 DEF queueVars
  <2> QED
    BY <1>3, <2>1, QueueInvIs, QueueInvNext
<1> QED
  BY <1>1, <1>2, <1>3
-----------------------------------------------------------------------------
(* The scheduler that destroys units *)

(* A non-empty set of natural numbers has a least element.                 *)
LessThan == OpToRel(<, Nat)

LEMMA LessThanMeaning == \A m, n \in Nat : m < n => <<m, n>> \in LessThan
  BY DEF LessThan, OpToRel

LEMMA LeastNatural ==
    ASSUME NEW T \in SUBSET Nat, T # {}
    PROVE  \E t \in T : \A u \in T : t <= u
<1>1. IsWellFoundedOn(LessThan, Nat)
  BY NatLessThanWellFounded, Zenon DEF LessThan
<1>2. PICK t \in T : \A u \in T : <<u, t>> \notin LessThan
  BY <1>1, WFMin
<1>3. \A u \in T : ~(u < t)
  BY <1>2, LessThanMeaning, Zenon
<1>4. \A u \in T : t <= u
  BY <1>3, SMT
<1> QED
  BY <1>4

(* The timeout is not set, or set for a plan, and none is due before it. *)
Least(p, m) ==
    /\ m \in 0..Plans!Never
    /\ \A u \in PlannedUnits : m <= p[u]
    /\ m = Plans!Never \/ \E u \in PlannedUnits : p[u] = m

LEMMA EarliestIsLeast ==
    ASSUME MaxDelay \in Nat, MaxTime \in Nat, NEW p \in [PlannedUnits -> 0..Plans!Never], NEW m
    PROVE  m = Plans!Earliest(p) <=> Least(p, m)
<1> DEFINE T == {p[u] : u \in PlannedUnits} \cup {Plans!Never}
<1>1. T \in SUBSET Nat /\ T # {} /\ Plans!Never \in Nat /\ \A t \in T : t \in 0..Plans!Never
  BY DEF Plans!Never
<1>2. Plans!Earliest(p) = CHOOSE t \in T : \A u \in T : t <= u
  BY DEF Plans!Earliest, Plans!Min
<1> HIDE DEF T
<1>3. \E t \in T : \A u \in T : t <= u
  BY <1>1, LeastNatural
<1>4. Plans!Earliest(p) \in T /\ \A u \in T : Plans!Earliest(p) <= u
  BY <1>2, <1>3
<1>5. Least(p, Plans!Earliest(p))
  BY <1>1, <1>4 DEF Least, T
<1>6. ASSUME Least(p, m)
      PROVE  m = Plans!Earliest(p)
  <2>1. m \in T /\ \A t \in T : m <= t
    BY <1>1, <1>6 DEF Least, T
  <2>2. m <= Plans!Earliest(p) /\ Plans!Earliest(p) <= m /\ m \in Nat /\ Plans!Earliest(p) \in Nat
    BY <1>1, <1>4, <2>1
  <2> QED
    BY <2>2
<1> QED
  BY <1>5, <1>6

PlansInv ==
    /\ Plans!DestroyTypeOK /\ Plans!PlansAreSwept
    /\ inSweep \/ stranded => sweepAt = Plans!Never
    /\ ~(inSweep /\ stranded)

(* Clearing a plan leaves the timeout right, when it was. *)
LEMMA SweepOfIs ==
    ASSUME MaxDelay \in Nat, MaxTime \in Nat, NEW u \in PlannedUnits,
           plans \in [PlannedUnits -> 0..Plans!Never], Least(plans, sweepAt)
    PROVE  Least(Plans!Cleared(u), Plans!SweepOf(u))
<1> DEFINE c == Plans!Cleared(u)
<1>1. /\ c \in [PlannedUnits -> 0..Plans!Never] /\ c[u] = Plans!Never
      /\ \A v \in PlannedUnits : v # u => c[v] = plans[v]
  BY DEF Plans!Cleared, Plans!Never
<1> HIDE DEF c
<1>2. CASE plans[u] # Plans!Never /\ plans[u] = sweepAt
  BY <1>1, <1>2, EarliestIsLeast DEF Plans!SweepOf, c
<1>3. CASE ~(plans[u] # Plans!Never /\ plans[u] = sweepAt)
  <2>1. Plans!SweepOf(u) = sweepAt
    BY <1>3 DEF Plans!SweepOf
  <2>2. \A v \in PlannedUnits : sweepAt <= c[v]
    BY <1>1 DEF Least
  <2>3. sweepAt = Plans!Never \/ \E v \in PlannedUnits : c[v] = sweepAt
    BY <1>1, <1>3 DEF Least
  <2> QED
    BY <2>1, <2>2, <2>3 DEF Least, c
<1> QED
  BY <1>2, <1>3

LEMMA PlansSteps ==
    ASSUME MaxDelay \in Nat, MaxTime \in Nat
    PROVE  /\ Plans!DestroyInit => PlansInv
           /\ PlansInv /\ Plans!DestroyNext => PlansInv'
           /\ PlansInv /\ UNCHANGED planVars => PlansInv'
<1> DEFINE N == Plans!Never
<1>0. N \in Nat /\ MaxTime < N /\ \A t \in 0..MaxTime, d \in 0..MaxDelay : t + d \in 0..N /\ t + d # N /\ t + d < N
  BY DEF Plans!Never
<1>1. Plans!DestroyInit => PlansInv
  <2> SUFFICES ASSUME Plans!DestroyInit
               PROVE  PlansInv
    OBVIOUS
  <2>1. /\ now = 0 /\ plans = [u \in PlannedUnits |-> N] /\ sweepAt = N
        /\ sweeping = {} /\ inSweep = FALSE /\ stranded = FALSE
    BY DEF Plans!DestroyInit
  <2>2. plans \in [PlannedUnits -> 0..N] /\ Least(plans, N)
    BY <1>0, <2>1 DEF Least
  <2>3. sweepAt = Plans!Earliest(plans)
    BY <2>1, <2>2, EarliestIsLeast
  <2>4. Plans!DestroyTypeOK
    <3>1. 0 \in 0..MaxTime /\ N \in 0..N
      BY <1>0
    <3> QED
      BY <2>1, <2>2, <3>1 DEF Plans!DestroyTypeOK
  <2> QED
    BY <2>1, <2>3, <2>4 DEF PlansInv, Plans!PlansAreSwept
<1>2. ASSUME PlansInv, Plans!DestroyNext
      PROVE  PlansInv'
  <2>1. /\ now \in 0..MaxTime /\ plans \in [PlannedUnits -> 0..N] /\ sweepAt \in 0..N
        /\ sweeping \subseteq PlannedUnits /\ inSweep \in BOOLEAN /\ stranded \in BOOLEAN
        /\ inSweep \/ stranded => sweepAt = N
        /\ ~(inSweep /\ stranded)
    BY <1>2 DEF PlansInv, Plans!DestroyTypeOK
  <2>2. ~inSweep /\ ~stranded => Least(plans, sweepAt)
    BY <1>2, <2>1, EarliestIsLeast DEF PlansInv, Plans!PlansAreSwept
  <2>3. ASSUME now' \in 0..MaxTime, plans' \in [PlannedUnits -> 0..N], sweepAt' \in 0..N,
               sweeping' \subseteq PlannedUnits, inSweep' \in BOOLEAN, stranded' \in BOOLEAN,
               inSweep' \/ stranded' => sweepAt' = N, ~(inSweep' /\ stranded'),
               ~inSweep' /\ ~stranded' => Least(plans', sweepAt')
        PROVE  PlansInv'
    <3>1. ~inSweep' /\ ~stranded' => sweepAt' = Plans!Earliest(plans')
      BY <2>3, EarliestIsLeast
    <3>2. Plans!DestroyTypeOK'
      BY <2>3 DEF Plans!DestroyTypeOK
    <3> QED
      BY <2>3, <3>1, <3>2 DEF PlansInv, Plans!PlansAreSwept, Plans!Earliest
  <2>4. CASE Plans!Tick
    BY <2>1, <2>2, <2>3, <2>4 DEF Plans!Tick
  <2>5. CASE Plans!Sweep
    BY <1>0, <2>1, <2>2, <2>3, <2>5 DEF Plans!Sweep
  <2>6. CASE Plans!SweepEnds
    <3>1. /\ inSweep' = FALSE /\ sweepAt' = Plans!Earliest(plans) /\ now' = now /\ plans' = plans
          /\ sweeping' = sweeping /\ stranded' = stranded /\ inSweep
      BY <2>6 DEF Plans!SweepEnds
    <3>2. Least(plans, sweepAt')
      BY <2>1, <3>1, EarliestIsLeast
    <3> QED
      BY <2>1, <2>3, <3>1, <3>2 DEF Least
  <2>7. ASSUME NEW u \in PlannedUnits, Plans!Clear(u)
        PROVE  PlansInv'
    <3>1. /\ ~inSweep /\ plans[u] # N /\ plans' = Plans!Cleared(u) /\ sweepAt' = Plans!SweepOf(u)
          /\ now' = now /\ sweeping' = sweeping /\ inSweep' = inSweep /\ stranded' = stranded
      BY <2>7 DEF Plans!Clear
    <3>2. plans' \in [PlannedUnits -> 0..N]
      BY <1>0, <2>1, <3>1 DEF Plans!Cleared
    <3>3. CASE stranded
      <4>1. sweepAt' = N
        BY <2>1, <3>1, <3>3 DEF Plans!SweepOf
      <4> QED
        BY <1>0, <2>1, <2>3, <3>1, <3>2, <3>3, <4>1
    <3>4. CASE ~stranded
      <4>1. Least(plans', sweepAt')
        BY <2>1, <2>2, <3>1, <3>4, SweepOfIs
      <4> QED
        BY <2>1, <2>3, <3>1, <3>2, <3>4, <4>1 DEF Least
    <3> QED
      BY <3>3, <3>4
  <2>8. ASSUME NEW u \in PlannedUnits, NEW delay \in 0..MaxDelay, Plans!Schedule(u, delay)
        PROVE  PlansInv'
    <3> DEFINE c == Plans!Cleared(u)
               x == IF delay = 0 THEN N ELSE now + delay
    <3>1. ~inSweep /\ now' = now /\ sweeping' = sweeping /\ inSweep' = inSweep
      BY <2>8 DEF Plans!Schedule
    <3>10. stranded' = (stranded /\ delay = 0)
      BY <2>8 DEF Plans!Schedule
    <3>11. plans' = [c EXCEPT ![u] = x]
      BY <2>8 DEF Plans!Schedule
    <3>12. /\ delay # 0 /\ now + delay < Plans!SweepOf(u) => sweepAt' = Plans!Earliest(plans')
           /\ ~(delay # 0 /\ now + delay < Plans!SweepOf(u)) => sweepAt' = Plans!SweepOf(u)
      BY <2>8 DEF Plans!Schedule
    <3>2. c \in [PlannedUnits -> 0..N] /\ c[u] = N
      BY <1>0, <2>1 DEF Plans!Cleared
    <3>3. x \in 0..N /\ (x = N <=> delay = 0) /\ (x # N => x = now + delay /\ x < N)
      BY <1>0, <2>1
    <3>4. ~stranded => Least(c, Plans!SweepOf(u))
      BY <2>1, <2>2, <3>1, SweepOfIs
    <3>5. stranded => Plans!SweepOf(u) = N
      BY <2>1 DEF Plans!SweepOf
    <3> HIDE DEF c, x
    <3>6. plans' \in [PlannedUnits -> 0..N] /\ plans'[u] = x /\ \A v \in PlannedUnits : v # u => plans'[v] = c[v]
      BY <3>2, <3>3, <3>11
    <3>7. CASE delay # 0 /\ x < Plans!SweepOf(u)
      <4>1. sweepAt' = Plans!Earliest(plans')
        BY <3>3, <3>7, <3>12
      <4>2. Least(plans', sweepAt')
        BY <3>6, <4>1, EarliestIsLeast
      <4> QED
        BY <2>1, <2>3, <3>1, <3>6, <3>7, <3>10, <4>2 DEF Least
    <3>8. CASE delay # 0 /\ ~(x < Plans!SweepOf(u))
      <4>1. sweepAt' = Plans!SweepOf(u) /\ ~stranded
        BY <3>3, <3>5, <3>8, <3>12
      <4>2. Least(plans', sweepAt')
        <5>1. sweepAt' \in 0..N /\ sweepAt' <= x /\ \A v \in PlannedUnits : sweepAt' <= c[v]
          BY <1>0, <3>3, <3>4, <3>8, <4>1 DEF Least
        <5>2. sweepAt' = N \/ \E v \in PlannedUnits : v # u /\ c[v] = sweepAt'
          BY <3>2, <3>4, <4>1 DEF Least
        <5> QED
          BY <3>6, <5>1, <5>2 DEF Least
      <4> QED
        BY <2>1, <2>3, <3>1, <3>6, <3>8, <3>10, <4>1, <4>2 DEF Least
    <3>9. CASE delay = 0
      <4>1. plans' = c /\ sweepAt' = Plans!SweepOf(u) /\ stranded' = stranded
        <5>1. [c EXCEPT ![u] = N] = c
          BY <3>2
        <5> QED
          BY <2>1, <3>3, <3>9, <3>10, <3>11, <3>12, <5>1
      <4>2. CASE stranded
        BY <1>0, <2>1, <2>3, <3>1, <3>5, <3>6, <4>1, <4>2
      <4>3. CASE ~stranded
        BY <2>1, <2>3, <3>1, <3>4, <3>6, <4>1, <4>3 DEF Least
      <4> QED
        BY <4>2, <4>3
    <3> QED
      BY <3>7, <3>8, <3>9
  <2>9. ASSUME NEW u \in PlannedUnits, Plans!Destroy(u) \/ Plans!DestroyThrows(u)
        PROVE  PlansInv'
    <3>1. inSweep /\ plans' = Plans!Cleared(u) /\ now' = now /\ sweepAt' = sweepAt /\ sweeping' \subseteq sweeping
      BY <2>9 DEF Plans!Destroy, Plans!DestroyThrows
    <3>2. \/ inSweep' = inSweep /\ stranded' = stranded
          \/ inSweep' = FALSE /\ stranded' = TRUE
      BY <2>9 DEF Plans!Destroy, Plans!DestroyThrows
    <3>3. plans' \in [PlannedUnits -> 0..N]
      BY <1>0, <2>1, <3>1 DEF Plans!Cleared
    <3> QED
      BY <2>1, <2>3, <3>1, <3>2, <3>3
  <2> QED
    BY <1>2, <2>4, <2>5, <2>6, <2>7, <2>8, <2>9 DEF Plans!DestroyNext, Plans!Delays
<1>3. ASSUME PlansInv, UNCHANGED planVars
      PROVE  PlansInv'
  BY <1>3 DEF planVars, PlansInv, Plans!DestroyTypeOK, Plans!PlansAreSwept, Plans!Earliest
<1> QED
  BY <1>1, <1>2, <1>3
-----------------------------------------------------------------------------
(* The parts side by side *)

(* One part acts, and the same one always. *)
LEMMA OnePart ==
    ASSUME [MCNext]_supportVars
    PROVE  /\ part' = part
           /\ part = "storage" => [Next]_vars
           /\ part = "index" => Index!IndexNext \/ UNCHANGED indexVars
           /\ part = "queue" => Queue!QueueNext \/ UNCHANGED queueVars
           /\ part = "plans" => Plans!DestroyNext \/ UNCHANGED planVars
           /\ part = "caches" => Caches!KeysNext \/ UNCHANGED keyVars
           /\ part = "rooms" => Heard!EventsNext \/ UNCHANGED eventVars
           /\ part = "wire" => Wire!ExchangeNext \/ UNCHANGED wireVars
<1>1. CASE UNCHANGED supportVars
  BY <1>1 DEF supportVars, keptVars, sentVars, toolVars
<1>2. CASE StorageNext /\ UNCHANGED <<part, keptVars, sentVars, toolVars>>
  BY <1>2 DEF StorageNext
<1>3. CASE KeptNext /\ UNCHANGED <<part, vars, sentVars, toolVars>>
  BY <1>3 DEF KeptNext
<1>4. CASE SentNext /\ UNCHANGED <<part, vars, keptVars, toolVars>>
  BY <1>4 DEF SentNext
<1>5. CASE ToolNext /\ UNCHANGED <<part, vars, keptVars, sentVars>>
  BY <1>5 DEF ToolNext, keptVars, sentVars
<1> QED
  BY <1>1, <1>2, <1>3, <1>4, <1>5 DEF MCNext

(* No work that is put off is forgotten: writes of the cache storage, tasks
   of the runtime queue, planned destructions.                             *)
THEOREM WorkIsNeverForgotten == MCSpec => []NothingScheduledIsLost
<1> DEFINE Inv == /\ part = "storage" => TypeOK /\ PendingWorkIsScheduled
                  /\ part = "queue" => QueueInv
                  /\ part = "plans" => PlansInv
<1>0. BatchSize \in Nat \ {0} /\ MaxTasks \in Nat /\ MaxDelay \in Nat /\ MaxTime \in Nat
  BY SupportConstants DEF Queue!QueueConstants, Plans!DestroyConstants
<1>1. MCInit => Inv
  <2> SUFFICES ASSUME MCInit
               PROVE  Inv
    OBVIOUS
  <2>1. Init /\ Queue!QueueInit /\ Plans!DestroyInit
    BY DEF MCInit
  <2> QED
    BY <1>0, <2>1, TypeSteps, PendingSteps, QueueSteps, PlansSteps
<1>2. Inv /\ [MCNext]_supportVars => Inv'
  <2> SUFFICES ASSUME Inv, [MCNext]_supportVars
               PROVE  Inv'
    OBVIOUS
  <2>1. part' = part
    BY OnePart
  <2>2. part = "storage" => TypeOK' /\ PendingWorkIsScheduled'
    BY OnePart, TypeSteps, PendingSteps
  <2>3. part = "queue" => QueueInv'
    BY <1>0, OnePart, QueueSteps
  <2>4. part = "plans" => PlansInv'
    BY <1>0, OnePart, PlansSteps
  <2> QED
    BY <2>1, <2>2, <2>3, <2>4
<1>3. Inv => NothingScheduledIsLost
  BY DEF NothingScheduledIsLost, QueueInv, PlansInv
<1> QED
  BY <1>1, <1>2, <1>3, PTL DEF MCSpec

(* What is limited keeps what was used last, and no more than the limit. *)
THEOREM LimitsAreKept == MCSpec => []CachesKeepRecent
<1> DEFINE Inv == /\ part = "index" => IndexInv
                  /\ part = "caches" => KeysInv
<1>0. MaxEntries \in Nat \ {0} /\ MaxSessions \in Nat \ {0} /\ Limit \in Nat \ {0} /\ None \notin EntryKeys
  BY SupportConstants DEF Index!IndexConstants, Caches!KeyCachesConstants
<1>1. MCInit => Inv
  <2> SUFFICES ASSUME MCInit
               PROVE  Inv
    OBVIOUS
  <2>1. Index!IndexInit /\ Caches!KeysInit
    BY DEF MCInit
  <2> QED
    BY <1>0, <2>1, IndexSteps, KeysSteps
<1>2. Inv /\ [MCNext]_supportVars => Inv'
  <2> SUFFICES ASSUME Inv, [MCNext]_supportVars
               PROVE  Inv'
    OBVIOUS
  <2>1. part' = part
    BY OnePart
  <2>2. part = "index" => IndexInv'
    BY <1>0, OnePart, IndexSteps
  <2>3. part = "caches" => KeysInv'
    BY <1>0, OnePart, KeysSteps
  <2> QED
    BY <2>1, <2>2, <2>3
<1>3. Inv => CachesKeepRecent
  <2>1. IndexInv => Index!IndexTypeOK /\ Index!LimitHeldByCurrentCopies
    BY IndexOperators DEF IndexInv, Lists, Index!LimitHeldByCurrentCopies
  <2>2. ASSUME KeysInv
        PROVE  Len(recent) <= Limit
    <3>1. CASE cache = "object"
      <4> DEFINE first == Caches!Kept(slots.previous)
                 second == Caches!Kept(slots.latest)
      <4>1. /\ first \in Seq(EntryKeys) /\ second \in Seq(EntryKeys)
            /\ Len(first) \in 0..1 /\ Len(second) \in 0..1
        BY <2>2, EmptyList DEF KeysInv, Caches!KeysTypeOK, Caches!Kept
      <4>2. recent = first \o second /\ Limit = 2
        BY <2>2, <3>1 DEF KeysInv, Caches!HoldsWhatWasUsed
      <4> HIDE DEF first, second
      <4>3. Len(first \o second) = Len(first) + Len(second)
        BY <4>1, ConcatProperties
      <4> QED
        BY <4>1, <4>2, <4>3
    <3>2. CASE cache # "object"
      <4>1. order \in Seq(EntryKeys) /\ recent = Lasts(order, Limit)
        BY <2>2, <3>2, LastOfIs DEF KeysInv, Caches!HoldsWhatWasUsed
      <4>2. Len(order) \in Nat
        BY <4>1, LenProperties
      <4>3. Len(recent) = Smaller(Len(order), Limit)
        <5>1. Limit \in Nat
          BY <1>0
        <5> QED
          BY Zenon, <4>1, <5>1, LastsAre
      <4> QED
        BY <1>0, <4>2, <4>3 DEF Smaller
    <3> QED
      BY <3>1, <3>2
  <2> QED
    BY <2>1, <2>2 DEF CachesKeepRecent, KeysInv, Caches!HoldsRecentKeys
<1> QED
  BY <1>1, <1>2, <1>3, PTL DEF MCSpec

-----------------------------------------------------------------------------
(* The client's subscriptions *)

(* A handler is wanted until it is switched off. *)
RoomsInv ==
    /\ Heard!EventsTypeOK /\ Heard!EventsAreHeard
    /\ listening \in [Heard!Places -> [EventTopics -> Handlers \cup {Nobody}]]
    /\ \A p \in Heard!Places, t \in EventTopics :
           listening[p][t] = IF enabled[p][t] = "off" THEN Nobody ELSE handler[p][t]

LEMMA RoomsSteps ==
    /\ Heard!EventsInit => RoomsInv
    /\ RoomsInv /\ Heard!EventsNext => RoomsInv'
    /\ RoomsInv /\ UNCHANGED eventVars => RoomsInv'
<1>1. Heard!EventsInit => RoomsInv
  BY DEF Heard!EventsInit, RoomsInv, Heard!EventsTypeOK, Heard!EventsAreHeard
<1>2. ASSUME RoomsInv, Heard!EventsNext
      PROVE  RoomsInv'
  <2>1. /\ handler \in [Heard!Places -> [EventTopics -> Handlers \cup {Nobody}]]
        /\ enabled \in [Heard!Places -> [EventTopics -> {"unset", "on", "off"}]]
        /\ listening \in [Heard!Places -> [EventTopics -> Handlers \cup {Nobody}]]
        /\ \A p \in Heard!Places, t \in EventTopics :
               listening[p][t] = IF enabled[p][t] = "off" THEN Nobody ELSE handler[p][t]
    BY <1>2 DEF RoomsInv, Heard!EventsTypeOK
  <2>2. ASSUME NEW p \in Heard!Places, NEW topics \in SUBSET EventTopics, Heard!Register(p, topics)
        PROVE  RoomsInv'
    <3>1. PICK h \in Handlers :
              /\ handler' = [handler EXCEPT ![p] = [t \in EventTopics |-> IF t \in topics THEN h ELSE handler[p][t]]]
              /\ listening' = [listening EXCEPT ![p] = [t \in EventTopics |-> IF t \in topics THEN h ELSE listening[p][t]]]
      BY <2>2 DEF Heard!Register
    <3>2. /\ enabled' = [enabled EXCEPT ![p] = [t \in EventTopics |-> IF t \in topics THEN "on" ELSE enabled[p][t]]]
          /\ event' = Heard!NoEvent
      BY <2>2 DEF Heard!Register
    <3>3. /\ handler' \in [Heard!Places -> [EventTopics -> Handlers \cup {Nobody}]]
          /\ enabled' \in [Heard!Places -> [EventTopics -> {"unset", "on", "off"}]]
          /\ listening' \in [Heard!Places -> [EventTopics -> Handlers \cup {Nobody}]]
      BY <2>1, <3>1, <3>2
    <3>4. ASSUME NEW x \in Heard!Places, NEW t \in EventTopics
          PROVE  listening'[x][t] = IF enabled'[x][t] = "off" THEN Nobody ELSE handler'[x][t]
      BY <2>1, <3>1, <3>2
    <3> QED
      BY <3>2, <3>3, <3>4 DEF RoomsInv, Heard!EventsTypeOK, Heard!EventsAreHeard
  <2>3. ASSUME NEW p \in Heard!Places, NEW t \in EventTopics, NEW on \in BOOLEAN, Heard!Toggle(p, t, on)
        PROVE  RoomsInv'
    <3>1. /\ enabled' = [enabled EXCEPT ![p][t] = IF on THEN "on" ELSE "off"]
          /\ listening' = [listening EXCEPT ![p][t] = IF on THEN handler[p][t] ELSE Nobody]
          /\ handler' = handler /\ event' = Heard!NoEvent
      BY <2>3 DEF Heard!Toggle
    <3>2. /\ enabled' \in [Heard!Places -> [EventTopics -> {"unset", "on", "off"}]]
          /\ listening' \in [Heard!Places -> [EventTopics -> Handlers \cup {Nobody}]]
      BY <2>1, <3>1
    <3>3. ASSUME NEW x \in Heard!Places, NEW y \in EventTopics
          PROVE  listening'[x][y] = IF enabled'[x][y] = "off" THEN Nobody ELSE handler'[x][y]
      BY <2>1, <3>1
    <3> QED
      BY <2>1, <3>1, <3>2, <3>3 DEF RoomsInv, Heard!EventsTypeOK, Heard!EventsAreHeard
  <2>4. ASSUME NEW t \in EventTopics, NEW room \in Heard!Places, Heard!Dispatch(t, room)
        PROVE  RoomsInv'
    <3>1. /\ event' = [topic |-> t, room |-> room]
          /\ handler' = handler /\ enabled' = enabled /\ listening' = listening
          /\ heard' = {[at |-> p, by |-> handler[p][t]] : p \in {q \in {room, Heard!Everywhere} : Heard!Hears(q, t)}}
      BY <2>4 DEF Heard!Dispatch
    <3>2. \A q \in Heard!Places : /\ Heard!Hears(q, t) <=> listening[q][t] # Nobody
                                  /\ Heard!Hears(q, t) => handler[q][t] = listening[q][t]
      BY <2>1 DEF Heard!Hears
    <3>3. {room, Heard!Everywhere} \subseteq Heard!Places
      BY DEF Heard!Places
    <3>4. heard' = {[at |-> p, by |-> listening'[p][t]] : p \in {q \in {room, Heard!Everywhere} : listening'[q][t] # Nobody}}
      BY <3>1, <3>2, <3>3
    <3>5. event'.topic = t /\ event'.room = room
      BY <3>1
    <3>6. Heard!EventsAreHeard'
      BY <3>4, <3>5 DEF Heard!EventsAreHeard
    <3> QED
      BY <2>1, <3>1, <3>6 DEF RoomsInv, Heard!EventsTypeOK
  <2> QED
    BY <1>2, <2>2, <2>3, <2>4 DEF Heard!EventsNext
<1>3. RoomsInv /\ UNCHANGED eventVars => RoomsInv'
  BY DEF RoomsInv, eventVars, Heard!EventsTypeOK, Heard!EventsAreHeard
<1> QED
  BY <1>1, <1>2, <1>3

-----------------------------------------------------------------------------
(* The envelopes on their way *)

LEMMA MergeIs ==
    ASSUME NEW base, NEW extra, NEW x
    PROVE  /\ x \in DOMAIN Wire!Merge(base, extra) <=> x \in DOMAIN base \/ x \in DOMAIN extra
           /\ x \in DOMAIN extra => Wire!Merge(base, extra)[x] = extra[x]
           /\ x \in DOMAIN base /\ x \notin DOMAIN extra => Wire!Merge(base, extra)[x] = base[x]
  BY DEF Wire!Merge

(* What a sequence holds. *)
Carried(s) == {s[i] : i \in DOMAIN s}
IsList(s)  == s \in Seq(Carried(s))

LEMMA NothingCarried == IsList(<<>>) /\ Carried(<<>>) = {}
<1>1. DOMAIN <<>> = {}
  BY EmptySeq
<1> QED
  BY <1>1, EmptySeq DEF IsList, Carried

LEMMA AppendCarries ==
    ASSUME NEW s, IsList(s), NEW x
    PROVE  /\ IsList(Append(s, x)) /\ Carried(Append(s, x)) = Carried(s) \cup {x}
           /\ Append(s, x) # <<>>
<1> DEFINE S == Carried(s) \cup {x}
           w == Append(s, x)
<1>1. s \in Seq(S) /\ DOMAIN s = 1..Len(s) /\ Len(s) \in Nat
  <2>1. s \in Seq(Carried(s))
    BY DEF IsList
  <2>2. Len(s) \in Nat /\ s \in [1..Len(s) -> Carried(s)]
    BY <2>1, LenProperties
  <2>3. s \in [1..Len(s) -> S]
    BY <2>2
  <2> HIDE DEF S
  <2> QED
    BY <2>2, <2>3
<1> HIDE DEF S
<1>2. /\ w \in Seq(S) /\ Len(w) = Len(s) + 1 /\ w[Len(s) + 1] = x /\ w # <<>>
      /\ \A i \in 1..Len(s) : w[i] = s[i]
  BY <1>1, AppendProperties DEF S
<1> HIDE DEF w
<1>3. DOMAIN w = 1..(Len(s) + 1) /\ w \in [1..(Len(s) + 1) -> S]
  BY <1>2, LenProperties
<1>4. /\ \A i \in 1..Len(s) : i \in 1..(Len(s) + 1)
      /\ \A i \in 1..(Len(s) + 1) : i = Len(s) + 1 \/ i \in 1..Len(s)
      /\ Len(s) + 1 \in 1..(Len(s) + 1)
  BY <1>1
<1>5. Carried(w) = S
  BY <1>1, <1>2, <1>3, <1>4 DEF Carried, S
<1> QED
  BY <1>2, <1>5 DEF IsList, w, S

LEMMA TailCarries ==
    ASSUME NEW s, IsList(s), s # <<>>
    PROVE  IsList(Tail(s)) /\ Carried(s) = {Head(s)} \cup Carried(Tail(s))
<1> DEFINE S == Carried(s)
           w == Tail(s)
<1>1. s \in Seq(S) /\ DOMAIN s = 1..Len(s) /\ Len(s) \in Nat
  BY LenProperties DEF IsList
<1>2. /\ Head(s) = s[1] /\ w \in Seq(S) /\ Len(w) = Len(s) - 1 /\ Len(s) >= 1
      /\ \A i \in 1..(Len(s) - 1) : w[i] = s[i + 1]
  <2> HIDE DEF S
  <2> QED
    BY <1>1, HeadTailProperties, EmptySeq
<1> HIDE DEF w
<1>3. DOMAIN w = 1..(Len(s) - 1)
  BY <1>2, LenProperties
<1>4. /\ \A i \in 1..(Len(s) - 1) : i + 1 \in 1..Len(s)
      /\ \A i \in 1..Len(s) : i = 1 \/ (i - 1 \in 1..(Len(s) - 1) /\ (i - 1) + 1 = i)
      /\ 1 \in 1..Len(s)
  BY <1>1, <1>2
<1>5. Carried(s) = {s[1]} \cup Carried(w)
  <2>1. \A i \in 1..Len(s) : i = 1 \/ s[i] = w[i - 1]
    BY <1>2, <1>4
  <2>2. ASSUME NEW x \in Carried(s)
        PROVE  x \in {s[1]} \cup Carried(w)
    <3>1. PICK i \in 1..Len(s) : x = s[i]
      BY <1>1, <2>2 DEF Carried
    <3>2. i # 1 => x = w[i - 1] /\ i - 1 \in DOMAIN w
      BY <1>3, <1>4, <2>1, <3>1
    <3> QED
      BY <3>1, <3>2 DEF Carried
  <2>3. \A x \in {s[1]} \cup Carried(w) : x \in Carried(s)
    BY <1>1, <1>2, <1>3, <1>4 DEF Carried
  <2> QED
    BY <2>2, <2>3
<1>6. w \in Seq(Carried(w))
  <2>1. Len(w) \in Nat /\ w \in [1..Len(w) -> S]
    BY <1>2, LenProperties
  <2>2. w \in [1..Len(w) -> Carried(w)]
    BY <2>1 DEF Carried
  <2> QED
    BY <2>1, <2>2
<1> QED
  BY <1>2, <1>5, <1>6 DEF IsList, w

(* What is sent in answer has the id of the request before its own event. *)
LEMMA AnswerId ==
    ASSUME NEW q, NEW c, NEW n, q = <<c, n>>, NEW ev
    PROVE  Append(q, ev)[1] = q[1] /\ Append(q, ev)[2] = q[2]
<1>1. q \in Seq({c, n, ev}) /\ Len(q) = 2
  OBVIOUS
<1> QED
  BY <1>1, AppendProperties

IsEnvelope(e) ==
    e = [id |-> e.id, event |-> e.event, status |-> e.status, metadata |-> e.metadata,
         context |-> e.context, payload |-> e.payload, error |-> e.error]
Correlated(e, q) == "correlationId" \in DOMAIN e.metadata /\ e.metadata["correlationId"] = q

(* An envelope of a request, of those in req; with the context of its client.
   The application's hook is hk.                                           *)
IsRequest(e, req) ==
    /\ IsEnvelope(e) /\ e.id \in DOMAIN req /\ e.event = req[e.id]
    /\ e.payload = <<<<e.event, e.id>>>> /\ Correlated(e, e.id)
KnowsClient(e) == "clientId" \in DOMAIN e.context /\ e.context["clientId"] = <<e.id[1]>>

IsRun(r, req, hk) ==
    /\ r = [env |-> r.env, phase |-> r.phase, topics |-> r.topics]
    /\ IsRequest(r.env, req) /\ KnowsClient(r.env)
    /\ r.phase # "hook" => hk # "refuses"
    /\ r.phase = "publish" =>
           /\ r.env.event \in DOMAIN Published /\ r.topics \in Seq(STRING)
           /\ \A i \in DOMAIN r.topics :
                  \E j \in DOMAIN Published[r.env.event] : r.topics[i] = Published[r.env.event][j]
IsReport(e, req) == IsRequest(e, req) /\ KnowsClient(e) /\ e.error[1].message # <<>>

(* An envelope the server emitted, for the request q: as in the answer, or as
   in its outcome.                                                         *)
IsOwn(e, q, op, hk) ==
    /\ e.payload # <<>> => e.payload[1] = <<e.event, q>> /\ hk # "refuses"
    /\ e.payload = <<>> => e.error = <<Wire!Refusal>>
    /\ e.event = op \/ \E i \in DOMAIN Published[op] : e.event = Published[op][i]
IsAnswer(e, req, hk) ==
    /\ IsEnvelope(e)
    /\ \E q \in DOMAIN req : /\ Correlated(e, q) /\ e.id[1] = q[1] /\ e.id[2] = q[2]
                             /\ IsOwn(e, q, req[q], hk)

AskedInv ==
    /\ IsFiniteSet(DOMAIN requested)
    /\ \A q \in DOMAIN requested :
           q = <<q[1], q[2]>> /\ q[1] \in Askers /\ q[2] \in Nat /\ q[2] < Cardinality(DOMAIN requested)
PendingInv ==
    waiting \subseteq DOMAIN requested /\ DOMAIN outcome \subseteq DOMAIN requested /\ waiting \cap DOMAIN outcome = {}
LettersInv ==
    /\ \A m \in up : IsRequest(m.wire, requested) /\ m.from = m.wire.id[1]
    /\ \A r \in runs : IsRun(r, requested, hook)
    /\ \A e \in reports : IsReport(e, requested)
AnswersInv ==
    /\ down = [c \in Askers |-> down[c]]
    /\ \A c \in Askers : IsList(down[c]) /\ \A e \in Carried(down[c]) : IsAnswer(e, requested, hook)
ArrivalInv ==
    \A id \in emitted :
        /\ <<id[1], id[2]>> \in DOMAIN requested
        /\ \A c \in Askers : \/ <<c, id>> \in delivered
                             \/ \E e \in Carried(down[c]) : e.id = id
                             \/ c = id[1] /\ \E q \in DOMAIN outcome : outcome[q].id = id
        /\ \A q \in waiting : q = <<id[1], id[2]>> => \E e \in Carried(down[q[1]]) : Correlated(e, q)
OutcomeInv == \A q \in DOMAIN outcome : IsOwn(outcome[q], q, requested[q], hook)

WireInv == AskedInv /\ PendingInv /\ LettersInv /\ AnswersInv /\ ArrivalInv /\ OutcomeInv

LEMMA DeliveredIs == WireInv => Wire!Delivered
<1> SUFFICES ASSUME WireInv
             PROVE  Wire!Delivered
  OBVIOUS
<1>1. Wire!RequestsGetTheirOwn
  <2> SUFFICES ASSUME NEW q \in DOMAIN outcome
               PROVE  LET e == outcome[q] IN
                      /\ Wire!IsEnvelopePayload(e) => e.payload[1] = <<e.event, q>> /\ hook # "refuses"
                      /\ ~Wire!IsEnvelopePayload(e) => e.error[1] = Wire!Refusal
                      /\ e.event = requested[q] \/ \E i \in DOMAIN Published[requested[q]] : e.event = Published[requested[q]][i]
    BY DEF Wire!RequestsGetTheirOwn
  <2> QED
    BY DEF WireInv, OutcomeInv, IsOwn, Wire!IsEnvelopePayload
<1>2. Wire!RunsKnowTheirRequest
  BY DEF WireInv, LettersInv, IsRun, IsReport, IsRequest, KnowsClient, Correlated, Wire!RunsKnowTheirRequest
<1>3. Wire!AllIsDelivered
  <2> SUFFICES ASSUME \A c \in Askers : down[c] = <<>>
               PROVE  /\ \A id \in emitted, c \in Askers :
                             \/ <<c, id>> \in delivered
                             \/ c = id[1] /\ \E q \in DOMAIN outcome : outcome[q].id = id
                      /\ \A q \in waiting : ~\E id \in emitted : q = <<id[1], id[2]>>
    BY DEF Wire!AllIsDelivered
  <2>1. \A c \in Askers : Carried(down[c]) = {}
    BY NothingCarried
  <2>2. \A q \in waiting : q[1] \in Askers
    BY DEF WireInv, AskedInv, PendingInv
  <2> QED
    BY <2>1, <2>2 DEF WireInv, ArrivalInv
<1> QED
  BY <1>1, <1>2, <1>3 DEF Wire!Delivered

(* An envelope through the transports and the hooks *)

LEMMA EncodeIs ==
    ASSUME NEW e, IsEnvelope(e)
    PROVE  LET w == Wire!Encode(e) IN
           /\ IsEnvelope(w) /\ w.id = e.id /\ w.event = e.event /\ w.metadata = e.metadata
           /\ w.context = e.context /\ w.payload = e.payload
           /\ e.payload = <<>> => w.error = e.error
  BY DEF Wire!Encode, Wire!IsEnvelopePayload, IsEnvelope

LEMMA DecodeIs ==
    ASSUME NEW e, IsEnvelope(e)
    PROVE  LET w == Wire!Decode(e) IN
           /\ IsEnvelope(w) /\ w.id = e.id /\ w.event = e.event /\ w.metadata = e.metadata
           /\ w.context = e.context /\ w.payload = e.payload
           /\ e.payload # <<>> => w = e
           /\ e.payload = <<>> => w.error = <<Wire!DecodeEventError(e.error[1])>>
  BY DEF Wire!Decode, Wire!IsEnvelopePayload, IsEnvelope

LEMMA RefusalIsDecoded == Wire!DecodeEventError(Wire!Refusal) = Wire!Refusal
<1>1. <<"refused">> # <<>>
  OBVIOUS
<1> QED
  BY <1>1 DEF Wire!DecodeEventError, Wire!Refusal

(* Metadata and context added to a request's envelope. *)
LEMMA AddedIs ==
    ASSUME NEW req, NEW e, IsRequest(e, req), NEW w, IsEnvelope(w),
           w.id = e.id, w.event = e.event, w.payload = e.payload,
           NEW extra, "correlationId" \notin DOMAIN extra,
           w.metadata = e.metadata \/ w.metadata = Wire!Merge(e.metadata, extra) \/ w.metadata = Wire!Merge(extra, e.metadata)
    PROVE  IsRequest(w, req)
<1>1. "correlationId" \in DOMAIN e.metadata /\ e.metadata["correlationId"] = e.id
  BY DEF IsRequest, Correlated
<1>2. "correlationId" \in DOMAIN w.metadata /\ w.metadata["correlationId"] = e.id
  BY <1>1, MergeIs
<1> QED
  BY <1>2 DEF IsRequest, Correlated

LEMMA KnownIs ==
    ASSUME NEW e, KnowsClient(e), NEW w, w.id = e.id,
           NEW extra, "clientId" \notin DOMAIN extra,
           w.context = e.context \/ w.context = Wire!Merge(e.context, extra)
    PROVE  KnowsClient(w)
<1>1. "clientId" \in DOMAIN e.context /\ e.context["clientId"] = <<e.id[1]>>
  BY DEF KnowsClient
<1>2. "clientId" \in DOMAIN w.context /\ w.context["clientId"] = <<e.id[1]>>
  BY <1>1, MergeIs
<1> QED
  BY <1>2 DEF KnowsClient

LEMMA RunIs ==
    ASSUME NEW req, NEW hk, NEW e, IsRequest(e, req), KnowsClient(e)
    PROVE  IsRun(Wire!Run(e), req, hk)
  BY DEF IsRun, Wire!Run

LEMMA ReceivedIs ==
    ASSUME NEW req, NEW hk, NEW m, IsRequest(m.wire, req), m.from = m.wire.id[1]
    PROVE  IsRun(Wire!Run(Wire!BuildEnvelope(Wire!ReceiveInput(Wire!Decode(m.wire), m.from), Wire!Empty)), req, hk)
<1> DEFINE e == m.wire
           x == Wire!ReceiveInput(Wire!Decode(e), m.from)
           y == Wire!BuildEnvelope(x, Wire!Empty)
<1>1. IsEnvelope(e) /\ e.payload # <<>>
  BY DEF IsRequest
<1>2. Wire!Decode(e) = e
  BY <1>1, DecodeIs
<1>3. /\ IsEnvelope(x) /\ x.id = e.id /\ x.event = e.event /\ x.payload = e.payload /\ x.metadata = e.metadata
      /\ x.context = Wire!Merge(e.context, Wire!ClientContext(m.from))
  <2> DEFINE k == Wire!Merge(e.context, Wire!ClientContext(m.from))
  <2>1. x = [e EXCEPT !.status = "receiving", !.context = k]
    BY <1>1, <1>2 DEF Wire!ReceiveInput, IsEnvelope
  <2> HIDE DEF k, x
  <2>2. /\ IsEnvelope(x) /\ x.id = e.id /\ x.event = e.event /\ x.payload = e.payload /\ x.metadata = e.metadata
        /\ x.context = k
    BY <1>1, <2>1 DEF IsEnvelope
  <2> QED
    BY <2>2 DEF k
<1> HIDE DEF x
<1>4. /\ IsEnvelope(y) /\ y.id = e.id /\ y.event = e.event /\ y.payload = e.payload
      /\ y.metadata = Wire!Merge(Wire!Empty, x.metadata) /\ y.context = x.context
  BY <1>3 DEF Wire!BuildEnvelope, IsEnvelope
<1> HIDE DEF y
<1>5. "correlationId" \notin DOMAIN Wire!Empty
  BY EmptySeq DEF Wire!Empty
<1>6. IsRequest(y, req)
  BY <1>3, <1>4, <1>5, AddedIs
<1>7. "clientId" \in DOMAIN Wire!ClientContext(m.from) /\ Wire!ClientContext(m.from)["clientId"] = <<m.from>>
  <2> DEFINE a == [transport |-> <<"ws">>, clientId |-> <<m.from>>]
             b == [user |-> <<"unknown">>]
  <2>1. "clientId" \in DOMAIN a /\ a["clientId"] = <<m.from>> /\ "clientId" \notin DOMAIN b
    OBVIOUS
  <2>2. Wire!ClientContext(m.from) = Wire!Merge(a, b)
    BY DEF Wire!ClientContext
  <2> HIDE DEF a, b
  <2> QED
    BY <2>1, <2>2, MergeIs
<1>8. KnowsClient(y)
  BY <1>3, <1>4, <1>7, MergeIs DEF KnowsClient
<1> QED
  BY <1>6, <1>8, RunIs DEF x, y

LEMMA ReplayedIs ==
    ASSUME NEW req, NEW hk, NEW e, IsRequest(e, req), KnowsClient(e)
    PROVE  IsRun(Wire!Run(Wire!BuildEnvelope([e EXCEPT !.context = Wire!Merge(@, [dlq |-> <<"1">>])], Wire!Empty)), req, hk)
<1> DEFINE x == [e EXCEPT !.context = Wire!Merge(@, [dlq |-> <<"1">>])]
           y == Wire!BuildEnvelope(x, Wire!Empty)
<1>1. IsEnvelope(e)
  BY DEF IsRequest
<1>2. /\ IsEnvelope(x) /\ x.id = e.id /\ x.event = e.event /\ x.payload = e.payload /\ x.metadata = e.metadata
      /\ x.context = Wire!Merge(e.context, [dlq |-> <<"1">>])
  BY <1>1 DEF IsEnvelope
<1> HIDE DEF x
<1>3. /\ IsEnvelope(y) /\ y.id = e.id /\ y.event = e.event /\ y.payload = e.payload
      /\ y.metadata = Wire!Merge(Wire!Empty, x.metadata) /\ y.context = x.context
  BY <1>2 DEF Wire!BuildEnvelope, IsEnvelope
<1> HIDE DEF y
<1>4. "correlationId" \notin DOMAIN Wire!Empty /\ "clientId" \notin DOMAIN [dlq |-> <<"1">>]
  BY EmptySeq DEF Wire!Empty
<1>5. IsRequest(y, req)
  BY <1>2, <1>3, <1>4, AddedIs
<1>6. KnowsClient(y)
  BY <1>2, <1>3, <1>4, KnownIs
<1> QED
  BY <1>5, <1>6, RunIs DEF x, y

(* The hook that adds to an envelope *)
LEMMA UpdatedIs ==
    ASSUME NEW req, NEW e, IsRequest(e, req), KnowsClient(e)
    PROVE  IsRequest(Wire!MergeEvent(e, Wire!Update), req) /\ KnowsClient(Wire!MergeEvent(e, Wire!Update))
<1> DEFINE u == Wire!Update
           w == Wire!MergeEvent(e, u)
<1>1. IsEnvelope(e)
  BY DEF IsRequest
<1>2. u.payload = <<>> /\ u.metadata = [seen |-> <<"yes">>] /\ u.context = [user |-> <<"known">>]
  BY DEF Wire!Update, Wire!Envelope
<1>3. /\ IsEnvelope(w) /\ w.id = e.id /\ w.event = e.event /\ w.payload = e.payload
      /\ w.metadata = Wire!Merge(e.metadata, [seen |-> <<"yes">>]) /\ w.context = Wire!Merge(e.context, [user |-> <<"known">>])
  <2> DEFINE j == Wire!Merge(e.metadata, u.metadata)
             k == Wire!Merge(e.context, u.context)
  <2>1. u.error = <<>>
    BY DEF Wire!Update, Wire!Envelope
  <2> HIDE DEF u
  <2>2. w = [e EXCEPT !.metadata = j, !.context = k, !.payload = e.payload, !.error = e.error]
    BY <1>1, <1>2, <2>1 DEF Wire!MergeEvent, IsEnvelope
  <2> HIDE DEF j, k, w
  <2>3. /\ IsEnvelope(w) /\ w.id = e.id /\ w.event = e.event /\ w.payload = e.payload
        /\ w.metadata = j /\ w.context = k
    BY <1>1, <2>2 DEF IsEnvelope
  <2> QED
    BY <1>2, <2>3 DEF j, k
<1> HIDE DEF w
<1>4. "correlationId" \notin DOMAIN [seen |-> <<"yes">>] /\ "clientId" \notin DOMAIN [user |-> <<"known">>]
  OBVIOUS
<1>5. IsRequest(w, req)
  BY <1>3, <1>4, AddedIs
<1>6. KnowsClient(w)
  BY <1>3, <1>4, KnownIs
<1> QED
  BY <1>5, <1>6 DEF w

(* What a hook throws, and what an operation throws, is reported. *)
LEMMA FailedIs ==
    ASSUME NEW req, NEW e, IsRequest(e, req), KnowsClient(e), NEW thrown \in Wire!Thrown
    PROVE  IsReport(Wire!BuildFailedEnvelope(e, thrown), req)
<1> DEFINE x == Wire!ErrorFromUnknown(thrown)
           w == Wire!BuildFailedEnvelope(e, thrown)
<1>1. IsEnvelope(e)
  BY DEF IsRequest
<1>2. x.message # <<>> /\ "clientId" \notin DOMAIN x.context
  <2>1. "clientId" \notin DOMAIN Wire!Empty /\ "clientId" \notin DOMAIN [cause |-> <<"hook">>]
    BY EmptySeq DEF Wire!Empty
  <2>2. x.message = (IF thrown.message = <<>> THEN <<"Unknown error">> ELSE thrown.message)
    BY DEF Wire!ErrorFromUnknown
  <2>3. <<"Unknown error">> # <<>>
    OBVIOUS
  <2>4. x.context = Wire!Empty \/ x.context = [cause |-> <<"hook">>]
    BY DEF Wire!ErrorFromUnknown, Wire!Thrown
  <2> HIDE DEF x
  <2> QED
    BY Zenon, <2>1, <2>2, <2>3, <2>4
<1>3. /\ IsEnvelope(w) /\ w.id = e.id /\ w.event = e.event /\ w.payload = e.payload /\ w.metadata = e.metadata
      /\ w.context = Wire!Merge(e.context, x.context) /\ w.error = <<x>>
  <2> HIDE DEF x
  <2>1. w = [e EXCEPT !.error = <<x>>, !.context = Wire!Merge(e.context, x.context)]
    BY <1>1 DEF Wire!BuildFailedEnvelope, IsEnvelope, x
  <2> QED
    BY <1>1, <2>1 DEF IsEnvelope
<1> HIDE DEF w, x
<1>4. IsRequest(w, req)
  BY <1>1, <1>3, AddedIs, EmptySeq
<1>5. KnowsClient(w)
  BY <1>2, <1>3, KnownIs
<1>6. w.error[1].message # <<>>
  BY <1>2, <1>3
<1> QED
  BY <1>4, <1>5, <1>6 DEF IsReport, w

LEMMA ThrownIs ==
    ASSUME NEW req, NEW e, IsRequest(e, req), KnowsClient(e)
    PROVE  IsReport([e EXCEPT !.error = <<[message |-> <<"thrown">>, context |-> [phase |-> <<"execute">>]]>>], req)
<1> DEFINE x == [message |-> <<"thrown">>, context |-> [phase |-> <<"execute">>]]
           w == [e EXCEPT !.error = <<x>>]
<1>1. x.message # <<>>
  OBVIOUS
<1> HIDE DEF x
<1>2. /\ IsEnvelope(w) /\ w.id = e.id /\ w.event = e.event /\ w.payload = e.payload /\ w.metadata = e.metadata
      /\ w.context = e.context /\ w.error = <<x>>
  BY DEF IsRequest, IsEnvelope
<1> HIDE DEF w
<1>3. IsRequest(w, req) /\ KnowsClient(w)
  BY <1>2 DEF IsRequest, Correlated, KnowsClient
<1>4. w.error[1].message # <<>>
  BY <1>1, <1>2
<1> QED
  BY <1>3, <1>4 DEF IsReport, w, x

(* Requests are only added. *)
LEMMA MoreRequests ==
    ASSUME NEW req, NEW more, \A q \in DOMAIN req : q \in DOMAIN more /\ more[q] = req[q]
    PROVE  /\ \A e : IsRequest(e, req) => IsRequest(e, more)
           /\ \A e : IsReport(e, req) => IsReport(e, more)
           /\ \A r, hk : IsRun(r, req, hk) => IsRun(r, more, hk)
           /\ \A e, hk : IsAnswer(e, req, hk) => IsAnswer(e, more, hk)
<1>1. \A e : IsRequest(e, req) => IsRequest(e, more)
  BY DEF IsRequest
<1>2. \A e : IsReport(e, req) => IsReport(e, more)
  BY <1>1 DEF IsReport
<1>3. \A r, hk : IsRun(r, req, hk) => IsRun(r, more, hk)
  BY <1>1 DEF IsRun
<1>4. ASSUME NEW e, NEW hk, IsAnswer(e, req, hk)
      PROVE  IsAnswer(e, more, hk)
  <2>1. PICK q \in DOMAIN req : Correlated(e, q) /\ e.id[1] = q[1] /\ e.id[2] = q[2] /\ IsOwn(e, q, req[q], hk)
    BY <1>4 DEF IsAnswer
  <2>2. q \in DOMAIN more /\ more[q] = req[q]
    BY <2>1
  <2>3. IsOwn(e, q, more[q], hk)
    BY <2>1, <2>2
  <2> QED
    BY <1>4, <2>1, <2>2, <2>3 DEF IsAnswer
<1> QED
  BY <1>1, <1>2, <1>3, <1>4

LEMMA WireCardinality == \A S : Wire!Cardinality(S) = Cardinality(S)
  BY DEF Wire!Cardinality, Cardinality

LEMMA NewRequest ==
    ASSUME AskedInv, NEW c \in Askers, NEW op, NEW id, id = <<c, Cardinality(DOMAIN requested)>>,
           requested' = Wire!Merge(requested, [q \in {id} |-> op])
    PROVE  /\ AskedInv' /\ id \notin DOMAIN requested /\ DOMAIN requested' = DOMAIN requested \cup {id}
           /\ requested'[id] = op
           /\ \A q \in DOMAIN requested : q \in DOMAIN requested' /\ requested'[q] = requested[q]
<1> DEFINE D == DOMAIN requested
           n == Cardinality(D)
<1>1. /\ IsFiniteSet(D) /\ n \in Nat
      /\ \A q \in D : q = <<q[1], q[2]>> /\ q[1] \in Askers /\ q[2] \in Nat /\ q[2] < n
  BY FS_CardinalityType DEF AskedInv
<1>2. id[1] = c /\ id[2] = n
  OBVIOUS
<1> HIDE DEF n
<1>3. id \notin D
  BY <1>1, <1>2
<1>4. DOMAIN requested' = D \cup {id}
  BY DEF Wire!Merge
<1>5. requested'[id] = op /\ \A q \in D : requested'[q] = requested[q]
  BY <1>3 DEF Wire!Merge
<1>6. IsFiniteSet(D \cup {id}) /\ Cardinality(D \cup {id}) = n + 1
  BY <1>1, <1>3, FS_AddElement DEF n
<1>7. \A q \in D \cup {id} : q = <<q[1], q[2]>> /\ q[1] \in Askers /\ q[2] \in Nat /\ q[2] < n + 1
  <2>1. id = <<id[1], id[2]>> /\ id[2] \in Nat /\ id[2] < n + 1 /\ id[1] \in Askers
    BY <1>1, <1>2 DEF n
  <2>2. \A q \in D : q[2] < n + 1
    BY <1>1
  <2> QED
    BY <1>1, <2>1, <2>2
<1>8. AskedInv'
  BY <1>4, <1>6, <1>7 DEF AskedInv
<1> QED
  BY <1>3, <1>4, <1>5, <1>8

(* What the server sends in a run *)
LEMMA SentIs ==
    ASSUME AskedInv, NEW r, IsRun(r, requested, hook), NEW ev, NEW metadata, NEW payload, NEW error,
           "correlationId" \in DOMAIN metadata, metadata["correlationId"] = r.env.id,
           payload # <<>> => payload[1] = <<ev, r.env.id>> /\ hook # "refuses",
           payload = <<>> => error = <<Wire!Refusal>>,
           ev = r.env.event \/ \E i \in DOMAIN Published[r.env.event] : ev = Published[r.env.event][i]
    PROVE  LET s == Wire!Sent(r, ev, metadata, payload, error)
               w == Wire!Encode(s) IN
           /\ IsAnswer(w, requested, hook) /\ Correlated(w, r.env.id) /\ w.id = s.id
           /\ <<s.id[1], s.id[2]>> = r.env.id /\ r.env.id \in DOMAIN requested
<1> DEFINE q == r.env.id
           s == Wire!Sent(r, ev, metadata, payload, error)
           w == Wire!Encode(s)
<1>1. q \in DOMAIN requested /\ r.env.event = requested[q]
  BY DEF IsRun, IsRequest
<1>2. q = <<q[1], q[2]>>
  BY <1>1 DEF AskedInv
<1>3. Append(q, ev)[1] = q[1] /\ Append(q, ev)[2] = q[2]
  BY <1>2, AnswerId
<1>4. /\ IsEnvelope(s) /\ s.id = Append(q, ev) /\ s.event = ev /\ s.metadata = metadata
      /\ s.payload = payload /\ s.error = error
  BY DEF Wire!Sent, Wire!Envelope, IsEnvelope
<1> HIDE DEF s
<1>5. /\ IsEnvelope(w) /\ w.id = s.id /\ w.event = ev /\ w.metadata = metadata /\ w.payload = payload
      /\ payload = <<>> => w.error = error
  BY <1>4, EncodeIs
<1> HIDE DEF w
<1>6. Correlated(w, q)
  BY <1>5 DEF Correlated
<1>7. IsOwn(w, q, requested[q], hook)
  BY <1>1, <1>5 DEF IsOwn
<1>8. <<s.id[1], s.id[2]>> = q /\ w.id[1] = q[1] /\ w.id[2] = q[2]
  BY <1>2, <1>3, <1>4, <1>5
<1>9. IsAnswer(w, requested, hook)
  BY <1>1, <1>5, <1>6, <1>7, <1>8 DEF IsAnswer
<1> QED
  BY <1>1, <1>5, <1>6, <1>8, <1>9 DEF w, s

LEMMA EmitIs ==
    ASSUME AskedInv, PendingInv, AnswersInv, ArrivalInv,
           NEW s, NEW q \in DOMAIN requested, IsAnswer(Wire!Encode(s), requested, hook), Wire!Encode(s).id = s.id,
           Correlated(Wire!Encode(s), q), <<s.id[1], s.id[2]>> = q, Wire!Emit(s),
           UNCHANGED <<hook, requested, waiting, outcome, delivered>>
    PROVE  AnswersInv' /\ ArrivalInv'
<1> DEFINE w == Wire!Encode(s)
<1>1. down' = [c \in Askers |-> Append(down[c], w)] /\ emitted' = emitted \cup {s.id}
  BY DEF Wire!Emit
<1>2. IsAnswer(w, requested, hook) /\ w.id = s.id /\ Correlated(w, q)
  OBVIOUS
<1> HIDE DEF w
<1>3. \A c \in Askers : /\ down'[c] = Append(down[c], w) /\ IsList(down'[c])
                        /\ Carried(down'[c]) = Carried(down[c]) \cup {w}
  BY <1>1, AppendCarries DEF AnswersInv
<1>4. AnswersInv'
  <2>1. down' = [c \in Askers |-> down'[c]]
    BY <1>1
  <2> QED
    BY <1>2, <1>3, <2>1 DEF AnswersInv
<1>5. ArrivalInv'
  <2> SUFFICES ASSUME NEW id \in emitted'
               PROVE  /\ <<id[1], id[2]>> \in DOMAIN requested
                      /\ \A c \in Askers : \/ <<c, id>> \in delivered
                                           \/ \E e \in Carried(down'[c]) : e.id = id
                                           \/ c = id[1] /\ \E x \in DOMAIN outcome : outcome[x].id = id
                      /\ \A x \in waiting : x = <<id[1], id[2]>> => \E e \in Carried(down'[x[1]]) : Correlated(e, x)
    BY Zenon DEF ArrivalInv
  <2>1. \A x \in waiting : x[1] \in Askers
    BY DEF PendingInv, AskedInv
  <2>2. CASE id = s.id
    BY <1>2, <1>3, <2>1, <2>2
  <2>3. CASE id \in emitted
    BY <1>3, <2>1, <2>3 DEF ArrivalInv
  <2> QED
    BY <1>1, <2>2, <2>3
<1> QED
  BY <1>4, <1>5

LEMMA RequestStep ==
    ASSUME WireInv, NEW c \in Askers, NEW op, Wire!Request(c, op)
    PROVE  WireInv'
<1> DEFINE id == <<c, Cardinality(DOMAIN requested)>>
           e == Wire!Envelope(id, op, "sending", [correlationId |-> id], Wire!Empty, <<<<op, id>>>>, <<>>)
           w == Wire!Encode(e)
<1>1. /\ requested' = Wire!Merge(requested, [q \in {id} |-> op])
      /\ waiting' = waiting \cup {id} /\ up' = up \cup {[from |-> c, wire |-> w]}
      /\ hook' = hook /\ runs' = runs /\ down' = down /\ reports' = reports
      /\ outcome' = outcome /\ delivered' = delivered /\ emitted' = emitted
  BY WireCardinality DEF Wire!Request
<1>2. AskedInv /\ PendingInv /\ LettersInv /\ AnswersInv /\ ArrivalInv /\ OutcomeInv
  BY DEF WireInv
<1>3. id[1] = c
  OBVIOUS
<1>4. /\ IsEnvelope(e) /\ e.id = id /\ e.event = op /\ e.payload = <<<<op, id>>>>
      /\ "correlationId" \in DOMAIN e.metadata /\ e.metadata["correlationId"] = id
  BY DEF Wire!Envelope, IsEnvelope
<1> HIDE DEF e
<1>5. /\ IsEnvelope(w) /\ w.id = id /\ w.event = op /\ w.payload = <<<<op, id>>>>
      /\ "correlationId" \in DOMAIN w.metadata /\ w.metadata["correlationId"] = id
  BY <1>4, EncodeIs
<1> HIDE DEF w
<1>6. /\ AskedInv' /\ id \notin DOMAIN requested /\ DOMAIN requested' = DOMAIN requested \cup {id}
      /\ requested'[id] = op
      /\ \A q \in DOMAIN requested : q \in DOMAIN requested' /\ requested'[q] = requested[q]
  <2> DEFINE D == id
  <2>1. D = <<c, Cardinality(DOMAIN requested)>> /\ requested' = Wire!Merge(requested, [q \in {D} |-> op])
    BY <1>1
  <2> HIDE DEF D
  <2>2. /\ AskedInv' /\ D \notin DOMAIN requested /\ DOMAIN requested' = DOMAIN requested \cup {D}
        /\ requested'[D] = op
        /\ \A q \in DOMAIN requested : q \in DOMAIN requested' /\ requested'[q] = requested[q]
    BY <1>2, <2>1, NewRequest
  <2> QED
    BY <2>2 DEF D
<1> HIDE DEF id
<1>7. IsRequest(w, requested')
  BY <1>5, <1>6 DEF IsRequest, Correlated
<1>8. PendingInv'
  BY <1>1, <1>2, <1>6 DEF PendingInv
<1>9. LettersInv'
  <2>1. \A m \in up' : IsRequest(m.wire, requested') /\ m.from = m.wire.id[1]
    <3>1. \A m \in up : IsRequest(m.wire, requested') /\ m.from = m.wire.id[1]
      BY <1>2, <1>6, MoreRequests DEF LettersInv
    <3> QED
      BY <1>1, <1>3, <1>5, <1>7, <3>1
  <2>2. \A r \in runs : IsRun(r, requested', hook)
    BY <1>2, <1>6, MoreRequests DEF LettersInv
  <2>3. \A x \in reports : IsReport(x, requested')
    BY <1>2, <1>6, MoreRequests DEF LettersInv
  <2> QED
    BY <1>1, <2>1, <2>2, <2>3 DEF LettersInv
<1>10. AnswersInv'
  <2>1. \A x \in Askers : \A y \in Carried(down[x]) : IsAnswer(y, requested', hook)
    BY <1>2, <1>6, MoreRequests DEF AnswersInv
  <2> QED
    BY <1>1, <1>2, <2>1 DEF AnswersInv
<1>11. ArrivalInv'
  <2> SUFFICES ASSUME NEW x \in emitted
               PROVE  /\ <<x[1], x[2]>> \in DOMAIN requested'
                      /\ \A a \in Askers : \/ <<a, x>> \in delivered
                                           \/ \E y \in Carried(down[a]) : y.id = x
                                           \/ a = x[1] /\ \E q \in DOMAIN outcome : outcome[q].id = x
                      /\ \A q \in waiting' : q = <<x[1], x[2]>> => \E y \in Carried(down[q[1]]) : Correlated(y, q)
    BY Zenon, <1>1 DEF ArrivalInv
  <2> QED
    BY <1>1, <1>2, <1>6 DEF ArrivalInv
<1>12. OutcomeInv'
  <2>1. \A q \in DOMAIN outcome : q \in DOMAIN requested
    BY <1>2 DEF PendingInv
  <2> QED
    BY <1>1, <1>2, <1>6, <2>1 DEF OutcomeInv
<1> QED
  BY <1>6, <1>8, <1>9, <1>10, <1>11, <1>12 DEF WireInv

LEMMA RestOf ==
    ASSUME NEW S, NEW t \in Seq(S), t # <<>>
    PROVE  /\ Head(t) = t[1] /\ 1 \in DOMAIN t /\ Tail(t) \in Seq(S)
           /\ \A i \in DOMAIN Tail(t) : i + 1 \in DOMAIN t /\ Tail(t)[i] = t[i + 1]
<1>1. /\ Head(t) = t[1] /\ Tail(t) \in Seq(S)
      /\ Len(Tail(t)) = Len(t) - 1 /\ Len(t) \in Nat /\ Len(t) >= 1
      /\ \A i \in 1..(Len(t) - 1) : Tail(t)[i] = t[i + 1]
  BY HeadTailProperties, EmptySeq, LenProperties
<1>2. DOMAIN Tail(t) = 1..(Len(t) - 1) /\ DOMAIN t = 1..Len(t)
  BY <1>1, LenProperties
<1>3. \A i \in 1..(Len(t) - 1) : i + 1 \in 1..Len(t)
  BY <1>1
<1> QED
  BY <1>1, <1>2, <1>3

IsRunRecord(r) == r = [env |-> r.env, phase |-> r.phase, topics |-> r.topics]

(* The messages of the requests and the runs: nothing else changes. *)
LEMMA LettersStep ==
    ASSUME WireInv,
           UNCHANGED <<hook, requested, waiting, outcome>>,
           \A m \in up' : m \in up,
           \A r \in runs' : r \in runs \/ IsRun(r, requested, hook),
           \A e \in reports' : e \in reports \/ IsReport(e, requested)
    PROVE  /\ AskedInv' /\ PendingInv' /\ LettersInv' /\ OutcomeInv'
           /\ UNCHANGED <<down, delivered, emitted>> => WireInv'
           /\ AnswersInv' /\ ArrivalInv' => WireInv'
<1>1. AskedInv' /\ PendingInv' /\ OutcomeInv'
  BY DEF WireInv, AskedInv, PendingInv, OutcomeInv
<1>2. LettersInv'
  BY DEF WireInv, LettersInv
<1>3. UNCHANGED <<down, delivered, emitted>> => AnswersInv' /\ ArrivalInv'
  BY DEF WireInv, AnswersInv, ArrivalInv
<1> QED
  BY <1>1, <1>2, <1>3 DEF WireInv

LEMMA RunStep ==
    ASSUME WireInv, Wire!ExchangeConstants, NEW r \in runs,
           \/ Wire!Passes(r) \/ Wire!Refuses(r) \/ Wire!HookThrows(r) \/ Wire!Unknown(r)
           \/ Wire!OperationThrows(r) \/ Wire!Succeeds(r) \/ Wire!Publish(r) \/ Wire!Answer(r)
    PROVE  WireInv'
<1>1. /\ IsRun(r, requested, hook) /\ IsRequest(r.env, requested) /\ KnowsClient(r.env)
      /\ IsRunRecord(r)
      /\ "correlationId" \in DOMAIN r.env.metadata /\ r.env.metadata["correlationId"] = r.env.id
      /\ r.env.payload = <<<<r.env.event, r.env.id>>>>
  BY DEF WireInv, LettersInv, IsRun, IsRunRecord, IsRequest, Correlated
<1>2. AskedInv /\ PendingInv /\ AnswersInv /\ ArrivalInv
  BY DEF WireInv
<1>3. ASSUME NEW s, NEW ev, NEW metadata, NEW payload, NEW error, s = Wire!Sent(r, ev, metadata, payload, error),
             "correlationId" \in DOMAIN metadata, metadata["correlationId"] = r.env.id,
             payload # <<>> => payload[1] = <<ev, r.env.id>> /\ hook # "refuses",
             payload = <<>> => error = <<Wire!Refusal>>,
             ev = r.env.event \/ \E i \in DOMAIN Published[r.env.event] : ev = Published[r.env.event][i],
             Wire!Emit(s), UNCHANGED <<hook, requested, waiting, outcome, delivered>>
      PROVE  AnswersInv' /\ ArrivalInv'
  <2>1. /\ IsAnswer(Wire!Encode(s), requested, hook) /\ Correlated(Wire!Encode(s), r.env.id)
        /\ Wire!Encode(s).id = s.id /\ <<s.id[1], s.id[2]>> = r.env.id /\ r.env.id \in DOMAIN requested
    BY <1>1, <1>2, <1>3, SentIs
  <2> QED
    BY <1>2, <1>3, <2>1, EmitIs
<1>4. CASE Wire!Passes(r)
  <2> DEFINE env == IF hook = "adds" THEN Wire!MergeEvent(r.env, Wire!Update) ELSE r.env
             s == [r EXCEPT !.phase = "schema", !.env = env]
  <2>1. /\ runs' = (runs \ {r}) \cup {s} /\ hook # "refuses"
        /\ UNCHANGED <<hook, requested, waiting, up, down, reports, outcome, delivered, emitted>>
    BY <1>1, <1>4 DEF Wire!Passes, Wire!Becomes
  <2>2. IsRequest(env, requested) /\ KnowsClient(env)
    BY <1>1, UpdatedIs
  <2> HIDE DEF env
  <2>3. s = [r EXCEPT !.phase = "schema", !.env = env]
    OBVIOUS
  <2> HIDE DEF s
  <2>5. s.env = env /\ s.phase = "schema" /\ IsRunRecord(s)
    <3> IsRunRecord(r)
      BY <1>1
    <3> QED
      BY <2>3 DEF IsRunRecord
  <2>4. IsRun(s, requested, hook)
    BY <2>1, <2>2, <2>5 DEF IsRun, IsRunRecord
  <2> QED
    BY <2>1, <2>4, LettersStep
<1>5. CASE Wire!Refuses(r)
  <2>1. /\ Wire!Emit(Wire!Sent(r, r.env.event, r.env.metadata, <<>>, <<Wire!Refusal>>)) /\ runs' = runs \ {r}
        /\ UNCHANGED <<hook, requested, waiting, up, reports, outcome, delivered>>
    BY <1>5 DEF Wire!Refuses, Wire!Ends
  <2>2. AnswersInv' /\ ArrivalInv'
    BY <1>1, <1>3, <2>1
  <2> QED
    BY <2>1, <2>2, LettersStep
<1>6. CASE Wire!HookThrows(r)
  <2>1. PICK thrown \in Wire!Thrown : Wire!Reports(r, Wire!BuildFailedEnvelope(r.env, thrown))
    BY <1>6 DEF Wire!HookThrows
  <2>2. IsReport(Wire!BuildFailedEnvelope(r.env, thrown), requested)
    BY <1>1, FailedIs
  <2>3. /\ reports' = reports \cup {Wire!BuildFailedEnvelope(r.env, thrown)} /\ runs' = runs \ {r}
        /\ UNCHANGED <<hook, requested, waiting, up, down, outcome, delivered, emitted>>
    BY <2>1 DEF Wire!Reports, Wire!Ends
  <2> QED
    BY <2>2, <2>3, LettersStep
<1>7. CASE Wire!Unknown(r)
  <2>1. runs' = runs \ {r} /\ UNCHANGED <<hook, requested, waiting, up, down, reports, outcome, delivered, emitted>>
    BY <1>7 DEF Wire!Unknown, Wire!Ends
  <2> QED
    BY <2>1, LettersStep
<1>8. CASE Wire!OperationThrows(r)
  <2> DEFINE e == [r.env EXCEPT !.error = <<[message |-> <<"thrown">>, context |-> [phase |-> <<"execute">>]]>>]
  <2>1. /\ reports' = reports \cup {e} /\ runs' = runs \ {r}
        /\ UNCHANGED <<hook, requested, waiting, up, down, outcome, delivered, emitted>>
    BY <1>8 DEF Wire!OperationThrows, Wire!Reports, Wire!Ends
  <2>2. IsReport(e, requested)
    BY <1>1, ThrownIs
  <2> HIDE DEF e
  <2> QED
    BY <2>1, <2>2, LettersStep
<1>9. CASE Wire!Succeeds(r)
  <2> DEFINE topics == Published[r.env.event]
             s == [r EXCEPT !.phase = "publish", !.topics = topics]
  <2>1. /\ r.phase = "schema" /\ r.env.event \in DOMAIN Published
        /\ runs' = (runs \ {r}) \cup {s}
        /\ UNCHANGED <<hook, requested, waiting, up, down, reports, outcome, delivered, emitted>>
    BY <1>9 DEF Wire!Succeeds, Wire!Becomes
  <2>2. topics \in Seq(STRING)
    BY <2>1 DEF Wire!ExchangeConstants
  <2>3. hook # "refuses"
    BY <1>1, <2>1 DEF IsRun
  <2> HIDE DEF topics
  <2>7. s = [r EXCEPT !.phase = "publish", !.topics = topics]
    OBVIOUS
  <2> HIDE DEF s
  <2>4. s.env = r.env /\ s.phase = "publish" /\ s.topics = topics /\ IsRunRecord(s)
    <3> IsRunRecord(r)
      BY <1>1
    <3> QED
      BY <2>7 DEF IsRunRecord
  <2>5. \A i \in DOMAIN s.topics : \E j \in DOMAIN Published[s.env.event] : s.topics[i] = Published[s.env.event][j]
    BY <2>4 DEF topics
  <2>6. IsRun(s, requested, hook)
    BY <1>1, <2>1, <2>2, <2>3, <2>4, <2>5 DEF IsRun, IsRunRecord
  <2> QED
    BY <2>1, <2>6, LettersStep
<1>10. CASE Wire!Publish(r)
  <2> DEFINE topic == Head(r.topics)
             metadata == Wire!Merge(r.env.metadata, [room |-> <<"hall">>])
             payload == <<<<topic, r.env.payload[1][2]>>>>
             s == [r EXCEPT !.topics = Tail(@)]
  <2>1. /\ r.phase = "publish" /\ r.topics # <<>>
        /\ Wire!Emit(Wire!Sent(r, topic, metadata, payload, <<>>))
        /\ runs' = (runs \ {r}) \cup {s}
        /\ UNCHANGED <<hook, requested, waiting, up, reports, outcome, delivered>>
    BY <1>10 DEF Wire!Publish, Wire!Becomes
  <2>2. /\ r.topics \in Seq(STRING) /\ r.env.event \in DOMAIN Published /\ hook # "refuses"
        /\ \A i \in DOMAIN r.topics : \E j \in DOMAIN Published[r.env.event] : r.topics[i] = Published[r.env.event][j]
    BY <1>1, <2>1 DEF IsRun
  <2>3. /\ topic = r.topics[1] /\ 1 \in DOMAIN r.topics /\ Tail(r.topics) \in Seq(STRING)
        /\ \A i \in DOMAIN Tail(r.topics) : i + 1 \in DOMAIN r.topics /\ Tail(r.topics)[i] = r.topics[i + 1]
    BY <2>1, <2>2, RestOf
  <2>4. payload[1] = <<topic, r.env.id>> /\ payload # <<>>
    BY <1>1
  <2> HIDE DEF topic, payload
  <2>5. "correlationId" \in DOMAIN metadata /\ metadata["correlationId"] = r.env.id
    <3>1. "correlationId" \notin DOMAIN [room |-> <<"hall">>]
      OBVIOUS
    <3> QED
      BY <1>1, <3>1, MergeIs
  <2> HIDE DEF metadata
  <2>6. AnswersInv' /\ ArrivalInv'
    BY <1>3, <2>1, <2>2, <2>3, <2>4, <2>5
  <2>9. s = [r EXCEPT !.topics = Tail(r.topics)]
    BY <1>1 DEF IsRunRecord
  <2> HIDE DEF s
  <2>7. s.env = r.env /\ s.phase = r.phase /\ s.topics = Tail(r.topics) /\ IsRunRecord(s)
    <3> IsRunRecord(r)
      BY <1>1
    <3> QED
      BY <2>9 DEF IsRunRecord
  <2>8. IsRun(s, requested, hook)
    BY <1>1, <2>1, <2>2, <2>3, <2>7 DEF IsRun, IsRunRecord
  <2> QED
    BY <2>1, <2>6, <2>8, LettersStep
<1>11. CASE Wire!Answer(r)
  <2>1. /\ r.phase = "publish" /\ runs' = runs \ {r}
        /\ Wire!Emit(Wire!Sent(r, r.env.event, r.env.metadata, r.env.payload, <<>>))
        /\ UNCHANGED <<hook, requested, waiting, up, reports, outcome, delivered>>
    BY <1>11 DEF Wire!Answer, Wire!Ends
  <2>2. hook # "refuses"
    BY <1>1, <2>1 DEF IsRun
  <2>3. r.env.payload # <<>> /\ r.env.payload[1] = <<r.env.event, r.env.id>>
    BY <1>1
  <2>4. AnswersInv' /\ ArrivalInv'
    BY <1>1, <1>3, <2>1, <2>2, <2>3
  <2> QED
    BY <2>1, <2>4, LettersStep
<1> QED
  BY <1>4, <1>5, <1>6, <1>7, <1>8, <1>9, <1>10, <1>11

(* An envelope comes to a client. *)
LEMMA DeliverStep ==
    ASSUME WireInv, NEW c \in Askers, Wire!Deliver(c)
    PROVE  WireInv'
<1> DEFINE h == Head(down[c])
           e == Wire!Decode(h)
           x == IF "correlationId" \in DOMAIN e.metadata THEN e.metadata["correlationId"] ELSE <<>>
           settles == x \in waiting /\ x[1] = c
<1>1. /\ down[c] # <<>> /\ down' = [down EXCEPT ![c] = Tail(down[c])]
      /\ waiting' = IF settles THEN waiting \ {x} ELSE waiting
      /\ outcome' = IF settles THEN Wire!Merge(outcome, [p \in {x} |-> e]) ELSE outcome
      /\ delivered' = IF settles /\ e.event = requested[x] THEN delivered ELSE delivered \cup {<<c, e.id>>}
      /\ UNCHANGED <<hook, requested, up, runs, reports, emitted>>
  BY DEF Wire!Deliver
<1>2. AskedInv /\ PendingInv /\ LettersInv /\ AnswersInv /\ ArrivalInv /\ OutcomeInv
  BY DEF WireInv
<1>3. /\ \A a \in Askers : IsList(down[a]) /\ \A y \in Carried(down[a]) : IsAnswer(y, requested, hook)
      /\ down = [a \in Askers |-> down[a]]
  BY <1>2 DEF AnswersInv
<1>4. IsList(Tail(down[c])) /\ Carried(down[c]) = {h} \cup Carried(Tail(down[c]))
  BY <1>1, <1>3, TailCarries
<1>5. /\ down' = [a \in Askers |-> down'[a]] /\ down'[c] = Tail(down[c])
      /\ \A a \in Askers : a # c => down'[a] = down[a]
  <2>1. down' = [a \in Askers |-> IF a = c THEN Tail(down[c]) ELSE down[a]]
    BY <1>1, <1>3
  <2> QED
    BY <2>1
<1>6. IsAnswer(h, requested, hook)
  BY <1>3, <1>4
<1>7. PICK q \in DOMAIN requested : /\ Correlated(h, q) /\ h.id[1] = q[1] /\ h.id[2] = q[2]
                                    /\ IsOwn(h, q, requested[q], hook)
  BY <1>6 DEF IsAnswer
<1> HIDE DEF h
<1>8. /\ IsEnvelope(h) /\ e.id = h.id /\ e.event = h.event /\ e.metadata = h.metadata /\ e.payload = h.payload
      /\ h.payload # <<>> => e = h
      /\ h.payload = <<>> => e.error = <<Wire!DecodeEventError(h.error[1])>>
  <2>1. IsEnvelope(h)
    BY <1>6 DEF IsAnswer
  <2> QED
    BY <2>1, DecodeIs
<1> HIDE DEF e
<1>9. x = q
  BY <1>7, <1>8 DEF Correlated
<1> HIDE DEF x
<1>10. IsOwn(e, q, requested[q], hook)
  <2>1. /\ h.payload # <<>> => h.payload[1] = <<h.event, q>> /\ hook # "refuses"
        /\ h.payload = <<>> => h.error = <<Wire!Refusal>>
        /\ h.event = requested[q] \/ \E i \in DOMAIN Published[requested[q]] : h.event = Published[requested[q]][i]
    BY <1>7 DEF IsOwn
  <2>2. e.payload = <<>> => e.error = <<Wire!Refusal>>
    <3>1. h.payload = <<>> => h.error[1] = Wire!Refusal
      BY <2>1
    <3> QED
      BY <1>8, <3>1, RefusalIsDecoded
  <2> QED
    BY <1>8, <2>1, <2>2 DEF IsOwn
<1>11. \A a \in waiting : a \in DOMAIN requested /\ a \notin DOMAIN outcome
  BY <1>2 DEF PendingInv
<1>12. /\ settles => /\ DOMAIN outcome' = DOMAIN outcome \cup {q} /\ outcome'[q] = e
                     /\ \A p \in DOMAIN outcome : outcome'[p] = outcome[p]
       /\ ~settles => outcome' = outcome
  <2>1. CASE settles
    <3>1. q \notin DOMAIN outcome
      BY <1>9, <1>11, <2>1
    <3>2. outcome' = Wire!Merge(outcome, [p \in {q} |-> e])
      BY <1>1, <1>9, <2>1
    <3> QED
      BY <2>1, <3>1, <3>2 DEF Wire!Merge
  <2> QED
    BY <1>1, <2>1
<1>13. AskedInv' /\ LettersInv'
  BY <1>1, <1>2 DEF AskedInv, LettersInv
<1>14. PendingInv'
  BY <1>1, <1>2, <1>9, <1>12 DEF PendingInv
<1>15. AnswersInv'
  BY <1>1, <1>3, <1>4, <1>5 DEF AnswersInv
<1>16. OutcomeInv'
  BY <1>1, <1>2, <1>10, <1>12 DEF OutcomeInv
<1>17. ArrivalInv'
  <2> SUFFICES ASSUME NEW id \in emitted
               PROVE  /\ <<id[1], id[2]>> \in DOMAIN requested
                      /\ \A a \in Askers : \/ <<a, id>> \in delivered'
                                           \/ \E y \in Carried(down'[a]) : y.id = id
                                           \/ a = id[1] /\ \E p \in DOMAIN outcome' : outcome'[p].id = id
                      /\ \A p \in waiting' : p = <<id[1], id[2]>> => \E y \in Carried(down'[p[1]]) : Correlated(y, p)
    BY Zenon, <1>1 DEF ArrivalInv
  <2>1. <<id[1], id[2]>> \in DOMAIN requested
    BY <1>2 DEF ArrivalInv
  <2>2. ASSUME NEW a \in Askers
        PROVE  \/ <<a, id>> \in delivered'
               \/ \E y \in Carried(down'[a]) : y.id = id
               \/ a = id[1] /\ \E p \in DOMAIN outcome' : outcome'[p].id = id
    <3>1. CASE <<a, id>> \in delivered
      BY <1>1, <3>1
    <3>2. CASE a = id[1] /\ \E p \in DOMAIN outcome : outcome[p].id = id
      BY <1>12, <3>2
    <3>3. CASE \E y \in Carried(down[a]) : y.id = id
      <4>1. PICK y \in Carried(down[a]) : y.id = id
        BY <3>3
      <4>2. CASE a # c \/ y # h
        BY <1>4, <1>5, <4>1, <4>2
      <4>3. CASE a = c /\ y = h
        <5>1. e.id = id
          BY <1>8, <4>1, <4>3
        <5>2. CASE settles
          <6>1. c = id[1]
            BY <1>7, <1>8, <1>9, <5>1, <5>2
          <6> QED
            BY <1>12, <4>3, <5>1, <5>2, <6>1
        <5>3. CASE ~settles
          BY <1>1, <4>3, <5>1, <5>3
        <5> QED
          BY <5>2, <5>3
      <4> QED
        BY <4>2, <4>3
    <3> QED
      BY <1>2, <3>1, <3>2, <3>3 DEF ArrivalInv
  <2>3. ASSUME NEW p \in waiting', p = <<id[1], id[2]>>
        PROVE  \E y \in Carried(down'[p[1]]) : Correlated(y, p)
    <3>1. p \in waiting /\ p[1] \in Askers /\ ~(settles /\ p = q)
      BY <1>1, <1>2, <1>9, <1>11 DEF AskedInv
    <3>2. PICK y \in Carried(down[p[1]]) : Correlated(y, p)
      BY <1>2, <2>3, <3>1 DEF ArrivalInv
    <3>3. ~(p[1] = c /\ y = h)
      BY <1>7, <1>9, <3>1, <3>2 DEF Correlated
    <3> QED
      BY <1>4, <1>5, <3>1, <3>2, <3>3
  <2> QED
    BY <2>1, <2>2, <2>3
<1> QED
  BY <1>13, <1>14, <1>15, <1>16, <1>17 DEF WireInv

LEMMA WireSteps ==
    ASSUME Wire!ExchangeConstants
    PROVE  /\ Wire!ExchangeInit => WireInv
           /\ WireInv /\ Wire!ExchangeNext => WireInv'
           /\ WireInv /\ UNCHANGED wireVars => WireInv'
<1>1. ASSUME Wire!ExchangeInit
      PROVE  WireInv
  <2>1. /\ requested = <<>> /\ outcome = <<>> /\ down = [c \in Askers |-> <<>>]
        /\ waiting = {} /\ up = {} /\ runs = {} /\ reports = {} /\ delivered = {} /\ emitted = {}
    BY <1>1 DEF Wire!ExchangeInit, Wire!Empty
  <2>2. DOMAIN requested = {} /\ DOMAIN outcome = {}
    BY <2>1, EmptySeq
  <2>3. AskedInv
    BY <2>2, FS_EmptySet DEF AskedInv
  <2>4. AnswersInv
    BY <2>1, NothingCarried DEF AnswersInv
  <2> QED
    BY <2>1, <2>2, <2>3, <2>4 DEF WireInv, PendingInv, LettersInv, ArrivalInv, OutcomeInv
<1>2. ASSUME WireInv, Wire!ExchangeNext
      PROVE  WireInv'
  <2>1. CASE \E c \in Askers : Wire!Deliver(c)
    BY <1>2, <2>1, DeliverStep
  <2>2. CASE \E c \in Askers, op \in DOMAIN Published \cup {"unknown"} : Wire!Request(c, op)
    BY <1>2, <2>2, RequestStep
  <2>3. ASSUME NEW q \in waiting, Wire!TimesOut(q)
        PROVE  WireInv'
    <3>1. waiting' = waiting \ {q}
          /\ UNCHANGED <<hook, requested, up, runs, down, reports, outcome, delivered, emitted>>
      BY <2>3 DEF Wire!TimesOut
    <3>2. AskedInv' /\ PendingInv' /\ LettersInv' /\ AnswersInv' /\ OutcomeInv'
      BY <1>2, <3>1 DEF WireInv, AskedInv, PendingInv, LettersInv, AnswersInv, OutcomeInv
    <3>3. ArrivalInv'
      BY Zenon, <1>2, <3>1 DEF WireInv, ArrivalInv
    <3> QED
      BY <3>2, <3>3 DEF WireInv
  <2>4. ASSUME NEW m \in up, Wire!Receive(m)
        PROVE  WireInv'
    <3> DEFINE s == Wire!Run(Wire!BuildEnvelope(Wire!ReceiveInput(Wire!Decode(m.wire), m.from), Wire!Empty))
    <3>1. /\ up' = up \ {m} /\ runs' = runs \cup {s}
          /\ UNCHANGED <<hook, requested, waiting, down, reports, outcome, delivered, emitted>>
      BY <2>4 DEF Wire!Receive
    <3>2. IsRequest(m.wire, requested) /\ m.from = m.wire.id[1]
      BY <1>2 DEF WireInv, LettersInv
    <3>3. IsRun(s, requested, hook)
      BY <3>2, ReceivedIs
    <3> HIDE DEF s
    <3> QED
      BY <1>2, <3>1, <3>3, LettersStep
  <2>5. ASSUME NEW e \in reports, Wire!Replay(e)
        PROVE  WireInv'
    <3> DEFINE s == Wire!Run(Wire!BuildEnvelope([e EXCEPT !.context = Wire!Merge(@, [dlq |-> <<"1">>])], Wire!Empty))
    <3>1. /\ reports' = reports \ {e} /\ runs' = runs \cup {s}
          /\ UNCHANGED <<hook, requested, waiting, up, down, outcome, delivered, emitted>>
      BY <2>5 DEF Wire!Replay
    <3>2. IsRequest(e, requested) /\ KnowsClient(e)
      BY <1>2 DEF WireInv, LettersInv, IsReport
    <3>3. IsRun(s, requested, hook)
      BY <3>2, ReplayedIs
    <3> HIDE DEF s
    <3> QED
      BY <1>2, <3>1, <3>3, LettersStep
  <2> QED
    BY <1>2, <2>1, <2>2, <2>3, <2>4, <2>5, RunStep DEF Wire!ExchangeNext
<1>3. WireInv /\ UNCHANGED wireVars => WireInv'
  BY DEF wireVars, WireInv, AskedInv, PendingInv, LettersInv, AnswersInv, ArrivalInv, OutcomeInv
<1> QED
  BY <1>1, <1>2, <1>3

(* What is sent comes to whom it is for. *)
THEOREM EventsAlwaysArrive == MCSpec => []EventsArrive
<1> DEFINE Inv == /\ part = "rooms" => RoomsInv
                  /\ part = "wire" => WireInv
<1>0. Wire!ExchangeConstants
  BY SupportConstants
<1>1. MCInit => Inv
  <2> SUFFICES ASSUME MCInit
               PROVE  Inv
    OBVIOUS
  <2>1. Heard!EventsInit /\ Wire!ExchangeInit
    BY DEF MCInit
  <2> QED
    BY <1>0, <2>1, RoomsSteps, WireSteps
<1>2. Inv /\ [MCNext]_supportVars => Inv'
  <2> SUFFICES ASSUME Inv, [MCNext]_supportVars
               PROVE  Inv'
    OBVIOUS
  <2>1. part' = part
    BY OnePart
  <2>2. part = "rooms" => RoomsInv'
    BY OnePart, RoomsSteps
  <2>3. part = "wire" => WireInv'
    BY <1>0, OnePart, WireSteps
  <2> QED
    BY <2>1, <2>2, <2>3
<1>3. Inv => EventsArrive
  BY DeliveredIs DEF EventsArrive, RoomsInv
<1> QED
  BY <1>1, <1>2, <1>3, PTL DEF MCSpec

=============================================================================
