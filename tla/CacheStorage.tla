---------------------------- MODULE CacheStorage ----------------------------
(***************************************************************************)
(* The storage behind the source caches (packages/sync/src/utils,          *)
(* indexedDbCacheStorage): a map in memory in front of an IndexedDB store. *)
(* Calls answer from memory and queue the keys to read and the operations  *)
(* to write; a microtask takes each queue as a batch, opens the database   *)
(* and runs one transaction.  A batch that fails goes back into its queue, *)
(* and the storage is degraded until a timer has opened the database again, *)
(* or disabled when failures are permanent or too many.                    *)
(*                                                                         *)
(* Calls may come at any time; events (of the database and of the timer)   *)
(* wait until the microtasks are done.  The database runs transactions in  *)
(* the order in which they were created; one that fails changes nothing.   *)
(*                                                                         *)
(* Left out: the error a failure is remembered by, the delays of the       *)
(* timers, and a put that throws halfway, whose transaction would commit   *)
(* the puts before it although the batch is put back.                      *)
(***************************************************************************)
EXTENDS Integers

CONSTANTS
    Keys,                   \* keys of cache records
    Values,                 \* records
    Nothing,                \* no record
    NoOperation,            \* the queue has no operation for the key
    MaxTransientFailures    \* retryDelaysMs.length

ASSUME StorageAssumption ==
    /\ Nothing \notin Values
    /\ NoOperation \notin Values \cup {Nothing}
    /\ MaxTransientFailures \in Nat \ {0}

Records    == Values \cup {Nothing}
Operations == Records \cup {NoOperation}    \* set a record, or delete: Nothing

VARIABLES
    valuesByKey,            \* what memory knows of a record ...
    missingKeys,            \* ... and the keys it knows to have none
    pendingReadKeys,
    pendingWrites,          \* pendingWriteOperationsByKey
    readsScheduled, writesScheduled,
    reads,                  \* the batch of flushReads: how far it is, and its keys
    writes,                 \* the batch of flushWrites, and its operations
    status,
    transientFailureCount,
    reconnectScheduled,
    timers,                 \* reconnect timers that will fire
    reconnect,              \* how far reconnect is
    database,               \* databasePromise: none, or how far it is
    older,                  \* whose transaction is the older one, if both have one
    stored,                 \* what the database holds
    wanted,                 \* history: the last operation asked for since it was disabled
    reverted                \* history: keys whose last operation an older one replaced

memory  == <<valuesByKey, missingKeys>>
queues  == <<pendingReadKeys, pendingWrites>>
tasks   == <<readsScheduled, writesScheduled>>
retries == <<status, transientFailureCount, reconnectScheduled, timers>>
history == <<wanted, reverted>>
vars == <<valuesByKey, missingKeys, pendingReadKeys, pendingWrites, readsScheduled,
          writesScheduled, reads, writes, status, transientFailureCount, reconnectScheduled,
          timers, reconnect, database, older, stored, wanted, reverted>>

(* A batch waits for the database, has it, is in its transaction, or was
   refused the database for a reason that may pass or for good.            *)
Phases == {"none", "opening", "opened", "transaction", "refused", "denied"}
Empty  == [k \in Keys |-> NoOperation]

TypeOK ==
    /\ valuesByKey \in [Keys -> Records]
    /\ missingKeys \in SUBSET Keys /\ \A k \in missingKeys : valuesByKey[k] = Nothing
    /\ pendingReadKeys \in SUBSET Keys
    /\ pendingWrites \in [Keys -> Operations]
    /\ readsScheduled \in BOOLEAN /\ writesScheduled \in BOOLEAN
    /\ reads \in [phase : Phases, keys : SUBSET Keys]
    /\ writes \in [phase : Phases, operations : [Keys -> Operations]]
    /\ status \in {"ready", "degraded", "disabled"}
    /\ transientFailureCount \in 0..(MaxTransientFailures - 1)
    /\ reconnectScheduled \in BOOLEAN /\ timers \in Nat
    /\ reconnect \in Phases \ {"transaction"}
    /\ database \in Phases \ {"transaction"}
    /\ older \in {"reads", "writes"}
    /\ stored \in [Keys -> Records]
    /\ wanted \in [Keys -> Operations]
    /\ reverted \in SUBSET Keys

NoReads  == [phase |-> "none", keys |-> {}]
NoWrites == [phase |-> "none", operations |-> Empty]

(* An earlier session left records in the database. *)
Init ==
    /\ valuesByKey = [k \in Keys |-> Nothing] /\ missingKeys = {}
    /\ pendingReadKeys = {} /\ pendingWrites = Empty
    /\ readsScheduled = FALSE /\ writesScheduled = FALSE
    /\ reads = NoReads /\ writes = NoWrites
    /\ status = "ready" /\ transientFailureCount = 0
    /\ reconnectScheduled = FALSE /\ timers = 0 /\ reconnect = "none"
    /\ database = "none" /\ older = "reads"
    /\ stored \in [Keys -> Records]
    /\ wanted = Empty /\ reverted = {}

-----------------------------------------------------------------------------
(* Helpers *)

Queued(operations) == {k \in Keys : operations[k] # NoOperation}

(* Operations put into a queue replace those of the same key. *)
Over(queue, operations) ==
    [k \in Keys |-> IF operations[k] # NoOperation THEN operations[k] ELSE queue[k]]

(* No continuation of a promise is ready: an event may have its turn. *)
Quiet ==
    /\ ~readsScheduled /\ ~writesScheduled
    /\ {reads.phase, writes.phase, reconnect} \cap {"opened", "refused", "denied"} = {}

(* openDatabase: the promise is shared by all who ask while it is kept. *)
Joined == IF database = "none" THEN "opening" ELSE database
OpenDatabase(needed) ==
    database' = IF needed /\ database = "none" THEN "opening" ELSE database

(* scheduleReconnect, if it is asked for while the storage is degraded. *)
ScheduleReconnect(asked) ==
    IF asked /\ ~reconnectScheduled /\ reconnect = "none"
    THEN reconnectScheduled' = TRUE /\ timers' = timers + 1
    ELSE UNCHANGED <<reconnectScheduled, timers>>

(* scheduleReadFlush and scheduleWriteFlush are for a storage that is ready. *)
ScheduleReads(asked)  == readsScheduled' = (readsScheduled \/ (asked /\ status = "ready"))
ScheduleWrites(asked) == writesScheduled' = (writesScheduled \/ (asked /\ status = "ready"))

(* markDisabled: memory and the queues are dropped; the timer is not. *)
Disable ==
    /\ status' = "disabled"
    /\ reconnectScheduled' = FALSE
    /\ valuesByKey' = [k \in Keys |-> Nothing] /\ missingKeys' = {}
    /\ pendingReadKeys' = {} /\ pendingWrites' = Empty
    /\ database' = "none"
    /\ wanted' = Empty /\ reverted' = {}
    /\ UNCHANGED <<transientFailureCount, timers>>

(* handleTransientFailure and scheduleReconnect, with what is to be done again. *)
Degrade(readKeys, operations) ==
    /\ status' = "degraded"
    /\ transientFailureCount' = transientFailureCount + 1
    /\ database' = "none"
    /\ pendingReadKeys' = pendingReadKeys \cup readKeys
    /\ pendingWrites' = Over(pendingWrites, operations)
    /\ ScheduleReconnect(TRUE)
    /\ reverted' = reverted \cup (Queued(operations) \cap Queued(pendingWrites))
    /\ UNCHANGED <<memory, wanted>>

(* Mutant: one failure too many is forgiven. *)
HandleFailureLate(permanent, readKeys, operations) ==
    IF permanent \/ transientFailureCount >= MaxTransientFailures THEN Disable
    ELSE Degrade(readKeys, operations)

(* handleStorageFailure *)
HandleFailure(permanent, readKeys, operations) ==
    IF permanent \/ transientFailureCount + 1 >= MaxTransientFailures THEN Disable
    ELSE Degrade(readKeys, operations)

-----------------------------------------------------------------------------
(* Calls of the application.  A disabled storage does nothing. *)

Known(k) == k \in missingKeys \/ valuesByKey[k] # Nothing

GetItem(k) ==
    /\ status # "disabled"
    /\ pendingReadKeys' = IF Known(k) THEN pendingReadKeys ELSE pendingReadKeys \cup {k}
    /\ ScheduleReads(~Known(k))
    /\ ScheduleReconnect(status = "degraded")
    /\ UNCHANGED <<memory, pendingWrites, writesScheduled, reads, writes, status,
                   transientFailureCount, reconnect, database, older, stored, history>>

(* Mutant: a degraded storage only queues. *)
WriteQuietly(k, operation) ==
    /\ status # "disabled"
    /\ valuesByKey' = [valuesByKey EXCEPT ![k] = operation]
    /\ missingKeys' = IF operation = Nothing THEN missingKeys \cup {k} ELSE missingKeys \ {k}
    /\ pendingWrites' = [pendingWrites EXCEPT ![k] = operation]
    /\ ScheduleWrites(TRUE)
    /\ wanted' = [wanted EXCEPT ![k] = operation]
    /\ reverted' = reverted \ {k}
    /\ UNCHANGED <<pendingReadKeys, readsScheduled, reads, writes, retries, reconnect, database,
                   older, stored>>

(* setItem with a record, removeItem with Nothing *)
Write(k, operation) ==
    /\ status # "disabled"
    /\ valuesByKey' = [valuesByKey EXCEPT ![k] = operation]
    /\ missingKeys' = IF operation = Nothing THEN missingKeys \cup {k} ELSE missingKeys \ {k}
    /\ pendingWrites' = [pendingWrites EXCEPT ![k] = operation]
    /\ ScheduleWrites(TRUE)
    /\ ScheduleReconnect(status = "degraded")
    /\ wanted' = [wanted EXCEPT ![k] = operation]
    /\ reverted' = reverted \ {k}
    /\ UNCHANGED <<pendingReadKeys, readsScheduled, reads, writes, status,
                   transientFailureCount, reconnect, database, older, stored>>

-----------------------------------------------------------------------------
(* Batches *)

StartsReads  == status = "ready" /\ reads.phase = "none" /\ pendingReadKeys # {}
StartsWrites == status = "ready" /\ writes.phase = "none" /\ Queued(pendingWrites) # {}

(* Keys with an operation under way are not read. *)
Readable == pendingReadKeys \ Queued(pendingWrites)

(* flushReads, up to its first await *)
FlushReads ==
    IF StartsReads
    THEN /\ pendingReadKeys' = {}
         /\ reads' = IF Readable = {} THEN NoReads ELSE [phase |-> Joined, keys |-> Readable]
    ELSE UNCHANGED <<pendingReadKeys, reads>>

(* flushWrites, up to its first await *)
FlushWrites ==
    IF StartsWrites
    THEN pendingWrites' = Empty /\ writes' = [phase |-> Joined, operations |-> pendingWrites]
    ELSE UNCHANGED <<pendingWrites, writes>>

RunReadsTask ==
    /\ readsScheduled /\ readsScheduled' = FALSE
    /\ FlushReads
    /\ OpenDatabase(StartsReads /\ Readable # {})
    /\ UNCHANGED <<memory, pendingWrites, writesScheduled, writes, retries, reconnect,
                   older, stored, history>>

RunWritesTask ==
    /\ writesScheduled /\ writesScheduled' = FALSE
    /\ FlushWrites
    /\ OpenDatabase(StartsWrites)
    /\ UNCHANGED <<memory, pendingReadKeys, readsScheduled, reads, retries, reconnect,
                   older, stored, history>>

(* flush, called by the application *)
Flush ==
    /\ status # "disabled"
    /\ FlushReads
    /\ FlushWrites
    /\ OpenDatabase((StartsReads /\ Readable # {}) \/ StartsWrites)
    /\ ScheduleReconnect(status = "degraded")
    /\ UNCHANGED <<memory, tasks, status, transientFailureCount, reconnect, older, stored,
                   history>>

(* The database is there: the batch creates its transaction. *)
BeginReads ==
    /\ reads.phase = "opened"
    /\ reads' = [reads EXCEPT !.phase = "transaction"]
    /\ older' = IF writes.phase = "transaction" THEN "writes" ELSE "reads"
    /\ UNCHANGED <<memory, queues, tasks, writes, retries, reconnect, database, stored, history>>

BeginWrites ==
    /\ writes.phase = "opened"
    /\ writes' = [writes EXCEPT !.phase = "transaction"]
    /\ older' = IF reads.phase = "transaction" THEN "reads" ELSE "writes"
    /\ UNCHANGED <<memory, queues, tasks, reads, retries, reconnect, database, stored, history>>

(* Memory takes over what was read, whatever was written meanwhile. *)
ReadsSucceed ==
    /\ Quiet /\ reads.phase = "transaction"
    /\ writes.phase = "transaction" => older = "reads"
    /\ valuesByKey' = [k \in Keys |-> IF k \in reads.keys THEN stored[k] ELSE valuesByKey[k]]
    /\ missingKeys' = {k \in Keys : IF k \in reads.keys THEN stored[k] = Nothing
                                                        ELSE k \in missingKeys}
    /\ reads' = NoReads
    /\ ScheduleReads(pendingReadKeys # {})
    /\ UNCHANGED <<older, queues, writesScheduled, writes, retries, reconnect, database, stored,
                   history>>

(* Mutant: what was queued during the transaction is left for the next call. *)
WritesSucceedAlone ==
    /\ Quiet /\ writes.phase = "transaction"
    /\ reads.phase = "transaction" => older = "writes"
    /\ stored' = Over(stored, writes.operations)
    /\ writes' = NoWrites
    /\ UNCHANGED <<older, memory, queues, tasks, reads, retries, reconnect, database, history>>

WritesSucceed ==
    /\ Quiet /\ writes.phase = "transaction"
    /\ reads.phase = "transaction" => older = "writes"
    /\ stored' = Over(stored, writes.operations)
    /\ writes' = NoWrites
    /\ ScheduleWrites(Queued(pendingWrites) # {})
    /\ UNCHANGED <<older, memory, queues, readsScheduled, reads, retries, reconnect, database,
                   history>>

(* A batch fails, in its transaction, on creating it, or for want of the
   database: its keys go back into the queue, over what was queued
   meanwhile.  A write's transaction reports no reason, so it may pass.    *)
Fails(phase, permanent) ==
    \/ phase \in {"opened", "transaction"} /\ permanent \in BOOLEAN
    \/ phase = "refused" /\ ~permanent
    \/ phase = "denied" /\ permanent

ReadsFail(permanent) ==
    /\ Fails(reads.phase, permanent) /\ (reads.phase = "transaction" => Quiet)
    /\ HandleFailure(permanent, reads.keys, Empty)
    /\ reads' = NoReads
    /\ UNCHANGED <<older, tasks, writes, reconnect, stored>>

(* Mutant: the batch is not put back. *)
WritesFailLosing(permanent) ==
    /\ Fails(writes.phase, permanent)
    /\ writes.phase = "transaction" => Quiet /\ ~permanent
    /\ HandleFailure(permanent, {}, Empty)
    /\ writes' = NoWrites
    /\ UNCHANGED <<older, tasks, reads, reconnect, stored>>

WritesFail(permanent) ==
    /\ Fails(writes.phase, permanent)
    /\ writes.phase = "transaction" => Quiet /\ ~permanent
    /\ HandleFailure(permanent, {}, writes.operations)
    /\ writes' = NoWrites
    /\ UNCHANGED <<older, tasks, reads, reconnect, stored>>

-----------------------------------------------------------------------------
(* The database is opened, and opened again *)

(* Batches wait for one promise.  reconnect drops that promise and waits for
   one of its own, which no batch joins before it is resolved.             *)
BatchesWait == "opening" \in {reads.phase, writes.phase}

BatchesGet(outcome) ==
    /\ BatchesWait
    /\ reads' = IF reads.phase = "opening" THEN [reads EXCEPT !.phase = outcome] ELSE reads
    /\ writes' = IF writes.phase = "opening" THEN [writes EXCEPT !.phase = outcome] ELSE writes
    /\ database' = IF database = "opening" /\ reconnect # "opening" THEN outcome ELSE database
    /\ UNCHANGED <<memory, queues, tasks, retries, reconnect, older, stored, history>>

(* A failure of a batch may have dropped the promise meanwhile. *)
ReconnectGets(outcome) ==
    /\ reconnect = "opening"
    /\ reconnect' = outcome
    /\ database' = IF database = "opening" THEN outcome ELSE database
    /\ UNCHANGED <<memory, queues, tasks, retries, reads, writes, older, stored, history>>

(* The browser opens databases in the order it was asked for them ... *)
OpenSucceeds ==
    /\ Quiet
    /\ BatchesGet("opened") \/ (~BatchesWait /\ ReconnectGets("opened"))

(* ... and refuses one later or, when open throws, at once. *)
OpenFails(permanent) ==
    LET outcome == IF permanent THEN "denied" ELSE "refused"
    IN  BatchesGet(outcome) \/ ReconnectGets(outcome)

(* The timer does not look whether it is the one that was scheduled last. *)
ReconnectTimerFires ==
    /\ Quiet /\ timers > 0
    /\ timers' = timers - 1
    /\ reconnectScheduled' = FALSE
    /\ IF status = "degraded" /\ reconnect = "none"
       THEN reconnect' = "opening" /\ database' = "opening"
       ELSE UNCHANGED <<reconnect, database>>
    /\ UNCHANGED <<memory, queues, tasks, reads, writes, status, transientFailureCount,
                   older, stored, history>>

(* Mutant: only the writes are taken up again. *)
ReconnectsForWrites ==
    /\ reconnect = "opened"
    /\ reconnect' = "none"
    /\ status' = "ready"
    /\ transientFailureCount' = 0
    /\ writesScheduled' = (writesScheduled \/ Queued(pendingWrites) # {})
    /\ UNCHANGED <<memory, queues, readsScheduled, reads, writes, reconnectScheduled, timers,
                   database, older, stored, history>>

(* reconnect, after its await, whatever the status is by now *)
Reconnects ==
    /\ reconnect = "opened"
    /\ reconnect' = "none"
    /\ status' = "ready"
    /\ transientFailureCount' = 0
    /\ readsScheduled' = (readsScheduled \/ pendingReadKeys # {})
    /\ writesScheduled' = (writesScheduled \/ Queued(pendingWrites) # {})
    /\ UNCHANGED <<memory, queues, reads, writes, reconnectScheduled, timers, database,
                   older, stored, history>>

(* No timer is scheduled for another attempt: reconnect is still in flight. *)
ReconnectFails ==
    /\ reconnect \in {"refused", "denied"}
    /\ HandleFailure(reconnect = "denied", {}, Empty)
    /\ reconnect' = "none"
    /\ UNCHANGED <<tasks, reads, writes, older, stored>>

-----------------------------------------------------------------------------
Calls ==
    \/ \E k \in Keys : GetItem(k)
    \/ \E k \in Keys, operation \in Records : Write(k, operation)
    \/ Flush

(* The continuation of a batch after its await of the database, or of its
   transaction if it ends badly.                                           *)
ContinueReads  == BeginReads \/ \E permanent \in BOOLEAN :
                                    reads.phase # "transaction" /\ ReadsFail(permanent)
ContinueWrites == BeginWrites \/ \E permanent \in BOOLEAN :
                                    writes.phase # "transaction" /\ WritesFail(permanent)
TransactionFails == \E permanent \in BOOLEAN :
    \/ reads.phase = "transaction" /\ ReadsFail(permanent)
    \/ writes.phase = "transaction" /\ WritesFail(permanent)

Microtasks ==
    \/ RunReadsTask \/ RunWritesTask
    \/ ContinueReads \/ ContinueWrites
    \/ Reconnects \/ ReconnectFails

Events ==
    \/ ReadsSucceed \/ WritesSucceed \/ TransactionFails
    \/ OpenSucceeds \/ \E permanent \in BOOLEAN : OpenFails(permanent)
    \/ ReconnectTimerFires

Next == Calls \/ Microtasks \/ Events

(* Fairness: every microtask runs, and an event that is due time and again
   has its turn, however many calls come between.                          *)
Spec     == Init /\ [][Next]_vars
FairSpec == Spec /\ WF_vars(RunReadsTask) /\ WF_vars(RunWritesTask)
                 /\ WF_vars(ContinueReads) /\ WF_vars(ContinueWrites)
                 /\ WF_vars(Reconnects \/ ReconnectFails)
                 /\ SF_vars(Events)

-----------------------------------------------------------------------------
(* Properties *)

(* Whatever is queued while the storage is ready has somebody who will take
   it: a microtask, or the batch under way, which looks at the queue when it
   ends.  No mix of failures, reconnections and calls strands it.          *)
PendingWorkIsScheduled ==
    status = "ready" =>
        /\ pendingReadKeys # {} => readsScheduled \/ reads.phase # "none"
        /\ Queued(pendingWrites) # {} => writesScheduled \/ writes.phase # "none"

(* A write the application made is in the queue, under way, or in the
   database, until the storage is disabled.  (But for one that a failed
   batch with an older operation replaced in the queue.)                   *)
NoWriteIsLost ==
    status # "disabled" =>
        \A k \in Queued(wanted) \ reverted :
            \/ pendingWrites[k] = wanted[k]
            \/ pendingWrites[k] = NoOperation /\ writes.operations[k] = wanted[k]
            \/ pendingWrites[k] = NoOperation /\ writes.operations[k] = NoOperation
               /\ stored[k] = wanted[k]

(* A call of a degraded storage leaves an attempt to reconnect under way. *)
CallsRevive ==
    [][Calls /\ status = "degraded" =>
           \/ reconnectScheduled' /\ timers' > 0
           \/ reconnect' # "none"]_vars

(* Every queued operation is taken up some day, as long as the storage is
   ready and the application lets the microtasks come to an end.           *)
QueuedWritesAreTaken ==
    []<>Quiet => \A k \in Keys :
        status = "ready" /\ pendingWrites[k] # NoOperation
            ~> status # "ready" \/ pendingWrites[k] = NoOperation
=============================================================================
