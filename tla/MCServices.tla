----------------------------- MODULE MCServices -----------------------------
(***************************************************************************)
(* The processes around the client: one emit through a chain of hooks of   *)
(* the runtime, the server composed of the transport, the schema module    *)
(* and the dead-letter module, and the command line that keeps the         *)
(* generated client in step with the server's schema.  The part and the    *)
(* instance are chosen once, by the variable part.                         *)
(***************************************************************************)
EXTENDS Service, TLC

CONSTANTS
    Hooks, Behaviours, MaxCalls,
    c1, c2, q1, q2, q3,
    Schemas, Nothing, MaxAttempts, MaxFailures, MaxChanges, MaxStarts,
    Parts

VARIABLES
    part,
    hooks, behaviour, calls, stack, ack, reported, unsubscribed,
    options, served, disk, phase, pending, etag, got, attempt, command, budget, told, failed

H == INSTANCE RuntimeHooks
Sync == INSTANCE SchemaSync

ASSUME ServicesConstants == H!HooksConstants /\ Sync!SyncConstants

hookVars == <<hooks, behaviour, calls, stack, ack, reported, unsubscribed>>
serverVars == <<dlqVars, serviceVars>>
syncVars == <<options, served, disk, phase, pending, etag, got, attempt, command, budget, told,
              failed>>

OneTopic == (q1 :> <<"topic">>) @@ (q2 :> <<>>) @@ (q3 :> <<>>)

(* Which clients connect, which requests they send, and the attempts an
   event has: a request that publishes, two that do not, one that may be
   tried three times, and two clients whose pings are echoed.              *)
Instances ==
    { [clients |-> {c1},     pings |-> {}, requests |-> {q1},     attempts |-> 2],
      [clients |-> {c1},     pings |-> {}, requests |-> {q2, q3}, attempts |-> 2],
      [clients |-> {c1},     pings |-> {}, requests |-> {q2},     attempts |-> 3],
      [clients |-> {c1, c2}, pings |-> {c1}, requests |-> {}, attempts |-> 3] }

ServerNext ==
    /\ Next
    /\ connected' \subseteq part.clients
    /\ arrived' \cap Requests \subseteq part.requests
    /\ arrived' \ Requests \subseteq {<<c, 0, "echo">> : c \in part.pings}

Idle  == [clients |-> {}, pings |-> {}, requests |-> {}, attempts |-> 1]
Chain == Idle
Files == [Idle EXCEPT !.attempts = 2]

AllParts  == Instances \cup {Chain, Files}
OnlyFiles == {Files}

MCInit ==
    /\ part \in Parts
    /\ Init /\ H!Init /\ Sync!SyncInit
    /\ maxAttempts = part.attempts
    /\ part # Chain => hooks = <<>> /\ behaviour = [h \in Hooks |-> "pass"] /\ calls = <<>>
                       /\ stack = <<>> /\ ack = "none" /\ reported = 0 /\ ~unsubscribed
    /\ part # Files => ~options.poll /\ ~options.linked /\ served = CHOOSE s \in Schemas : TRUE

MCNext ==
    /\ \/ part \in Instances /\ ServerNext /\ UNCHANGED <<hookVars, syncVars>>
       \/ part = Chain /\ H!Next /\ UNCHANGED <<serverVars, syncVars>>
       \/ part = Files /\ Sync!SyncNext /\ UNCHANGED <<serverVars, hookVars>>
    /\ UNCHANGED part

SyncFairness ==
    WF_syncVars(part = Files /\ Sync!Steps /\ UNCHANGED <<part, serverVars, hookVars>>)

MCSpec == MCInit /\ [][MCNext]_<<part, hookVars, serverVars, syncVars>> /\ Fairness /\ SyncFairness

HookSymmetry == Permutations(Hooks)

-----------------------------------------------------------------------------
(* The hooks of a chain are called in their order, and a failure in it is
   reported unless a hook drops it (RuntimeHooks).                         *)
HooksAreHonoured == part = Chain => H!HooksTypeOK /\ H!ChainInOrder /\ H!FailuresAreReported

(* A hook that stays registered is not passed over (RuntimeHooks). *)
NoHookIsPassedOver == H!NoHookIsPassedOver

(* What failed on the server and has not gone through since is kept for a
   replay, is replayed by one tick at a time, and no more often than it may
   (Service, DeadLetterQueue).                                             *)
FailedEventsAreReplayed ==
    part \in Instances => ServiceTypeOK /\ FailuresAreKept /\ ReplaysDoNotOverlap /\ AttemptsEnd

(* What the command line has synced is whole, whatever failed and wherever it
   was killed before (SchemaSync).                                         *)
SyncedIsWhole == part = Files => Sync!SyncTypeOK /\ Sync!SyncedIsWhole

(* The timers have done their work some day: the dead-letter module stops its
   ticker, and polling catches up with the server's schema (DeadLetterQueue,
   SchemaSync).                                                            *)
ServicesSettle ==
    /\ TickerStops
    /\ [](part = Files) => Sync!PollingCatchesUp

(* The documentation's word on the build (SchemaSync). *)
SyncIsBuilt == Sync!SyncIsBuilt
=============================================================================
