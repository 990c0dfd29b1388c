---------------------------- MODULE RuntimeHooks ----------------------------
(***************************************************************************)
(* The hook chain of @livon/runtime (packages/runtime/src/runtime.ts): an  *)
(* emit hands an envelope to the first registered hook, and each hook      *)
(* decides what becomes of the rest of the chain by what it does with its  *)
(* next().  One emit of one chain is modelled, with the registrations and  *)
(* unsubscriptions around it: the chain is the live array of hooks.        *)
(*                                                                         *)
(* JavaScript runs a hook to its first await without interruption, through *)
(* every next() on the way, so the calls under way form a stack; while it  *)
(* is not empty nothing else happens.  What a hook does is one of:         *)
(*   "pass"    return next()                                               *)
(*   "later"   wait for something, then return next()                      *)
(*   "answer"  return the envelope, without next()                         *)
(*   "drop"    call next(), but return the envelope without waiting        *)
(*   "twice"   call next() a second time, and return nothing               *)
(*   "once"    unsubscribe itself, then return next()                      *)
(*   "throw"   throw, before anything else                                 *)
(*   "reject"  return a promise that rejects                               *)
(***************************************************************************)
EXTENDS Naturals, Sequences, SequencesExt

CONSTANTS
    Hooks,        \* the hooks that may be registered
    Behaviours,   \* what a hook may do, of the above
    MaxCalls      \* bound on the calls of one emit

(* What the constants may be; the instances are checked against it. *)
HooksConstants ==
    /\ Behaviours \subseteq {"pass", "later", "answer", "drop", "twice", "once", "throw", "reject"}
    /\ MaxCalls \in Nat

VARIABLES
    hooks,        \* hooks.onReceive or hooks.onSend: the live array
    behaviour,    \* what each hook does
    calls,        \* the invocations of hooks, in order
    stack,        \* the calls that are on the JavaScript stack, outermost first
    ack,          \* what the emit resolved to: "none" before, "ok", "failed"
    reported,     \* how often emitErrorHooks was called
    unsubscribed  \* history: a hook has unsubscribed since the emit

hookVars == <<hooks, behaviour, calls, stack, ack, reported, unsubscribed>>

(* A call: its hook, where it sits in the array, the call whose next() made
   it, how many calls of next() it made, the call the last of them made (End
   when the chain was over) and where it has got to.                       *)
End == 0
Call(h, i, p) == [hook |-> h, index |-> i, parent |-> p, nexts |-> 0, child |-> End, st |-> "entered"]

Settled(c) == calls[c].st \in {"ok", "failed"}
Idle       == stack = <<>>

(* What hooks.indexOf and hooks.splice leave of the array. *)
Spliced(h) ==
    IF Contains(hooks, h) THEN RemoveAt(hooks, CHOOSE i \in DOMAIN hooks : hooks[i] = h) ELSE hooks

Init ==
    /\ hooks \in {hs \in SeqOf(Hooks, 3) : IsInjective(hs)}
    /\ behaviour \in [Hooks -> Behaviours]
    /\ calls = <<>> /\ stack = <<>> /\ ack = "none" /\ reported = 0
    /\ unsubscribed = FALSE

-----------------------------------------------------------------------------
(* Mutant: a hook is registered in front of the others. *)
RegisterFirst(h) ==
    /\ Idle /\ ~Contains(hooks, h)
    /\ hooks' = <<h>> \o hooks
    /\ UNCHANGED <<behaviour, calls, stack, ack, reported, unsubscribed>>

(* registerHook pushes at the end, unsub splices the hook out: the indexes
   of the hooks behind it move, also under a run that has passed it.       *)
Register(h) ==
    /\ Idle /\ ~Contains(hooks, h)
    /\ hooks' = Append(hooks, h)
    /\ UNCHANGED <<behaviour, calls, stack, ack, reported, unsubscribed>>

Unsubscribe(h) ==
    /\ Idle /\ Contains(hooks, h)
    /\ hooks' = Spliced(h)
    /\ unsubscribed' = (calls # <<>>)
    /\ UNCHANGED <<behaviour, calls, stack, ack, reported>>

(* invokeHook: the hook now at index i is called, by call p; at the end of
   the array the envelope is the result.                                   *)
Invoke(hs, cs, i, p, pushed) ==
    IF i <= Len(hs)
    THEN /\ Len(cs) < MaxCalls
         /\ calls' = Append(IF p = 0 THEN cs ELSE [cs EXCEPT ![p].child = Len(cs) + 1], Call(hs[i], i, p))
         /\ stack' = Append(pushed, Len(cs) + 1)
    ELSE calls' = cs /\ stack' = pushed

(* emitReceive, emitSend: the chain starts, and an empty one is over at once. *)
Emit ==
    /\ Idle /\ calls = <<>> /\ ack = "none"
    /\ Invoke(hooks, calls, 1, 0, <<>>)
    /\ ack' = IF hooks = <<>> THEN "ok" ELSE "none"
    /\ UNCHANGED <<hooks, behaviour, reported, unsubscribed>>

Top  == Last(stack)
Does(b) == ~Idle /\ behaviour[calls[Top].hook] = b

(* The hook on top of the stack calls its next(): what is behind its index goes on. *)
Goes(hs, cs) ==
    Invoke(hs, [cs EXCEPT ![Top].nexts = @ + 1, ![Top].child = End], calls[Top].index + 1, Top, stack)

CallNext ==
    /\ ~Idle
    /\ LET b == behaviour[calls[Top].hook] IN
       \/ b \in {"pass", "drop"} /\ calls[Top].nexts = 0
       \/ b = "twice" /\ calls[Top].nexts < 2
       \/ b = "later" /\ calls[Top].st = "resumed" /\ calls[Top].nexts = 0
    /\ Goes(hooks, calls)
    /\ UNCHANGED <<hooks, behaviour, ack, reported, unsubscribed>>

CallNextOnce ==
    /\ Does("once") /\ calls[Top].nexts = 0
    /\ hooks' = Spliced(calls[Top].hook)
    /\ unsubscribed' = TRUE
    /\ Goes(hooks', calls)
    /\ UNCHANGED <<behaviour, ack, reported>>

(* The hook returns: its promise is settled, or waits for that of next(). *)
Return(st) ==
    /\ calls' = [calls EXCEPT ![Top].st = st]
    /\ stack' = Front(stack)
    /\ UNCHANGED <<hooks, behaviour, ack, reported, unsubscribed>>

(* Mutant: the promise of next() is not waited for. *)
ReturnNextSettled ==
    /\ ~Idle
    /\ LET b == behaviour[calls[Top].hook] IN
       \/ b \in {"pass", "once", "later"} /\ calls[Top].nexts = 1
       \/ b = "twice" /\ calls[Top].nexts = 2
    /\ Return("ok")

ReturnNext ==
    /\ ~Idle
    /\ LET b == behaviour[calls[Top].hook] IN
       \/ b \in {"pass", "once", "later"} /\ calls[Top].nexts = 1
       \/ b = "twice" /\ calls[Top].nexts = 2
    /\ Return(IF calls[Top].child = End THEN "ok" ELSE "waiting")

ReturnValue ==
    /\ \/ Does("answer")
       \/ Does("drop") /\ calls[Top].nexts = 1
    /\ Return("ok")

Await   == Does("later") /\ calls[Top].st = "entered" /\ Return("suspended")
Rejects == Does("reject") /\ Return("failed")

(* A throw unwinds the stack: no hook on it catches, whatever it would have
   done with its promise.                                                  *)
Throws ==
    /\ Does("throw")
    /\ calls' = [c \in DOMAIN calls |->
                    IF Contains(stack, c) THEN [calls[c] EXCEPT !.st = "failed"] ELSE calls[c]]
    /\ stack' = <<>>
    /\ UNCHANGED <<hooks, behaviour, ack, reported, unsubscribed>>

(* A suspended hook goes on, and its promise rejects when its next() throws. *)
Resume(c) ==
    /\ Idle /\ calls[c].st = "suspended"
    /\ calls' = [calls EXCEPT ![c].st = "resumed"]
    /\ stack' = <<c>>
    /\ UNCHANGED <<hooks, behaviour, ack, reported, unsubscribed>>

(* The promise a call returned settles as the last next() it called. *)
Settle(c) ==
    /\ Idle /\ calls[c].st = "waiting" /\ Settled(calls[c].child)
    /\ calls' = [calls EXCEPT ![c].st = calls[calls[c].child].st]
    /\ UNCHANGED <<hooks, behaviour, stack, ack, reported, unsubscribed>>

(* The emit resolves: a failure is made into an envelope and handed to the
   error hooks, whose own failures are ignored.                            *)
Resolve ==
    /\ Idle /\ ack = "none" /\ calls # <<>> /\ Settled(1)
    /\ ack' = calls[1].st
    /\ reported' = IF calls[1].st = "failed" THEN reported + 1 ELSE reported
    /\ UNCHANGED <<hooks, behaviour, calls, stack, unsubscribed>>

Next ==
    \/ \E h \in Hooks : Register(h) \/ Unsubscribe(h)
    \/ Emit \/ CallNext \/ CallNextOnce \/ ReturnNext \/ ReturnValue \/ Await \/ Rejects \/ Throws
    \/ \E c \in DOMAIN calls : Resume(c) \/ Settle(c)
    \/ Resolve

-----------------------------------------------------------------------------
HooksTypeOK ==
    /\ hooks \in Seq(Hooks) /\ behaviour \in [Hooks -> Behaviours]
    /\ \A c \in DOMAIN calls :
          /\ calls[c].hook \in Hooks /\ calls[c].parent < c /\ calls[c].child \in {End} \cup (c + 1)..Len(calls)
          /\ calls[c].st \in {"entered", "suspended", "resumed", "waiting", "ok", "failed"}
    /\ \A s \in DOMAIN stack : stack[s] \in DOMAIN calls
    /\ ack \in {"none", "ok", "failed"} /\ reported \in 0..1

(* The call that call c's promise settles with: the one its last next()
   made, unless c does not wait for it.                                    *)
Awaits(c) == calls[c].child # End /\ behaviour[calls[c].hook] # "drop"

(* The calls the emit waits for: the first one, and with each the one that
   it waits for.                                                           *)
Awaited ==
    {c \in DOMAIN calls :
        \A cs \in SUBSET DOMAIN calls :
            1 \in cs /\ (\A d \in cs : Awaits(d) => calls[d].child \in cs) => c \in cs}

(* A failure anywhere in the chain makes the emit fail, with one report to
   the error hooks, unless a hook further up dropped the promise of its
   next() or called next() again; and the emit fails for no other reason.  *)
FailuresAreReported ==
    /\ ack = "failed" => reported = 1 /\ \E c \in Awaited : calls[c].st = "failed"
    /\ ack = "ok" => reported = 0 /\ \A c \in Awaited : calls[c].st = "ok"

(* While nobody unsubscribes, the hooks of a run are called in the order of
   their registration and none is passed over, whatever is registered in
   the meantime and wherever a hook pauses.                                *)
ChainInOrder ==
    ~unsubscribed =>
        \A c \in DOMAIN calls : calls[c].parent # 0 =>
            \E i \in 1..Len(hooks) - 1 :
                hooks[i] = calls[calls[c].parent].hook /\ hooks[i + 1] = calls[c].hook

(* The calls from call c up to the emit. *)
PathOf == [c \in DOMAIN calls |->
              LET Path[d \in 0..c] == IF d = 0 THEN {} ELSE {d} \cup Path[calls[d].parent] IN Path[c]]

(* A hook that stays registered is not passed over: of two calls in a row,
   the second is of the hook registered next after the first.              *)
NoHookIsPassedOver ==
    \A c \in DOMAIN calls : calls[c].parent # 0 /\ Contains(hooks, calls[c].hook) =>
        LET p == calls[calls[c].parent].hook IN
        \A j \in 1..(IndexFirstSubSeq(<<calls[c].hook>>, hooks) - 1) :
            \E d \in PathOf[c] : calls[d].hook = hooks[j]
=============================================================================
