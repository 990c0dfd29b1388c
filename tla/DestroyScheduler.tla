-------------------------- MODULE DestroyScheduler --------------------------
(***************************************************************************)
(* The scheduler that destroys units nobody has used for a while           *)
(* (packages/sync/src/tracking/destroyScheduler.ts): a plan per unit, and  *)
(* one timeout that is set for the earliest of them.                       *)
(*                                                                         *)
(* Time passes in ticks, and a timeout may be late by any number of them.  *)
(* What onDestroy of a unit calls back is left out; that it throws is not. *)
(***************************************************************************)
EXTENDS Naturals, FiniteSets, FiniteSetsExt

CONSTANTS Units, MaxDelay, MaxTime    \* bounds: delays, ticks of the clock

(* What the constants may be; the instances are checked against it. *)
DestroyConstants == MaxDelay \in Nat /\ MaxTime \in Nat

Delays == 0..MaxDelay
Never  == MaxTime + MaxDelay + 1

VARIABLES
    now,
    plans,       \* destroyPlanByUnit: when each unit is due, or Never
    sweepAt,     \* destroySweepTimeout is set, for destroyNextSweepAt, or Never
    sweeping,    \* runDueDestroyPlans: the units it has found due and not come to yet
    inSweep,
    stranded     \* history: onDestroy threw, and nothing has been planned since

destroyVars == <<now, plans, sweepAt, sweeping, inSweep, stranded>>

Planned(p) == {u \in Units : p[u] # Never}
Earliest(p) == Min({p[u] : u \in Units} \cup {Never})

DestroyInit ==
    /\ now = 0 /\ plans = [u \in Units |-> Never] /\ sweepAt = Never
    /\ sweeping = {} /\ inSweep = FALSE /\ stranded = FALSE

Tick ==
    /\ now < MaxTime /\ ~inSweep /\ now' = now + 1
    /\ UNCHANGED <<plans, sweepAt, sweeping, inSweep, stranded>>

(* clearPendingTrackedUnitDestroy: the timeout is set anew when it was set
   for this plan.                                                          *)
Cleared(u)  == [plans EXCEPT ![u] = Never]
SweepOf(u)  == IF plans[u] # Never /\ plans[u] = sweepAt THEN Earliest(Cleared(u)) ELSE sweepAt

Clear(u) ==
    /\ ~inSweep /\ plans[u] # Never
    /\ plans' = Cleared(u) /\ sweepAt' = SweepOf(u)
    /\ UNCHANGED <<now, sweeping, inSweep, stranded>>

(* Mutant: the timeout stays as it is. *)
ScheduleLater(u, delay) ==
    /\ ~inSweep
    /\ plans' = [Cleared(u) EXCEPT ![u] = IF delay = 0 THEN Never ELSE now + delay]
    /\ sweepAt' = IF delay # 0 /\ SweepOf(u) = Never THEN now + delay ELSE SweepOf(u)
    /\ stranded' = (stranded /\ delay = 0)
    /\ UNCHANGED <<now, sweeping, inSweep>>

(* scheduleTrackedUnitDestroy: the earlier plan of the unit is dropped; with
   no delay it is destroyed at once.                                       *)
Schedule(u, delay) ==
    /\ ~inSweep
    /\ plans' = [Cleared(u) EXCEPT ![u] = IF delay = 0 THEN Never ELSE now + delay]
    /\ sweepAt' = IF delay # 0 /\ now + delay < SweepOf(u) THEN Earliest(plans') ELSE SweepOf(u)
    /\ stranded' = (stranded /\ delay = 0)
    /\ UNCHANGED <<now, sweeping, inSweep>>

(* The timeout's callback takes the units that are due, one after another. *)
Sweep ==
    /\ ~inSweep /\ sweepAt <= now
    /\ sweepAt' = Never /\ inSweep' = TRUE
    /\ sweeping' = {u \in Units : plans[u] <= now}
    /\ UNCHANGED <<now, plans, stranded>>

Destroy(u) ==
    /\ inSweep /\ u \in sweeping
    /\ sweeping' = sweeping \ {u}
    /\ plans' = Cleared(u)
    /\ UNCHANGED <<now, sweepAt, inSweep, stranded>>

(* onDestroy throws out of the callback: the others that are due stay, and
   the timeout is not set again.                                           *)
DestroyThrows(u) ==
    /\ inSweep /\ u \in sweeping
    /\ sweeping' = {} /\ inSweep' = FALSE
    /\ plans' = Cleared(u)
    /\ stranded' = TRUE
    /\ UNCHANGED <<now, sweepAt>>

(* syncDestroySweepTimeout *)
SweepEnds ==
    /\ inSweep /\ sweeping = {}
    /\ inSweep' = FALSE /\ sweepAt' = Earliest(plans)
    /\ UNCHANGED <<now, plans, sweeping, stranded>>

DestroyNext ==
    \/ Tick \/ Sweep \/ SweepEnds
    \/ \E u \in Units : Clear(u) \/ Destroy(u) \/ DestroyThrows(u) \/ \E d \in Delays : Schedule(u, d)

-----------------------------------------------------------------------------
DestroyTypeOK ==
    /\ now \in 0..MaxTime /\ plans \in [Units -> 0..Never] /\ sweepAt \in 0..Never
    /\ sweeping \subseteq Units /\ {inSweep, stranded} \subseteq BOOLEAN

(* Outside a sweep the timeout is set for the unit that is due first, through
   every order of planning, dropping and replacing: no plan is forgotten or
   late for another one.  The exception is an onDestroy that threw.        *)
PlansAreSwept == ~inSweep /\ ~stranded => sweepAt = Earliest(plans)
=============================================================================
