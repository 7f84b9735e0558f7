------------------------- MODULE SchedulerRefinement -------------------------
(***************************************************************************)
(* Scheduler implements Processor.  The mapping reads the state of each    *)
(* task, the current task and the pending switch; it does not look at the  *)
(* ready queues, the trap frames, the software interrupt or the stages of  *)
(* execute_switch, which are the mechanism.                                *)
(***************************************************************************)
EXTENDS Scheduler

P == INSTANCE Processor WITH
       Tasks <- Slots,
       Idle <- IDLE,
       None <- NIL,
       Levels <- Priorities,
       RunPolicies <- Policies,
       live <- {t \in Slots : state[t] # "Free"},
       runnable <- {t \in Slots \ {IDLE} : state[t] = "Ready" /\ t # pending.target},
       holder <- current,
       running <- state[current] = "Running",
       heir <- pending.target,
       locked <- lockDepth[current] # 0,
       prio <- priority,
       policy <- policy

\* Whatever interrupts hit the two-phase handoff, the scheduler keeps the
\* promise of module Processor: a successor is chosen once, it is the most
\* urgent task that is ready, it is the one that gets the processor, and nobody
\* loses the processor whom its policy or the scheduler lock protects.
ImplementsProcessor == P!Spec
=============================================================================
