------------------------------ MODULE Scheduler ------------------------------
(***************************************************************************)
(* The single-hart scheduler of hisi-rtos in its ported profile            *)
(* (start_with_port): task states, priority ready queues, the scheduler    *)
(* lock, the two-phase thread-mode handoff (commit a switch ticket, pend a *)
(* software interrupt, spin until resumed) and the trap epilogue that      *)
(* performs every context switch.                                          *)
(*                                                                         *)
(* One action is one critical section of src/src/runtime.rs or             *)
(* src/src/runtime/{scheduler,time,driver}.rs.  Interrupts may arrive      *)
(* between any two critical sections, and only there.                      *)
(*                                                                         *)
(* Time is abstracted: whether a sleeper, a timed wait, a budget or a slice *)
(* is due when a timer interrupt is served is a nondeterministic choice.   *)
(* What a Blocked task waits for is abstracted too: some task or handler   *)
(* wakes it, or its timeout does.  Numeric budgets are in module Budget.   *)
(***************************************************************************)
EXTENDS SlotLists

CONSTANTS TaskSlots,       \* TASK_SLOT_COUNT: main, idle and the dynamic slots
          PriorityLevels,  \* PRIORITY_LEVELS: 0 is the highest priority
          Reconfigurable,  \* slots whose TaskId a caller of the set_task_* API holds
          UserPolicies,    \* run policies that callers pass to spawn and set_run_policy
          MaxLockDepth,    \* bound on scheduler-lock nesting (u16 in the code)
          MaxIrqDepth      \* bound on interrupt nesting (u16 in the code)

ASSUME TaskSlotsAssumption == TaskSlots \in Nat /\ TaskSlots >= 3
ASSUME PriorityLevelsAssumption == PriorityLevels \in Nat /\ PriorityLevels >= 1
ASSUME ReconfigurableAssumption == Reconfigurable \subseteq 0..(TaskSlots - 1)
ASSUME UserPoliciesAssumption ==
         UserPolicies \subseteq {"Cooperative", "Budgeted", "Preemptive"}
ASSUME BoundsAssumption == MaxLockDepth \in Nat /\ MaxIrqDepth \in Nat

Slots == 0..(TaskSlots - 1)
MAIN == 0
IDLE == 1
NIL == -1
Dynamic == Slots \ {MAIN, IDLE}
Priorities == 0..(PriorityLevels - 1)
Lowest == PriorityLevels - 1

States == {"Free", "Ready", "Running", "Blocked", "Sleeping", "Throttled"}
Policies == {"Cooperative", "Budgeted", "Preemptive"}

\* Where the thread-mode code of a task stands: in application code, about to
\* pend the reschedule that follows a wake, or in one of the three stages of
\* execute_switch.
Locations == {"run", "request", "deliver", "pend", "spin"}
InSwitch == {"deliver", "pend", "spin"}

\* Why the firmware stopped: a failed assertion, or the port's non-returning
\* contract_violation handler.
Halts == {"no", "second_intent", "target_not_detached", "intent_not_committed",
          "target_without_frame", "no_saved_frame", "exit_while_locked",
          "lock_overrun"}

NoSwitch == [previous |-> NIL, target |-> NIL]

VARIABLES
  state,      \* tasks[t].state
  priority,   \* tasks[t].priority, the effective priority
  policy,     \* tasks[t].run_policy, without its durations
  frame,      \* tasks[t].saved_frame # 0
  resumed,    \* tasks[t].resume_generation differs from the one t's last intent captured
  lockDepth,  \* tasks[t].scheduler_lock_depth
  overrun,    \* tasks[t].budget.lock_overrun_pending
  ready,      \* the intrusive ready list of each priority, head first
  current,    \* Sched.current: the task whose thread-mode code the hart executes
  pending,    \* Sched.pending_switch
  slice,      \* Sched.time_slice_pending
  irqDepth,   \* INTERRUPT_DEPTH
  swi,        \* the software interrupt is pending in hardware
  pc,         \* thread-mode location of each task
  target,     \* target of the intent t carries into execute_switch, NIL once it is dead
  halted      \* why the firmware stopped, or "no"

taskVars == <<state, priority, policy, frame, resumed, lockDepth, overrun>>
schedVars == <<ready, current, pending, slice>>
threadVars == <<pc, target>>
vars == <<taskVars, schedVars, threadVars, irqDepth, swi, halted>>

-----------------------------------------------------------------------------
(* Ready queues. *)

\* Fault: a new arrival is linked at the head of its list.
PushAtHead(r, p, t) == [r EXCEPT ![p] = <<t>> \o @]

\* ready_push of task t into the bucket of priority p.
Push(r, p, t) == [r EXCEPT ![p] = Append(@, t)]

\* Fault: make_ready queues the idle task too.
QueueReadyWithIdle(r, t) == Push(r, priority[t], t)

\* The queue part of make_ready: the idle task is never queued.
QueueReady(r, t) == IF t = IDLE THEN r ELSE Push(r, priority[t], t)

\* Fault: ready_pop serves any non-empty list.
ReadyPopAnyBucket(r) ==
  { [task |-> Head(r[p]), bucket |-> p, rest |-> [r EXCEPT ![p] = Tail(@)]] :
      p \in { q \in Priorities : r[q] # <<>> } }

\* Fault: ready_pop does not unlink the head.
ReadyPopPeeks(r) ==
  { [task |-> Head(r[p]), bucket |-> p, rest |-> r] :
      p \in { q \in Priorities : /\ r[q] # <<>>
                                 /\ \A h \in 0..(q - 1) : r[h] = <<>> } }

\* ready_pop: the head of the first non-empty bucket, in a set that is empty
\* when nothing is ready.
ReadyPop(r) ==
  { [task |-> Head(r[p]), bucket |-> p, rest |-> [r EXCEPT ![p] = Tail(@)]] :
      p \in { q \in Priorities : /\ r[q] # <<>>
                                 /\ \A h \in 0..(q - 1) : r[h] = <<>> } }

ReadyPopOrIdle(r) ==
  IF ReadyPop(r) = {}
  THEN { [task |-> IDLE, bucket |-> Lowest, rest |-> r] }
  ELSE ReadyPop(r)

Queued(t) == \E p \in Priorities : \E i \in DOMAIN ready[p] : ready[p][i] = t

At(S, p) == {t \in S \ {IDLE} : priority[t] = p}

\* wake_sleepers: the due sleepers and timed waits W become ready, then the
\* throttled tasks R whose replenishment boundary has passed.
Waking(W, R) ==
  [p \in Priorities |-> ready[p] \o InSlotOrder(At(W, p)) \o InSlotOrder(At(R, p))]
Woken(W, R) ==
  [t \in Slots |-> IF t \in W \cup R THEN "Ready" ELSE state[t]]
Dormant == {t \in Slots : state[t] \in {"Sleeping", "Blocked"}}
Exhausted == {t \in Slots : state[t] = "Throttled"}

-----------------------------------------------------------------------------
(* The switch ticket. *)

\* Fault: take_reschedule_target does not look at the run policy.
DisplacingAnyPolicy(t, r, allowEqual) ==
  { pop \in ReadyPop(r) :
      \/ t = IDLE
      \/ pop.bucket < priority[t]
      \/ allowEqual /\ pop.bucket = priority[t] }

\* take_reschedule_target for a running, unlocked task: what may displace it.
Displacing(t, r, allowEqual) ==
  { pop \in ReadyPop(r) :
      \/ t = IDLE
      \/ /\ policy[t] = "Preemptive"
         /\ \/ pop.bucket < priority[t]
            \/ allowEqual /\ pop.bucket = priority[t] }

\* prepare_switch_intent and commit_switch_intent, in one critical section of
\* the ported profile.  `queues` is the ready queue left by the caller.
CommitSwitch(t, next, st, queues) ==
  /\ pending' = [previous |-> t, target |-> next]
  /\ target' = [target EXCEPT ![t] = next]
  /\ resumed' = [resumed EXCEPT ![t] = FALSE]
  /\ pc' = [pc EXCEPT ![t] = "deliver"]
  /\ ready' = queues
  /\ state' = st
  /\ halted' =
       IF pending # NoSwitch THEN "second_intent"
       ELSE IF /\ next \notin {t, IDLE}
               /\ \/ st[next] # "Ready"
                  \/ \E p \in Priorities : \E i \in DOMAIN queues[p] : queues[p][i] = next
            THEN "target_not_detached"
       ELSE halted

-----------------------------------------------------------------------------
(* Thread mode: the application code of the current task calls the runtime. *)

Executing(t) ==
  /\ halted = "no"
  /\ irqDepth = 0
  /\ current = t
  /\ pc[t] = "run"

\* Fault: the guard is missing.
SwitchGuardMissing(t) == lockDepth[t] \in Nat

\* current_switch_guard: a task that holds the scheduler lock may not leave the
\* processor.
SwitchGuard(t) == lockDepth[t] = 0

\* yield_now: wake what is due, take the next ready task, then requeue the
\* caller behind it.  With nothing ready the call returns without a change.
Yield(t) ==
  /\ Executing(t)
  /\ SwitchGuard(t)
  /\ \E W \in SUBSET Dormant, R \in SUBSET Exhausted :
       \E pop \in ReadyPop(Waking(W, R)) :
         CommitSwitch(t, pop.task, [Woken(W, R) EXCEPT ![t] = "Ready"],
                      QueueReady(pop.rest, t))
  /\ UNCHANGED <<priority, policy, frame, lockDepth, overrun, current, slice,
                 irqDepth, swi>>

\* prepare_switch_away_decision for a caller that leaves the processor in state s.
SwitchAway(t, s) ==
  \E pop \in ReadyPopOrIdle(ready) :
    CommitSwitch(t, pop.task, [state EXCEPT ![t] = s], pop.rest)

\* sleep_ms.
Sleep(t) ==
  /\ Executing(t)
  /\ t # IDLE
  /\ SwitchGuard(t)
  /\ SwitchAway(t, "Sleeping")
  /\ UNCHANGED <<priority, policy, frame, lockDepth, overrun, current, slice,
                 irqDepth, swi>>

\* The blocking half of Semaphore::down, down_timeout and RtosMutex::lock.
Block(t) ==
  /\ Executing(t)
  /\ t # IDLE
  /\ SwitchGuard(t)
  /\ SwitchAway(t, "Blocked")
  /\ UNCHANGED <<priority, policy, frame, lockDepth, overrun, current, slice,
                 irqDepth, swi>>

\* task_exit: the control block is emptied while its code still executes.
Exit(t) ==
  /\ Executing(t)
  /\ t \in Dynamic
  /\ lockDepth[t] = 0
  /\ SwitchAway(t, "Free")
  /\ frame' = [frame EXCEPT ![t] = FALSE]
  /\ priority' = [priority EXCEPT ![t] = Lowest]
  /\ policy' = [policy EXCEPT ![t] = "Cooperative"]
  /\ overrun' = [overrun EXCEPT ![t] = FALSE]
  /\ UNCHANGED <<lockDepth, current, slice, irqDepth, swi>>

\* task_exit asserts that the scheduler lock is not held.
ExitLocked(t) ==
  /\ Executing(t)
  /\ t \in Dynamic
  /\ lockDepth[t] # 0
  /\ halted' = "exit_while_locked"
  /\ UNCHANGED <<taskVars, schedVars, threadVars, irqDepth, swi>>

\* spawn: the lowest free dynamic slot, its policy installed before it is queued.
Spawn(t, p, pol) ==
  /\ Executing(t)
  /\ t # IDLE
  /\ \E s \in Dynamic :
       /\ state[s] = "Free"
       /\ \A u \in Dynamic : u < s => state[u] # "Free"
       /\ state' = [state EXCEPT ![s] = "Ready"]
       /\ priority' = [priority EXCEPT ![s] = p]
       /\ policy' = [policy EXCEPT ![s] = pol]
       /\ frame' = [frame EXCEPT ![s] = TRUE]
       /\ resumed' = [resumed EXCEPT ![s] = TRUE]
       /\ pc' = [pc EXCEPT ![s] = "run"]
       /\ target' = [target EXCEPT ![s] = NIL]
       /\ ready' = Push(ready, p, s)
  /\ UNCHANGED <<lockDepth, overrun, current, pending, slice, irqDepth, swi,
                 halted>>

\* Semaphore::up, RtosMutex::unlock or cancel_wait from thread mode: the waiter
\* stays owned by the ready queue, and a reschedule is pended afterwards.
Wake(t, w) ==
  /\ Executing(t)
  /\ t # IDLE
  /\ state[w] = "Blocked"
  /\ state' = [state EXCEPT ![w] = "Ready"]
  /\ ready' = QueueReady(ready, w)
  /\ pc' = [pc EXCEPT ![t] = "request"]
  /\ UNCHANGED <<priority, policy, frame, resumed, lockDepth, overrun, current,
                 pending, slice, target, irqDepth, swi, halted>>

\* Fault: the wake is not followed by a pended reschedule.
RequestRescheduleLost(t) ==
  /\ halted = "no" /\ irqDepth = 0 /\ current = t
  /\ pc[t] = "request"
  /\ pc' = [pc EXCEPT ![t] = "run"]
  /\ UNCHANGED <<taskVars, schedVars, target, irqDepth, swi, halted>>

\* request_reschedule: pends the software interrupt.
RequestReschedule(t) ==
  /\ halted = "no" /\ irqDepth = 0 /\ current = t
  /\ pc[t] = "request"
  /\ swi' = TRUE
  /\ pc' = [pc EXCEPT ![t] = "run"]
  /\ UNCHANGED <<taskVars, schedVars, target, irqDepth, halted>>

\* lock_scheduler.
LockScheduler(t) ==
  /\ Executing(t)
  /\ t # IDLE
  /\ lockDepth[t] < MaxLockDepth
  /\ lockDepth' = [lockDepth EXCEPT ![t] = @ + 1]
  /\ UNCHANGED <<state, priority, policy, frame, resumed, overrun, schedVars,
                 threadVars, irqDepth, swi, halted>>

\* Fault: an unbalanced unlock is accepted.
HoldsLockUnchecked(t) == lockDepth[t] \in Int

\* unlock_current fails unless the caller holds the lock.
HoldsLock(t) == lockDepth[t] # 0

\* The outermost unlock settles an exhaustion that the lock deferred ...
UnlockThrottles(t) ==
  /\ lockDepth[t] = 1
  /\ overrun[t]
  /\ overrun' = [overrun EXCEPT ![t] = FALSE]
  /\ SwitchAway(t, "Throttled")
  /\ UNCHANGED slice

\* ... or takes the preemption that the lock held back ...
UnlockPreempts(t) ==
  /\ lockDepth[t] = 1
  /\ ~overrun[t]
  /\ \E pop \in Displacing(t, ready, slice) :
       CommitSwitch(t, pop.task, [state EXCEPT ![t] = "Ready"], QueueReady(pop.rest, t))
  /\ slice' = FALSE
  /\ UNCHANGED overrun

\* ... or, like every inner unlock, just returns.
UnlockReturns(t) ==
  /\ \/ lockDepth[t] > 1
     \/ ~overrun[t] /\ Displacing(t, ready, slice) = {}
  /\ UNCHANGED <<state, resumed, overrun, ready, pending, slice, threadVars, halted>>

\* unlock_scheduler.
UnlockScheduler(t) ==
  /\ Executing(t)
  /\ t # IDLE
  /\ HoldsLock(t)
  /\ lockDepth' = [lockDepth EXCEPT ![t] = @ - 1]
  /\ UnlockThrottles(t) \/ UnlockPreempts(t) \/ UnlockReturns(t)
  /\ UNCHANGED <<priority, policy, frame, current, irqDepth, swi>>

\* execute_switch, its assertions on the intent it is about to deliver.
Deliver(t) ==
  /\ halted = "no" /\ irqDepth = 0 /\ current = t
  /\ pc[t] = "deliver"
  /\ pc' = [pc EXCEPT ![t] = "pend"]
  /\ target' = [target EXCEPT ![t] = NIL]
  /\ halted' =
       IF ~(pending.previous = t \/ resumed[t]) THEN "intent_not_committed"
       ELSE IF ~(frame[target[t]] \/ current = target[t]) THEN "target_without_frame"
       ELSE halted
  /\ UNCHANGED <<taskVars, schedVars, irqDepth, swi>>

\* Fault: the committed switch is not pended.
PendLost(t) ==
  /\ halted = "no" /\ irqDepth = 0 /\ current = t
  /\ pc[t] = "pend"
  /\ pc' = [pc EXCEPT ![t] = "spin"]
  /\ UNCHANGED <<taskVars, schedVars, target, irqDepth, swi, halted>>

\* execute_switch: port.pend_reschedule.
Pend(t) ==
  /\ halted = "no" /\ irqDepth = 0 /\ current = t
  /\ pc[t] = "pend"
  /\ swi' = TRUE
  /\ pc' = [pc EXCEPT ![t] = "spin"]
  /\ UNCHANGED <<taskVars, schedVars, target, irqDepth, halted>>

\* execute_switch: the spin loop sees that the task was resumed.
Resume(t) ==
  /\ halted = "no" /\ irqDepth = 0 /\ current = t
  /\ pc[t] = "spin"
  /\ resumed[t]
  /\ pc' = [pc EXCEPT ![t] = "run"]
  /\ UNCHANGED <<taskVars, schedVars, target, irqDepth, swi, halted>>

\* The set_task_* calls check neither the interrupt depth nor the scheduler lock:
\* application code and interrupt handlers may both make them.
MayCall ==
  /\ halted = "no"
  /\ irqDepth = 0 => pc[current] = "run" /\ current # IDLE

\* set_run_policy: a queued task moves to the tail of its queue; a throttled
\* one starts a new policy lifetime as Ready.
SetRunPolicy(s, pol) ==
  /\ MayCall
  /\ s \in Reconfigurable
  /\ state[s] # "Free"
  /\ policy' = [policy EXCEPT ![s] = pol]
  /\ overrun' = [overrun EXCEPT ![s] = FALSE]
  /\ state' = [state EXCEPT ![s] = IF @ = "Throttled" THEN "Ready" ELSE @]
  /\ ready' = IF state[s] = "Ready" /\ Queued(s)
              THEN Push([ready EXCEPT ![priority[s]] = Without(@, s)], priority[s], s)
              ELSE IF state[s] = "Throttled" THEN Push(ready, priority[s], s)
              ELSE ready
  /\ UNCHANGED <<priority, frame, resumed, lockDepth, current, pending, slice,
                 threadVars, irqDepth, swi, halted>>

\* set_effective_priority, reached from set_task_priority and from every change
\* of priority inheritance, those of a mutex timeout in the timer handler included.
SetEffectivePriority(s, p) ==
  /\ MayCall
  /\ s \in Reconfigurable
  /\ state[s] # "Free"
  /\ p # priority[s]
  /\ priority' = [priority EXCEPT ![s] = p]
  /\ ready' = IF state[s] = "Ready" /\ Queued(s)
              THEN Push([ready EXCEPT ![priority[s]] = Without(@, s)], p, s)
              ELSE ready
  /\ UNCHANGED <<state, policy, frame, resumed, lockDepth, overrun, current,
                 pending, slice, threadVars, irqDepth, swi, halted>>

-----------------------------------------------------------------------------
(* Interrupts. *)

\* interrupt_enter.
IrqEnter ==
  /\ halted = "no"
  /\ irqDepth < MaxIrqDepth
  /\ irqDepth' = irqDepth + 1
  /\ UNCHANGED <<taskVars, schedVars, threadVars, swi, halted>>

\* on_software_interrupt: the handler clears its source; scheduling is left to
\* the epilogue.
OnSoftwareInterrupt ==
  /\ halted = "no" /\ irqDepth > 0
  /\ swi
  /\ swi' = FALSE
  /\ UNCHANGED <<taskVars, schedVars, threadVars, irqDepth, halted>>

\* Semaphore::up from an interrupt handler.
IrqWake(w) ==
  /\ halted = "no" /\ irqDepth > 0
  /\ state[w] = "Blocked"
  /\ state' = [state EXCEPT ![w] = "Ready"]
  /\ ready' = QueueReady(ready, w)
  /\ UNCHANGED <<priority, policy, frame, resumed, lockDepth, overrun, current,
                 pending, slice, threadVars, irqDepth, swi, halted>>

\* Fault: an exhausted budget throttles a task that holds the scheduler lock.
BudgetExpiryIgnoresLock(t) ==
  IF policy[t] # "Budgeted" THEN {"NotBudgeted"} ELSE {"StillAvailable", "ThrottleNow"}

\* BudgetState::on_timer for the task t that a timer interrupt finds Running: a
\* budget that is used up throttles it now, or once it drops the scheduler lock.
BudgetExpiry(t) ==
  IF policy[t] # "Budgeted" THEN {"NotBudgeted"}
  ELSE {"StillAvailable",
        IF lockDepth[t] # 0 THEN "DeferredBySchedulerLock" ELSE "ThrottleNow"}

\* on_timer_interrupt: wake what is due, then charge the budget of the running
\* task and look at the scheduler-lock deadline and at the time slice, whose
\* deadline rearm_timer only sets for a Preemptive task.  The contract_violation
\* handler of the port does not return.
OnTimerInterrupt ==
  /\ halted = "no" /\ irqDepth > 0
  /\ \E W \in SUBSET Dormant, R \in SUBSET Exhausted :
       /\ ready' = Waking(W, R)
       /\ \/ /\ state[current] # "Running"
             /\ state' = Woken(W, R)
             /\ UNCHANGED <<overrun, halted>>
          \/ /\ state[current] = "Running"
             /\ \E expiry \in BudgetExpiry(current) :
                  /\ state' = [Woken(W, R) EXCEPT
                                 ![current] = IF expiry = "ThrottleNow" THEN "Throttled" ELSE @]
                  /\ overrun' = [overrun EXCEPT
                                   ![current] = @ \/ expiry = "DeferredBySchedulerLock"]
             /\ halted' \in IF lockDepth[current] # 0 THEN {"no", "lock_overrun"} ELSE {"no"}
  /\ slice' \in {slice, slice \/ policy[current] = "Preemptive"}
  /\ UNCHANGED <<priority, policy, frame, resumed, lockDepth, current, pending,
                 threadVars, irqDepth, swi>>

\* Fault: the frame of an exited task is saved.
SaveFrameOfExited(previous, st) == [frame EXCEPT ![previous] = TRUE]

\* The interrupted frame is saved unless the interrupted task has exited.
SaveFrame(previous, st) == [frame EXCEPT ![previous] = @ \/ st[previous] # "Free"]

\* schedule_from_trap, once it has a target: save the interrupted frame, restore
\* the one of the next task.
Dispatch(previous, next, st, queues) ==
  LET saved == SaveFrame(previous, st)
  IN /\ halted' = IF saved[next] THEN halted ELSE "no_saved_frame"
     /\ frame' = [saved EXCEPT ![next] = FALSE]
     /\ state' = [st EXCEPT ![next] = "Running"]
     /\ resumed' = [resumed EXCEPT ![next] = TRUE]
     /\ current' = next
     /\ slice' = FALSE
     /\ ready' = queues

\* The epilogue of a nested interrupt returns to the interrupted handler.
TrapReturnNested ==
  /\ halted = "no" /\ irqDepth > 1
  /\ irqDepth' = irqDepth - 1
  /\ UNCHANGED <<taskVars, schedVars, threadVars, swi, halted>>

\* Outermost epilogue: consume_pending_switch.  The thread of a task that
\* exited ends here, at whatever point of execute_switch it had reached.
TrapConsume ==
  /\ halted = "no" /\ irqDepth = 1
  /\ pending # NoSwitch
  /\ irqDepth' = 0
  /\ pending' = NoSwitch
  /\ Dispatch(pending.previous, pending.target, state, ready)
  /\ \/ state[pending.previous] # "Free" /\ UNCHANGED threadVars
     \/ /\ state[pending.previous] = "Free"
        /\ pc' = [pc EXCEPT ![pending.previous] = "run"]
        /\ target' = [target EXCEPT ![pending.previous] = NIL]
  /\ UNCHANGED <<priority, policy, lockDepth, overrun, swi>>

\* Outermost epilogue: the handler throttled the interrupted task.
TrapReplace ==
  /\ halted = "no" /\ irqDepth = 1
  /\ pending = NoSwitch
  /\ state[current] # "Running"
  /\ irqDepth' = 0
  /\ \E pop \in ReadyPopOrIdle(ready) :
       Dispatch(current, pop.task, state, pop.rest)
  /\ UNCHANGED <<priority, policy, lockDepth, overrun, pending, threadVars, swi>>

\* Outermost epilogue: take_reschedule_target preempts the interrupted task.
TrapPreempt ==
  /\ halted = "no" /\ irqDepth = 1
  /\ pending = NoSwitch
  /\ state[current] = "Running"
  /\ SwitchGuard(current)
  /\ irqDepth' = 0
  /\ \E pop \in Displacing(current, ready, slice) :
       Dispatch(current, pop.task, [state EXCEPT ![current] = "Ready"],
                QueueReady(pop.rest, current))
  /\ UNCHANGED <<priority, policy, lockDepth, overrun, pending, threadVars, swi>>

\* Outermost epilogue: nothing displaces the interrupted task.
TrapReturn ==
  /\ halted = "no" /\ irqDepth = 1
  /\ pending = NoSwitch
  /\ state[current] = "Running"
  /\ ~SwitchGuard(current) \/ Displacing(current, ready, slice) = {}
  /\ irqDepth' = 0
  /\ UNCHANGED <<taskVars, schedVars, threadVars, swi, halted>>

TrapExit ==
  TrapReturnNested \/ TrapConsume \/ TrapReplace \/ TrapPreempt \/ TrapReturn

\* A failed assertion or a contract violation never returns.
FailStop == halted # "no" /\ UNCHANGED vars

-----------------------------------------------------------------------------

\* init(): slot 0 adopts the caller, slot 1 is the idle task.
Init ==
  /\ state = [t \in Slots |->
                IF t = MAIN THEN "Running" ELSE IF t = IDLE THEN "Ready" ELSE "Free"]
  /\ priority = [t \in Slots |-> Lowest]
  /\ policy = [t \in Slots |-> "Cooperative"]
  /\ frame = [t \in Slots |-> t = IDLE]
  /\ resumed = [t \in Slots |-> TRUE]
  /\ lockDepth = [t \in Slots |-> 0]
  /\ overrun = [t \in Slots |-> FALSE]
  /\ ready = [p \in Priorities |-> <<>>]
  /\ current = MAIN
  /\ pending = NoSwitch
  /\ slice = FALSE
  /\ irqDepth = 0
  /\ swi = FALSE
  /\ pc = [t \in Slots |-> "run"]
  /\ target = [t \in Slots |-> NIL]
  /\ halted = "no"

Thread(t) ==
  \/ Yield(t) \/ Sleep(t) \/ Block(t) \/ Exit(t) \/ ExitLocked(t)
  \/ \E p \in Priorities, pol \in UserPolicies : Spawn(t, p, pol)
  \/ \E w \in Slots : Wake(t, w)
  \/ LockScheduler(t) \/ UnlockScheduler(t)

Reconfigure ==
  \/ \E s \in Slots, pol \in UserPolicies : SetRunPolicy(s, pol)
  \/ \E s \in Slots, p \in Priorities : SetEffectivePriority(s, p)

Handoff(t) == Deliver(t) \/ Pend(t) \/ Resume(t) \/ RequestReschedule(t)

Interrupt ==
  \/ IrqEnter \/ OnSoftwareInterrupt \/ OnTimerInterrupt
  \/ \E w \in Slots : IrqWake(w)
  \/ TrapExit

Next ==
  \/ \E t \in Slots : Thread(t) \/ Handoff(t)
  \/ Reconfigure
  \/ Interrupt
  \/ FailStop

Spec == Init /\ [][Next]_vars

\* The hart executes execute_switch to its spin loop, delivers a pended software
\* interrupt, and leaves every handler it enters.
Fairness ==
  /\ WF_vars(\E t \in Slots : Handoff(t))
  /\ WF_vars(swi /\ irqDepth = 0 /\ IrqEnter)
  /\ WF_vars(TrapExit)

FairSpec == Spec /\ Fairness

-----------------------------------------------------------------------------
(* Type invariant. *)

\* Every variable ranges over the values the scheduler's fields can hold.
TypeOK ==
  /\ state \in [Slots -> States]
  /\ priority \in [Slots -> Priorities]
  /\ policy \in [Slots -> Policies]
  /\ frame \in [Slots -> BOOLEAN]
  /\ resumed \in [Slots -> BOOLEAN]
  /\ lockDepth \in [Slots -> 0..MaxLockDepth]
  /\ overrun \in [Slots -> BOOLEAN]
  /\ ready \in [Priorities -> Seq(Slots)]
  /\ current \in Slots
  /\ pending \in [previous : Slots, target : Slots] \cup {NoSwitch}
  /\ slice \in BOOLEAN
  /\ irqDepth \in 0..MaxIrqDepth
  /\ swi \in BOOLEAN
  /\ pc \in [Slots -> Locations]
  /\ target \in [Slots -> Slots \cup {NIL}]
  /\ halted \in Halts

-----------------------------------------------------------------------------
(* Safety. *)

\* No list holds a task twice, and a queued task is an ordinary Ready task in
\* the bucket of its current effective priority.
QueuesWellFormed ==
  \A p \in Priorities : \A i \in DOMAIN ready[p] :
    /\ ready[p][i] # IDLE
    /\ state[ready[p][i]] = "Ready"
    /\ priority[ready[p][i]] = p
    /\ \A j \in DOMAIN ready[p] : ready[p][i] = ready[p][j] => i = j

\* An ordinary Ready task is never lost: it is queued, or it is the target of
\* the pending switch, and never both.
ReadyTasksOwned ==
  \A t \in Slots \ {IDLE} :
    state[t] = "Ready" =>
      (Queued(t) <=> ~(pending # NoSwitch /\ pending.target = t))

\* A pending switch leaves the task whose code still executes for a task that
\* nothing else owns.
PendingWellFormed ==
  pending # NoSwitch =>
    /\ pending.previous = current
    /\ pending.target # current
    /\ state[current] # "Running"
    /\ state[pending.target] = "Ready"
    /\ ~Queued(pending.target)

\* Only the current task is Running; outside an interrupt and outside a handoff
\* it is.
RunningIsCurrent ==
  /\ \A t \in Slots : state[t] = "Running" => t = current
  /\ irqDepth = 0 /\ pending = NoSwitch => state[current] = "Running"

\* The idle task is always eligible.
IdleEligible == state[IDLE] \in {"Ready", "Running"}

\* Exclusive ready ownership, the contract ready_ownership_audit evaluates:
\* every task is owned by exactly one of a ready list, the pending switch, the
\* processor or its wait, whatever interrupts hit the two-phase handoff, the
\* scheduler lock, a policy change or a priority change.
ReadyOwnership ==
  /\ QueuesWellFormed
  /\ ReadyTasksOwned
  /\ PendingWellFormed
  /\ RunningIsCurrent
  /\ IdleEligible

\* A live task has a saved trap frame exactly while it is not the task that
\* executes: schedule_from_trap never restores a frame twice and never
\* overwrites one that was not restored.
FrameOwnership ==
  \A t \in Slots : frame[t] <=> t # current /\ state[t] # "Free"

\* Only the running task holds the scheduler lock, so a lock never outlives a
\* context switch, and a deferred budget exhaustion never outlives the lock.
LockDiscipline ==
  \A t \in Slots :
    /\ lockDepth[t] > 0 => state[t] = "Running"
    /\ overrun[t] => lockDepth[t] > 0

\* A task that spins in execute_switch on a switch nobody performed has the
\* software interrupt pending that will perform it: the request is never lost
\* to an interrupt that cleared it.
HandoffArmed ==
  halted = "no" /\ irqDepth = 0 /\ pending # NoSwitch /\ pc[current] = "spin" => swi

\* No interleaving trips the scheduler's assertions about intents and frames.
\* (The assertion of execute_switch on the target's frame is the subject of
\* DeliveryFindsFrame.)
AssertionsHold ==
  halted \notin {"second_intent", "target_not_detached", "intent_not_committed",
                 "no_saved_frame"}

\* execute_switch asserts, after the switch was committed, that the target has a
\* trap frame.
DeliveryFindsFrame == halted # "target_without_frame"

\* The idle thread is never in an ordinary ready queue.
IdleNeverQueued == ~Queued(IDLE)

-----------------------------------------------------------------------------
(* Action properties. *)

\* The processor never changes hands while the task that loses it holds the
\* scheduler lock, whichever epilogue path switches.
NoSwitchWhileLocked == [][current' # current => lockDepth[current] = 0]_vars

Precedes(q, a, b) == \E i, j \in DOMAIN q : i < j /\ q[i] = a /\ q[j] = b

\* FIFO within a priority: unless a policy or priority change requeues it, no
\* task is overtaken by one that arrived later, neither in the list nor by
\* leaving it first.
NoOvertaking ==
  [][~Reconfigure =>
       \A p \in Priorities : \A a, b \in Slots :
         /\ In(ready[p], a) /\ In(ready'[p], a)
         => /\ Precedes(ready[p], a, b) => Precedes(ready'[p], a, b)
            /\ Precedes(ready'[p], b, a) => Precedes(ready[p], b, a)]_vars

-----------------------------------------------------------------------------
(* Liveness. *)

\* Every committed handoff is performed (or the firmware fail-stops).
HandoffCompletes == (pending # NoSwitch) ~> (pending = NoSwitch \/ halted # "no")

\* Work more urgent than the Preemptive task t is queued.
Outranked(t) ==
  /\ policy[t] = "Preemptive"
  /\ lockDepth[t] = 0
  /\ \E p \in 0..(priority[t] - 1) : ready[p] # <<>>

\* When a Preemptive task wakes a more urgent one, it loses the processor unless
\* it takes the scheduler lock first or the waiter stops being more urgent: the
\* reschedule that follows the wake is never dropped.
WakePreempts ==
  \A t \in Slots \ {IDLE} :
    (current = t /\ pc[t] = "request" /\ Outranked(t))
      ~> (current # t \/ ~Outranked(t) \/ halted # "no")

=============================================================================
