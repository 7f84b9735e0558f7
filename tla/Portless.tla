------------------------------ MODULE Portless ------------------------------
(***************************************************************************)
(* The port-less cooperative profile (start_cooperative): no timer, no     *)
(* software interrupt, no trap frames.  A switch is prepared in one        *)
(* critical section, performed in a second one, and the registers are      *)
(* exchanged after that by an ordinary call; an interrupt may arrive in    *)
(* each of the two gaps.                                                   *)
(*                                                                         *)
(* An interrupt handler and its epilogue are one action: thread mode       *)
(* cannot run in between, and the epilogue of a nested interrupt returns   *)
(* at once.  Every task is Cooperative in this profile.                    *)
(***************************************************************************)
EXTENDS SlotLists

CONSTANTS TaskSlots, PriorityLevels,
          EpilogueLinked   \* the interrupt entry of the target calls __hisi_irq_epilogue

ASSUME TaskSlotsAssumption == TaskSlots \in Nat /\ TaskSlots >= 3
ASSUME PriorityLevelsAssumption == PriorityLevels \in Nat /\ PriorityLevels >= 1
ASSUME EpilogueLinkedAssumption == EpilogueLinked \in BOOLEAN

Slots == 0..(TaskSlots - 1)
MAIN == 0
IDLE == 1
NIL == -1
Dynamic == Slots \ {MAIN, IDLE}
Levels == 0..(PriorityLevels - 1)
Lowest == PriorityLevels - 1

VARIABLES
  state,     \* tasks[t].state
  priority,  \* tasks[t].priority
  locked,    \* tasks[t].scheduler_lock_depth # 0
  due,       \* tasks[t].wake_at has passed
  ready,     \* the ready queue of each priority
  current,   \* Sched.current
  hart,      \* the task whose registers the hart holds
  pc,        \* where hart's code stands: application, the gaps of execute_switch,
             \* and of the idle loop, before wfi and in it
  target,    \* the target of the intent in execute_switch
  halted     \* a failed assertion stopped the firmware

vars == <<state, priority, locked, due, ready, current, hart, pc, target, halted>>

QT == INSTANCE TaskQueues WITH Tasks <- Slots \ {IDLE}, Waits <- {},
                               queue <- ready, prio <- priority

\* ready_pop, with NIL and with the idle task for an empty queue.
Pop(r) ==
  LET busy == {p \in Levels : r[p] # <<>>}
  IN  IF busy = {} THEN NIL ELSE Head(r[CHOOSE p \in busy : \A o \in busy : p <= o])
PopOrIdle(r) == IF Pop(r) = NIL THEN IDLE ELSE Pop(r)

\* The queue part of make_ready.
MakeReady(r, t) == IF t = IDLE THEN r ELSE QT!Arrive(r, t, priority[t])

Executing(t) == ~halted /\ hart = t /\ current = t /\ pc = "run"

-----------------------------------------------------------------------------
(* Thread mode. *)

\* wake_sleepers: the sleepers and timed waits whose deadline has passed.
DueTasks == {t \in Slots : state[t] \in {"Sleeping", "Blocked"} /\ due[t]}
Woken(S) == [t \in Slots |-> IF t \in S THEN "Ready" ELSE state[t]]
Waking(S) == [p \in Levels |-> ready[p] \o InSlotOrder({t \in S : priority[t] = p})]

\* Fault: the caller is requeued before the next task is taken.
TakeYieldTargetLate(r, t) == LET q == MakeReady(r, t) IN [next |-> Pop(q), rest |-> QT!Taken(q)]

\* take_yield_target: the next task is taken before the caller is requeued.
TakeYieldTarget(r, t) == [next |-> Pop(r), rest |-> MakeReady(QT!Taken(r), t)]

\* yield_now.  It is the only call that looks at deadlines.
Yield(t) ==
  /\ Executing(t)
  /\ ~locked[t]
  /\ LET take == TakeYieldTarget(Waking(DueTasks), t)
     IN  /\ take.next # NIL
         /\ ready' = take.rest
         /\ target' = take.next
         /\ state' = [Woken(DueTasks) EXCEPT ![t] = "Ready"]
  /\ due' = [u \in Slots |-> due[u] /\ u \notin DueTasks]
  /\ pc' = "prepared"
  /\ UNCHANGED <<priority, locked, current, hart, halted>>

\* idle_entry: the yield of the idle task finds nothing ...
FruitlessYield ==
  /\ Executing(IDLE)
  /\ Pop(Waking(DueTasks)) = NIL
  /\ pc' = "fruitless"
  /\ UNCHANGED <<state, priority, locked, due, ready, current, hart, target, halted>>

\* ... and it waits for an interrupt, whatever one may have done in between.
WaitForInterrupt ==
  /\ ~halted /\ pc = "fruitless"
  /\ pc' = "wfi"
  /\ UNCHANGED <<state, priority, locked, due, ready, current, hart, target, halted>>

\* prepare_switch_away_decision, not committed, of a caller that leaves in state s.
SwitchAway(t, s) ==
  /\ Executing(t)
  /\ t # IDLE
  /\ ~locked[t]
  /\ state' = [state EXCEPT ![t] = s]
  /\ target' = PopOrIdle(ready)
  /\ ready' = QT!Taken(ready)
  /\ pc' = "prepared"
  /\ UNCHANGED <<locked, current, hart, halted>>

\* sleep_ms, Semaphore::down and down_timeout, RtosMutex::lock.
SleepOrBlock(t, s) == SwitchAway(t, s) /\ UNCHANGED <<priority, due>>

\* task_exit.
Exit(t) ==
  /\ t \in Dynamic
  /\ SwitchAway(t, "Free")
  /\ priority' = [priority EXCEPT ![t] = Lowest]
  /\ UNCHANGED due

\* spawn: no trap frame is built without a port.
Spawn(t, p) ==
  /\ Executing(t)
  /\ t # IDLE
  /\ \E s \in Dynamic :
       /\ state[s] = "Free"
       /\ \A u \in Dynamic : u < s => state[u] # "Free"
       /\ state' = [state EXCEPT ![s] = "Ready"]
       /\ priority' = [priority EXCEPT ![s] = p]
       /\ ready' = QT!Arrive(ready, s, p)
  /\ UNCHANGED <<locked, due, current, hart, pc, target, halted>>

WakeUp(w) ==
  /\ state' = [state EXCEPT ![w] = "Ready"]
  /\ ready' = MakeReady(ready, w)
  /\ due' = [due EXCEPT ![w] = FALSE]

\* Semaphore::up, RtosMutex::unlock or cancel_wait.  request_reschedule does
\* nothing without a port.
Wake(t, w) ==
  /\ Executing(t)
  /\ t # IDLE
  /\ state[w] = "Blocked"
  /\ WakeUp(w)
  /\ UNCHANGED <<priority, locked, current, hart, pc, target, halted>>

\* lock_scheduler and unlock_scheduler: a Cooperative task loses nothing by the unlock.
SetLock(t, l) ==
  /\ Executing(t)
  /\ t # IDLE
  /\ locked' = [locked EXCEPT ![t] = l]
  /\ UNCHANGED <<state, priority, due, ready, current, hart, pc, target, halted>>

\* execute_switch, its second critical section: nothing of the intent is checked again.
PerformSwitch ==
  /\ ~halted /\ pc = "prepared"
  /\ state' = [state EXCEPT ![target] = "Running"]
  /\ current' = target
  /\ pc' = "switched"
  /\ UNCHANGED <<priority, locked, due, ready, hart, target, halted>>

\* cooperative_context_switch_fallback: the registers follow.
ExchangeRegisters ==
  /\ ~halted /\ pc = "switched"
  /\ hart' = current
  /\ pc' = "run"
  /\ target' = NIL
  /\ UNCHANGED <<state, priority, locked, due, ready, current, halted>>

-----------------------------------------------------------------------------
(* Time and interrupts. *)

\* The deadline of a sleeper or of a timed wait passes.
DeadlinePasses(t) ==
  /\ ~halted
  /\ state[t] \in {"Sleeping", "Blocked"}
  /\ ~due[t]
  /\ due' = [due EXCEPT ![t] = TRUE]
  /\ UNCHANGED <<state, priority, locked, ready, current, hart, pc, target, halted>>

\* What the handler of an interrupt leaves behind: it may wake a task with
\* Semaphore::up.
Handled ==
  {[state |-> state, ready |-> ready, due |-> due]}
  \cup {[state |-> [state EXCEPT ![w] = "Ready"],
         ready |-> MakeReady(ready, w),
         due |-> [due EXCEPT ![w] = FALSE]] : w \in {u \in Slots : state[u] = "Blocked"}}

\* schedule_from_trap looks for another task when the interrupted one does not
\* run, or is the idle task and one is ready.
Displaced(h) == h.state[current] # "Running" \/ (current = IDLE /\ Pop(h.ready) # NIL)

\* schedule_from_trap.  No task has a saved frame in this profile, so the only
\* target whose frame is not 0 is the interrupted task itself, whose frame was
\* just saved.
Epilogue(h) ==
  IF ~(EpilogueLinked /\ Displaced(h)) THEN [state |-> h.state, ready |-> h.ready, halted |-> FALSE]
  ELSE [state |-> [h.state EXCEPT ![PopOrIdle(h.ready)] = "Running"],
        ready |-> QT!Taken(h.ready),
        halted |-> PopOrIdle(h.ready) # current]

\* Fault: the idle task yields once and then only waits.
AfterInterruptWaitsOn == pc

\* The loop of idle_entry: an interrupt ends wfi, and the idle task yields again.
AfterInterrupt == IF pc = "wfi" THEN "run" ELSE pc

\* An interrupt: its handler and its epilogue.
Serve(h) ==
  /\ LET out == Epilogue(h)
     IN  state' = out.state /\ ready' = out.ready /\ halted' = out.halted
  /\ due' = h.due
  /\ pc' = AfterInterrupt
  /\ UNCHANGED <<priority, locked, current, hart, target>>

Interrupt == ~halted /\ \E h \in Handled : Serve(h)

\* The interrupts whose epilogue looks for another task.
EpilogueSwitches == ~halted /\ EpilogueLinked /\ \E h \in Handled : Displaced(h) /\ Serve(h)

\* set_effective_priority, from thread mode or from an interrupt handler, whose
\* epilogue is that of an Interrupt that follows.
SetEffectivePriority(t, p) ==
  /\ ~halted
  /\ state[t] # "Free"
  /\ p # priority[t]
  /\ priority' = [priority EXCEPT ![t] = p]
  /\ ready' = IF t \in QT!Members(ready, priority[t])
              THEN QT!Arrive(QT!Depart(ready, priority[t], t), t, p) ELSE ready
  /\ pc' = AfterInterrupt
  /\ UNCHANGED <<state, locked, due, current, hart, target, halted>>

-----------------------------------------------------------------------------

Init ==
  /\ state = [t \in Slots |->
                IF t = MAIN THEN "Running" ELSE IF t = IDLE THEN "Ready" ELSE "Free"]
  /\ priority = [t \in Slots |-> Lowest]
  /\ locked = [t \in Slots |-> FALSE]
  /\ due = [t \in Slots |-> FALSE]
  /\ ready = [p \in Levels |-> <<>>]
  /\ current = MAIN /\ hart = MAIN
  /\ pc = "run"
  /\ target = NIL
  /\ halted = FALSE

Thread(t) ==
  \/ Yield(t) \/ Exit(t)
  \/ \E s \in {"Sleeping", "Blocked"} : SleepOrBlock(t, s)
  \/ \E p \in Levels : Spawn(t, p)
  \/ \E w \in Slots : Wake(t, w)
  \/ \E l \in BOOLEAN : SetLock(t, l)

Next ==
  \/ \E t \in Slots : Thread(t) \/ DeadlinePasses(t)
  \/ \E t \in Slots \ {IDLE}, p \in Levels : SetEffectivePriority(t, p)
  \/ FruitlessYield \/ WaitForInterrupt \/ PerformSwitch \/ ExchangeRegisters
  \/ Interrupt

Spec == Init /\ [][Next]_vars

\* The hart executes the idle loop and execute_switch.  Nothing is assumed of
\* interrupts: this profile arms no timer, and wfi may never end.
Fairness ==
  /\ WF_vars(Yield(IDLE))
  /\ WF_vars(FruitlessYield)
  /\ WF_vars(WaitForInterrupt)
  /\ WF_vars(PerformSwitch)
  /\ WF_vars(ExchangeRegisters)

FairSpec == Spec /\ Fairness

-----------------------------------------------------------------------------

P == INSTANCE Processor WITH
       Tasks <- Slots,
       Idle <- IDLE,
       None <- NIL,
       RunPolicies <- {"Cooperative"},
       live <- {t \in Slots : state[t] # "Free"},
       runnable <- {t \in Slots \ {IDLE} :
                      state[t] = "Ready" /\ (pc = "prepared" => t # target)},
       holder <- current,
       running <- state[current] = "Running",
       heir <- IF pc = "prepared" THEN target ELSE NIL,
       locked <- locked[current],
       prio <- priority,
       policy <- [t \in Slots |-> "Cooperative"]

\* Without a timer or a software interrupt the profile keeps the promise of
\* module Processor, although execute_switch acts on a decision that may be two
\* critical sections old: the successor is still the task that was taken, no
\* interrupt displaces anybody, and no task is lost in the gaps.
ImplementsProcessor == P!Spec

\* A task is ready, or the deadline of one has passed, while the idle task has the
\* processor.
IdleHasWork == current = IDLE /\ Pop(Waking(DueTasks)) # NIL

\* The environment interrupts a hart that waits.
InterruptsRecur == WF_vars(pc = "wfi" /\ Interrupt)

\* The idle task gives way to work that is there before its yield has looked,
\* without any interrupt.  Work that appears after that look, before wfi or in it,
\* has to wait for an interrupt; where interrupts recur the loop of idle_entry comes
\* back from wfi and gives way too.
IdleYields ==
  /\ (IdleHasWork /\ pc \notin {"fruitless", "wfi"}) ~> (current # IDLE)
  /\ InterruptsRecur => (IdleHasWork ~> (current # IDLE))

\* "an enabled scheduler/target interrupt wakes the hart" (idle_entry): a task that
\* an interrupt made ready does not wait for a second one.
WakeEndsIdle == (current = IDLE /\ Pop(ready) # NIL) ~> (current # IDLE)

\* RTOS-PORT-001: "IRQ wake does not immediately switch tasks"; the epilogue of
\* an interrupt never looks for another task in this profile.
IrqDoesNotSwitch == ~halted

\* "Sleep deadlines are observed at the next scheduling point" (start_cooperative):
\* a task whose deadline has passed is not passed over by a call that switches.
DeadlinesObserved ==
  [][pc = "run" /\ pc' = "prepared" =>
       \A t \in DueTasks : state'[t] \notin {"Sleeping", "Blocked"}]_vars
=============================================================================
