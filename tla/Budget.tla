-------------------------------- MODULE Budget --------------------------------
(***************************************************************************)
(* The periodic CPU quota of a Budgeted task: BudgetState of               *)
(* src/src/scheduling.rs, driven the way src/src/runtime/scheduler.rs      *)
(* drives it (account_switch, on_timer, replenish_budgets, the outermost   *)
(* unlock, set_run_policy) under the deadline earliest_budget_deadline     *)
(* arms; and the bound on the time it may hold the scheduler lock.         *)
(*                                                                         *)
(* The clock counts hardware ticks; the runtime sees whole milliseconds.   *)
(* A call from thread mode reads the clock before its critical section and *)
(* may be interrupted in between, so lock, unlock, a yield that replenishes *)
(* and set_run_policy act on readings that may be old.  The timer and the  *)
(* epilogue read it when the task is off the processor already.            *)
(* The timer interrupt is served at most MaxLatency milliseconds after its *)
(* deadline, and may also be served earlier, for somebody else's deadline. *)
(* Times stay far below the u64 and u32 limits of the code.                *)
(***************************************************************************)
EXTENDS Integers

CONSTANTS Capacity,    \* BudgetSpec.capacity, in milliseconds
          Period,      \* BudgetSpec.replenishment_period, in milliseconds
          TicksPerMs,  \* resolution of the hardware clock (24_000 on WS63)
          LockLimit,   \* max_scheduler_lock_duration, in milliseconds
          MaxLatency,  \* bound on the delay of the timer interrupt, in milliseconds
          MaxReadAge,  \* bound on the age of the reading a yield or a new policy acts on
          MaxTime      \* bound on the clock, in ticks

\* BudgetSpec::try_new accepts nothing else.
ASSUME BudgetSpecAssumption ==
         Capacity \in Nat \ {0} /\ Period \in Nat \ {0} /\ Capacity <= Period
ASSUME ClockAssumption ==
         /\ TicksPerMs \in Nat \ {0}
         /\ MaxLatency \in Nat /\ MaxReadAge \in Nat /\ MaxTime \in Nat
ASSUME LockLimitAssumption == LockLimit \in Nat \ {0}

NONE == -1

VARIABLES
  clock,   \* hardware ticks
  task,    \* the state of the task in the scheduler
  budget,  \* its BudgetState
  locked,  \* it holds the scheduler lock
  lockRead,     \* the `now` of a lock_scheduler call that has not locked yet
  unlockRead,   \* the `now` of an unlock_scheduler call that has not unlocked yet
  lockStarted,  \* scheduler_lock_started_at
  stopped,      \* the contract_violation handler was called
  origin,      \* history: the phase of its policy, the `now` it was installed with
  installedAt, \* history: when its policy was installed, in milliseconds
  used,        \* history: ticks it ran since its budget was last filled
  runs,        \* history: how many runs these ticks were spread over
  fresh,       \* history: it was dispatched or refilled and has not run for a tick since
  windowUsed,  \* history: ticks it ran since the last phase boundary
  throttledAt, \* history: when it was last throttled, in milliseconds
  lockedAt,    \* history: when it took the scheduler lock
  calledAt,    \* history: when the unlock that settled an exhaustion was called, until it runs again
  unlockedAt,  \* history: when that unlock dropped the lock
  ranEmpty     \* history: it was dispatched with an empty budget since its last filling

lockVars == <<locked, lockRead, unlockRead, lockStarted, lockedAt>>
unlockHistory == <<throttledAt, calledAt, unlockedAt>>
phaseHistory == <<origin, installedAt>>
useHistory == <<used, runs, fresh, windowUsed, ranEmpty>>
quotaHistory == <<phaseHistory, useHistory, unlockHistory>>
vars == <<clock, task, budget, stopped, lockVars, quotaHistory>>

\* monotonic_ms truncates the counter.
Now == clock \div TicksPerMs

-----------------------------------------------------------------------------
(* BudgetState. *)

ForPolicy(now) ==
  [remaining |-> Capacity, replenishesAt |-> now + Period, since |-> NONE, overrun |-> FALSE]

\* charge_until, with its two saturating subtractions.
ChargeUntil(b, now) ==
  LET elapsed == IF b.since < now THEN now - b.since ELSE 0
  IN  IF b.since = NONE THEN b
      ELSE [b EXCEPT !.remaining = IF elapsed < @ THEN @ - elapsed ELSE 0,
                     !.since = now]

IsDue(b, now) == ~b.overrun /\ b.replenishesAt <= now

\* Fault: the next boundary is counted from the replenishment.
ReplenishIfDueRephased(b, now) ==
  IF ~IsDue(b, now) THEN b
  ELSE [b EXCEPT !.remaining = Capacity, !.replenishesAt = now + Period]

\* replenish_if_due: skip the missed periods, keep the phase.
ReplenishIfDue(b, now) ==
  IF ~IsDue(b, now) THEN b
  ELSE [b EXCEPT !.remaining = Capacity,
                 !.replenishesAt = @ + ((now - @) \div Period + 1) * Period]

OnDispatch(b, now) == [ReplenishIfDue(b, now) EXCEPT !.since = now]

\* Fault: a switch does not charge the running time.
OnSwitchOutUncharged(b, now) == [b EXCEPT !.since = NONE]

OnSwitchOut(b, now) == [ChargeUntil(b, now) EXCEPT !.since = NONE]

\* on_timer on a budget that is used up.
Exhaust(b, now) ==
  [ChargeUntil(b, now) EXCEPT !.since = NONE, !.overrun = @ \/ locked]

\* Fault: boundaries that passed under the lock stay due.
ThrottleAfterLockOverrunUnphased(b, now) ==
  [b EXCEPT !.overrun = FALSE, !.remaining = 0, !.since = NONE]

\* Fault: the loop advances once too often.
ThrottleAfterLockOverrunTwice(b, now) ==
  [b EXCEPT !.overrun = FALSE, !.remaining = 0, !.since = NONE,
            !.replenishesAt = IF @ > now THEN @ + Period
                              ELSE @ + ((now - @) \div Period + 2) * Period]

\* throttle_after_lock_overrun: its loop stops at the first boundary after now.
ThrottleAfterLockOverrun(b, now) ==
  [b EXCEPT !.overrun = FALSE, !.remaining = 0, !.since = NONE,
            !.replenishesAt = IF @ > now THEN @
                              ELSE @ + ((now - @) \div Period + 1) * Period]

\* Fault: the deadline of a run is its start plus the whole capacity.
WithinDeadlineOfFullRun(now) ==
  /\ task = "Running" /\ budget.since # NONE /\ budget.remaining # 0
       => \/ now <= budget.since + Capacity + MaxLatency
          \/ now <= installedAt + 1 + MaxLatency
  /\ task = "Throttled"
       => \/ now <= budget.replenishesAt + MaxLatency
          \/ now <= throttledAt + 1 + MaxLatency

\* earliest_budget_deadline, scheduler_lock_deadline and rearm_timer, which arms a deadline that has
\* passed for the next millisecond: the time `now` does not lie beyond the
\* service of the timer interrupt armed for this task.
WithinDeadline(now) ==
  /\ task = "Running" /\ budget.since # NONE /\ budget.remaining # 0
       => \/ now <= budget.since + budget.remaining + MaxLatency
          \/ now <= installedAt + 1 + MaxLatency
  /\ task = "Running" /\ lockStarted # NONE
       => \/ now <= lockStarted + LockLimit + MaxLatency
          \/ now <= lockedAt + 1 + MaxLatency
  /\ task = "Throttled"
       => \/ now <= budget.replenishesAt + MaxLatency
          \/ now <= throttledAt + 1 + MaxLatency

-----------------------------------------------------------------------------
(* The scheduler drives the budget. *)

Init ==
  /\ clock = 0
  /\ task = "Ready"
  /\ budget = ForPolicy(0)
  /\ locked = FALSE
  /\ lockRead = NONE /\ unlockRead = NONE /\ lockStarted = NONE /\ lockedAt = NONE
  /\ stopped = FALSE
  /\ origin = 0 /\ installedAt = 0
  /\ used = 0 /\ runs = 0 /\ windowUsed = 0
  /\ fresh = FALSE /\ ranEmpty = FALSE
  /\ throttledAt = NONE /\ calledAt = NONE /\ unlockedAt = NONE

\* Time passes; the processor belongs to the task while it is Running.
Tick ==
  /\ ~stopped /\ clock < MaxTime
  /\ WithinDeadline((clock + 1) \div TicksPerMs)
  /\ clock' = clock + 1
  /\ LET ran == IF task = "Running" THEN 1 ELSE 0
         boundary == (clock - origin * TicksPerMs) % (Period * TicksPerMs) = 0
     IN /\ used' = used + ran
        /\ windowUsed' = IF boundary THEN ran ELSE windowUsed + ran
  /\ runs' = IF fresh THEN runs + 1 ELSE runs
  /\ fresh' = FALSE
  /\ UNCHANGED <<task, budget, stopped, lockVars, phaseHistory, unlockHistory, ranEmpty>>

\* account_switch to the task.
Dispatch ==
  /\ ~stopped /\ task = "Ready"
  /\ task' = "Running"
  /\ budget' = OnDispatch(budget, Now)
  /\ \/ IsDue(budget, Now) /\ used' = 0 /\ runs' = 0 /\ ranEmpty' = FALSE
     \/ /\ ~IsDue(budget, Now)
        /\ ranEmpty' = (ranEmpty \/ budget.remaining = 0)
        /\ UNCHANGED <<used, runs>>
  /\ fresh' = TRUE
  /\ calledAt' = NONE /\ unlockedAt' = NONE
  /\ UNCHANGED <<clock, stopped, lockVars, phaseHistory, windowUsed, throttledAt>>

\* account_switch away from the task, which yielded, blocked or went to sleep.
SwitchOut(s) ==
  /\ ~stopped /\ task = "Running"
  /\ ~locked
  /\ task' = s
  /\ budget' = OnSwitchOut(budget, Now)
  /\ fresh' = FALSE
  /\ UNCHANGED <<clock, stopped, lockVars, phaseHistory, used, runs, windowUsed, ranEmpty, unlockHistory>>

\* The sleep or the wait ends.
WakeUp ==
  /\ ~stopped /\ task = "Sleeping"
  /\ task' = "Ready"
  /\ UNCHANGED <<clock, budget, stopped, lockVars, quotaHistory>>

\* on_timer: the lock is held for too long; its violation is reported after the
\* budget was charged.
LockOverrun == lockStarted # NONE /\ Now - lockStarted >= LockLimit

\* on_timer finds budget left.
TimerStillAvailable ==
  /\ ~stopped /\ task = "Running"
  /\ ChargeUntil(budget, Now).remaining # 0
  /\ budget' = ChargeUntil(budget, Now)
  /\ stopped' = LockOverrun
  /\ UNCHANGED <<clock, task, lockVars, quotaHistory>>

\* on_timer finds the budget used up: it throttles the task and the epilogue
\* switches away, or the scheduler lock defers both.
TimerExhausted ==
  /\ ~stopped /\ task = "Running"
  /\ ChargeUntil(budget, Now).remaining = 0
  /\ budget' = Exhaust(budget, Now)
  /\ \/ locked /\ UNCHANGED <<task, throttledAt, fresh>>
     \/ ~locked /\ task' = "Throttled" /\ throttledAt' = Now /\ fresh' = FALSE
  /\ stopped' = LockOverrun
  /\ UNCHANGED <<clock, lockVars, phaseHistory, used, runs, windowUsed, ranEmpty, calledAt, unlockedAt>>

\* replenish_budgets, from a timer interrupt or with the reading of another
\* task's yield.
Replenish(now) ==
  /\ ~stopped /\ task = "Throttled"
  /\ IsDue(budget, now)
  /\ task' = "Ready"
  /\ budget' = ReplenishIfDue(budget, now)
  /\ used' = 0 /\ runs' = 0 /\ ranEmpty' = FALSE
  /\ UNCHANGED <<clock, stopped, lockVars, phaseHistory, fresh, windowUsed, unlockHistory>>

\* lock_scheduler reads the clock ...
LockCall ==
  /\ ~stopped /\ task = "Running"
  /\ ~locked /\ lockRead = NONE
  /\ lockRead' = Now
  /\ UNCHANGED <<clock, task, budget, stopped, locked, unlockRead, lockStarted, lockedAt, quotaHistory>>

\* ... and takes the lock, whatever happened to the task in between.
LockCurrent ==
  /\ ~stopped /\ task = "Running"
  /\ lockRead # NONE
  /\ locked' = TRUE
  /\ lockStarted' = lockRead
  /\ lockedAt' = Now
  /\ lockRead' = NONE
  /\ UNCHANGED <<clock, task, budget, stopped, unlockRead, quotaHistory>>

\* unlock_scheduler reads the clock ...
UnlockCall ==
  /\ ~stopped /\ locked
  /\ unlockRead = NONE
  /\ unlockRead' = Now
  /\ UNCHANGED <<clock, task, budget, stopped, locked, lockRead, lockStarted, lockedAt, quotaHistory>>

\* Fault: the outermost unlock leaves the start of the hold behind.
UnlockCurrentKeepsStart ==
  locked' = FALSE /\ unlockRead' = NONE /\ UNCHANGED <<lockStarted, lockedAt, lockRead>>

\* unlock_current, outermost.
UnlockCurrent ==
  /\ locked' = FALSE /\ lockStarted' = NONE /\ lockedAt' = NONE
  /\ unlockRead' = NONE
  /\ UNCHANGED lockRead

\* ... and unlock_current_and_take_preemption, outermost, settles a deferred
\* exhaustion with that reading.
Unlock ==
  /\ ~stopped /\ locked
  /\ unlockRead # NONE
  /\ UnlockCurrent
  /\ \/ ~budget.overrun /\ UNCHANGED <<task, budget, fresh, unlockHistory>>
     \/ /\ budget.overrun
        /\ task' = "Throttled"
        /\ budget' = ThrottleAfterLockOverrun(budget, unlockRead)
        /\ fresh' = FALSE
        /\ throttledAt' = Now
        /\ calledAt' = unlockRead
        /\ unlockedAt' = Now
  /\ UNCHANGED <<clock, stopped, phaseHistory, used, runs, windowUsed, ranEmpty>>

\* set_run_policy installs the same quota anew, with the reading of its caller.
SetRunPolicy(now) ==
  /\ ~stopped
  /\ budget' = IF task = "Running" THEN OnDispatch(ForPolicy(now), now) ELSE ForPolicy(now)
  /\ task' = IF task = "Throttled" THEN "Ready" ELSE task
  /\ origin' = now /\ installedAt' = Now
  /\ used' = 0 /\ runs' = 0 /\ windowUsed' = 0 /\ ranEmpty' = FALSE
  /\ fresh' = (task = "Running")
  /\ throttledAt' = NONE /\ calledAt' = NONE /\ unlockedAt' = NONE
  /\ UNCHANGED <<clock, stopped, lockVars>>

\* The clock stops at its bound; the contract_violation handler does not return.
EndOfTime == (clock = MaxTime \/ stopped) /\ UNCHANGED vars

\* The readings of the clock that a call may still act on.
Readings == {now \in 0..Now : now >= Now - MaxReadAge}

Next ==
  \/ Tick \/ Dispatch \/ WakeUp
  \/ \E s \in {"Ready", "Sleeping"} : SwitchOut(s)
  \/ TimerStillAvailable \/ TimerExhausted
  \/ LockCall \/ LockCurrent \/ UnlockCall \/ Unlock
  \/ \E now \in Readings : Replenish(now) \/ SetRunPolicy(now)
  \/ EndOfTime

Spec == Init /\ [][Next]_vars

-----------------------------------------------------------------------------
(* Properties. *)

\* Every variable ranges over its type; the unsigned `remaining` never leaves
\* 0..Capacity.
TypeOK ==
  /\ clock \in 0..MaxTime
  /\ task \in {"Ready", "Running", "Sleeping", "Throttled"}
  /\ budget \in [remaining : 0..Capacity, replenishesAt : Nat,
                 since : Nat \cup {NONE}, overrun : BOOLEAN]
  /\ locked \in BOOLEAN /\ stopped \in BOOLEAN
  /\ {lockRead, unlockRead, lockStarted, lockedAt} \subseteq Nat \cup {NONE}
  /\ origin \in Nat /\ installedAt \in Nat
  /\ used \in Nat /\ runs \in Nat /\ windowUsed \in Nat
  /\ fresh \in BOOLEAN /\ ranEmpty \in BOOLEAN
  /\ {throttledAt, calledAt, unlockedAt} \subseteq Nat \cup {NONE}

\* Charges are truncated to milliseconds, so each run may go under-accounted by
\* less than one.
Truncated == runs * (TicksPerMs - 1)

\* A task off the processor owns no more budget than its true running time left
\* it, beyond what truncation took from the charge of each run: neither switches,
\* timer interrupts in the middle of a run nor the scheduler lock lose more.
UnderAccountsByTruncation ==
  task # "Running" =>
    \/ budget.remaining = 0
    \/ used + budget.remaining * TicksPerMs <= Capacity * TicksPerMs + Truncated

\* RTOS-BUDGET-005: "It must never under-account CPU use."
NeverUnderAccounts ==
  task # "Running" =>
    \/ budget.remaining = 0
    \/ used + budget.remaining * TicksPerMs <= Capacity * TicksPerMs

\* Replenishment keeps the phase of the installation, over missed periods and
\* deferred exhaustions.
PhaseAligned ==
  /\ budget.replenishesAt > origin
  /\ (budget.replenishesAt - origin) % Period = 0

\* A throttled task is eligible again within one period.
ReadmittedInTime ==
  task = "Throttled" => Now <= throttledAt + Period + MaxLatency

\* A task whose exhaustion was deferred by the scheduler lock runs again only
\* in a later period than the one in which it called unlock_scheduler.
LockCannotEraseExhaustion ==
  [][task = "Ready" /\ task' = "Running" /\ calledAt # NONE =>
       (Now - origin) \div Period > (calledAt - origin) \div Period]_vars

\* RTOS-BUDGET-006: "eligibility is delayed to the first boundary strictly after
\* unlock", counted from the moment the lock is dropped.
EligibleAfterUnlock ==
  [][task = "Ready" /\ task' = "Running" /\ unlockedAt # NONE =>
       (Now - origin) \div Period > (unlockedAt - origin) \div Period]_vars

\* One filling of the budget buys at most Capacity of processor time, beyond
\* the latency of the timer interrupt, the scheduler lock and what truncation
\* takes from each run.
QuotaBounded ==
  task = "Running" /\ ~locked => used <= (Capacity + MaxLatency) * TicksPerMs + Truncated

\* The same for a task that was not dispatched with an empty budget, which no
\* deadline ends: every other way to spend a filling is caught by the timer.
QuotaUnlessEmpty == ~ranEmpty => QuotaBounded

\* The firmware is stopped only for a task that holds the scheduler lock, and
\* that has held it for LockLimit unless time passed between its reading of the
\* clock and its taking of the lock.
OverrunJustified ==
  stopped => /\ locked
             /\ Now - lockedAt >= LockLimit \/ lockedAt > lockStarted

\* "A task held the scheduler lock beyond the configured bound"
\* (ContractViolation::SchedulerLockOverrun).
OverrunReal == stopped => Now - lockedAt >= LockLimit

\* Between two phase boundaries a task runs for at most Capacity, beyond the
\* latency of the timer interrupt and the scheduler lock (and beyond what
\* QuotaBounded is about).
WindowQuota ==
  task = "Running" /\ ~locked /\ ~ranEmpty =>
    windowUsed <= (Capacity + MaxLatency) * TicksPerMs

=============================================================================
