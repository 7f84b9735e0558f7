# hisi-rtos: a TLA+ verification development

hisi-rtos is a single-hart RTOS kernel for HiSilicon RISC-V microcontrollers. It schedules a
fixed table of tasks by priority with three run policies, offers semaphores and
priority-inheriting mutexes to a radio stack, and drives preemption from a timer interrupt
and a software interrupt. This directory models the kernel in TLA+, checks the models with
TLC, shows that the detailed ones implement abstract ones, and proves with TLAPS the safety
properties of the scheduler, the budgets, semaphores, mutexes and priority inheritance,
admission, the handle table and the timer, and that both profiles of the scheduler implement
their abstract specification.

The source is `src/src/`; the contract the code states for itself is
`src/docs/spec/scheduling.md` (requirement numbers `RTOS-...` refer to it).

## Inventory

| Component | State | Operations | What makes it correct |
|---|---|---|---|
| Ready queues and dispatch (`runtime/scheduler.rs`) | `State`, effective priority and policy of each task; an intrusive list per priority | `ready_push`, `ready_pop`, `ready_remove`, `make_ready`, `take_reschedule_target`, `set_effective_priority`, `set_run_policy` | a ready task has exactly one owner; most urgent first, FIFO among equals |
| Switch handoff and trap epilogue (`runtime.rs`, `runtime/scheduler.rs`) | `current`, `pending_switch`, `saved_frame`, `resume_generation` | prepare/commit intent, `execute_switch`, `schedule_from_trap`, `consume_pending_switch` | a committed switch is performed once; no frame is lost or restored twice; no assertion fails |
| Thread API (`runtime.rs`, `runtime/driver.rs`) | – | `yield_now`, `sleep_ms`, `task_exit`, `spawn` | refused while the scheduler lock is held; policy installed before a task is published |
| Scheduler lock | nesting depth of the current task, start of the hold | `lock_scheduler`, `unlock_scheduler` | no switch while held; what the lock deferred happens at the outermost unlock |
| Interrupts and timer (`runtime.rs`, `runtime/time.rs`) | `INTERRUPT_DEPTH`, pended software interrupt, rearm generation | `interrupt_enter/exit`, epilogue, `on_timer_interrupt`, `on_software_interrupt`, `rearm_timer`, `request_reschedule` | only the outermost epilogue switches; a pended request is not lost; the last deadline programmed is current |
| Periodic budgets (`scheduling.rs`) | `BudgetState`: remaining, boundary, running since, deferred overrun | `on_dispatch`, `on_switch_out`, `on_timer`, `replenish_if_due`, `throttle_after_lock_overrun` | use is charged and bounded; phase is kept; the lock cannot erase exhaustion |
| Semaphores (`runtime/sync.rs`) | count, wait queue; per task what it waits for and was granted | `down`, `down_timeout`, `up`, timeout, `cancel_wait`, create, destroy | permits are conserved; one wake reason wins; a grant cannot be stolen |
| Mutexes (`runtime/sync.rs`) | owner, depth, wait queue | `lock`, `unlock`, timeout, `cancel_wait`, create, destroy | owner-only, direct handoff, no wait cycle |
| Priority inheritance (`runtime/scheduler.rs`) | base and effective priority, donation counters per level | `add_`, `remove_`, `replace_inheritance`, `refresh_inherited_priority`, `set_task_priority` | effective priority = most urgent of base and donors, transitively; queues stay sorted |
| Admission and identities (`runtime/reservation.rs`, `runtime/driver.rs`) | reservations, slot generations, retired stacks | reserve, release, reserved spawn, reclaim | a reserved spawn succeeds; stacks are freed once and never while in use |
| Handle table (`runtime/resource.rs`, `runtime/driver.rs`) | slot, generation, kind of each handle | insert, resolve, remove, in create, use and destroy | a stale or wrong-kind handle does not resolve; no object is leaked, released twice or used after its destruction |
| Start and storage (`runtime.rs`, `config.rs`, `storage.rs`) | start state, storage claim, heap | `install`, `start_*`, `allocate`, `deallocate` | started once, storage claimed once, every block goes back to its heap |
| Port-less profile (`runtime.rs`, `context.rs`) | as the scheduler, without frames and tickets | `execute_switch` in two critical sections, `idle_entry` | the same dispatch promise without a timer or a software interrupt |
| Linked lists and audit (`runtime/scheduler.rs`, `runtime/sync.rs`) | head and tail per list, one `next` per task | push, pop, unlink, ordered insertion, `ready_ownership_audit` | they implement queues; the audit notices every damage |
| Embassy time driver (`runtime/time.rs`) | expiry per waker | `schedule_wake`, next expiration | its deadlines share the one timer without delaying or losing one |

How they interact: every operation is a critical section (interrupts masked) on one global
scheduler; between two critical sections an interrupt may arrive, wake tasks, throttle the
current one, and switch in its epilogue. A thread-mode call that must leave the processor
commits a *switch intent*, pends the software interrupt and spins until it is resumed. A
wake from thread mode only queues the task and pends the software interrupt. Semaphores and
mutexes block and wake through the scheduler; mutexes change effective priorities, which
reorder ready and wait queues; the scheduler lock holds back preemption and throttling.

What is hard: interrupts between the two phases of a handoff; state read in one critical
section and used in the next; nested interrupts; signal, timeout, cancellation and
resumption racing for one waiter; chains of donations that change under handoffs;
millisecond arithmetic at budget boundaries. `PROJECT.json` lists these hazards at their
lines.

## Modules

* `Processor` – abstract: who holds the processor, who succeeds, who may lose it, and to whom.
* `Scheduler` – ready queues, handoff, scheduler lock, interrupts (ported profile).
* `SchedulerRefinement` – the mapping under which `Scheduler` implements `Processor`.
* `Portless` – the port-less profile; it implements `Processor` too.
* `TaskQueues` – abstract: ready and wait queues as sequences.
* `IntrusiveLists` – the linked lists of the code, which implement `TaskQueues`, and the audit.
* `Budget` – the numbers of one task's periodic budget.
* `Sync` – semaphores, mutexes, priority inheritance, cancellation.
* `Admission` – reservations, spawn, exit, identities, stacks and their reclamation.
* `Resources` – storage, start, the heap, and the handle table under create, use and destroy.
* `TimerRearm` – `rearm_timer` and its generation ticket, with the Embassy time driver.
* `MCScheduler`, `MCPortless`, `MCIntrusiveLists`, `MCBudget`, `MCSync`, `MCAdmission`,
  `MCResources`, `MCTimerRearm` – the modules TLC runs.
* `SlotLists` – what unlinking a task and visiting slots in order do to a list; `Scheduler`,
  `Portless`, `Sync` and `TaskQueues` share it.
* `CommonLemmas` – lemmas on lists of slots, division and minima that the proofs share.
* `SchedulerProofs` – the inductive invariant of `Scheduler`, its theorems, and that it
  implements `Processor`.
* `PortlessProofs` – that `Portless` implements `Processor`.
* `SyncProofs` – waits, permits, ownership, donations, wait cycles.
* `BudgetProofs`, `AdmissionProofs`, `ResourcesProofs`, `TimerRearmProofs` – the inductive
  invariants and the theorems of these components.

An operator whose comment begins with *Fault* is a plausible bug in the definition that
follows it. It is used only to show that a property notices: replacing the definition by it
must make TLC report the property (`mutants` in `PROJECT.json`).

### Scheduler

One action is one critical section. `pc[t]` says where the thread-mode code of a task
stands: in application code (`run`), before the reschedule request that follows a wake
(`request`), or in `execute_switch` before its assertions (`deliver`), before it pends the
software interrupt (`pend`), in its spin loop (`spin`). Interrupt actions are enabled
between any two of them; `IrqEnter` nests up to `MaxIrqDepth`. In a handler any number of
timer services, acknowledgements of the software interrupt and wakes may happen; the
epilogue is one of `TrapReturnNested`, `TrapConsume`, `TrapReplace`, `TrapPreempt` and
`TrapReturn`, which are the paths of `schedule_from_trap`. `interrupt_exit` and the epilogue
are one step, because the trap code runs them with interrupts masked.

Abstractions:

* Time. Which sleepers, timed waits, budgets, slices and lock limits are due is chosen
  freely at every timer interrupt. A slice only expires for a Preemptive task, because
  `next_time_slice_deadline` arms none for another.
* What a Blocked task waits for. It is woken by `Wake`, `IrqWake` or its timeout; module
  `Sync` has the rest. Changes of effective priority by donations are interleaved
  `SetEffectivePriority` steps.
* Identities. The sequence number of an intent and the generations of its source and target
  are dropped: in this profile prepare and commit share a critical section, so the branches
  that cancel a stale intent are unreachable. `resumed[t]` says that the resume generation
  differs from the one the task's last intent captured.
* The generation of a reused slot: `Reconfigurable` says whose identity a caller holds.
* A failed assertion or the port's `contract_violation` handler stops the firmware
  (`halted`), as the code does.
* Not modelled here: the port-less profile (module `Portless`); blocking or scheduler-lock
  calls from a handler, which the contract forbids. `cancel_wait` of a granted task may pend a software interrupt that
  is not needed; a free `IrqEnter` covers it.

### Processor, and the two schedulers that implement it

`Processor` says what a reader may rely on and nothing of how it is done: there is a holder of
the processor, a set of runnable tasks and at most one chosen heir. A heir is chosen when the
holder gives the processor up, is the most urgent runnable task at that moment (idle if there
is none), cannot be chosen twice and is the one that gets the processor; otherwise the
processor changes hands in one step, to the most urgent task, and only when the policy of
the holder lets it be displaced, when it was throttled, or when the holder is idle; never
while the holder has the scheduler lock, never to nobody.

`SchedulerRefinement` reads this off the task states, `current` and `pending_switch`: the
stages of `execute_switch`, the tickets, the trap frames and the queues do not appear. A wake
that arrives between commit and consumption, for example, must not replace the heir.

`Portless` is the same promise with another mechanism. `pc` says where the code of the task
stands whose registers the hart holds: application code (`run`), after the critical section
that chose a target (`prepared`), after the one that made it current (`switched`), after a
yield of the idle task that found nobody (`fruitless`), or in the `wfi` that follows. Interrupts
may arrive at each of them, wake tasks and change priorities; one between the fruitless yield
and `wfi` is served before the hart begins to wait. An interrupt with its epilogue is one
action. `EpilogueLinked` says whether the interrupt entry
of the target calls `__hisi_irq_epilogue`, which the documentation of the profile does not
expect (see Findings). Time is a flag per waiting task that its deadline has passed; only
`yield_now` looks at it.

### IntrusiveLists

The state is the words themselves: `links.head`, `links.tail` and `links.next`, shared by all
ready lists and wait queues as in the code. Walks are bounded by the number of slots, as the
code bounds them. The actions are the uses of the lists by the scheduler, reduced to what
decides which list operation happens: `Dormant` stands for Free, Sleeping and Throttled, and
any task may be preempted by one at least as urgent. `ImplementsQueues` maps each list to the
sequence a walk reads. The checks of `ready_ownership_audit` are evaluated on the lists of
every reachable state and on every list that differs from them in one word.

### Budget

The clock counts hardware ticks (`TicksPerMs` of them per millisecond), the code sees
`clock \div TicksPerMs`. `Tick` may not pass a deadline that `earliest_budget_deadline`
would have armed by more than `MaxLatency`; a timer interrupt may always come earlier. The
charge at a switch and the change of state are one step, since the epilogue and the timer
handler read the clock when the task is off the processor already.

A call from thread mode reads the clock before its critical section, and may be interrupted and
switched out in between. `LockCall` is the reading of `lock_scheduler` and `LockCurrent` its
critical section, `UnlockCall` and `Unlock` are those of `unlock_scheduler`: an unlock may
settle a deferred exhaustion with a `now` from before a phase boundary. A yield of another task
that replenishes and a new policy act on readings up to `MaxReadAge` old (`Readings`). A timer
interrupt that finds the lock held for `LockLimit` stops the firmware (`contract_violation`
does not return). The history variables measure true running time in ticks, count the runs
since the last filling (each may lose less than a millisecond to truncation, `Truncated`),
and record when policies, throttlings, calls and unlocks happened; no action reads them, except
that `Tick` uses the times of the last throttling and of the installation to say when a timer
interrupt is due.

### Sync

`tcb[t]` holds the fields of a task that waits and inheritance use. Which runnable task
executes is left open, so every schedule is covered, and "Ready" stands for every state other
than Free and Blocked. A parked call ends with `WaitReturns`, which reads the recorded grant
as `consume_semaphore_grant_locked` does. `refresh_inherited_priority` and
`replace_inheritance` recurse into each other along the chain of owners; the recursion is a
recursive function over `TASK_SLOT_COUNT` levels (`RefreshChain`), the bound the code asserts,
and so are the loops over the waiters of a released mutex. `TimerScan(due)` is one pass of
`wake_sleepers` over the due timed waiters in slot order. Calls that return an error or time
out at once change nothing and are no actions. `owed` and `held` are ghosts: what the callers
were told. Creating and destroying resources assumes what the unsafe contract of destroy
demands, that no other call on the handle is under way.

### Admission

`at[t]` says where a task stands in a call. Stacks are allocated and freed outside the
scheduler's critical section, so a call has several steps, and any other task may run
between two of them:

* `reserve_tasks`: `ReserveTasks`, one critical section. `reserve_task_resources` (a plan of
  one group) and `reserve_task_resource_plan`: `BeginPlan`, then `Preallocate` per stack or
  `PreallocateFails`, then `ReservePlan` or `ReservePlanRefused`. `Release` for
  `release_task_reservation`.
* `spawn`: `BeginSpawn` (takes the list of retired stacks), `ReadStackSize` or
  `SpawnTooLarge`, `SpawnAllocate` or `SpawnAllocateFails`, `SpawnCommit` or `SpawnRefused`,
  and `Identify`, which is the driver call's own critical section.
* `Yield` is what `yield_now` and `sleep_ms` do to retired stacks; `Exit` is `task_exit`.

Whatever a call has to give back it frees block by block (`Deallocate`) before it goes on. A
token may be used by any task, also after its release. The allocator is external: it hands out
any free block, or none. Stack sizes are reduced to whether a request fits the promise.
Numbers of tasks are counted as cardinalities of sets of pairs, and the order in which plan
entries take free reservation entries is given by rank, so that both can be reasoned about
without recursion. Generations do not wrap within the bounds; the code has 16 bits of them.
Calls that fail at once change nothing and are no actions. `released` and `ended` are ghosts.

### Resources

A call of a task is at one place of `call[c]`, and one action is one critical section.
`InstallClaim` and `InstallInit` are `SchedulerStorage::install` with its roll-back,
`StartClaim`, `StartDriver` and `StartInit` are `start_inner`; a start call takes the
installed storage by value, so a failed one loses it. `CreateAllocate`, `CreateInsert`,
`CreateRefused` and `Deallocate` are the create calls, `Destroy` and `Deallocate` the
destruction. A use resolves the handle (`CallResolve`) and works on the object in a later
critical section: `CallWaits`, `LockTakes`, `Up`, `Unlock`, or `CallReturns` for whatever
leaves owner and queue as they are. `WaitEnds` is a deadline or a cancellation of a queued
waiter, `CancelGrant` the cancellation of a grant that was not consumed, by a third task, and
`CallResumes` the second critical section of a wait.

Of the objects the model has the words that destroy inspects and those that point to them:
`words[b]`, owner and queue in block `b`, written afresh by each creation; `tcb[c]`, the
`waiting_*` pointer of a task, or once it is granted its `granted_*` pointer; and `held`, the
mutexes that `lock` told its callers they own. Which waiter is first, counts, depths and
inheritance are left to `Sync`: here a down may always wait, and any waiter may be the next one.
Deadlines, cancellations and releases follow the pointer in `tcb`, as the code does, and find
whatever is in the block. The heap (`hisi_alloc`) and the driver registry are external: a heap
hands out its first free block or null, the registry may be taken.

The destroy functions are unsafe. Of their contract the model assumes one part
(`DestroyContract`): no other call has resolved the handle and not yet reached its critical
section. It restricts the calls the environment makes and is not part of `Destroy`. That nobody
waits for the object, owns it or has been granted it is not assumed: `Destroy` has to see it
in the words. Handles are numbers, encoded as the code does
with `SlotBase` for the 8 slot bits and `GenerationMax` for the 24 generation bits, so that
generations wrap within the bounds.

### TimerRearm

The four steps of `rearm_timer` that an interrupt can separate are `ReadNow`, `Claim`,
`Program` and `CheckTicket`. The deadlines of the scheduler (wakes, slices, budgets, the
lock) are one value, `due`, in milliseconds; those of Embassy are `timers`, in ticks, and are
woken when a claim finds them expired. The Embassy queue is external: it keeps the earlier of
two expiries of one waker, wakes what has expired and reports the next. A full queue, which
wakes an entry to make room, is not modelled. `frame[c]` holds the locals of a thread or of an
interrupt level; only the innermost one executes, and the outermost epilogue may resume
another thread within its own `rearm_timer`. Time passes in application code, in handlers
and while a thread is switched out, never between two instructions of `rearm_timer`: this
favours the code. `set_task_priority`, which changes deadlines and does not rearm, is left
out (see the hazards). `armedFor`, `claimLag` and the `lag` of a frame are ghosts: the deadline
that the hardware was last programmed for, and how old the clock reading was when the last
ticket was claimed.

## Runs

| Run | Bounds | Shows |
|---|---|---|
| `Scheduler` | main, idle, one dynamic slot; 2 priorities; Budgeted and Preemptive; lock and interrupt depth 2 | the type invariant, `ReadyOwnership`, `FrameOwnership`, `LockDiscipline`, `HandoffArmed`, `AssertionsHold`, `NoSwitchWhileLocked`; it implements `Processor` |
| `SchedulerLive` | one dynamic slot, 2 priorities, Preemptive, lock and interrupt depth 1, fairness | `HandoffCompletes`, `WakePreempts`, `NoOvertaking` |
| `IntrusiveLists` | 5 slots, 2 priorities, one wait queue | the lists implement `TaskQueues`; the audit is exact (`AuditExact`) |
| `Portless` | 4 slots, 2 priorities, no epilogue, fairness | it implements `Processor`; when the idle loop gives way (`IdleYields`) |
| `Budget` | quota 2 ms in 3 ms, two ticks per ms, lock limit 3, latency 1, readings 1 ms old, 18 ticks | charging up to truncation, phase, readmission, the quota, lock deferral, lock overruns |
| `Sync` | three tasks, one semaphore, two mutexes, 3 priorities, count 1, no recursion | waits, permits, ownership, donations, order, cycles, destruction |
| `Admission` | main and two dynamic slots, 2 entries, 4 stacks, plans of 2 and of 1+1 slots, 3 reservations, 4 spawns | `StackOwnership`, `PromisesBacked`, `ReleasedTokensStale`, `IdentitiesFresh` |
| `Resources` | boot thread and a task, one storage and the legacy allocator, 3 blocks, 2 handle slots, 2 generations, 3 objects per slot | `BlocksOwnedOnce`, `ReturnedToItsHeap`, `HandlesExact`, `PointersLive` |
| `TimerRearm` | two threads, interrupt depth 2, 4 changes or interrupts, one Embassy waker, 2 ticks per millisecond, fairness | `NoStaleDeadline`, `LateByClaimLag`, `RearmCompletes` |
| `SchedulerFrameRace`, `SyncExit`, `PortlessTrap` | – | expected violations, see Findings |

Why the bounds are enough to be interesting. Three slots are the smallest table in which a
handoff has a source, a target and idle as the fallback; a policy of each kind occurs
(main and idle are Cooperative); a nested interrupt and a nested lock are the smallest
nesting that differs from none. Overtaking needs two tasks queued while idle or a
third executes. Three periods allow a lock to be held over a boundary, an unlock to be called
before one and to take effect after it, and a missed period; two ticks per millisecond make
truncation lose running time, over several runs of one filling. Three tasks and two mutexes are the
smallest chain with an owner that itself waits, and the smallest cycle; a third priority lets
a withdrawn donation uncover a lower one. Four
spawns on two slots reuse both, and three reservations on two entries reuse one while an old
token is still held; four stacks can all be in different hands. Two interrupt levels let a
rearm be interrupted by one that is itself interrupted. Five slots give a list of three tasks
besides the running one, so that a removal hits its head, its middle and its tail. Two
generations and three objects in a slot let an old handle meet a new object both before and
after the generation wraps; three blocks are more than the two handle slots, so that a
creation can find the table full. Two callers suffice for a grant that is cancelled and handed
on, because the caller that granted may itself wait by then. The theorems below remove the bounds
for the properties they state. The two mutexes of `Sync` and the stacks of `Admission` are
symmetric.

Fairness (`SchedulerLive`). Weak fairness of `Handoff` (the hart executes the thread it is
in), of the entry of a pended software interrupt while no handler runs, and of the epilogue
(a handler ends). Nothing is assumed about timer interrupts or application code. The
interrupt depth is 1 in that run: a storm of nested interrupts can starve the outermost
epilogue for ever, and the code cannot prevent it.

Fairness (`TimerRearm`). Weak fairness of the steps of `rearm_timer`, of the timer handler
and of the epilogue: the hart executes them to their end. `MaxEvents` bounds the interrupts,
so `RearmCompletes` says that a rearm ends once interrupts leave it alone, which is all the
code promises.

Fairness (`Portless`). Weak fairness of the idle task's yield, of its way into `wfi` and of the
two steps of a switch: the hart executes them. Nothing is assumed of interrupts, since the
profile arms no timer and a hart without any interrupt stays in `wfi`. `IdleYields` has two
parts. Work that is there before the yield looks is taken up without an interrupt. Work that
appears later, also between the look and `wfi`, needs another interrupt; that it is taken up
then is stated under the explicit premise `InterruptsRecur`. `PortlessWfi.cfg` shows that the
premise is needed.

## Proofs

Every theorem holds for all values of the constants that satisfy the named assumptions of the
component's module; what is assumed beyond them is said below and stands in the theorem. Each
proof has the same shape: an inductive invariant `IInv` that implies the property, one lemma
per action (or group of actions that change the same state) that it is preserved, and lemmas
about the operators of the model. For the modules other than `SyncProofs` and
`PortlessProofs`, TLC has confirmed `IInv` on the bounds of the component's run as well (in
`Owned` the members of a list are then quantified over `Slots`, which is the same by type).

| Module | Theorem | Property |
|---|---|---|
| `SchedulerProofs` | `TypeCorrect`, `ReadyOwnershipHolds`, `FrameOwnershipHolds`, `LockDisciplineHolds`, `HandoffArmedHolds`, `AssertionsNeverFail`, `NeverSwitchedWhileLocked`, `NeverOvertaken` | `TypeOK`, `ReadyOwnership`, `FrameOwnership`, `LockDiscipline`, `HandoffArmed`, `AssertionsHold`, `NoSwitchWhileLocked`, `NoOvertaking` |
| `SchedulerProofs` | `Refinement` | `ImplementsProcessor` |
| `PortlessProofs` | `PortlessRefinement` | `ImplementsProcessor` of `Portless` |
| `SyncProofs` | `WaitOwnershipHolds`, `PermitsConservedHolds`, `NoDanglingWaitHolds`, `NoWaitCycleHolds`, `QueuesOrderedHolds`, `MutexOwnershipHolds`, `DonationsExactHolds`, `NoFaultHolds` | the properties of run `Sync` |
| `BudgetProofs` | `TypeCorrect`, `PhaseKept`, `Readmission`, `OverrunsJustified`, `ExhaustionStays`, `NothingUnderAccounted`, `QuotaHolds` | `TypeOK`, `PhaseAligned`, `ReadmittedInTime`, `OverrunJustified`, `LockCannotEraseExhaustion`, `UnderAccountsByTruncation`, `QuotaUnlessEmpty` |
| `AdmissionProofs` | `TypeCorrect`, `StacksConserved`, `PromisesCovered`, `ReleasedStayReleased`, `IdentitiesNeverReused` | `TypeOK`, `StackOwnership`, `PromisesBacked`, `ReleasedTokensStale`, `IdentitiesFresh` |
| `ResourcesProofs` | `BlocksConserved`, `BlocksReturn`, `ObjectsOutlivePointers`, `HandlesResolveExactly` | `BlocksOwnedOnce`, `ReturnedToItsHeap`, `PointersLive`, `HandlesExact` |
| `TimerRearmProofs` | `TypeCorrect`, `DeadlineNeverStale`, `LatenessBounded` | `TypeOK`, `NoStaleDeadline`, `LateByClaimLag` |

### Scheduler

Assumptions: at least three slots, at least one priority, and `IDLE \notin Reconfigurable`,
without which `ReadyOwnership` is false (see Further configurations).

`ReadyOwnership` is not inductive: that a popped task is in no other list, that a
dispatched task has a frame, and that the task which spins in `execute_switch` is the source
of the pending switch are needed at once. `IInv` is the conjunction of the type invariant;
one relation `Owned` between states, priorities, lists and the target of the pending switch;
the shape of the pending switch; `RunningIsCurrent`; `IdleEligible`; `FrameOwnership`;
`LockDiscipline`; what each stage of a handoff knows (`HandoffState`); `HandoffArmed`;
`AssertionsHold`; and that idle is never Budgeted. The queue operators are reduced to the
lemmas on lists in `CommonLemmas`: what push, pop, removal and waking do to membership, bucket
and uniqueness.

`NoOvertaking` speaks of positions, which `IInv` does not. Every step but a change of policy or
priority is shown to take at most the head of a list and to append to the rest (`Kept`), and
the head that left is not back after the step, because `IInv` holds there: it is the target of
the pending switch or runs. Together with lists that hold no task twice, this keeps the order
of those that stay.

### Scheduler implements Processor

Same assumptions. The steps are mapped under `IInv` of the scheduler and one more invariant,
that only a Budgeted task has a deferred overrun: without it, the unlock that settles an
overrun could take the processor from a Cooperative task, which `Processor` forbids. Each
action of `Scheduler` has a lemma (`...Refines`) that says which abstract step it is, or that
it is none; each abstract action has a lemma that says what a concrete step must establish for
it. The core is that `ready_pop` takes a task no contender is more urgent than, where the
contenders are the runnable tasks of the abstract state.

### Portless implements Processor

Assumptions: at least three slots and at least one priority. The theorem is about every build,
with the epilogue linked or not, and about the behaviours in which no epilogue finds the
interrupted task displaced (`[][~EpilogueSwitches]_vars`): those that do are the finding
`PortlessTrap`. The invariant says that the queues hold exactly the Ready tasks other than
idle and the chosen target, each once and in the list of its priority; that between the two
critical sections of a switch the caller is off the processor and the target is still Ready
and not the caller; and that nobody but the current task runs or holds the scheduler lock.
That the target stays as it was chosen, whatever interrupts wake or reprioritise in the gap,
is what lets `execute_switch` act on it without another look.

### Sync

Assumptions: finitely many tasks, at least one priority, disjoint semaphores and mutexes.
`MutexOwnershipHolds`, `DonationsExactHolds` and `NoFaultHolds` also assume
`~ExitHoldingMutex`: a task that exits while it owns a mutex makes them false (`SyncExit`).
The other five hold with or without such exits.

The helpers of `Sync` are functions on one record of the kernel's state, and most lemmas say
what a helper does to it. `WaitInv` says that a task is linked in a wait queue exactly where its
TCB says it waits, that queues are sorted and hold nobody twice, that waiting has no cycle,
that a grant belongs to a task that was woken and has not returned, that nobody waits for a
resource that is free, and that the count of a semaphore and its grants make up the permits
owed to callers. It is inductive by itself, since inheritance only changes priorities and the
order within queues. `LockInv` adds that what `lock` told its callers is what the mutexes
record, that no expectation has failed, and that donations are exact.

* Cycles. Acyclicity is "every nonempty set of tasks has a member that waits for nobody in it",
  which needs no paths. Paths appear in one place: a walk along owners that does not end visits
  different tasks, so it ends within the size of the task table. This is why
  `refresh_inherited_priority` never reaches its bound and why `mutex_chain_contains` sees every
  owner.
* Donations. A release withdraws the donations of all waiters one by one, hands the mutex over,
  and contributes them again, and after every single change the priorities along the chain of
  owners are settled. In between the counters are exact for a smaller set of donors; so the
  lemmas are about `Exact(k, D)`, donations exact for the waiters in `D`, and each helper says
  how it changes `D`. One level of a refresh leaves only the next owner unsettled.

These recursions run over an interval of numbers, and what they keep is proved by induction on
it in the form of a set of good indices (`Induction` in `CommonLemmas`).

### Budget

Assumptions: a positive capacity that is at most the period, a positive lock limit.
All theorems hold for every resolution of the clock and every age of the readings.

`IInv` adds to the type invariant that the charged interval does not begin in the future; that
the next boundary is in phase and at most one period away; who may hold the lock, since when,
and that an overrun is deferred only under it; and that a throttled task waits for a boundary
at most one period after it was throttled, and later than the call of the unlock that
throttled it. `QuotaInv` is what the accounting needs besides: a task that is not charged is
not running or has used its budget up; what is left and what was used before the current
charge make up at most the capacity and less than a millisecond for each finished run; what
was used was used since the policy was installed, whose budget a stale reading may have begun
in the past; and a running task with an empty budget was dispatched with it or exhausted it
under the lock. The nonlinear part, that skipping missed periods yields the first
boundary after now in the same phase, is in lemmas about division.

### Admission

Assumptions: finitely many slots and stacks, at least one reservation entry, plans that are
not empty. `StackOwnership` counts owners; `IInv` says the same pairwise (`OwnerInv`), together
with what a task knows at each place of a call (`CallOK`): what it holds is its own, a spawn
that comes to its commit without a stack has a reservation with stacks if that reservation is
still live, because another task may release it in between. `PromisesBacked` is inductive only
with it, and rests on lemmas about the sum over the entries when one is filled, emptied or
counted down. `TokenInv` and `IdentityInv` say that no token and no identity is ahead of the
generation of its entry or slot, so that a counted-up generation was never seen before.

### Resources

Assumptions: fewer handle slots than the slot field can encode, at least one generation.
`IInv` says who owns a block pairwise, that at most one start call is under way and that
nothing is allocated before it has succeeded (`StartInv`, which is why a block can never come
from a heap other than the one it returns to), and that the generation of a slot is the number
of objects it has had, wrapped (`HandleInv`). `HandlesExact` then is arithmetic: encoding and
decoding are inverse, and two generations are equal exactly when the numbers of objects agree
modulo `GenerationMax`.

`PointersLive` rests on a second invariant on top of it, `ObjectInv`. Destroy looks at the words
of one object and at the granted words of the tasks; that this is a look at every pointer to
the object needs that a caller is in a queue exactly when its waiting word points to that
object (`WaitInv`), that the owner word names whoever holds the mutex or was granted it and has
not run yet, and that nobody waits for a mutex it holds, without which the cancellation of a
grant could release a mutex in use (`HeldInv`). That a block is registered under one kind only,
from `IInv`, keeps a release of a semaphore away from the words of a mutex. The contract of
destroy enters in one place (`ResolvedInv`).

### TimerRearm

Assumptions: at least one thread, threads are not interrupt levels. A context is *pending* when
it will claim again: it has not claimed yet, or its ticket is no longer the last one. `ClaimInv`
says that, unless a context that must finish before application code runs is pending, the last
claim covers every deadline, and so does the hardware once it has been programmed. `FrameInv`
says that only one context can hold the last ticket; `ProgramInv`, that no time passes between
its claim and its programming. An interrupted rearm is pending in this sense, and so is a thread
that was switched out within one, which is why a stale deadline never outlives it.

### Only model-checked

* Liveness (`HandoffCompletes`, `WakePreempts`, `IdleYields`, `RearmCompletes`): fairness is
  outside the prover.
* `AuditExact` and `ImplementsQueues` of `IntrusiveLists`: a walk along `next` is a recursive
  definition (see Plan).
* `NoOvertaking` of `Sync` (`SyncQueue.cfg`): order among equal waiters; the proofs of `Sync`
  keep the order by priority only.

## Findings

1. `SchedulerFrameRace` (code). The assertion "target task has no trap frame" of
   `execute_switch` is evaluated after the critical section that committed the switch. If an
   interrupt performs the switch in between, and the target runs and exits before the source
   is resumed, the assertion fails although nothing went wrong.
2. `SyncExit` (code). A task may exit while it owns a mutex; its waiters' timeouts then fail
   `expect("missing inherited waiter")`.
3. `PortlessTrap` (code). The trap epilogue is linked into every riscv32 build and selects a
   target also in the port-less profile, which saves no trap frames. An interrupt that wakes a
   task while idle runs, or one between the two critical sections of a switch, ends in the
   panic "target task has no saved trap frame"; or, when the interrupted task is the one that
   was woken and taken, resumes it with a switch still to perform.

### Further configurations

More configurations, outside the regular runs. The first passes, the others end in a
violation:

* `SyncQueue.cfg` (`MCSync`): four tasks and one mutex locked to depth 2: `MutexOwnership`,
  `DonationsExact`, `QueuesOrdered` and `NoOvertaking` with up to three waiters.
* `BudgetQuota.cfg` (`MCBudget`, `QuotaBounded`). A task switched out with exactly zero budget
  left stays Ready and is dispatched again without an exhaustion deadline, against
  RTOS-BUDGET-001 and RTOS-BUDGET-003 ("becomes `Throttled`"). `QuotaUnlessEmpty` of run
  `Budget` bounds every other way to spend a filling, by the latency of the timer and by what
  truncation takes from each run.
* `BudgetUnlock.cfg` (`MCBudget`, `EligibleAfterUnlock`). `unlock_scheduler` reads the clock
  before its critical section (`driver.rs:375`). When a phase boundary passes in between, the
  task that is throttled for its deferred exhaustion is eligible at once, against "eligibility
  is delayed to the first boundary strictly after unlock" of RTOS-BUDGET-006.
  `LockCannotEraseExhaustion` counts from the call of the unlock, for which it holds.
* `BudgetOverrun.cfg` (`MCBudget`, `OverrunReal`). `lock_scheduler` reads the clock before its
  critical section; a task that is switched out in between is reported for holding the lock
  "beyond the configured bound" when it has just taken it. `OverrunJustified` bounds the case.
* `AdmissionIdentity.cfg` (`MCAdmission`, `SpawnNamesItsTask`). The driver's spawn calls read
  the generation of the new task after it may have run (`driver.rs:242`): the caller may get
  an error for a spawn that succeeded, or the identity of a later task of the slot.
* `TimerRearmLate.cfg` (`MCTimerRearm`, `NeverLate`). `rearm_timer` reads the clock before it
  claims its ticket; a switch in between makes the timer late by the time the thread was
  switched out, against RTOS-TIMER-003. `LateByClaimLag` says that nothing else makes it late.
* `PortlessDeadline.cfg` (`MCPortless`, `DeadlinesObserved`). `start_cooperative` says that
  deadlines are observed at the next scheduling point; only `yield_now` looks at them, a task
  that sleeps, blocks or exits passes the processor on without.
* `PortlessWfi.cfg` (`MCPortless`, `WakeEndsIdle`). An interrupt that makes a task ready between
  the idle task's fruitless yield and its `wfi` is served before the hart begins to wait; the
  task then waits for another interrupt, although `idle_entry` says that "an enabled
  scheduler/target interrupt wakes the hart".
* `ResourcesArena.cfg` (`MCResources`, `OneHeapPerArena`). `install` takes the arena by shared
  reference, and the claim is kept in the storage: two storages can be given the same arena,
  against "its bytes are accessed only through the returned capability and the RTOS".
* `SchedulerIdle.cfg` (`MCScheduler`, `IdleNeverQueued`). The contract says that idle is never
  queued and cannot be reconfigured (`docs/spec/scheduling.md:31`, `README.md:14`);
  `set_task_run_policy` does not refuse its identity. A Budgeted idle is throttled, and a
  second policy change puts it in an ordinary queue. Hence the assumption of the theorems.
* `BudgetWindow.cfg` (`MCBudget`, `WindowQuota`). Budget left from one window is spent in the
  next and then refilled there, against the bound of RTOS-BUDGET-001.
* `BudgetSubMs.cfg` (`MCBudget`, `NeverUnderAccounts`). Truncation to milliseconds loses runs
  shorter than one, against "must never under-account" of RTOS-BUDGET-005.
  `UnderAccountsByTruncation` bounds the loss.
* `AdmissionRetired.cfg` (`MCAdmission`, `RetiredFits`). `retire_stack` asserts that the list
  of retired stacks has room. Only `spawn`, `yield_now` and `sleep_ms` drain it, and `spawn`
  does so before the critical section that creates its task. When main and two dynamic tasks
  are preempted in between, every other dynamic task exits, the three spawns complete, and
  the new tasks and the two spawners exit too, one stack more is retired than there are task
  slots (18 for 17 with the 15 dynamic slots of the code).

## Not modelled

* Context-switch assembly and frame layout: a frame is saved or not, an exchange of registers
  is one step.
* Chip registers (`ws63.rs`), apart from the truncation of the clock.
* Diagnostics counters and task metrics: no decision reads them.
* Validation of configuration values (`config.rs`) and the mapping of external policies
  (`map_execution_policy`): pure, with unit tests.
* The Embassy queue and its wakers, the heap, the driver registry: external.
* Overflow of a semaphore's count, and the wrap-around of 16-bit slot and token generations.
* The tests, the build and the evidence scripts.

## Plan

Done: all modules above, their runs and their proofs.

Next, proofs: `ImplementsQueues` and `AuditExact`, for which an invariant has to give every linked
task its place in the sequence a walk reads, so that pushing, unlinking and inserting become
statements about places; then the order of equal waiters in `Sync`.
