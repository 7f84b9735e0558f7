-------------------------------- MODULE Sync --------------------------------
(***************************************************************************)
(* Counting semaphores, recursive mutexes and priority inheritance of      *)
(* hisi-rtos (src/src/runtime/sync.rs, and the inheritance functions of    *)
(* src/src/runtime/scheduler.rs).                                          *)
(*                                                                         *)
(* One action is one critical section: an API call up to the point where   *)
(* it returns or parks, a timer scan, or the end of a parked call after    *)
(* the task was resumed.  Which runnable task executes next is left open,  *)
(* so every schedule that module Scheduler allows is covered: here "Ready" *)
(* stands for every state other than Free and Blocked.  The intrusive      *)
(* links of a wait queue are a sequence, and waiting_sem and waiting_mutex *)
(* (granted_sem and granted_mutex), of which at most one is set, are one   *)
(* field.  A deadline is abstracted to whether there is one.               *)
(***************************************************************************)
EXTENDS SlotLists, SequencesExt

CONSTANTS Tasks,            \* the task slots other than the idle task's
          MAIN,             \* the boot task, which never exits
          Sems, Mutexes,    \* resource handles that may be created
          PriorityLevels,   \* PRIORITY_LEVELS: 0 is the highest priority
          MaxCount,         \* bound on a semaphore's count (i32 in the code)
          MaxDepth,         \* bound on mutex recursion (u32 in the code)
          ExitHoldingMutex  \* whether a task may return while it owns a mutex

NIL == -1
NONE == "none"

ASSUME TasksAssumption == Tasks \subseteq Nat /\ IsFiniteSet(Tasks) /\ MAIN \in Tasks
ASSUME PriorityLevelsAssumption == PriorityLevels \in Nat /\ PriorityLevels >= 1
ASSUME ResourcesAssumption == Sems \cap Mutexes = {} /\ NONE \notin Sems \cup Mutexes
ASSUME BoundsAssumption == MaxCount \in Nat /\ MaxDepth \in Nat \ {0}
ASSUME ExitAssumption == ExitHoldingMutex \in BOOLEAN

Resources == Sems \cup Mutexes
Priorities == 0..(PriorityLevels - 1)
TaskSlotCount == Cardinality(Tasks) + 1

\* Expectations of the code whose failure panics the firmware.
Faults == {"none", "missing_inherited_waiter", "inheritance_cycle",
           "granted_mutex_not_owned"}

VARIABLES
  tcb,     \* tasks[t], the fields that waits and inheritance use
  queue,   \* the wait queue of each resource, head first
  count,   \* SemState.count
  owner,   \* MutexState.owner
  depth,   \* MutexState.depth
  live,    \* the resources whose handle resolves
  parked,  \* t is inside down or lock, past its call of execute_switch
  fault,   \* the expectation that failed, or "none"
  owed,    \* ghost: permits of s created or posted and not yet acquired
  held     \* ghost: successful locks of m by t not yet matched by an unlock

kernelVars == <<tcb, queue, count, owner, depth, fault>>
vars == <<kernelVars, live, parked, owed, held>>

\* Tcb::empty.
EmptyTcb ==
  [state |-> "Free", base |-> PriorityLevels - 1, priority |-> PriorityLevels - 1,
   inherited |-> [p \in Priorities |-> 0],
   waiting |-> NONE, granted |-> NONE, semGranted |-> FALSE, timed |-> FALSE]

\* The state that the helpers below transform, and its installation.
Kernel == [tcb |-> tcb, queue |-> queue, count |-> count,
           owner |-> owner, depth |-> depth, fault |-> fault]
Becomes(k) ==
  /\ tcb' = k.tcb
  /\ queue' = k.queue
  /\ count' = k.count
  /\ owner' = k.owner
  /\ depth' = k.depth
  /\ fault' = k.fault

Fail(k, f) == IF k.fault = "none" THEN [k EXCEPT !.fault = f] ELSE k

-----------------------------------------------------------------------------
(* Wait queues. *)

\* Fault: a waiter is linked in front of the waiters of its own priority.
EnqueueWaiterAtFront(k, r, t) ==
  LET q == k.queue[r]
      passed == {i \in DOMAIN q : k.tcb[q[i]].priority < k.tcb[t].priority}
  IN  [k EXCEPT !.queue[r] = InsertAt(@, Cardinality(passed) + 1, t)]

\* Fault: a waiter is appended whatever its priority.
EnqueueWaiterAtTail(k, r, t) == [k EXCEPT !.queue[r] = Append(@, t)]

\* enqueue_waiter and enqueue_mutex_waiter: t goes in front of the first
\* waiter whose priority is numerically greater than its own.
EnqueueWaiter(k, r, t) ==
  LET q == k.queue[r]
      greater == {i \in DOMAIN q : k.tcb[q[i]].priority > k.tcb[t].priority}
      at == IF greater = {} THEN Len(q) + 1
            ELSE CHOOSE i \in greater : \A j \in greater : i <= j
  IN  [k EXCEPT !.queue[r] = InsertAt(@, at, t)]

\* remove_waiter and remove_mutex_waiter.
RemoveWaiter(k, r, t) == [k EXCEPT !.queue[r] = Without(@, t)]

\* make_ready; the ready queues are module Scheduler's.
MakeReady(k, t) == [k EXCEPT !.tcb[t].state = "Ready"]

-----------------------------------------------------------------------------
(* Priority inheritance. *)

\* set_effective_priority: a semaphore waiter is requeued by its new priority.
SetEffectivePriority(k, t, p) ==
  LET r == k.tcb[t].waiting
      moved == [k EXCEPT !.tcb[t].priority = p]
  IN  IF p # k.tcb[t].priority /\ r \in Sems
      THEN EnqueueWaiter(RemoveWaiter(moved, r, t), r, t)
      ELSE moved

\* The priority that base and donations give a task: min(base, first donation).
EffectivePriority(task) ==
  LET offers == {task.base} \cup {p \in Priorities : task.inherited[p] # 0}
  IN  CHOOSE p \in offers : \A q \in offers : p <= q

\* checked_sub(1).expect("missing inherited waiter").
Undonate(k, o, p) ==
  IF k.tcb[o].inherited[p] = 0
  THEN Fail(k, "missing_inherited_waiter")
  ELSE [k EXCEPT !.tcb[o].inherited[p] = @ - 1]
Donate(k, o, p) == [k EXCEPT !.tcb[o].inherited[p] = @ + 1]

\* Fault: a changed priority does not propagate to the owner waited for.
RefreshStepLocal(c) ==
  LET t == c.task IN
  IF t = NIL THEN c
  ELSE [k |-> SetEffectivePriority(c.k, t, EffectivePriority(c.k.tcb[t])),
        task |-> NIL]

\* One level of refresh_inherited_priority and replace_inheritance: c.task is
\* the task to refresh, NIL when the chain has ended.
RefreshStep(c) ==
  LET t == c.task
      old == c.k.tcb[t].priority
      new == EffectivePriority(c.k.tcb[t])
      m == c.k.tcb[t].waiting
      moved == SetEffectivePriority(c.k, t, new)
      requeued == EnqueueWaiter(RemoveWaiter(moved, m, t), m, t)
      o == c.k.owner[m]
  IN  IF t = NIL \/ old = new THEN [k |-> c.k, task |-> NIL]
      ELSE IF m \notin Mutexes THEN [k |-> moved, task |-> NIL]
      ELSE IF o = NIL THEN [k |-> requeued, task |-> NIL]
      ELSE [k |-> Donate(Undonate(requeued, o, old), o, new), task |-> o]

\* The levels of the recursion of refresh_inherited_priority(t, 0), which its
\* assertion depth < TASK_SLOT_COUNT cuts.
RefreshChain(k, t) ==
  LET chain[i \in 0..TaskSlotCount] ==
        IF i = 0 THEN [k |-> k, task |-> t] ELSE RefreshStep(chain[i - 1])
  IN  chain
RefreshInheritedPriority(k, t) ==
  LET end == RefreshChain(k, t)[TaskSlotCount]
  IN  IF end.task = NIL THEN end.k ELSE Fail(end.k, "inheritance_cycle")

AddInheritance(k, o, p) == RefreshInheritedPriority(Donate(k, o, p), o)
RemoveInheritance(k, o, p) == RefreshInheritedPriority(Undonate(k, o, p), o)

\* The loops of release_mutex_locked: u withdraws its donation to the old owner
\* o, or makes one to the new owner o; then all of the list us do.
Withdraw(k, o, u) == RemoveInheritance(k, o, k.tcb[u].priority)
Contribute(k, o, u) == AddInheritance(k, o, k.tcb[u].priority)
WithdrawAll(k, o, us) ==
  LET after[i \in 0..Len(us)] == IF i = 0 THEN k ELSE Withdraw(after[i - 1], o, us[i])
  IN  after[Len(us)]
ContributeAll(k, o, us) ==
  LET after[i \in 0..Len(us)] == IF i = 0 THEN k ELSE Contribute(after[i - 1], o, us[i])
  IN  after[Len(us)]

\* Fault: only the direct owner is compared.
MutexChainContainsDirect(o, t) == o = t

\* mutex_chain_contains: t is reached from o along waiting_mutex and owner.
MutexChainContains(o, t) ==
  LET next(u) == IF tcb[u].waiting \in Mutexes THEN owner[tcb[u].waiting] ELSE NIL
      advance(u) == IF u \in {NIL, t} THEN u ELSE next(u)
      chain[i \in 0..TaskSlotCount] == IF i = 0 THEN o ELSE advance(chain[i - 1])
  IN  chain[TaskSlotCount] # NIL

-----------------------------------------------------------------------------
(* Grants, releases and the ends of a wait. *)

\* A waiter stops waiting: with the resource (g), or without (NONE).
EndWait(k, t, g) ==
  MakeReady([k EXCEPT !.tcb[t].waiting = NONE, !.tcb[t].timed = FALSE,
                      !.tcb[t].granted = g, !.tcb[t].semGranted = (g # NONE)], t)

\* release_semaphore_locked: a permit goes to the head waiter, or to the count.
ReleaseSemaphoreLocked(k, s) ==
  IF k.queue[s] = <<>>
  THEN [k EXCEPT !.count[s] = @ + 1]
  ELSE EndWait([k EXCEPT !.queue[s] = Tail(@)], Head(k.queue[s]), s)

\* Fault: the waiters left behind do not donate to the new owner.
ReleaseMutexLockedUndonated(k, m, o) ==
  LET next == Head(k.queue[m])
      handed == [k EXCEPT !.queue[m] = Tail(@), !.owner[m] = next, !.depth[m] = 1]
      freed == WithdrawAll(handed, o, k.queue[m])
  IN  IF k.queue[m] = <<>> THEN [k EXCEPT !.owner[m] = NIL] ELSE EndWait(freed, next, m)

\* release_mutex_locked: withdraw every donation to the old owner o, hand the
\* mutex to the head waiter at depth one, let the others donate to it.
ReleaseMutexLocked(k, m, o) ==
  LET next == Head(k.queue[m])
      popped == [k EXCEPT !.queue[m] = Tail(@)]
      freed == WithdrawAll(popped, o, k.queue[m])
      handed == EndWait([freed EXCEPT !.owner[m] = next, !.depth[m] = 1], next, m)
  IN  IF k.queue[m] = <<>>
      THEN [k EXCEPT !.owner[m] = NIL]
      ELSE ContributeAll(handed, next, handed.queue[m])

\* Fault: the waiter stays linked in the wait queue.
LeaveQueueStillLinked(k, t) == EndWait(k, t, NONE)

\* A queued waiter leaves without the resource, by timeout or cancellation: the
\* common part of timeout_semaphore_waiter_locked, of the mutex branch of
\* wake_sleepers and of the queued branches of cancel_wait_locked.
LeaveQueue(k, t) ==
  LET r == k.tcb[t].waiting
      unlinked == RemoveWaiter(k, r, t)
      withdrawn == IF r \in Mutexes /\ k.owner[r] # NIL
                   THEN RemoveInheritance(unlinked, k.owner[r], k.tcb[t].priority)
                   ELSE unlinked
  IN  EndWait(withdrawn, t, NONE)

\* All of the list ts leave, in that order.
LeaveAll(k, ts) ==
  LET after[i \in 0..Len(ts)] == IF i = 0 THEN k ELSE LeaveQueue(after[i - 1], ts[i])
  IN  after[Len(ts)]

\* Fault: a revoked semaphore grant is dropped.
RevokeGrantLost(k, t) ==
  [k EXCEPT !.tcb[t].granted = NONE, !.tcb[t].semGranted = FALSE]

\* The granted branches of cancel_wait_locked: a handoff that t has not consumed
\* goes back to the semaphore or on to the next mutex waiter.
RevokeGrant(k, t) ==
  LET r == k.tcb[t].granted
      revoked == [k EXCEPT !.tcb[t].granted = NONE, !.tcb[t].semGranted = FALSE]
      asserted == IF k.owner[r] = t /\ k.depth[r] = 1 THEN revoked
                  ELSE Fail(revoked, "granted_mutex_not_owned")
  IN  IF r \in Sems
      THEN ReleaseSemaphoreLocked(revoked, r)
      ELSE ReleaseMutexLocked([asserted EXCEPT !.depth[r] = 0], r, t)

-----------------------------------------------------------------------------
(* Initial state and actions. *)

\* init: the boot task runs, nothing has been spawned or created.
Init ==
  /\ tcb \in { [t \in Tasks |-> IF t = MAIN
                                 THEN [EmptyTcb EXCEPT !.state = "Ready", !.base = p,
                                                       !.priority = p]
                                 ELSE EmptyTcb] : p \in Priorities }
  /\ queue = [r \in Resources |-> <<>>]
  /\ count = [s \in Sems |-> 0]
  /\ owner = [m \in Mutexes |-> NIL]
  /\ depth = [m \in Mutexes |-> 0]
  /\ live = {}
  /\ parked = [t \in Tasks |-> FALSE]
  /\ fault = "none"
  /\ owed = [s \in Sems |-> 0]
  /\ held = [t \in Tasks |-> [m \in Mutexes |-> 0]]

\* t can execute application code, which calls into the kernel.
Executing(t) == fault = "none" /\ tcb[t].state = "Ready" /\ ~parked[t]

\* The part of a blocking call that parks the caller: blocked, waiting for r
\* and queued, with a deadline unless the timeout is Forever.
Park(t, r, timed) ==
  EnqueueWaiter([Kernel EXCEPT !.tcb[t].state = "Blocked", !.tcb[t].timed = timed,
                               !.tcb[t].waiting = r, !.tcb[t].semGranted = FALSE], r, t)

SemaphoreCreate(s, n) ==
  /\ fault = "none" /\ s \notin live
  /\ live' = live \cup {s}
  /\ Becomes([Kernel EXCEPT !.queue[s] = <<>>, !.count[s] = n])
  /\ owed' = [owed EXCEPT ![s] = n]
  /\ UNCHANGED <<parked, held>>

\* Fault: a semaphore with an unconsumed grant counts as idle.
SemaphoreBusyWaitersOnly(s) == queue[s] # <<>>

\* The refusals of semaphore_destroy.
SemaphoreBusy(s) == queue[s] # <<>> \/ \E t \in Tasks : tcb[t].granted = s

SemaphoreDestroy(s) ==
  /\ fault = "none" /\ s \in live /\ ~SemaphoreBusy(s)
  /\ live' = live \ {s}
  /\ UNCHANGED <<kernelVars, parked, owed, held>>

\* Fault: a permit is taken without a look at the count.
SemaphoreDownNowUnchecked(s) ==
  /\ fault = "none" /\ s \in live
  /\ Becomes([Kernel EXCEPT !.count[s] = @ - 1])
  /\ owed' = [owed EXCEPT ![s] = @ - 1]
  /\ UNCHANGED <<live, parked, held>>

\* down and down_timeout with a permit at hand.
SemaphoreDownNow(s) ==
  /\ fault = "none" /\ s \in live /\ count[s] > 0
  /\ Becomes([Kernel EXCEPT !.count[s] = @ - 1])
  /\ owed' = [owed EXCEPT ![s] = @ - 1]
  /\ UNCHANGED <<live, parked, held>>

\* down and down_timeout without one.
SemaphoreDownPark(t, s, timed) ==
  /\ Executing(t) /\ s \in live /\ count[s] = 0
  /\ Becomes(Park(t, s, timed))
  /\ parked' = [parked EXCEPT ![t] = TRUE]
  /\ UNCHANGED <<live, owed, held>>

\* up, from a task or from an interrupt handler.
SemaphoreUp(s) ==
  /\ fault = "none" /\ s \in live /\ count[s] < MaxCount
  /\ Becomes(ReleaseSemaphoreLocked(Kernel, s))
  /\ owed' = [owed EXCEPT ![s] = @ + 1]
  /\ UNCHANGED <<live, parked, held>>

MutexCreate(m) ==
  /\ fault = "none" /\ m \notin live
  /\ live' = live \cup {m}
  /\ Becomes([Kernel EXCEPT !.queue[m] = <<>>, !.owner[m] = NIL, !.depth[m] = 0])
  /\ UNCHANGED <<parked, owed, held>>

\* mutex_destroy, refused while the mutex has an owner or waiters.
MutexDestroy(m) ==
  /\ fault = "none" /\ m \in live /\ owner[m] = NIL /\ queue[m] = <<>>
  /\ live' = live \ {m}
  /\ UNCHANGED <<kernelVars, parked, owed, held>>

\* lock of a free mutex, or again by its owner.
MutexLockNow(t, m) ==
  /\ Executing(t) /\ m \in live
  /\ \/ owner[m] = t /\ depth[m] < MaxDepth
     \/ owner[m] = NIL
  /\ Becomes([Kernel EXCEPT !.owner[m] = t, !.depth[m] = IF owner[m] = t THEN @ + 1 ELSE 1])
  /\ held' = [held EXCEPT ![t][m] = @ + 1]
  /\ UNCHANGED <<live, parked, owed>>

\* lock of a mutex that another task owns: refused if that would close a cycle.
MutexLockPark(t, m, timed) ==
  /\ Executing(t) /\ m \in live
  /\ owner[m] \notin {NIL, t} /\ ~MutexChainContains(owner[m], t)
  /\ Becomes(AddInheritance(Park(t, m, timed), owner[m], tcb[t].priority))
  /\ parked' = [parked EXCEPT ![t] = TRUE]
  /\ UNCHANGED <<live, owed, held>>

MutexUnlock(t, m) ==
  /\ Executing(t) /\ m \in live /\ owner[m] = t /\ depth[m] > 0
  /\ LET lowered == [Kernel EXCEPT !.depth[m] = @ - 1]
     IN  Becomes(IF lowered.depth[m] = 0 THEN ReleaseMutexLocked(lowered, m, t)
                 ELSE lowered)
  /\ held' = [held EXCEPT ![t][m] = @ - 1]
  /\ UNCHANGED <<live, parked, owed>>

\* Fault: the resumed caller leaves its grant revocable.
ConsumedKeepingGrant(k, t) == [k EXCEPT !.tcb[t].semGranted = FALSE]

\* consume_semaphore_grant_locked, and its copy at the end of lock.
Consumed(k, t) == [k EXCEPT !.tcb[t].semGranted = FALSE, !.tcb[t].granted = NONE]

\* A resumed task ends its parked call, which returns sem_granted.
WaitReturns(t) ==
  /\ fault = "none" /\ tcb[t].state = "Ready" /\ parked[t]
  /\ Becomes(Consumed(Kernel, t))
  /\ parked' = [parked EXCEPT ![t] = FALSE]
  /\ LET r == tcb[t].granted
         acquired == tcb[t].semGranted
     IN  /\ owed' = IF acquired /\ r \in Sems THEN [owed EXCEPT ![r] = @ - 1] ELSE owed
         /\ held' = IF acquired /\ r \in Mutexes THEN [held EXCEPT ![t][r] = @ + 1]
                    ELSE held
  /\ UNCHANGED live

\* cancel_wait of a task that waits, or was granted and has not resumed yet;
\* any other task is NotWaiting.
CancelWait(t) ==
  /\ fault = "none"
  /\ tcb[t].waiting # NONE \/ tcb[t].granted # NONE
  /\ tcb[t].granted \in Sems => count[tcb[t].granted] < MaxCount
  /\ Becomes(IF tcb[t].waiting # NONE THEN LeaveQueue(Kernel, t) ELSE RevokeGrant(Kernel, t))
  /\ UNCHANGED <<live, parked, owed, held>>

\* wake_sleepers, in slot order, over the timed waiters that are due.
TimerScan(due) ==
  /\ fault = "none" /\ due # {}
  /\ \A t \in due : tcb[t].state = "Blocked" /\ tcb[t].timed
  /\ Becomes(LeaveAll(Kernel, InSlotOrder(due)))
  /\ UNCHANGED <<live, parked, owed, held>>

\* set_task_priority of any live task, by any task.
SetTaskPriority(t, p) ==
  /\ fault = "none" /\ tcb[t].state # "Free" /\ p # tcb[t].base
  /\ Becomes(RefreshInheritedPriority([Kernel EXCEPT !.tcb[t].base = p], t))
  /\ UNCHANGED <<live, parked, owed, held>>

\* spawn into a free slot: inherited_waiters keeps what Tcb::empty left.
Spawn(t, p) ==
  /\ fault = "none" /\ tcb[t].state = "Free"
  /\ Becomes(MakeReady([Kernel EXCEPT !.tcb[t].base = p, !.tcb[t].priority = p,
                                      !.tcb[t].timed = FALSE], t))
  /\ held' = [held EXCEPT ![t] = [m \in Mutexes |-> 0]]
  /\ UNCHANGED <<live, parked, owed>>

\* task_exit: the slot is overwritten, no resource is looked at.
Exit(t) ==
  /\ Executing(t) /\ t # MAIN
  /\ ExitHoldingMutex \/ \A m \in Mutexes : held[t][m] = 0
  /\ Becomes([Kernel EXCEPT !.tcb[t] = EmptyTcb])
  /\ UNCHANGED <<live, parked, owed, held>>

SemaphoreStep ==
  \E s \in Sems :
    \/ \E n \in 0..MaxCount : SemaphoreCreate(s, n)
    \/ SemaphoreDestroy(s)
    \/ SemaphoreDownNow(s)
    \/ SemaphoreUp(s)
    \/ \E t \in Tasks, timed \in BOOLEAN : SemaphoreDownPark(t, s, timed)

MutexStep ==
  \E m \in Mutexes :
    \/ MutexCreate(m)
    \/ MutexDestroy(m)
    \/ \E t \in Tasks : MutexLockNow(t, m) \/ MutexUnlock(t, m)
    \/ \E t \in Tasks, timed \in BOOLEAN : MutexLockPark(t, m, timed)

TaskStep ==
  \/ \E t \in Tasks : WaitReturns(t) \/ CancelWait(t) \/ Exit(t)
  \/ \E t \in Tasks, p \in Priorities : SetTaskPriority(t, p) \/ Spawn(t, p)
  \/ \E due \in SUBSET Tasks : TimerScan(due)

Next == SemaphoreStep \/ MutexStep \/ TaskStep

Spec == Init /\ [][Next]_vars

-----------------------------------------------------------------------------
(* Properties. *)

Owned(t) == {m \in Mutexes : owner[m] = t}
Donors(t) == {u \in Tasks : tcb[u].waiting \in Owned(t)}
Position(q, t) == CHOOSE i \in DOMAIN q : q[i] = t

\* Every variable has its type.
TypeOK ==
  /\ tcb \in [Tasks -> [state : {"Free", "Ready", "Blocked"},
                        base : Priorities, priority : Priorities,
                        inherited : [Priorities -> 0..Cardinality(Tasks)],
                        waiting : Resources \cup {NONE}, granted : Resources \cup {NONE},
                        semGranted : BOOLEAN, timed : BOOLEAN]]
  /\ \A r \in Resources : queue[r] \in Seq(Tasks)
  /\ count \in [Sems -> 0..MaxCount]
  /\ owner \in [Mutexes -> Tasks \cup {NIL}]
  /\ depth \in [Mutexes -> 0..MaxDepth]
  /\ live \subseteq Resources
  /\ parked \in [Tasks -> BOOLEAN]
  /\ fault \in Faults
  /\ owed \in [Sems -> Nat]
  /\ held \in [Tasks -> [Mutexes -> Nat]]

\* However signal, timeout and cancellation race for a waiter, it is in exactly
\* the queue its TCB names, at most once, while it is Blocked, and a grant is
\* recorded only for a parked task that has been made ready and has not resumed
\* (RTOS-WAIT-001; enqueue_waiter to cancel_wait_locked).
WaitOwnership ==
  /\ \A r \in Resources : IsInjective(queue[r])
  /\ \A t \in Tasks :
       /\ {r \in Resources : t \in Range(queue[r])} = {tcb[t].waiting} \ {NONE}
       /\ tcb[t].waiting # NONE <=> tcb[t].state = "Blocked"
       /\ tcb[t].semGranted <=> tcb[t].granted # NONE
       /\ tcb[t].granted # NONE => tcb[t].state = "Ready" /\ parked[t]
       /\ tcb[t].state = "Blocked" => parked[t]

\* No permit is lost, duplicated or stolen by any order of up, timeout,
\* cancellation and the resumption of a granted waiter: what was posted and not
\* acquired is in the count or granted to one task, and no permit lies in the
\* count while somebody waits (RTOS-WAIT-002, RTOS-WAIT-004).
PermitsConserved ==
  \A s \in live \cap Sems :
    /\ owed[s] = count[s] + Cardinality({t \in Tasks : tcb[t].granted = s})
    /\ count[s] > 0 => queue[s] = <<>>

\* A task that lock() told it has the mutex keeps it, alone and at the depth it
\* locked it to, until its own final unlock: neither a cancellation, a timeout
\* nor a handoff takes it back.  Otherwise an owner is a task with a pending
\* handoff, and a mutex nobody owns has no waiters (RTOS-WAIT-004, RTOS-MUTEX-001).
MutexOwnership ==
  \A m \in live \cap Mutexes :
    /\ \A t \in Tasks : held[t][m] > 0 => owner[m] = t /\ depth[m] = held[t][m]
    /\ owner[m] # NIL /\ held[owner[m]][m] = 0 =>
         depth[m] = 1 /\ tcb[owner[m]].granted = m
    /\ owner[m] = NIL => queue[m] = <<>>

\* The effective priority of a task is always the most urgent of its base and of
\* the effective priorities of the tasks waiting, at any distance, for a mutex
\* it owns, and the counters that remember those donations are exact
\* (RTOS-MUTEX-002; refresh_inherited_priority and its callers).
DonationsExact ==
  \A t \in Tasks :
    LET offers == {tcb[t].base} \cup {tcb[u].priority : u \in Donors(t)}
    IN  /\ \A p \in Priorities :
             tcb[t].inherited[p] = Cardinality({u \in Donors(t) : tcb[u].priority = p})
        /\ tcb[t].priority \in offers
        /\ \A p \in offers : tcb[t].priority <= p

\* Wait queues stay sorted by effective priority while donations and
\* set_task_priority change the priorities of queued tasks, so the head that a
\* release serves is a most urgent waiter (RTOS-WAIT-002, RTOS-MUTEX-001).
QueuesOrdered ==
  \A r \in Resources : \A i, j \in DOMAIN queue[r] :
    i < j => tcb[queue[r][i]].priority <= tcb[queue[r][j]].priority

\* No task waits, through any number of mutexes, for itself: the check that lock
\* makes when it parks is enough whatever handoffs, timeouts and cancellations
\* change the chain later (mutex_chain_contains).
NoWaitCycle ==
  \A S \in SUBSET Tasks :
    S # {} => \E t \in S : \A u \in S : tcb[t].waiting \notin Owned(u)

\* No task waits for or holds a grant of a destroyed resource, so no later
\* timeout, cancellation or priority change dereferences a freed semaphore or
\* mutex (RTOS-WAIT-003).
NoDanglingWait ==
  \A t \in Tasks : {tcb[t].waiting, tcb[t].granted} \subseteq live \cup {NONE}

\* None of the expectations of the inheritance and cancellation code fails: no
\* donation is withdrawn that was not made, no chain exceeds the task table, a
\* revoked mutex handoff finds its depth-one owner.
NoFault == fault = "none"

\* Among waiters of equal effective priority a queue is first-in first-out: a
\* task that keeps its place and priority is never overtaken by an equal
\* (RTOS-WAIT-002).
NoOvertaking ==
  [][\A r \in Resources : \A i, j \in DOMAIN queue'[r] :
       LET u == queue'[r][i]
           v == queue'[r][j]
       IN  (/\ i < j
            /\ v \in Range(queue[r])
            /\ tcb'[u].priority = tcb'[v].priority
            /\ tcb'[v].priority = tcb[v].priority)
           => u \in Range(queue[r]) /\ Position(queue[r], u) < Position(queue[r], v)]_vars
=============================================================================
