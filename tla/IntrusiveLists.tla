---------------------------- MODULE IntrusiveLists ----------------------------
(***************************************************************************)
(* The linked lists behind the queues: ready_head, ready_tail and, in each *)
(* semaphore and mutex, wait_head and wait_tail, all threaded through the  *)
(* one `next` field of the task control blocks.  A task that is linked     *)
(* into two lists, or a tail that is left behind, silently loses tasks.    *)
(*                                                                         *)
(* One action is one use of the lists inside a critical section of         *)
(* scheduler.rs or sync.rs; one iteration of the loop of wake_sleepers is  *)
(* an action too.  "Dormant" stands for Free, Sleeping and Throttled,      *)
(* which the lists and the audit treat alike.                              *)
(***************************************************************************)
EXTENDS Integers, Sequences, FiniteSets, FiniteSetsExt

CONSTANTS TaskSlots,       \* TASK_SLOT_COUNT
          PriorityLevels,  \* PRIORITY_LEVELS
          Waits,           \* semaphores and mutexes
          Reconfigurable   \* slots whose priority changes

ASSUME TaskSlotsAssumption == TaskSlots \in Nat /\ TaskSlots >= 3
ASSUME PriorityLevelsAssumption == PriorityLevels \in Nat /\ PriorityLevels >= 1
ASSUME WaitsAssumption == Waits \cap Int = {}
ASSUME ReconfigurableAssumption == Reconfigurable \subseteq 0..(TaskSlots - 1)

Slots == 0..(TaskSlots - 1)
MAIN == 0
IDLE == 1
NIL == -1
Levels == 0..(PriorityLevels - 1)
Lists == Levels \cup Waits

VARIABLES
  links,    \* the words of the lists: head[l], tail[l] and next[t]
  prio,     \* tasks[t].priority
  state,    \* tasks[t].state
  waiting,  \* tasks[t].waiting_sem or waiting_mutex
  current,  \* Sched.current
  pending   \* Sched.pending_switch: its target

vars == <<links, prio, state, waiting, current, pending>>

-----------------------------------------------------------------------------
(* The list operations, on a record of words L. *)

\* The words a walk along list l reads: the head, then TASK_SLOT_COUNT links.
Chain(L, l) ==
  LET word[k \in 0..TaskSlots] ==
        IF k = 0 THEN L.head[l]
        ELSE IF word[k - 1] \in Slots THEN L.next[word[k - 1]] ELSE word[k - 1]
  IN  word

\* The tasks that such a walk visits, and the word it stops at.
Walk(L, l) ==
  SelectSeq([i \in 1..TaskSlots |-> Chain(L, l)[i - 1]], LAMBDA w : w \in Slots)
End(L, l) == Chain(L, l)[TaskSlots]

\* ready_contains, for the list l.
Linked(L, l, t) == LET q == Walk(L, l) IN \E i \in DOMAIN q : q[i] = t
Contains(L, t) == \E p \in Levels : Linked(L, p, t)

\* ready_push of task t, whose priority is p.
ReadyPush(L, t, p) ==
  LET cleared == [L EXCEPT !.next[t] = NIL]
      linked == IF cleared.tail[p] = NIL THEN [cleared EXCEPT !.head[p] = t]
                ELSE [cleared EXCEPT !.next[cleared.tail[p]] = t]
  IN  [linked EXCEPT !.tail[p] = t]

\* The queue part of make_ready.
MakeReady(L, t) == IF t = IDLE THEN L ELSE ReadyPush(L, t, prio[t])

\* Unlinking the head of list l, as ready_pop and release_semaphore_locked do.
PopHead(L, l) ==
  LET t == L.head[l]
      rest == L.next[t]
  IN  [head |-> [L.head EXCEPT ![l] = rest],
       tail |-> [L.tail EXCEPT ![l] = IF rest = NIL THEN NIL ELSE @],
       next |-> [L.next EXCEPT ![t] = NIL]]

\* ready_pop: the first non-empty list, NIL if there is none.
FirstReady(L) ==
  LET busy == {p \in Levels : L.head[p] # NIL}
  IN  IF busy = {} THEN NIL ELSE Min(busy)
ReadyPop(L) == IF FirstReady(L) = NIL THEN L ELSE PopHead(L, FirstReady(L))
Popped(L) == IF FirstReady(L) = NIL THEN NIL ELSE L.head[FirstReady(L)]
PoppedOrIdle(L) == IF FirstReady(L) = NIL THEN IDLE ELSE Popped(L)

\* Fault: the tail still points to the task that was unlinked.
UnlinkKeepsTail(L, l, t) ==
  LET q == Walk(L, l)
      k == CHOOSE k \in DOMAIN q : q[k] = t
      bridged == IF k = 1 THEN [L EXCEPT !.head[l] = L.next[t]]
                 ELSE [L EXCEPT !.next[q[k - 1]] = L.next[t]]
  IN  IF ~Linked(L, l, t) THEN L ELSE [bridged EXCEPT !.next[t] = NIL]

\* ready_remove, remove_waiter and remove_mutex_waiter.
Unlink(L, l, t) ==
  LET q == Walk(L, l)
      k == CHOOSE k \in DOMAIN q : q[k] = t
      previous == IF k = 1 THEN NIL ELSE q[k - 1]
      bridged == IF previous = NIL THEN [L EXCEPT !.head[l] = L.next[t]]
                 ELSE [L EXCEPT !.next[previous] = L.next[t]]
  IN  IF ~Linked(L, l, t) THEN L
      ELSE [bridged EXCEPT !.tail[l] = IF @ = t THEN previous ELSE @,
                           !.next[t] = NIL]

\* Fault: the newcomer passes the waiters that are as urgent as itself.
EnqueueBeforeEquals(L, l, t, pr) ==
  LET q == Walk(L, l)
      k == Max({j \in 0..Len(q) : \A i \in 1..j : pr[q[i]] < pr[t]})
      after == IF k = Len(q) THEN NIL ELSE q[k + 1]
      pointed == [L EXCEPT !.next[t] = after]
      linked == IF k = 0 THEN [pointed EXCEPT !.head[l] = t]
                ELSE [pointed EXCEPT !.next[q[k]] = t]
  IN  IF after = NIL THEN [linked EXCEPT !.tail[l] = t] ELSE linked

\* enqueue_waiter and enqueue_mutex_waiter, with the priorities pr: behind the
\* waiters at the front that are at least as urgent.
EnqueueWaiter(L, l, t, pr) ==
  LET q == Walk(L, l)
      k == Max({j \in 0..Len(q) : \A i \in 1..j : pr[q[i]] <= pr[t]})
      after == IF k = Len(q) THEN NIL ELSE q[k + 1]
      pointed == [L EXCEPT !.next[t] = after]
      linked == IF k = 0 THEN [pointed EXCEPT !.head[l] = t]
                ELSE [pointed EXCEPT !.next[q[k]] = t]
  IN  IF after = NIL THEN [linked EXCEPT !.tail[l] = t] ELSE linked

-----------------------------------------------------------------------------
(* The operations of the scheduler that use them. *)

Running == state[current] = "Running" /\ pending = NIL

\* prepare_switch_intent asserts that the target is detached and Ready.
Commit(L, st, t) ==
  /\ links' = L
  /\ state' = st
  /\ pending' = t
  /\ UNCHANGED <<prio, current>>

\* take_yield_target.
Yield ==
  /\ Running
  /\ Popped(links) # NIL
  /\ Commit(MakeReady(ReadyPop(links), current), [state EXCEPT ![current] = "Ready"],
            Popped(links))
  /\ UNCHANGED waiting

\* prepare_switch_away_decision of sleep_ms, task_exit and unlock_scheduler.
SwitchAway ==
  /\ Running
  /\ current # IDLE
  /\ Commit(ReadyPop(links), [state EXCEPT ![current] = "Dormant"], PoppedOrIdle(links))
  /\ UNCHANGED waiting

\* The same after enqueue_waiter, in the blocking calls of sync.rs.
Block(w) ==
  /\ Running
  /\ current # IDLE
  /\ LET queued == EnqueueWaiter(links, w, current, prio)
     IN  Commit(ReadyPop(queued), [state EXCEPT ![current] = "Blocked"], PoppedOrIdle(queued))
  /\ waiting' = [waiting EXCEPT ![current] = w]

Dispatch(L, st, t) ==
  /\ links' = L
  /\ state' = [st EXCEPT ![t] = "Running"]
  /\ current' = t
  /\ pending' = NIL
  /\ UNCHANGED <<prio, waiting>>

\* consume_pending_switch.
Consume == pending # NIL /\ Dispatch(links, state, pending)

\* on_timer_interrupt throttles the interrupted task ...
Throttle ==
  /\ Running
  /\ current # IDLE
  /\ state' = [state EXCEPT ![current] = "Dormant"]
  /\ UNCHANGED <<links, prio, waiting, current, pending>>

\* ... and the epilogue replaces it.
Replace ==
  /\ pending = NIL
  /\ state[current] # "Running"
  /\ Dispatch(ReadyPop(links), state, PoppedOrIdle(links))

\* take_reschedule_target.
Preempt ==
  /\ Running
  /\ Popped(links) # NIL
  /\ current = IDLE \/ FirstReady(links) <= prio[current]
  /\ Dispatch(MakeReady(ReadyPop(links), current), [state EXCEPT ![current] = "Ready"],
              Popped(links))

BecomeReady(L, t) ==
  /\ links' = MakeReady(L, t)
  /\ state' = [state EXCEPT ![t] = "Ready"]
  /\ waiting' = [waiting EXCEPT ![t] = NIL]
  /\ UNCHANGED <<prio, current, pending>>

\* wake_sleepers for a sleeping or throttled task; spawn.
Wake(t) == t # IDLE /\ state[t] = "Dormant" /\ BecomeReady(links, t)

\* release_semaphore_locked and the handoff of RtosMutex::unlock.
Release(w) == links.head[w] # NIL /\ BecomeReady(PopHead(links, w), links.head[w])

\* Timeout and cancellation of a wait.
TimeOut(t) == waiting[t] # NIL /\ BecomeReady(Unlink(links, waiting[t], t), t)

\* set_effective_priority, and the move within a mutex queue that
\* refresh_inherited_priority adds to it.
SetEffectivePriority(t, p) ==
  /\ p # prio[t]
  /\ prio' = [prio EXCEPT ![t] = p]
  /\ links' = IF state[t] = "Ready" /\ Contains(links, t)
              THEN ReadyPush(Unlink(links, prio[t], t), t, p)
              ELSE IF waiting[t] # NIL
              THEN EnqueueWaiter(Unlink(links, waiting[t], t), waiting[t], t, prio')
              ELSE links
  /\ UNCHANGED <<state, waiting, current, pending>>

\* set_run_policy of a queued task; a throttled one is a Wake.
SetRunPolicy(t) ==
  /\ state[t] = "Ready" /\ Contains(links, t)
  /\ links' = ReadyPush(Unlink(links, prio[t], t), t, prio[t])
  /\ UNCHANGED <<prio, state, waiting, current, pending>>

\* Sched::new and init.
Init ==
  /\ links = [head |-> [l \in Lists |-> NIL], tail |-> [l \in Lists |-> NIL],
              next |-> [t \in Slots |-> NIL]]
  /\ prio = [t \in Slots |-> PriorityLevels - 1]
  /\ state = [t \in Slots |-> IF t = MAIN THEN "Running"
                              ELSE IF t = IDLE THEN "Ready" ELSE "Dormant"]
  /\ waiting = [t \in Slots |-> NIL]
  /\ current = MAIN
  /\ pending = NIL

Next ==
  \/ Yield \/ SwitchAway \/ Consume \/ Throttle \/ Replace \/ Preempt
  \/ \E w \in Waits : Block(w) \/ Release(w)
  \/ \E t \in Slots \ {IDLE} :
       \/ Wake(t) \/ TimeOut(t) \/ SetRunPolicy(t)
  \/ \E t \in Reconfigurable, p \in Levels : SetEffectivePriority(t, p)

Spec == Init /\ [][Next]_vars

-----------------------------------------------------------------------------
(* ready_ownership_audit. *)

\* Fault: the last task of the walk is not compared with the tail.
AuditListIgnoresTail(L, p) ==
  /\ (L.head[p] = NIL) <=> (L.tail[p] = NIL)
  /\ L.tail[p] \in Slots \cup {NIL}
  /\ \A i \in DOMAIN Walk(L, p) : prio[Walk(L, p)[i]] = p
  /\ End(L, p) = NIL
  /\ L.tail[p] \in Slots => L.next[L.tail[p]] = NIL

\* The checks on one list.
AuditList(L, p) ==
  LET q == Walk(L, p)
  IN  /\ (L.head[p] = NIL) <=> (L.tail[p] = NIL)
      /\ L.tail[p] \in Slots \cup {NIL}
      /\ \A i \in DOMAIN q : prio[q[i]] = p
      /\ End(L, p) = NIL
      /\ q # <<>> => q[Len(q)] = L.tail[p]
      /\ L.tail[p] \in Slots => L.next[L.tail[p]] = NIL

\* The checks on one task, which the walks visited `queued` times.
AuditTask(t, queued) ==
  /\ queued <= 1
  /\ CASE state[t] = "Ready" /\ t = IDLE -> queued = 0
       [] state[t] = "Ready" /\ t # IDLE -> queued + (IF pending = t THEN 1 ELSE 0) = 1
       [] state[t] = "Running" -> t = current /\ queued = 0 /\ pending # t
       [] OTHER -> queued = 0 /\ pending # t

\* The audit finds no violation.
AuditSilent(L) ==
  /\ \A p \in Levels : AuditList(L, p)
  /\ LET walks == [p \in Levels |-> Walk(L, p)]
         visits == UNION {{<<walks[p][i], p, i>> : i \in DOMAIN walks[p]} : p \in Levels}
     IN  \A t \in Slots : AuditTask(t, Cardinality({v \in visits : v[1] = t}))
  /\ (state[current] = "Running") <=> (pending = NIL)

-----------------------------------------------------------------------------

\* An out-of-range word, and every single-word corruption of the ready lists.
Garbage == TaskSlots
Words == Slots \cup {NIL, Garbage}
Corrupted ==
  {[links EXCEPT !.head[p] = v] : p \in Levels, v \in Words}
    \cup {[links EXCEPT !.tail[p] = v] : p \in Levels, v \in Words}
    \cup {[links EXCEPT !.next[t] = v] : t \in Slots, v \in Words}

\* The tasks the ready list p has to hold: every Ready task of that priority,
\* except the idle task and the target of a committed switch.
Owned(p) ==
  {t \in Slots \ {IDLE, pending} : state[t] = "Ready" /\ prio[t] = p}

Sound(L) ==
  \A p \in Levels :
    LET q == Walk(L, p)
    IN  /\ End(L, p) = NIL
        /\ {q[i] : i \in DOMAIN q} = Owned(p)
        /\ Len(q) = Cardinality(Owned(p))
        /\ L.tail[p] = IF q = <<>> THEN NIL ELSE q[Len(q)]

\* The interrupted task may be off the processor without a committed switch only
\* between the timer handler and its epilogue.
Settled == state[current] = "Running" \/ pending # NIL

\* ready_ownership_audit reports nothing on the lists the scheduler builds, and of
\* the lists that differ from them in any one word it accepts exactly those that
\* still hold every ready task once, in its own list, with the right tail.
AuditExact ==
  Settled => /\ AuditSilent(links)
             /\ \A L \in Corrupted : AuditSilent(L) <=> Sound(L)

Q == INSTANCE TaskQueues WITH
       Tasks <- Slots \ {IDLE},
       queue <- [l \in Lists |-> Walk(links, l)],
       prio <- [t \in Slots \ {IDLE} |-> prio[t]]

\* The linked lists implement the sequences of TaskQueues: no operation loses,
\* duplicates or reorders a task, whichever list its one link is threaded on.
ImplementsQueues == Q!Spec
=============================================================================
