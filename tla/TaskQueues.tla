------------------------------ MODULE TaskQueues ------------------------------
(***************************************************************************)
(* The queues of the scheduler as sequences: a FIFO of ready tasks per     *)
(* priority and a wait queue per semaphore, sorted by priority and FIFO    *)
(* among equals.  A task is in at most one of them.  Scheduler and Sync    *)
(* are written in terms of such sequences; IntrusiveLists shows that the   *)
(* linked lists of the code implement them.                                *)
(***************************************************************************)
EXTENDS SlotLists, SequencesExt

CONSTANTS Tasks, Levels, Waits

VARIABLES
  queue,  \* queue[l]: the ready queue of priority l, or the wait queue l
  prio    \* effective priorities

vars == <<queue, prio>>

Lists == Levels \cup Waits
Members(q, l) == {q[l][i] : i \in DOMAIN q[l]}
Outside(t) == \A l \in Lists : t \notin Members(queue, l)

Arrive(q, t, p) == [q EXCEPT ![p] = Append(@, t)]
Depart(q, l, t) == [q EXCEPT ![l] = Without(@, t)]

\* Behind the waiters that are at least as urgent.
Enlist(q, l, t, pr) ==
  [q EXCEPT ![l] = InsertAt(@, 1 + Len(SelectSeq(@, LAMBDA u : pr[u] <= pr[t])), t)]

\* The queues after the most urgent ready task was taken, if there is one.
Taken(q) ==
  LET busy == {p \in Levels : q[p] # <<>>}
      first == CHOOSE p \in busy : \A o \in busy : p <= o
  IN  IF busy = {} THEN q ELSE [q EXCEPT ![first] = Tail(@)]

Init ==
  /\ queue = [l \in Lists |-> <<>>]
  /\ prio \in [Tasks -> Levels]

MakeReady(t) == Outside(t) /\ queue' = Arrive(queue, t, prio[t]) /\ UNCHANGED prio
Take == queue' = Taken(queue) /\ UNCHANGED prio
TakeAndRequeue(t) == Outside(t) /\ queue' = Arrive(Taken(queue), t, prio[t]) /\ UNCHANGED prio
Block(t, w) == Outside(t) /\ queue' = Taken(Enlist(queue, w, t, prio)) /\ UNCHANGED prio

Release(w) ==
  /\ queue[w] # <<>>
  /\ LET t == Head(queue[w]) IN queue' = Arrive(Depart(queue, w, t), t, prio[t])
  /\ UNCHANGED prio

TimeOut(t, w) ==
  /\ t \in Members(queue, w)
  /\ queue' = Arrive(Depart(queue, w, t), t, prio[t])
  /\ UNCHANGED prio

Requeue(t) ==
  /\ t \in Members(queue, prio[t])
  /\ queue' = Arrive(Depart(queue, prio[t], t), t, prio[t])
  /\ UNCHANGED prio

\* A change of priority moves the task to the tail of its new ready queue, or to
\* its new place in the wait queue.
SetPriority(t, p) ==
  /\ p # prio[t]
  /\ prio' = [prio EXCEPT ![t] = p]
  /\ \/ Outside(t) /\ UNCHANGED queue
     \/ /\ t \in Members(queue, prio[t])
        /\ queue' = Arrive(Depart(queue, prio[t], t), t, p)
     \/ \E w \in Waits :
          /\ t \in Members(queue, w)
          /\ queue' = Enlist(Depart(queue, w, t), w, t, prio')

Next ==
  \/ Take
  \/ \E t \in Tasks : MakeReady(t) \/ TakeAndRequeue(t) \/ Requeue(t)
  \/ \E t \in Tasks, w \in Waits : Block(t, w) \/ TimeOut(t, w)
  \/ \E w \in Waits : Release(w)
  \/ \E t \in Tasks, p \in Levels : SetPriority(t, p)

Spec == Init /\ [][Next]_vars
=============================================================================
