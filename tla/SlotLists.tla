------------------------------ MODULE SlotLists ------------------------------
(***************************************************************************)
(* Lists of task slots: the unlinking of a task and the order in which the *)
(* loops over the task table visit slots, which the ready queues and the   *)
(* wait queues of hisi-rtos share (src/src/runtime/scheduler.rs and        *)
(* sync.rs).                                                               *)
(***************************************************************************)
EXTENDS Integers, Sequences, FiniteSets

In(q, a) == \E i \in DOMAIN q : q[i] = a

\* ready_remove and remove_waiter: the list without its occurrence of t.
Without(q, t) ==
  IF \E k \in DOMAIN q : q[k] = t
  THEN LET k == CHOOSE k \in DOMAIN q : q[k] = t
       IN  [i \in 1..(Len(q) - 1) |-> IF i < k THEN q[i] ELSE q[i + 1]]
  ELSE q

\* The loops over 0..TASK_SLOT_COUNT visit the members of S in slot order.
Rank(S, t) == Cardinality({u \in S : u <= t})
InSlotOrder(S) ==
  [i \in 1..Cardinality(S) |-> CHOOSE t \in S : Rank(S, t) = i]
=============================================================================
