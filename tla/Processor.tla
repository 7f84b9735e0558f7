------------------------------ MODULE Processor ------------------------------
(***************************************************************************)
(* What the scheduler of hisi-rtos promises about the processor, without   *)
(* queues, trap frames, software interrupts or nesting: one task holds it, *)
(* a successor is chosen once, by priority, and then gets it; who may lose *)
(* the processor against its will depends on its run policy and on the     *)
(* scheduler lock (docs/spec/scheduling.md, RTOS-SCHED and RTOS-LOCK).     *)
(***************************************************************************)
EXTENDS Integers

CONSTANTS Tasks, Idle, None, Levels, RunPolicies

VARIABLES
  live,      \* tasks that exist
  runnable,  \* ordinary tasks that want the processor and were not chosen for it
  holder,    \* the task whose code executes
  running,   \* the holder has not given up the processor
  heir,      \* the successor a handoff has chosen, or None
  locked,    \* the holder holds the scheduler lock
  prio,      \* effective priorities, 0 is the most urgent
  policy     \* run policies

vars == <<live, runnable, holder, running, heir, locked, prio, policy>>

\* The members of a set of tasks that may be chosen; idle when there is none.
MostUrgent(S) ==
  IF S = {} THEN {Idle} ELSE {t \in S : \A u \in S : prio[t] <= prio[u]}

\* The tasks that a wake may concern: all but idle, the chosen task and a
\* holder that still runs.
Wakeable ==
  {t \in live : t \notin {Idle, heir} /\ (t = holder => ~running)}

Init ==
  /\ \E main \in Tasks \ {Idle} :
       holder = main /\ live = {main, Idle}
  /\ runnable = {}
  /\ running = TRUE
  /\ heir = None
  /\ locked = FALSE
  /\ prio \in [Tasks -> Levels]
  /\ policy = [t \in Tasks |-> "Cooperative"]

-----------------------------------------------------------------------------
(* The set of contenders changes. *)

Wake(S) ==
  /\ S \subseteq Wakeable
  /\ runnable' = runnable \cup S
  /\ UNCHANGED <<live, holder, running, heir, locked, prio, policy>>

Spawn(t, p, pol) ==
  /\ running
  /\ t \in Tasks \ live
  /\ live' = live \cup {t}
  /\ runnable' = runnable \cup {t}
  /\ prio' = [prio EXCEPT ![t] = p]
  /\ policy' = [policy EXCEPT ![t] = pol]
  /\ UNCHANGED <<holder, running, heir, locked>>

\* A change of priority or policy; a new policy may end a throttling.
Reconfigure(t, p, pol) ==
  /\ t \in live
  /\ prio' = [prio EXCEPT ![t] = p]
  /\ policy' = [policy EXCEPT ![t] = pol]
  /\ runnable' \in {runnable, runnable \cup ({t} \cap Wakeable)}
  /\ UNCHANGED <<live, holder, running, heir, locked>>

-----------------------------------------------------------------------------
(* The holder gives up the processor by a call of its own. *)

\* It yields, sleeps or blocks; what is due wakes first.
GiveUp(S, h) ==
  /\ running /\ ~locked
  /\ S \subseteq Wakeable
  /\ h \in MostUrgent(runnable \cup S)
  /\ h # holder
  /\ heir' = h
  /\ running' = FALSE
  /\ \E again \in SUBSET ({holder} \ {Idle}) :
       runnable' = ((runnable \cup S) \ {h}) \cup again
  /\ UNCHANGED <<live, holder, locked, prio, policy>>

\* It ends.
Leave(h) ==
  /\ running /\ ~locked
  /\ h \in MostUrgent(runnable)
  /\ h # holder
  /\ heir' = h
  /\ running' = FALSE
  /\ live' = live \ {holder}
  /\ runnable' = runnable \ {h}
  /\ \E p \in Levels : prio' = [prio EXCEPT ![holder] = p]
  /\ policy' = [policy EXCEPT ![holder] = "Cooperative"]
  /\ UNCHANGED <<holder, locked>>

Lock ==
  /\ running
  /\ locked' \in BOOLEAN
  /\ UNCHANGED <<live, runnable, holder, running, heir, prio, policy>>

\* Dropping the lock costs the processor when more urgent (or, at the end of a
\* slice, equally urgent) work waited for a Preemptive task, or when the budget
\* of a Budgeted one ran out meanwhile.
UnlockLoses(h) ==
  /\ running /\ locked
  /\ h \in MostUrgent(runnable)
  /\ h # holder
  /\ heir' = h
  /\ running' = FALSE
  /\ locked' = FALSE
  /\ \/ /\ policy[holder] = "Preemptive"
        /\ h # Idle /\ prio[h] <= prio[holder]
        /\ runnable' = (runnable \ {h}) \cup {holder}
     \/ policy[holder] = "Budgeted" /\ runnable' = runnable \ {h}
  /\ UNCHANGED <<live, holder, prio, policy>>

-----------------------------------------------------------------------------
(* Interrupts. *)

\* The chosen successor gets the processor.
HandOver ==
  /\ heir # None
  /\ holder' = heir
  /\ running' = TRUE
  /\ heir' = None
  /\ UNCHANGED <<live, runnable, locked, prio, policy>>

\* A timer interrupt wakes tasks and takes a Budgeted holder off the processor.
Throttle(S) ==
  /\ running /\ ~locked
  /\ policy[holder] = "Budgeted"
  /\ S \subseteq Wakeable
  /\ runnable' = runnable \cup S
  /\ running' = FALSE
  /\ UNCHANGED <<live, holder, heir, locked, prio, policy>>

\* A throttled holder is replaced.
Replace(h) ==
  /\ ~running /\ heir = None
  /\ h \in MostUrgent(runnable)
  /\ holder' = h
  /\ running' = TRUE
  /\ runnable' = runnable \ {h}
  /\ UNCHANGED <<live, heir, locked, prio, policy>>

\* Idle is displaced by any work, a Preemptive task by more urgent work and,
\* at the end of its slice, by equally urgent work; nobody else is displaced,
\* and nobody while the lock is held.
Displace(h) ==
  /\ running /\ ~locked
  /\ h \in MostUrgent(runnable) \ {Idle}
  /\ \/ holder = Idle
     \/ policy[holder] = "Preemptive" /\ prio[h] <= prio[holder]
  /\ holder' = h
  /\ runnable' = (runnable \ {h}) \cup ({holder} \ {Idle})
  /\ UNCHANGED <<live, running, heir, locked, prio, policy>>

Next ==
  \/ \E S \in SUBSET Tasks : Wake(S) \/ Throttle(S) \/ \E h \in Tasks : GiveUp(S, h)
  \/ \E t \in Tasks, p \in Levels, pol \in RunPolicies : Spawn(t, p, pol) \/ Reconfigure(t, p, pol)
  \/ \E h \in Tasks : Leave(h) \/ UnlockLoses(h) \/ Replace(h) \/ Displace(h)
  \/ Lock \/ HandOver

Spec == Init /\ [][Next]_vars
=============================================================================
