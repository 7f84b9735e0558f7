--------------------------- MODULE SchedulerProofs ---------------------------
(***************************************************************************)
(* Exclusive ready ownership, frame ownership, the scheduler-lock          *)
(* discipline and the soundness of the two-phase handoff, for every number *)
(* of task slots and priorities and every nesting bound, as long as no     *)
(* caller holds a TaskId of the idle task; and, under the same assumption, *)
(* that Scheduler implements Processor: each critical section, interrupt   *)
(* or epilogue is one step of the abstract processor or none.              *)
(***************************************************************************)
EXTENDS SchedulerRefinement, CommonLemmas

\* The task table is finite.
LEMMA SlotsFinite == Slots \in SUBSET Int /\ IsFiniteSet(Slots)
BY TaskSlotsAssumption, FS_Interval DEF Slots


-----------------------------------------------------------------------------
(* Ready ownership as one relation between task states st, priorities pr,   *)
(* lists r and the task x that the pending switch owns (NIL: none).         *)

Owned(st, pr, r, x) ==
  /\ st \in [Slots -> States]
  /\ pr \in [Slots -> Priorities]
  /\ r \in [Priorities -> Seq(Slots)]
  /\ \A p \in Priorities : Distinct(r[p]) /\ ~In(r[p], x)
  /\ \A p \in Priorities : \A u :
       In(r[p], u) => u \in Slots \ {IDLE} /\ st[u] = "Ready" /\ pr[u] = p
  /\ \A u \in Slots \ {IDLE} : st[u] = "Ready" /\ u # x => In(r[pr[u]], u)

\* make_ready of an ordinary task that no list and no switch owns.
LEMMA OwnedMakeReady ==
  ASSUME NEW st, NEW pr, NEW r, NEW x, Owned(st, pr, r, x),
         NEW t \in Slots \ {IDLE}, st[t] # "Ready", t # x
  PROVE  Owned([st EXCEPT ![t] = "Ready"], pr, Push(r, pr[t], t), x)
<1> DEFINE st2 == [st EXCEPT ![t] = "Ready"]
           r2 == Push(r, pr[t], t)
<1>1. pr[t] \in Priorities /\ r[pr[t]] \in Seq(Slots) /\ ~In(r[pr[t]], t)
  BY DEF Owned
<1>2. /\ Append(r[pr[t]], t) \in Seq(Slots)
      /\ \A u : In(Append(r[pr[t]], t), u) <=> In(r[pr[t]], u) \/ u = t
      /\ Distinct(Append(r[pr[t]], t))
  BY <1>1, AppendFacts DEF Owned
<1>3. /\ r2 \in [Priorities -> Seq(Slots)]
      /\ \A p \in Priorities : r2[p] = IF p = pr[t] THEN Append(r[pr[t]], t) ELSE r[p]
  BY <1>1, <1>2 DEF Push, Owned
<1>4. /\ st2 \in [Slots -> States] /\ st2[t] = "Ready"
      /\ \A u \in Slots : u # t => st2[u] = st[u]
  BY DEF Owned, States
<1> HIDE DEF st2, r2
<1>5. \A p \in Priorities : Distinct(r2[p]) /\ ~In(r2[p], x)
  BY <1>2, <1>3 DEF Owned
<1>6. \A p \in Priorities : \A u :
        In(r2[p], u) => u \in Slots \ {IDLE} /\ st2[u] = "Ready" /\ pr[u] = p
  <2> SUFFICES ASSUME NEW p \in Priorities, NEW u, In(r2[p], u)
               PROVE  u \in Slots \ {IDLE} /\ st2[u] = "Ready" /\ pr[u] = p
    OBVIOUS
  <2>1. In(r[p], u) \/ (p = pr[t] /\ u = t)
    BY <1>2, <1>3
  <2>2. CASE In(r[p], u)
    <3>1. u \in Slots \ {IDLE} /\ st[u] = "Ready" /\ pr[u] = p
      BY <2>2 DEF Owned
    <3> QED  BY <3>1, <1>4
  <2>3. CASE p = pr[t] /\ u = t
    BY <2>3, <1>4
  <2> QED  BY <2>1, <2>2, <2>3
<1>7. \A u \in Slots \ {IDLE} : st2[u] = "Ready" /\ u # x => In(r2[pr[u]], u)
  <2> SUFFICES ASSUME NEW u \in Slots \ {IDLE}, st2[u] = "Ready", u # x
               PROVE  In(r2[pr[u]], u)
    OBVIOUS
  <2>1. pr[u] \in Priorities
    BY DEF Owned
  <2>2. u # t => In(r[pr[u]], u)
    BY <1>4 DEF Owned
  <2> QED  BY <2>1, <2>2, <1>2, <1>3
<1> QED  BY <1>3, <1>4, <1>5, <1>6, <1>7 DEF Owned, st2, r2

\* ready_pop hands its head from the lists to the switch.
LEMMA OwnedPop ==
  ASSUME NEW st, NEW pr, NEW r, Owned(st, pr, r, NIL), NEW pop \in ReadyPop(r)
  PROVE  /\ Owned(st, pr, pop.rest, pop.task)
         /\ pop.task \in Slots \ {IDLE}
         /\ st[pop.task] = "Ready"
         /\ pop.bucket = pr[pop.task]
<1>1. PICK p \in Priorities :
        /\ r[p] # <<>>
        /\ pop = [task |-> Head(r[p]), bucket |-> p, rest |-> [r EXCEPT ![p] = Tail(@)]]
  BY DEF ReadyPop
<1> DEFINE x == Head(r[p])
           r2 == [r EXCEPT ![p] = Tail(@)]
<1>2. pop.task = x /\ pop.bucket = p /\ pop.rest = r2
  BY <1>1
<1>3. r[p] \in Seq(Slots)
  BY DEF Owned
<1>4. /\ x \in Slots /\ In(r[p], x) /\ Tail(r[p]) \in Seq(Slots)
      /\ \A u : In(Tail(r[p]), u) => In(r[p], u)
      /\ \A u : In(r[p], u) => In(Tail(r[p]), u) \/ u = x
      /\ Distinct(Tail(r[p])) /\ ~In(Tail(r[p]), x)
  BY <1>1, <1>3, TailFacts DEF Owned
<1>5. /\ r2 \in [Priorities -> Seq(Slots)]
      /\ \A q \in Priorities : r2[q] = IF q = p THEN Tail(r[p]) ELSE r[q]
  BY <1>4 DEF Owned
<1>6. x \in Slots \ {IDLE} /\ st[x] = "Ready" /\ pr[x] = p
  BY <1>4 DEF Owned
<1> HIDE DEF x, r2
<1>7. \A q \in Priorities : \A u : In(r2[q], u) => In(r[q], u)
  BY <1>4, <1>5
<1>8. \A q \in Priorities : Distinct(r2[q]) /\ ~In(r2[q], x)
  <2> TAKE q \in Priorities
  <2>1. CASE q = p
    BY <2>1, <1>4, <1>5
  <2>2. CASE q # p
    <3>1. ~In(r[q], x)
      BY <2>2, <1>6 DEF Owned
    <3> QED  BY <3>1, <2>2, <1>5 DEF Owned
  <2> QED  BY <2>1, <2>2
<1>9. \A q \in Priorities : \A u :
        In(r2[q], u) => u \in Slots \ {IDLE} /\ st[u] = "Ready" /\ pr[u] = q
  BY <1>7 DEF Owned
<1>10. \A u \in Slots \ {IDLE} : st[u] = "Ready" /\ u # x => In(r2[pr[u]], u)
  <2> SUFFICES ASSUME NEW u \in Slots \ {IDLE}, st[u] = "Ready", u # x
               PROVE  In(r2[pr[u]], u)
    OBVIOUS
  <2>1. u \in Int /\ u # NIL
    BY TaskSlotsAssumption DEF Slots, NIL
  <2>2. pr[u] \in Priorities /\ In(r[pr[u]], u)
    BY <2>1 DEF Owned
  <2> QED  BY <2>2, <1>4, <1>5
<1> QED  BY <1>2, <1>5, <1>6, <1>8, <1>9, <1>10 DEF Owned

\* ready_pop_or_idle.
LEMMA OwnedPopOrIdle ==
  ASSUME NEW st, NEW pr, NEW r, Owned(st, pr, r, NIL), NEW pop \in ReadyPopOrIdle(r)
  PROVE  /\ Owned(st, pr, pop.rest, pop.task)
         /\ pop.task \in Slots
         /\ pop.task # IDLE => st[pop.task] = "Ready"
<1>1. CASE pop \in ReadyPop(r)
  BY <1>1, OwnedPop
<1>2. CASE pop \notin ReadyPop(r)
  <2>1. pop.task = IDLE /\ pop.rest = r /\ ReadyPop(r) = {}
    BY <1>2 DEF ReadyPopOrIdle
  <2>2. IDLE \in Slots /\ \A u \in Slots : u # NIL
    BY TaskSlotsAssumption DEF Slots, IDLE, NIL
  <2>3. Owned(st, pr, r, IDLE)
    BY <2>2 DEF Owned
  <2> QED  BY <2>1, <2>2, <2>3
<1> QED  BY <1>1, <1>2

\* A task that nobody owns as Ready changes between other states.
LEMMA OwnedOtherState ==
  ASSUME NEW st, NEW pr, NEW r, NEW x, Owned(st, pr, r, x),
         NEW t \in Slots, t # IDLE => st[t] # "Ready",
         NEW s \in States, t # IDLE => s # "Ready"
  PROVE  Owned([st EXCEPT ![t] = s], pr, r, x)
BY DEF Owned

\* The trap epilogue runs the task the switch owned.
LEMMA OwnedRun ==
  ASSUME NEW st, NEW pr, NEW r, NEW x \in Slots, Owned(st, pr, r, x)
  PROVE  Owned([st EXCEPT ![x] = "Running"], pr, r, NIL)
<1>1. \A p \in Priorities : \A u : In(r[p], u) => u # x /\ u # NIL
  BY TaskSlotsAssumption DEF Owned, Slots, NIL
<1> QED  BY <1>1 DEF Owned, States

\* A priority change of a task that is in no list.
LEMMA OwnedDetachedPriority ==
  ASSUME NEW st, NEW pr, NEW r, NEW x, Owned(st, pr, r, x),
         NEW s \in Slots, st[s] # "Ready" \/ s = x \/ s = IDLE, NEW p \in Priorities
  PROVE  Owned(st, [pr EXCEPT ![s] = p], r, x)
BY DEF Owned

\* A priority or policy change of a queued task moves it to the tail of the list
\* of its new priority.
LEMMA OwnedMove ==
  ASSUME NEW st, NEW pr, NEW r, NEW x, Owned(st, pr, r, x),
         NEW s \in Slots \ {IDLE}, st[s] = "Ready", s # x, NEW p \in Priorities
  PROVE  Owned(st, [pr EXCEPT ![s] = p],
               Push([r EXCEPT ![pr[s]] = Without(@, s)], p, s), x)
<1> DEFINE d == [r EXCEPT ![pr[s]] = Without(@, s)]
           pr2 == [pr EXCEPT ![s] = p]
           off == [st EXCEPT ![s] = "Blocked"]
<1>1. pr[s] \in Priorities /\ r[pr[s]] \in Seq(Slots) /\ Distinct(r[pr[s]])
  BY DEF Owned
<1>2. /\ Without(r[pr[s]], s) \in Seq(Slots)
      /\ Distinct(Without(r[pr[s]], s))
      /\ \A u : In(Without(r[pr[s]], s), u) <=> In(r[pr[s]], u) /\ u # s
  BY <1>1, WithoutFacts
<1>3. /\ d \in [Priorities -> Seq(Slots)]
      /\ \A q \in Priorities : d[q] = IF q = pr[s] THEN Without(r[pr[s]], s) ELSE r[q]
  BY <1>1, <1>2 DEF Owned
<1>4. /\ pr2 \in [Slots -> Priorities] /\ pr2[s] = p
      /\ \A u \in Slots : u # s => pr2[u] = pr[u]
  BY DEF Owned
<1>5. /\ off \in [Slots -> States] /\ off[s] = "Blocked"
      /\ \A u \in Slots : u # s => off[u] = st[u]
  BY DEF Owned, States
<1>6. \A q \in Priorities : \A u : In(d[q], u) <=> In(r[q], u) /\ u # s
  BY <1>2, <1>3 DEF Owned
<1>7. \A q \in Priorities : Distinct(d[q])
  BY <1>2, <1>3 DEF Owned
<1> HIDE DEF d, pr2, off
<1>8. Owned(off, pr2, d, x)
  <2>1. \A q \in Priorities : \A u :
          In(d[q], u) => u \in Slots \ {IDLE} /\ off[u] = "Ready" /\ pr2[u] = q
    BY <1>4, <1>5, <1>6 DEF Owned
  <2>2. \A u \in Slots \ {IDLE} : off[u] = "Ready" /\ u # x => In(d[pr2[u]], u)
    <3> SUFFICES ASSUME NEW u \in Slots \ {IDLE}, off[u] = "Ready", u # x
                 PROVE  In(d[pr2[u]], u)
      OBVIOUS
    <3>1. u # s /\ st[u] = "Ready" /\ pr2[u] = pr[u] /\ pr[u] \in Priorities
      BY <1>4, <1>5 DEF Owned
    <3> QED  BY <3>1, <1>6 DEF Owned
  <2>3. \A q \in Priorities : ~In(d[q], x)
    BY <1>6 DEF Owned
  <2> QED  BY <2>1, <2>2, <2>3, <1>3, <1>4, <1>5, <1>7 DEF Owned
<1>9. Owned([off EXCEPT ![s] = "Ready"], pr2, Push(d, pr2[s], s), x)
  BY <1>8, <1>5, OwnedMakeReady
<1>10. [off EXCEPT ![s] = "Ready"] = st
  <2>1. \A u \in Slots : [off EXCEPT ![s] = "Ready"][u] = st[u]
    BY <1>5
  <2> QED  BY <2>1, <1>5 DEF Owned
<1> QED  BY <1>9, <1>10, <1>4 DEF d, pr2

\* wake_sleepers: the due tasks are queued once each, in the list of their
\* priority.
LEMMA OwnedWaking ==
  ASSUME NEW x, Owned(state, priority, ready, x),
         NEW W \in SUBSET Dormant, NEW R \in SUBSET Exhausted, x \notin W \cup R
  PROVE  Owned(Woken(W, R), priority, Waking(W, R), x)
<1> DEFINE st2 == Woken(W, R)
           r2 == Waking(W, R)
           a(p) == InSlotOrder(At(W, p))
           b(p) == InSlotOrder(At(R, p))
<1>1. /\ W \subseteq Slots /\ R \subseteq Slots
      /\ \A t \in W : state[t] \in {"Sleeping", "Blocked"}
      /\ \A t \in R : state[t] = "Throttled"
  BY DEF Dormant, Exhausted
<1>2. /\ st2 \in [Slots -> States]
      /\ \A t \in Slots : st2[t] = IF t \in W \cup R THEN "Ready" ELSE state[t]
  BY DEF Woken, Owned, States
<1>3. ASSUME NEW p \in Priorities
      PROVE  /\ r2[p] = ready[p] \o a(p) \o b(p)
             /\ ready[p] \o a(p) \o b(p) \in Seq(Slots)
             /\ Distinct(ready[p] \o a(p) \o b(p))
             /\ \A u : In(ready[p] \o a(p) \o b(p), u)
                         <=> In(ready[p], u) \/ u \in At(W, p) \/ u \in At(R, p)
  <2>1. At(W, p) \in SUBSET Slots /\ At(R, p) \in SUBSET Slots
    BY <1>1 DEF At
  <2>2. /\ a(p) \in Seq(Slots) /\ Distinct(a(p)) /\ \A u : In(a(p), u) <=> u \in At(W, p)
        /\ b(p) \in Seq(Slots) /\ Distinct(b(p)) /\ \A u : In(b(p), u) <=> u \in At(R, p)
    BY <2>1, SlotsFinite, SlotOrderFacts
  <2>3. ready[p] \in Seq(Slots) /\ Distinct(ready[p])
    BY DEF Owned
  <2>4. \A u : /\ ~(In(ready[p], u) /\ u \in At(W, p))
               /\ ~(In(ready[p], u) /\ u \in At(R, p))
               /\ ~(u \in At(W, p) /\ u \in At(R, p))
    BY <1>1 DEF At, Owned
  <2> HIDE DEF a, b
  <2>5. /\ ready[p] \o a(p) \in Seq(Slots) /\ Distinct(ready[p] \o a(p))
        /\ \A u : In(ready[p] \o a(p), u) <=> In(ready[p], u) \/ u \in At(W, p)
    BY <2>2, <2>3, <2>4, ConcatFacts
  <2> DEFINE ra == ready[p] \o a(p)
  <2> HIDE DEF ra
  <2>6. /\ ra \o b(p) \in Seq(Slots) /\ Distinct(ra \o b(p))
        /\ \A u : In(ra \o b(p), u) <=> In(ra, u) \/ u \in At(R, p)
    <3>1. /\ ra \in Seq(Slots) /\ Distinct(ra)
          /\ \A u : In(ra, u) <=> In(ready[p], u) \/ u \in At(W, p)
      BY <2>5 DEF ra
    <3>2. \A u : ~(In(ra, u) /\ In(b(p), u))
      BY <3>1, <2>2, <2>4
    <3> QED  BY <3>1, <3>2, <2>2, ConcatFacts
  <2>7. r2[p] = ready[p] \o a(p) \o b(p)
    BY DEF Waking, a, b
  <2> QED  BY <2>5, <2>6, <2>7 DEF ra
<1>4. r2 \in [Priorities -> Seq(Slots)]
  BY <1>3 DEF Waking
<1>5. \A p \in Priorities : \A u :
        In(r2[p], u) <=> In(ready[p], u) \/ u \in At(W, p) \/ u \in At(R, p)
  BY <1>3
<1>6. \A p \in Priorities : Distinct(r2[p])
  BY <1>3
<1> HIDE DEF st2, r2
<1>7. \A p \in Priorities : ~In(r2[p], x)
  BY <1>5 DEF At, Owned
<1>8. ASSUME NEW p \in Priorities, NEW u, In(r2[p], u)
      PROVE  u \in Slots \ {IDLE} /\ st2[u] = "Ready" /\ priority[u] = p
  <2>1. CASE In(ready[p], u)
    BY <2>1, <1>2 DEF Owned
  <2>2. CASE u \in At(W, p) \/ u \in At(R, p)
    BY <2>2, <1>1, <1>2 DEF At
  <2> QED  BY <2>1, <2>2, <1>5, <1>8
<1>9. ASSUME NEW u \in Slots \ {IDLE}, st2[u] = "Ready", u # x
      PROVE  In(r2[priority[u]], u)
  <2>1. priority[u] \in Priorities
    BY DEF Owned
  <2>2. CASE u \in W \cup R
    <3>1. u \in At(W, priority[u]) \/ u \in At(R, priority[u])
      BY <2>2 DEF At
    <3> QED  BY <3>1, <2>1, <1>5
  <2>3. CASE u \notin W \cup R
    <3>1. In(ready[priority[u]], u)
      BY <2>3, <1>2, <1>9 DEF Owned
    <3> QED  BY <3>1, <2>1, <1>5
  <2> QED  BY <2>2, <2>3
<1>10. priority \in [Slots -> Priorities]
  BY DEF Owned
<1> QED  BY <1>2, <1>4, <1>6, <1>7, <1>8, <1>9, <1>10 DEF Owned, st2, r2

\* A pending switch leaves the executing task for a Ready one.
PendingShape ==
  pending # NoSwitch =>
    /\ pending.previous = current
    /\ pending.target # current
    /\ state[current] # "Running"
    /\ state[pending.target] = "Ready"

\* The executing task is inside execute_switch exactly while its switch is
\* pending, and afterwards until it notices that it was resumed.
HandoffState ==
  /\ pending # NoSwitch => pc[current] \in InSwitch /\ ~resumed[current]
  /\ pc[current] \in InSwitch => pending # NoSwitch \/ resumed[current]

\* The inductive invariant.
IInv ==
  /\ TypeOK
  /\ Owned(state, priority, ready, pending.target)
  /\ PendingShape
  /\ RunningIsCurrent
  /\ IdleEligible
  /\ FrameOwnership
  /\ LockDiscipline
  /\ HandoffState
  /\ HandoffArmed
  /\ AssertionsHold
  /\ policy[IDLE] # "Budgeted"

\* The reserved slots and the lowest priority exist.
LEMMA SlotFacts ==
  /\ MAIN \in Slots /\ IDLE \in Slots /\ MAIN # IDLE
  /\ \A t \in Slots : t # NIL
  /\ Dynamic \subseteq Slots \ {IDLE}
  /\ Lowest \in Priorities
BY TaskSlotsAssumption, PriorityLevelsAssumption
   DEF MAIN, IDLE, NIL, Slots, Dynamic, Lowest, Priorities

\* NoSwitch is no ticket between two slots.
LEMMA TicketFacts ==
  ASSUME NEW a \in Slots, NEW b \in Slots
  PROVE  /\ [previous |-> a, target |-> b] # NoSwitch
         /\ [previous |-> a, target |-> b].previous = a
         /\ [previous |-> a, target |-> b].target = b
         /\ NoSwitch.target = NIL
BY SlotFacts DEF NoSwitch

\* The inductive invariant contains the contract of ready_ownership_audit.
LEMMA OwnershipFollows == IInv => ReadyOwnership
<1> SUFFICES ASSUME IInv PROVE ReadyOwnership
  OBVIOUS
<1>0. /\ TypeOK /\ Owned(state, priority, ready, pending.target)
      /\ PendingShape /\ RunningIsCurrent /\ IdleEligible
  BY DEF IInv
<1>1. \A t \in Slots : Queued(t) <=> \E p \in Priorities : In(ready[p], t)
  BY DEF Queued, In
<1>2. QueuesWellFormed
  <2> SUFFICES ASSUME NEW p \in Priorities, NEW i \in DOMAIN ready[p]
               PROVE  /\ ready[p][i] # IDLE
                      /\ state[ready[p][i]] = "Ready"
                      /\ priority[ready[p][i]] = p
                      /\ \A j \in DOMAIN ready[p] : ready[p][i] = ready[p][j] => i = j
    BY DEF QueuesWellFormed
  <2>1. In(ready[p], ready[p][i])
    BY DEF In
  <2> QED  BY <2>1, <1>0 DEF Owned, Distinct
<1>3. PendingWellFormed
  <2> SUFFICES ASSUME pending # NoSwitch  PROVE ~Queued(pending.target)
    BY <1>0 DEF PendingWellFormed, PendingShape
  <2>1. pending.target \in Slots
    BY <1>0 DEF TypeOK
  <2> QED  BY <2>1, <1>0, <1>1 DEF Owned
<1>4. ReadyTasksOwned
  <2> SUFFICES ASSUME NEW t \in Slots \ {IDLE}, state[t] = "Ready"
               PROVE  Queued(t) <=> ~(pending # NoSwitch /\ pending.target = t)
    BY DEF ReadyTasksOwned
  <2>1. CASE pending # NoSwitch /\ pending.target = t
    BY <2>1, <1>3 DEF PendingWellFormed
  <2>2. CASE ~(pending # NoSwitch /\ pending.target = t)
    <3>1. t # pending.target
      BY <2>2, SlotFacts, TicketFacts
    <3>2. priority[t] \in Priorities /\ In(ready[priority[t]], t)
      BY <3>1, <1>0 DEF Owned
    <3> QED  BY <3>2, <2>2, <1>1
  <2> QED  BY <2>1, <2>2
<1> QED  BY <1>0, <1>2, <1>3, <1>4 DEF ReadyOwnership

\* init() establishes the inductive invariant.
LEMMA InitInv == Init => IInv
<1> SUFFICES ASSUME Init PROVE IInv
  OBVIOUS
<1> USE SlotFacts
<1>1. TypeOK
  <2>1. ready \in [Priorities -> Seq(Slots)]
    <3>1. <<>> \in Seq(Slots)
      OBVIOUS
    <3> QED  BY <3>1 DEF Init
  <2>2. /\ state \in [Slots -> States] /\ priority \in [Slots -> Priorities]
        /\ policy \in [Slots -> Policies]
    BY DEF Init, States, Policies
  <2>3. /\ frame \in [Slots -> BOOLEAN] /\ resumed \in [Slots -> BOOLEAN]
        /\ overrun \in [Slots -> BOOLEAN] /\ slice \in BOOLEAN /\ swi \in BOOLEAN
    BY DEF Init
  <2>4. lockDepth \in [Slots -> 0..MaxLockDepth] /\ irqDepth \in 0..MaxIrqDepth
    BY BoundsAssumption DEF Init
  <2>5. /\ pc \in [Slots -> Locations] /\ target \in [Slots -> Slots \cup {NIL}]
        /\ current \in Slots /\ pending = NoSwitch /\ halted \in Halts
    BY DEF Init, Locations, Halts
  <2> QED  BY <2>1, <2>2, <2>3, <2>4, <2>5 DEF TypeOK
<1>2. pending.target = NIL /\ pending = NoSwitch
  BY DEF Init, NoSwitch
<1>3. Owned(state, priority, ready, NIL)
  <2>1. \A p \in Priorities : \A u : ~In(ready[p], u)
    BY DEF Init, In
  <2>2. \A p \in Priorities : Distinct(ready[p])
    BY DEF Init, Distinct
  <2>3. \A t \in Slots \ {IDLE} : state[t] # "Ready"
    BY DEF Init
  <2> QED  BY <1>1, <2>1, <2>2, <2>3 DEF Owned, TypeOK
<1>4. PendingShape /\ RunningIsCurrent /\ IdleEligible
  BY <1>2 DEF Init, PendingShape, RunningIsCurrent, IdleEligible
<1>5. FrameOwnership /\ LockDiscipline
  BY DEF Init, FrameOwnership, LockDiscipline, IDLE, MAIN
<1>6. HandoffState /\ HandoffArmed /\ AssertionsHold /\ policy[IDLE] # "Budgeted"
  BY <1>2 DEF Init, HandoffState, HandoffArmed, AssertionsHold, InSwitch
<1> QED  BY <1>1, <1>2, <1>3, <1>4, <1>5, <1>6 DEF IInv

-----------------------------------------------------------------------------

\* What the runtime may rely on when application code of t calls it.
LEMMA ExecutingFacts ==
  ASSUME IInv, NEW t \in Slots, Executing(t)
  PROVE  /\ halted = "no" /\ irqDepth = 0 /\ current = t /\ pc[t] = "run"
         /\ pending = NoSwitch /\ pending.target = NIL
         /\ state[t] = "Running"
         /\ \A u \in Slots : u # t => state[u] # "Running" /\ lockDepth[u] = 0 /\ ~overrun[u]
         /\ t # IDLE => state[IDLE] = "Ready"
         /\ Owned(state, priority, ready, NIL)
<1>1. halted = "no" /\ irqDepth = 0 /\ current = t /\ pc[t] = "run"
  BY DEF Executing
<1>2. pending = NoSwitch
  BY <1>1 DEF IInv, HandoffState, InSwitch
<1>3. pending.target = NIL
  BY <1>2, TicketFacts
<1>4. state[t] = "Running" /\ \A u \in Slots : u # t => state[u] # "Running"
  BY <1>1, <1>2 DEF IInv, RunningIsCurrent
<1>5. \A u \in Slots : u # t => lockDepth[u] = 0 /\ ~overrun[u]
  BY <1>4 DEF IInv, LockDiscipline, TypeOK
<1>6. t # IDLE => state[IDLE] = "Ready"
  BY <1>4, SlotFacts DEF IInv, IdleEligible
<1>7. Owned(state, priority, ready, NIL)
  BY <1>3 DEF IInv
<1> QED  BY <1>1, <1>2, <1>3, <1>4, <1>5, <1>6, <1>7

\* Committing a switch: the caller stays current, and the ticket owns a Ready
\* task that no list holds.
LEMMA CommitStep ==
  ASSUME IInv, NEW t \in Slots, Executing(t), NEW next \in Slots, next # t,
         NEW st, NEW queues,
         st[next] = "Ready", st[IDLE] = "Ready", \A u \in Slots : st[u] # "Running",
         Owned(st, priority, queues, next),
         CommitSwitch(t, next, st, queues),
         current' = current, irqDepth' = irqDepth
  PROVE  /\ state' = st /\ ready' = queues /\ pending'.target = next
         /\ state' \in [Slots -> States] /\ ready' \in [Priorities -> Seq(Slots)]
         /\ pending' \in [previous : Slots, target : Slots]
         /\ target' \in [Slots -> Slots \cup {NIL}] /\ resumed' \in [Slots -> BOOLEAN]
         /\ pc' \in [Slots -> Locations] /\ halted' = "no"
         /\ PendingShape' /\ RunningIsCurrent' /\ IdleEligible'
         /\ HandoffState' /\ HandoffArmed' /\ AssertionsHold'
<1> USE ExecutingFacts
<1>1. /\ pending' = [previous |-> t, target |-> next] /\ state' = st /\ ready' = queues
      /\ target' = [target EXCEPT ![t] = next] /\ resumed' = [resumed EXCEPT ![t] = FALSE]
      /\ pc' = [pc EXCEPT ![t] = "deliver"] /\ current' = t
  BY DEF CommitSwitch
<1>2. pending' # NoSwitch /\ pending'.previous = t /\ pending'.target = next
  BY <1>1, TicketFacts
<1>3. TypeOK
  BY DEF IInv
<1>4. /\ st \in [Slots -> States] /\ queues \in [Priorities -> Seq(Slots)]
      /\ \A p \in Priorities : \A i \in DOMAIN queues[p] : queues[p][i] # next
  BY DEF Owned, In
<1>5. /\ target' \in [Slots -> Slots \cup {NIL}] /\ resumed' \in [Slots -> BOOLEAN]
      /\ pc' \in [Slots -> Locations]
  BY <1>1, <1>3 DEF TypeOK, Locations
<1>6. pc'[t] = "deliver" /\ resumed'[t] = FALSE
  BY <1>1, <1>3 DEF TypeOK
<1>7. halted' = "no"
  BY <1>4 DEF CommitSwitch
<1>8. PendingShape'
  BY <1>1, <1>2 DEF PendingShape
<1>9. RunningIsCurrent' /\ IdleEligible'
  BY <1>1, <1>2 DEF RunningIsCurrent, IdleEligible
<1>10. HandoffState' /\ HandoffArmed' /\ AssertionsHold'
  BY <1>1, <1>2, <1>6, <1>7 DEF HandoffState, HandoffArmed, AssertionsHold, InSwitch
<1> QED  BY <1>1, <1>2, <1>4, <1>5, <1>7, <1>8, <1>9, <1>10

\* The trap epilogue gives the processor to a task that is owned by the switch
\* (or is the idle task) and has a frame.
LEMMA DispatchStep ==
  ASSUME IInv, halted = "no", NEW next \in Slots, NEW st, NEW queues,
         Owned(st, priority, queues, next),
         st[IDLE] = "Ready", \A u \in Slots : st[u] # "Running", st[next] # "Free",
         \A u \in Slots : st[u] = "Free" <=> state[u] = "Free",
         lockDepth[current] = 0,
         Dispatch(current, next, st, queues),
         pending' = NoSwitch, irqDepth' = 0,
         pc' \in [Slots -> Locations], target' \in [Slots -> Slots \cup {NIL}],
         UNCHANGED <<priority, policy, lockDepth, overrun, swi>>
  PROVE  IInv'
<1> DEFINE saved == SaveFrame(current, st)
<1>0. /\ TypeOK /\ current \in Slots /\ state \in [Slots -> States]
      /\ frame \in [Slots -> BOOLEAN] /\ lockDepth \in [Slots -> 0..MaxLockDepth]
  BY DEF IInv, TypeOK
<1>1. /\ frame' = [saved EXCEPT ![next] = FALSE] /\ state' = [st EXCEPT ![next] = "Running"]
      /\ resumed' = [resumed EXCEPT ![next] = TRUE] /\ current' = next
      /\ slice' = FALSE /\ ready' = queues
      /\ halted' = IF saved[next] THEN halted ELSE "no_saved_frame"
  BY DEF Dispatch
<1>2. /\ saved \in [Slots -> BOOLEAN]
      /\ \A u \in Slots : saved[u] <=> st[u] # "Free"
  <2>1. \A u \in Slots : frame[u] <=> u # current /\ state[u] # "Free"
    BY DEF IInv, FrameOwnership
  <2>2. saved = [frame EXCEPT ![current] = @ \/ st[current] # "Free"]
    BY DEF SaveFrame
  <2>3. saved \in [Slots -> BOOLEAN]
    BY <2>2, <1>0
  <2>4. \A u \in Slots : saved[u] = IF u = current THEN frame[u] \/ st[u] # "Free" ELSE frame[u]
    BY <2>2, <1>0
  <2> QED  BY <2>1, <2>3, <2>4
<1> HIDE DEF saved
<1>3. halted' = "no"
  BY <1>1, <1>2
<1>4. Owned(state', priority', ready', pending'.target)
  <2>1. Owned([st EXCEPT ![next] = "Running"], priority, queues, NIL)
    BY OwnedRun
  <2> QED  BY <2>1, <1>1, TicketFacts, SlotFacts
<1>5. /\ state' \in [Slots -> States] /\ state'[next] = "Running"
      /\ \A u \in Slots : u # next => state'[u] = st[u]
  BY <1>1 DEF Owned, States
<1>6. FrameOwnership'
  <2>1. \A u \in Slots : frame'[u] <=> u # next /\ st[u] # "Free"
    BY <1>1, <1>2
  <2> QED  BY <2>1, <1>1, <1>5 DEF FrameOwnership
<1>7. \A u \in Slots : lockDepth[u] = 0 /\ ~overrun[u]
  <2>1. \A u \in Slots : lockDepth[u] > 0 => u = current
    BY DEF IInv, LockDiscipline, RunningIsCurrent
  <2>2. \A u \in Slots : ~(lockDepth[u] > 0)
    BY <2>1, BoundsAssumption
  <2>3. \A u \in Slots : lockDepth[u] = 0
    BY <2>2, <1>0, BoundsAssumption
  <2> QED  BY <2>3 DEF IInv, LockDiscipline
<1>8. LockDiscipline'
  BY <1>7 DEF LockDiscipline
<1>9. TypeOK'
  <2>1. ready' \in [Priorities -> Seq(Slots)]
    BY <1>4 DEF Owned
  <2>2. frame' \in [Slots -> BOOLEAN] /\ resumed' \in [Slots -> BOOLEAN]
    BY <1>0, <1>1, <1>2 DEF TypeOK
  <2>3. irqDepth' \in 0..MaxIrqDepth
    BY BoundsAssumption
  <2> QED  BY <1>0, <1>1, <1>3, <1>5, <2>1, <2>2, <2>3 DEF TypeOK, Halts
<1>10. PendingShape' /\ RunningIsCurrent' /\ IdleEligible'
  BY <1>1, <1>5, SlotFacts DEF PendingShape, RunningIsCurrent, IdleEligible
<1>11. HandoffState' /\ HandoffArmed' /\ AssertionsHold'
  <2>1. resumed'[next]
    BY <1>0, <1>1 DEF TypeOK
  <2> QED  BY <2>1, <1>1, <1>3 DEF HandoffState, HandoffArmed, AssertionsHold
<1>12. (policy[IDLE] # "Budgeted")'
  BY DEF IInv
<1> QED  BY <1>4, <1>6, <1>8, <1>9, <1>10, <1>11, <1>12 DEF IInv

-----------------------------------------------------------------------------
(* One lemma per action. *)

\* consume_pending_switch performs the pending switch.
LEMMA TrapConsumeInv ==
  ASSUME IInv, TrapConsume
  PROVE  IInv'
<1>0. /\ pending # NoSwitch /\ pending.previous = current /\ pending.target # current
      /\ state[current] # "Running" /\ state[pending.target] = "Ready"
      /\ pending.target \in Slots /\ current \in Slots
      /\ Owned(state, priority, ready, pending.target)
  BY DEF TrapConsume, IInv, PendingShape, TypeOK
<1>1. \A u \in Slots : state[u] # "Running"
  BY <1>0 DEF IInv, RunningIsCurrent
<1>2. state[IDLE] = "Ready"
  BY <1>1, SlotFacts DEF IInv, IdleEligible
<1>3. lockDepth[current] = 0
  BY <1>0, BoundsAssumption DEF IInv, LockDiscipline, TypeOK
<1>4. pc' \in [Slots -> Locations] /\ target' \in [Slots -> Slots \cup {NIL}]
  BY DEF TrapConsume, threadVars, IInv, TypeOK, Locations
<1>5. /\ Dispatch(current, pending.target, state, ready) /\ halted = "no"
      /\ pending' = NoSwitch /\ irqDepth' = 0
      /\ UNCHANGED <<priority, policy, lockDepth, overrun, swi>>
  BY <1>0 DEF TrapConsume
<1> QED  BY <1>0, <1>1, <1>2, <1>3, <1>4, <1>5, DispatchStep

\* The epilogue replaces a task that the handler throttled.
LEMMA TrapReplaceInv ==
  ASSUME IInv, TrapReplace
  PROVE  IInv'
<1>0. /\ pending = NoSwitch /\ pending.target = NIL /\ state[current] # "Running"
      /\ current \in Slots /\ Owned(state, priority, ready, NIL)
      /\ state \in [Slots -> States]
  BY TicketFacts, SlotFacts DEF TrapReplace, IInv, TypeOK
<1>1. \A u \in Slots : state[u] # "Running"
  BY <1>0 DEF IInv, RunningIsCurrent
<1>2. state[IDLE] = "Ready"
  BY <1>1, SlotFacts DEF IInv, IdleEligible
<1>3. lockDepth[current] = 0
  BY <1>0, BoundsAssumption DEF IInv, LockDiscipline, TypeOK
<1>4. pc' \in [Slots -> Locations] /\ target' \in [Slots -> Slots \cup {NIL}]
  BY DEF TrapReplace, threadVars, IInv, TypeOK
<1>5. PICK pop \in ReadyPopOrIdle(ready) : Dispatch(current, pop.task, state, pop.rest)
  BY DEF TrapReplace
<1>6. /\ Owned(state, priority, pop.rest, pop.task) /\ pop.task \in Slots
      /\ state[pop.task] = "Ready"
  BY <1>0, <1>2, <1>5, OwnedPopOrIdle
<1>7. /\ halted = "no" /\ pending' = NoSwitch /\ irqDepth' = 0
      /\ UNCHANGED <<priority, policy, lockDepth, overrun, swi>>
  BY <1>0 DEF TrapReplace
<1> QED  BY <1>0, <1>1, <1>2, <1>3, <1>4, <1>5, <1>6, <1>7, DispatchStep

\* Preemption at the epilogue requeues the interrupted task.
LEMMA TrapPreemptInv ==
  ASSUME IInv, TrapPreempt
  PROVE  IInv'
<1> DEFINE t == current
           st == [state EXCEPT ![t] = "Ready"]
<1>0. /\ pending = NoSwitch /\ pending.target = NIL /\ state[t] = "Running"
      /\ t \in Slots /\ Owned(state, priority, ready, NIL) /\ lockDepth[t] = 0
      /\ state \in [Slots -> States]
  BY TicketFacts, SlotFacts DEF TrapPreempt, SwitchGuard, IInv, TypeOK
<1>1. /\ st \in [Slots -> States] /\ st[t] = "Ready"
      /\ \A u \in Slots : u # t => st[u] = state[u]
  BY <1>0 DEF States
<1>2. PICK pop \in ReadyPop(ready) : Dispatch(t, pop.task, st, QueueReady(pop.rest, t))
  BY DEF TrapPreempt, Displacing
<1> HIDE DEF st
<1>3. /\ Owned(state, priority, pop.rest, pop.task) /\ pop.task \in Slots \ {IDLE}
      /\ state[pop.task] = "Ready"
  BY <1>0, <1>2, OwnedPop
<1>4. Owned(st, priority, QueueReady(pop.rest, t), pop.task)
  <2>1. CASE t = IDLE
    BY <2>1, <1>0, <1>3, OwnedOtherState DEF QueueReady, st, States
  <2>2. CASE t # IDLE
    BY <2>2, <1>0, <1>3, OwnedMakeReady DEF QueueReady, st
  <2> QED  BY <2>1, <2>2
<1>5. \A u \in Slots : st[u] # "Running" /\ (st[u] = "Free" <=> state[u] = "Free")
  BY <1>0, <1>1 DEF IInv, RunningIsCurrent
<1>6. st[IDLE] = "Ready" /\ st[pop.task] # "Free"
  BY <1>1, <1>3, <1>5, SlotFacts DEF IInv, IdleEligible
<1>7. pc' \in [Slots -> Locations] /\ target' \in [Slots -> Slots \cup {NIL}]
  BY DEF TrapPreempt, threadVars, IInv, TypeOK
<1>8. /\ halted = "no" /\ pending' = NoSwitch /\ irqDepth' = 0
      /\ UNCHANGED <<priority, policy, lockDepth, overrun, swi>>
  BY <1>0 DEF TrapPreempt
<1> QED  BY <1>0, <1>2, <1>3, <1>4, <1>5, <1>6, <1>7, <1>8, DispatchStep

\* Nothing displaces the interrupted task.
LEMMA TrapReturnInv ==
  ASSUME IInv, TrapReturn
  PROVE  IInv'
<1>1. /\ UNCHANGED <<state, priority, policy, frame, resumed, lockDepth, overrun>>
      /\ UNCHANGED <<ready, current, pending, slice, pc, target, swi, halted>>
      /\ pending = NoSwitch /\ state[current] = "Running" /\ irqDepth' = 0
  BY DEF TrapReturn, taskVars, schedVars, threadVars
<1>2. TypeOK'
  BY <1>1, BoundsAssumption DEF IInv, TypeOK
<1>3. RunningIsCurrent' /\ HandoffArmed'
  BY <1>1 DEF IInv, RunningIsCurrent, HandoffArmed
<1>4. /\ Owned(state, priority, ready, pending.target)' /\ PendingShape' /\ IdleEligible'
      /\ FrameOwnership' /\ LockDiscipline' /\ HandoffState' /\ AssertionsHold'
      /\ (policy[IDLE] # "Budgeted")'
  BY <1>1 DEF IInv, Owned, PendingShape, IdleEligible, FrameOwnership, LockDiscipline,
              HandoffState, AssertionsHold
<1> QED  BY <1>2, <1>3, <1>4 DEF IInv

\* Entering a handler, clearing the software interrupt and leaving a nested
\* handler move no task.
LEMMA QuietInterruptInv ==
  ASSUME IInv, IrqEnter \/ OnSoftwareInterrupt \/ TrapReturnNested
  PROVE  IInv'
<1>1. /\ UNCHANGED <<state, priority, policy, frame, resumed, lockDepth, overrun>>
      /\ UNCHANGED <<ready, current, pending, slice, pc, target, halted>>
  BY DEF IrqEnter, OnSoftwareInterrupt, TrapReturnNested, taskVars, schedVars, threadVars
<1>2. irqDepth' \in 0..MaxIrqDepth /\ irqDepth' # 0 /\ swi' \in BOOLEAN
  <2>1. irqDepth \in 0..MaxIrqDepth /\ swi \in BOOLEAN
    BY DEF IInv, TypeOK
  <2>2. CASE IrqEnter
    BY <2>1, <2>2, BoundsAssumption DEF IrqEnter
  <2>3. CASE OnSoftwareInterrupt
    <3>1. irqDepth' = irqDepth /\ irqDepth > 0 /\ swi' = FALSE
      BY <2>3 DEF OnSoftwareInterrupt
    <3>2. irqDepth' \in 0..MaxIrqDepth /\ irqDepth' # 0
      BY <3>1, <2>1
    <3>3. swi' \in BOOLEAN
      BY <3>1
    <3> QED  BY <3>2, <3>3
  <2>4. CASE TrapReturnNested
    <3>1. irqDepth' = irqDepth - 1 /\ irqDepth > 1 /\ swi' = swi
      BY <2>4 DEF TrapReturnNested
    <3> QED  BY <3>1, <2>1, BoundsAssumption
  <2> QED  BY <2>2, <2>3, <2>4
<1>3. TypeOK'
  BY <1>1, <1>2 DEF IInv, TypeOK
<1>4. RunningIsCurrent' /\ HandoffArmed'
  BY <1>1, <1>2 DEF IInv, RunningIsCurrent, HandoffArmed
<1>5. /\ Owned(state, priority, ready, pending.target)' /\ PendingShape' /\ IdleEligible'
      /\ FrameOwnership' /\ LockDiscipline' /\ HandoffState' /\ AssertionsHold'
      /\ (policy[IDLE] # "Budgeted")'
  BY <1>1 DEF IInv, Owned, PendingShape, IdleEligible, FrameOwnership, LockDiscipline,
              HandoffState, AssertionsHold
<1> QED  BY <1>3, <1>4, <1>5 DEF IInv

\* yield_now requeues its caller behind the task it switches to.
LEMMA YieldInv ==
  ASSUME IInv, NEW t \in Slots, Yield(t)
  PROVE  IInv'
<1>0. Executing(t) /\ SwitchGuard(t) /\ TypeOK
  BY DEF Yield, IInv
<1> USE <1>0
<1>1. PICK W \in SUBSET Dormant, R \in SUBSET Exhausted :
        \E pop \in ReadyPop(Waking(W, R)) :
          CommitSwitch(t, pop.task, [Woken(W, R) EXCEPT ![t] = "Ready"],
                       QueueReady(pop.rest, t))
  BY DEF Yield
<1> DEFINE woken == Woken(W, R)
           st == [woken EXCEPT ![t] = "Ready"]
<1>2. PICK pop \in ReadyPop(Waking(W, R)) :
        CommitSwitch(t, pop.task, st, QueueReady(pop.rest, t))
  BY <1>1
<1>3. Owned(woken, priority, Waking(W, R), NIL)
  <2>1. NIL \notin W \cup R
    BY SlotFacts DEF Dormant, Exhausted
  <2> QED  BY <2>1, ExecutingFacts, OwnedWaking
<1>4. /\ \A u \in Slots : woken[u] = IF u \in W \cup R THEN "Ready" ELSE state[u]
      /\ t \notin W \cup R
  BY ExecutingFacts DEF Woken, Dormant, Exhausted
<1> HIDE DEF woken
<1>5. /\ Owned(woken, priority, pop.rest, pop.task) /\ pop.task \in Slots \ {IDLE}
      /\ woken[pop.task] = "Ready"
  BY <1>3, OwnedPop
<1>6. woken[t] = "Running" /\ pop.task # t
  BY <1>4, <1>5, ExecutingFacts
<1>7. Owned(st, priority, QueueReady(pop.rest, t), pop.task)
  <2>1. CASE t = IDLE
    BY <2>1, <1>5, <1>6, OwnedOtherState DEF QueueReady, States
  <2>2. CASE t # IDLE
    BY <2>2, <1>5, <1>6, OwnedMakeReady DEF QueueReady
  <2> QED  BY <2>1, <2>2
<1>8. /\ woken \in [Slots -> States] /\ st \in [Slots -> States] /\ st[t] = "Ready"
      /\ \A u \in Slots : u # t => st[u] = woken[u]
  BY <1>5 DEF Owned, States
<1> HIDE DEF st
<1>9. \A u \in Slots : st[u] # "Running" /\ (st[u] = "Free" => state[u] = "Free")
                       /\ (state[u] = "Free" => st[u] = "Free")
  BY <1>4, <1>8, ExecutingFacts DEF Dormant, Exhausted
<1>10. st[IDLE] = "Ready" /\ st[pop.task] = "Ready"
  BY <1>4, <1>5, <1>6, <1>8, SlotFacts, ExecutingFacts
<1>11. /\ current' = current /\ irqDepth' = irqDepth
       /\ UNCHANGED <<priority, policy, frame, lockDepth, overrun, slice, swi>>
  BY DEF Yield
<1>12. /\ state' = st /\ ready' = QueueReady(pop.rest, t) /\ pending'.target = pop.task
       /\ state' \in [Slots -> States] /\ ready' \in [Priorities -> Seq(Slots)]
       /\ pending' \in [previous : Slots, target : Slots]
       /\ target' \in [Slots -> Slots \cup {NIL}] /\ resumed' \in [Slots -> BOOLEAN]
       /\ pc' \in [Slots -> Locations] /\ halted' = "no"
       /\ PendingShape' /\ RunningIsCurrent' /\ IdleEligible'
       /\ HandoffState' /\ HandoffArmed' /\ AssertionsHold'
  BY <1>2, <1>5, <1>6, <1>7, <1>9, <1>10, <1>11, CommitStep
<1>13. Owned(state, priority, ready, pending.target)'
  BY <1>7, <1>11, <1>12
<1>14. TypeOK'
  BY <1>11, <1>12 DEF TypeOK, Halts
<1>15. FrameOwnership' /\ (policy[IDLE] # "Budgeted")'
  BY <1>9, <1>11, <1>12 DEF IInv, FrameOwnership
<1>16. LockDiscipline'
  BY <1>11, ExecutingFacts DEF IInv, LockDiscipline, SwitchGuard
<1> QED  BY <1>12, <1>13, <1>14, <1>15, <1>16 DEF IInv

\* A caller leaves the processor in a state other than Ready.
LEMMA SwitchAwayStep ==
  ASSUME IInv, NEW t \in Slots \ {IDLE}, Executing(t),
         NEW s \in States \ {"Ready", "Running"}, SwitchAway(t, s),
         current' = current, irqDepth' = irqDepth
  PROVE  /\ Owned(state', priority, ready', pending'.target)
         /\ state' = [state EXCEPT ![t] = s]
         /\ state' \in [Slots -> States] /\ ready' \in [Priorities -> Seq(Slots)]
         /\ pending' \in [previous : Slots, target : Slots]
         /\ target' \in [Slots -> Slots \cup {NIL}] /\ resumed' \in [Slots -> BOOLEAN]
         /\ pc' \in [Slots -> Locations] /\ halted' = "no"
         /\ PendingShape' /\ RunningIsCurrent' /\ IdleEligible'
         /\ HandoffState' /\ HandoffArmed' /\ AssertionsHold'
<1> DEFINE st == [state EXCEPT ![t] = s]
<1>1. Owned(st, priority, ready, NIL)
  BY ExecutingFacts, OwnedOtherState
<1>2. PICK pop \in ReadyPopOrIdle(ready) : CommitSwitch(t, pop.task, st, pop.rest)
  BY DEF SwitchAway
<1>3. /\ Owned(st, priority, pop.rest, pop.task) /\ pop.task \in Slots
      /\ pop.task # IDLE => st[pop.task] = "Ready"
  BY <1>1, <1>2, OwnedPopOrIdle
<1>4. st[t] = s /\ \A u \in Slots : u # t => st[u] = state[u]
  BY DEF IInv, TypeOK
<1> HIDE DEF st
<1>5. st[IDLE] = "Ready" /\ \A u \in Slots : st[u] # "Running"
  BY <1>4, ExecutingFacts, SlotFacts
<1>6. st[pop.task] = "Ready" /\ pop.task # t
  BY <1>3, <1>4, <1>5
<1>7. CommitSwitch(t, pop.task, st, pop.rest)
  BY <1>2
<1>8. /\ state' = st /\ ready' = pop.rest /\ pending'.target = pop.task
      /\ state' \in [Slots -> States] /\ ready' \in [Priorities -> Seq(Slots)]
      /\ pending' \in [previous : Slots, target : Slots]
      /\ target' \in [Slots -> Slots \cup {NIL}] /\ resumed' \in [Slots -> BOOLEAN]
      /\ pc' \in [Slots -> Locations] /\ halted' = "no"
      /\ PendingShape' /\ RunningIsCurrent' /\ IdleEligible'
      /\ HandoffState' /\ HandoffArmed' /\ AssertionsHold'
  BY <1>3, <1>5, <1>6, <1>7, CommitStep
<1> QED  BY <1>3, <1>8 DEF st

\* sleep_ms and the blocking waits.
LEMMA SleepBlockInv ==
  ASSUME IInv, NEW t \in Slots, Sleep(t) \/ Block(t)
  PROVE  IInv'
<1>1. PICK s \in {"Sleeping", "Blocked"} : SwitchAway(t, s)
  BY DEF Sleep, Block
<1>2. /\ Executing(t) /\ t \in Slots \ {IDLE} /\ lockDepth[t] = 0
      /\ current' = current /\ irqDepth' = irqDepth
      /\ UNCHANGED <<priority, policy, frame, lockDepth, overrun, slice, swi>>
  BY DEF Sleep, Block, SwitchGuard
<1>3. s \in States \ {"Ready", "Running"}
  BY DEF States
<1>4. /\ Owned(state', priority, ready', pending'.target)
      /\ state' = [state EXCEPT ![t] = s]
      /\ state' \in [Slots -> States] /\ ready' \in [Priorities -> Seq(Slots)]
      /\ pending' \in [previous : Slots, target : Slots]
      /\ target' \in [Slots -> Slots \cup {NIL}] /\ resumed' \in [Slots -> BOOLEAN]
      /\ pc' \in [Slots -> Locations] /\ halted' = "no"
      /\ PendingShape' /\ RunningIsCurrent' /\ IdleEligible'
      /\ HandoffState' /\ HandoffArmed' /\ AssertionsHold'
  BY <1>1, <1>2, <1>3, SwitchAwayStep
<1>5. TypeOK'
  BY <1>2, <1>4 DEF IInv, TypeOK, Halts
<1>6. FrameOwnership'
  <2>1. \A u \in Slots : state'[u] = "Free" <=> state[u] = "Free"
    BY <1>2, <1>4, ExecutingFacts DEF IInv, TypeOK
  <2> QED  BY <2>1, <1>2 DEF IInv, FrameOwnership
<1>7. LockDiscipline' /\ (policy[IDLE] # "Budgeted")'
  BY <1>2, ExecutingFacts DEF IInv, LockDiscipline
<1>8. Owned(state, priority, ready, pending.target)'
  BY <1>2, <1>4
<1> QED  BY <1>4, <1>5, <1>6, <1>7, <1>8 DEF IInv

\* task_exit empties the control block of the code that still executes.
LEMMA ExitInv ==
  ASSUME IInv, NEW t \in Slots, Exit(t)
  PROVE  IInv'
<1>1. /\ Executing(t) /\ t \in Slots \ {IDLE} /\ lockDepth[t] = 0 /\ SwitchAway(t, "Free")
      /\ frame' = [frame EXCEPT ![t] = FALSE]
      /\ priority' = [priority EXCEPT ![t] = Lowest]
      /\ policy' = [policy EXCEPT ![t] = "Cooperative"]
      /\ overrun' = [overrun EXCEPT ![t] = FALSE]
      /\ current' = current /\ irqDepth' = irqDepth
      /\ UNCHANGED <<lockDepth, slice, swi>>
  BY SlotFacts DEF Exit
<1>2. "Free" \in States \ {"Ready", "Running"}
  BY DEF States
<1>3. /\ Owned(state', priority, ready', pending'.target)
      /\ state' = [state EXCEPT ![t] = "Free"]
      /\ state' \in [Slots -> States] /\ ready' \in [Priorities -> Seq(Slots)]
      /\ pending' \in [previous : Slots, target : Slots]
      /\ target' \in [Slots -> Slots \cup {NIL}] /\ resumed' \in [Slots -> BOOLEAN]
      /\ pc' \in [Slots -> Locations] /\ halted' = "no"
      /\ PendingShape' /\ RunningIsCurrent' /\ IdleEligible'
      /\ HandoffState' /\ HandoffArmed' /\ AssertionsHold'
  BY <1>1, <1>2, SwitchAwayStep
<1>4. state'[t] = "Free" /\ \A u \in Slots : u # t => state'[u] = state[u]
  BY <1>3 DEF IInv, TypeOK
<1>5. Owned(state, priority, ready, pending.target)'
  BY <1>1, <1>3, <1>4, SlotFacts, OwnedDetachedPriority
<1>6. TypeOK'
  BY <1>1, <1>3, SlotFacts DEF IInv, TypeOK, Halts, Policies
<1>7. FrameOwnership'
  <2>1. \A u \in Slots : frame[u] <=> u # t /\ state[u] # "Free"
    BY <1>1, ExecutingFacts DEF IInv, FrameOwnership
  <2>2. \A u \in Slots : frame'[u] = IF u = t THEN FALSE ELSE frame[u]
    BY <1>1 DEF IInv, TypeOK
  <2>3. current' = t
    BY <1>1, ExecutingFacts
  <2> QED  BY <2>1, <2>2, <2>3, <1>4 DEF FrameOwnership
<1>8. LockDiscipline'
  <2>1. \A u \in Slots : ~overrun'[u]
    BY <1>1, ExecutingFacts DEF IInv, TypeOK
  <2>2. \A u \in Slots : lockDepth'[u] = 0
    BY <1>1, ExecutingFacts
  <2> QED  BY <2>1, <2>2 DEF LockDiscipline
<1>9. (policy[IDLE] # "Budgeted")'
  BY <1>1, SlotFacts DEF IInv, TypeOK
<1> QED  BY <1>3, <1>5, <1>6, <1>7, <1>8, <1>9 DEF IInv

\* spawn queues a new task in a slot that nobody owns.
LEMMA SpawnInv ==
  ASSUME IInv, NEW t \in Slots, NEW p \in Priorities, NEW pol \in UserPolicies,
         Spawn(t, p, pol)
  PROVE  IInv'
<1>0. Executing(t) /\ TypeOK
  BY DEF Spawn, IInv
<1> USE <1>0
<1>1. PICK s \in Dynamic :
        /\ state[s] = "Free"
        /\ state' = [state EXCEPT ![s] = "Ready"]
        /\ priority' = [priority EXCEPT ![s] = p]
        /\ policy' = [policy EXCEPT ![s] = pol]
        /\ frame' = [frame EXCEPT ![s] = TRUE]
        /\ resumed' = [resumed EXCEPT ![s] = TRUE]
        /\ pc' = [pc EXCEPT ![s] = "run"]
        /\ target' = [target EXCEPT ![s] = NIL]
        /\ ready' = Push(ready, p, s)
  BY DEF Spawn
<1>2. s \in Slots \ {IDLE} /\ s # t /\ s # NIL
  BY <1>1, SlotFacts, ExecutingFacts
<1>3. UNCHANGED <<lockDepth, overrun, current, pending, slice, irqDepth, swi, halted>>
  BY DEF Spawn
<1>4. Owned(state', priority', ready', NIL)
  <2>1. Owned(state, priority', ready, NIL)
    BY <1>1, <1>2, ExecutingFacts, OwnedDetachedPriority
  <2>2. priority'[s] = p
    BY <1>1, <1>2 DEF TypeOK
  <2>3. Owned([state EXCEPT ![s] = "Ready"], priority', Push(ready, priority'[s], s), NIL)
    BY <2>1, <1>1, <1>2, OwnedMakeReady
  <2> QED  BY <2>2, <2>3, <1>1
<1>5. pending' = NoSwitch /\ pending'.target = NIL /\ current' = t
  BY <1>3, ExecutingFacts
<1>6. TypeOK'
  <2>1. ready' \in [Priorities -> Seq(Slots)] /\ state' \in [Slots -> States]
    BY <1>4 DEF Owned
  <2>2. policy' \in [Slots -> Policies]
    BY <1>1, UserPoliciesAssumption DEF TypeOK, Policies
  <2>3. /\ priority' \in [Slots -> Priorities] /\ frame' \in [Slots -> BOOLEAN]
        /\ resumed' \in [Slots -> BOOLEAN] /\ pc' \in [Slots -> Locations]
        /\ target' \in [Slots -> Slots \cup {NIL}]
    BY <1>1 DEF TypeOK, Locations
  <2> QED  BY <2>1, <2>2, <2>3, <1>3 DEF TypeOK
<1>7. \A u \in Slots : u # s => /\ state'[u] = state[u] /\ frame'[u] = frame[u]
                                /\ pc'[u] = pc[u] /\ policy'[u] = policy[u]
  BY <1>1 DEF TypeOK
<1>8. state'[s] = "Ready" /\ frame'[s] = TRUE
  BY <1>1, <1>2 DEF TypeOK
<1>9. PendingShape' /\ RunningIsCurrent' /\ IdleEligible'
  BY <1>2, <1>5, <1>7, <1>8, SlotFacts, ExecutingFacts
     DEF IInv, PendingShape, RunningIsCurrent, IdleEligible
<1>10. FrameOwnership'
  BY <1>2, <1>5, <1>7, <1>8, ExecutingFacts DEF IInv, FrameOwnership
<1>11. LockDiscipline'
  <2>1. \A u \in Slots : lockDepth[u] > 0 => u # s
    BY <1>1 DEF IInv, LockDiscipline
  <2> QED  BY <2>1, <1>3, <1>7 DEF IInv, LockDiscipline
<1>12. HandoffState' /\ HandoffArmed' /\ AssertionsHold' /\ (policy[IDLE] # "Budgeted")'
  BY <1>2, <1>3, <1>5, <1>7, SlotFacts, ExecutingFacts
     DEF IInv, HandoffState, HandoffArmed, AssertionsHold, InSwitch
<1> QED  BY <1>4, <1>5, <1>6, <1>9, <1>10, <1>11, <1>12 DEF IInv

\* A Blocked task becomes Ready: in thread mode, in a handler or by the timer.
LEMMA WakeStep ==
  ASSUME IInv, NEW w \in Slots, state[w] = "Blocked",
         state' = [state EXCEPT ![w] = "Ready"], ready' = QueueReady(ready, w),
         UNCHANGED <<priority, frame, lockDepth, overrun, current, pending, irqDepth>>
  PROVE  /\ Owned(state, priority, ready, pending.target)'
         /\ PendingShape' /\ RunningIsCurrent' /\ IdleEligible'
         /\ FrameOwnership' /\ LockDiscipline'
<1>1. w # IDLE /\ w # pending.target
  BY DEF IInv, IdleEligible, PendingShape, TypeOK, NoSwitch, NIL, Slots
<1>2. Owned(state, priority, ready, pending.target)'
  BY <1>1, OwnedMakeReady DEF IInv, QueueReady
<1>3. state'[w] = "Ready" /\ \A u \in Slots : u # w => state'[u] = state[u]
  BY DEF IInv, TypeOK
<1>4. current \in Slots /\ (pending # NoSwitch => pending.target \in Slots)
  BY DEF IInv, TypeOK
<1>5. PendingShape' /\ RunningIsCurrent' /\ IdleEligible'
  BY <1>1, <1>3, <1>4, SlotFacts DEF IInv, PendingShape, RunningIsCurrent, IdleEligible
<1>6. FrameOwnership'
  BY <1>3 DEF IInv, FrameOwnership
<1>7. LockDiscipline'
  <2>1. \A u \in Slots : lockDepth[u] > 0 => u # w
    BY DEF IInv, LockDiscipline
  <2> QED  BY <2>1, <1>3 DEF IInv, LockDiscipline
<1> QED  BY <1>2, <1>5, <1>6, <1>7

\* A wake from thread mode.
LEMMA WakeInv ==
  ASSUME IInv, NEW t \in Slots, NEW w \in Slots, Wake(t, w)
  PROVE  IInv'
<1>1. /\ Executing(t) /\ state[w] = "Blocked"
      /\ state' = [state EXCEPT ![w] = "Ready"] /\ ready' = QueueReady(ready, w)
      /\ pc' = [pc EXCEPT ![t] = "request"]
      /\ UNCHANGED <<priority, policy, frame, resumed, lockDepth, overrun, current,
                     pending, slice, target, irqDepth, swi, halted>>
  BY DEF Wake
<1>2. /\ Owned(state, priority, ready, pending.target)'
      /\ PendingShape' /\ RunningIsCurrent' /\ IdleEligible'
      /\ FrameOwnership' /\ LockDiscipline'
  BY <1>1, WakeStep
<1>3. TypeOK'
  <2>1. state' \in [Slots -> States] /\ ready' \in [Priorities -> Seq(Slots)]
    BY <1>2 DEF Owned
  <2> QED  BY <2>1, <1>1 DEF IInv, TypeOK, Locations
<1>4. pending' = NoSwitch /\ current' = t /\ pc'[t] = "request"
  BY <1>1, ExecutingFacts DEF IInv, TypeOK
<1>5. HandoffState' /\ HandoffArmed' /\ AssertionsHold' /\ (policy[IDLE] # "Budgeted")'
  BY <1>1, <1>4 DEF IInv, HandoffState, HandoffArmed, AssertionsHold, InSwitch
<1> QED  BY <1>2, <1>3, <1>5 DEF IInv

\* A wake from an interrupt handler.
LEMMA IrqWakeInv ==
  ASSUME IInv, NEW w \in Slots, IrqWake(w)
  PROVE  IInv'
<1>1. /\ state[w] = "Blocked"
      /\ state' = [state EXCEPT ![w] = "Ready"] /\ ready' = QueueReady(ready, w)
      /\ UNCHANGED <<priority, policy, frame, resumed, lockDepth, overrun, current,
                     pending, slice, pc, target, irqDepth, swi, halted>>
  BY DEF IrqWake, threadVars
<1>2. /\ Owned(state, priority, ready, pending.target)'
      /\ PendingShape' /\ RunningIsCurrent' /\ IdleEligible'
      /\ FrameOwnership' /\ LockDiscipline'
  BY <1>1, WakeStep
<1>3. TypeOK'
  <2>1. state' \in [Slots -> States] /\ ready' \in [Priorities -> Seq(Slots)]
    BY <1>2 DEF Owned
  <2> QED  BY <2>1, <1>1 DEF IInv, TypeOK
<1>4. HandoffState' /\ HandoffArmed' /\ AssertionsHold' /\ (policy[IDLE] # "Budgeted")'
  BY <1>1 DEF IInv, HandoffState, HandoffArmed, AssertionsHold
<1> QED  BY <1>2, <1>3, <1>4 DEF IInv

\* The stages of execute_switch and request_reschedule move no task.
LEMMA HandoffInv ==
  ASSUME IInv, NEW t \in Slots, Handoff(t)
  PROVE  IInv'
<1>1. /\ UNCHANGED <<state, priority, policy, frame, resumed, lockDepth, overrun>>
      /\ UNCHANGED <<ready, current, pending, slice, irqDepth>>
      /\ current = t /\ halted = "no" /\ irqDepth = 0
  BY DEF Handoff, Deliver, Pend, Resume, RequestReschedule, taskVars, schedVars
<1>2. TypeOK
  BY DEF IInv
<1>3. /\ Owned(state, priority, ready, pending.target)' /\ PendingShape'
      /\ RunningIsCurrent' /\ IdleEligible' /\ FrameOwnership' /\ LockDiscipline'
      /\ (policy[IDLE] # "Budgeted")'
  BY <1>1 DEF IInv, Owned, PendingShape, RunningIsCurrent, IdleEligible, FrameOwnership,
              LockDiscipline
<1>4. CASE Deliver(t)
  <2>1. pc[t] = "deliver" /\ pc' = [pc EXCEPT ![t] = "pend"] /\ swi' = swi
    BY <1>4 DEF Deliver
  <2>2. pc'[t] = "pend" /\ target' \in [Slots -> Slots \cup {NIL}] /\ pc' \in [Slots -> Locations]
    BY <1>2, <1>4, <2>1 DEF Deliver, TypeOK, Locations
  <2>3. pending.previous = t \/ resumed[t]
    BY <1>1, <2>1 DEF IInv, HandoffState, PendingShape, InSwitch
  <2>4. halted' \in {"no", "target_without_frame"}
    BY <1>1, <1>4, <2>3 DEF Deliver
  <2>5. HandoffState' /\ HandoffArmed' /\ AssertionsHold'
    BY <1>1, <2>1, <2>2, <2>4 DEF IInv, HandoffState, HandoffArmed, AssertionsHold, InSwitch
  <2>6. TypeOK'
    BY <1>1, <1>2, <2>1, <2>2, <2>4 DEF TypeOK, Halts
  <2> QED  BY <1>3, <2>5, <2>6 DEF IInv
<1>5. CASE Pend(t)
  <2>1. /\ pc[t] = "pend" /\ pc' = [pc EXCEPT ![t] = "spin"] /\ swi' = TRUE
        /\ UNCHANGED <<target, halted>>
    BY <1>5 DEF Pend
  <2>2. pc'[t] = "spin" /\ pc' \in [Slots -> Locations]
    BY <1>2, <2>1 DEF TypeOK, Locations
  <2>3. HandoffState' /\ HandoffArmed' /\ AssertionsHold'
    BY <1>1, <2>1, <2>2 DEF IInv, HandoffState, HandoffArmed, AssertionsHold, InSwitch
  <2>4. TypeOK'
    BY <1>1, <1>2, <2>1, <2>2 DEF TypeOK
  <2> QED  BY <1>3, <2>3, <2>4 DEF IInv
<1>6. CASE Resume(t) \/ RequestReschedule(t)
  <2>1. /\ (pc[t] = "spin" /\ resumed[t]) \/ pc[t] = "request"
        /\ pc' = [pc EXCEPT ![t] = "run"] /\ UNCHANGED <<target, halted>>
    BY <1>6 DEF Resume, RequestReschedule
  <2>2. swi' \in BOOLEAN
    BY <1>2, <1>6 DEF Resume, RequestReschedule, TypeOK
  <2>3. pc'[t] = "run" /\ pc' \in [Slots -> Locations]
    BY <1>2, <2>1 DEF TypeOK, Locations
  <2>4. pending = NoSwitch
    BY <1>1, <2>1 DEF IInv, HandoffState, InSwitch
  <2>5. HandoffState' /\ HandoffArmed' /\ AssertionsHold'
    BY <1>1, <2>1, <2>3, <2>4 DEF IInv, HandoffState, HandoffArmed, AssertionsHold, InSwitch
  <2>6. TypeOK'
    BY <1>1, <1>2, <2>1, <2>2, <2>3 DEF TypeOK
  <2> QED  BY <1>3, <2>5, <2>6 DEF IInv
<1> QED  BY <1>4, <1>5, <1>6 DEF Handoff

\* lock_scheduler.
LEMMA LockInv ==
  ASSUME IInv, NEW t \in Slots, LockScheduler(t)
  PROVE  IInv'
<1>1. /\ Executing(t) /\ lockDepth[t] < MaxLockDepth
      /\ lockDepth' = [lockDepth EXCEPT ![t] = @ + 1]
      /\ UNCHANGED <<state, priority, policy, frame, resumed, overrun>>
      /\ UNCHANGED <<ready, current, pending, slice, pc, target, irqDepth, swi, halted>>
  BY DEF LockScheduler, schedVars, threadVars
<1>2. lockDepth \in [Slots -> 0..MaxLockDepth]
  BY DEF IInv, TypeOK
<1>3. lockDepth' \in [Slots -> 0..MaxLockDepth]
  <2>1. lockDepth[t] + 1 \in 0..MaxLockDepth
    BY <1>1, <1>2, BoundsAssumption
  <2> QED  BY <2>1, <1>1, <1>2
<1>4. /\ lockDepth'[t] = lockDepth[t] + 1 /\ lockDepth[t] >= 0
      /\ \A u \in Slots : u # t => lockDepth'[u] = lockDepth[u]
  BY <1>1, <1>2, BoundsAssumption
<1>5. LockDiscipline'
  <2>1. lockDepth'[t] > 0
    BY <1>2, <1>4, BoundsAssumption
  <2>2. state'[t] = "Running"
    BY <1>1, ExecutingFacts
  <2> QED  BY <2>1, <2>2, <1>1, <1>4 DEF IInv, LockDiscipline
<1>6. TypeOK'
  BY <1>1, <1>3 DEF IInv, TypeOK
<1>7. /\ Owned(state, priority, ready, pending.target)' /\ PendingShape'
      /\ RunningIsCurrent' /\ IdleEligible' /\ FrameOwnership'
      /\ HandoffState' /\ HandoffArmed' /\ AssertionsHold' /\ (policy[IDLE] # "Budgeted")'
  BY <1>1 DEF IInv, Owned, PendingShape, RunningIsCurrent, IdleEligible, FrameOwnership,
              HandoffState, HandoffArmed, AssertionsHold
<1> QED  BY <1>5, <1>6, <1>7 DEF IInv

\* The outermost unlock throttles, preempts or returns.
LEMMA UnlockInv ==
  ASSUME IInv, NEW t \in Slots, UnlockScheduler(t)
  PROVE  IInv'
<1>0. TypeOK /\ lockDepth \in [Slots -> 0..MaxLockDepth]
  BY DEF IInv, TypeOK
<1>1. /\ Executing(t) /\ t \in Slots \ {IDLE} /\ lockDepth[t] # 0
      /\ lockDepth' = [lockDepth EXCEPT ![t] = @ - 1]
      /\ UNCHANGED <<priority, policy, frame, current, irqDepth, swi>>
      /\ current' = current /\ irqDepth' = irqDepth
  BY DEF UnlockScheduler, HoldsLock
<1>2. lockDepth' \in [Slots -> 0..MaxLockDepth]
  <2>1. lockDepth[t] - 1 \in 0..MaxLockDepth
    BY <1>0, <1>1, BoundsAssumption
  <2> QED  BY <2>1, <1>0, <1>1
<1>3. lockDepth'[t] = lockDepth[t] - 1 /\ \A u \in Slots : u # t => lockDepth'[u] = 0
  BY <1>0, <1>1, ExecutingFacts
<1>4. (policy[IDLE] # "Budgeted")'
  BY <1>1 DEF IInv
<1>5. CASE UnlockThrottles(t)
  <2>1. /\ overrun' = [overrun EXCEPT ![t] = FALSE] /\ SwitchAway(t, "Throttled")
        /\ slice' = slice /\ lockDepth[t] = 1
    BY <1>5 DEF UnlockThrottles
  <2>2. "Throttled" \in States \ {"Ready", "Running"}
    BY DEF States
  <2>3. /\ Owned(state', priority, ready', pending'.target)
        /\ state' = [state EXCEPT ![t] = "Throttled"]
        /\ state' \in [Slots -> States] /\ ready' \in [Priorities -> Seq(Slots)]
        /\ pending' \in [previous : Slots, target : Slots]
        /\ target' \in [Slots -> Slots \cup {NIL}] /\ resumed' \in [Slots -> BOOLEAN]
        /\ pc' \in [Slots -> Locations] /\ halted' = "no"
        /\ PendingShape' /\ RunningIsCurrent' /\ IdleEligible'
        /\ HandoffState' /\ HandoffArmed' /\ AssertionsHold'
    BY <1>1, <2>1, <2>2, SwitchAwayStep
  <2>4. TypeOK'
    BY <1>0, <1>1, <1>2, <2>1, <2>3 DEF TypeOK, Halts
  <2>5. FrameOwnership'
    <3>1. \A u \in Slots : state'[u] = "Free" <=> state[u] = "Free"
      BY <1>0, <1>1, <2>3, ExecutingFacts DEF TypeOK
    <3> QED  BY <3>1, <1>1 DEF IInv, FrameOwnership
  <2>6. LockDiscipline'
    <3>1. \A u \in Slots : ~overrun'[u]
      BY <1>0, <1>1, <2>1, ExecutingFacts DEF TypeOK
    <3>2. \A u \in Slots : lockDepth'[u] = 0
      BY <1>3, <2>1
    <3> QED  BY <3>1, <3>2 DEF LockDiscipline
  <2>7. Owned(state, priority, ready, pending.target)'
    BY <1>1, <2>3
  <2> QED  BY <1>4, <2>3, <2>4, <2>5, <2>6, <2>7 DEF IInv
<1>6. CASE UnlockPreempts(t)
  <2> DEFINE st == [state EXCEPT ![t] = "Ready"]
  <2>1. PICK pop \in ReadyPop(ready) : CommitSwitch(t, pop.task, st, QueueReady(pop.rest, t))
    BY <1>6 DEF UnlockPreempts, Displacing
  <2>2. /\ Owned(state, priority, pop.rest, pop.task) /\ pop.task \in Slots \ {IDLE}
        /\ state[pop.task] = "Ready"
    BY <1>1, <2>1, ExecutingFacts, OwnedPop
  <2>3. pop.task # t
    BY <1>1, <2>2, ExecutingFacts
  <2>4. Owned(st, priority, QueueReady(pop.rest, t), pop.task)
    BY <1>1, <2>2, <2>3, ExecutingFacts, OwnedMakeReady DEF QueueReady
  <2>5. st[t] = "Ready" /\ \A u \in Slots : u # t => st[u] = state[u]
    BY <1>0 DEF TypeOK
  <2> HIDE DEF st
  <2>6. /\ st[IDLE] = "Ready" /\ st[pop.task] = "Ready"
        /\ \A u \in Slots : st[u] # "Running" /\ (st[u] = "Free" <=> state[u] = "Free")
    BY <1>1, <2>2, <2>5, ExecutingFacts, SlotFacts
  <2>7. /\ state' = st /\ ready' = QueueReady(pop.rest, t) /\ pending'.target = pop.task
        /\ state' \in [Slots -> States] /\ ready' \in [Priorities -> Seq(Slots)]
        /\ pending' \in [previous : Slots, target : Slots]
        /\ target' \in [Slots -> Slots \cup {NIL}] /\ resumed' \in [Slots -> BOOLEAN]
        /\ pc' \in [Slots -> Locations] /\ halted' = "no"
        /\ PendingShape' /\ RunningIsCurrent' /\ IdleEligible'
        /\ HandoffState' /\ HandoffArmed' /\ AssertionsHold'
    BY <1>1, <2>1, <2>2, <2>3, <2>4, <2>6, CommitStep
  <2>8. TypeOK'
    BY <1>0, <1>1, <1>2, <1>6, <2>7 DEF UnlockPreempts, TypeOK, Halts
  <2>9. FrameOwnership'
    BY <1>1, <2>6, <2>7 DEF IInv, FrameOwnership
  <2>10. LockDiscipline'
    BY <1>1, <1>3, <1>6, ExecutingFacts DEF UnlockPreempts, LockDiscipline
  <2>11. Owned(state, priority, ready, pending.target)'
    BY <1>1, <2>4, <2>7
  <2> QED  BY <1>4, <2>7, <2>8, <2>9, <2>10, <2>11 DEF IInv
<1>7. CASE UnlockReturns(t)
  <2>1. UNCHANGED <<state, resumed, overrun, ready, pending, slice, pc, target, halted>>
    BY <1>7 DEF UnlockReturns, threadVars
  <2>2. TypeOK'
    BY <1>0, <1>1, <1>2, <2>1 DEF TypeOK
  <2>3. LockDiscipline'
    <3>1. state[t] = "Running" /\ \A u \in Slots : u # t => lockDepth'[u] = 0 /\ ~overrun[u]
      BY <1>1, <1>3, ExecutingFacts
    <3>2. lockDepth[t] > 1 => lockDepth'[t] > 0
      BY <1>0, <1>3, BoundsAssumption
    <3>3. lockDepth[t] > 1 \/ ~overrun[t]
      BY <1>7 DEF UnlockReturns
    <3> QED  BY <3>1, <3>2, <3>3, <2>1 DEF LockDiscipline
  <2>4. /\ Owned(state, priority, ready, pending.target)' /\ PendingShape'
        /\ RunningIsCurrent' /\ IdleEligible' /\ FrameOwnership'
        /\ HandoffState' /\ HandoffArmed' /\ AssertionsHold'
    BY <1>1, <2>1 DEF IInv, Owned, PendingShape, RunningIsCurrent, IdleEligible,
                      FrameOwnership, HandoffState, HandoffArmed, AssertionsHold
  <2> QED  BY <1>4, <2>2, <2>3, <2>4 DEF IInv
<1> QED  BY <1>5, <1>6, <1>7 DEF UnlockScheduler

\* task_exit under the scheduler lock stops the firmware.
LEMMA ExitLockedInv ==
  ASSUME IInv, NEW t \in Slots, ExitLocked(t)
  PROVE  IInv'
<1>1. /\ UNCHANGED <<state, priority, policy, frame, resumed, lockDepth, overrun>>
      /\ UNCHANGED <<ready, current, pending, slice, pc, target, irqDepth, swi>>
      /\ halted' = "exit_while_locked"
  BY DEF ExitLocked, taskVars, schedVars, threadVars
<1>2. TypeOK'
  BY <1>1 DEF IInv, TypeOK, Halts
<1>3. /\ Owned(state, priority, ready, pending.target)' /\ PendingShape'
      /\ RunningIsCurrent' /\ IdleEligible' /\ FrameOwnership' /\ LockDiscipline'
      /\ HandoffState' /\ HandoffArmed' /\ AssertionsHold' /\ (policy[IDLE] # "Budgeted")'
  BY <1>1 DEF IInv, Owned, PendingShape, RunningIsCurrent, IdleEligible, FrameOwnership,
              LockDiscipline, HandoffState, HandoffArmed, AssertionsHold
<1> QED  BY <1>2, <1>3 DEF IInv

\* A task that a list holds is Ready, ordinary and not owned by the switch.
LEMMA QueuedFacts ==
  ASSUME IInv, NEW s \in Slots, Queued(s)
  PROVE  s # IDLE /\ s # pending.target
BY DEF IInv, Owned, Queued, In

\* set_run_policy requeues a queued task, readmits a throttled one and leaves
\* every other owner alone.
LEMMA SetRunPolicyInv ==
  ASSUME IInv, IDLE \notin Reconfigurable,
         NEW s \in Slots, NEW pol \in UserPolicies, SetRunPolicy(s, pol)
  PROVE  IInv'
<1>0. TypeOK /\ s # IDLE /\ Owned(state, priority, ready, pending.target)
  BY DEF SetRunPolicy, IInv
<1>1. /\ policy' = [policy EXCEPT ![s] = pol]
      /\ overrun' = [overrun EXCEPT ![s] = FALSE]
      /\ state' = [state EXCEPT ![s] = IF @ = "Throttled" THEN "Ready" ELSE @]
      /\ UNCHANGED <<priority, frame, resumed, lockDepth, current, pending, slice,
                     pc, target, irqDepth, swi, halted>>
  BY DEF SetRunPolicy, threadVars
<1>2. ready' = IF state[s] = "Ready" /\ Queued(s)
               THEN Push([ready EXCEPT ![priority[s]] = Without(@, s)], priority[s], s)
               ELSE IF state[s] = "Throttled" THEN Push(ready, priority[s], s)
               ELSE ready
  BY DEF SetRunPolicy
<1>3. state \in [Slots -> States] /\ priority \in [Slots -> Priorities]
  BY <1>0 DEF TypeOK
<1>4. /\ state'[s] = IF state[s] = "Throttled" THEN "Ready" ELSE state[s]
      /\ \A u \in Slots : u # s => state'[u] = state[u]
  BY <1>1, <1>3
<1>5. Owned(state', priority', ready', pending'.target)
  <2>1. CASE state[s] = "Throttled"
    <3>1. s # pending.target
      BY <2>1, SlotFacts, TicketFacts DEF IInv, PendingShape
    <3>2. state' = [state EXCEPT ![s] = "Ready"]
      BY <2>1, <1>1, <1>3
    <3>3. ready' = Push(ready, priority[s], s)
      BY <2>1, <1>2
    <3>4. Owned([state EXCEPT ![s] = "Ready"], priority, Push(ready, priority[s], s),
                pending.target)
      BY <3>1, <2>1, <1>0, OwnedMakeReady
    <3> QED  BY <3>2, <3>3, <3>4, <1>1
  <2>2. CASE state[s] # "Throttled"
    <3>1. state' = state
      BY <2>2, <1>1, <1>3
    <3>2. CASE state[s] = "Ready" /\ Queued(s)
      <4>1. s # pending.target
        BY <3>2, QueuedFacts
      <4>2. priority[s] \in Priorities /\ [priority EXCEPT ![s] = priority[s]] = priority
        BY <1>3
      <4>3. Owned(state, [priority EXCEPT ![s] = priority[s]],
                  Push([ready EXCEPT ![priority[s]] = Without(@, s)], priority[s], s),
                  pending.target)
        BY <4>1, <4>2, <3>2, <1>0, OwnedMove
      <4> QED  BY <4>2, <4>3, <3>1, <3>2, <1>1, <1>2
    <3>3. CASE ~(state[s] = "Ready" /\ Queued(s))
      <4>1. ready' = ready
        BY <3>3, <2>2, <1>2
      <4> QED  BY <4>1, <3>1, <1>0, <1>1
    <3> QED  BY <3>2, <3>3
  <2> QED  BY <2>1, <2>2
<1>6. TypeOK'
  <2>1. state' \in [Slots -> States] /\ ready' \in [Priorities -> Seq(Slots)]
    BY <1>5 DEF Owned
  <2>2. policy' \in [Slots -> Policies] /\ overrun' \in [Slots -> BOOLEAN]
    BY <1>0, <1>1, UserPoliciesAssumption DEF TypeOK, Policies
  <2> QED  BY <2>1, <2>2, <1>0, <1>1 DEF TypeOK
<1>7. /\ \A u \in Slots : state'[u] = "Free" <=> state[u] = "Free"
      /\ \A u \in Slots : state'[u] = "Running" <=> state[u] = "Running"
      /\ \A u \in Slots : state[u] = "Ready" => state'[u] = "Ready"
  BY <1>4
<1>8. current \in Slots /\ (pending # NoSwitch => pending.target \in Slots)
  BY <1>0 DEF TypeOK
<1>9. PendingShape' /\ RunningIsCurrent' /\ IdleEligible'
  BY <1>0, <1>1, <1>4, <1>7, <1>8, SlotFacts
     DEF IInv, PendingShape, RunningIsCurrent, IdleEligible
<1>10. FrameOwnership'
  BY <1>1, <1>7 DEF IInv, FrameOwnership
<1>11. LockDiscipline'
  <2>1. \A u \in Slots : overrun'[u] => overrun[u]
    BY <1>0, <1>1 DEF TypeOK
  <2> QED  BY <2>1, <1>1, <1>7 DEF IInv, LockDiscipline
<1>12. HandoffState' /\ HandoffArmed' /\ AssertionsHold'
  BY <1>1 DEF IInv, HandoffState, HandoffArmed, AssertionsHold
<1>13. (policy[IDLE] # "Budgeted")'
  BY <1>0, <1>1, SlotFacts DEF IInv, TypeOK
<1> QED  BY <1>5, <1>6, <1>9, <1>10, <1>11, <1>12, <1>13 DEF IInv

\* set_effective_priority moves a queued task to its new bucket.
LEMMA SetEffectivePriorityInv ==
  ASSUME IInv, IDLE \notin Reconfigurable,
         NEW s \in Slots, NEW p \in Priorities, SetEffectivePriority(s, p)
  PROVE  IInv'
<1>0. TypeOK /\ s # IDLE /\ Owned(state, priority, ready, pending.target)
  BY DEF SetEffectivePriority, IInv
<1>1. /\ priority' = [priority EXCEPT ![s] = p]
      /\ UNCHANGED <<state, policy, frame, resumed, lockDepth, overrun, current,
                     pending, slice, pc, target, irqDepth, swi, halted>>
  BY DEF SetEffectivePriority, threadVars
<1>2. ready' = IF state[s] = "Ready" /\ Queued(s)
               THEN Push([ready EXCEPT ![priority[s]] = Without(@, s)], p, s)
               ELSE ready
  BY DEF SetEffectivePriority
<1>3. Owned(state', priority', ready', pending'.target)
  <2>1. CASE state[s] = "Ready" /\ Queued(s)
    <3>1. s # pending.target
      BY <2>1, QueuedFacts
    <3>2. Owned(state, [priority EXCEPT ![s] = p],
                Push([ready EXCEPT ![priority[s]] = Without(@, s)], p, s), pending.target)
      BY <3>1, <2>1, <1>0, OwnedMove
    <3> QED  BY <3>2, <2>1, <1>1, <1>2
  <2>2. CASE ~(state[s] = "Ready" /\ Queued(s))
    <3>1. state[s] # "Ready" \/ s = pending.target
      <4>1. ASSUME state[s] = "Ready", s # pending.target  PROVE Queued(s)
        BY <4>1, <1>0 DEF Owned, In, Queued
      <4> QED  BY <4>1, <2>2
    <3>2. Owned(state, [priority EXCEPT ![s] = p], ready, pending.target)
      BY <3>1, <1>0, OwnedDetachedPriority
    <3> QED  BY <3>2, <2>2, <1>1, <1>2
  <2> QED  BY <2>1, <2>2
<1>4. TypeOK'
  <2>1. ready' \in [Priorities -> Seq(Slots)] /\ priority' \in [Slots -> Priorities]
    BY <1>3 DEF Owned
  <2> QED  BY <2>1, <1>0, <1>1 DEF TypeOK
<1>5. /\ PendingShape' /\ RunningIsCurrent' /\ IdleEligible' /\ FrameOwnership'
      /\ LockDiscipline' /\ HandoffState' /\ HandoffArmed' /\ AssertionsHold'
      /\ (policy[IDLE] # "Budgeted")'
  BY <1>1 DEF IInv, PendingShape, RunningIsCurrent, IdleEligible, FrameOwnership,
              LockDiscipline, HandoffState, HandoffArmed, AssertionsHold
<1> QED  BY <1>3, <1>4, <1>5 DEF IInv

\* on_timer_interrupt: due tasks are queued once, and only a task that does not
\* hold the scheduler lock loses its Running state.
LEMMA OnTimerInterruptInv ==
  ASSUME IInv, OnTimerInterrupt
  PROVE  IInv'
<1>0. /\ TypeOK /\ Owned(state, priority, ready, pending.target)
      /\ state \in [Slots -> States] /\ current \in Slots
  BY DEF IInv, TypeOK
<1>1. /\ halted = "no" /\ irqDepth > 0
      /\ UNCHANGED <<priority, policy, frame, resumed, lockDepth, current, pending,
                     pc, target, irqDepth, swi>>
      /\ slice' \in {slice, slice \/ policy[current] = "Preemptive"}
  BY DEF OnTimerInterrupt, threadVars
<1>2. PICK W \in SUBSET Dormant, R \in SUBSET Exhausted :
        /\ ready' = Waking(W, R)
        /\ \/ /\ state[current] # "Running"
              /\ state' = Woken(W, R)
              /\ UNCHANGED <<overrun, halted>>
           \/ /\ state[current] = "Running"
              /\ \E expiry \in BudgetExpiry(current) :
                   /\ state' = [Woken(W, R) EXCEPT
                                  ![current] = IF expiry = "ThrottleNow" THEN "Throttled" ELSE @]
                   /\ overrun' = [overrun EXCEPT
                                    ![current] = @ \/ expiry = "DeferredBySchedulerLock"]
              /\ halted' \in IF lockDepth[current] # 0 THEN {"no", "lock_overrun"} ELSE {"no"}
  BY DEF OnTimerInterrupt
<1> DEFINE woken == Woken(W, R)
<1>3. pending.target \notin W \cup R
  BY <1>0, SlotFacts, TicketFacts DEF IInv, PendingShape, Dormant, Exhausted, TypeOK
<1>4. Owned(woken, priority, Waking(W, R), pending.target)
  BY <1>0, <1>3, OwnedWaking
<1>5. /\ woken \in [Slots -> States]
      /\ \A u \in Slots : woken[u] = IF u \in W \cup R THEN "Ready" ELSE state[u]
      /\ \A u \in W \cup R : state[u] \in {"Sleeping", "Blocked", "Throttled"}
  BY <1>4 DEF Woken, Owned, Dormant, Exhausted
<1> HIDE DEF woken
<1>6. ASSUME Owned(state', priority, Waking(W, R), pending.target),
             overrun' \in [Slots -> BOOLEAN], halted' \in {"no", "lock_overrun"},
             \A u \in Slots : state'[u] = woken[u]
                              \/ (state[u] = "Running" /\ lockDepth[u] = 0
                                  /\ u # IDLE /\ state'[u] = "Throttled"),
             \A u \in Slots : overrun'[u] => overrun[u] \/ lockDepth[u] > 0
      PROVE  IInv'
  <2>1. Owned(state', priority', ready', pending'.target)
    BY <1>1, <1>2, <1>6
  <2>2. TypeOK'
    <3>1. state' \in [Slots -> States] /\ ready' \in [Priorities -> Seq(Slots)]
      BY <2>1 DEF Owned
    <3>2. slice' \in BOOLEAN
      BY <1>0, <1>1 DEF TypeOK
    <3> QED  BY <3>1, <3>2, <1>0, <1>1, <1>6 DEF TypeOK, Halts
  <2>3. \A u \in Slots : /\ state'[u] = "Free" <=> state[u] = "Free"
                         /\ state'[u] = "Running" => state[u] = "Running"
                         /\ state[u] = "Ready" => state'[u] = "Ready"
                         /\ state[u] = "Running" /\ lockDepth[u] > 0 => state'[u] = "Running"
    BY <1>5, <1>6
  <2>4. pending # NoSwitch => pending.target \in Slots
    BY <1>0 DEF TypeOK
  <2>5. PendingShape' /\ RunningIsCurrent'
    BY <2>3, <2>4, <1>0, <1>1 DEF IInv, PendingShape, RunningIsCurrent
  <2>6. IdleEligible'
    BY <1>5, <1>6, SlotFacts DEF IInv, IdleEligible
  <2>7. FrameOwnership'
    BY <2>3, <1>1 DEF IInv, FrameOwnership
  <2>8. LockDiscipline'
    BY <2>3, <1>1, <1>6 DEF IInv, LockDiscipline
  <2>9. HandoffState' /\ HandoffArmed' /\ AssertionsHold' /\ (policy[IDLE] # "Budgeted")'
    BY <1>1, <1>6 DEF IInv, HandoffState, HandoffArmed, AssertionsHold
  <2> QED  BY <2>1, <2>2, <2>5, <2>6, <2>7, <2>8, <2>9 DEF IInv
<1>7. CASE state[current] # "Running"
  <2>1. state' = woken /\ overrun' = overrun /\ halted' = halted
    BY <1>2, <1>7 DEF woken
  <2> QED  BY <2>1, <1>0, <1>1, <1>4, <1>6 DEF TypeOK
<1>8. CASE state[current] = "Running"
  <2>1. PICK expiry \in BudgetExpiry(current) :
          /\ state' = [woken EXCEPT ![current] = IF expiry = "ThrottleNow" THEN "Throttled" ELSE @]
          /\ overrun' = [overrun EXCEPT ![current] = @ \/ expiry = "DeferredBySchedulerLock"]
    BY <1>2, <1>8 DEF woken
  <2>2. halted' \in {"no", "lock_overrun"}
    BY <1>2, <1>8
  <2>3. /\ expiry = "ThrottleNow" => policy[current] = "Budgeted" /\ lockDepth[current] = 0
        /\ expiry = "DeferredBySchedulerLock" => lockDepth[current] # 0
    BY <2>1 DEF BudgetExpiry
  <2>4. woken[current] = "Running"
    BY <1>0, <1>5, <1>8
  <2>5. expiry = "ThrottleNow" => current # IDLE
    BY <2>3 DEF IInv
  <2>6. /\ state'[current] = IF expiry = "ThrottleNow" THEN "Throttled" ELSE woken[current]
        /\ \A u \in Slots : u # current => state'[u] = woken[u]
    BY <2>1, <1>0, <1>5
  <2>7. Owned(state', priority, Waking(W, R), pending.target)
    <3>1. CASE expiry = "ThrottleNow"
      BY <3>1, <2>1, <2>4, <2>5, <1>0, <1>4, OwnedOtherState DEF States
    <3>2. CASE expiry # "ThrottleNow"
      <4>1. state' = woken
        BY <3>2, <2>1, <1>0, <1>5
      <4> QED  BY <4>1, <1>4
    <3> QED  BY <3>1, <3>2
  <2>8. overrun' \in [Slots -> BOOLEAN]
    BY <2>1, <1>0 DEF TypeOK
  <2>9. \A u \in Slots : overrun'[u] => overrun[u] \/ lockDepth[u] > 0
    <3>1. lockDepth[current] # 0 => lockDepth[current] > 0
      BY <1>0, BoundsAssumption DEF TypeOK
    <3>2. \A u \in Slots : overrun'[u] =
             IF u = current THEN overrun[u] \/ expiry = "DeferredBySchedulerLock" ELSE overrun[u]
      BY <2>1, <1>0 DEF TypeOK
    <3> QED  BY <3>1, <3>2, <2>3
  <2>10. \A u \in Slots : state'[u] = woken[u]
                          \/ (state[u] = "Running" /\ lockDepth[u] = 0
                              /\ u # IDLE /\ state'[u] = "Throttled")
    BY <2>3, <2>5, <2>6, <1>8
  <2> QED  BY <2>2, <2>7, <2>8, <2>9, <2>10, <1>6
<1> QED  BY <1>7, <1>8

\* Nothing moves after a fail-stop, nor in a stuttering step.
LEMMA StutterInv ==
  ASSUME IInv, UNCHANGED vars
  PROVE  IInv'
<1>1. /\ UNCHANGED <<state, priority, policy, frame, resumed, lockDepth, overrun>>
      /\ UNCHANGED <<ready, current, pending, slice, pc, target, irqDepth, swi, halted>>
  BY DEF vars, taskVars, schedVars, threadVars
<1> QED  BY <1>1 DEF IInv, TypeOK, Owned, PendingShape, RunningIsCurrent, IdleEligible,
                     FrameOwnership, LockDiscipline, HandoffState, HandoffArmed, AssertionsHold

-----------------------------------------------------------------------------
(* The theorems. *)

\* Every critical section, every interrupt and every epilogue keeps the
\* inductive invariant.
LEMMA NextInv ==
  ASSUME IInv, IDLE \notin Reconfigurable, [Next]_vars
  PROVE  IInv'
<1>1. CASE \E t \in Slots : Thread(t) \/ Handoff(t)
  <2>1. PICK t \in Slots : Thread(t) \/ Handoff(t)
    BY <1>1
  <2>2. CASE Yield(t)
    BY <2>2, YieldInv
  <2>3. CASE Sleep(t) \/ Block(t)
    BY <2>3, SleepBlockInv
  <2>4. CASE Exit(t)
    BY <2>4, ExitInv
  <2>5. CASE ExitLocked(t)
    BY <2>5, ExitLockedInv
  <2>6. CASE \E p \in Priorities, pol \in UserPolicies : Spawn(t, p, pol)
    BY <2>6, SpawnInv
  <2>7. CASE \E w \in Slots : Wake(t, w)
    BY <2>7, WakeInv
  <2>8. CASE LockScheduler(t)
    BY <2>8, LockInv
  <2>9. CASE UnlockScheduler(t)
    BY <2>9, UnlockInv
  <2>10. CASE Handoff(t)
    BY <2>10, HandoffInv
  <2> QED  BY <2>1, <2>2, <2>3, <2>4, <2>5, <2>6, <2>7, <2>8, <2>9, <2>10 DEF Thread
<1>2. CASE Reconfigure
  <2>1. CASE \E s \in Slots, pol \in UserPolicies : SetRunPolicy(s, pol)
    BY <2>1, SetRunPolicyInv
  <2>2. CASE \E s \in Slots, p \in Priorities : SetEffectivePriority(s, p)
    BY <2>2, SetEffectivePriorityInv
  <2> QED  BY <1>2, <2>1, <2>2 DEF Reconfigure
<1>3. CASE Interrupt
  <2>1. CASE IrqEnter \/ OnSoftwareInterrupt \/ TrapReturnNested
    BY <2>1, QuietInterruptInv
  <2>2. CASE OnTimerInterrupt
    BY <2>2, OnTimerInterruptInv
  <2>3. CASE \E w \in Slots : IrqWake(w)
    BY <2>3, IrqWakeInv
  <2>4. CASE TrapConsume
    BY <2>4, TrapConsumeInv
  <2>5. CASE TrapReplace
    BY <2>5, TrapReplaceInv
  <2>6. CASE TrapPreempt
    BY <2>6, TrapPreemptInv
  <2>7. CASE TrapReturn
    BY <2>7, TrapReturnInv
  <2> QED  BY <1>3, <2>1, <2>2, <2>3, <2>4, <2>5, <2>6, <2>7 DEF Interrupt, TrapExit
<1>4. CASE FailStop \/ UNCHANGED vars
  BY <1>4, StutterInv DEF FailStop
<1> QED  BY <1>1, <1>2, <1>3, <1>4 DEF Next

\* The inductive invariant holds in every reachable state of the scheduler.
THEOREM Invariance ==
  ASSUME IDLE \notin Reconfigurable
  PROVE  Spec => []IInv
<1>1. Init => IInv
  BY InitInv
<1>2. IInv /\ [Next]_vars => IInv'
  BY NextInv
<1> QED  BY <1>1, <1>2, PTL DEF Spec

\* Type correctness of the scheduler state.
THEOREM TypeCorrect ==
  ASSUME IDLE \notin Reconfigurable
  PROVE  Spec => []TypeOK
<1>1. IInv => TypeOK
  BY DEF IInv
<1> QED  BY <1>1, Invariance, PTL

\* Exclusive ready ownership: what ready_ownership_audit evaluates at run time
\* holds for every task set, with interrupts at every point of the handoff.
THEOREM ReadyOwnershipHolds ==
  ASSUME IDLE \notin Reconfigurable
  PROVE  Spec => []ReadyOwnership
<1>1. IInv => ReadyOwnership
  BY OwnershipFollows
<1> QED  BY <1>1, Invariance, PTL

\* schedule_from_trap never loses, reuses or overwrites a saved frame.
THEOREM FrameOwnershipHolds ==
  ASSUME IDLE \notin Reconfigurable
  PROVE  Spec => []FrameOwnership
<1>1. IInv => FrameOwnership
  BY DEF IInv
<1> QED  BY <1>1, Invariance, PTL

\* Only the running task holds the scheduler lock, and a deferred exhaustion
\* never outlives it.
THEOREM LockDisciplineHolds ==
  ASSUME IDLE \notin Reconfigurable
  PROVE  Spec => []LockDiscipline
<1>1. IInv => LockDiscipline
  BY DEF IInv
<1> QED  BY <1>1, Invariance, PTL

\* A task that spins in execute_switch has its software interrupt pending.
THEOREM HandoffArmedHolds ==
  ASSUME IDLE \notin Reconfigurable
  PROVE  Spec => []HandoffArmed
<1>1. IInv => HandoffArmed
  BY DEF IInv
<1> QED  BY <1>1, Invariance, PTL

\* The assertions on switch intents, detached targets and restored frames never
\* fail.
THEOREM AssertionsNeverFail ==
  ASSUME IDLE \notin Reconfigurable
  PROVE  Spec => []AssertionsHold
<1>1. IInv => AssertionsHold
  BY DEF IInv
<1> QED  BY <1>1, Invariance, PTL

\* No context switch takes the processor from a task that holds the scheduler
\* lock.
THEOREM NeverSwitchedWhileLocked ==
  ASSUME IDLE \notin Reconfigurable
  PROVE  Spec => NoSwitchWhileLocked
<1>1. ASSUME IInv, [Next]_vars
      PROVE  [current' # current => lockDepth[current] = 0]_vars
  <2> SUFFICES ASSUME Next, current' # current  PROVE lockDepth[current] = 0
    BY <1>1 DEF vars, schedVars
  <2>1. current \in Slots /\ \A t \in Slots : lockDepth[t] \in 0..MaxLockDepth
    BY <1>1 DEF IInv, TypeOK
  <2>2. TrapConsume \/ TrapReplace \/ TrapPreempt
    BY DEF Next, Thread, Yield, Sleep, Block, Exit, ExitLocked, Spawn, Wake, LockScheduler,
           UnlockScheduler, Handoff, Deliver, Pend, Resume, RequestReschedule, Reconfigure,
           SetRunPolicy, SetEffectivePriority, Interrupt, IrqEnter, OnSoftwareInterrupt,
           OnTimerInterrupt, IrqWake, TrapExit, TrapReturnNested, TrapReturn, FailStop,
           vars, schedVars
  <2>3. CASE TrapPreempt
    BY <2>3 DEF TrapPreempt, SwitchGuard
  <2>4. CASE TrapConsume \/ TrapReplace
    <3>1. state[current] # "Running"
      BY <1>1, <2>4 DEF TrapConsume, TrapReplace, IInv, PendingShape
    <3> QED  BY <3>1, <2>1, <1>1, BoundsAssumption DEF IInv, LockDiscipline
  <2> QED  BY <2>2, <2>3, <2>4
<1>2. Spec => []IInv
  BY Invariance
<1> QED  BY <1>1, <1>2, PTL DEF Spec, NoSwitchWhileLocked

-----------------------------------------------------------------------------
(* FIFO within a priority. *)

\* The list q2 is q with arrivals behind it.
Grows(q, q2) == Len(q) <= Len(q2) /\ \A i \in 1..Len(q) : q2[i] = q[i]

\* At most the head has left, for good, and arrivals are behind the rest.
Kept(q, q2) ==
  \/ Grows(q, q2)
  \/ q = <<>>
  \/ Grows(Tail(q), q2) /\ ~In(q2, Head(q))

\* Arrivals upon arrivals are arrivals.
LEMMA GrowsTwice ==
  ASSUME NEW S, NEW q \in Seq(S), NEW q2 \in Seq(S), NEW q3 \in Seq(S),
         Grows(q, q2), Grows(q2, q3)
  PROVE  Grows(q, q3)
BY DEF Grows

\* What is concatenated arrives behind.
LEMMA GrowsConcat ==
  ASSUME NEW S, NEW q \in Seq(S), NEW w \in Seq(S)
  PROVE  Grows(q, q \o w)
BY DEF Grows

\* Taking the head of the longer list takes the head of the shorter one.
LEMMA GrowsTail ==
  ASSUME NEW S, NEW q \in Seq(S), NEW q2 \in Seq(S), q # <<>>, Grows(q, q2)
  PROVE  q2 # <<>> /\ Head(q2) = Head(q) /\ Grows(Tail(q), Tail(q2))
<1>1. Len(q) \in Nat \ {0} /\ Len(q2) \in Nat /\ Len(q) <= Len(q2) /\ q2[1] = q[1]
  BY DEF Grows
<1>2. q2 # <<>> /\ Head(q2) = q2[1] /\ Head(q) = q[1]
  BY <1>1
<1>3. /\ Len(Tail(q)) = Len(q) - 1 /\ Len(Tail(q2)) = Len(q2) - 1
      /\ \A i \in 1..(Len(q) - 1) : Tail(q)[i] = q[i + 1]
      /\ \A i \in 1..(Len(q2) - 1) : Tail(q2)[i] = q2[i + 1]
  BY <1>1, <1>2
<1>4. \A i \in 1..(Len(q) - 1) : q2[i + 1] = q[i + 1]
  BY <1>1 DEF Grows
<1> QED  BY <1>1, <1>2, <1>3, <1>4 DEF Grows

\* A list from which at most the head leaves and to which others are only
\* appended keeps the order of those that stay.
LEMMA KeptInOrder ==
  ASSUME NEW S, NEW q \in Seq(S), NEW q2 \in Seq(S), Distinct(q), Distinct(q2),
         Kept(q, q2), NEW a, NEW b, In(q, a), In(q2, a)
  PROVE  /\ Precedes(q, a, b) => Precedes(q2, a, b)
         /\ Precedes(q2, b, a) => Precedes(q, b, a)
<1>1. /\ Len(q) \in Nat /\ Len(q2) \in Nat /\ DOMAIN q = 1..Len(q) /\ DOMAIN q2 = 1..Len(q2)
  OBVIOUS
<1>2. PICK k \in {0, 1} :
        /\ Len(q) - k <= Len(q2)
        /\ \A i \in 1..(Len(q) - k) : q2[i] = q[i + k]
        /\ k = 1 => Len(q) > 0 /\ ~In(q2, q[1])
  <2>1. CASE Grows(q, q2)
    <3>1. \A i \in 1..(Len(q) - 0) : q2[i] = q[i + 0]
      BY <1>1, <2>1 DEF Grows
    <3> QED  BY <1>1, <2>1, <3>1 DEF Grows
  <2>2. CASE q = <<>>
    BY <1>1, <2>2 DEF In
  <2>3. CASE q # <<>> /\ Grows(Tail(q), q2) /\ ~In(q2, Head(q))
    <3>1. Len(q) > 0 /\ Head(q) = q[1] /\ Len(Tail(q)) = Len(q) - 1
      BY <1>1, <2>3
    <3>2. \A i \in 1..(Len(q) - 1) : Tail(q)[i] = q[i + 1]
      BY <1>1, <2>3
    <3> QED  BY <1>1, <2>3, <3>1, <3>2 DEF Grows
  <2> QED  BY <2>1, <2>2, <2>3 DEF Kept
<1>3. ASSUME NEW i \in DOMAIN q, q[i] = a  PROVE i > k /\ i - k \in 1..(Len(q) - k)
  BY <1>1, <1>2, <1>3
<1>4. ASSUME Precedes(q, a, b)  PROVE Precedes(q2, a, b)
  <2>1. PICK i \in DOMAIN q, j \in DOMAIN q : i < j /\ q[i] = a /\ q[j] = b
    BY <1>4 DEF Precedes
  <2>2. /\ i - k \in 1..(Len(q) - k) /\ j - k \in 1..(Len(q) - k) /\ i - k < j - k
        /\ (i - k) + k = i /\ (j - k) + k = j
    BY <1>1, <1>3, <2>1
  <2>3. q2[i - k] = a /\ q2[j - k] = b
    BY <1>2, <2>1, <2>2
  <2>4. i - k \in DOMAIN q2 /\ j - k \in DOMAIN q2
    BY <1>1, <1>2, <2>2
  <2> QED  BY <2>2, <2>3, <2>4 DEF Precedes
<1>5. ASSUME Precedes(q2, b, a)  PROVE Precedes(q, b, a)
  <2>1. PICK j \in DOMAIN q2, i \in DOMAIN q2 : j < i /\ q2[j] = b /\ q2[i] = a
    BY <1>5 DEF Precedes
  <2>2. PICK l \in DOMAIN q : q[l] = a
    BY DEF In
  <2>3. l - k \in 1..(Len(q) - k) /\ (l - k) + k = l
    BY <1>1, <1>3, <2>2
  <2>4. q2[l - k] = a /\ l - k \in DOMAIN q2
    BY <1>1, <1>2, <2>2, <2>3
  <2>5. i = l - k
    BY <2>1, <2>4 DEF Distinct
  <2>6. j \in 1..(Len(q) - k) /\ q[j + k] = b /\ j + k \in DOMAIN q /\ j + k < l
    <3>1. j \in 1..Len(q2) /\ l \in 1..Len(q) /\ j < l - k /\ k \in {0, 1}
      BY <1>1, <2>1, <2>2, <2>5
    <3>2. j \in 1..(Len(q) - k) /\ j + k \in DOMAIN q /\ j + k < l
      BY <1>1, <3>1
    <3> QED  BY <1>2, <2>1, <3>2
  <2> QED  BY <2>2, <2>6 DEF Precedes
<1> QED  BY <1>4, <1>5

\* The queues r2 are r with arrivals.
Growing(r, r2) ==
  /\ r \in [Priorities -> Seq(Slots)] /\ r2 \in [Priorities -> Seq(Slots)]
  /\ \A p \in Priorities : Grows(r[p], r2[p])

\* Queues grow by nothing.
LEMMA GrowingNot ==
  ASSUME NEW r \in [Priorities -> Seq(Slots)]  PROVE Growing(r, r)
BY DEF Growing, Grows

\* ready_push.
LEMMA GrowingPush ==
  ASSUME NEW r, NEW r2, Growing(r, r2), NEW t \in Slots, NEW p \in Priorities
  PROVE  Growing(r, Push(r2, p, t))
<1> SUFFICES ASSUME NEW x, x = [r2 EXCEPT ![p] = Append(r2[p], t)]  PROVE Growing(r, x)
  BY DEF Push
<1>1. r \in [Priorities -> Seq(Slots)] /\ r2 \in [Priorities -> Seq(Slots)]
  BY DEF Growing
<1>2. /\ x \in [Priorities -> Seq(Slots)] /\ x[p] = Append(r2[p], t)
      /\ \A l \in Priorities : l # p => x[l] = r2[l]
  <2>1. r2[p] \in Seq(Slots) /\ Append(r2[p], t) \in Seq(Slots)
    BY <1>1, AppendFacts
  <2> QED  BY <1>1, <2>1
<1>3. ASSUME NEW l \in Priorities  PROVE Grows(r[l], x[l])
  <2>1. r[l] \in Seq(Slots) /\ r2[l] \in Seq(Slots) /\ Grows(r[l], r2[l])
    BY DEF Growing
  <2>2. CASE l # p
    BY <1>2, <2>1, <2>2
  <2>3. CASE l = p
    <3>1. Append(r2[l], t) \in Seq(Slots) /\ Grows(r2[l], Append(r2[l], t))
      BY <2>1 DEF Grows
    <3> QED  BY <1>2, <2>1, <2>3, <3>1, GrowsTwice
  <2> QED  BY <2>2, <2>3
<1> QED  BY <1>1, <1>2, <1>3 DEF Growing

\* The queue part of make_ready.
LEMMA GrowingQueueReady ==
  ASSUME NEW r, NEW r2, Growing(r, r2), NEW t \in Slots, priority[t] \in Priorities
  PROVE  Growing(r, QueueReady(r2, t))
BY GrowingPush DEF QueueReady

\* wake_sleepers.
LEMMA GrowingWaking ==
  ASSUME ready \in [Priorities -> Seq(Slots)], NEW W \in SUBSET Slots, NEW R \in SUBSET Slots
  PROVE  Growing(ready, Waking(W, R))
<1> SUFFICES ASSUME NEW x, x = Waking(W, R)  PROVE Growing(ready, x)
  OBVIOUS
<1>1. ASSUME NEW p \in Priorities  PROVE x[p] \in Seq(Slots) /\ Grows(ready[p], x[p])
  <2> SUFFICES ASSUME NEW q, q = ready[p], NEW v, v = InSlotOrder(At(W, p)),
                      NEW w, w = InSlotOrder(At(R, p))
               PROVE  x[p] \in Seq(Slots) /\ Grows(q, x[p])
    OBVIOUS
  <2>1. x[p] = (q \o v) \o w
    BY DEF Waking
  <2>2. q \in Seq(Slots)
    OBVIOUS
  <2>3. v \in Seq(Slots) /\ w \in Seq(Slots)
    <3>1. At(W, p) \in SUBSET Slots /\ At(R, p) \in SUBSET Slots
      BY DEF At
    <3> QED  BY <3>1, SlotsFinite, SlotOrderFacts
  <2>4. q \o v \in Seq(Slots) /\ Grows(q, q \o v)
    BY <2>2, <2>3, GrowsConcat
  <2>5. (q \o v) \o w \in Seq(Slots) /\ Grows(q \o v, (q \o v) \o w)
    <3> SUFFICES ASSUME NEW c, c = q \o v  PROVE c \o w \in Seq(Slots) /\ Grows(c, c \o w)
      OBVIOUS
    <3>1. c \in Seq(Slots)
      BY <2>4
    <3>2. c \o w \in Seq(Slots)
      BY <2>3, <3>1
    <3> QED  BY <2>3, <3>1, <3>2, GrowsConcat
  <2> QED  BY <2>1, <2>2, <2>4, <2>5, GrowsTwice
<1>2. x \in [Priorities -> Seq(Slots)]
  BY <1>1 DEF Waking
<1> QED  BY <1>1, <1>2 DEF Growing

\* ready_pop of queues that have grown, when the task that was taken has not
\* come back.
LEMMA PopKeeps ==
  ASSUME NEW r, NEW r1, Growing(r, r1), NEW pop \in ReadyPop(r1), NEW r2,
         Growing(pop.rest, r2), \A p \in Priorities : ~In(r2[p], pop.task)
  PROVE  \A p \in Priorities : Kept(r[p], r2[p])
<1>1. PICK f \in Priorities :
        /\ r1[f] # <<>>
        /\ pop = [task |-> Head(r1[f]), bucket |-> f, rest |-> [r1 EXCEPT ![f] = Tail(@)]]
  BY DEF ReadyPop
<1>2. pop.task = Head(r1[f]) /\ pop.rest = [r1 EXCEPT ![f] = Tail(r1[f])]
  BY <1>1
<1>3. ASSUME NEW p \in Priorities  PROVE Kept(r[p], r2[p])
  <2>1. /\ r[p] \in Seq(Slots) /\ r1[p] \in Seq(Slots) /\ r2[p] \in Seq(Slots)
        /\ Grows(r[p], r1[p]) /\ pop.rest[p] \in Seq(Slots) /\ Grows(pop.rest[p], r2[p])
    BY DEF Growing
  <2>2. pop.rest[p] = IF p = f THEN Tail(r1[f]) ELSE r1[p]
    BY <1>2 DEF Growing
  <2>3. CASE p # f
    BY <2>1, <2>2, <2>3, GrowsTwice DEF Kept
  <2>4. CASE p = f /\ r[p] = <<>>
    BY <2>4 DEF Kept
  <2>5. CASE p = f /\ r[p] # <<>>
    <3>1. r1[p] # <<>> /\ Head(r1[p]) = Head(r[p]) /\ Grows(Tail(r[p]), Tail(r1[p]))
      BY <2>1, <2>5, GrowsTail
    <3>2. Tail(r[p]) \in Seq(Slots) /\ Tail(r1[p]) \in Seq(Slots)
      BY <2>1, <2>5, <3>1
    <3>3. Grows(Tail(r[p]), r2[p])
      BY <2>1, <2>2, <2>5, <3>1, <3>2, GrowsTwice
    <3>4. ~In(r2[p], Head(r[p]))
      BY <1>2, <2>5, <3>1
    <3> QED  BY <3>3, <3>4 DEF Kept
  <2> QED  BY <2>3, <2>4, <2>5
<1> QED  BY <1>3

\* ready_pop_or_idle.
LEMMA PopOrIdleKeeps ==
  ASSUME ready \in [Priorities -> Seq(Slots)], NEW pop \in ReadyPopOrIdle(ready),
         ready' = pop.rest, ready' \in [Priorities -> Seq(Slots)],
         \A p \in Priorities : ~In(ready'[p], pop.task)
  PROVE  \A p \in Priorities : Kept(ready[p], ready'[p])
<1>1. CASE pop \in ReadyPop(ready)
  <2>1. Growing(ready, ready) /\ Growing(pop.rest, ready')
    BY GrowingNot
  <2> QED  BY <1>1, <2>1, PopKeeps
<1>2. CASE pop.rest = ready
  BY <1>2 DEF Kept, Grows
<1> QED  BY <1>1, <1>2 DEF ReadyPopOrIdle

\* What only adds tasks keeps the order.
LEMMA GrowingKeeps ==
  ASSUME NEW r, NEW r2, Growing(r, r2)
  PROVE  \A p \in Priorities : Kept(r[p], r2[p])
BY DEF Growing, Kept

\* A committed switch detaches its target from the lists.
LEMMA CommittedDetached ==
  ASSUME IInv', NEW t, NEW x, NEW st, NEW r, CommitSwitch(t, x, st, r)
  PROVE  ready' = r /\ \A p \in Priorities : ~In(ready'[p], x)
BY DEF IInv, Owned, CommitSwitch

\* So does a dispatch.
LEMMA DispatchedDetached ==
  ASSUME IInv', NEW t, NEW x, NEW st, NEW r, Dispatch(t, x, st, r),
         irqDepth' = 0, pending' = NoSwitch
  PROVE  ready' = r /\ \A p \in Priorities : ~In(ready'[p], x)
<1>1. ready' = r /\ current' = x
  BY DEF Dispatch
<1>2. state'[x] = "Running"
  BY <1>1 DEF IInv, RunningIsCurrent
<1> QED  BY <1>1, <1>2 DEF IInv, Owned

\* Every step but a change of policy or priority takes at most the head of a
\* list and appends.
LEMMA StepKeeps ==
  ASSUME IInv, IInv', Next, ~Reconfigure
  PROVE  \A p \in Priorities : Kept(ready[p], ready'[p])
<1> DEFINE Goal == \A p \in Priorities : Kept(ready[p], ready'[p])
<1> SUFFICES Goal
  OBVIOUS
<1>1. /\ ready \in [Priorities -> Seq(Slots)] /\ ready' \in [Priorities -> Seq(Slots)]
      /\ priority \in [Slots -> Priorities] /\ current \in Slots
  BY DEF IInv, TypeOK
<1>2. ASSUME ready' = ready  PROVE Goal
  BY <1>2 DEF Kept, Grows
<1>3. ASSUME NEW t, NEW s, SwitchAway(t, s)  PROVE Goal
  <2>1. PICK pop \in ReadyPopOrIdle(ready) :
          CommitSwitch(t, pop.task, [state EXCEPT ![t] = s], pop.rest)
    BY <1>3 DEF SwitchAway
  <2>2. ready' = pop.rest /\ \A p \in Priorities : ~In(ready'[p], pop.task)
    BY <2>1, CommittedDetached
  <2> QED  BY <1>1, <2>2, PopOrIdleKeeps
<1>4. ASSUME NEW r, Growing(ready, r), NEW pop \in ReadyPop(r), NEW t \in Slots,
             ready' = QueueReady(pop.rest, t), \A p \in Priorities : ~In(ready'[p], pop.task)
      PROVE  Goal
  <2>1. pop.rest \in [Priorities -> Seq(Slots)]
    <3>1. PICK f \in Priorities :
            /\ r[f] # <<>>
            /\ pop = [task |-> Head(r[f]), bucket |-> f, rest |-> [r EXCEPT ![f] = Tail(@)]]
      BY DEF ReadyPop
    <3>2. r \in [Priorities -> Seq(Slots)] /\ r[f] \in Seq(Slots) /\ Tail(r[f]) \in Seq(Slots)
      BY <1>4, <3>1 DEF Growing
    <3> QED  BY <3>1, <3>2
  <2>2. Growing(pop.rest, ready')
    BY <1>1, <1>4, <2>1, GrowingNot, GrowingQueueReady
  <2> QED  BY <1>4, <2>2, PopKeeps
<1>5. ASSUME NEW w \in Slots, ready' = QueueReady(ready, w)  PROVE Goal
  BY <1>1, <1>5, GrowingNot, GrowingQueueReady, GrowingKeeps
<1>6. ASSUME NEW t \in Slots, Yield(t)  PROVE Goal
  <2>1. PICK W \in SUBSET Dormant, R \in SUBSET Exhausted : \E pop \in ReadyPop(Waking(W, R)) :
          CommitSwitch(t, pop.task, [Woken(W, R) EXCEPT ![t] = "Ready"], QueueReady(pop.rest, t))
    BY <1>6 DEF Yield
  <2>2. PICK pop \in ReadyPop(Waking(W, R)) :
          CommitSwitch(t, pop.task, [Woken(W, R) EXCEPT ![t] = "Ready"], QueueReady(pop.rest, t))
    BY <2>1
  <2>3. Growing(ready, Waking(W, R))
    <3>1. W \in SUBSET Slots /\ R \in SUBSET Slots
      BY DEF Dormant, Exhausted
    <3> QED  BY <1>1, <3>1, GrowingWaking
  <2>4. ready' = QueueReady(pop.rest, t) /\ \A p \in Priorities : ~In(ready'[p], pop.task)
    BY <2>2, CommittedDetached
  <2> QED  BY <1>4, <2>2, <2>3, <2>4
<1>7. ASSUME NEW t \in Slots, Sleep(t) \/ Block(t) \/ Exit(t)  PROVE Goal
  BY <1>3, <1>7 DEF Sleep, Block, Exit
<1>8. ASSUME NEW t \in Slots, NEW p \in Priorities, NEW pol, Spawn(t, p, pol)  PROVE Goal
  <2>1. PICK s \in Slots : ready' = Push(ready, p, s)
    BY <1>8, SlotFacts DEF Spawn
  <2> QED  BY <1>1, <2>1, GrowingNot, GrowingPush, GrowingKeeps
<1>9. ASSUME NEW t \in Slots, UnlockScheduler(t)  PROVE Goal
  <2>1. CASE UnlockThrottles(t)
    BY <1>3, <2>1 DEF UnlockThrottles
  <2>2. CASE UnlockReturns(t)
    BY <1>2, <2>2 DEF UnlockReturns
  <2>3. CASE UnlockPreempts(t)
    <3>1. PICK pop \in Displacing(t, ready, slice) :
            CommitSwitch(t, pop.task, [state EXCEPT ![t] = "Ready"], QueueReady(pop.rest, t))
      BY <2>3 DEF UnlockPreempts
    <3>2. pop \in ReadyPop(ready)
      BY DEF Displacing
    <3>3. ready' = QueueReady(pop.rest, t) /\ \A p \in Priorities : ~In(ready'[p], pop.task)
      BY <3>1, CommittedDetached
    <3> QED  BY <1>1, <1>4, <3>2, <3>3, GrowingNot
  <2> QED  BY <1>9, <2>1, <2>2, <2>3 DEF UnlockScheduler
<1>10. ASSUME NEW t \in Slots, Thread(t)  PROVE Goal
  <2>1. CASE \E w \in Slots : Wake(t, w)
    BY <1>5, <2>1 DEF Wake
  <2>2. CASE ExitLocked(t) \/ LockScheduler(t)
    BY <1>2, <2>2 DEF ExitLocked, LockScheduler, schedVars
  <2> QED  BY <1>6, <1>7, <1>8, <1>9, <1>10, <2>1, <2>2 DEF Thread
<1>11. ASSUME NEW t \in Slots, Handoff(t)  PROVE Goal
  BY <1>2, <1>11 DEF Handoff, Deliver, Pend, Resume, RequestReschedule, schedVars
<1>12. CASE OnTimerInterrupt
  <2>1. PICK W \in SUBSET Dormant, R \in SUBSET Exhausted : ready' = Waking(W, R)
    BY <1>12 DEF OnTimerInterrupt
  <2>2. W \in SUBSET Slots /\ R \in SUBSET Slots
    BY DEF Dormant, Exhausted
  <2> QED  BY <1>1, <2>1, <2>2, GrowingWaking, GrowingKeeps
<1>13. CASE TrapConsume
  BY <1>2, <1>13 DEF TrapConsume, Dispatch
<1>14. CASE TrapReplace
  <2>1. PICK pop \in ReadyPopOrIdle(ready) : Dispatch(current, pop.task, state, pop.rest)
    BY <1>14 DEF TrapReplace
  <2>2. irqDepth' = 0 /\ pending' = NoSwitch
    BY <1>14 DEF TrapReplace
  <2>3. ready' = pop.rest /\ \A p \in Priorities : ~In(ready'[p], pop.task)
    BY <2>1, <2>2, DispatchedDetached
  <2> QED  BY <1>1, <2>3, PopOrIdleKeeps
<1>15. CASE TrapPreempt
  <2>1. PICK pop \in Displacing(current, ready, slice) :
          Dispatch(current, pop.task, [state EXCEPT ![current] = "Ready"],
                   QueueReady(pop.rest, current))
    BY <1>15 DEF TrapPreempt
  <2>2. irqDepth' = 0 /\ pending' = NoSwitch /\ pop \in ReadyPop(ready)
    BY <1>15 DEF TrapPreempt, Displacing
  <2>3. ready' = QueueReady(pop.rest, current) /\ \A p \in Priorities : ~In(ready'[p], pop.task)
    BY <2>1, <2>2, DispatchedDetached
  <2> QED  BY <1>1, <1>4, <2>2, <2>3, GrowingNot
<1>16. CASE \E w \in Slots : IrqWake(w)
  BY <1>5, <1>16 DEF IrqWake
<1>17. CASE IrqEnter \/ OnSoftwareInterrupt \/ TrapReturnNested \/ TrapReturn \/ FailStop
  BY <1>2, <1>17 DEF IrqEnter, OnSoftwareInterrupt, TrapReturnNested, TrapReturn, FailStop,
                     vars, schedVars
<1> QED  BY <1>10, <1>11, <1>12, <1>13, <1>14, <1>15, <1>16, <1>17 DEF Next, Interrupt, TrapExit

\* Among equals the ready lists are first in, first out: unless its policy or
\* priority is changed, no task is overtaken by one that became ready later,
\* whether by a wake, a yield, a preemption or a timer interrupt.
THEOREM NeverOvertaken ==
  ASSUME IDLE \notin Reconfigurable
  PROVE  Spec => NoOvertaking
<1> DEFINE InOrder ==
      ~Reconfigure =>
        \A p \in Priorities : \A a, b \in Slots :
          /\ In(ready[p], a) /\ In(ready'[p], a)
          => /\ Precedes(ready[p], a, b) => Precedes(ready'[p], a, b)
             /\ Precedes(ready'[p], b, a) => Precedes(ready[p], b, a)
<1>1. ASSUME IInv, IInv', [Next]_vars  PROVE [InOrder]_vars
  <2> SUFFICES ASSUME Next, ~Reconfigure, NEW p \in Priorities, NEW a \in Slots, NEW b \in Slots,
                      In(ready[p], a), In(ready'[p], a)
               PROVE  /\ Precedes(ready[p], a, b) => Precedes(ready'[p], a, b)
                      /\ Precedes(ready'[p], b, a) => Precedes(ready[p], b, a)
    BY <1>1
  <2>1. /\ ready[p] \in Seq(Slots) /\ Distinct(ready[p])
        /\ ready'[p] \in Seq(Slots) /\ Distinct(ready'[p])
    BY <1>1 DEF IInv, Owned
  <2>2. Kept(ready[p], ready'[p])
    BY <1>1, StepKeeps
  <2> QED  BY <2>1, <2>2, KeptInOrder
<1>2. Spec => []IInv
  BY Invariance
<1> QED  BY <1>1, <1>2, PTL DEF Spec, NoOvertaking

-----------------------------------------------------------------------------
(* Scheduler implements Processor. *)

\* The ordinary tasks that are Ready in st and not chosen by a switch.
Contenders(st, x) == {t \in Slots \ {IDLE} : st[t] = "Ready" /\ t # x}

\* An exhaustion is only deferred for a task that has a budget: what unlocking
\* settles is a budget's.
OverrunHasBudget == \A t \in Slots : overrun[t] => policy[t] = "Budgeted"

-----------------------------------------------------------------------------
(* What ready_pop chooses. *)

\* ready_pop takes a task that no contender is more urgent than.
LEMMA PopIsMostUrgent ==
  ASSUME NEW st, NEW pr, NEW r, Owned(st, pr, r, NIL), NEW pop \in ReadyPop(r)
  PROVE  /\ pop.task \in Contenders(st, NIL)
         /\ \A u \in Contenders(st, NIL) : pr[pop.task] <= pr[u]
<1>1. PICK p \in Priorities :
        /\ r[p] # <<>>
        /\ \A h \in 0..(p - 1) : r[h] = <<>>
        /\ pop = [task |-> Head(r[p]), bucket |-> p, rest |-> [r EXCEPT ![p] = Tail(@)]]
  BY DEF ReadyPop
<1>2. pop.task \in Slots \ {IDLE} /\ st[pop.task] = "Ready" /\ pr[pop.task] = p
  BY <1>1, OwnedPop
<1>3. ASSUME NEW u \in Contenders(st, NIL) PROVE p <= pr[u]
  <2>1. pr[u] \in Priorities /\ In(r[pr[u]], u)
    BY DEF Owned, Contenders
  <2>2. r[pr[u]] # <<>>
    BY <2>1 DEF In
  <2>3. p \in Int /\ pr[u] \in Int /\ pr[u] >= 0
    BY <2>1, PriorityLevelsAssumption DEF Priorities
  <2> QED  BY <1>1, <2>2, <2>3
<1> QED  BY <1>2, <1>3, SlotFacts DEF Contenders

\* ready_pop finds nothing only if there is no contender.
LEMMA NothingToPop ==
  ASSUME NEW st, NEW pr, NEW r, Owned(st, pr, r, NIL), ReadyPop(r) = {}
  PROVE  Contenders(st, NIL) = {}
<1> SUFFICES ASSUME NEW u \in Contenders(st, NIL) PROVE FALSE
  OBVIOUS
<1> DEFINE B == {q \in Priorities : r[q] # <<>>}
<1>1. pr[u] \in B
  BY DEF Owned, Contenders, In
<1>2. B \in SUBSET Nat /\ B # {}
  BY <1>1, PriorityLevelsAssumption DEF Priorities
<1> HIDE DEF B
<1>3. PICK p \in B : \A q \in B : p <= q
  BY <1>2, NatMin
<1>4. p \in Priorities /\ r[p] # <<>> /\ p \in Nat
  BY <1>2 DEF B
<1>5. ASSUME NEW h \in 0..(p - 1) PROVE r[h] = <<>>
  <2>1. h \in Priorities /\ ~(p <= h)
    BY <1>4, PriorityLevelsAssumption DEF Priorities
  <2> QED  BY <1>3, <2>1 DEF B
<1> QED  BY <1>4, <1>5 DEF ReadyPop

\* ready_pop_or_idle makes the choice that module Processor asks for.
LEMMA PopOrIdleIsMostUrgent ==
  ASSUME NEW st, NEW r, Owned(st, priority, r, NIL), NEW pop \in ReadyPopOrIdle(r)
  PROVE  pop.task \in P!MostUrgent(Contenders(st, NIL))
<1>1. CASE pop \in ReadyPop(r)
  BY <1>1, PopIsMostUrgent DEF P!MostUrgent
<1>2. CASE pop \notin ReadyPop(r)
  <2>1. pop.task = IDLE /\ ReadyPop(r) = {}
    BY <1>2 DEF ReadyPopOrIdle
  <2> QED  BY <2>1, NothingToPop DEF P!MostUrgent
<1> QED  BY <1>1, <1>2

\* Tasks that are dormant or throttled may be woken.
LEMMA MayWake ==
  ASSUME IInv, NEW S \in SUBSET (Dormant \cup Exhausted)
  PROVE  S \in SUBSET Slots /\ S \subseteq P!Wakeable /\ IDLE \notin S /\ pending.target \notin S
<1>1. \A t \in S : t \in Slots /\ state[t] \in {"Sleeping", "Blocked", "Throttled"}
  BY DEF Dormant, Exhausted
<1>2. IDLE \notin S
  BY <1>1 DEF IInv, IdleEligible
<1>3. pending.target \notin S
  <2>1. CASE pending = NoSwitch
    BY <1>1, <2>1, SlotFacts, TicketFacts
  <2>2. CASE pending # NoSwitch
    BY <1>1, <2>2 DEF IInv, PendingShape
  <2> QED  BY <2>1, <2>2
<1> QED  BY <1>1, <1>2, <1>3 DEF P!Wakeable

-----------------------------------------------------------------------------
(* The steps of the abstract processor, in terms of the scheduler's state. *)

\* Nothing that module Processor looks at changes.
LEMMA Invisible ==
  ASSUME UNCHANGED <<state, priority, policy, lockDepth, current, pending>>
  PROVE  UNCHANGED P!vars
BY DEF P!vars

\* The holder gives the processor up and the heir is chosen.
LEMMA GlueGiveUp ==
  ASSUME state[current] = "Running", lockDepth[current] = 0,
         NEW S \in SUBSET Slots, S \subseteq P!Wakeable, NEW h \in Slots, h # current,
         h \in P!MostUrgent(Contenders(state, pending.target) \cup S),
         NEW again \in SUBSET ({current} \ {IDLE}),
         Contenders(state', h) = ((Contenders(state, pending.target) \cup S) \ {h}) \cup again,
         pending'.target = h, state'[current] # "Running",
         \A t \in Slots : state'[t] = "Free" <=> state[t] = "Free",
         UNCHANGED <<current, lockDepth, priority, policy>>
  PROVE  P!Next
<1>1. {t \in Slots : state'[t] # "Free"} = {t \in Slots : state[t] # "Free"}
  OBVIOUS
<1>2. (state'[current'] = "Running") = FALSE
  BY Zenon
<1>3. (lockDepth'[current'] # 0) = (lockDepth[current] # 0)
  BY Zenon
<1>4. P!GiveUp(S, h)
  BY <1>1, <1>2, <1>3, Zenon DEF P!GiveUp, Contenders
<1> QED  BY <1>4 DEF P!Next

\* Tasks become runnable.
LEMMA GlueWake ==
  ASSUME NEW S \in SUBSET Slots, S \subseteq P!Wakeable,
         Contenders(state', pending.target) = Contenders(state, pending.target) \cup S,
         state'[current] = "Running" <=> state[current] = "Running",
         \A t \in Slots : state'[t] = "Free" <=> state[t] = "Free",
         UNCHANGED <<current, pending, lockDepth, priority, policy>>
  PROVE  P!Next
<1>1. {t \in Slots : state'[t] # "Free"} = {t \in Slots : state[t] # "Free"}
  OBVIOUS
<1>2. (state'[current'] = "Running") = (state[current] = "Running")
  BY Zenon
<1>3. (lockDepth'[current'] # 0) = (lockDepth[current] # 0)
  BY Zenon
<1>4. P!Wake(S)
  BY <1>1, <1>2, <1>3, Zenon DEF P!Wake, Contenders
<1> QED  BY <1>4 DEF P!Next

\* The holder is throttled.
LEMMA GlueThrottle ==
  ASSUME state[current] = "Running", lockDepth[current] = 0, policy[current] = "Budgeted",
         NEW S \in SUBSET Slots, S \subseteq P!Wakeable,
         Contenders(state', pending.target) = Contenders(state, pending.target) \cup S,
         state'[current] # "Running",
         \A t \in Slots : state'[t] = "Free" <=> state[t] = "Free",
         UNCHANGED <<current, pending, lockDepth, priority, policy>>
  PROVE  P!Next
<1>1. {t \in Slots : state'[t] # "Free"} = {t \in Slots : state[t] # "Free"}
  OBVIOUS
<1>2. (state'[current'] = "Running") = FALSE
  BY Zenon
<1>3. (lockDepth'[current'] # 0) = (lockDepth[current] # 0)
  BY Zenon
<1>4. P!Throttle(S)
  BY <1>1, <1>2, <1>3, Zenon DEF P!Throttle, Contenders
<1> QED  BY <1>4 DEF P!Next

\* Priority or policy of a task changes, and it may become runnable.
LEMMA GlueReconfigure ==
  ASSUME NEW t \in Slots, state[t] # "Free", NEW p \in Priorities, NEW pol \in Policies,
         priority' = [priority EXCEPT ![t] = p], policy' = [policy EXCEPT ![t] = pol],
         Contenders(state', pending.target) \in
           {Contenders(state, pending.target), Contenders(state, pending.target) \cup ({t} \cap P!Wakeable)},
         state'[current] = "Running" <=> state[current] = "Running",
         \A u \in Slots : state'[u] = "Free" <=> state[u] = "Free",
         UNCHANGED <<current, pending, lockDepth>>
  PROVE  P!Next
<1>1. {u \in Slots : state'[u] # "Free"} = {u \in Slots : state[u] # "Free"}
  OBVIOUS
<1>2. (state'[current'] = "Running") = (state[current] = "Running")
  BY Zenon
<1>3. (lockDepth'[current'] # 0) = (lockDepth[current] # 0)
  BY Zenon
<1>4. P!Reconfigure(t, p, pol)
  BY <1>1, <1>2, <1>3, Zenon DEF P!Reconfigure, Contenders
<1> QED  BY <1>4 DEF P!Next

\* The outermost unlock gives up a processor it had held back.
LEMMA GlueUnlockLoses ==
  ASSUME state[current] = "Running", lockDepth[current] # 0, pending.target = NIL,
         NEW h \in Slots, h # current, h \in P!MostUrgent(Contenders(state, NIL)),
         \/ /\ policy[current] = "Preemptive" /\ h # IDLE /\ priority[h] <= priority[current]
            /\ Contenders(state', h) = (Contenders(state, NIL) \ {h}) \cup {current}
         \/ policy[current] = "Budgeted" /\ Contenders(state', h) = Contenders(state, NIL) \ {h},
         pending'.target = h, state'[current] # "Running", lockDepth'[current] = 0,
         \A t \in Slots : state'[t] = "Free" <=> state[t] = "Free",
         UNCHANGED <<current, priority, policy>>
  PROVE  P!Next
<1>1. {t \in Slots : state'[t] # "Free"} = {t \in Slots : state[t] # "Free"}
  OBVIOUS
<1>2. (state'[current'] = "Running") = FALSE
  BY Zenon
<1>3. (lockDepth'[current'] # 0) = FALSE
  BY Zenon
<1>4. P!UnlockLoses(h)
  BY <1>1, <1>2, <1>3, Zenon DEF P!UnlockLoses, Contenders
<1> QED  BY <1>4 DEF P!Next

\* The holder takes or nests the scheduler lock.
LEMMA GlueLock ==
  ASSUME state[current] = "Running", UNCHANGED <<state, current, pending, priority, policy>>
  PROVE  P!Next
<1>1. (lockDepth'[current'] # 0) \in BOOLEAN
  OBVIOUS
<1>2. P!Lock
  BY <1>1, Zenon DEF P!Lock
<1> QED  BY <1>2 DEF P!Next

\* The successor gets the processor: from a pending switch, after a throttling
\* or by displacing a task that runs.
LEMMA GlueDispatch ==
  ASSUME NEW h \in Slots, lockDepth[current] = 0, lockDepth[h] = 0,
         pending'.target = NIL, current' = h, state'[h] = "Running",
         \A t \in Slots : state'[t] = "Free" <=> state[t] = "Free",
         UNCHANGED <<priority, policy, lockDepth>>,
         \/ /\ h = pending.target /\ h # NIL
            /\ Contenders(state', NIL) = Contenders(state, h)
         \/ /\ pending.target = NIL /\ state[current] # "Running"
            /\ h \in P!MostUrgent(Contenders(state, NIL))
            /\ Contenders(state', NIL) = Contenders(state, NIL) \ {h}
         \/ /\ pending.target = NIL /\ state[current] = "Running"
            /\ h \in P!MostUrgent(Contenders(state, NIL)) \ {IDLE}
            /\ current = IDLE \/ (policy[current] = "Preemptive" /\ priority[h] <= priority[current])
            /\ Contenders(state', NIL) = (Contenders(state, NIL) \ {h}) \cup ({current} \ {IDLE})
  PROVE  P!Next
<1>1. {t \in Slots : state'[t] # "Free"} = {t \in Slots : state[t] # "Free"}
  OBVIOUS
<1>2. (state'[current'] = "Running") = TRUE
  BY Zenon
<1>3. (lockDepth'[current'] # 0) = (lockDepth[current] # 0)
  BY Zenon
<1>4. CASE h = pending.target /\ h # NIL /\ Contenders(state', NIL) = Contenders(state, h)
  <2>1. P!HandOver
    BY <1>1, <1>2, <1>3, <1>4, Zenon DEF P!HandOver, Contenders
  <2> QED  BY <2>1 DEF P!Next
<1>5. CASE /\ pending.target = NIL /\ state[current] # "Running"
           /\ h \in P!MostUrgent(Contenders(state, NIL))
           /\ Contenders(state', NIL) = Contenders(state, NIL) \ {h}
  <2>1. Contenders(state', pending'.target) = Contenders(state, pending.target) \ {h}
    BY <1>5, Zenon
  <2>2. P!MostUrgent(Contenders(state, NIL)) = P!MostUrgent(Contenders(state, pending.target))
    BY <1>5, Zenon
  <2>3. P!Replace(h)
    BY <1>1, <1>2, <1>3, <1>5, <2>1, <2>2, Zenon DEF P!Replace, Contenders
  <2> QED  BY <2>3 DEF P!Next
<1>6. CASE /\ pending.target = NIL /\ state[current] = "Running"
           /\ h \in P!MostUrgent(Contenders(state, NIL)) \ {IDLE}
           /\ current = IDLE \/ (policy[current] = "Preemptive" /\ priority[h] <= priority[current])
           /\ Contenders(state', NIL) = (Contenders(state, NIL) \ {h}) \cup ({current} \ {IDLE})
  <2>1. (state'[current'] = "Running") = (state[current] = "Running")
    BY <1>6, Zenon
  <2>2. Contenders(state', pending'.target) = (Contenders(state, pending.target) \ {h}) \cup ({current} \ {IDLE})
    BY <1>6, Zenon
  <2>3. P!MostUrgent(Contenders(state, NIL)) = P!MostUrgent(Contenders(state, pending.target))
    BY <1>6, Zenon
  <2>4. P!Displace(h)
    BY <1>1, <1>3, <1>6, <2>1, <2>2, <2>3, Zenon DEF P!Displace, Contenders
  <2> QED  BY <2>4 DEF P!Next
<1> QED  BY <1>4, <1>5, <1>6

-----------------------------------------------------------------------------
(* One lemma per action. *)

\* yield_now gives up the processor and stays a contender.
LEMMA YieldRefines ==
  ASSUME IInv, NEW t \in Slots, Yield(t)
  PROVE  P!Next
<1>1. Executing(t) /\ lockDepth[t] = 0 /\ UNCHANGED <<priority, policy, lockDepth, current>>
  BY DEF Yield, SwitchGuard
<1>2. PICK W \in SUBSET Dormant, R \in SUBSET Exhausted :
        \E pop \in ReadyPop(Waking(W, R)) :
          CommitSwitch(t, pop.task, [Woken(W, R) EXCEPT ![t] = "Ready"],
                       QueueReady(pop.rest, t))
  BY DEF Yield
<1> DEFINE S == W \cup R
           woken == Woken(W, R)
           st == [woken EXCEPT ![t] = "Ready"]
<1>3. PICK pop \in ReadyPop(Waking(W, R)) :
        CommitSwitch(t, pop.task, st, QueueReady(pop.rest, t))
  BY <1>2
<1>4. /\ pending = NoSwitch /\ pending.target = NIL /\ current = t /\ state[t] = "Running"
      /\ Owned(state, priority, ready, NIL)
  BY <1>1, ExecutingFacts
<1>5. /\ S \in SUBSET Slots /\ S \subseteq P!Wakeable /\ IDLE \notin S
      /\ \A u \in S : state[u] \in {"Sleeping", "Blocked", "Throttled"}
  <2>1. S \in SUBSET (Dormant \cup Exhausted)
    OBVIOUS
  <2> HIDE DEF S
  <2> QED  BY <2>1, MayWake DEF Dormant, Exhausted
<1>6. Owned(woken, priority, Waking(W, R), NIL)
  <2>1. NIL \notin W \cup R
    BY <1>5, SlotFacts
  <2> QED  BY <1>4, <2>1, OwnedWaking
<1>7. woken \in [Slots -> States] /\ \A u \in Slots : woken[u] = IF u \in S THEN "Ready" ELSE state[u]
  BY <1>6 DEF Woken, Owned
<1>8. /\ st[t] = "Ready" /\ \A u \in Slots : u # t => st[u] = woken[u]
  BY <1>7
<1>9. pending' = [previous |-> t, target |-> pop.task] /\ state' = st
  BY <1>3 DEF CommitSwitch
<1> HIDE DEF S, woken, st
<1>10. Contenders(woken, NIL) = Contenders(state, pending.target) \cup S
  BY <1>4, <1>5, <1>7, SlotFacts DEF Contenders
<1>11. /\ pop.task \in Slots \ {IDLE} /\ woken[pop.task] = "Ready" /\ pop.task # t
       /\ pop.task \in P!MostUrgent(Contenders(woken, NIL))
  <2>1. pop.task \in Slots \ {IDLE} /\ woken[pop.task] = "Ready"
    BY <1>6, OwnedPop
  <2>2. pop.task \in P!MostUrgent(Contenders(woken, NIL))
    BY <1>6, PopIsMostUrgent DEF P!MostUrgent
  <2>3. woken[t] = "Running"
    BY <1>4, <1>5, <1>7
  <2> QED  BY <2>1, <2>2, <2>3
<1>12. Contenders(state', pop.task) =
         ((Contenders(state, pending.target) \cup S) \ {pop.task}) \cup ({t} \ {IDLE})
  <2>1. Contenders(st, pop.task) = (Contenders(woken, NIL) \ {pop.task}) \cup ({t} \ {IDLE})
    BY <1>4, <1>5, <1>7, <1>8, <1>11, SlotFacts DEF Contenders
  <2> QED  BY <1>9, <1>10, <2>1
<1>13. pending'.target = pop.task
  BY <1>9
<1>14. /\ state'[t] # "Running" /\ \A u \in Slots : state'[u] = "Free" <=> state[u] = "Free"
  BY <1>4, <1>5, <1>7, <1>8, <1>9
<1>15. {t} \ {IDLE} \in SUBSET ({current} \ {IDLE})
  BY <1>4
<1>16. pop.task \in P!MostUrgent(Contenders(state, pending.target) \cup S)
  BY <1>10, <1>11
<1>17. /\ state[current] = "Running" /\ lockDepth[current] = 0 /\ state'[current] # "Running"
       /\ pop.task \in Slots /\ pop.task # current
  BY <1>1, <1>4, <1>11, <1>14
<1> DEFINE h == pop.task
           again == {t} \ {IDLE}
           C == Contenders(state, pending.target)
<1>18. /\ h \in Slots /\ h # current /\ pending'.target = h /\ h \in P!MostUrgent(C \cup S)
       /\ again \in SUBSET ({current} \ {IDLE}) /\ Contenders(state', h) = ((C \cup S) \ {h}) \cup again
  BY <1>12, <1>13, <1>15, <1>16, <1>17
<1> HIDE DEF h, again
<1> QED  BY <1>1, <1>5, <1>14, <1>17, <1>18, GlueGiveUp

\* What a caller leaves behind that stops being ready.
LEMMA SwitchAwayFacts ==
  ASSUME IInv, NEW t \in Slots \ {IDLE}, Executing(t),
         NEW s \in States \ {"Ready", "Running"}, SwitchAway(t, s)
  PROVE  /\ state[t] = "Running" /\ current = t /\ pending.target = NIL
         /\ state' = [state EXCEPT ![t] = s] /\ state'[t] = s
         /\ \A u \in Slots : u # t => state'[u] = state[u]
         /\ \E h \in Slots :
              /\ h # t /\ pending'.target = h /\ h \in P!MostUrgent(Contenders(state, NIL))
              /\ Contenders(state', h) = Contenders(state, NIL) \ {h}
<1>1. /\ pending = NoSwitch /\ pending.target = NIL /\ current = t /\ state[t] = "Running"
      /\ Owned(state, priority, ready, NIL) /\ state \in [Slots -> States]
  BY ExecutingFacts DEF Owned
<1>2. PICK pop \in ReadyPopOrIdle(ready) :
        CommitSwitch(t, pop.task, [state EXCEPT ![t] = s], pop.rest)
  BY DEF SwitchAway
<1>3. /\ pending' = [previous |-> t, target |-> pop.task] /\ state' = [state EXCEPT ![t] = s]
      /\ state'[t] = s /\ \A u \in Slots : u # t => state'[u] = state[u]
  BY <1>1, <1>2 DEF CommitSwitch
<1>4. pop.task \in Slots /\ (pop.task # IDLE => state[pop.task] = "Ready")
  BY <1>1, OwnedPopOrIdle
<1>5. pop.task # t
  BY <1>1, <1>4
<1>6. pop.task \in P!MostUrgent(Contenders(state, NIL))
  BY <1>1, PopOrIdleIsMostUrgent
<1>7. Contenders(state', pop.task) = Contenders(state, NIL) \ {pop.task}
  BY <1>1, <1>3, SlotFacts DEF Contenders
<1> QED  BY <1>1, <1>3, <1>4, <1>5, <1>6, <1>7

\* sleep_ms and the blocking calls give up the processor.
LEMMA SleepBlockRefines ==
  ASSUME IInv, NEW t \in Slots, Sleep(t) \/ Block(t)
  PROVE  P!Next
<1>1. PICK s \in {"Sleeping", "Blocked"} : SwitchAway(t, s)
  BY DEF Sleep, Block
<1>2. /\ Executing(t) /\ t \in Slots \ {IDLE} /\ lockDepth[t] = 0 /\ s \in States \ {"Ready", "Running"}
      /\ UNCHANGED <<priority, policy, lockDepth, current>>
  BY DEF Sleep, Block, SwitchGuard, States
<1>3. /\ state[t] = "Running" /\ current = t /\ pending.target = NIL /\ state'[t] = s
      /\ \A u \in Slots : u # t => state'[u] = state[u]
  BY <1>1, <1>2, SwitchAwayFacts
<1>4. PICK h \in Slots :
        /\ h # t /\ pending'.target = h /\ h \in P!MostUrgent(Contenders(state, NIL))
        /\ Contenders(state', h) = Contenders(state, NIL) \ {h}
  BY <1>1, <1>2, SwitchAwayFacts
<1>5. /\ {} \in SUBSET Slots /\ {} \subseteq P!Wakeable /\ {} \in SUBSET ({current} \ {IDLE})
      /\ Contenders(state, pending.target) \cup {} = Contenders(state, NIL)
      /\ Contenders(state', h) = ((Contenders(state, pending.target) \cup {}) \ {h}) \cup {}
  BY <1>3, <1>4
<1>6. h \in P!MostUrgent(Contenders(state, pending.target) \cup {})
  BY <1>4, <1>5
<1>7. state'[current] # "Running" /\ \A u \in Slots : state'[u] = "Free" <=> state[u] = "Free"
  BY <1>3
<1> QED  BY <1>2, <1>3, <1>4, <1>5, <1>6, <1>7, GlueGiveUp

\* task_exit.
LEMMA ExitRefines ==
  ASSUME IInv, NEW t \in Slots, Exit(t)
  PROVE  P!Next
<1>1. /\ Executing(t) /\ t \in Slots \ {IDLE} /\ lockDepth[t] = 0 /\ SwitchAway(t, "Free")
      /\ "Free" \in States \ {"Ready", "Running"}
      /\ UNCHANGED <<lockDepth, current>>
      /\ priority' = [priority EXCEPT ![t] = Lowest]
      /\ policy' = [policy EXCEPT ![t] = "Cooperative"]
  BY SlotFacts DEF Exit, States
<1>2. /\ state[t] = "Running" /\ current = t /\ pending.target = NIL /\ state'[t] = "Free"
      /\ \A u \in Slots : u # t => state'[u] = state[u]
  BY <1>1, SwitchAwayFacts
<1>3. PICK h \in Slots :
        /\ h # t /\ pending'.target = h /\ h \in P!MostUrgent(Contenders(state, NIL))
        /\ Contenders(state', h) = Contenders(state, NIL) \ {h}
  BY <1>1, SwitchAwayFacts
<1>4. {u \in Slots : state'[u] # "Free"} = {u \in Slots : state[u] # "Free"} \ {current}
  BY <1>2
<1>5. (state'[current'] = "Running") = FALSE /\ (lockDepth'[current'] # 0) = (lockDepth[current] # 0)
  <2>1. state'[current'] # "Running" /\ lockDepth'[current'] = lockDepth[current]
    BY <1>1, <1>2
  <2> QED  BY <2>1, Zenon
<1>6. /\ Contenders(state', pending'.target) = Contenders(state, pending.target) \ {h}
      /\ h \in P!MostUrgent(Contenders(state, pending.target))
  BY <1>2, <1>3
<1>7. /\ state[current] = "Running" /\ ~(lockDepth[current] # 0) /\ h # current /\ pending'.target = h
      /\ \E p \in Priorities : priority' = [priority EXCEPT ![current] = p]
      /\ policy' = [policy EXCEPT ![current] = "Cooperative"] /\ current' = current
  BY <1>1, <1>2, <1>3, SlotFacts
<1>8. P!Leave(h)
  BY <1>4, <1>5, <1>6, <1>7, Zenon DEF P!Leave, Contenders
<1> QED  BY <1>8 DEF P!Next

\* spawn.
LEMMA SpawnRefines ==
  ASSUME IInv, NEW t \in Slots, NEW p \in Priorities, NEW pol \in UserPolicies, Spawn(t, p, pol)
  PROVE  P!Next
<1>1. Executing(t) /\ state \in [Slots -> States]
  BY DEF Spawn, IInv, TypeOK
<1>2. state[t] = "Running" /\ current = t /\ pending.target = NIL
  BY <1>1, ExecutingFacts
<1>3. PICK s \in Dynamic :
        /\ state[s] = "Free" /\ state' = [state EXCEPT ![s] = "Ready"]
        /\ priority' = [priority EXCEPT ![s] = p] /\ policy' = [policy EXCEPT ![s] = pol]
  BY DEF Spawn
<1>4. UNCHANGED <<lockDepth, current, pending>>
  BY DEF Spawn
<1>5. s \in Slots \ {IDLE} /\ s # t /\ pol \in Policies
  BY <1>2, <1>3, SlotFacts, UserPoliciesAssumption DEF Policies
<1>6. state'[s] = "Ready" /\ \A u \in Slots : u # s => state'[u] = state[u]
  BY <1>1, <1>3, <1>5
<1>7. /\ {u \in Slots : state'[u] # "Free"} = {u \in Slots : state[u] # "Free"} \cup {s}
      /\ s \in Slots \ {u \in Slots : state[u] # "Free"}
  BY <1>3, <1>5, <1>6
<1>8. Contenders(state', pending'.target) = Contenders(state, pending.target) \cup {s}
  BY <1>2, <1>4, <1>5, <1>6, SlotFacts DEF Contenders
<1>9. /\ (state'[current'] = "Running") = (state[current] = "Running")
      /\ (lockDepth'[current'] # 0) = (lockDepth[current] # 0)
  <2>1. state'[current'] = state[current] /\ lockDepth'[current'] = lockDepth[current]
    BY <1>2, <1>4, <1>5, <1>6
  <2> QED  BY <2>1, Zenon
<1>10. state[current] = "Running" /\ current' = current /\ pending'.target = pending.target
  BY <1>2, <1>4
<1>11. P!Spawn(s, p, pol)
  BY <1>3, <1>7, <1>8, <1>9, <1>10, Zenon DEF P!Spawn, Contenders
<1> QED  BY <1>5, <1>11 DEF P!Next

\* A wake, by a task or by an interrupt handler.
LEMMA WakeRefines ==
  ASSUME IInv, NEW w \in Slots, state[w] = "Blocked", state' = [state EXCEPT ![w] = "Ready"],
         UNCHANGED <<priority, policy, lockDepth, current, pending>>
  PROVE  P!Next
<1>1. {w} \in SUBSET (Dormant \cup Exhausted) /\ state \in [Slots -> States] /\ current \in Slots
  BY DEF Dormant, IInv, TypeOK
<1>2. {w} \in SUBSET Slots /\ {w} \subseteq P!Wakeable /\ w # IDLE /\ w # pending.target
  BY <1>1, MayWake
<1>3. state'[w] = "Ready" /\ \A u \in Slots : u # w => state'[u] = state[u]
  BY <1>1
<1>4. Contenders(state', pending.target) = Contenders(state, pending.target) \cup {w}
  BY <1>2, <1>3 DEF Contenders
<1>5. /\ state'[current] = "Running" <=> state[current] = "Running"
      /\ \A u \in Slots : state'[u] = "Free" <=> state[u] = "Free"
  BY <1>1, <1>3
<1> QED  BY <1>2, <1>4, <1>5, GlueWake

\* unlock_scheduler costs the processor when the lock held something back.
LEMMA UnlockRefines ==
  ASSUME IInv, OverrunHasBudget, NEW t \in Slots, UnlockScheduler(t)
  PROVE  P!Next
<1>1. /\ Executing(t) /\ t \in Slots \ {IDLE} /\ lockDepth[t] # 0
      /\ lockDepth' = [lockDepth EXCEPT ![t] = @ - 1] /\ UNCHANGED <<priority, policy, current>>
      /\ state \in [Slots -> States] /\ lockDepth \in [Slots -> 0..MaxLockDepth]
  BY DEF UnlockScheduler, HoldsLock, IInv, TypeOK
<1>2. /\ state[t] = "Running" /\ current = t /\ pending.target = NIL
      /\ Owned(state, priority, ready, NIL)
  BY <1>1, ExecutingFacts
<1>3. CASE UnlockThrottles(t)
  <2>1. /\ overrun[t] /\ lockDepth[t] = 1 /\ SwitchAway(t, "Throttled")
        /\ "Throttled" \in States \ {"Ready", "Running"}
    BY <1>3 DEF UnlockThrottles, States
  <2>2. state'[t] = "Throttled" /\ \A u \in Slots : u # t => state'[u] = state[u]
    BY <1>1, <2>1, SwitchAwayFacts
  <2>3. PICK h \in Slots :
          /\ h # t /\ pending'.target = h /\ h \in P!MostUrgent(Contenders(state, NIL))
          /\ Contenders(state', h) = Contenders(state, NIL) \ {h}
    BY <1>1, <2>1, SwitchAwayFacts
  <2>4. policy[current] = "Budgeted" /\ lockDepth'[current] = 0 /\ lockDepth[current] # 0
    BY <1>1, <1>2, <2>1 DEF OverrunHasBudget
  <2>5. /\ state[current] = "Running" /\ state'[current] # "Running"
        /\ \A u \in Slots : state'[u] = "Free" <=> state[u] = "Free"
    BY <1>2, <2>2
  <2> QED  BY <1>1, <1>2, <2>3, <2>4, <2>5, GlueUnlockLoses
<1>4. CASE UnlockPreempts(t)
  <2> DEFINE st == [state EXCEPT ![t] = "Ready"]
  <2>1. PICK pop \in Displacing(t, ready, slice) : CommitSwitch(t, pop.task, st, QueueReady(pop.rest, t))
    BY <1>4 DEF UnlockPreempts
  <2>2. /\ pop \in ReadyPop(ready) /\ policy[t] = "Preemptive"
        /\ pop.bucket < priority[t] \/ pop.bucket = priority[t]
    BY <1>1, <2>1 DEF Displacing
  <2>3. /\ pop.task \in Slots \ {IDLE} /\ state[pop.task] = "Ready" /\ pop.bucket = priority[pop.task]
        /\ pop.task \in P!MostUrgent(Contenders(state, NIL))
    BY <1>2, <2>2, OwnedPop, PopIsMostUrgent DEF P!MostUrgent
  <2>4. /\ pending' = [previous |-> t, target |-> pop.task] /\ state' = st
        /\ state'[t] = "Ready" /\ \A u \in Slots : u # t => state'[u] = state[u]
    BY <1>1, <2>1 DEF CommitSwitch
  <2> HIDE DEF st
  <2>5. pop.task # t /\ pending'.target = pop.task
    BY <1>2, <2>3, <2>4
  <2>6. Contenders(state', pop.task) = (Contenders(state, NIL) \ {pop.task}) \cup {t}
    BY <1>1, <1>2, <2>4, <2>5, SlotFacts DEF Contenders
  <2>7. lockDepth'[t] = 0
    BY <1>1, <1>4 DEF UnlockPreempts
  <2>8. priority[pop.task] <= priority[t]
    <3>1. priority[pop.task] \in Int /\ priority[t] \in Int
      BY <1>1, <2>3 DEF IInv, TypeOK, Priorities
    <3> QED  BY <2>2, <2>3, <3>1
  <2>9. \A u \in Slots : state'[u] = "Free" <=> state[u] = "Free"
    BY <1>2, <2>4
  <2> DEFINE h == pop.task
  <2>10. /\ h \in Slots /\ h # current /\ h # IDLE /\ pending'.target = h /\ priority[h] <= priority[current]
         /\ h \in P!MostUrgent(Contenders(state, NIL)) /\ policy[current] = "Preemptive"
         /\ Contenders(state', h) = (Contenders(state, NIL) \ {h}) \cup {current}
         /\ state[current] = "Running" /\ state'[current] # "Running"
         /\ lockDepth[current] # 0 /\ lockDepth'[current] = 0
    BY <1>1, <1>2, <2>2, <2>3, <2>4, <2>5, <2>6, <2>7, <2>8
  <2> HIDE DEF h
  <2> QED  BY <1>1, <1>2, <2>9, <2>10, GlueUnlockLoses
<1>5. CASE UnlockReturns(t)
  <2>1. UNCHANGED <<state, pending>>
    BY <1>5 DEF UnlockReturns
  <2> QED  BY <1>1, <1>2, <2>1, GlueLock
<1> QED  BY <1>3, <1>4, <1>5 DEF UnlockScheduler

\* set_run_policy and set_effective_priority.
LEMMA ReconfigureRefines ==
  ASSUME IInv, IDLE \notin Reconfigurable, Reconfigure
  PROVE  P!Next
<1>1. /\ state \in [Slots -> States] /\ priority \in [Slots -> Priorities]
      /\ policy \in [Slots -> Policies] /\ current \in Slots
  BY DEF IInv, TypeOK
<1>2. ASSUME NEW s \in Slots, NEW pol \in UserPolicies, SetRunPolicy(s, pol)
      PROVE  P!Next
  <2>1. /\ s # IDLE /\ state[s] # "Free" /\ pol \in Policies /\ priority[s] \in Priorities
        /\ policy' = [policy EXCEPT ![s] = pol] /\ priority' = [priority EXCEPT ![s] = priority[s]]
        /\ state' = [state EXCEPT ![s] = IF @ = "Throttled" THEN "Ready" ELSE @]
        /\ UNCHANGED <<current, pending, lockDepth>>
    BY <1>1, <1>2, UserPoliciesAssumption DEF SetRunPolicy, Policies
  <2>2. /\ state'[s] = (IF state[s] = "Throttled" THEN "Ready" ELSE state[s])
        /\ \A u \in Slots : u # s => state'[u] = state[u]
    BY <1>1, <2>1
  <2>3. /\ state'[current] = "Running" <=> state[current] = "Running"
        /\ \A u \in Slots : state'[u] = "Free" <=> state[u] = "Free"
    BY <1>1, <2>2
  <2>4. Contenders(state', pending.target) \in
          {Contenders(state, pending.target), Contenders(state, pending.target) \cup ({s} \cap P!Wakeable)}
    <3>1. CASE state[s] # "Throttled"
      <4>1. Contenders(state', pending.target) = Contenders(state, pending.target)
        BY <2>2, <3>1 DEF Contenders
      <4> QED  BY <4>1
    <3>2. CASE state[s] = "Throttled"
      <4>1. {s} \in SUBSET (Dormant \cup Exhausted)
        BY <3>2 DEF Exhausted
      <4>2. s \in P!Wakeable /\ s # pending.target
        BY <4>1, MayWake
      <4>3. Contenders(state', pending.target) = Contenders(state, pending.target) \cup {s}
        BY <2>1, <2>2, <3>2, <4>2 DEF Contenders
      <4>4. {s} \cap P!Wakeable = {s}
        BY <4>2
      <4> QED  BY <4>3, <4>4
    <3> QED  BY <3>1, <3>2
  <2> QED  BY <2>1, <2>3, <2>4, GlueReconfigure
<1>3. ASSUME NEW s \in Slots, NEW p \in Priorities, SetEffectivePriority(s, p)
      PROVE  P!Next
  <2>1. /\ state[s] # "Free" /\ policy[s] \in Policies
        /\ policy' = [policy EXCEPT ![s] = policy[s]] /\ priority' = [priority EXCEPT ![s] = p]
        /\ UNCHANGED <<state, current, pending, lockDepth>>
    BY <1>1, <1>3 DEF SetEffectivePriority
  <2> QED  BY <2>1, GlueReconfigure
<1> QED  BY <1>2, <1>3 DEF Reconfigure

\* The timer handler wakes what is due and may throttle the task it interrupted.
LEMMA OnTimerInterruptRefines ==
  ASSUME IInv, OnTimerInterrupt
  PROVE  P!Next
<1>1. /\ state \in [Slots -> States] /\ current \in Slots
      /\ UNCHANGED <<priority, policy, lockDepth, current, pending>>
  BY DEF IInv, TypeOK, OnTimerInterrupt
<1>2. PICK W \in SUBSET Dormant, R \in SUBSET Exhausted :
        \/ state[current] # "Running" /\ state' = Woken(W, R)
        \/ /\ state[current] = "Running"
           /\ \E expiry \in BudgetExpiry(current) :
                state' = [Woken(W, R) EXCEPT
                            ![current] = IF expiry = "ThrottleNow" THEN "Throttled" ELSE @]
  BY DEF OnTimerInterrupt
<1> DEFINE S == W \cup R
<1>3. /\ S \in SUBSET Slots /\ S \subseteq P!Wakeable /\ IDLE \notin S /\ pending.target \notin S
      /\ \A u \in S : state[u] \in {"Sleeping", "Blocked", "Throttled"}
  <2>1. S \in SUBSET (Dormant \cup Exhausted)
    OBVIOUS
  <2> HIDE DEF S
  <2> QED  BY <2>1, MayWake DEF Dormant, Exhausted
<1>4. /\ \A u \in Slots : Woken(W, R)[u] = IF u \in S THEN "Ready" ELSE state[u]
      /\ DOMAIN Woken(W, R) = Slots
  BY DEF Woken
<1> HIDE DEF S
<1>5. ASSUME \A u \in Slots : state'[u] = IF u \in S THEN "Ready" ELSE state[u],
             S \cap {current} = {} \/ state[current] # "Running"
      PROVE  P!Next
  <2>1. Contenders(state', pending.target) = Contenders(state, pending.target) \cup S
    BY <1>3, <1>5 DEF Contenders
  <2>2. /\ state'[current] = "Running" <=> state[current] = "Running"
        /\ \A u \in Slots : state'[u] = "Free" <=> state[u] = "Free"
    BY <1>1, <1>3, <1>5
  <2> QED  BY <1>1, <1>3, <2>1, <2>2, GlueWake
<1>6. CASE state[current] # "Running"
  BY <1>2, <1>4, <1>5, <1>6
<1>7. CASE state[current] = "Running"
  <2>1. PICK expiry \in BudgetExpiry(current) :
          state' = [Woken(W, R) EXCEPT ![current] = IF expiry = "ThrottleNow" THEN "Throttled" ELSE @]
    BY <1>2, <1>7
  <2>2. current \notin S
    BY <1>3, <1>7
  <2>3. CASE expiry # "ThrottleNow"
    <3>1. \A u \in Slots : state'[u] = IF u \in S THEN "Ready" ELSE state[u]
      BY <1>1, <1>4, <2>1, <2>2, <2>3
    <3> QED  BY <1>5, <2>2, <3>1
  <2>4. CASE expiry = "ThrottleNow"
    <3>1. policy[current] = "Budgeted" /\ lockDepth[current] = 0
      BY <2>1, <2>4 DEF BudgetExpiry
    <3>2. /\ state'[current] = "Throttled"
          /\ \A u \in Slots : u # current => state'[u] = IF u \in S THEN "Ready" ELSE state[u]
      BY <1>1, <1>4, <2>1, <2>4
    <3>3. Contenders(state', pending.target) = Contenders(state, pending.target) \cup S
      BY <1>3, <1>7, <2>2, <3>2 DEF Contenders
    <3>4. \A u \in Slots : state'[u] = "Free" <=> state[u] = "Free"
      BY <1>3, <1>7, <3>2
    <3> QED  BY <1>1, <1>3, <1>7, <3>1, <3>2, <3>3, <3>4, GlueThrottle
  <2> QED  BY <2>3, <2>4
<1> QED  BY <1>6, <1>7

\* Nobody but the running task holds the lock, so a successor does not.
LEMMA SuccessorUnlocked ==
  ASSUME IInv, NEW h \in Slots, state[h] # "Running"
  PROVE  lockDepth[h] = 0
<1>1. lockDepth[h] \in 0..MaxLockDepth /\ ~(lockDepth[h] > 0)
  BY DEF IInv, TypeOK, LockDiscipline
<1> QED  BY <1>1, BoundsAssumption

\* The outermost epilogue performs the pending switch.
LEMMA TrapConsumeRefines ==
  ASSUME IInv, TrapConsume
  PROVE  P!Next
<1> SUFFICES ASSUME NEW h, h = pending.target PROVE P!Next
  OBVIOUS
<1>1. /\ pending # NoSwitch /\ pending.previous = current /\ h # current /\ h \in Slots
      /\ state[current] # "Running" /\ state[h] = "Ready"
      /\ current \in Slots /\ state \in [Slots -> States]
  BY DEF TrapConsume, IInv, PendingShape, TypeOK
<1>2. state' = [state EXCEPT ![h] = "Running"] /\ current' = h /\ pending' = NoSwitch
      /\ UNCHANGED <<priority, policy, lockDepth>>
  BY DEF TrapConsume, Dispatch
<1>3. state'[h] = "Running" /\ (\A u \in Slots : u # h => state'[u] = state[u]) /\ pending'.target = NIL
  BY <1>1, <1>2, TicketFacts
<1>4. lockDepth[current] = 0 /\ lockDepth[h] = 0 /\ h # NIL
  BY <1>1, SuccessorUnlocked, SlotFacts
<1>5. Contenders(state', NIL) = Contenders(state, h)
  BY <1>1, <1>3, SlotFacts DEF Contenders
<1>6. \A u \in Slots : state'[u] = "Free" <=> state[u] = "Free"
  BY <1>1, <1>3
<1> QED  BY <1>1, <1>2, <1>3, <1>4, <1>5, <1>6, GlueDispatch

\* ... or replaces a task that the handler throttled ...
LEMMA TrapReplaceRefines ==
  ASSUME IInv, TrapReplace
  PROVE  P!Next
<1>1. /\ pending = NoSwitch /\ pending.target = NIL /\ state[current] # "Running"
      /\ current \in Slots /\ state \in [Slots -> States] /\ Owned(state, priority, ready, NIL)
  BY TicketFacts, SlotFacts DEF TrapReplace, IInv, TypeOK
<1>2. PICK pop \in ReadyPopOrIdle(ready) : Dispatch(current, pop.task, state, pop.rest)
  BY DEF TrapReplace
<1> SUFFICES ASSUME NEW h, h = pop.task PROVE P!Next
  OBVIOUS
<1>3. /\ h \in Slots /\ (h # IDLE => state[h] = "Ready")
      /\ h \in P!MostUrgent(Contenders(state, NIL))
  BY <1>1, <1>2, OwnedPopOrIdle, PopOrIdleIsMostUrgent
<1>4. state' = [state EXCEPT ![h] = "Running"] /\ current' = h
      /\ UNCHANGED <<priority, policy, lockDepth, pending>>
  BY <1>2 DEF TrapReplace, Dispatch
<1>5. state'[h] = "Running" /\ (\A u \in Slots : u # h => state'[u] = state[u]) /\ pending'.target = NIL
  BY <1>1, <1>3, <1>4
<1>6. state[h] # "Running" /\ state[h] # "Free"
  BY <1>1, <1>3 DEF IInv, RunningIsCurrent, IdleEligible
<1>7. lockDepth[current] = 0 /\ lockDepth[h] = 0
  BY <1>1, <1>3, <1>6, SuccessorUnlocked
<1>8. Contenders(state', NIL) = Contenders(state, NIL) \ {h}
  BY <1>3, <1>5, SlotFacts DEF Contenders
<1>9. \A u \in Slots : state'[u] = "Free" <=> state[u] = "Free"
  BY <1>5, <1>6
<1> QED  BY <1>1, <1>3, <1>4, <1>5, <1>7, <1>8, <1>9, GlueDispatch

\* ... or displaces the interrupted task.
LEMMA TrapPreemptRefines ==
  ASSUME IInv, TrapPreempt
  PROVE  P!Next
<1> SUFFICES ASSUME NEW t, t = current PROVE P!Next
  OBVIOUS
<1> DEFINE st == [state EXCEPT ![t] = "Ready"]
<1>1. /\ pending = NoSwitch /\ pending.target = NIL /\ state[t] = "Running"
      /\ t \in Slots /\ Owned(state, priority, ready, NIL) /\ lockDepth[t] = 0
      /\ state \in [Slots -> States] /\ priority \in [Slots -> Priorities]
  BY TicketFacts, SlotFacts DEF TrapPreempt, SwitchGuard, IInv, TypeOK
<1>2. PICK pop \in Displacing(t, ready, slice) : Dispatch(t, pop.task, st, QueueReady(pop.rest, t))
  BY DEF TrapPreempt
<1> SUFFICES ASSUME NEW h, h = pop.task PROVE P!Next
  OBVIOUS
<1>3. /\ pop \in ReadyPop(ready)
      /\ \/ t = IDLE
         \/ policy[t] = "Preemptive" /\ (pop.bucket < priority[t] \/ pop.bucket = priority[t])
  BY <1>2 DEF Displacing
<1>4. /\ h \in Slots \ {IDLE} /\ state[h] = "Ready" /\ pop.bucket = priority[h]
      /\ h \in P!MostUrgent(Contenders(state, NIL)) \ {IDLE}
  BY <1>1, <1>3, OwnedPop, PopIsMostUrgent DEF P!MostUrgent
<1>5. t = IDLE \/ (policy[t] = "Preemptive" /\ priority[h] <= priority[t])
  <2>1. priority[h] \in Int /\ priority[t] \in Int
    BY <1>1, <1>4 DEF Priorities
  <2> QED  BY <1>3, <1>4, <2>1
<1>6. state' = [st EXCEPT ![h] = "Running"] /\ current' = h
      /\ UNCHANGED <<priority, policy, lockDepth, pending>>
  BY <1>2 DEF TrapPreempt, Dispatch
<1>7. h # t
  BY <1>1, <1>4
<1>8. /\ state'[h] = "Running" /\ state'[t] = "Ready"
      /\ \A u \in Slots : u # h /\ u # t => state'[u] = state[u]
  <2>1. /\ st \in [Slots -> States] /\ st[t] = "Ready"
        /\ \A u \in Slots : u # t => st[u] = state[u]
    BY <1>1 DEF States
  <2> HIDE DEF st
  <2> QED  BY <1>1, <1>4, <1>6, <1>7, <2>1
<1>9. lockDepth[h] = 0
  BY <1>4, SuccessorUnlocked
<1>10. Contenders(state', NIL) = (Contenders(state, NIL) \ {h}) \cup ({t} \ {IDLE})
  BY <1>1, <1>4, <1>7, <1>8, SlotFacts DEF Contenders
<1>11. \A u \in Slots : state'[u] = "Free" <=> state[u] = "Free"
  BY <1>1, <1>4, <1>8
<1>12. pending'.target = NIL /\ h \in Slots /\ state[current] = "Running" /\ lockDepth[current] = 0
  BY <1>1, <1>4, <1>6
<1> QED  BY <1>1, <1>4, <1>5, <1>6, <1>8, <1>9, <1>10, <1>11, <1>12, GlueDispatch

-----------------------------------------------------------------------------
(* The theorem. *)

\* Every step of the scheduler is a step of the processor or leaves it alone.
LEMMA StepRefines ==
  ASSUME IInv, OverrunHasBudget, IDLE \notin Reconfigurable, [Next]_vars
  PROVE  [P!Next]_(P!vars)
<1>1. CASE \E t \in Slots : Thread(t) \/ Handoff(t)
  <2>1. PICK t \in Slots : Thread(t) \/ Handoff(t)
    BY <1>1
  <2>2. CASE Yield(t)
    BY <2>2, YieldRefines
  <2>3. CASE Sleep(t) \/ Block(t)
    BY <2>3, SleepBlockRefines
  <2>4. CASE Exit(t)
    BY <2>4, ExitRefines
  <2>5. CASE ExitLocked(t)
    BY <2>5, Invisible DEF ExitLocked, taskVars, schedVars
  <2>6. CASE \E p \in Priorities, pol \in UserPolicies : Spawn(t, p, pol)
    BY <2>6, SpawnRefines
  <2>7. CASE \E w \in Slots : Wake(t, w)
    BY <2>7, WakeRefines DEF Wake
  <2>8. CASE LockScheduler(t)
    <3>1. state[current] = "Running" /\ UNCHANGED <<state, current, pending, priority, policy>>
      BY <2>8, ExecutingFacts DEF LockScheduler, schedVars
    <3> QED  BY <3>1, GlueLock
  <2>9. CASE UnlockScheduler(t)
    BY <2>9, UnlockRefines
  <2>10. CASE Handoff(t)
    BY <2>10, Invisible DEF Handoff, Deliver, Pend, Resume, RequestReschedule, taskVars, schedVars
  <2> QED  BY <2>1, <2>2, <2>3, <2>4, <2>5, <2>6, <2>7, <2>8, <2>9, <2>10 DEF Thread
<1>2. CASE Reconfigure
  BY <1>2, ReconfigureRefines
<1>3. CASE Interrupt
  <2>1. CASE IrqEnter \/ OnSoftwareInterrupt \/ TrapReturnNested \/ TrapReturn
    BY <2>1, Invisible DEF IrqEnter, OnSoftwareInterrupt, TrapReturnNested, TrapReturn, taskVars, schedVars
  <2>2. CASE OnTimerInterrupt
    BY <2>2, OnTimerInterruptRefines
  <2>3. CASE \E w \in Slots : IrqWake(w)
    BY <2>3, WakeRefines DEF IrqWake
  <2>4. CASE TrapConsume
    BY <2>4, TrapConsumeRefines
  <2>5. CASE TrapReplace
    BY <2>5, TrapReplaceRefines
  <2>6. CASE TrapPreempt
    BY <2>6, TrapPreemptRefines
  <2> QED  BY <1>3, <2>1, <2>2, <2>3, <2>4, <2>5, <2>6 DEF Interrupt, TrapExit
<1>4. CASE FailStop \/ UNCHANGED vars
  BY <1>4, Invisible DEF FailStop, vars, taskVars, schedVars
<1> QED  BY <1>1, <1>2, <1>3, <1>4 DEF Next

\* init() starts the processor with the main task.
LEMMA InitRefines == Init => P!Init
<1> SUFFICES ASSUME Init PROVE P!Init
  OBVIOUS
<1>1. /\ {t \in Slots : state[t] # "Free"} = {MAIN, IDLE} /\ current = MAIN /\ MAIN \in Slots \ {IDLE}
      /\ Contenders(state, pending.target) = {} /\ pending.target = NIL
      /\ priority \in [Slots -> Priorities] /\ policy = [t \in Slots |-> "Cooperative"]
  BY SlotFacts, TicketFacts DEF Init, Contenders
<1>2. (state[current] = "Running") = TRUE /\ (lockDepth[current] # 0) = FALSE
  <2>1. state[current] = "Running" /\ lockDepth[current] = 0
    BY SlotFacts DEF Init
  <2> QED  BY <2>1, Zenon
<1> QED  BY <1>1, <1>2, Zenon DEF P!Init, Contenders

\* The lock defers only exhaustions of budgets.
LEMMA OverrunStep ==
  ASSUME IInv, OverrunHasBudget, [Next]_vars
  PROVE  OverrunHasBudget'
<1>0. /\ overrun \in [Slots -> BOOLEAN] /\ policy \in [Slots -> Policies] /\ current \in Slots
  BY DEF IInv, TypeOK
<1>1. ASSUME UNCHANGED <<overrun, policy>> PROVE OverrunHasBudget'
  BY <1>1 DEF OverrunHasBudget
<1>2. ASSUME NEW t \in Slots, NEW pol, overrun'[t] = FALSE,
             \A u \in Slots : u # t => overrun'[u] = overrun[u] /\ policy'[u] = policy[u]
      PROVE  OverrunHasBudget'
  BY <1>2 DEF OverrunHasBudget
<1>3. CASE \E t \in Slots : Exit(t)
  <2>1. PICK t \in Slots : Exit(t)
    BY <1>3
  <2> QED  BY <1>0, <1>2, <2>1 DEF Exit
<1>4. CASE \E t \in Slots : UnlockScheduler(t)
  <2>1. PICK t \in Slots : UnlockScheduler(t)
    BY <1>4
  <2>2. policy' = policy /\ (overrun' = overrun \/ overrun' = [overrun EXCEPT ![t] = FALSE])
    BY <2>1 DEF UnlockScheduler, UnlockThrottles, UnlockPreempts, UnlockReturns
  <2> QED  BY <1>0, <1>1, <1>2, <2>2
<1>5. CASE \E t \in Slots, p \in Priorities, pol \in UserPolicies : Spawn(t, p, pol)
  <2>1. PICK t \in Slots, p \in Priorities, pol \in UserPolicies : Spawn(t, p, pol)
    BY <1>5
  <2>2. PICK s \in Dynamic : state[s] = "Free" /\ policy' = [policy EXCEPT ![s] = pol] /\ overrun' = overrun
    BY <2>1 DEF Spawn
  <2>3. s \in Slots /\ ~overrun[s]
    BY <2>2, SlotFacts DEF IInv, LockDiscipline
  <2> QED  BY <1>0, <2>2, <2>3 DEF OverrunHasBudget
<1>6. CASE Reconfigure
  <2>1. CASE \E s \in Slots, pol \in UserPolicies : SetRunPolicy(s, pol)
    <3>1. PICK s \in Slots, pol \in UserPolicies : SetRunPolicy(s, pol)
      BY <2>1
    <3> QED  BY <1>0, <1>2, <3>1 DEF SetRunPolicy
  <2>2. CASE \E s \in Slots, p \in Priorities : SetEffectivePriority(s, p)
    BY <1>1, <2>2 DEF SetEffectivePriority
  <2> QED  BY <1>6, <2>1, <2>2 DEF Reconfigure
<1>7. CASE OnTimerInterrupt
  <2>1. policy' = policy
    BY <1>7 DEF OnTimerInterrupt
  <2>2. \/ overrun' = overrun
        \/ \E expiry \in BudgetExpiry(current) :
             overrun' = [overrun EXCEPT ![current] = @ \/ expiry = "DeferredBySchedulerLock"]
    BY <1>7 DEF OnTimerInterrupt
  <2>3. ASSUME NEW expiry \in BudgetExpiry(current),
               overrun' = [overrun EXCEPT ![current] = @ \/ expiry = "DeferredBySchedulerLock"]
        PROVE  OverrunHasBudget'
    <3>1. expiry = "DeferredBySchedulerLock" => policy[current] = "Budgeted"
      BY DEF BudgetExpiry
    <3>2. \A u \in Slots : overrun'[u] =
            IF u = current THEN overrun[u] \/ expiry = "DeferredBySchedulerLock" ELSE overrun[u]
      BY <1>0, <2>3
    <3> QED  BY <2>1, <3>1, <3>2 DEF OverrunHasBudget
  <2> QED  BY <1>1, <2>1, <2>2, <2>3
<1>8. CASE /\ ~Reconfigure /\ ~OnTimerInterrupt
           /\ \A t \in Slots : ~Exit(t) /\ ~UnlockScheduler(t)
           /\ \A t \in Slots, p \in Priorities, pol \in UserPolicies : ~Spawn(t, p, pol)
  <2>1. UNCHANGED <<overrun, policy>>
    BY <1>8 DEF Next, Thread, Yield, Sleep, Block, ExitLocked, Wake, LockScheduler, Handoff, Deliver,
           Pend, Resume, RequestReschedule, Interrupt, IrqEnter, OnSoftwareInterrupt, IrqWake,
           TrapExit, TrapReturnNested, TrapConsume, TrapReplace, TrapPreempt, TrapReturn, FailStop,
           vars, taskVars
  <2> QED  BY <1>1, <2>1
<1> QED  BY <1>3, <1>4, <1>5, <1>6, <1>7, <1>8

\* Whatever interrupts hit the two-phase handoff, the scheduler implements the
\* abstract processor: one holder, successors chosen once and by urgency, and no
\* processor lost against a policy or a held scheduler lock.
THEOREM Refinement ==
  ASSUME IDLE \notin Reconfigurable
  PROVE  Spec => ImplementsProcessor
<1>1. Init => OverrunHasBudget
  BY DEF Init, OverrunHasBudget
<1>2. IInv /\ OverrunHasBudget /\ [Next]_vars => OverrunHasBudget'
  BY OverrunStep
<1>3. IInv /\ OverrunHasBudget /\ [Next]_vars => [P!Next]_(P!vars)
  BY StepRefines
<1>4. Init => P!Init
  BY InitRefines
<1>5. Spec => []IInv
  BY Invariance
<1> QED  BY <1>1, <1>2, <1>3, <1>4, <1>5, PTL DEF Spec, ImplementsProcessor, P!Spec
==============================================================================
