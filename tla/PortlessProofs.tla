--------------------------- MODULE PortlessProofs ---------------------------
(***************************************************************************)
(* Portless implements Processor, for every number of task slots and       *)
(* priorities, until an interrupt's epilogue looks for another task: a     *)
(* switch that is prepared in one critical section and performed in        *)
(* another keeps the promise, whatever handlers do in the gaps.            *)
(***************************************************************************)
EXTENDS Portless, CommonLemmas

\* The idle task is an ordinary slot number, NIL is none.
LEMMA SlotFacts ==
  /\ MAIN \in Slots /\ IDLE \in Slots /\ MAIN # IDLE /\ NIL \notin Slots
  /\ Slots \in SUBSET Int /\ IsFiniteSet(Slots) /\ Dynamic \in SUBSET (Slots \ {IDLE})
  /\ MAIN \notin Dynamic
BY TaskSlotsAssumption, FS_Interval DEF Slots, MAIN, IDLE, NIL, Dynamic

\* There is a lowest priority, and priorities are numbers.
LEMMA LevelFacts == Lowest \in Levels /\ Levels \in SUBSET Nat
BY PriorityLevelsAssumption DEF Lowest, Levels

-----------------------------------------------------------------------------
(* The ready queues. *)

\* The queues r hold exactly the tasks S, each once, in the list of its priority.
Holds(r, pr, S) ==
  /\ r \in [Levels -> Seq(Slots)] /\ S \in SUBSET Slots /\ \A u \in S : pr[u] \in Levels
  /\ \A p \in Levels : Distinct(r[p])
  /\ \A p \in Levels : \A u : In(r[p], u) <=> u \in S /\ pr[u] = p

\* ready_pop and ready_pop_or_idle find nothing only if there is nothing, and
\* otherwise take a task that no other is more urgent than.
LEMMA PopFacts ==
  ASSUME NEW r, NEW pr, NEW S, Holds(r, pr, S)
  PROVE  /\ Pop(r) = NIL => S = {} /\ QT!Taken(r) = r
         /\ Pop(r) # NIL => /\ Pop(r) \in S /\ \A u \in S : pr[Pop(r)] <= pr[u]
                            /\ Holds(QT!Taken(r), pr, S \ {Pop(r)})
<1> DEFINE busy == {p \in Levels : r[p] # <<>>}
           first == CHOOSE p \in busy : \A o \in busy : p <= o
<1>1. ASSUME NEW u \in S  PROVE pr[u] \in busy
  BY DEF Holds, In
<1>2. CASE busy = {}
  <2>1. Pop(r) = NIL /\ QT!Taken(r) = r /\ S = {}
    BY <1>1, <1>2 DEF Pop, QT!Taken
  <2> QED  BY <2>1
<1>3. CASE busy # {}
  <2>1. busy \in SUBSET Nat
    BY LevelFacts
  <2>2. \E p \in busy : \A o \in busy : p <= o
    BY <1>3, <2>1, NatMin
  <2>3. first \in busy /\ \A o \in busy : first <= o
    BY <2>2
  <2>4. Pop(r) = Head(r[first]) /\ QT!Taken(r) = [r EXCEPT ![first] = Tail(@)]
    BY <1>3 DEF Pop, QT!Taken
  <2> SUFFICES ASSUME NEW f, f = first, NEW q, q = r[f], NEW h, h = Head(q),
                      NEW x, x = [r EXCEPT ![f] = Tail(q)]
               PROVE  h \in S /\ (\A u \in S : pr[h] <= pr[u]) /\ Holds(x, pr, S \ {h})
    <3>1. Pop(r) # NIL
      <4>1. Head(r[first]) \in Slots
        <5>1. r[first] \in Seq(Slots) /\ r[first] # <<>>
          BY <2>3 DEF Holds
        <5> QED  BY <5>1, TailFacts
      <4> QED  BY <2>4, <4>1, SlotFacts
    <3> QED  BY <2>4, <3>1
  <2>5. f \in Levels /\ r[f] # <<>> /\ \A u \in S : f <= pr[u]
    BY <1>1, <2>3
  <2> HIDE DEF busy, first
  <2>6. q \in Seq(Slots) /\ q # <<>> /\ Distinct(q) /\ r \in [Levels -> Seq(Slots)]
        /\ S \in SUBSET Slots /\ \A u \in S : pr[u] \in Levels
    BY <2>5 DEF Holds
  <2>7. /\ h \in Slots /\ In(q, h) /\ Tail(q) \in Seq(Slots) /\ Distinct(Tail(q))
        /\ ~In(Tail(q), h)
        /\ \A u : In(Tail(q), u) => In(q, u)
        /\ \A u : In(q, u) => In(Tail(q), u) \/ u = h
    BY <2>6, TailFacts
  <2>8. h \in S /\ pr[h] = f
    BY <2>5, <2>7 DEF Holds
  <2>9. x \in [Levels -> Seq(Slots)] /\ x[f] = Tail(q) /\ \A p \in Levels : p # f => x[p] = r[p]
    BY <2>5, <2>6, <2>7
  <2>10. ASSUME NEW p \in Levels
         PROVE  Distinct(x[p]) /\ \A u : In(x[p], u) <=> u \in S \ {h} /\ pr[u] = p
    <3>1. Distinct(r[p]) /\ \A u : In(r[p], u) <=> u \in S /\ pr[u] = p
      BY DEF Holds
    <3>2. CASE p = f
      BY <2>7, <2>9, <3>1, <3>2
    <3>3. CASE p # f
      BY <2>8, <2>9, <3>1, <3>3
    <3> QED  BY <3>2, <3>3
  <2>11. Holds(x, pr, S \ {h})
    BY <2>6, <2>9, <2>10 DEF Holds
  <2> QED  BY <2>5, <2>8, <2>11
<1> QED  BY <1>2, <1>3

\* ready_push adds one task.
LEMMA ArriveFacts ==
  ASSUME NEW r, NEW pr, NEW S, Holds(r, pr, S), NEW t \in Slots, t \notin S, NEW p \in Levels,
         NEW pp, pp[t] = p, \A u \in S : pp[u] = pr[u]
  PROVE  Holds(QT!Arrive(r, t, p), pp, S \cup {t})
<1> SUFFICES ASSUME NEW x, x = [r EXCEPT ![p] = Append(r[p], t)]
             PROVE  Holds(x, pp, S \cup {t})
  BY DEF QT!Arrive
<1>1. /\ r \in [Levels -> Seq(Slots)] /\ S \in SUBSET Slots /\ \A u \in S : pr[u] \in Levels
      /\ r[p] \in Seq(Slots) /\ Distinct(r[p]) /\ ~In(r[p], t)
  BY DEF Holds
<1>2. /\ Append(r[p], t) \in Seq(Slots) /\ Distinct(Append(r[p], t))
      /\ \A u : In(Append(r[p], t), u) <=> In(r[p], u) \/ u = t
  BY <1>1, AppendFacts
<1>3. /\ x \in [Levels -> Seq(Slots)] /\ x[p] = Append(r[p], t)
      /\ \A l \in Levels : l # p => x[l] = r[l]
  BY <1>1, <1>2
<1>4. ASSUME NEW l \in Levels
      PROVE  Distinct(x[l]) /\ \A u : In(x[l], u) <=> u \in S \cup {t} /\ pp[u] = l
  <2>1. Distinct(r[l]) /\ \A u : In(r[l], u) <=> u \in S /\ pr[u] = l
    BY DEF Holds
  <2>2. CASE l = p
    BY <1>2, <1>3, <2>1, <2>2
  <2>3. CASE l # p
    BY <1>3, <2>1, <2>3
  <2> QED  BY <2>2, <2>3
<1> QED  BY <1>1, <1>3, <1>4 DEF Holds

\* ready_remove takes one out.
LEMMA DepartFacts ==
  ASSUME NEW r, NEW pr, NEW S, Holds(r, pr, S), NEW t \in S
  PROVE  Holds(QT!Depart(r, pr[t], t), pr, S \ {t})
<1> SUFFICES ASSUME NEW p, p = pr[t], NEW x, x = [r EXCEPT ![p] = Without(r[p], t)]
             PROVE  Holds(x, pr, S \ {t})
  BY DEF QT!Depart, QT!Without, Without
<1>1. /\ r \in [Levels -> Seq(Slots)] /\ S \in SUBSET Slots /\ \A u \in S : pr[u] \in Levels
      /\ p \in Levels /\ r[p] \in Seq(Slots) /\ Distinct(r[p])
  BY DEF Holds
<1>2. /\ Without(r[p], t) \in Seq(Slots) /\ Distinct(Without(r[p], t))
      /\ \A u : In(Without(r[p], t), u) <=> In(r[p], u) /\ u # t
  BY <1>1, WithoutFacts
<1>3. /\ x \in [Levels -> Seq(Slots)] /\ x[p] = Without(r[p], t)
      /\ \A l \in Levels : l # p => x[l] = r[l]
  BY <1>1, <1>2
<1>4. ASSUME NEW l \in Levels
      PROVE  Distinct(x[l]) /\ \A u : In(x[l], u) <=> u \in S \ {t} /\ pr[u] = l
  <2>1. Distinct(r[l]) /\ \A u : In(r[l], u) <=> u \in S /\ pr[u] = l
    BY DEF Holds
  <2>2. CASE l = p
    BY <1>2, <1>3, <2>1, <2>2
  <2>3. CASE l # p
    BY <1>3, <2>1, <2>3
  <2> QED  BY <2>2, <2>3
<1> QED  BY <1>1, <1>3, <1>4 DEF Holds

\* The pass of wake_sleepers adds the woken tasks.
LEMMA WakingFacts ==
  ASSUME NEW S, Holds(ready, priority, S), NEW D \in SUBSET Slots, S \cap D = {},
         \A u \in D : priority[u] \in Levels
  PROVE  Holds(Waking(D), priority, S \cup D)
<1> SUFFICES ASSUME NEW x, x = Waking(D)  PROVE Holds(x, priority, S \cup D)
  OBVIOUS
<1>1. ready \in [Levels -> Seq(Slots)] /\ S \in SUBSET Slots /\ \A u \in S : priority[u] \in Levels
  BY DEF Holds
<1>2. ASSUME NEW p \in Levels
      PROVE  /\ x[p] \in Seq(Slots) /\ Distinct(x[p])
             /\ \A u : In(x[p], u) <=> u \in S \cup D /\ priority[u] = p
  <2> SUFFICES ASSUME NEW E, E = {t \in D : priority[t] = p}, NEW w, w = InSlotOrder(E),
                      NEW q, q = ready[p]
               PROVE  /\ x[p] \in Seq(Slots) /\ Distinct(x[p])
                      /\ \A u : In(x[p], u) <=> u \in S \cup D /\ priority[u] = p
    OBVIOUS
  <2>1. x[p] = q \o w
    BY DEF Waking
  <2>2. /\ q \in Seq(Slots) /\ Distinct(q)
        /\ \A u : In(q, u) <=> u \in S /\ priority[u] = p
    BY DEF Holds
  <2>3. E \in SUBSET Slots
    OBVIOUS
  <2>4. w \in Seq(Slots) /\ Distinct(w) /\ \A u : In(w, u) <=> u \in E
    BY <2>3, SlotFacts, SlotOrderFacts
  <2>5. /\ q \o w \in Seq(Slots)
        /\ \A u : In(q \o w, u) <=> In(q, u) \/ In(w, u)
        /\ (\A u : ~(In(q, u) /\ In(w, u))) => Distinct(q \o w)
    BY <2>2, <2>4, ConcatFacts
  <2>6. \A u : ~(In(q, u) /\ In(w, u))
    BY <2>2, <2>4
  <2> QED  BY <2>1, <2>2, <2>4, <2>5, <2>6
<1>3. x \in [Levels -> Seq(Slots)]
  BY <1>2 DEF Waking
<1> QED  BY <1>1, <1>2, <1>3 DEF Holds

\* Only the priorities of the members matter.
LEMMA HoldsSame ==
  ASSUME NEW r, NEW pr, NEW S, Holds(r, pr, S), NEW pp, \A u \in S : pp[u] = pr[u]
  PROVE  Holds(r, pp, S)
BY DEF Holds

-----------------------------------------------------------------------------
(* The invariant. *)

\* The ordinary tasks that are Ready in st and not chosen by a switch.
Contenders(st, x) == {t \in Slots \ {IDLE} : st[t] = "Ready" /\ t # x}

\* The task chosen by a switch that was not performed yet.
Heir == IF pc = "prepared" THEN target ELSE NIL

States == {"Free", "Ready", "Running", "Sleeping", "Blocked"}
Places == {"run", "prepared", "switched", "fruitless", "wfi"}
Types ==
  /\ state \in [Slots -> States] /\ priority \in [Slots -> Levels]
  /\ locked \in [Slots -> BOOLEAN] /\ current \in Slots
  /\ pc \in Places /\ halted = FALSE

\* Between the two critical sections of a switch the caller is off the processor
\* and the target is Ready; at any other time the current task runs.
SwitchShape ==
  IF pc = "prepared"
  THEN target \in Slots /\ state[target] = "Ready" /\ target # current /\ state[current] # "Running"
  ELSE state[current] = "Running"

\* Nobody else runs or holds the scheduler lock, and idle is always eligible.
OnlyCurrent ==
  /\ \A t \in Slots : state[t] = "Running" \/ locked[t] => t = current
  /\ pc = "prepared" => ~locked[current]
  /\ state[IDLE] \in {"Ready", "Running"}

\* The inductive invariant.
IInv ==
  /\ Types
  /\ SwitchShape
  /\ OnlyCurrent
  /\ Holds(ready, priority, Contenders(state, Heir))

\* Initially main runs and only idle is Ready.
LEMMA InitInv == Init => IInv
<1> SUFFICES ASSUME Init  PROVE IInv
  OBVIOUS
<1>1. Types
  BY SlotFacts, LevelFacts DEF Init, Types, States, Places
<1>2. SwitchShape /\ OnlyCurrent
  BY SlotFacts DEF Init, SwitchShape, OnlyCurrent
<1>3. Heir = NIL /\ Contenders(state, Heir) = {}
  BY SlotFacts DEF Init, Heir, Contenders
<1>4. Holds(ready, priority, {})
  <2>1. ready = [p \in Levels |-> <<>>] /\ <<>> \in Seq(Slots)
    BY DEF Init
  <2>2. \A p \in Levels : ready[p] = <<>>
    BY <2>1
  <2>3. \A u : ~In(<<>>, u)
    BY DEF In
  <2>4. Distinct(<<>>)
    BY DEF Distinct
  <2> QED  BY <2>1, <2>2, <2>3, <2>4 DEF Holds
<1> QED  BY <1>1, <1>2, <1>3, <1>4 DEF IInv

-----------------------------------------------------------------------------
(* The steps of the abstract processor, in terms of this profile's state. *)

\* What module Processor sees.
Live == {t \in Slots : state[t] # "Free"}
Runnable == {t \in Slots \ {IDLE} : state[t] = "Ready" /\ (pc = "prepared" => t # target)}
OnProcessor == state[current] = "Running"

\* The runnable tasks are the contenders.
LEMMA RunnableFacts ==
  Runnable = Contenders(state, Heir) /\ Runnable' = Contenders(state', Heir')
BY SlotFacts DEF Runnable, Contenders, Heir

\* A step keeps the invariant, and is a step of the processor or none.
Refines == IInv' /\ (P!Next \/ UNCHANGED P!vars)

\* Nothing that module Processor looks at changes.
LEMMA Invisible ==
  ASSUME Live' = Live, Runnable' = Runnable, Heir' = Heir,
         OnProcessor' <=> OnProcessor, locked'[current'] = locked[current],
         UNCHANGED <<current, priority>>
  PROVE  UNCHANGED P!vars
BY Zenon DEF P!vars, Live, Runnable, Heir, OnProcessor

\* The holder gives the processor up and the heir is chosen.
LEMMA GlueGiveUp ==
  ASSUME OnProcessor, locked[current] = FALSE,
         NEW S \in SUBSET Slots, S \subseteq P!Wakeable, NEW h \in Slots, h # current,
         h \in P!MostUrgent(Runnable \cup S), NEW again \in SUBSET ({current} \ {IDLE}),
         Runnable' = ((Runnable \cup S) \ {h}) \cup again,
         Heir' = h, OnProcessor' = FALSE, Live' = Live,
         UNCHANGED <<current, locked, priority>>
  PROVE  P!Next
<1>1. locked'[current'] = locked[current]
  OBVIOUS
<1>2. P!GiveUp(S, h)
  BY <1>1, Zenon DEF P!GiveUp, Live, Runnable, Heir, OnProcessor
<1> QED  BY <1>2 DEF P!Next

\* The holder ends.
LEMMA GlueLeave ==
  ASSUME OnProcessor, locked[current] = FALSE, NEW h \in Slots, h # current,
         h \in P!MostUrgent(Runnable), Runnable' = Runnable \ {h},
         Heir' = h, OnProcessor' = FALSE, Live' = Live \ {current},
         NEW p \in Levels, priority' = [priority EXCEPT ![current] = p],
         UNCHANGED <<current, locked>>
  PROVE  P!Next
<1>1. locked'[current'] = locked[current]
  OBVIOUS
<1>2. [t \in Slots |-> "Cooperative"]
      = [[t \in Slots |-> "Cooperative"] EXCEPT ![current] = "Cooperative"]
  OBVIOUS
<1>3. P!Leave(h)
  BY <1>1, <1>2, Zenon DEF P!Leave, Live, Runnable, Heir, OnProcessor
<1> QED  BY <1>3 DEF P!Next

\* Tasks become runnable.
LEMMA GlueWake ==
  ASSUME NEW S \in SUBSET Slots, S \subseteq P!Wakeable, Runnable' = Runnable \cup S,
         Live' = Live, Heir' = Heir, OnProcessor' <=> OnProcessor,
         UNCHANGED <<current, locked, priority>>
  PROVE  P!Next
<1>1. locked'[current'] = locked[current]
  OBVIOUS
<1>2. P!Wake(S)
  BY <1>1, Zenon DEF P!Wake, Live, Runnable, Heir, OnProcessor
<1> QED  BY <1>2 DEF P!Next

\* A task is created.
LEMMA GlueSpawn ==
  ASSUME OnProcessor, NEW s \in Slots, s \notin Live, Live' = Live \cup {s},
         Runnable' = Runnable \cup {s}, NEW p \in Levels,
         priority' = [priority EXCEPT ![s] = p],
         Heir' = Heir, OnProcessor' = TRUE, UNCHANGED <<current, locked>>
  PROVE  P!Next
<1>1. locked'[current'] = locked[current] /\ OnProcessor = TRUE
  BY DEF OnProcessor
<1>2. [t \in Slots |-> "Cooperative"]
      = [[t \in Slots |-> "Cooperative"] EXCEPT ![s] = "Cooperative"]
  OBVIOUS
<1>3. P!Spawn(s, p, "Cooperative")
  BY <1>1, <1>2, Zenon DEF P!Spawn, Live, Runnable, Heir, OnProcessor
<1> QED  BY <1>3 DEF P!Next

\* A priority changes.
LEMMA GlueReconfigure ==
  ASSUME NEW t \in Slots, t \in Live, NEW p \in Levels, priority' = [priority EXCEPT ![t] = p],
         Live' = Live, Runnable' = Runnable, Heir' = Heir, OnProcessor' <=> OnProcessor,
         UNCHANGED <<current, locked>>
  PROVE  P!Next
<1>1. locked'[current'] = locked[current]
  OBVIOUS
<1>2. [u \in Slots |-> "Cooperative"]
      = [[u \in Slots |-> "Cooperative"] EXCEPT ![t] = "Cooperative"]
  OBVIOUS
<1>3. P!Reconfigure(t, p, "Cooperative")
  BY <1>1, <1>2, Zenon DEF P!Reconfigure, Live, Runnable, Heir, OnProcessor
<1> QED  BY <1>3 DEF P!Next

\* The holder takes or drops the scheduler lock.
LEMMA GlueLock ==
  ASSUME OnProcessor, locked'[current'] \in BOOLEAN, Live' = Live, Runnable' = Runnable,
         Heir' = Heir, OnProcessor' = TRUE, UNCHANGED <<current, priority>>
  PROVE  P!Next
<1>1. OnProcessor = TRUE
  BY DEF OnProcessor
<1>2. P!Lock
  BY <1>1, Zenon DEF P!Lock, Live, Runnable, Heir, OnProcessor
<1> QED  BY <1>2 DEF P!Next

\* The heir gets the processor.
LEMMA GlueHandOver ==
  ASSUME Heir # NIL, current' = Heir, OnProcessor' = TRUE, Heir' = NIL,
         Live' = Live, Runnable' = Runnable, locked'[current'] = locked[current],
         UNCHANGED priority
  PROVE  P!Next
<1>1. P!HandOver
  BY Zenon DEF P!HandOver, Live, Runnable, Heir, OnProcessor
<1> QED  BY <1>1 DEF P!Next

-----------------------------------------------------------------------------
(* Every action keeps the invariant and is a step of the processor or none. *)

\* The caller of a thread-mode call runs and no switch is under way.
LEMMA Caller ==
  ASSUME IInv, NEW t \in Slots, Executing(t)
  PROVE  /\ current = t /\ pc = "run" /\ state[t] = "Running" /\ Heir = NIL
         /\ OnProcessor /\ ~halted
         /\ Holds(ready, priority, Contenders(state, NIL))
         /\ Runnable = Contenders(state, NIL)
BY RunnableFacts DEF IInv, Executing, SwitchShape, Heir, OnProcessor

\* yield_now.
LEMMA YieldStep ==
  ASSUME IInv, NEW t \in Slots, Yield(t)
  PROVE  Refines
<1> SUFFICES ASSUME NEW S, S = Contenders(state, NIL), NEW D, D = DueTasks,
                    NEW r, r = Waking(D), NEW h, h = Pop(r)
             PROVE  Refines
  OBVIOUS
<1>1. /\ current = t /\ pc = "run" /\ state[t] = "Running" /\ Heir = NIL
      /\ OnProcessor /\ ~halted /\ Holds(ready, priority, S) /\ Runnable = S
  BY Caller DEF Yield
<1>2. /\ h # NIL /\ ready' = MakeReady(QT!Taken(r), t) /\ target' = h
      /\ state' = [Woken(D) EXCEPT ![t] = "Ready"] /\ pc' = "prepared"
      /\ UNCHANGED <<priority, locked, current, hart, halted>> /\ ~locked[t]
  BY DEF Yield, TakeYieldTarget
<1>3. /\ state \in [Slots -> States] /\ priority \in [Slots -> Levels]
      /\ locked \in [Slots -> BOOLEAN] /\ t \in Slots
      /\ (\A u \in Slots : state[u] = "Running" \/ locked[u] => u = t)
      /\ state[IDLE] \in {"Ready", "Running"}
  BY <1>1 DEF IInv, Types, OnlyCurrent
<1>4. /\ D \in SUBSET Slots /\ IDLE \notin D /\ t \notin D /\ S \cap D = {}
      /\ \A u \in D : state[u] \in {"Sleeping", "Blocked"}
  BY <1>1, <1>3 DEF DueTasks, Contenders
<1>5. S \in SUBSET Slots /\ t \notin S /\ IDLE \notin S /\ \A u \in S : state[u] = "Ready"
  BY <1>1 DEF Contenders
<1>6. Holds(r, priority, S \cup D)
  BY <1>1, <1>3, <1>4, WakingFacts
<1>7. /\ h \in S \cup D /\ (\A u \in S \cup D : priority[h] <= priority[u])
      /\ Holds(QT!Taken(r), priority, (S \cup D) \ {h})
  BY ONLY <1>2, <1>6, PopFacts, h = Pop(r)
<1>8. h \in Slots /\ h # t /\ h # IDLE
  BY <1>4, <1>5, <1>7
<1>9. /\ state' \in [Slots -> States] /\ state'[t] = "Ready"
      /\ \A u \in Slots : u # t => state'[u] = IF u \in D THEN "Ready" ELSE state[u]
  BY <1>2, <1>3 DEF Woken, States
<1>10. state'[h] = "Ready"
  BY <1>5, <1>7, <1>8, <1>9
<1>11. Types'
  BY <1>1, <1>2, <1>3, <1>9 DEF Types, Places
<1>12. SwitchShape'
  BY <1>1, <1>2, <1>8, <1>9, <1>10 DEF SwitchShape
<1>13. OnlyCurrent'
  BY <1>1, <1>2, <1>3, <1>4, <1>9, SlotFacts DEF OnlyCurrent
<1>14. Heir' = h
  BY <1>2 DEF Heir
<1>15. Contenders(state', h) = ((S \cup D) \ {h}) \cup ({t} \ {IDLE})
  BY <1>3, <1>4, <1>5, <1>8, <1>9, SlotFacts DEF Contenders
<1>16. Holds(ready', priority, ((S \cup D) \ {h}) \cup ({t} \ {IDLE}))
  <2>1. CASE t = IDLE
    <3>1. ready' = QT!Taken(r) /\ ((S \cup D) \ {h}) \cup ({t} \ {IDLE}) = (S \cup D) \ {h}
      BY <1>2, <2>1 DEF MakeReady
    <3> QED  BY <1>7, <3>1
  <2>2. CASE t # IDLE
    <3>1. /\ ready' = QT!Arrive(QT!Taken(r), t, priority[t])
          /\ ((S \cup D) \ {h}) \cup ({t} \ {IDLE}) = ((S \cup D) \ {h}) \cup {t}
      BY <1>2, <2>2 DEF MakeReady
    <3>2. t \notin (S \cup D) \ {h} /\ priority[t] \in Levels
      BY <1>3, <1>4, <1>5
    <3>3. Holds(QT!Arrive(QT!Taken(r), t, priority[t]), priority, ((S \cup D) \ {h}) \cup {t})
      BY <1>7, <3>2, ArriveFacts
    <3> QED  BY <3>1, <3>3
  <2> QED  BY <2>1, <2>2
<1>17. IInv'
  BY <1>2, <1>11, <1>12, <1>13, <1>14, <1>15, <1>16 DEF IInv
<1>18. D \subseteq P!Wakeable
  BY <1>1, <1>4, SlotFacts DEF P!Wakeable, Heir
<1>19. h \in P!MostUrgent(S \cup D)
  BY <1>7 DEF P!MostUrgent
<1>20. Live' = Live
  BY <1>1, <1>4, <1>9 DEF Live
<1>21. OnProcessor' = FALSE
  BY <1>1, <1>2, <1>9 DEF OnProcessor
<1>22. Runnable' = ((Runnable \cup D) \ {h}) \cup ({t} \ {IDLE})
  BY <1>1, <1>14, <1>15, RunnableFacts
<1>23. P!Next
  <2>1. ({t} \ {IDLE}) \in SUBSET ({current} \ {IDLE}) /\ locked[current] = FALSE
    BY <1>1, <1>2, <1>3
  <2> QED  BY <1>1, <1>2, <1>4, <1>8, <1>14, <1>18, <1>19, <1>20, <1>21, <1>22, <2>1, GlueGiveUp
<1> QED  BY <1>17, <1>23 DEF Refines

\* The caller leaves in a state s other than Ready or Running: what
\* prepare_switch_away_decision does to the queues and to the invariant.
LEMMA SwitchAwayFacts ==
  ASSUME IInv, NEW t \in Slots, NEW s \in {"Free", "Sleeping", "Blocked"}, SwitchAway(t, s),
         priority' \in [Slots -> Levels],
         \A u \in Slots : u # t => priority'[u] = priority[u]
  PROVE  /\ IInv' /\ Heir' \in Slots /\ Heir' # current /\ t = current
         /\ Heir' \in P!MostUrgent(Runnable) /\ Runnable' = Runnable \ {Heir'}
         /\ OnProcessor /\ OnProcessor' = FALSE /\ locked[current] = FALSE
         /\ UNCHANGED <<current, locked>>
         /\ state' = [state EXCEPT ![t] = s] /\ state \in [Slots -> States]
<1> SUFFICES ASSUME NEW S, S = Contenders(state, NIL), NEW h, h = PopOrIdle(ready)
             PROVE  /\ IInv' /\ Heir' \in Slots /\ Heir' # current /\ t = current
                    /\ Heir' \in P!MostUrgent(Runnable) /\ Runnable' = Runnable \ {Heir'}
                    /\ OnProcessor /\ OnProcessor' = FALSE /\ locked[current] = FALSE
                    /\ UNCHANGED <<current, locked>>
                    /\ state' = [state EXCEPT ![t] = s] /\ state \in [Slots -> States]
  OBVIOUS
<1>1. /\ current = t /\ pc = "run" /\ state[t] = "Running" /\ Heir = NIL
      /\ OnProcessor /\ ~halted /\ Holds(ready, priority, S) /\ Runnable = S
  BY Caller DEF SwitchAway
<1>2. /\ ready' = QT!Taken(ready) /\ target' = h /\ t # IDLE
      /\ state' = [state EXCEPT ![t] = s] /\ pc' = "prepared"
      /\ UNCHANGED <<locked, current, hart, halted>> /\ ~locked[t]
  BY DEF SwitchAway
<1>3. /\ state \in [Slots -> States] /\ priority \in [Slots -> Levels]
      /\ locked \in [Slots -> BOOLEAN]
      /\ (\A u \in Slots : state[u] = "Running" \/ locked[u] => u = t)
      /\ state[IDLE] \in {"Ready", "Running"}
  BY <1>1 DEF IInv, Types, OnlyCurrent
<1>4. S \in SUBSET Slots /\ t \notin S /\ IDLE \notin S /\ \A u \in S : state[u] = "Ready"
  BY <1>1 DEF Contenders
<1>5. h \in P!MostUrgent(S) /\ Holds(ready', priority, S \ {h}) /\ h \in S \cup {IDLE}
  <2>1. CASE Pop(ready) = NIL
    <3>1. h = IDLE /\ S = {} /\ QT!Taken(ready) = ready
      BY <1>1, <2>1, PopFacts DEF PopOrIdle
    <3>2. S \ {h} = S
      BY <3>1
    <3> QED  BY <1>1, <1>2, <3>1, <3>2 DEF P!MostUrgent
  <2>2. CASE Pop(ready) # NIL
    <3>1. h = Pop(ready)
      BY <2>2 DEF PopOrIdle
    <3>2. /\ Pop(ready) \in S /\ (\A u \in S : priority[Pop(ready)] <= priority[u])
          /\ Holds(QT!Taken(ready), priority, S \ {Pop(ready)})
      BY <1>1, <2>2, PopFacts
    <3> QED  BY <1>2, <3>1, <3>2 DEF P!MostUrgent
  <2> QED  BY <2>1, <2>2
<1>6. h \in Slots /\ h # t /\ state[h] = "Ready"
  BY <1>1, <1>2, <1>3, <1>4, <1>5, SlotFacts
<1>7. /\ state' \in [Slots -> States] /\ state'[t] = s
      /\ \A u \in Slots : u # t => state'[u] = state[u]
  BY <1>2, <1>3 DEF States
<1>8. Types'
  BY <1>1, <1>2, <1>3, <1>7 DEF Types, Places
<1>9. SwitchShape'
  BY <1>1, <1>2, <1>6, <1>7 DEF SwitchShape
<1>10. OnlyCurrent'
  BY <1>1, <1>2, <1>3, <1>7, SlotFacts DEF OnlyCurrent
<1>11. Heir' = h
  BY <1>2 DEF Heir
<1>12. Contenders(state', h) = S \ {h}
  BY <1>1, <1>4, <1>7, SlotFacts DEF Contenders
<1>13. Holds(ready', priority', S \ {h})
  <2>1. \A u \in S \ {h} : priority'[u] = priority[u]
    BY <1>4
  <2> QED  BY <1>5, <2>1, HoldsSame
<1>14. IInv'
  BY <1>8, <1>9, <1>10, <1>11, <1>12, <1>13 DEF IInv
<1>15. OnProcessor' = FALSE
  BY <1>1, <1>2, <1>7 DEF OnProcessor
<1>16. Runnable' = Runnable \ {h}
  BY <1>1, <1>11, <1>12, RunnableFacts
<1> QED  BY <1>1, <1>2, <1>3, <1>5, <1>6, <1>11, <1>14, <1>15, <1>16

\* sleep_ms, Semaphore::down and down_timeout, RtosMutex::lock.
LEMMA SleepOrBlockStep ==
  ASSUME IInv, NEW t \in Slots, NEW s \in {"Sleeping", "Blocked"}, SleepOrBlock(t, s)
  PROVE  Refines
<1>1. SwitchAway(t, s) /\ UNCHANGED priority
  BY DEF SleepOrBlock
<1>2. priority' \in [Slots -> Levels] /\ \A u \in Slots : u # t => priority'[u] = priority[u]
  BY <1>1 DEF IInv, Types
<1>3. /\ IInv' /\ Heir' \in Slots /\ Heir' # current /\ t = current
      /\ Heir' \in P!MostUrgent(Runnable) /\ Runnable' = Runnable \ {Heir'}
      /\ OnProcessor /\ OnProcessor' = FALSE /\ locked[current] = FALSE
      /\ UNCHANGED <<current, locked>>
      /\ state' = [state EXCEPT ![t] = s] /\ state \in [Slots -> States]
  BY <1>1, <1>2, SwitchAwayFacts
<1>4. Live' = Live
  BY <1>3 DEF Live, OnProcessor
<1> DEFINE none == {}
<1>5. none \in SUBSET Slots /\ none \subseteq P!Wakeable /\ none \in SUBSET ({current} \ {IDLE})
      /\ Runnable \cup none = Runnable /\ (Runnable \ {Heir'}) \cup none = Runnable \ {Heir'}
  OBVIOUS
<1> HIDE DEF none
<1>6. P!Next
  BY ONLY <1>1, <1>3, <1>4, <1>5, GlueGiveUp
<1> QED  BY <1>3, <1>6 DEF Refines

\* task_exit.
LEMMA ExitStep ==
  ASSUME IInv, NEW t \in Slots, Exit(t)
  PROVE  Refines
<1>1. SwitchAway(t, "Free") /\ priority' = [priority EXCEPT ![t] = Lowest]
  BY DEF Exit
<1>2. priority' \in [Slots -> Levels] /\ \A u \in Slots : u # t => priority'[u] = priority[u]
  BY <1>1, LevelFacts DEF IInv, Types
<1>3. /\ IInv' /\ Heir' \in Slots /\ Heir' # current /\ t = current
      /\ Heir' \in P!MostUrgent(Runnable) /\ Runnable' = Runnable \ {Heir'}
      /\ OnProcessor /\ OnProcessor' = FALSE /\ locked[current] = FALSE
      /\ UNCHANGED <<current, locked>>
      /\ state' = [state EXCEPT ![t] = "Free"] /\ state \in [Slots -> States]
  BY <1>1, <1>2, SwitchAwayFacts
<1>4. Live' = Live \ {current}
  BY <1>3 DEF Live
<1>5. P!Next
  BY <1>1, <1>3, <1>4, LevelFacts, GlueLeave
<1> QED  BY <1>3, <1>5 DEF Refines

\* A step that changes neither the tasks nor the queues nor a decision to switch.
LEMMA QuietStep ==
  ASSUME IInv, UNCHANGED <<state, priority, locked, ready, current, halted>>,
         pc' \in Places, pc' = "prepared" <=> pc = "prepared",
         pc = "prepared" => target' = target
  PROVE  Refines
<1>1. Heir' = Heir
  BY DEF Heir
<1>2. Types'
  BY DEF IInv, Types
<1>3. SwitchShape'
  BY DEF IInv, SwitchShape
<1>4. OnlyCurrent'
  BY DEF IInv, OnlyCurrent
<1>5. IInv'
  BY <1>1, <1>2, <1>3, <1>4 DEF IInv
<1>6. Runnable' = Runnable
  BY <1>1, RunnableFacts
<1>7. Live' = Live /\ (OnProcessor' <=> OnProcessor)
  BY DEF Live, OnProcessor
<1>8. UNCHANGED P!vars
  BY <1>1, <1>6, <1>7, Invisible
<1> QED  BY <1>5, <1>8 DEF Refines

\* idle_entry yields in vain, and waits for an interrupt.
LEMMA IdleLoopStep ==
  ASSUME IInv, FruitlessYield \/ WaitForInterrupt
  PROVE  Refines
<1>1. pc # "prepared" /\ pc' \in Places /\ pc' # "prepared"
  BY DEF FruitlessYield, WaitForInterrupt, Executing, Places
<1> QED  BY <1>1, QuietStep DEF FruitlessYield, WaitForInterrupt

\* The registers follow the switch.
LEMMA ExchangeRegistersStep ==
  ASSUME IInv, ExchangeRegisters
  PROVE  Refines
BY QuietStep DEF ExchangeRegisters, Places

\* A deadline passes.
LEMMA DeadlinePassesStep ==
  ASSUME IInv, NEW t \in Slots, DeadlinePasses(t)
  PROVE  Refines
<1>1. pc' = pc /\ pc \in Places
  BY DEF DeadlinePasses, IInv, Types
<1> QED  BY <1>1, QuietStep DEF DeadlinePasses

\* A blocked task is woken, in thread mode or by an interrupt, also in the gaps
\* of a switch: neither the decision nor the processor is touched.
LEMMA WokenStep ==
  ASSUME IInv, NEW w \in Slots, state[w] = "Blocked",
         state' = [state EXCEPT ![w] = "Ready"], ready' = MakeReady(ready, w),
         UNCHANGED <<priority, locked, current, target, halted>>,
         pc' \in Places, pc' = "prepared" <=> pc = "prepared"
  PROVE  Refines
<1> SUFFICES ASSUME NEW S, S = Contenders(state, Heir)  PROVE Refines
  OBVIOUS
<1>1. /\ state \in [Slots -> States] /\ priority \in [Slots -> Levels]
      /\ state[IDLE] \in {"Ready", "Running"} /\ current \in Slots
      /\ Holds(ready, priority, S) /\ Runnable = S
  BY RunnableFacts DEF IInv, Types, OnlyCurrent
<1>2. /\ state' \in [Slots -> States] /\ state'[w] = "Ready"
      /\ \A u \in Slots : u # w => state'[u] = state[u]
  BY <1>1 DEF States
<1>3. w # IDLE /\ w \notin S /\ S \in SUBSET Slots
  BY <1>1 DEF Contenders
<1>4. Heir' = Heir
  BY DEF Heir
<1>5. w # Heir
  BY SlotFacts DEF IInv, SwitchShape, Heir
<1>6. Contenders(state', Heir) = S \cup {w}
  BY <1>2, <1>3, <1>5 DEF Contenders
<1>7. Holds(ready', priority, S \cup {w})
  <2>1. ready' = QT!Arrive(ready, w, priority[w]) /\ priority[w] \in Levels
    BY <1>1, <1>3 DEF MakeReady
  <2> QED  BY <1>1, <1>3, <2>1, ArriveFacts
<1>8. Types'
  BY <1>2 DEF IInv, Types
<1>9. SwitchShape'
  BY <1>1, <1>2 DEF IInv, SwitchShape
<1>10. OnlyCurrent'
  BY <1>2, <1>3, SlotFacts DEF IInv, OnlyCurrent
<1>11. IInv'
  BY <1>4, <1>6, <1>7, <1>8, <1>9, <1>10 DEF IInv
<1>12. Live' = Live
  BY <1>1, <1>2 DEF Live
<1>13. OnProcessor' <=> OnProcessor
  BY <1>1, <1>2 DEF OnProcessor
<1>14. Runnable' = Runnable \cup {w}
  BY <1>1, <1>4, <1>6, RunnableFacts
<1>15. {w} \subseteq P!Wakeable /\ {w} \in SUBSET Slots
  <2>1. w \in P!Wakeable
    BY <1>3, <1>5 DEF P!Wakeable, Heir
  <2> QED  BY <2>1
<1>16. P!Next
  BY <1>4, <1>12, <1>13, <1>14, <1>15, GlueWake
<1> QED  BY <1>11, <1>16 DEF Refines

\* Semaphore::up, RtosMutex::unlock and cancel_wait in thread mode.
LEMMA WakeStep ==
  ASSUME IInv, NEW t \in Slots, NEW w \in Slots, Wake(t, w)
  PROVE  Refines
<1>1. pc' = pc /\ pc \in Places
  BY DEF Wake, IInv, Types
<1> QED  BY <1>1, WokenStep DEF Wake, WakeUp

\* An interrupt leaves the place of the interrupted code, or ends wfi.
LEMMA AfterInterruptFacts ==
  ASSUME IInv
  PROVE  AfterInterrupt \in Places /\ (AfterInterrupt = "prepared" <=> pc = "prepared")
BY DEF AfterInterrupt, IInv, Types, Places

\* An interrupt whose epilogue does not look for another task.
LEMMA InterruptStep ==
  ASSUME IInv, ~EpilogueSwitches, Interrupt
  PROVE  Refines
<1>1. ~halted /\ halted = FALSE
  BY DEF Interrupt, IInv, Types
<1>2. PICK h \in Handled : Serve(h)
  BY DEF Interrupt
<1>3. ~(EpilogueLinked /\ Displaced(h))
  BY <1>1, <1>2 DEF EpilogueSwitches
<1>4. Epilogue(h) = [state |-> h.state, ready |-> h.ready, halted |-> FALSE]
  BY <1>3 DEF Epilogue
<1>5. /\ state' = h.state /\ ready' = h.ready /\ halted' = FALSE
      /\ pc' = AfterInterrupt /\ UNCHANGED <<priority, locked, current, hart, target>>
  BY <1>2, <1>4 DEF Serve
<1>6. pc' \in Places /\ (pc' = "prepared" <=> pc = "prepared")
  BY <1>5, AfterInterruptFacts
<1>7. CASE h = [state |-> state, ready |-> ready, due |-> due]
  <2>1. state' = state /\ ready' = ready
    BY <1>5, <1>7
  <2> QED  BY <1>1, <1>5, <1>6, <2>1, QuietStep
<1>8. CASE \E w \in Slots : /\ state[w] = "Blocked"
                           /\ h = [state |-> [state EXCEPT ![w] = "Ready"],
                                   ready |-> MakeReady(ready, w),
                                   due |-> [due EXCEPT ![w] = FALSE]]
  <2>1. PICK w \in Slots : /\ state[w] = "Blocked"
                           /\ h = [state |-> [state EXCEPT ![w] = "Ready"],
                                   ready |-> MakeReady(ready, w),
                                   due |-> [due EXCEPT ![w] = FALSE]]
    BY <1>8
  <2>2. state' = [state EXCEPT ![w] = "Ready"] /\ ready' = MakeReady(ready, w)
    BY <1>5, <2>1
  <2> QED  BY <1>1, <1>5, <1>6, <2>1, <2>2, WokenStep
<1> QED  BY <1>7, <1>8 DEF Handled

\* execute_switch gives the processor to the task that was taken.
LEMMA PerformSwitchStep ==
  ASSUME IInv, PerformSwitch
  PROVE  Refines
<1>1. /\ pc = "prepared" /\ state' = [state EXCEPT ![target] = "Running"]
      /\ current' = target /\ pc' = "switched"
      /\ UNCHANGED <<priority, locked, ready, halted>>
  BY DEF PerformSwitch
<1>2. /\ state \in [Slots -> States] /\ priority \in [Slots -> Levels]
      /\ locked \in [Slots -> BOOLEAN] /\ current \in Slots /\ ~halted
      /\ target \in Slots /\ state[target] = "Ready" /\ target # current
      /\ state[current] # "Running"
      /\ (\A u \in Slots : state[u] = "Running" \/ locked[u] => u = current)
      /\ ~locked[current] /\ state[IDLE] \in {"Ready", "Running"}
  BY <1>1 DEF IInv, Types, SwitchShape, OnlyCurrent
<1>3. /\ state' \in [Slots -> States] /\ state'[target] = "Running"
      /\ \A u \in Slots : u # target => state'[u] = state[u]
  BY <1>1, <1>2 DEF States
<1>4. Heir = target /\ Heir' = NIL
  BY <1>1 DEF Heir
<1>5. Contenders(state', NIL) = Contenders(state, target)
  BY <1>2, <1>3, SlotFacts DEF Contenders
<1>6. Types'
  BY <1>1, <1>2, <1>3 DEF Types, Places
<1>7. SwitchShape'
  BY <1>1, <1>3 DEF SwitchShape
<1>8. OnlyCurrent'
  BY <1>1, <1>2, <1>3, SlotFacts DEF OnlyCurrent
<1>9. IInv'
  <2>1. Holds(ready, priority, Contenders(state, target))
    BY <1>4 DEF IInv
  <2> QED  BY <1>1, <1>4, <1>5, <1>6, <1>7, <1>8, <2>1 DEF IInv
<1>10. Live' = Live
  BY <1>2, <1>3 DEF Live
<1>11. OnProcessor' = TRUE
  BY <1>1, <1>3 DEF OnProcessor
<1>12. Runnable' = Runnable
  BY <1>4, <1>5, RunnableFacts
<1>13. locked'[current'] = locked[current]
  BY <1>1, <1>2
<1>14. P!Next
  BY <1>1, <1>2, <1>4, <1>10, <1>11, <1>12, <1>13, SlotFacts, GlueHandOver
<1> QED  BY <1>9, <1>14 DEF Refines

\* lock_scheduler and unlock_scheduler.
LEMMA SetLockStep ==
  ASSUME IInv, NEW t \in Slots, NEW l \in BOOLEAN, SetLock(t, l)
  PROVE  Refines
<1>1. /\ current = t /\ pc = "run" /\ OnProcessor
      /\ UNCHANGED <<state, priority, ready, current, pc, target, halted>>
      /\ locked' = [locked EXCEPT ![t] = l]
  BY Caller DEF SetLock
<1>2. locked \in [Slots -> BOOLEAN] /\ locked' \in [Slots -> BOOLEAN]
      /\ (\A u \in Slots : u # t => locked'[u] = locked[u]) /\ locked'[t] = l
  BY <1>1 DEF IInv, Types
<1>3. Heir' = Heir
  BY <1>1 DEF Heir
<1>4. Types'
  BY <1>1, <1>2 DEF IInv, Types
<1>5. SwitchShape'
  BY <1>1 DEF IInv, SwitchShape
<1>6. OnlyCurrent'
  BY <1>1, <1>2 DEF IInv, OnlyCurrent
<1>7. IInv'
  BY <1>1, <1>3, <1>4, <1>5, <1>6 DEF IInv
<1>8. Runnable' = Runnable
  BY <1>1, <1>3, RunnableFacts
<1>9. Live' = Live /\ OnProcessor' = TRUE /\ locked'[current'] \in BOOLEAN
  BY <1>1, <1>2 DEF Live, OnProcessor
<1>10. P!Next
  BY <1>1, <1>3, <1>8, <1>9, GlueLock
<1> QED  BY <1>7, <1>10 DEF Refines

\* spawn.
LEMMA SpawnStep ==
  ASSUME IInv, NEW t \in Slots, NEW p \in Levels, Spawn(t, p)
  PROVE  Refines
<1> SUFFICES ASSUME NEW S, S = Contenders(state, NIL)  PROVE Refines
  OBVIOUS
<1>1. /\ current = t /\ pc = "run" /\ state[t] = "Running" /\ Heir = NIL
      /\ OnProcessor /\ ~halted /\ Holds(ready, priority, S) /\ Runnable = S
      /\ UNCHANGED <<locked, current, pc, target, halted>>
  BY Caller DEF Spawn
<1>2. PICK s \in Dynamic :
        /\ state[s] = "Free"
        /\ state' = [state EXCEPT ![s] = "Ready"]
        /\ priority' = [priority EXCEPT ![s] = p]
        /\ ready' = QT!Arrive(ready, s, p)
  BY DEF Spawn
<1>3. /\ state \in [Slots -> States] /\ priority \in [Slots -> Levels]
      /\ locked \in [Slots -> BOOLEAN] /\ s \in Slots /\ s # IDLE /\ s # t
      /\ (\A u \in Slots : state[u] = "Running" \/ locked[u] => u = t)
      /\ state[IDLE] \in {"Ready", "Running"} /\ s \notin S /\ S \in SUBSET Slots
  BY <1>1, <1>2, SlotFacts DEF IInv, Types, OnlyCurrent, Contenders
<1>4. /\ state' \in [Slots -> States] /\ state'[s] = "Ready"
      /\ \A u \in Slots : u # s => state'[u] = state[u]
  BY <1>2, <1>3 DEF States
<1>5. /\ priority' \in [Slots -> Levels] /\ priority'[s] = p
      /\ \A u \in S : priority'[u] = priority[u]
  BY <1>2, <1>3
<1>6. Heir' = NIL
  BY <1>1 DEF Heir
<1>7. Contenders(state', NIL) = S \cup {s}
  BY <1>3, <1>4, SlotFacts DEF Contenders
<1>8. Holds(ready', priority', S \cup {s})
  BY <1>1, <1>2, <1>3, <1>5, ArriveFacts
<1>9. Types'
  BY <1>1, <1>4, <1>5 DEF IInv, Types
<1>10. SwitchShape'
  BY <1>1, <1>3, <1>4 DEF SwitchShape
<1>11. OnlyCurrent'
  BY <1>1, <1>3, <1>4, SlotFacts DEF OnlyCurrent
<1>12. IInv'
  BY <1>6, <1>7, <1>8, <1>9, <1>10, <1>11 DEF IInv
<1>13. s \notin Live /\ Live' = Live \cup {s}
  BY <1>2, <1>3, <1>4 DEF Live
<1>14. Runnable' = Runnable \cup {s}
  BY <1>1, <1>6, <1>7, RunnableFacts
<1>15. OnProcessor' = TRUE /\ Heir' = Heir
  BY <1>1, <1>3, <1>4, <1>6 DEF OnProcessor
<1>16. P!Next
  BY <1>1, <1>2, <1>3, <1>13, <1>14, <1>15, GlueSpawn
<1> QED  BY <1>12, <1>16 DEF Refines

\* set_effective_priority, also of the task that a switch has chosen.
LEMMA SetEffectivePriorityStep ==
  ASSUME IInv, NEW t \in Slots, NEW p \in Levels, SetEffectivePriority(t, p)
  PROVE  Refines
<1> SUFFICES ASSUME NEW S, S = Contenders(state, Heir)  PROVE Refines
  OBVIOUS
<1>1. /\ state[t] # "Free" /\ priority' = [priority EXCEPT ![t] = p]
      /\ ready' = (IF t \in QT!Members(ready, priority[t])
                   THEN QT!Arrive(QT!Depart(ready, priority[t], t), t, p) ELSE ready)
      /\ pc' = AfterInterrupt /\ UNCHANGED <<state, locked, current, target, halted>>
  BY DEF SetEffectivePriority
<1>2. /\ priority \in [Slots -> Levels] /\ Holds(ready, priority, S) /\ S \in SUBSET Slots
      /\ Runnable = S
  BY RunnableFacts DEF IInv, Types, Contenders
<1>3. /\ priority' \in [Slots -> Levels] /\ priority'[t] = p
      /\ \A u \in Slots : u # t => priority'[u] = priority[u]
  BY <1>1, <1>2
<1>4. t \in QT!Members(ready, priority[t]) <=> t \in S
  <2>1. t \in QT!Members(ready, priority[t]) <=> In(ready[priority[t]], t)
    BY DEF QT!Members, In
  <2>2. priority[t] \in Levels
    BY <1>2
  <2>3. In(ready[priority[t]], t) <=> t \in S
    BY <1>2, <2>2 DEF Holds
  <2> QED  BY <2>1, <2>3
<1>5. Holds(ready', priority', S)
  <2>1. CASE t \in S
    <3>1. ready' = QT!Arrive(QT!Depart(ready, priority[t], t), t, p)
      BY <1>1, <1>4, <2>1
    <3>2. Holds(QT!Depart(ready, priority[t], t), priority, S \ {t})
      BY <1>2, <2>1, DepartFacts
    <3>3. \A u \in S \ {t} : priority'[u] = priority[u]
      BY <1>2, <1>3
    <3>4. t \notin S \ {t} /\ (S \ {t}) \cup {t} = S
      BY <2>1
    <3>5. Holds(ready', priority', (S \ {t}) \cup {t})
      BY <1>3, <3>1, <3>2, <3>3, <3>4, ArriveFacts
    <3> QED  BY <3>4, <3>5
  <2>2. CASE t \notin S
    <3>1. ready' = ready /\ \A u \in S : priority'[u] = priority[u]
      BY <1>1, <1>2, <1>3, <1>4, <2>2
    <3> QED  BY <1>2, <3>1, HoldsSame
  <2> QED  BY <2>1, <2>2
<1>0. pc' \in Places /\ (pc' = "prepared" <=> pc = "prepared")
  BY <1>1, AfterInterruptFacts
<1>6. Heir' = Heir
  BY <1>0, <1>1 DEF Heir
<1>7. Types'
  BY <1>0, <1>1, <1>3 DEF IInv, Types
<1>8. SwitchShape'
  BY <1>0, <1>1 DEF IInv, SwitchShape
<1>9. OnlyCurrent'
  BY <1>0, <1>1 DEF IInv, OnlyCurrent
<1>10. IInv'
  BY <1>1, <1>5, <1>6, <1>7, <1>8, <1>9 DEF IInv
<1>11. Runnable' = Runnable
  BY <1>1, <1>6, RunnableFacts
<1>12. Live' = Live /\ (OnProcessor' <=> OnProcessor) /\ t \in Live
  BY <1>1 DEF Live, OnProcessor
<1>13. P!Next
  BY <1>1, <1>6, <1>11, <1>12, GlueReconfigure
<1> QED  BY <1>10, <1>13 DEF Refines

-----------------------------------------------------------------------------

\* start_cooperative leaves the processor to the main task.
LEMMA InitRefines == Init => P!Init
<1> SUFFICES ASSUME Init  PROVE P!Init
  OBVIOUS
<1>1. /\ current = MAIN /\ pc = "run" /\ locked[current] = FALSE /\ state[current] = "Running"
      /\ priority \in [Slots -> Levels]
      /\ state = [t \in Slots |->
                   IF t = MAIN THEN "Running" ELSE IF t = IDLE THEN "Ready" ELSE "Free"]
  BY SlotFacts, LevelFacts DEF Init
<1>2. Live = {MAIN, IDLE} /\ Runnable = {} /\ Heir = NIL /\ OnProcessor = TRUE
  BY <1>1, SlotFacts DEF Live, Runnable, Heir, OnProcessor
<1>3. MAIN \in Slots \ {IDLE}
  BY SlotFacts
<1> QED  BY <1>1, <1>2, <1>3, Zenon DEF P!Init, Live, Runnable, Heir, OnProcessor

\* Every step.
LEMMA StepRefines ==
  ASSUME IInv, [Next]_vars, [~EpilogueSwitches]_vars
  PROVE  Refines
<1>1. CASE UNCHANGED vars
  <2>1. pc \in Places
    BY DEF IInv, Types
  <2> QED  BY <1>1, <2>1, QuietStep DEF vars
<1>2. CASE Next /\ ~EpilogueSwitches
  <2>1. ASSUME NEW t \in Slots, Thread(t)  PROVE Refines
    BY <2>1, YieldStep, ExitStep, SleepOrBlockStep, SpawnStep, WakeStep, SetLockStep DEF Thread
  <2>2. ASSUME NEW t \in Slots, DeadlinePasses(t)  PROVE Refines
    BY <2>2, DeadlinePassesStep
  <2>3. ASSUME NEW t \in Slots \ {IDLE}, NEW p \in Levels, SetEffectivePriority(t, p)
        PROVE  Refines
    BY <2>3, SetEffectivePriorityStep
  <2>4. CASE \/ FruitlessYield \/ WaitForInterrupt \/ PerformSwitch \/ ExchangeRegisters
               \/ Interrupt
    BY <1>2, <2>4, IdleLoopStep, PerformSwitchStep, ExchangeRegistersStep, InterruptStep
  <2> QED  BY <1>2, <2>1, <2>2, <2>3, <2>4 DEF Next
<1> QED  BY <1>1, <1>2

\* The port-less profile keeps the promise of module Processor: yield_now, the
\* calls that sleep, block or exit, the wakes of tasks and of interrupt handlers,
\* and execute_switch with the two gaps around its second critical section are
\* steps of one processor whose successor is chosen once, by priority, and then
\* runs.  Interrupts may come at any time and their epilogue may run; only that it
\* finds the interrupted task displaced and looks for another one is excluded, for
\* then it may stop the firmware (PortlessTrap.cfg).
THEOREM PortlessRefinement ==
  Spec /\ [][~EpilogueSwitches]_vars => ImplementsProcessor
<1>1. Init => IInv
  BY InitInv
<1>2. Init => P!Init
  BY InitRefines
<1>3. IInv /\ [Next]_vars /\ [~EpilogueSwitches]_vars => IInv'
  BY StepRefines DEF Refines
<1>4. IInv /\ [Next]_vars /\ [~EpilogueSwitches]_vars => [P!Next]_P!vars
  BY StepRefines DEF Refines
<1> QED  BY <1>1, <1>2, <1>3, <1>4, PTL DEF Spec, ImplementsProcessor, P!Spec
=============================================================================
