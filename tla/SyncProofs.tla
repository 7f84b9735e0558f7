----------------------------- MODULE SyncProofs -----------------------------
(***************************************************************************)
(* Proofs about Sync: wait queues, permits, mutex ownership and priority   *)
(* inheritance, for any number of tasks, resources and priorities.         *)
(*                                                                         *)
(* The helpers of Sync are functions on a kernel record k, and so are most *)
(* lemmas: j is the record after an operation.  KInv is what every         *)
(* operation keeps; Exact says that donations are counted exactly.  The    *)
(* last sections lift both to states and actions.                          *)
(***************************************************************************)
EXTENDS Sync, CommonLemmas

-----------------------------------------------------------------------------
(* The recursions.  Each is a recursive function on an interval. *)

\* The task table is finite, and NIL is no slot of it.
LEMMA TaskFacts ==
  /\ IsFiniteSet(Tasks) /\ TaskSlotCount \in Nat /\ Cardinality(Tasks) \in Nat
  /\ TaskSlotCount = Cardinality(Tasks) + 1
  /\ NIL \notin Tasks /\ MAIN \in Tasks /\ Tasks \in SUBSET Int
BY TasksAssumption, FS_CardinalityType DEF TaskSlotCount, NIL

\* refresh_inherited_priority goes from level to level.
LEMMA RefreshChainDef ==
  ASSUME NEW k, NEW t
  PROVE  /\ RefreshChain(k, t)[0] = [k |-> k, task |-> t]
         /\ \A i \in 1..TaskSlotCount : RefreshChain(k, t)[i] = RefreshStep(RefreshChain(k, t)[i - 1])
<1> DEFINE n == TaskSlotCount
           a == [k |-> k, task |-> t]
           Rec(g, m) == g = [i \in 0..m |-> IF i = 0 THEN a ELSE RefreshStep(g[i - 1])]
           Good == {m \in 0..n : \E g : Rec(g, m)}
<1>0. n \in Nat
  BY TaskFacts
<1> HIDE DEF n, a
<1>1. 0 \in Good
  <2> DEFINE g == [i \in 0..0 |-> a]
  <2>1. Rec(g, 0)
    OBVIOUS
  <2> HIDE DEF Rec
  <2> QED  BY <2>1, <1>0
<1>2. ASSUME NEW m \in 1..n, m - 1 \in Good  PROVE m \in Good
  <2>1. PICK g : Rec(g, m - 1)
    BY <1>2
  <2> DEFINE h == [i \in 0..m |-> IF i = m THEN RefreshStep(g[m - 1]) ELSE g[i]]
  <2>2. ASSUME NEW i \in 0..m  PROVE h[i] = IF i = 0 THEN a ELSE RefreshStep(h[i - 1])
    <3>1. CASE i = m
      BY <3>1, <1>0
    <3>2. CASE i # m
      <4>1. i \in 0..(m - 1) /\ (i # 0 => i - 1 \in 0..m /\ i - 1 # m)
        BY <3>2, <1>0
      <4>2. h[i] = g[i] /\ (i # 0 => h[i - 1] = g[i - 1])
        BY <4>1, <3>2
      <4>3. g[i] = IF i = 0 THEN a ELSE RefreshStep(g[i - 1])
        BY <4>1, <2>1
      <4> QED  BY <4>2, <4>3
    <3> QED  BY <3>1, <3>2
  <2>3. Rec(h, m)
    BY <2>2
  <2> HIDE DEF Rec, h
  <2> QED  BY <2>3
<1>3. n \in Good
  <2> HIDE DEF Good
  <2>1. \A i \in 1..n : i - 1 \in Good => i \in Good
    BY <1>2
  <2>2. \A i \in 0..n : i \in Good
    BY <1>0, <1>1, <2>1, Induction
  <2> QED  BY <1>0, <2>2
<1>4. \E g : Rec(g, n)
  BY <1>3
<1>5. RefreshChain(k, t) = CHOOSE g : Rec(g, n)
  BY DEF RefreshChain, n, a
<1>6. Rec(RefreshChain(k, t), n)
  <2> HIDE DEF Rec
  <2> QED  BY <1>4, <1>5
<1> QED  BY <1>0, <1>6 DEF n, a

\* The owner that the mutex which u waits for has.
Follow(u) == IF tcb[u].waiting \in Mutexes THEN owner[tcb[u].waiting] ELSE NIL

\* The donations to the old owner are withdrawn one after the other.
LEMMA WithdrawAllDef ==
  ASSUME NEW k, NEW o, NEW S, NEW us \in Seq(S)
  PROVE  \E f : /\ f[0] = k
                /\ \A i \in 1..Len(us) : f[i] = Withdraw(f[i - 1], o, us[i])
              /\ WithdrawAll(k, o, us) = f[Len(us)]
<1> DEFINE n == Len(us)
           Rec(g, m) == g = [i \in 0..m |-> IF i = 0 THEN k ELSE Withdraw(g[i - 1], o, us[i])]
           Good == {m \in 0..n : \E g : Rec(g, m)}
<1>0. n \in Nat
  OBVIOUS
<1> HIDE DEF n
<1>1. 0 \in Good
  <2> DEFINE g == [i \in 0..0 |-> k]
  <2>1. Rec(g, 0)
    OBVIOUS
  <2> HIDE DEF Rec
  <2> QED  BY <2>1, <1>0
<1>2. ASSUME NEW m \in 1..n, m - 1 \in Good  PROVE m \in Good
  <2>1. PICK g : Rec(g, m - 1)
    BY <1>2
  <2> DEFINE h == [i \in 0..m |-> IF i = m THEN Withdraw(g[m - 1], o, us[m]) ELSE g[i]]
  <2>2. ASSUME NEW i \in 0..m  PROVE h[i] = IF i = 0 THEN k ELSE Withdraw(h[i - 1], o, us[i])
    <3>1. CASE i = m
      BY <3>1, <1>0
    <3>2. CASE i # m
      <4>1. i \in 0..(m - 1) /\ (i # 0 => i - 1 \in 0..m /\ i - 1 # m)
        BY <3>2, <1>0
      <4>2. h[i] = g[i] /\ (i # 0 => h[i - 1] = g[i - 1])
        BY <4>1, <3>2
      <4>3. g[i] = IF i = 0 THEN k ELSE Withdraw(g[i - 1], o, us[i])
        BY <4>1, <2>1
      <4> QED  BY <4>2, <4>3
    <3> QED  BY <3>1, <3>2
  <2>3. Rec(h, m)
    BY <2>2
  <2> HIDE DEF Rec, h
  <2> QED  BY <2>3
<1>3. n \in Good
  <2> HIDE DEF Good
  <2>1. \A i \in 1..n : i - 1 \in Good => i \in Good
    BY <1>2
  <2>2. \A i \in 0..n : i \in Good
    BY <1>0, <1>1, <2>1, Induction
  <2> QED  BY <1>0, <2>2
<1> DEFINE f == CHOOSE g : Rec(g, n)
<1>4. Rec(f, n)
  <2>1. \E g : Rec(g, n)
    BY <1>3
  <2> HIDE DEF Rec
  <2> QED  BY <2>1
<1>5. WithdrawAll(k, o, us) = f[Len(us)]
  BY DEF WithdrawAll, n
<1> HIDE DEF f
<1>6. f[0] = k /\ \A i \in 1..n : f[i] = Withdraw(f[i - 1], o, us[i])
  BY <1>0, <1>4
<1> QED  BY <1>5, <1>6 DEF n

\* The waiters left behind donate to the new owner one after the other.
LEMMA ContributeAllDef ==
  ASSUME NEW k, NEW o, NEW S, NEW us \in Seq(S)
  PROVE  \E f : /\ f[0] = k
                /\ \A i \in 1..Len(us) : f[i] = Contribute(f[i - 1], o, us[i])
              /\ ContributeAll(k, o, us) = f[Len(us)]
<1> DEFINE n == Len(us)
           Rec(g, m) == g = [i \in 0..m |-> IF i = 0 THEN k ELSE Contribute(g[i - 1], o, us[i])]
           Good == {m \in 0..n : \E g : Rec(g, m)}
<1>0. n \in Nat
  OBVIOUS
<1> HIDE DEF n
<1>1. 0 \in Good
  <2> DEFINE g == [i \in 0..0 |-> k]
  <2>1. Rec(g, 0)
    OBVIOUS
  <2> HIDE DEF Rec
  <2> QED  BY <2>1, <1>0
<1>2. ASSUME NEW m \in 1..n, m - 1 \in Good  PROVE m \in Good
  <2>1. PICK g : Rec(g, m - 1)
    BY <1>2
  <2> DEFINE h == [i \in 0..m |-> IF i = m THEN Contribute(g[m - 1], o, us[m]) ELSE g[i]]
  <2>2. ASSUME NEW i \in 0..m  PROVE h[i] = IF i = 0 THEN k ELSE Contribute(h[i - 1], o, us[i])
    <3>1. CASE i = m
      BY <3>1, <1>0
    <3>2. CASE i # m
      <4>1. i \in 0..(m - 1) /\ (i # 0 => i - 1 \in 0..m /\ i - 1 # m)
        BY <3>2, <1>0
      <4>2. h[i] = g[i] /\ (i # 0 => h[i - 1] = g[i - 1])
        BY <4>1, <3>2
      <4>3. g[i] = IF i = 0 THEN k ELSE Contribute(g[i - 1], o, us[i])
        BY <4>1, <2>1
      <4> QED  BY <4>2, <4>3
    <3> QED  BY <3>1, <3>2
  <2>3. Rec(h, m)
    BY <2>2
  <2> HIDE DEF Rec, h
  <2> QED  BY <2>3
<1>3. n \in Good
  <2> HIDE DEF Good
  <2>1. \A i \in 1..n : i - 1 \in Good => i \in Good
    BY <1>2
  <2>2. \A i \in 0..n : i \in Good
    BY <1>0, <1>1, <2>1, Induction
  <2> QED  BY <1>0, <2>2
<1> DEFINE f == CHOOSE g : Rec(g, n)
<1>4. Rec(f, n)
  <2>1. \E g : Rec(g, n)
    BY <1>3
  <2> HIDE DEF Rec
  <2> QED  BY <2>1
<1>5. ContributeAll(k, o, us) = f[Len(us)]
  BY DEF ContributeAll, n
<1> HIDE DEF f
<1>6. f[0] = k /\ \A i \in 1..n : f[i] = Contribute(f[i - 1], o, us[i])
  BY <1>0, <1>4
<1> QED  BY <1>5, <1>6 DEF n

\* A timer scan serves the waiters that are due one after the other.
LEMMA LeaveAllDef ==
  ASSUME NEW k, NEW S, NEW ts \in Seq(S)
  PROVE  \E f : /\ f[0] = k
                /\ \A i \in 1..Len(ts) : f[i] = LeaveQueue(f[i - 1], ts[i])
              /\ LeaveAll(k, ts) = f[Len(ts)]
<1> DEFINE n == Len(ts)
           Rec(g, m) == g = [i \in 0..m |-> IF i = 0 THEN k ELSE LeaveQueue(g[i - 1], ts[i])]
           Good == {m \in 0..n : \E g : Rec(g, m)}
<1>0. n \in Nat
  OBVIOUS
<1> HIDE DEF n
<1>1. 0 \in Good
  <2> DEFINE g == [i \in 0..0 |-> k]
  <2>1. Rec(g, 0)
    OBVIOUS
  <2> HIDE DEF Rec
  <2> QED  BY <2>1, <1>0
<1>2. ASSUME NEW m \in 1..n, m - 1 \in Good  PROVE m \in Good
  <2>1. PICK g : Rec(g, m - 1)
    BY <1>2
  <2> DEFINE h == [i \in 0..m |-> IF i = m THEN LeaveQueue(g[m - 1], ts[m]) ELSE g[i]]
  <2>2. ASSUME NEW i \in 0..m  PROVE h[i] = IF i = 0 THEN k ELSE LeaveQueue(h[i - 1], ts[i])
    <3>1. CASE i = m
      BY <3>1, <1>0
    <3>2. CASE i # m
      <4>1. i \in 0..(m - 1) /\ (i # 0 => i - 1 \in 0..m /\ i - 1 # m)
        BY <3>2, <1>0
      <4>2. h[i] = g[i] /\ (i # 0 => h[i - 1] = g[i - 1])
        BY <4>1, <3>2
      <4>3. g[i] = IF i = 0 THEN k ELSE LeaveQueue(g[i - 1], ts[i])
        BY <4>1, <2>1
      <4> QED  BY <4>2, <4>3
    <3> QED  BY <3>1, <3>2
  <2>3. Rec(h, m)
    BY <2>2
  <2> HIDE DEF Rec, h
  <2> QED  BY <2>3
<1>3. n \in Good
  <2> HIDE DEF Good
  <2>1. \A i \in 1..n : i - 1 \in Good => i \in Good
    BY <1>2
  <2>2. \A i \in 0..n : i \in Good
    BY <1>0, <1>1, <2>1, Induction
  <2> QED  BY <1>0, <2>2
<1> DEFINE f == CHOOSE g : Rec(g, n)
<1>4. Rec(f, n)
  <2>1. \E g : Rec(g, n)
    BY <1>3
  <2> HIDE DEF Rec
  <2> QED  BY <2>1
<1>5. LeaveAll(k, ts) = f[Len(ts)]
  BY DEF LeaveAll, n
<1> HIDE DEF f
<1>6. f[0] = k /\ \A i \in 1..n : f[i] = LeaveQueue(f[i - 1], ts[i])
  BY <1>0, <1>4
<1> QED  BY <1>5, <1>6 DEF n

\* mutex_chain_contains follows the owners until it meets t or the end.
LEMMA OwnerChainDef ==
  ASSUME NEW o, NEW t
  PROVE  \E f : /\ f[0] = o
                /\ \A i \in 1..TaskSlotCount : f[i] = (IF f[i - 1] \in {NIL, t} THEN f[i - 1] ELSE Follow(f[i - 1]))
              /\ MutexChainContains(o, t) = (f[TaskSlotCount] # NIL)
<1> DEFINE n == TaskSlotCount
           Rec(g, m) == g = [i \in 0..m |-> IF i = 0 THEN o ELSE (IF g[i - 1] \in {NIL, t} THEN g[i - 1] ELSE Follow(g[i - 1]))]
           Good == {m \in 0..n : \E g : Rec(g, m)}
<1>0. n \in Nat
  BY TaskFacts
<1> HIDE DEF n
<1>1. 0 \in Good
  <2> DEFINE g == [i \in 0..0 |-> o]
  <2>1. Rec(g, 0)
    OBVIOUS
  <2> HIDE DEF Rec
  <2> QED  BY <2>1, <1>0
<1>2. ASSUME NEW m \in 1..n, m - 1 \in Good  PROVE m \in Good
  <2>1. PICK g : Rec(g, m - 1)
    BY <1>2
  <2> DEFINE h == [i \in 0..m |-> IF i = m THEN (IF g[m - 1] \in {NIL, t} THEN g[m - 1] ELSE Follow(g[m - 1])) ELSE g[i]]
  <2>2. ASSUME NEW i \in 0..m  PROVE h[i] = IF i = 0 THEN o ELSE (IF h[i - 1] \in {NIL, t} THEN h[i - 1] ELSE Follow(h[i - 1]))
    <3>1. CASE i = m
      BY <3>1, <1>0
    <3>2. CASE i # m
      <4>1. i \in 0..(m - 1) /\ (i # 0 => i - 1 \in 0..m /\ i - 1 # m)
        BY <3>2, <1>0
      <4>2. h[i] = g[i] /\ (i # 0 => h[i - 1] = g[i - 1])
        BY <4>1, <3>2
      <4>3. g[i] = IF i = 0 THEN o ELSE (IF g[i - 1] \in {NIL, t} THEN g[i - 1] ELSE Follow(g[i - 1]))
        BY <4>1, <2>1
      <4> QED  BY <4>2, <4>3
    <3> QED  BY <3>1, <3>2
  <2>3. Rec(h, m)
    BY <2>2
  <2> HIDE DEF Rec, h
  <2> QED  BY <2>3
<1>3. n \in Good
  <2> HIDE DEF Good
  <2>1. \A i \in 1..n : i - 1 \in Good => i \in Good
    BY <1>2
  <2>2. \A i \in 0..n : i \in Good
    BY <1>0, <1>1, <2>1, Induction
  <2> QED  BY <1>0, <2>2
<1> DEFINE f == CHOOSE g : Rec(g, n)
<1>4. Rec(f, n)
  <2>1. \E g : Rec(g, n)
    BY <1>3
  <2> HIDE DEF Rec
  <2> QED  BY <2>1
<1>5. MutexChainContains(o, t) = (f[TaskSlotCount] # NIL)
  BY DEF MutexChainContains, Follow, n
<1> HIDE DEF f
<1>6. f[0] = o /\ \A i \in 1..n : f[i] = (IF f[i - 1] \in {NIL, t} THEN f[i - 1] ELSE Follow(f[i - 1]))
  BY <1>0, <1>4
<1> QED  BY <1>5, <1>6 DEF n

-----------------------------------------------------------------------------
(* Kernel states, and what the helpers do to them. *)

TcbType ==
  [state : {"Free", "Ready", "Blocked"}, base : Priorities, priority : Priorities,
   inherited : [Priorities -> Nat], waiting : Resources \cup {NONE},
   granted : Resources \cup {NONE}, semGranted : BOOLEAN, timed : BOOLEAN]
KernelType ==
  [tcb : [Tasks -> TcbType], queue : [Resources -> Seq(Tasks)], count : [Sems -> Nat],
   owner : [Mutexes -> Tasks \cup {NIL}], depth : [Mutexes -> Nat], fault : Faults]

-----------------------------------------------------------------------------
(* Wait queues. *)

\* The members of q are in the order of their priorities.
Sorted(tasks, q) ==
  \A i, j \in DOMAIN q : i < j => tasks[q[i]].priority <= tasks[q[j]].priority

\* Unlinking keeps the order of the others.
LEMMA WithoutOrder ==
  ASSUME NEW S, NEW q \in Seq(S), NEW t
  PROVE  \A i, j \in DOMAIN Without(q, t) :
           i < j => \E a, b \in DOMAIN q : a < b /\ q[a] = Without(q, t)[i] /\ q[b] = Without(q, t)[j]
<1>1. CASE ~ \E n \in DOMAIN q : q[n] = t
  BY <1>1 DEF Without
<1>2. CASE \E n \in DOMAIN q : q[n] = t
  <2> DEFINE n == CHOOSE n \in DOMAIN q : q[n] = t
             w == [i \in 1..(Len(q) - 1) |-> IF i < n THEN q[i] ELSE q[i + 1]]
  <2>1. n \in DOMAIN q
    BY <1>2
  <2>2. Without(q, t) = w
    BY <1>2 DEF Without
  <2> HIDE DEF n
  <2>3. Len(q) \in Nat /\ DOMAIN q = 1..Len(q) /\ n \in 1..Len(q)
    BY <2>1
  <2>4. ASSUME NEW i \in DOMAIN w, NEW j \in DOMAIN w, i < j
        PROVE  \E a, b \in DOMAIN q : a < b /\ q[a] = w[i] /\ q[b] = w[j]
    <3> DEFINE a == IF i < n THEN i ELSE i + 1
               b == IF j < n THEN j ELSE j + 1
    <3>1. a \in DOMAIN q /\ b \in DOMAIN q /\ a < b
      BY <2>3, <2>4
    <3>2. w[i] = q[a] /\ w[j] = q[b]
      BY <2>4
    <3> QED  BY <3>1, <3>2
  <2> HIDE DEF w
  <2> QED  BY <2>2, <2>4
<1> QED  BY <1>1, <1>2

\* InsertAt puts t at place n and moves the rest up.
LEMMA InsertAtFacts ==
  ASSUME NEW S, NEW q \in Seq(S), NEW t \in S, NEW n \in 1..(Len(q) + 1)
  PROVE  LET w == InsertAt(q, n, t) IN
         /\ w \in Seq(S) /\ DOMAIN w = 1..(Len(q) + 1)
         /\ \A j \in 1..(Len(q) + 1) : w[j] = IF j < n THEN q[j] ELSE IF j = n THEN t ELSE q[j - 1]
<1> DEFINE a == SubSeq(q, 1, n - 1)
           c == SubSeq(q, n, Len(q))
           b == a \o <<t>>
           w == InsertAt(q, n, t)
<1>0. Len(q) \in Nat /\ n \in Int /\ 1 <= n /\ n <= Len(q) + 1 /\ \A j \in 1..Len(q) : q[j] \in S
  OBVIOUS
<1>1. a \in Seq(S) /\ Len(a) = n - 1 /\ \A j \in 1..(n - 1) : a[j] = q[j]
  BY <1>0
<1>2. c \in Seq(S) /\ Len(c) = Len(q) - n + 1 /\ \A j \in 1..(Len(q) - n + 1) : c[j] = q[n + j - 1]
  BY <1>0
<1> HIDE DEF a, c
<1>3. b \in Seq(S) /\ Len(b) = n /\ b[n] = t /\ \A j \in 1..(n - 1) : b[j] = q[j]
  BY <1>0, <1>1
<1> HIDE DEF b
<1>4. w = b \o c
  BY DEF InsertAt, a, b, c
<1> HIDE DEF w
<1>5. w \in Seq(S) /\ Len(w) = Len(q) + 1
  <2>1. b \o c \in Seq(S) /\ Len(b \o c) = Len(b) + Len(c)
    BY <1>2, <1>3, ConcatProperties
  <2> QED  BY <2>1, <1>0, <1>2, <1>3, <1>4
<1>6. ASSUME NEW j \in 1..(Len(q) + 1)
      PROVE  w[j] = IF j < n THEN q[j] ELSE IF j = n THEN t ELSE q[j - 1]
  <2>1. CASE j <= n
    BY <2>1, <1>0, <1>2, <1>3, <1>4
  <2>2. CASE j > n
    <3>1. j - n \in 1..(Len(q) - n + 1) /\ n + (j - n) - 1 = j - 1
      BY <2>2, <1>0
    <3>2. (b \o c)[j] = c[j - n]
      BY <2>2, <1>0, <1>2, <1>3, <3>1
    <3>3. c[j - n] = q[j - 1]
      BY <3>1, <1>2
    <3>4. ~(j < n) /\ j # n
      BY <2>2, <1>0
    <3> QED  BY <3>2, <3>3, <3>4, <1>4
  <2>3. j \in Int /\ n \in Int
    BY <1>0
  <2>4. j <= n \/ j > n
    BY <2>3
  <2> QED  BY <2>1, <2>2, <2>4
<1>7. DOMAIN w = 1..(Len(q) + 1)
  BY <1>5
<1> QED  BY <1>5, <1>6, <1>7 DEF w

\* The place that enqueue_waiter chooses: behind every waiter that is at least
\* as urgent as t, if the queue was in order.
EnqueuePlace(k, q, t) ==
  LET greater == {i \in DOMAIN q : k.tcb[q[i]].priority > k.tcb[t].priority}
  IN  IF greater = {} THEN Len(q) + 1
      ELSE CHOOSE i \in greater : \A j \in greater : i <= j

\* Before it nobody is less urgent, at it nobody is more urgent.
LEMMA EnqueuePlaceFacts ==
  ASSUME NEW k \in KernelType, NEW q \in Seq(Tasks), NEW t \in Tasks
  PROVE  LET n == EnqueuePlace(k, q, t) IN
         /\ n \in 1..(Len(q) + 1)
         /\ \A i \in 1..Len(q) : i < n => k.tcb[q[i]].priority <= k.tcb[t].priority
         /\ n \in 1..Len(q) => k.tcb[t].priority <= k.tcb[q[n]].priority
<1> DEFINE greater == {i \in DOMAIN q : k.tcb[q[i]].priority > k.tcb[t].priority}
           n == EnqueuePlace(k, q, t)
<1>1. Len(q) \in Nat /\ DOMAIN q = 1..Len(q) /\ \A i \in 1..Len(q) : q[i] \in Tasks
  OBVIOUS
<1>2. \A u \in Tasks : k.tcb[u].priority \in Int
  BY DEF KernelType, TcbType, Priorities
<1>3. CASE greater = {}
  <2>1. n = Len(q) + 1
    BY <1>3 DEF EnqueuePlace
  <2>2. ASSUME NEW i \in 1..Len(q)  PROVE k.tcb[q[i]].priority <= k.tcb[t].priority
    <3>1. ~(k.tcb[q[i]].priority > k.tcb[t].priority)
      BY <1>3, <1>1
    <3> QED  BY <3>1, <1>1, <1>2
  <2> QED  BY <2>1, <2>2, <1>1
<1>4. CASE greater # {}
  <2>1. greater \in SUBSET Nat
    BY <1>1
  <2>2. \E i \in greater : \A j \in greater : i <= j
    BY <1>4, <2>1, NatMin
  <2>3. n = CHOOSE i \in greater : \A j \in greater : i <= j
    BY <1>4 DEF EnqueuePlace
  <2>4. n \in greater /\ \A j \in greater : n <= j
    BY <2>2, <2>3
  <2> HIDE DEF n
  <2>5. n \in 1..Len(q) /\ k.tcb[q[n]].priority > k.tcb[t].priority
    BY <2>4, <1>1
  <2>6. ASSUME NEW i \in 1..Len(q), i < n  PROVE k.tcb[q[i]].priority <= k.tcb[t].priority
    <3>1. i \notin greater
      BY <2>4, <2>5, <2>6
    <3>2. ~(k.tcb[q[i]].priority > k.tcb[t].priority)
      BY <3>1, <1>1
    <3> QED  BY <3>2, <1>1, <1>2
  <2>7. k.tcb[t].priority <= k.tcb[q[n]].priority
    BY <2>5, <1>1, <1>2
  <2> QED  BY <2>5, <2>6, <2>7, <1>1 DEF n
<1> QED  BY <1>3, <1>4

\* enqueue_waiter links t once, in the order of the priorities.
LEMMA EnqueueFacts ==
  ASSUME NEW k \in KernelType, NEW r \in Resources, NEW t \in Tasks
  PROVE  \E w \in Seq(Tasks) :
           /\ EnqueueWaiter(k, r, t) = [k EXCEPT !.queue = [k.queue EXCEPT ![r] = w]]
           /\ \A u : In(w, u) <=> In(k.queue[r], u) \/ u = t
           /\ Distinct(k.queue[r]) /\ ~In(k.queue[r], t) => Distinct(w)
           /\ Sorted(k.tcb, k.queue[r]) => Sorted(k.tcb, w)
<1> DEFINE q == k.queue[r]
           n == EnqueuePlace(k, q, t)
           w == InsertAt(q, n, t)
<1>0. q \in Seq(Tasks) /\ k.queue \in [Resources -> Seq(Tasks)]
  BY DEF KernelType
<1>1. /\ n \in 1..(Len(q) + 1)
      /\ \A i \in 1..Len(q) : i < n => k.tcb[q[i]].priority <= k.tcb[t].priority
      /\ n \in 1..Len(q) => k.tcb[t].priority <= k.tcb[q[n]].priority
  BY <1>0, EnqueuePlaceFacts
<1>2. EnqueueWaiter(k, r, t) = [k EXCEPT !.queue = [k.queue EXCEPT ![r] = w]]
  BY <1>0 DEF EnqueueWaiter, EnqueuePlace, KernelType
<1> HIDE DEF n, q
<1>3. /\ w \in Seq(Tasks) /\ DOMAIN w = 1..(Len(q) + 1)
      /\ \A j \in 1..(Len(q) + 1) : w[j] = IF j < n THEN q[j] ELSE IF j = n THEN t ELSE q[j - 1]
  BY <1>0, <1>1, InsertAtFacts
<1> HIDE DEF w
<1>4. Len(q) \in Nat /\ DOMAIN q = 1..Len(q) /\ \A i \in 1..Len(q) : q[i] \in Tasks
  BY <1>0
<1>5. ASSUME NEW u  PROVE In(w, u) <=> In(q, u) \/ u = t
  <2>1. ASSUME In(w, u)  PROVE In(q, u) \/ u = t
    <3>1. PICK j \in 1..(Len(q) + 1) : w[j] = u
      BY <2>1, <1>3 DEF In
    <3>2. CASE j < n
      BY <3>1, <3>2, <1>1, <1>3, <1>4 DEF In
    <3>3. CASE j = n
      BY <3>1, <3>3, <1>3
    <3>4. CASE j > n
      <4>1. j - 1 \in 1..Len(q) /\ w[j] = q[j - 1]
        BY <3>4, <1>1, <1>3, <1>4
      <4> QED  BY <3>1, <4>1, <1>4 DEF In
    <3> QED  BY <3>2, <3>3, <3>4, <1>1, <1>4
  <2>2. u = t => In(w, u)
    BY <1>1, <1>3, <1>4 DEF In
  <2>3. ASSUME In(q, u)  PROVE In(w, u)
    <3>1. PICK j \in 1..Len(q) : q[j] = u
      BY <2>3, <1>4 DEF In
    <3>2. CASE j < n
      <4>1. j \in 1..(Len(q) + 1) /\ w[j] = u
        BY <3>1, <3>2, <1>1, <1>3, <1>4
      <4> QED  BY <4>1, <1>3 DEF In
    <3>3. CASE ~(j < n)
      <4>1. j + 1 \in 1..(Len(q) + 1) /\ ~(j + 1 < n) /\ j + 1 # n /\ (j + 1) - 1 = j
        BY <3>3, <1>1, <1>4
      <4>2. w[j + 1] = u
        BY <3>1, <4>1, <1>3
      <4> QED  BY <4>1, <4>2, <1>3 DEF In
    <3> QED  BY <3>2, <3>3
  <2> QED  BY <2>1, <2>2, <2>3
<1> DEFINE from(j) == IF j < n THEN j ELSE j - 1
<1>6. ASSUME NEW j \in 1..(Len(q) + 1), j # n
      PROVE  from(j) \in 1..Len(q) /\ w[j] = q[from(j)]
  BY <1>6, <1>1, <1>3, <1>4
<1>7. w[n] = t
  BY <1>1, <1>3
<1>8. ASSUME Distinct(q), ~In(q, t)  PROVE Distinct(w)
  <2>1. ASSUME NEW i \in 1..(Len(q) + 1), NEW j \in 1..(Len(q) + 1), w[i] = w[j]
        PROVE  i = j
    <3>1. CASE i # n /\ j # n
      <4>1. from(i) = from(j)
        BY <1>4, <1>6, <1>8, <2>1, <3>1 DEF Distinct
      <4> QED  BY <4>1, <3>1, <1>1, <1>4
    <3>2. CASE i = n /\ j # n
      BY <1>4, <1>6, <1>7, <1>8, <2>1, <3>2 DEF In
    <3>3. CASE i # n /\ j = n
      BY <1>4, <1>6, <1>7, <1>8, <2>1, <3>3 DEF In
    <3> QED  BY <3>1, <3>2, <3>3
  <2> QED  BY <2>1, <1>3 DEF Distinct
<1>9. ASSUME Sorted(k.tcb, q)  PROVE Sorted(k.tcb, w)
  <2> DEFINE pr(u) == k.tcb[u].priority
  <2>0. \A u \in Tasks : pr(u) \in Int
    BY DEF KernelType, TcbType, Priorities
  <2>1. \A i, j \in 1..Len(q) : i < j => pr(q[i]) <= pr(q[j])
    BY <1>9, <1>4 DEF Sorted
  <2>2. \A i \in 1..Len(q) : i < n => pr(q[i]) <= pr(t)
    BY <1>1
  <2>3. \A i \in 1..Len(q) : n <= i => pr(t) <= pr(q[i])
    <3> SUFFICES ASSUME NEW i \in 1..Len(q), n <= i  PROVE pr(t) <= pr(q[i])
      OBVIOUS
    <3>1. n \in 1..Len(q) /\ pr(t) <= pr(q[n])
      BY <1>1, <1>4
    <3>2. pr(q[n]) <= pr(q[i])
      <4>1. CASE n = i
        BY <4>1, <2>0, <1>4
      <4>2. CASE n < i
        BY <4>2, <2>1, <3>1
      <4> QED  BY <4>1, <4>2, <3>1
    <3>3. pr(t) \in Int /\ pr(q[n]) \in Int /\ pr(q[i]) \in Int
      BY <2>0, <3>1, <1>4
    <3> HIDE DEF pr
    <3> QED  BY <3>1, <3>2, <3>3
  <2> HIDE DEF pr
  <2>4. ASSUME NEW i \in 1..(Len(q) + 1), NEW j \in 1..(Len(q) + 1), i < j
        PROVE  pr(w[i]) <= pr(w[j])
    <3>1. CASE i # n /\ j # n
      <4>1. from(i) < from(j)
        BY <2>4, <3>1, <1>1, <1>4
      <4> HIDE DEF from
      <4> QED  BY <4>1, <2>1, <1>6, <3>1
    <3>2. CASE i = n
      <4>1. j # n /\ n <= from(j)
        BY <2>4, <3>2, <1>1, <1>4
      <4> HIDE DEF from
      <4> QED  BY <4>1, <2>3, <1>6, <1>7, <3>2
    <3>3. CASE j = n
      <4>1. i # n /\ from(i) < n
        BY <2>4, <3>3, <1>1, <1>4
      <4> HIDE DEF from
      <4> QED  BY <4>1, <2>2, <1>6, <1>7, <3>3
    <3> QED  BY <3>1, <3>2, <3>3
  <2> QED  BY <2>4, <1>3 DEF Sorted, pr
<1> QED  BY <1>2, <1>3, <1>5, <1>8, <1>9 DEF q

-----------------------------------------------------------------------------
(* What inheritance leaves alone. *)

\* Queues hold only tasks that wait for their resource, once and in order.
QueuesOK(k) ==
  \A r \in Resources :
    /\ Distinct(k.queue[r])
    /\ Sorted(k.tcb, k.queue[r])
    /\ \A u : In(k.queue[r], u) => k.tcb[u].waiting = r

\* The owner of the mutex that u waits for.
Succ(k, u) == IF k.tcb[u].waiting \in Mutexes THEN k.owner[k.tcb[u].waiting] ELSE NIL

\* j differs from k at most in priorities, donations and the order of the
\* waiters in a queue.
SameTask(a, b) ==
  /\ b.state = a.state /\ b.base = a.base /\ b.waiting = a.waiting
  /\ b.granted = a.granted /\ b.semGranted = a.semGranted /\ b.timed = a.timed
Same(k, j) ==
  /\ j \in KernelType /\ QueuesOK(j)
  /\ j.count = k.count /\ j.owner = k.owner /\ j.depth = k.depth
  /\ \A u \in Tasks : SameTask(k.tcb[u], j.tcb[u])
  /\ \A r \in Resources : \A u : In(j.queue[r], u) <=> In(k.queue[r], u)

\* Same is reflexive on consistent queues.
LEMMA SameReflexive ==
  ASSUME NEW k \in KernelType, QueuesOK(k)
  PROVE  Same(k, k)
BY DEF Same, SameTask

\* Same is transitive.
LEMMA SameTransitive ==
  ASSUME NEW k, NEW j, NEW l, Same(k, j), Same(j, l)
  PROVE  Same(k, l)
BY DEF Same, SameTask

\* In such kernels a task waits for the same owner.
LEMMA SameSucc ==
  ASSUME NEW k, NEW j, Same(k, j), NEW u \in Tasks
  PROVE  Succ(j, u) = Succ(k, u)
BY DEF Same, SameTask, Succ

\* A member of a queue is a task.
LEMMA QueueMembers ==
  ASSUME NEW k \in KernelType, NEW r \in Resources
  PROVE  /\ k.queue[r] \in Seq(Tasks)
         /\ DOMAIN k.queue[r] = 1..Len(k.queue[r]) /\ Len(k.queue[r]) \in Nat
         /\ \A i \in DOMAIN k.queue[r] : k.queue[r][i] \in Tasks
         /\ \A u : In(k.queue[r], u) => u \in Tasks
<1>1. k.queue[r] \in Seq(Tasks)
  BY DEF KernelType
<1> QED  BY <1>1 DEF In

\* Queues only depend on the priorities and the waits of the tasks.
LEMMA QueuesKept ==
  ASSUME NEW k \in KernelType, NEW j \in KernelType, QueuesOK(k), j.queue = k.queue,
         \A u \in Tasks : /\ j.tcb[u].priority = k.tcb[u].priority
                          /\ j.tcb[u].waiting = k.tcb[u].waiting
  PROVE  QueuesOK(j)
<1> SUFFICES ASSUME NEW r \in Resources
             PROVE  /\ Distinct(j.queue[r])
                    /\ Sorted(j.tcb, j.queue[r])
                    /\ \A u : In(j.queue[r], u) => j.tcb[u].waiting = r
  BY DEF QueuesOK
<1>1. /\ Distinct(k.queue[r]) /\ Sorted(k.tcb, k.queue[r])
      /\ \A u : In(k.queue[r], u) => k.tcb[u].waiting = r
  BY DEF QueuesOK
<1>2. \A i \in DOMAIN k.queue[r] : k.queue[r][i] \in Tasks
  BY QueueMembers
<1>3. \A u : In(k.queue[r], u) => u \in Tasks
  BY QueueMembers
<1>4. Sorted(j.tcb, j.queue[r])
  BY <1>1, <1>2 DEF Sorted
<1> QED  BY <1>1, <1>3, <1>4

\* j is k with another TCB of task t.
Retasked(k, j, t, x) ==
  /\ j \in KernelType
  /\ j.queue = k.queue /\ j.count = k.count /\ j.owner = k.owner
  /\ j.depth = k.depth /\ j.fault = k.fault
  /\ j.tcb[t] = x
  /\ \A u \in Tasks : u # t => j.tcb[u] = k.tcb[u]

\* Replacing the TCB of one task.
LEMMA Retask ==
  ASSUME NEW k \in KernelType, NEW t \in Tasks, NEW x \in TcbType, NEW j,
         j = [k EXCEPT !.tcb[t] = x]
  PROVE  Retasked(k, j, t, x)
BY DEF KernelType, Retasked

\* j is k with t linked into the queue of r, or unlinked from it.
Relinked(k, j, r, linked, t) ==
  /\ j \in KernelType /\ QueuesOK(j)
  /\ j.tcb = k.tcb /\ j.count = k.count /\ j.owner = k.owner
  /\ j.depth = k.depth /\ j.fault = k.fault
  /\ In(j.queue[r], t) = linked
  /\ \A u : u # t => (In(j.queue[r], u) <=> In(k.queue[r], u))
  /\ \A s \in Resources : s # r => j.queue[s] = k.queue[s]

\* Removing t from a queue.
LEMMA RemoveFacts ==
  ASSUME NEW k \in KernelType, NEW r \in Resources, NEW t \in Tasks, QueuesOK(k)
  PROVE  Relinked(k, RemoveWaiter(k, r, t), r, FALSE, t)
<1> DEFINE w == Without(k.queue[r], t)
           j == RemoveWaiter(k, r, t)
<1>1. /\ k.queue[r] \in Seq(Tasks) /\ Distinct(k.queue[r]) /\ Sorted(k.tcb, k.queue[r])
      /\ \A u : In(k.queue[r], u) => k.tcb[u].waiting = r
  BY DEF QueuesOK, KernelType
<1>2. w \in Seq(Tasks) /\ Distinct(w) /\ \A u : In(w, u) <=> In(k.queue[r], u) /\ u # t
  BY <1>1, WithoutFacts
<1>3. Sorted(k.tcb, w)
  <2> DEFINE q == k.queue[r]
  <2> SUFFICES ASSUME NEW i \in DOMAIN w, NEW n \in DOMAIN w, i < n
               PROVE  k.tcb[w[i]].priority <= k.tcb[w[n]].priority
    BY DEF Sorted
  <2>1. q \in Seq(Tasks)
    BY <1>1
  <2>2. \E a, b \in DOMAIN q : a < b /\ q[a] = w[i] /\ q[b] = w[n]
    BY <2>1, WithoutOrder
  <2> HIDE DEF w
  <2> QED  BY <2>2, <1>1 DEF Sorted
<1> HIDE DEF w
<1>4. j = [k EXCEPT !.queue = [k.queue EXCEPT ![r] = w]]
  BY DEF RemoveWaiter, w, KernelType
<1> HIDE DEF j
<1>5. /\ j \in KernelType
      /\ j.tcb = k.tcb /\ j.count = k.count /\ j.owner = k.owner
      /\ j.depth = k.depth /\ j.fault = k.fault /\ j.queue[r] = w
      /\ \A s \in Resources : s # r => j.queue[s] = k.queue[s]
  BY <1>2, <1>4 DEF KernelType
<1>6. QueuesOK(j)
  <2> SUFFICES ASSUME NEW s \in Resources
               PROVE  /\ Distinct(j.queue[s]) /\ Sorted(j.tcb, j.queue[s])
                      /\ \A u : In(j.queue[s], u) => j.tcb[u].waiting = s
    BY DEF QueuesOK
  <2>1. CASE s = r
    BY <2>1, <1>1, <1>2, <1>3, <1>5
  <2>2. CASE s # r
    BY <2>2, <1>5 DEF QueuesOK
  <2> QED  BY <2>1, <2>2
<1>7. In(j.queue[r], t) = FALSE
  BY <1>2, <1>5
<1> QED  BY <1>2, <1>5, <1>6, <1>7 DEF j, Relinked

\* Linking t, which is in no queue, into the one it waits for.
LEMMA LinkFacts ==
  ASSUME NEW k \in KernelType, NEW r \in Resources, NEW t \in Tasks, QueuesOK(k),
         k.tcb[t].waiting = r, ~In(k.queue[r], t)
  PROVE  Relinked(k, EnqueueWaiter(k, r, t), r, TRUE, t)
<1> DEFINE j == EnqueueWaiter(k, r, t)
<1>1. /\ k.queue[r] \in Seq(Tasks) /\ Distinct(k.queue[r]) /\ Sorted(k.tcb, k.queue[r])
      /\ \A u : In(k.queue[r], u) => k.tcb[u].waiting = r
  BY DEF QueuesOK, KernelType
<1>2. PICK w \in Seq(Tasks) :
        /\ j = [k EXCEPT !.queue = [k.queue EXCEPT ![r] = w]]
        /\ \A u : In(w, u) <=> In(k.queue[r], u) \/ u = t
        /\ Distinct(k.queue[r]) /\ ~In(k.queue[r], t) => Distinct(w)
        /\ Sorted(k.tcb, k.queue[r]) => Sorted(k.tcb, w)
  BY EnqueueFacts
<1> HIDE DEF j
<1>5. /\ j \in KernelType
      /\ j.tcb = k.tcb /\ j.count = k.count /\ j.owner = k.owner
      /\ j.depth = k.depth /\ j.fault = k.fault /\ j.queue[r] = w
      /\ \A s \in Resources : s # r => j.queue[s] = k.queue[s]
  BY <1>2 DEF KernelType
<1>6. QueuesOK(j)
  <2> SUFFICES ASSUME NEW s \in Resources
               PROVE  /\ Distinct(j.queue[s]) /\ Sorted(j.tcb, j.queue[s])
                      /\ \A u : In(j.queue[s], u) => j.tcb[u].waiting = s
    BY DEF QueuesOK
  <2>1. CASE s = r
    BY <2>1, <1>1, <1>2, <1>5
  <2>2. CASE s # r
    BY <2>2, <1>5 DEF QueuesOK
  <2> QED  BY <2>1, <2>2
<1> QED  BY <1>2, <1>5, <1>6 DEF j, Relinked

\* In j only t differs from k, in its priority p, and queues are in order.
Reprices(k, j, t, p) ==
  /\ Same(k, j) /\ j.fault = k.fault
  /\ j.tcb[t].priority = p /\ j.tcb[t].inherited = k.tcb[t].inherited
  /\ \A u \in Tasks : u # t => j.tcb[u] = k.tcb[u]

\* l is k with priority p of task t.
Assigned(k, l, t, p) ==
  /\ l \in KernelType
  /\ l.queue = k.queue /\ l.count = k.count /\ l.owner = k.owner
  /\ l.depth = k.depth /\ l.fault = k.fault
  /\ l.tcb[t].priority = p /\ l.tcb[t].inherited = k.tcb[t].inherited
  /\ \A u \in Tasks : u # t => l.tcb[u] = k.tcb[u]
  /\ \A u \in Tasks : SameTask(k.tcb[u], l.tcb[u])
  /\ \A u \in Tasks : l.tcb[u].waiting = k.tcb[u].waiting

\* The assignment of a priority, before any requeueing.
LEMMA PriorityFacts ==
  ASSUME NEW k \in KernelType, NEW t \in Tasks, NEW p \in Priorities, NEW l,
         l = [k EXCEPT !.tcb[t].priority = p]
  PROVE  Assigned(k, l, t, p)
<1> DEFINE x == [k.tcb[t] EXCEPT !.priority = p]
<1>1. k.tcb[t] \in TcbType
  BY DEF KernelType
<1>2. x \in TcbType /\ SameTask(k.tcb[t], x) /\ x.priority = p /\ x.inherited = k.tcb[t].inherited
  BY <1>1 DEF TcbType, SameTask
<1>3. l = [k EXCEPT !.tcb[t] = x]
  BY DEF KernelType
<1> HIDE DEF x
<1>4a. Retasked(k, l, t, x)
  BY <1>2, <1>3, Retask
<1>4. /\ l \in KernelType
      /\ l.queue = k.queue /\ l.count = k.count /\ l.owner = k.owner
      /\ l.depth = k.depth /\ l.fault = k.fault
      /\ l.tcb[t] = x
      /\ \A u \in Tasks : u # t => l.tcb[u] = k.tcb[u]
  BY <1>4a DEF Retasked
<1>5. \A u \in Tasks : SameTask(k.tcb[u], l.tcb[u])
  BY <1>2, <1>4 DEF SameTask
<1>6. \A u \in Tasks : l.tcb[u].waiting = k.tcb[u].waiting
  BY <1>5 DEF SameTask
<1> QED  BY <1>2, <1>4, <1>5, <1>6 DEF Assigned

\* t takes a new priority and is linked anew into the queue it waits in.
LEMMA RequeueFacts ==
  ASSUME NEW k \in KernelType, NEW r \in Resources, NEW t \in Tasks, NEW p \in Priorities,
         QueuesOK(k), k.tcb[t].waiting = r, In(k.queue[r], t),
         NEW l, l = [k EXCEPT !.tcb[t].priority = p],
         NEW j, j = EnqueueWaiter(RemoveWaiter(l, r, t), r, t)
  PROVE  Reprices(k, j, t, p)
<1> DEFINE a == RemoveWaiter(k, r, t)
           b == RemoveWaiter(l, r, t)
<1>0. /\ l \in KernelType
      /\ l.queue = k.queue /\ l.count = k.count /\ l.owner = k.owner
      /\ l.depth = k.depth /\ l.fault = k.fault
      /\ l.tcb[t].priority = p /\ l.tcb[t].inherited = k.tcb[t].inherited
      /\ \A u \in Tasks : u # t => l.tcb[u] = k.tcb[u]
      /\ \A u \in Tasks : SameTask(k.tcb[u], l.tcb[u])
      /\ \A u \in Tasks : l.tcb[u].waiting = k.tcb[u].waiting
  <2>1. Assigned(k, l, t, p)
    BY PriorityFacts
  <2> QED  BY <2>1 DEF Assigned
<1>1. /\ a \in KernelType /\ QueuesOK(a)
      /\ a.tcb = k.tcb
      /\ \A u : In(a.queue[r], u) <=> In(k.queue[r], u) /\ u # t
      /\ \A s \in Resources : s # r => a.queue[s] = k.queue[s]
  <2>1. Relinked(k, a, r, FALSE, t)
    BY RemoveFacts
  <2> HIDE DEF a
  <2> QED  BY <2>1 DEF Relinked
<1>2. /\ b.tcb = l.tcb /\ b.count = l.count /\ b.owner = l.owner
      /\ b.depth = l.depth /\ b.fault = l.fault
      /\ b.queue = a.queue
  BY <1>0 DEF RemoveWaiter, KernelType
<1>3. b \in KernelType
  <2>1. b.queue \in [Resources -> Seq(Tasks)]
    BY <1>1, <1>2 DEF KernelType
  <2> QED  BY <1>0, <2>1 DEF RemoveWaiter, KernelType
<1> HIDE DEF a, b
<1>4. \A s \in Resources : \A u : In(b.queue[s], u) => u \in Tasks /\ u # t /\ k.tcb[u].waiting = s
  <2> SUFFICES ASSUME NEW s \in Resources, NEW u, In(b.queue[s], u)
               PROVE  u \in Tasks /\ u # t /\ k.tcb[u].waiting = s
    OBVIOUS
  <2>1. u \in Tasks
    BY <1>3, QueueMembers
  <2>2. a.tcb[u].waiting = s
    BY <1>1, <1>2 DEF QueuesOK
  <2>3. s # r => u # t
    BY <2>2, <1>1
  <2> QED  BY <1>1, <1>2, <2>1, <2>2, <2>3
<1>5. QueuesOK(b)
  <2> SUFFICES ASSUME NEW s \in Resources
               PROVE  /\ Distinct(b.queue[s]) /\ Sorted(b.tcb, b.queue[s])
                      /\ \A u : In(b.queue[s], u) => b.tcb[u].waiting = s
    BY DEF QueuesOK
  <2>1. Distinct(b.queue[s]) /\ Sorted(k.tcb, b.queue[s])
    BY <1>1, <1>2 DEF QueuesOK
  <2>2. \A i \in DOMAIN b.queue[s] : b.queue[s][i] \in Tasks /\ b.queue[s][i] # t
    BY <1>4 DEF In
  <2>3. \A i \in DOMAIN b.queue[s] : b.tcb[b.queue[s][i]].priority = k.tcb[b.queue[s][i]].priority
    BY <2>2, <1>0, <1>2
  <2>4. Sorted(b.tcb, b.queue[s])
    BY <2>1, <2>3 DEF Sorted
  <2> QED  BY <2>1, <2>4, <1>0, <1>2, <1>4
<1>6. b.tcb[t].waiting = r /\ ~In(b.queue[r], t)
  <2>1. l.tcb[t].waiting = k.tcb[t].waiting
    BY <1>0
  <2> QED  BY <2>1, <1>2, <1>4
<1>7. /\ j \in KernelType /\ QueuesOK(j)
      /\ j.tcb = b.tcb /\ j.count = b.count /\ j.owner = b.owner
      /\ j.depth = b.depth /\ j.fault = b.fault
      /\ \A u : In(j.queue[r], u) <=> In(b.queue[r], u) \/ u = t
      /\ \A s \in Resources : s # r => j.queue[s] = b.queue[s]
  <2>1. j = EnqueueWaiter(b, r, t)
    BY DEF b
  <2>2. Relinked(b, j, r, TRUE, t)
    BY <1>3, <1>5, <1>6, <2>1, LinkFacts
  <2> QED  BY <2>2 DEF Relinked
<1>8. \A s \in Resources : \A u : In(j.queue[s], u) <=> In(k.queue[s], u)
  BY <1>1, <1>2, <1>7
<1>9. j.tcb = l.tcb /\ j.count = k.count /\ j.owner = k.owner /\ j.depth = k.depth /\ j.fault = k.fault
  BY <1>0, <1>2, <1>7
<1>10. Same(k, j)
  BY <1>0, <1>7, <1>8, <1>9 DEF Same
<1> QED  BY <1>0, <1>9, <1>10 DEF Reprices

\* A task that waits for nothing, or keeps its priority, needs no requeueing.
LEMMA RepriceFacts ==
  ASSUME NEW k \in KernelType, NEW t \in Tasks, NEW p \in Priorities, QueuesOK(k),
         k.tcb[t].waiting \notin Resources,
         NEW l, l = [k EXCEPT !.tcb[t].priority = p]
  PROVE  Reprices(k, l, t, p)
<1>0. /\ l \in KernelType
      /\ l.queue = k.queue /\ l.count = k.count /\ l.owner = k.owner
      /\ l.depth = k.depth /\ l.fault = k.fault
      /\ l.tcb[t].priority = p /\ l.tcb[t].inherited = k.tcb[t].inherited
      /\ \A u \in Tasks : u # t => l.tcb[u] = k.tcb[u]
      /\ \A u \in Tasks : SameTask(k.tcb[u], l.tcb[u])
      /\ \A u \in Tasks : l.tcb[u].waiting = k.tcb[u].waiting
  <2>1. Assigned(k, l, t, p)
    BY PriorityFacts
  <2> QED  BY <2>1 DEF Assigned
<1>1. QueuesOK(l)
  <2> SUFFICES ASSUME NEW s \in Resources
               PROVE  /\ Distinct(l.queue[s]) /\ Sorted(l.tcb, l.queue[s])
                      /\ \A u : In(l.queue[s], u) => l.tcb[u].waiting = s
    BY DEF QueuesOK
  <2>1. /\ Distinct(k.queue[s]) /\ Sorted(k.tcb, k.queue[s])
        /\ \A u : In(k.queue[s], u) => k.tcb[u].waiting = s /\ u \in Tasks
    BY QueueMembers DEF QueuesOK
  <2>2. \A i \in DOMAIN k.queue[s] : k.queue[s][i] \in Tasks /\ k.queue[s][i] # t
    BY <2>1 DEF In
  <2>3. \A i \in DOMAIN k.queue[s] : l.tcb[k.queue[s][i]].priority = k.tcb[k.queue[s][i]].priority
    BY <2>2, <1>0
  <2>4. Sorted(l.tcb, l.queue[s])
    BY <2>1, <2>3, <1>0 DEF Sorted
  <2> QED  BY <2>1, <2>4, <1>0
<1> QED  BY <1>0, <1>1 DEF Reprices, Same

\* min(base, most urgent donation) is a priority.
LEMMA EffectivePriorityFacts ==
  ASSUME NEW x \in TcbType
  PROVE  LET offers == {x.base} \cup {p \in Priorities : x.inherited[p] # 0} IN
         /\ EffectivePriority(x) \in Priorities
         /\ EffectivePriority(x) \in offers
         /\ \A p \in offers : EffectivePriority(x) <= p
<1> DEFINE offers == {x.base} \cup {p \in Priorities : x.inherited[p] # 0}
<1>1. x.base \in Priorities /\ Priorities \in SUBSET Nat
  BY PriorityLevelsAssumption DEF TcbType, Priorities
<1>2. offers \in SUBSET Priorities /\ offers \in SUBSET Nat /\ offers # {}
  BY <1>1
<1>3. EffectivePriority(x) = CHOOSE p \in offers : \A q \in offers : p <= q
  BY DEF EffectivePriority
<1> HIDE DEF offers
<1>4. \E p \in offers : \A q \in offers : p <= q
  BY <1>2, NatMin
<1>5. EffectivePriority(x) \in offers /\ \A q \in offers : EffectivePriority(x) <= q
  BY <1>3, <1>4
<1> QED  BY <1>2, <1>5 DEF offers

-----------------------------------------------------------------------------
(* Donations and one level of refresh_inherited_priority. *)

\* In j only the donations to o differ from k.
Regifted(k, j, o, f) ==
  /\ Same(k, j)
  /\ j.tcb[o].inherited = f
  /\ \A u \in Tasks : j.tcb[u].priority = k.tcb[u].priority
  /\ \A u \in Tasks : u # o => j.tcb[u].inherited = k.tcb[u].inherited

\* The assignment of donation counters.
LEMMA RegiftFacts ==
  ASSUME NEW k \in KernelType, QueuesOK(k), NEW o \in Tasks, NEW f \in [Priorities -> Nat],
         NEW j, j = [k EXCEPT !.tcb[o].inherited = f]
  PROVE  Regifted(k, j, o, f) /\ j.fault = k.fault
<1> DEFINE x == [k.tcb[o] EXCEPT !.inherited = f]
<1>1. k.tcb[o] \in TcbType
  BY DEF KernelType
<1>2. x \in TcbType /\ SameTask(k.tcb[o], x) /\ x.inherited = f /\ x.priority = k.tcb[o].priority
  BY <1>1 DEF TcbType, SameTask
<1>3. j = [k EXCEPT !.tcb[o] = x]
  BY DEF KernelType
<1> HIDE DEF x
<1>4. Retasked(k, j, o, x)
  BY <1>2, <1>3, Retask
<1>5. \A u \in Tasks : SameTask(k.tcb[u], j.tcb[u]) /\ j.tcb[u].priority = k.tcb[u].priority
  BY <1>2, <1>4 DEF Retasked, SameTask
<1>6. QueuesOK(j)
  <2>1. \A u \in Tasks : /\ j.tcb[u].priority = k.tcb[u].priority
                         /\ j.tcb[u].waiting = k.tcb[u].waiting
    BY <1>5 DEF SameTask
  <2>2. j \in KernelType /\ j.queue = k.queue
    BY <1>4 DEF Retasked
  <2> QED  BY <2>1, <2>2, QueuesKept
<1>7. Same(k, j)
  BY <1>4, <1>5, <1>6 DEF Same, Retasked
<1> QED  BY <1>2, <1>4, <1>5, <1>7 DEF Regifted, Retasked

\* In j the donation p to o was added to those of k.
Donated(k, j, o, p) ==
  /\ Regifted(k, j, o, j.tcb[o].inherited)
  /\ j.tcb[o].inherited = [k.tcb[o].inherited EXCEPT ![p] = @ + 1]
  /\ j.fault = k.fault

\* In j the donation p to o was withdrawn, if there was one.
Undonated(k, j, o, p) ==
  /\ Regifted(k, j, o, j.tcb[o].inherited)
  /\ k.tcb[o].inherited[p] # 0 =>
       /\ j.tcb[o].inherited = [k.tcb[o].inherited EXCEPT ![p] = @ - 1]
       /\ j.fault = k.fault

\* A donation is added.
LEMMA DonateFacts ==
  ASSUME NEW k \in KernelType, QueuesOK(k), NEW o \in Tasks, NEW p \in Priorities,
         NEW j, j = Donate(k, o, p)
  PROVE  Donated(k, j, o, p)
<1> DEFINE f == [k.tcb[o].inherited EXCEPT ![p] = @ + 1]
<1>1. k.tcb[o].inherited \in [Priorities -> Nat]
  BY DEF KernelType, TcbType
<1>2. f \in [Priorities -> Nat]
  BY <1>1
<1>3. j = [k EXCEPT !.tcb[o].inherited = f]
  BY DEF Donate, KernelType
<1> HIDE DEF f
<1>4. Regifted(k, j, o, f) /\ j.fault = k.fault
  BY <1>2, <1>3, RegiftFacts
<1>5. j.tcb[o].inherited = f
  BY <1>4 DEF Regifted
<1> QED  BY <1>4, <1>5 DEF f, Donated

\* A donation that was made is withdrawn; a missing one is a fault.
LEMMA UndonateFacts ==
  ASSUME NEW k \in KernelType, QueuesOK(k), NEW o \in Tasks, NEW p \in Priorities,
         NEW j, j = Undonate(k, o, p)
  PROVE  Undonated(k, j, o, p)
<1> DEFINE f == [k.tcb[o].inherited EXCEPT ![p] = @ - 1]
<1>1. k.tcb[o].inherited \in [Priorities -> Nat]
  BY DEF KernelType, TcbType
<1>2. CASE k.tcb[o].inherited[p] # 0
  <2>1. f \in [Priorities -> Nat]
    BY <1>1, <1>2
  <2>2. j = [k EXCEPT !.tcb[o].inherited = f]
    BY <1>2 DEF Undonate, KernelType
  <2> HIDE DEF f
  <2>3. Regifted(k, j, o, f) /\ j.fault = k.fault
    BY <2>1, <2>2, RegiftFacts
  <2>4. j.tcb[o].inherited = f
    BY <2>3 DEF Regifted
  <2> QED  BY <2>3, <2>4 DEF f, Undonated
<1>3. CASE k.tcb[o].inherited[p] = 0
  <2>1. j = Fail(k, "missing_inherited_waiter")
    BY <1>3 DEF Undonate
  <2>2. /\ j \in KernelType /\ j.tcb = k.tcb /\ j.queue = k.queue /\ j.count = k.count
        /\ j.owner = k.owner /\ j.depth = k.depth
    BY <2>1 DEF Fail, KernelType, Faults
  <2>3. QueuesOK(j)
    BY <2>2, QueuesKept
  <2>4. Same(k, j)
    BY <2>2, <2>3 DEF Same, SameTask
  <2> QED  BY <1>3, <2>2, <2>4 DEF Regifted, Undonated
<1> QED  BY <1>2, <1>3

\* One donation moves from priority old to priority new.
Shifted(f, old, new) == [[f EXCEPT ![old] = @ - 1] EXCEPT ![new] = @ + 1]

\* t was refreshed in k: d.k is the result and d.task the next to refresh.
Refreshed(k, t, d) ==
  LET old == k.tcb[t].priority
      new == EffectivePriority(k.tcb[t])
      o == d.task
  IN  /\ Same(k, d.k)
      /\ old = new => d.k = k /\ o = NIL
      /\ old # new => o = Succ(k, t)
      /\ d.k.tcb[t].priority = new
      /\ \A u \in Tasks : u # t => d.k.tcb[u].priority = k.tcb[u].priority
      /\ \A u \in Tasks : u # o => d.k.tcb[u].inherited = k.tcb[u].inherited
      /\ o = NIL => d.k.fault = k.fault
      /\ o \in Tasks /\ k.tcb[o].inherited[old] # 0 =>
           /\ d.k.fault = k.fault
           /\ d.k.tcb[o].inherited = Shifted(k.tcb[o].inherited, old, new)

\* One level of the recursion, for a task that is linked where it waits.
LEMMA RefreshStepFacts ==
  ASSUME NEW k \in KernelType, QueuesOK(k), NEW t \in Tasks,
         k.tcb[t].waiting \in Resources => In(k.queue[k.tcb[t].waiting], t),
         NEW c, c.k = k, c.task = t, NEW d, d = RefreshStep(c)
  PROVE  Refreshed(k, t, d)
<1> SUFFICES ASSUME NEW old, old = k.tcb[t].priority,
                    NEW new, new = EffectivePriority(k.tcb[t]),
                    NEW m, m = k.tcb[t].waiting
             PROVE  Refreshed(k, t, d)
  OBVIOUS
<1>1. k.tcb[t] \in TcbType /\ m \in Resources \cup {NONE} /\ old \in Priorities
  BY DEF KernelType, TcbType
<1>2. new \in Priorities
  BY <1>1, EffectivePriorityFacts
<1>3. t # NIL /\ NIL \notin Tasks
  BY TaskFacts
<1>4. CASE old = new
  <2>1. d = [k |-> k, task |-> NIL]
    BY <1>3, <1>4 DEF RefreshStep
  <2>2. Same(k, k)
    BY SameReflexive
  <2>3. d.k = k /\ d.task = NIL
    BY <2>1
  <2> QED  BY <1>3, <1>4, <2>2, <2>3 DEF Refreshed
<1> DEFINE l == [k EXCEPT !.tcb[t].priority = new]
<1>5. CASE old # new /\ m \notin Mutexes
  <2>1. d = [k |-> SetEffectivePriority(k, t, new), task |-> NIL]
    BY <1>3, <1>5 DEF RefreshStep
  <2> DEFINE j == SetEffectivePriority(k, t, new)
  <2>2. Reprices(k, j, t, new)
    <3>1. CASE m \in Sems
      <4>0. l = [k EXCEPT !.tcb[t].priority = new]
        OBVIOUS
      <4>1. j = EnqueueWaiter(RemoveWaiter(l, m, t), m, t)
        BY <1>5, <3>1 DEF SetEffectivePriority
      <4>2. m \in Resources
        BY <3>1 DEF Resources
      <4> HIDE DEF l, j
      <4> QED  BY <1>2, <4>0, <4>1, <4>2, RequeueFacts
    <3>2. CASE m \notin Sems
      <4>0. l = [k EXCEPT !.tcb[t].priority = new]
        OBVIOUS
      <4>1. j = l
        BY <1>5, <3>2 DEF SetEffectivePriority
      <4>2. m \notin Resources
        BY <1>5, <3>2 DEF Resources
      <4> HIDE DEF l, j
      <4>3. Reprices(k, l, t, new)
        BY <1>2, <4>0, <4>2, RepriceFacts
      <4> QED  BY <4>1, <4>3
    <3> QED  BY <3>1, <3>2
  <2>3. Succ(k, t) = NIL
    BY <1>5 DEF Succ
  <2>4. d.k = j /\ d.task = NIL
    BY <2>1
  <2> HIDE DEF j
  <2> QED  BY <1>3, <1>5, <2>2, <2>3, <2>4 DEF Refreshed, Reprices
<1>6. CASE old # new /\ m \in Mutexes
  <2> DEFINE j == EnqueueWaiter(RemoveWaiter(l, m, t), m, t)
             o == k.owner[m]
  <2>0. Succ(k, t) = o /\ o \in Tasks \cup {NIL}
    BY <1>6 DEF Succ, KernelType
  <2>1. l = SetEffectivePriority(k, t, new)
    BY <1>6, ResourcesAssumption DEF SetEffectivePriority
  <2>2. Reprices(k, j, t, new)
    <3>0. l = [k EXCEPT !.tcb[t].priority = new] /\ j = EnqueueWaiter(RemoveWaiter(l, m, t), m, t)
      OBVIOUS
    <3>1. m \in Resources
      BY <1>6 DEF Resources
    <3> HIDE DEF l, j
    <3> QED  BY <1>2, <3>0, <3>1, RequeueFacts
  <2>3. d = IF o = NIL THEN [k |-> j, task |-> NIL]
            ELSE [k |-> Donate(Undonate(j, o, old), o, new), task |-> o]
    BY <1>3, <1>6, <2>1 DEF RefreshStep
  <2>4. CASE o = NIL
    <3>1. d.k = j /\ d.task = NIL
      BY <2>3, <2>4
    <3> HIDE DEF j
    <3> QED  BY <1>3, <1>6, <2>0, <2>2, <2>4, <3>1 DEF Refreshed, Reprices
  <2>5. CASE o # NIL
    <3> DEFINE a == Undonate(j, o, old)
               b == Donate(a, o, new)
    <3>0. d.k = b /\ d.task = o /\ a = Undonate(j, o, old) /\ b = Donate(a, o, new)
      BY <2>3, <2>5
    <3> HIDE DEF l, j, o, a, b
    <3>1. /\ Same(k, j) /\ j.fault = k.fault /\ j \in KernelType /\ QueuesOK(j)
          /\ j.tcb[t].priority = new
          /\ \A u \in Tasks : j.tcb[u].inherited = k.tcb[u].inherited
          /\ \A u \in Tasks : u # t => j.tcb[u].priority = k.tcb[u].priority
      BY <2>2 DEF Reprices, Same
    <3>2. o \in Tasks
      BY <2>0, <2>5
    <3>3. Undonated(j, a, o, old)
      BY <3>0, <3>1, <3>2, <1>1, UndonateFacts
    <3>4. a \in KernelType /\ QueuesOK(a)
      BY <3>3 DEF Undonated, Regifted, Same
    <3>5. Donated(a, b, o, new)
      BY <3>0, <3>2, <3>4, <1>2, DonateFacts
    <3>6. Same(k, b)
      <4>1. Same(j, a) /\ Same(a, b)
        BY <3>3, <3>5 DEF Donated, Undonated, Regifted
      <4> QED  BY <4>1, <3>1, SameTransitive
    <3>7. \A u \in Tasks : b.tcb[u].priority = j.tcb[u].priority
      BY <3>3, <3>5 DEF Donated, Undonated, Regifted
    <3>8. \A u \in Tasks : u # o => b.tcb[u].inherited = k.tcb[u].inherited
      BY <3>1, <3>3, <3>5 DEF Donated, Undonated, Regifted
    <3>9. ASSUME k.tcb[o].inherited[old] # 0
          PROVE  /\ b.fault = k.fault
                 /\ b.tcb[o].inherited = Shifted(k.tcb[o].inherited, old, new)
      <4>1. a.fault = j.fault /\ a.tcb[o].inherited = [k.tcb[o].inherited EXCEPT ![old] = @ - 1]
        BY <3>1, <3>2, <3>3, <3>9 DEF Donated, Undonated, Regifted
      <4>2. b.tcb[o].inherited = [a.tcb[o].inherited EXCEPT ![new] = @ + 1]
        BY <3>5 DEF Donated, Undonated, Regifted
      <4>3. b.fault = a.fault
        BY <3>5 DEF Donated
      <4> QED  BY <4>1, <4>2, <4>3, <3>1 DEF Shifted
    <3>10. b.tcb[t].priority = new /\ \A u \in Tasks : u # t => b.tcb[u].priority = k.tcb[u].priority
      BY <3>1, <3>7
    <3>11. d.task = Succ(k, t) /\ d.task # NIL /\ old # new
      BY <1>6, <2>0, <2>5, <3>0
    <3> QED  BY <3>0, <3>6, <3>8, <3>9, <3>10, <3>11 DEF Refreshed
  <2> QED  BY <2>4, <2>5
<1> QED  BY <1>4, <1>5, <1>6

-----------------------------------------------------------------------------
(* Chains of owners.  They end, because nobody waits for itself. *)

\* No set of tasks waits only for tasks of the same set.
Acyclic(k) == \A S \in SUBSET Tasks : S # {} => \E u \in S : Succ(k, u) \notin S

\* b is reached from a by i steps to the owner waited for, over i + 1 tasks.
Path(k, a, b, i) ==
  \E S \in SUBSET Tasks :
    /\ a \in S /\ b \in S /\ Cardinality(S) = i + 1
    /\ \A u \in S : u # b => Succ(k, u) \in S

\* A task reaches itself in no step.
LEMMA PathStart ==
  ASSUME NEW k, NEW a \in Tasks
  PROVE  Path(k, a, a, 0)
<1>1. Cardinality({a}) = 0 + 1
  BY FS_Singleton
<1> QED  BY <1>1 DEF Path

\* The next task of the chain is a new one.
LEMMA PathStep ==
  ASSUME NEW k, NEW a, NEW b, NEW i \in Nat, Acyclic(k), Path(k, a, b, i), Succ(k, b) \in Tasks
  PROVE  Path(k, a, Succ(k, b), i + 1)
<1>1. PICK S \in SUBSET Tasks :
        /\ a \in S /\ b \in S /\ Cardinality(S) = i + 1
        /\ \A u \in S : u # b => Succ(k, u) \in S
  BY DEF Path
<1>2. Succ(k, b) \notin S
  BY <1>1 DEF Acyclic
<1> DEFINE T == S \cup {Succ(k, b)}
<1>3. Cardinality(T) = (i + 1) + 1
  <2>1. IsFiniteSet(S)
    BY TaskFacts, FS_Subset
  <2>2. Cardinality(T) = Cardinality(S) + 1
    BY <1>2, <2>1, FS_AddElement
  <2> QED  BY <1>1, <2>2
<1>4. T \in SUBSET Tasks /\ a \in T /\ Succ(k, b) \in T
  BY <1>1
<1>5. \A u \in T : u # Succ(k, b) => Succ(k, u) \in T
  BY <1>1
<1> HIDE DEF T
<1> QED  BY <1>3, <1>4, <1>5 DEF Path

\* The chain never comes back to where it began, and is no longer than the
\* number of tasks.
LEMMA PathEnd ==
  ASSUME NEW k, NEW a, NEW b, NEW i \in Nat, Acyclic(k), Path(k, a, b, i)
  PROVE  a \in Tasks /\ b \in Tasks /\ Succ(k, b) # a /\ i + 1 <= Cardinality(Tasks)
<1>1. PICK S \in SUBSET Tasks :
        /\ a \in S /\ b \in S /\ Cardinality(S) = i + 1
        /\ \A u \in S : u # b => Succ(k, u) \in S
  BY DEF Path
<1>2. Succ(k, b) # a
  BY <1>1 DEF Acyclic
<1>3. Cardinality(S) <= Cardinality(Tasks)
  BY TaskFacts, FS_Subset
<1> QED  BY <1>1, <1>2, <1>3

\* Inheritance does not change who waits for whom.
LEMMA SameAcyclic ==
  ASSUME NEW k, NEW j, Same(k, j), Acyclic(k)
  PROVE  Acyclic(j)
<1>1. \A u \in Tasks : Succ(j, u) = Succ(k, u)
  BY SameSucc
<1> QED  BY <1>1 DEF Acyclic

\* The owner waited for is a task or nobody.
LEMMA SuccType ==
  ASSUME NEW k \in KernelType, NEW u \in Tasks
  PROVE  Succ(k, u) \in Tasks \cup {NIL}
BY DEF Succ, KernelType

-----------------------------------------------------------------------------
(* refresh_inherited_priority keeps the queues. *)

\* Whoever waits is linked, unless it waits for a mutex of t.
LinkedBut(k, t) ==
  \A u \in Tasks :
    k.tcb[u].waiting \in Resources => In(k.queue[k.tcb[u].waiting], u) \/ Succ(k, u) = t

\* Level i of the recursion that began at t in k.
LevelOK(k, t, c, i) ==
  /\ Same(k, c.k)
  /\ c.task = NIL \/ Path(k, t, c.task, i)

\* What a level finds and does, when the ones before it went well.
LEMMA LevelFacts ==
  ASSUME NEW k, NEW t, NEW c, NEW i \in Nat, Acyclic(k), LinkedBut(k, t),
         LevelOK(k, t, c, i), c.task # NIL
  PROVE  /\ c.task \in Tasks /\ Succ(c.k, c.task) # t /\ i + 1 <= Cardinality(Tasks)
         /\ Acyclic(c.k)
         /\ Refreshed(c.k, c.task, RefreshStep(c))
<1>1. Same(k, c.k) /\ Path(k, t, c.task, i)
  BY DEF LevelOK
<1>2. c.task \in Tasks /\ Succ(k, c.task) # t /\ i + 1 <= Cardinality(Tasks)
  BY <1>1, PathEnd
<1>3. Succ(c.k, c.task) = Succ(k, c.task) /\ Acyclic(c.k)
  BY <1>1, <1>2, SameSucc, SameAcyclic
<1>4. c.k \in KernelType /\ QueuesOK(c.k)
  BY <1>1 DEF Same
<1>5. c.k.tcb[c.task].waiting \in Resources => In(c.k.queue[c.k.tcb[c.task].waiting], c.task)
  BY <1>1, <1>2 DEF Same, SameTask, LinkedBut
<1> DEFINE kk == c.k
           d == RefreshStep(c)
           u == c.task
<1>6. c.k = kk /\ d = RefreshStep(c) /\ c.task = u
  OBVIOUS
<1>7. /\ kk \in KernelType /\ QueuesOK(kk) /\ u \in Tasks
      /\ kk.tcb[u].waiting \in Resources => In(kk.queue[kk.tcb[u].waiting], u)
  BY <1>2, <1>4, <1>5
<1>8. Refreshed(kk, u, d)
  <2> HIDE DEF kk, d, u
  <2> QED  BY <1>6, <1>7, RefreshStepFacts
<1> QED  BY <1>2, <1>3, <1>8

\* The level after it.
LEMMA NextLevel ==
  ASSUME NEW k, NEW t, NEW c, NEW i \in Nat, Acyclic(k), LinkedBut(k, t),
         LevelOK(k, t, c, i)
  PROVE  LevelOK(k, t, RefreshStep(c), i + 1)
<1>1. CASE c.task = NIL
  <2>1. RefreshStep(c) = [k |-> c.k, task |-> NIL]
    BY <1>1 DEF RefreshStep
  <2>2. RefreshStep(c).k = c.k /\ RefreshStep(c).task = NIL
    BY <2>1
  <2> QED  BY <2>2 DEF LevelOK
<1>2. CASE c.task # NIL
  <2> DEFINE d == RefreshStep(c)
  <2>1. c.task \in Tasks /\ Refreshed(c.k, c.task, d)
    BY <1>2, LevelFacts
  <2>2. Same(k, c.k) /\ Path(k, t, c.task, i)
    BY <1>2 DEF LevelOK
  <2> HIDE DEF d
  <2>3. Same(c.k, d.k) /\ (d.task = NIL \/ d.task = Succ(c.k, c.task))
    BY <2>1 DEF Refreshed
  <2>4. Same(k, d.k)
    BY <2>2, <2>3, SameTransitive
  <2>5. Succ(c.k, c.task) = Succ(k, c.task)
    BY <2>1, <2>2, SameSucc
  <2>6. Succ(c.k, c.task) \in Tasks \cup {NIL}
    <3>1. c.k \in KernelType
      BY <2>2 DEF Same
    <3> QED  BY <2>1, <3>1, SuccType
  <2>7. CASE d.task = NIL
    BY <2>4, <2>7 DEF LevelOK, d
  <2>8. CASE d.task # NIL
    <3>1. d.task = Succ(k, c.task) /\ Succ(k, c.task) \in Tasks
      BY <2>3, <2>5, <2>6, <2>8
    <3>2. Path(k, t, d.task, i + 1)
      BY <2>2, <3>1, PathStep
    <3> QED  BY <2>4, <3>2 DEF LevelOK, d
  <2> QED  BY <2>7, <2>8
<1> QED  BY <1>1, <1>2

\* Every level of the recursion, and its end within the task table.
LEMMA LevelsFacts ==
  ASSUME NEW k \in KernelType, QueuesOK(k), Acyclic(k), NEW t \in Tasks, LinkedBut(k, t)
  PROVE  /\ \A i \in 0..TaskSlotCount : LevelOK(k, t, RefreshChain(k, t)[i], i)
         /\ RefreshChain(k, t)[TaskSlotCount].task = NIL
<1> DEFINE n == TaskSlotCount
           f == RefreshChain(k, t)
           Good == {i \in 0..n : LevelOK(k, t, f[i], i)}
<1>0. n \in Nat /\ n = Cardinality(Tasks) + 1 /\ Cardinality(Tasks) \in Nat
  BY TaskFacts
<1>1. f[0] = [k |-> k, task |-> t] /\ \A i \in 1..n : f[i] = RefreshStep(f[i - 1])
  BY RefreshChainDef
<1> HIDE DEF f, n
<1>2. 0 \in Good
  <2>1. f[0].k = k /\ f[0].task = t
    BY <1>1
  <2>2. Same(k, k) /\ Path(k, t, t, 0)
    BY SameReflexive, PathStart
  <2> QED  BY <1>0, <2>1, <2>2 DEF LevelOK
<1>3. ASSUME NEW i \in 1..n, i - 1 \in Good  PROVE i \in Good
  <2>1. i - 1 \in Nat /\ (i - 1) + 1 = i
    BY <1>0
  <2>2. LevelOK(k, t, f[i - 1], i - 1)
    BY <1>3
  <2>3. LevelOK(k, t, RefreshStep(f[i - 1]), (i - 1) + 1)
    BY <2>1, <2>2, NextLevel
  <2> QED  BY <1>0, <1>1, <2>1, <2>3
<1>4. \A i \in 0..n : i \in Good
  <2> HIDE DEF Good
  <2>1. \A i \in 1..n : i - 1 \in Good => i \in Good
    BY <1>3
  <2> QED  BY <1>0, <1>2, <2>1, Induction
<1>5. LevelOK(k, t, f[n], n)
  BY <1>0, <1>4
<1>6. f[n].task = NIL
  <2> SUFFICES ASSUME f[n].task # NIL  PROVE FALSE
    OBVIOUS
  <2>1. n + 1 <= Cardinality(Tasks)
    BY <1>0, <1>5, LevelFacts
  <2> QED  BY <1>0, <2>1
<1> QED  BY <1>4, <1>6 DEF f, n

\* refresh_inherited_priority changes nothing but priorities, donations and the
\* order in which queues hold their waiters.
LEMMA RefreshSame ==
  ASSUME NEW k \in KernelType, QueuesOK(k), Acyclic(k), NEW t \in Tasks, LinkedBut(k, t),
         NEW j, j = RefreshInheritedPriority(k, t)
  PROVE  Same(k, j) /\ j = RefreshChain(k, t)[TaskSlotCount].k
<1>1. TaskSlotCount \in 0..TaskSlotCount
  BY TaskFacts
<1>2. /\ LevelOK(k, t, RefreshChain(k, t)[TaskSlotCount], TaskSlotCount)
      /\ RefreshChain(k, t)[TaskSlotCount].task = NIL
  BY <1>1, LevelsFacts
<1>3. j = RefreshChain(k, t)[TaskSlotCount].k
  BY <1>2 DEF RefreshInheritedPriority
<1> QED  BY <1>2, <1>3 DEF LevelOK

-----------------------------------------------------------------------------
(* refresh_inherited_priority settles priorities and keeps the counters exact. *)

\* The tasks of D that wait for a mutex of t at priority p.
DonorsAt(k, D, t, p) == {u \in D : Succ(k, u) = t /\ k.tcb[u].priority = p}

\* Every donation of a task of D is counted, and no other.
Counted(k, D) ==
  \A t \in Tasks, p \in Priorities : k.tcb[t].inherited[p] = Cardinality(DonorsAt(k, D, t, p))

\* Every task but t has the priority that its base and its donations give it.
SettledBut(k, t) ==
  \A u \in Tasks : u # t => k.tcb[u].priority = EffectivePriority(k.tcb[u])

\* The donations of the tasks outside D, if any, are to t.
DonorsBut(k, D, t) == \A u \in Tasks : u \in D \/ Succ(k, u) \in {NIL, t}

\* The donors to t at one priority are finitely many.
LEMMA DonorsFinite ==
  ASSUME NEW k, NEW D \in SUBSET Tasks, NEW t, NEW p
  PROVE  IsFiniteSet(DonorsAt(k, D, t, p)) /\ Cardinality(DonorsAt(k, D, t, p)) \in Nat
<1>1. DonorsAt(k, D, t, p) \in SUBSET Tasks
  BY DEF DonorsAt
<1> QED  BY <1>1, TaskFacts, FS_Subset, FS_CardinalityType

\* The level at t keeps the counters exact, and the next level has the only
\* priority that may not be settled.
LEMMA RefreshedDonations ==
  ASSUME NEW k \in KernelType, NEW t \in Tasks, NEW D \in SUBSET Tasks, NEW d,
         Succ(k, t) # t, Refreshed(k, t, d), Counted(k, D), SettledBut(k, t),
         t \in D \/ Succ(k, t) = NIL
  PROVE  Counted(d.k, D) /\ SettledBut(d.k, d.task) /\ d.k.fault = k.fault
<1> SUFFICES ASSUME NEW old, old = k.tcb[t].priority,
                    NEW new, new = EffectivePriority(k.tcb[t]),
                    NEW o, o = d.task,
                    NEW j, j = d.k
             PROVE  Counted(j, D) /\ SettledBut(j, o) /\ j.fault = k.fault
  OBVIOUS
<1>0. /\ Same(k, j)
      /\ old = new => j = k /\ o = NIL
      /\ old # new => o = Succ(k, t)
      /\ j.tcb[t].priority = new
      /\ \A u \in Tasks : u # t => j.tcb[u].priority = k.tcb[u].priority
      /\ \A u \in Tasks : u # o => j.tcb[u].inherited = k.tcb[u].inherited
      /\ o = NIL => j.fault = k.fault
      /\ o \in Tasks /\ k.tcb[o].inherited[old] # 0 =>
           /\ j.fault = k.fault
           /\ j.tcb[o].inherited = Shifted(k.tcb[o].inherited, old, new)
  BY DEF Refreshed
<1>1. CASE old = new
  BY <1>0, <1>1 DEF SettledBut
<1>2. CASE old # new
  <2>0. NIL \notin Tasks
    BY TaskFacts
  <2>1. o = Succ(k, t) /\ o \in Tasks \cup {NIL} /\ o # t
    BY <1>0, <1>2, SuccType
  <2>2. \A u \in Tasks : Succ(j, u) = Succ(k, u)
    BY <1>0, SameSucc
  <2>3. SettledBut(j, o)
    <3> SUFFICES ASSUME NEW u \in Tasks, u # o
                 PROVE  j.tcb[u].priority = EffectivePriority(j.tcb[u])
      BY DEF SettledBut
    <3>1. j.tcb[u].base = k.tcb[u].base /\ j.tcb[u].inherited = k.tcb[u].inherited
      BY <1>0 DEF Same, SameTask
    <3>2. EffectivePriority(j.tcb[u]) = EffectivePriority(k.tcb[u])
      BY <3>1 DEF EffectivePriority
    <3>3. CASE u = t
      BY <3>2, <3>3, <1>0
    <3>4. CASE u # t
      BY <3>2, <3>4, <1>0 DEF SettledBut
    <3> QED  BY <3>3, <3>4
  <2>4. ASSUME NEW v \in Tasks, v # o, NEW p \in Priorities
        PROVE  j.tcb[v].inherited[p] = Cardinality(DonorsAt(j, D, v, p))
    <3>1. DonorsAt(j, D, v, p) = DonorsAt(k, D, v, p)
      BY <2>1, <2>2, <2>4, <1>0 DEF DonorsAt
    <3> QED  BY <3>1, <2>4, <1>0 DEF Counted
  <2>5. CASE o = NIL
    BY <1>0, <2>0, <2>3, <2>4, <2>5 DEF Counted
  <2>6. CASE o # NIL
    <3>1. o \in Tasks /\ t \in D
      BY <2>1, <2>6
    <3>2. old \in Priorities /\ new \in Priorities /\ k.tcb[o].inherited \in [Priorities -> Nat]
      <4>1. k.tcb[t] \in TcbType /\ k.tcb[o] \in TcbType
        BY <3>1 DEF KernelType
      <4>2. new \in Priorities
        BY <4>1, EffectivePriorityFacts
      <4> QED  BY <4>1, <4>2 DEF TcbType
    <3> DEFINE A(p) == DonorsAt(k, D, o, p)
               B(p) == DonorsAt(j, D, o, p)
    <3>3. t \in A(old)
      BY <3>1, <2>1 DEF DonorsAt
    <3>4. \A p \in Priorities : k.tcb[o].inherited[p] = Cardinality(A(p))
      BY <3>1 DEF Counted
    <3>5. \A p : IsFiniteSet(A(p)) /\ Cardinality(A(p)) \in Nat
      BY DonorsFinite
    <3>6. t \notin A(new)
      BY <1>2 DEF DonorsAt
    <3>7. B(old) = A(old) \ {t}
      BY <1>0, <1>2, <2>2 DEF DonorsAt
    <3>8. B(new) = A(new) \cup {t}
      BY <1>0, <2>1, <2>2, <3>1 DEF DonorsAt
    <3>9. \A p : p # old /\ p # new => B(p) = A(p)
      BY <1>0, <2>2 DEF DonorsAt
    <3>10. j.fault = k.fault /\ j.tcb[o].inherited = Shifted(k.tcb[o].inherited, old, new)
      <4>1. Cardinality(A(old)) # 0
        BY <3>3, <3>5, FS_EmptySet
      <4> QED  BY <4>1, <3>1, <3>2, <3>4, <1>0
    <3> HIDE DEF A, B
    <3>11. Cardinality(B(old)) = Cardinality(A(old)) - 1
      <4>1. IsFiniteSet(A(old))
        BY <3>5
      <4>2. Cardinality(A(old) \ {t}) = Cardinality(A(old)) - 1
        BY <3>3, <4>1, FS_RemoveElement
      <4> QED  BY <4>2, <3>7
    <3>12. Cardinality(B(new)) = Cardinality(A(new)) + 1
      BY <3>5, <3>6, <3>8, FS_AddElement
    <3>13. ASSUME NEW p \in Priorities  PROVE j.tcb[o].inherited[p] = Cardinality(B(p))
      <4>1. Shifted(k.tcb[o].inherited, old, new)[p] =
              IF p = old THEN k.tcb[o].inherited[p] - 1
              ELSE IF p = new THEN k.tcb[o].inherited[p] + 1 ELSE k.tcb[o].inherited[p]
        BY <3>2, <1>2 DEF Shifted
      <4> QED  BY <4>1, <3>4, <3>9, <3>10, <3>11, <3>12
    <3>14. Counted(j, D)
      BY <2>4, <3>13 DEF Counted, B
    <3> QED  BY <2>3, <3>10, <3>14
  <2> QED  BY <2>5, <2>6
<1> QED  BY <1>1, <1>2

\* Level i of the recursion that began at t in k: the counters are exact and only
\* the task of the next level may not be settled.
ExactOK(k, D, c) == Counted(c.k, D) /\ SettledBut(c.k, c.task) /\ c.k.fault = k.fault

\* The level after it.
LEMMA NextExact ==
  ASSUME NEW k, NEW t, NEW c, NEW i \in Nat, Acyclic(k), LinkedBut(k, t), NEW D \in SUBSET Tasks,
         DonorsBut(k, D, t), LevelOK(k, t, c, i), ExactOK(k, D, c)
  PROVE  ExactOK(k, D, RefreshStep(c))
<1>1. CASE c.task = NIL
  <2>1. RefreshStep(c) = [k |-> c.k, task |-> NIL]
    BY <1>1 DEF RefreshStep
  <2>2. RefreshStep(c).k = c.k /\ RefreshStep(c).task = NIL
    BY <2>1
  <2> QED  BY <1>1, <2>2 DEF ExactOK
<1>2. CASE c.task # NIL
  <2>1. SUFFICES ASSUME NEW d, d = RefreshStep(c), NEW j, j = c.k, NEW u, u = c.task
                 PROVE  ExactOK(k, D, d)
    OBVIOUS
  <2>2. u \in Tasks /\ Succ(j, u) # t /\ Acyclic(j) /\ Refreshed(j, u, d)
    BY <1>2, <2>1, LevelFacts
  <2>3. Succ(j, u) = Succ(k, u) /\ j \in KernelType
    BY <2>1, <2>2, SameSucc DEF LevelOK, Same
  <2>4. u \in D \/ Succ(j, u) = NIL
    BY <2>2, <2>3 DEF DonorsBut
  <2>5. Succ(j, u) # u
    <3>1. {u} \in SUBSET Tasks /\ {u} # {}
      BY <2>2
    <3>2. \E x \in {u} : Succ(j, x) \notin {u}
      BY <2>2, <3>1 DEF Acyclic
    <3> QED  BY <3>2
  <2>6. Counted(j, D) /\ SettledBut(j, u) /\ j.fault = k.fault
    BY <2>1 DEF ExactOK
  <2>7. Counted(d.k, D) /\ SettledBut(d.k, d.task) /\ d.k.fault = j.fault
    BY <2>2, <2>3, <2>4, <2>5, <2>6, RefreshedDonations
  <2> QED  BY <2>6, <2>7 DEF ExactOK
<1> QED  BY <1>1, <1>2

\* refresh_inherited_priority settles every priority and never panics.
LEMMA RefreshExact ==
  ASSUME NEW k \in KernelType, QueuesOK(k), Acyclic(k), NEW t \in Tasks, LinkedBut(k, t),
         NEW D \in SUBSET Tasks, DonorsBut(k, D, t), Counted(k, D), SettledBut(k, t),
         NEW j, j = RefreshInheritedPriority(k, t)
  PROVE  Counted(j, D) /\ SettledBut(j, NIL) /\ j.fault = k.fault
<1> DEFINE n == TaskSlotCount
           f == RefreshChain(k, t)
           Good == {i \in 0..n : ExactOK(k, D, f[i])}
<1>0. n \in Nat
  BY TaskFacts
<1>1. f[0] = [k |-> k, task |-> t] /\ \A i \in 1..n : f[i] = RefreshStep(f[i - 1])
  BY RefreshChainDef
<1>2. (\A i \in 0..n : LevelOK(k, t, f[i], i)) /\ f[n].task = NIL
  BY LevelsFacts
<1>3. j = f[n].k
  BY RefreshSame
<1> HIDE DEF f, n
<1>4. 0 \in Good
  <2>1. f[0].k = k /\ f[0].task = t
    BY <1>1
  <2> QED  BY <1>0, <2>1 DEF ExactOK
<1>5. ASSUME NEW i \in 1..n, i - 1 \in Good  PROVE i \in Good
  <2>1. i - 1 \in Nat /\ i - 1 \in 0..n
    BY <1>0
  <2>2. LevelOK(k, t, f[i - 1], i - 1) /\ ExactOK(k, D, f[i - 1])
    BY <1>2, <1>5, <2>1
  <2>3. ExactOK(k, D, RefreshStep(f[i - 1]))
    BY <2>1, <2>2, NextExact
  <2> QED  BY <1>0, <1>1, <2>1, <2>3
<1>6. \A i \in 0..n : i \in Good
  <2> HIDE DEF Good
  <2>1. \A i \in 1..n : i - 1 \in Good => i \in Good
    BY <1>5
  <2> QED  BY <1>0, <1>4, <2>1, Induction
<1>7. ExactOK(k, D, f[n])
  BY <1>0, <1>6
<1> QED  BY <1>2, <1>3, <1>7 DEF ExactOK

-----------------------------------------------------------------------------
(* add_inheritance and remove_inheritance. *)

\* A state in which a change of the donations to o can be propagated.
Sound(k, o) == k \in KernelType /\ QueuesOK(k) /\ Acyclic(k) /\ LinkedBut(k, o)

\* The donations are those of D, and every priority accounts for them.
Exact(k, D) == Counted(k, D) /\ SettledBut(k, NIL)

\* A set with one member less or more.
Less(D, u) == D \ {u}
Plus(D, u) == D \cup {u}

\* Inheritance keeps what it needs.
LEMMA SameSound ==
  ASSUME NEW k, NEW j, NEW o, Same(k, j), Sound(k, o)
  PROVE  Sound(j, o)
<1>1. j \in KernelType /\ QueuesOK(j) /\ Acyclic(j)
  BY SameAcyclic DEF Same, Sound
<1>2. \A u \in Tasks : Succ(j, u) = Succ(k, u)
  BY SameSucc
<1>3. \A u \in Tasks : j.tcb[u].waiting = k.tcb[u].waiting
  BY DEF Same, SameTask
<1>4. \A r \in Resources : \A u : In(j.queue[r], u) <=> In(k.queue[r], u)
  BY DEF Same
<1>5. \A u \in Tasks :
        k.tcb[u].waiting \in Resources => In(k.queue[k.tcb[u].waiting], u) \/ Succ(k, u) = o
  BY DEF Sound, LinkedBut
<1>6. LinkedBut(j, o)
  BY <1>2, <1>3, <1>4, <1>5 DEF LinkedBut
<1> QED  BY <1>1, <1>6 DEF Sound

\* A donation is made or withdrawn, and propagated: the structure.
LEMMA RegiftSame ==
  ASSUME NEW k, NEW o \in Tasks, Sound(k, o), NEW a, NEW f, Regifted(k, a, o, f),
         NEW j, j = RefreshInheritedPriority(a, o)
  PROVE  Same(k, j) /\ Sound(a, o)
<1>1. Same(k, a)
  BY DEF Regifted
<1>2. Sound(a, o)
  BY <1>1, SameSound
<1>3. a \in KernelType /\ QueuesOK(a) /\ Acyclic(a) /\ LinkedBut(a, o)
  BY <1>2 DEF Sound
<1>4. Same(a, j)
  BY <1>3, RefreshSame
<1> QED  BY <1>1, <1>2, <1>4, SameTransitive

\* The same for the counters: they were D's but for the one to o, which is E's now.
LEMMA RegiftExact ==
  ASSUME NEW k, NEW o \in Tasks, Sound(k, o), NEW a, NEW f, Regifted(k, a, o, f),
         NEW D \in SUBSET Tasks, Exact(k, D), NEW E \in SUBSET Tasks, DonorsBut(k, E, o),
         \A v \in Tasks, p \in Priorities : v # o => DonorsAt(k, E, v, p) = DonorsAt(k, D, v, p),
         \A p \in Priorities : f[p] = Cardinality(DonorsAt(k, E, o, p)),
         NEW j, j = RefreshInheritedPriority(a, o)
  PROVE  Exact(j, E) /\ j.fault = a.fault
<1>0. /\ Same(k, a) /\ a.tcb[o].inherited = f
      /\ \A u \in Tasks : a.tcb[u].priority = k.tcb[u].priority
      /\ \A u \in Tasks : u # o => a.tcb[u].inherited = k.tcb[u].inherited
  BY DEF Regifted
<1>1. \A u \in Tasks : Succ(a, u) = Succ(k, u)
  BY <1>0, SameSucc
<1>2. ASSUME NEW v, NEW p  PROVE DonorsAt(a, E, v, p) = DonorsAt(k, E, v, p)
  BY <1>0, <1>1 DEF DonorsAt
<1>3. Counted(a, E)
  <2> SUFFICES ASSUME NEW v \in Tasks, NEW p \in Priorities
               PROVE  a.tcb[v].inherited[p] = Cardinality(DonorsAt(a, E, v, p))
    BY DEF Counted
  <2>1. CASE v = o
    BY <2>1, <1>0, <1>2
  <2>2. CASE v # o
    <3>1. k.tcb[v].inherited[p] = Cardinality(DonorsAt(k, D, v, p))
      BY DEF Exact, Counted
    <3> QED  BY <2>2, <3>1, <1>0, <1>2
  <2> QED  BY <2>1, <2>2
<1>4. SettledBut(a, o)
  <2> SUFFICES ASSUME NEW u \in Tasks, u # o
               PROVE  a.tcb[u].priority = EffectivePriority(a.tcb[u])
    BY DEF SettledBut
  <2>1. a.tcb[u].base = k.tcb[u].base /\ a.tcb[u].inherited = k.tcb[u].inherited
    BY <1>0 DEF Same, SameTask
  <2>2. EffectivePriority(a.tcb[u]) = EffectivePriority(k.tcb[u])
    BY <2>1 DEF EffectivePriority
  <2>3. k.tcb[u].priority = EffectivePriority(k.tcb[u])
    BY TaskFacts DEF Exact, SettledBut
  <2> QED  BY <2>2, <2>3, <1>0
<1>5. DonorsBut(a, E, o)
  BY <1>1 DEF DonorsBut
<1>6. a \in KernelType /\ QueuesOK(a) /\ Acyclic(a) /\ LinkedBut(a, o)
  BY <1>0, SameSound DEF Sound
<1>7. Counted(j, E) /\ SettledBut(j, NIL) /\ j.fault = a.fault
  BY <1>3, <1>4, <1>5, <1>6, RefreshExact
<1> QED  BY <1>7 DEF Exact

\* remove_inheritance and add_inheritance keep the structure.
LEMMA InheritanceSame ==
  ASSUME NEW k, NEW o \in Tasks, Sound(k, o), NEW p \in Priorities
  PROVE  Same(k, RemoveInheritance(k, o, p)) /\ Same(k, AddInheritance(k, o, p))
<1>0. k \in KernelType /\ QueuesOK(k)
  BY DEF Sound
<1>1. Same(k, RemoveInheritance(k, o, p))
  <2> DEFINE a == Undonate(k, o, p)
             j == RefreshInheritedPriority(a, o)
  <2>0. RemoveInheritance(k, o, p) = j /\ a = Undonate(k, o, p) /\ j = RefreshInheritedPriority(a, o)
    BY DEF RemoveInheritance
  <2> HIDE DEF a, j
  <2>1. Regifted(k, a, o, a.tcb[o].inherited)
    BY <1>0, <2>0, UndonateFacts DEF Undonated
  <2>2. Same(k, j)
    BY <2>0, <2>1, RegiftSame
  <2> QED  BY <2>0, <2>2
<1>2. Same(k, AddInheritance(k, o, p))
  <2> DEFINE a == Donate(k, o, p)
             j == RefreshInheritedPriority(a, o)
  <2>0. AddInheritance(k, o, p) = j /\ a = Donate(k, o, p) /\ j = RefreshInheritedPriority(a, o)
    BY DEF AddInheritance
  <2> HIDE DEF a, j
  <2>1. Regifted(k, a, o, a.tcb[o].inherited)
    BY <1>0, <2>0, DonateFacts DEF Donated
  <2>2. Same(k, j)
    BY <2>0, <2>1, RegiftSame
  <2> QED  BY <2>0, <2>2
<1> QED  BY <1>1, <1>2

\* remove_inheritance finds the donation of u and withdraws it.
LEMMA WithdrawExact ==
  ASSUME NEW k, NEW o \in Tasks, Sound(k, o), NEW D \in SUBSET Tasks, Exact(k, D),
         DonorsBut(k, D, o), NEW u \in D, Succ(k, u) = o,
         NEW E, E = Less(D, u), NEW j, j = RemoveInheritance(k, o, k.tcb[u].priority)
  PROVE  Exact(j, E) /\ j.fault = k.fault
<1> SUFFICES ASSUME NEW p, p = k.tcb[u].priority, NEW a, a = Undonate(k, o, p),
                    j = RefreshInheritedPriority(a, o)
             PROVE  Exact(j, E) /\ j.fault = k.fault
  BY DEF RemoveInheritance
<1>0. k \in KernelType /\ QueuesOK(k)
  BY DEF Sound
<1>1. p \in Priorities /\ k.tcb[o].inherited \in [Priorities -> Nat]
  BY <1>0 DEF KernelType, TcbType
<1>2. Undonated(k, a, o, p)
  BY <1>0, <1>1, UndonateFacts
<1> DEFINE A(q) == DonorsAt(k, D, o, q)
           B(q) == DonorsAt(k, E, o, q)
<1>3. u \in A(p) /\ B(p) = A(p) \ {u} /\ \A q : q # p => B(q) = A(q)
  BY DEF DonorsAt, Less
<1>4. \A q : IsFiniteSet(A(q)) /\ Cardinality(A(q)) \in Nat
  BY DonorsFinite
<1>5. \A q \in Priorities : k.tcb[o].inherited[q] = Cardinality(A(q))
  BY DEF Exact, Counted
<1>6. \A v \in Tasks, q \in Priorities : v # o => DonorsAt(k, E, v, q) = DonorsAt(k, D, v, q)
  BY DEF DonorsAt, Less
<1> HIDE DEF A, B
<1>7. Cardinality(B(p)) = Cardinality(A(p)) - 1
  <2>1. IsFiniteSet(A(p))
    BY <1>4
  <2>2. Cardinality(A(p) \ {u}) = Cardinality(A(p)) - 1
    BY <1>3, <2>1, FS_RemoveElement
  <2> QED  BY <2>2, <1>3
<1>8. k.tcb[o].inherited[p] # 0
  <2>1. Cardinality(A(p)) # 0
    BY <1>3, <1>4, FS_EmptySet
  <2> QED  BY <2>1, <1>1, <1>5
<1>9. SUFFICES ASSUME NEW f, f = [k.tcb[o].inherited EXCEPT ![p] = @ - 1]
               PROVE  Exact(j, E) /\ j.fault = k.fault
  OBVIOUS
<1>10. Regifted(k, a, o, f) /\ a.fault = k.fault
  BY <1>2, <1>8, <1>9 DEF Undonated
<1>11. \A q \in Priorities : f[q] = Cardinality(DonorsAt(k, E, o, q))
  <2>1. \A q \in Priorities : f[q] = Cardinality(B(q))
    BY <1>1, <1>3, <1>5, <1>7, <1>9
  <2> QED  BY <2>1 DEF B
<1>12. E \in SUBSET Tasks /\ DonorsBut(k, E, o)
  BY DEF DonorsBut, Less
<1>13. Exact(j, E) /\ j.fault = a.fault
  BY <1>6, <1>10, <1>11, <1>12, RegiftExact
<1> QED  BY <1>10, <1>13

\* add_inheritance counts the donation of u.
LEMMA ContributeExact ==
  ASSUME NEW k, NEW o \in Tasks, Sound(k, o), NEW D \in SUBSET Tasks, Exact(k, D),
         DonorsBut(k, D, o), NEW u \in Tasks, u \notin D, Succ(k, u) = o,
         NEW E, E = Plus(D, u), NEW j, j = AddInheritance(k, o, k.tcb[u].priority)
  PROVE  Exact(j, E) /\ j.fault = k.fault
<1> SUFFICES ASSUME NEW p, p = k.tcb[u].priority, NEW a, a = Donate(k, o, p),
                    j = RefreshInheritedPriority(a, o)
             PROVE  Exact(j, E) /\ j.fault = k.fault
  BY DEF AddInheritance
<1>0. k \in KernelType /\ QueuesOK(k)
  BY DEF Sound
<1>1. p \in Priorities /\ k.tcb[o].inherited \in [Priorities -> Nat]
  BY <1>0 DEF KernelType, TcbType
<1>2. Donated(k, a, o, p)
  BY <1>0, <1>1, DonateFacts
<1> DEFINE A(q) == DonorsAt(k, D, o, q)
           B(q) == DonorsAt(k, E, o, q)
<1>3. u \notin A(p) /\ B(p) = A(p) \cup {u} /\ \A q : q # p => B(q) = A(q)
  BY DEF DonorsAt, Plus
<1>4. \A q : IsFiniteSet(A(q)) /\ Cardinality(A(q)) \in Nat
  BY DonorsFinite
<1>5. \A q \in Priorities : k.tcb[o].inherited[q] = Cardinality(A(q))
  BY DEF Exact, Counted
<1>6. \A v \in Tasks, q \in Priorities : v # o => DonorsAt(k, E, v, q) = DonorsAt(k, D, v, q)
  BY DEF DonorsAt, Plus
<1> HIDE DEF A, B
<1>7. Cardinality(B(p)) = Cardinality(A(p)) + 1
  <2>1. IsFiniteSet(A(p))
    BY <1>4
  <2>2. Cardinality(A(p) \cup {u}) = Cardinality(A(p)) + 1
    BY <1>3, <2>1, FS_AddElement
  <2> QED  BY <2>2, <1>3
<1>9. SUFFICES ASSUME NEW f, f = [k.tcb[o].inherited EXCEPT ![p] = @ + 1]
               PROVE  Exact(j, E) /\ j.fault = k.fault
  OBVIOUS
<1>10. Regifted(k, a, o, f) /\ a.fault = k.fault
  BY <1>2, <1>9 DEF Donated
<1>11. \A q \in Priorities : f[q] = Cardinality(DonorsAt(k, E, o, q))
  <2>1. \A q \in Priorities : f[q] = Cardinality(B(q))
    BY <1>1, <1>3, <1>5, <1>7, <1>9
  <2> QED  BY <2>1 DEF B
<1>12. E \in SUBSET Tasks /\ DonorsBut(k, E, o)
  BY DEF DonorsBut, Plus
<1>13. Exact(j, E) /\ j.fault = a.fault
  BY <1>6, <1>10, <1>11, <1>12, RegiftExact
<1> QED  BY <1>10, <1>13

-----------------------------------------------------------------------------
(* The two loops of release_mutex_locked. *)

\* The first i members of the list us.
Members(us, i) == {us[x] : x \in 1..i}

\* The first loop keeps the structure.
LEMMA WithdrawAllSame ==
  ASSUME NEW k, NEW o \in Tasks, Sound(k, o), NEW us \in Seq(Tasks),
         NEW j, j = WithdrawAll(k, o, us)
  PROVE  Same(k, j)
<1> DEFINE n == Len(us)
<1>1. PICK f : /\ f[0] = k
               /\ \A i \in 1..n : f[i] = Withdraw(f[i - 1], o, us[i])
               /\ j = f[n]
  BY WithdrawAllDef
<1> DEFINE Good == {i \in 0..n : Same(k, f[i])}
<1>2. n \in Nat /\ \A i \in 1..n : us[i] \in Tasks
  OBVIOUS
<1> HIDE DEF n
<1>3. 0 \in Good
  <2>1. Same(k, k)
    BY SameReflexive DEF Sound
  <2> QED  BY <1>1, <1>2, <2>1
<1>4. ASSUME NEW i \in 1..n, i - 1 \in Good  PROVE i \in Good
  <2>1. SUFFICES ASSUME NEW l, l = f[i - 1], NEW u, u = us[i]  PROVE Same(k, f[i])
    BY <1>2
  <2>2. Same(k, l) /\ u \in Tasks
    BY <1>2, <1>4, <2>1
  <2>3. Sound(l, o) /\ l.tcb[u].priority \in Priorities
    <3>1. Sound(l, o)
      BY <2>2, SameSound
    <3>2. l.tcb[u] \in TcbType
      BY <2>2, <3>1 DEF Sound, KernelType
    <3> QED  BY <3>1, <3>2 DEF TcbType
  <2>4. Same(l, Withdraw(l, o, u))
    BY <2>3, InheritanceSame DEF Withdraw
  <2>5. f[i] = Withdraw(l, o, u)
    BY <1>1, <2>1
  <2> QED  BY <2>2, <2>4, <2>5, SameTransitive
<1>5. \A i \in 0..n : i \in Good
  <2> HIDE DEF Good
  <2>1. \A i \in 1..n : i - 1 \in Good => i \in Good
    BY <1>4
  <2> QED  BY <1>2, <1>3, <2>1, Induction
<1> QED  BY <1>1, <1>2, <1>5

\* The first loop finds every donation of the waiters and withdraws it.
LEMMA WithdrawAllExact ==
  ASSUME NEW k, NEW o \in Tasks, Sound(k, o), NEW us \in Seq(Tasks), Distinct(us),
         NEW D \in SUBSET Tasks, Exact(k, D), DonorsBut(k, D, o),
         \A i \in DOMAIN us : us[i] \in D /\ Succ(k, us[i]) = o,
         NEW E, E = D \ Members(us, Len(us)), NEW j, j = WithdrawAll(k, o, us)
  PROVE  Exact(j, E) /\ j.fault = k.fault
<1> DEFINE n == Len(us)
           M(i) == D \ Members(us, i)
<1>1. PICK f : /\ f[0] = k
               /\ \A i \in 1..n : f[i] = Withdraw(f[i - 1], o, us[i])
               /\ j = f[n]
  BY WithdrawAllDef
<1> DEFINE Good == {i \in 0..n : Same(k, f[i]) /\ Exact(f[i], M(i)) /\ f[i].fault = k.fault}
<1>2. /\ n \in Nat
      /\ \A i \in 1..n : us[i] \in Tasks /\ us[i] \in D /\ Succ(k, us[i]) = o
      /\ \A i, x \in 1..n : us[i] = us[x] => i = x
  BY DEF Distinct
<1>2a. M(0) = D
  BY DEF Members
<1>2b. \A i : M(i) = D \ Members(us, i)
  OBVIOUS
<1> HIDE DEF n, M
<1>3. 0 \in Good
  <2>1. Same(k, k)
    BY SameReflexive DEF Sound
  <2>2. M(0) = D
    BY <1>2a
  <2> QED  BY <1>1, <1>2, <2>1, <2>2
<1>4. ASSUME NEW i \in 1..n, i - 1 \in Good  PROVE i \in Good
  <2>1. SUFFICES ASSUME NEW l, l = f[i - 1], NEW u, u = us[i], NEW B, B = M(i - 1), NEW e, e = f[i]
                 PROVE  Same(k, e) /\ Exact(e, M(i)) /\ e.fault = k.fault
    BY <1>2
  <2>2. Same(k, l) /\ u \in Tasks /\ Exact(l, B) /\ l.fault = k.fault
    BY <1>2, <1>4, <2>1
  <2>3. Sound(l, o) /\ l.tcb[u].priority \in Priorities
    <3>1. Sound(l, o)
      BY <2>2, SameSound
    <3>2. l.tcb[u] \in TcbType
      BY <2>2, <3>1 DEF Sound, KernelType
    <3> QED  BY <3>1, <3>2 DEF TcbType
  <2>4. e = RemoveInheritance(l, o, l.tcb[u].priority)
    BY <1>1, <2>1 DEF Withdraw
  <2>5. Same(k, e)
    <3>1. Same(l, e)
      BY <2>3, <2>4, InheritanceSame
    <3> QED  BY <2>2, <3>1, SameTransitive
  <2>6. u \in B /\ B \in SUBSET Tasks /\ M(i) = B \ {u}
    <3>1. \A x \in 1..(i - 1) : x \in 1..n /\ x # i
      BY <1>2
    <3>2. u \notin Members(us, i - 1)
      BY <1>2, <2>1, <3>1 DEF Members
    <3>3. Members(us, i) = Members(us, i - 1) \cup {u}
      <4>1. 1..i = 1..(i - 1) \cup {i}
        BY <1>2
      <4> QED  BY <4>1, <2>1 DEF Members
    <3>4. Members(us, i - 1) \in SUBSET Tasks
      BY <1>2, <3>1 DEF Members
    <3>5. u \in D
      BY <1>2, <2>1
    <3> QED  BY <1>2b, <3>2, <3>3, <3>4, <3>5, <2>1
  <2>7. \A v \in Tasks : Succ(l, v) = Succ(k, v)
    BY <2>2, SameSucc
  <2>8. DonorsBut(l, B, o) /\ Succ(l, u) = o
    <3>1. \A v \in Tasks : v \in B \/ Succ(k, v) \in {NIL, o}
      <4>1. \A v \in Members(us, i - 1) : Succ(k, v) = o
        BY <1>2 DEF Members
      <4>2. \A v \in Tasks : v \in D \/ Succ(k, v) \in {NIL, o}
        BY DEF DonorsBut
      <4> QED  BY <1>2b, <4>1, <4>2, <2>1
    <3>2. Succ(l, u) = o
      BY <1>2, <2>1, <2>2, <2>7
    <3> QED  BY <3>1, <3>2, <2>7 DEF DonorsBut
  <2>9. Exact(e, M(i)) /\ e.fault = l.fault
    <3>1. SUFFICES ASSUME NEW C, C = M(i)  PROVE Exact(e, C) /\ e.fault = l.fault
      OBVIOUS
    <3>2. C = Less(B, u)
      BY <2>6, <3>1 DEF Less
    <3>3. B \in SUBSET Tasks /\ u \in B /\ Succ(l, u) = o /\ DonorsBut(l, B, o) /\ u \in Tasks
      BY <2>2, <2>6, <2>8
    <3>4. Sound(l, o) /\ Exact(l, B)
      BY <2>2, <2>3
    <3> QED  BY <2>4, <3>2, <3>3, <3>4, WithdrawExact
  <2> QED  BY <2>2, <2>5, <2>6, <2>9
<1>5. \A i \in 0..n : i \in Good
  <2> HIDE DEF Good
  <2>1. \A i \in 1..n : i - 1 \in Good => i \in Good
    BY <1>4
  <2> QED  BY <1>2, <1>3, <2>1, Induction
<1>6. M(n) = E
  BY <1>2b DEF n
<1>7. n \in Good
  BY <1>2, <1>5
<1>8. Exact(f[n], M(n)) /\ f[n].fault = k.fault
  BY <1>7
<1> QED  BY <1>1, <1>6, <1>8

\* The second loop keeps the structure.
LEMMA ContributeAllSame ==
  ASSUME NEW k, NEW o \in Tasks, Sound(k, o), NEW us \in Seq(Tasks),
         NEW j, j = ContributeAll(k, o, us)
  PROVE  Same(k, j)
<1> DEFINE n == Len(us)
<1>1. PICK f : /\ f[0] = k
               /\ \A i \in 1..n : f[i] = Contribute(f[i - 1], o, us[i])
               /\ j = f[n]
  BY ContributeAllDef
<1> DEFINE Good == {i \in 0..n : Same(k, f[i])}
<1>2. n \in Nat /\ \A i \in 1..n : us[i] \in Tasks
  OBVIOUS
<1> HIDE DEF n
<1>3. 0 \in Good
  <2>1. Same(k, k)
    BY SameReflexive DEF Sound
  <2> QED  BY <1>1, <1>2, <2>1
<1>4. ASSUME NEW i \in 1..n, i - 1 \in Good  PROVE i \in Good
  <2>1. SUFFICES ASSUME NEW l, l = f[i - 1], NEW u, u = us[i]  PROVE Same(k, f[i])
    BY <1>2
  <2>2. Same(k, l) /\ u \in Tasks
    BY <1>2, <1>4, <2>1
  <2>3. Sound(l, o) /\ l.tcb[u].priority \in Priorities
    <3>1. Sound(l, o)
      BY <2>2, SameSound
    <3>2. l.tcb[u] \in TcbType
      BY <2>2, <3>1 DEF Sound, KernelType
    <3> QED  BY <3>1, <3>2 DEF TcbType
  <2>4. Same(l, Contribute(l, o, u))
    BY <2>3, InheritanceSame DEF Contribute
  <2>5. f[i] = Contribute(l, o, u)
    BY <1>1, <2>1
  <2> QED  BY <2>2, <2>4, <2>5, SameTransitive
<1>5. \A i \in 0..n : i \in Good
  <2> HIDE DEF Good
  <2>1. \A i \in 1..n : i - 1 \in Good => i \in Good
    BY <1>4
  <2> QED  BY <1>2, <1>3, <2>1, Induction
<1> QED  BY <1>1, <1>2, <1>5

\* The second loop counts the donation of every waiter left.
LEMMA ContributeAllExact ==
  ASSUME NEW k, NEW o \in Tasks, Sound(k, o), NEW us \in Seq(Tasks), Distinct(us),
         NEW D \in SUBSET Tasks, Exact(k, D), DonorsBut(k, D, o),
         \A i \in DOMAIN us : us[i] \notin D /\ Succ(k, us[i]) = o,
         NEW E, E = D \cup Members(us, Len(us)), NEW j, j = ContributeAll(k, o, us)
  PROVE  Exact(j, E) /\ j.fault = k.fault
<1> DEFINE n == Len(us)
           M(i) == D \cup Members(us, i)
<1>1. PICK f : /\ f[0] = k
               /\ \A i \in 1..n : f[i] = Contribute(f[i - 1], o, us[i])
               /\ j = f[n]
  BY ContributeAllDef
<1> DEFINE Good == {i \in 0..n : Same(k, f[i]) /\ Exact(f[i], M(i)) /\ f[i].fault = k.fault}
<1>2. /\ n \in Nat
      /\ \A i \in 1..n : us[i] \in Tasks /\ us[i] \notin D /\ Succ(k, us[i]) = o
      /\ \A i, x \in 1..n : us[i] = us[x] => i = x
  BY DEF Distinct
<1>2a. M(0) = D
  BY DEF Members
<1>2b. \A i : M(i) = D \cup Members(us, i)
  OBVIOUS
<1> HIDE DEF n, M
<1>3. 0 \in Good
  <2>1. Same(k, k)
    BY SameReflexive DEF Sound
  <2>2. M(0) = D
    BY <1>2a
  <2> QED  BY <1>1, <1>2, <2>1, <2>2
<1>4. ASSUME NEW i \in 1..n, i - 1 \in Good  PROVE i \in Good
  <2>1. SUFFICES ASSUME NEW l, l = f[i - 1], NEW u, u = us[i], NEW B, B = M(i - 1), NEW e, e = f[i]
                 PROVE  Same(k, e) /\ Exact(e, M(i)) /\ e.fault = k.fault
    BY <1>2
  <2>2. Same(k, l) /\ u \in Tasks /\ Exact(l, B) /\ l.fault = k.fault
    BY <1>2, <1>4, <2>1
  <2>3. Sound(l, o) /\ l.tcb[u].priority \in Priorities
    <3>1. Sound(l, o)
      BY <2>2, SameSound
    <3>2. l.tcb[u] \in TcbType
      BY <2>2, <3>1 DEF Sound, KernelType
    <3> QED  BY <3>1, <3>2 DEF TcbType
  <2>4. e = AddInheritance(l, o, l.tcb[u].priority)
    BY <1>1, <2>1 DEF Contribute
  <2>5. Same(k, e)
    <3>1. Same(l, e)
      BY <2>3, <2>4, InheritanceSame
    <3> QED  BY <2>2, <3>1, SameTransitive
  <2>6. u \notin B /\ B \in SUBSET Tasks /\ M(i) = B \cup {u}
    <3>1. \A x \in 1..(i - 1) : x \in 1..n /\ x # i
      BY <1>2
    <3>2. u \notin Members(us, i - 1)
      BY <1>2, <2>1, <3>1 DEF Members
    <3>3. Members(us, i) = Members(us, i - 1) \cup {u}
      <4>1. 1..i = 1..(i - 1) \cup {i}
        BY <1>2
      <4> QED  BY <4>1, <2>1 DEF Members
    <3>4. Members(us, i - 1) \in SUBSET Tasks
      BY <1>2, <3>1 DEF Members
    <3>5. u \notin D
      BY <1>2, <2>1
    <3> QED  BY <1>2b, <3>2, <3>3, <3>4, <3>5, <2>1
  <2>7. \A v \in Tasks : Succ(l, v) = Succ(k, v)
    BY <2>2, SameSucc
  <2>8. DonorsBut(l, B, o) /\ Succ(l, u) = o
    <3>1. \A v \in Tasks : v \in B \/ Succ(k, v) \in {NIL, o}
      <4>1. \A v \in Members(us, i - 1) : Succ(k, v) = o
        BY <1>2 DEF Members
      <4>2. \A v \in Tasks : v \in D \/ Succ(k, v) \in {NIL, o}
        BY DEF DonorsBut
      <4> QED  BY <1>2b, <4>1, <4>2, <2>1
    <3>2. Succ(l, u) = o
      BY <1>2, <2>1, <2>2, <2>7
    <3> QED  BY <3>1, <3>2, <2>7 DEF DonorsBut
  <2>9. Exact(e, M(i)) /\ e.fault = l.fault
    <3>1. SUFFICES ASSUME NEW C, C = M(i)  PROVE Exact(e, C) /\ e.fault = l.fault
      OBVIOUS
    <3>2. C = Plus(B, u)
      BY <2>6, <3>1 DEF Plus
    <3>3. B \in SUBSET Tasks /\ u \notin B /\ Succ(l, u) = o /\ DonorsBut(l, B, o) /\ u \in Tasks
      BY <2>2, <2>6, <2>8
    <3>4. Sound(l, o) /\ Exact(l, B)
      BY <2>2, <2>3
    <3> QED  BY <2>4, <3>2, <3>3, <3>4, ContributeExact
  <2> QED  BY <2>2, <2>5, <2>6, <2>9
<1>5. \A i \in 0..n : i \in Good
  <2> HIDE DEF Good
  <2>1. \A i \in 1..n : i - 1 \in Good => i \in Good
    BY <1>4
  <2> QED  BY <1>2, <1>3, <2>1, Induction
<1>6. M(n) = E
  BY <1>2b DEF n
<1>7. n \in Good
  BY <1>2, <1>5
<1>8. Exact(f[n], M(n)) /\ f[n].fault = k.fault
  BY <1>7
<1> QED  BY <1>1, <1>6, <1>8

-----------------------------------------------------------------------------
(* The invariant of the kernel's own state. *)

\* A task is blocked exactly while it waits, and then it is linked.
Waits(k) ==
  \A u \in Tasks :
    /\ k.tcb[u].waiting # NONE <=> k.tcb[u].state = "Blocked"
    /\ k.tcb[u].waiting # NONE => In(k.queue[k.tcb[u].waiting], u)

\* A grant is to a task that is ready; a granted mutex is owned at depth one.
Grants(k) ==
  \A u \in Tasks :
    /\ k.tcb[u].semGranted <=> k.tcb[u].granted # NONE
    /\ k.tcb[u].granted # NONE => k.tcb[u].state = "Ready"
    /\ k.tcb[u].granted \in Mutexes =>
         k.owner[k.tcb[u].granted] = u /\ k.depth[k.tcb[u].granted] = 1

\* Nobody waits for what is free.
Frees(k) ==
  /\ \A m \in Mutexes : k.owner[m] = NIL => k.queue[m] = <<>>
  /\ \A s \in Sems : k.count[s] > 0 => k.queue[s] = <<>>

KInv(k) ==
  k \in KernelType /\ QueuesOK(k) /\ Acyclic(k) /\ Waits(k) /\ Grants(k) /\ Frees(k)

\* A queue is empty when it has no member.
LEMMA EmptyQueue ==
  ASSUME NEW k \in KernelType, NEW r \in Resources
  PROVE  k.queue[r] = <<>> <=> \A u : ~In(k.queue[r], u)
<1>1. k.queue[r] \in Seq(Tasks)
  BY DEF KernelType
<1>2. SUFFICES ASSUME NEW q, q = k.queue[r]  PROVE q = <<>> <=> \A u : ~In(q, u)
  OBVIOUS
<1>3. q \in Seq(Tasks)
  BY <1>1, <1>2
<1>4. ASSUME q # <<>>  PROVE In(q, q[1])
  BY <1>3, <1>4 DEF In
<1>5. q = <<>> => \A u : ~In(q, u)
  BY DEF In
<1> QED  BY <1>4, <1>5

\* Waits that end make no cycle.
LEMMA AcyclicLess ==
  ASSUME NEW k, NEW j, Acyclic(k), \A u \in Tasks : Succ(j, u) \in {Succ(k, u), NIL}
  PROVE  Acyclic(j)
<1> SUFFICES ASSUME NEW S \in SUBSET Tasks, S # {}  PROVE \E u \in S : Succ(j, u) \notin S
  BY DEF Acyclic
<1>1. PICK u \in S : Succ(k, u) \notin S
  BY DEF Acyclic
<1>2. NIL \notin S
  BY TaskFacts
<1> QED  BY <1>1, <1>2

\* E donates in j what D donates in k, and every task has the same of them.
SameDonations(k, D, j, E) ==
  /\ \A u \in Tasks : /\ j.tcb[u].priority = k.tcb[u].priority
                      /\ j.tcb[u].inherited = k.tcb[u].inherited
                      /\ j.tcb[u].base = k.tcb[u].base
  /\ \A v \in Tasks, u \in Tasks :
       (u \in D /\ Succ(k, u) = v) <=> (u \in E /\ Succ(j, u) = v)

\* Donations that D makes depend on waits and priorities only.
LEMMA ExactKept ==
  ASSUME NEW k, NEW j, NEW D \in SUBSET Tasks, Exact(k, D),
         NEW E \in SUBSET Tasks, SameDonations(k, D, j, E)
  PROVE  Exact(j, E)
<1>0. /\ \A u \in Tasks : /\ j.tcb[u].priority = k.tcb[u].priority
                          /\ j.tcb[u].inherited = k.tcb[u].inherited
                          /\ j.tcb[u].base = k.tcb[u].base
      /\ \A v \in Tasks, u \in Tasks :
           (u \in D /\ Succ(k, u) = v) <=> (u \in E /\ Succ(j, u) = v)
  BY DEF SameDonations
<1>1. \A v \in Tasks : \A p : DonorsAt(j, E, v, p) = DonorsAt(k, D, v, p)
  BY <1>0 DEF DonorsAt
<1>2. Counted(j, E)
  BY <1>0, <1>1 DEF Counted, Exact
<1>3. ASSUME NEW u \in Tasks  PROVE EffectivePriority(j.tcb[u]) = EffectivePriority(k.tcb[u])
  <2>1. j.tcb[u].inherited = k.tcb[u].inherited /\ j.tcb[u].base = k.tcb[u].base
    BY <1>0
  <2> QED  BY <2>1 DEF EffectivePriority
<1>4. SettledBut(j, NIL)
  BY <1>0, <1>3 DEF Exact, SettledBut
<1> QED  BY <1>2, <1>4 DEF Exact

\* In j the wait of t has ended, with g.
Ended(k, j, t, g) ==
  /\ j \in KernelType
  /\ j.queue = k.queue /\ j.count = k.count /\ j.owner = k.owner
  /\ j.depth = k.depth /\ j.fault = k.fault
  /\ \A u \in Tasks : u # t => j.tcb[u] = k.tcb[u]
  /\ j.tcb[t].waiting = NONE /\ ~j.tcb[t].timed /\ j.tcb[t].granted = g
  /\ (j.tcb[t].semGranted <=> g # NONE) /\ j.tcb[t].state = "Ready"
  /\ j.tcb[t].base = k.tcb[t].base /\ j.tcb[t].priority = k.tcb[t].priority
  /\ j.tcb[t].inherited = k.tcb[t].inherited

\* The end of a wait.
LEMMA EndWaitFacts ==
  ASSUME NEW k \in KernelType, NEW t \in Tasks, NEW g \in Resources \cup {NONE},
         NEW j, j = EndWait(k, t, g)
  PROVE  Ended(k, j, t, g)
<1> DEFINE x == [k.tcb[t] EXCEPT !.waiting = NONE, !.timed = FALSE, !.granted = g,
                                 !.semGranted = (g # NONE), !.state = "Ready"]
<1>1. k.tcb[t] \in TcbType
  BY DEF KernelType
<1>2. /\ x \in TcbType
      /\ x.waiting = NONE /\ ~x.timed /\ x.granted = g
      /\ (x.semGranted <=> g # NONE) /\ x.state = "Ready"
      /\ x.base = k.tcb[t].base /\ x.priority = k.tcb[t].priority
      /\ x.inherited = k.tcb[t].inherited
  BY <1>1 DEF TcbType
<1>3. j.tcb = [k.tcb EXCEPT ![t] = x]
  BY <1>1 DEF EndWait, MakeReady, KernelType
<1>4. /\ j.queue = k.queue /\ j.count = k.count /\ j.owner = k.owner
      /\ j.depth = k.depth /\ j.fault = k.fault
  BY DEF EndWait, MakeReady, KernelType
<1>5. j \in KernelType
  <2>1. [k.tcb EXCEPT ![t] = x] \in [Tasks -> TcbType]
    BY <1>2 DEF KernelType
  <2>2. j.tcb \in [Tasks -> TcbType]
    BY <1>3, <2>1
  <2> HIDE DEF x
  <2> QED  BY <2>2, <1>4 DEF EndWait, MakeReady, KernelType
<1>6. j.tcb[t] = x /\ \A u \in Tasks : u # t => j.tcb[u] = k.tcb[u]
  <2> HIDE DEF x
  <2> QED  BY <1>3 DEF KernelType
<1> HIDE DEF x
<1> QED  BY <1>2, <1>4, <1>5, <1>6 DEF Ended

\* In j the task t has left the queue it waited in, with g.
Left(k, j, t, g) ==
  /\ j \in KernelType /\ QueuesOK(j)
  /\ j.count = k.count /\ j.owner = k.owner /\ j.depth = k.depth
  /\ \A u \in Tasks : u # t => SameTask(k.tcb[u], j.tcb[u])
  /\ j.tcb[t].waiting = NONE /\ j.tcb[t].granted = g
  /\ (j.tcb[t].semGranted <=> g # NONE) /\ j.tcb[t].state = "Ready"
  /\ \A r \in Resources : \A u : In(j.queue[r], u) <=> In(k.queue[r], u) /\ u # t

\* An unlinked waiter ends its wait.
LEMMA UnlinkedEnds ==
  ASSUME NEW k \in KernelType, QueuesOK(k), NEW t \in Tasks, NEW g,
         \A r \in Resources : ~In(k.queue[r], t), NEW j, Ended(k, j, t, g)
  PROVE  QueuesOK(j)
<1> SUFFICES ASSUME NEW r \in Resources
             PROVE  /\ Distinct(j.queue[r]) /\ Sorted(j.tcb, j.queue[r])
                    /\ \A u : In(j.queue[r], u) => j.tcb[u].waiting = r
  BY DEF QueuesOK
<1>1. /\ Distinct(k.queue[r]) /\ Sorted(k.tcb, k.queue[r])
      /\ \A u : In(k.queue[r], u) => k.tcb[u].waiting = r
  BY DEF QueuesOK
<1>2. (\A i \in DOMAIN k.queue[r] : k.queue[r][i] \in Tasks) /\ (\A u : In(k.queue[r], u) => u \in Tasks)
  BY QueueMembers
<1>3. j.queue = k.queue /\ \A u \in Tasks : u # t => j.tcb[u] = k.tcb[u]
  BY DEF Ended
<1>4. \A i \in DOMAIN k.queue[r] : j.tcb[k.queue[r][i]].priority = k.tcb[k.queue[r][i]].priority
  BY <1>2, <1>3 DEF In
<1>5. Sorted(j.tcb, j.queue[r])
  BY <1>1, <1>3, <1>4 DEF Sorted
<1> QED  BY <1>1, <1>2, <1>3, <1>5

\* t is linked nowhere in a, and all others are linked as in k.
Unlinked(k, a, t) ==
  /\ Sound(a, Succ(k, t))
  /\ \A u \in Tasks : Succ(a, u) = Succ(k, u)
  /\ \A s \in Resources : ~In(a.queue[s], t)
  /\ \A s \in Resources : \A u : In(a.queue[s], u) <=> In(k.queue[s], u) /\ u # t

\* The donations of a waiter that was unlinked can be withdrawn.
LEMMA UnlinkedSound ==
  ASSUME NEW k, KInv(k), NEW t \in Tasks, NEW r \in Resources, k.tcb[t].waiting = r,
         NEW a, Relinked(k, a, r, FALSE, t)
  PROVE  Unlinked(k, a, t)
<1>1. /\ a \in KernelType /\ QueuesOK(a) /\ a.tcb = k.tcb /\ a.owner = k.owner
      /\ ~In(a.queue[r], t)
      /\ \A u : u # t => (In(a.queue[r], u) <=> In(k.queue[r], u))
      /\ \A s \in Resources : s # r => a.queue[s] = k.queue[s]
  BY DEF Relinked
<1>2. \A u \in Tasks : Succ(a, u) = Succ(k, u)
  BY <1>1 DEF Succ
<1>3. Acyclic(a)
  BY <1>2 DEF KInv, Acyclic
<1>4. \A s \in Resources : ~In(a.queue[s], t)
  BY <1>1 DEF QueuesOK
<1>5. LinkedBut(a, Succ(k, t))
  <2> SUFFICES ASSUME NEW u \in Tasks, a.tcb[u].waiting \in Resources, u # t
               PROVE  In(a.queue[a.tcb[u].waiting], u)
    BY <1>2 DEF LinkedBut
  <2>1. In(k.queue[k.tcb[u].waiting], u)
    BY <1>1, ResourcesAssumption DEF KInv, Waits, Resources
  <2> QED  BY <1>1, <2>1
<1>6. \A s \in Resources : \A u : In(a.queue[s], u) <=> In(k.queue[s], u) /\ u # t
  BY <1>1, <1>4
<1> QED  BY <1>1, <1>2, <1>3, <1>4, <1>5, <1>6 DEF Sound, Unlinked

\* Who waits for a mutex waits for an owner.
LEMMA WaitsForOwner ==
  ASSUME NEW k, KInv(k), NEW t \in Tasks, NEW m \in Mutexes, k.tcb[t].waiting = m
  PROVE  k.owner[m] \in Tasks /\ Succ(k, t) = k.owner[m] /\ m \in Resources
<1>1. m \in Resources /\ m # NONE
  BY ResourcesAssumption DEF Resources
<1>2. In(k.queue[m], t)
  BY <1>1 DEF KInv, Waits
<1>3. k.queue[m] # <<>>
  BY <1>1, <1>2, EmptyQueue DEF KInv
<1>4. k.owner[m] \in Tasks \cup {NIL} /\ k.owner[m] # NIL
  BY <1>3 DEF KInv, Frees, KernelType
<1> QED  BY <1>1, <1>4 DEF Succ

\* The donation of one waiter, when all others' stay.
LEMMA WithdrawOne ==
  ASSUME NEW a, NEW o \in Tasks, Sound(a, o), Exact(a, Tasks), NEW t \in Tasks, Succ(a, t) = o,
         NEW p, p = a.tcb[t].priority,
         NEW b, b = RemoveInheritance(a, o, p), NEW E, E = Less(Tasks, t)
  PROVE  Exact(b, E) /\ b.fault = a.fault
<1>1. SUFFICES ASSUME NEW D, D = Tasks  PROVE Exact(b, E) /\ b.fault = a.fault
  OBVIOUS
<1>2. D \in SUBSET Tasks /\ t \in D /\ DonorsBut(a, D, o)
  BY <1>1 DEF DonorsBut
<1>3. Exact(a, D) /\ E = Less(D, t)
  BY <1>1
<1> HIDE <1>1
<1> QED  BY <1>2, <1>3, WithdrawExact

\* A wait ends after its donation, if it made one, was withdrawn.
LEMMA EndedExact ==
  ASSUME NEW a, NEW t \in Tasks, Exact(a, Tasks), NEW o, NEW p, p = a.tcb[t].priority, NEW b,
         \/ b = a /\ Succ(a, t) = NIL
         \/ o \in Tasks /\ Sound(a, o) /\ Succ(a, t) = o /\ b = RemoveInheritance(a, o, p),
         NEW j, Ended(b, j, t, NONE)
  PROVE  Exact(j, Tasks) /\ j.fault = a.fault
<1>0. Tasks \in SUBSET Tasks
  OBVIOUS
<1>1. PICK D \in SUBSET Tasks :
        /\ Exact(b, D) /\ b.fault = a.fault
        /\ \A u \in Tasks : u \in D \/ u = t
        /\ t \in D => Succ(b, t) = NIL
  <2>1. CASE b = a /\ Succ(a, t) = NIL
    BY <2>1
  <2>2. CASE o \in Tasks /\ Sound(a, o) /\ Succ(a, t) = o /\ b = RemoveInheritance(a, o, p)
    <3>1. SUFFICES ASSUME NEW E, E = Less(Tasks, t)
                   PROVE  \E D \in SUBSET Tasks :
                            /\ Exact(b, D) /\ b.fault = a.fault
                            /\ \A u \in Tasks : u \in D \/ u = t
                            /\ t \in D => Succ(b, t) = NIL
      OBVIOUS
    <3>2. Exact(b, E) /\ b.fault = a.fault
      BY <2>2, <3>1, WithdrawOne
    <3>3. E \in SUBSET Tasks /\ t \notin E /\ \A u \in Tasks : u \in E \/ u = t
      BY <3>1 DEF Less
    <3> QED  BY <3>2, <3>3
  <2> QED  BY <2>1, <2>2
<1>2. /\ \A u \in Tasks : /\ j.tcb[u].priority = b.tcb[u].priority
                          /\ j.tcb[u].inherited = b.tcb[u].inherited
                          /\ j.tcb[u].base = b.tcb[u].base
      /\ j.fault = b.fault
  BY DEF Ended
<1>3. Succ(j, t) = NIL /\ \A u \in Tasks : u # t => Succ(j, u) = Succ(b, u)
  BY ResourcesAssumption DEF Ended, Succ
<1>4. SameDonations(b, D, j, Tasks)
  <2>1. \A u \in Tasks : u # t => u \in D /\ Succ(j, u) = Succ(b, u)
    BY <1>1, <1>3
  <2>2. \A v \in Tasks : v # NIL
    BY TaskFacts
  <2>3. ASSUME NEW v \in Tasks, NEW u \in Tasks
        PROVE  (u \in D /\ Succ(b, u) = v) <=> (u \in Tasks /\ Succ(j, u) = v)
    <3>1. CASE u = t
      BY <3>1, <2>2, <1>1, <1>3
    <3>2. CASE u # t
      BY <3>2, <2>1
    <3> QED  BY <3>1, <3>2
  <2> QED  BY <1>2, <2>3 DEF SameDonations
<1>5. Exact(j, Tasks)
  BY <1>0, <1>1, <1>4, ExactKept
<1> QED  BY <1>1, <1>2, <1>5

\* A timeout or a cancellation takes a waiter out of its queue.
LEMMA LeaveQueueFacts ==
  ASSUME NEW k, KInv(k), NEW t \in Tasks, k.tcb[t].waiting # NONE,
         NEW j, j = LeaveQueue(k, t)
  PROVE  /\ Left(k, j, t, NONE)
         /\ Exact(k, Tasks) => Exact(j, Tasks) /\ j.fault = k.fault
<1> SUFFICES ASSUME NEW r, r = k.tcb[t].waiting, NEW a, a = RemoveWaiter(k, r, t),
                    NEW o, o = k.owner[r], NEW p, p = k.tcb[t].priority,
                    NEW b, b = (IF r \in Mutexes /\ o # NIL THEN RemoveInheritance(a, o, p) ELSE a)
             PROVE  /\ Left(k, j, t, NONE)
                    /\ Exact(k, Tasks) => Exact(j, Tasks) /\ j.fault = k.fault
  OBVIOUS
<1> SUFFICES ASSUME j = EndWait(b, t, NONE)
             PROVE  /\ Left(k, j, t, NONE)
                    /\ Exact(k, Tasks) => Exact(j, Tasks) /\ j.fault = k.fault
  BY DEF LeaveQueue
<1>1. k \in KernelType /\ QueuesOK(k)
  BY DEF KInv
<1>2. r \in Resources /\ p \in Priorities
  <2>1. k.tcb[t] \in TcbType
    BY <1>1 DEF KernelType
  <2> QED  BY <2>1 DEF TcbType
<1>3. Relinked(k, a, r, FALSE, t)
  BY <1>1, <1>2, RemoveFacts
<1>4. /\ Sound(a, Succ(k, t))
      /\ \A u \in Tasks : Succ(a, u) = Succ(k, u)
      /\ \A s \in Resources : ~In(a.queue[s], t)
      /\ \A s \in Resources : \A u : In(a.queue[s], u) <=> In(k.queue[s], u) /\ u # t
  <2>1. Unlinked(k, a, t)
    BY <1>2, <1>3, UnlinkedSound
  <2> QED  BY <2>1 DEF Unlinked
<1>5. /\ a \in KernelType /\ QueuesOK(a) /\ a.tcb = k.tcb /\ a.owner = k.owner
      /\ a.count = k.count /\ a.depth = k.depth /\ a.fault = k.fault
  BY <1>3 DEF Relinked
<1>6. r \in Mutexes => o \in Tasks /\ Succ(k, t) = o
  BY WaitsForOwner
<1>7. Same(a, b)
  <2>1. CASE r \in Mutexes
    <3>1. o \in Tasks /\ Sound(a, o) /\ o # NIL
      BY <1>4, <1>6, <2>1, TaskFacts
    <3>2. b = RemoveInheritance(a, o, p)
      BY <2>1, <3>1
    <3> QED  BY <1>2, <3>1, <3>2, InheritanceSame
  <2>2. CASE r \notin Mutexes
    <3>1. b = a
      BY <2>2
    <3> QED  BY <3>1, <1>5, SameReflexive
  <2> QED  BY <2>1, <2>2
<1>8. /\ b \in KernelType /\ QueuesOK(b)
      /\ b.count = k.count /\ b.owner = k.owner /\ b.depth = k.depth
      /\ \A u \in Tasks : SameTask(k.tcb[u], b.tcb[u])
      /\ \A s \in Resources : \A u : In(b.queue[s], u) <=> In(a.queue[s], u)
  BY <1>5, <1>7 DEF Same
<1>9. Ended(b, j, t, NONE)
  BY <1>8, EndWaitFacts
<1>10. QueuesOK(j)
  BY <1>4, <1>8, <1>9, UnlinkedEnds
<1>11. Left(k, j, t, NONE)
  BY <1>4, <1>8, <1>9, <1>10 DEF Left, Ended
<1>12. ASSUME Exact(k, Tasks)  PROVE Exact(j, Tasks) /\ j.fault = k.fault
  <2>0. Tasks \in SUBSET Tasks
    OBVIOUS
  <2>1. Exact(a, Tasks)
    <3>1. SameDonations(k, Tasks, a, Tasks)
      BY <1>4, <1>5 DEF SameDonations
    <3> QED  BY <2>0, <3>1, <1>12, ExactKept
  <2>2. \/ b = a /\ Succ(a, t) = NIL
        \/ o \in Tasks /\ Sound(a, o) /\ Succ(a, t) = o /\ b = RemoveInheritance(a, o, p)
    <3>1. CASE r \in Mutexes
      <4>1. o \in Tasks /\ Sound(a, o) /\ o # NIL
        BY <1>4, <1>6, <3>1, TaskFacts
      <4>2. b = RemoveInheritance(a, o, p)
        BY <3>1, <4>1
      <4> QED  BY <1>4, <1>6, <3>1, <4>1, <4>2
    <3>2. CASE r \notin Mutexes
      BY <1>5, <3>2 DEF Succ
    <3> QED  BY <3>1, <3>2
  <2>3. p = a.tcb[t].priority
    BY <1>5
  <2>4. Exact(j, Tasks) /\ j.fault = a.fault
    BY ONLY t \in Tasks, <1>9, <2>1, <2>2, <2>3, EndedExact
  <2> QED  BY <1>5, <2>4
<1> QED  BY <1>11, <1>12

\* Who has left a queue disturbs nothing.
LEMMA LeftInv ==
  ASSUME NEW k, KInv(k), NEW t \in Tasks, NEW g \in Sems \cup {NONE}, NEW j, Left(k, j, t, g)
  PROVE  KInv(j)
<1>1. /\ j \in KernelType /\ QueuesOK(j)
      /\ j.count = k.count /\ j.owner = k.owner /\ j.depth = k.depth
      /\ \A u \in Tasks : u # t => SameTask(k.tcb[u], j.tcb[u])
      /\ j.tcb[t].waiting = NONE /\ j.tcb[t].granted = g
      /\ (j.tcb[t].semGranted <=> g # NONE) /\ j.tcb[t].state = "Ready"
      /\ \A r \in Resources : \A u : In(j.queue[r], u) <=> In(k.queue[r], u) /\ u # t
  BY DEF Left
<1>2. k \in KernelType /\ Acyclic(k) /\ Waits(k) /\ Grants(k) /\ Frees(k)
  BY DEF KInv
<1>3. \A u \in Tasks : u # t => /\ j.tcb[u].waiting = k.tcb[u].waiting
                                /\ j.tcb[u].state = k.tcb[u].state
                                /\ j.tcb[u].granted = k.tcb[u].granted
                                /\ j.tcb[u].semGranted = k.tcb[u].semGranted
  BY <1>1 DEF SameTask
<1>4. Acyclic(j)
  <2>1. \A u \in Tasks : Succ(j, u) \in {Succ(k, u), NIL}
    BY <1>1, <1>3, ResourcesAssumption DEF Succ
  <2> QED  BY <1>2, <2>1, AcyclicLess
<1>5. Waits(j)
  <2>1. \A u \in Tasks : k.tcb[u].waiting \in Resources \cup {NONE}
    BY <1>2 DEF KernelType, TcbType
  <2> QED  BY <1>1, <1>2, <1>3, <2>1 DEF Waits
<1>6. Grants(j)
  <2>1. g \notin Mutexes
    BY ResourcesAssumption
  <2> QED  BY <1>1, <1>2, <1>3, <2>1 DEF Grants
<1>7. \A r \in Resources : k.queue[r] = <<>> => j.queue[r] = <<>>
  BY <1>1, <1>2, EmptyQueue
<1>8. Frees(j)
  BY <1>1, <1>2, <1>7 DEF Frees, Resources
<1> QED  BY <1>1, <1>4, <1>5, <1>6, <1>8 DEF KInv

\* At most the tasks of S have stopped waiting, with nothing; nothing else that
\* grants, owners or permits depend on has changed.
Leaves(k, j, S) ==
  /\ j.count = k.count /\ j.owner = k.owner /\ j.depth = k.depth
  /\ \A u \in Tasks :
       /\ j.tcb[u].granted = k.tcb[u].granted
       /\ j.tcb[u].waiting = k.tcb[u].waiting \/ (u \in S /\ j.tcb[u].waiting = NONE)
       /\ j.tcb[u].state = "Free" <=> k.tcb[u].state = "Free"

\* One task leaves.
LEMMA LeftLeaves ==
  ASSUME NEW k, KInv(k), NEW t \in Tasks, k.tcb[t].waiting # NONE, NEW j, Left(k, j, t, NONE)
  PROVE  Leaves(k, j, {t})
<1>1. k.tcb[t].granted = NONE /\ k.tcb[t].state = "Blocked"
  BY DEF KInv, Waits, Grants
<1> QED  BY <1>1 DEF Left, Leaves, SameTask

\* A timer scan: every task that is due leaves its queue, whatever the changes
\* of priority that the ones before it caused.
LEMMA LeaveAllFacts ==
  ASSUME NEW k, KInv(k), NEW ts \in Seq(Tasks), Distinct(ts),
         \A i \in DOMAIN ts : k.tcb[ts[i]].waiting # NONE,
         NEW j, j = LeaveAll(k, ts)
  PROVE  /\ KInv(j) /\ Leaves(k, j, Members(ts, Len(ts)))
         /\ Exact(k, Tasks) => Exact(j, Tasks) /\ j.fault = k.fault
<1> DEFINE n == Len(ts)
           M(i) == Members(ts, i)
           OK(e, i) == /\ KInv(e) /\ Leaves(k, e, M(i))
                       /\ Exact(k, Tasks) => Exact(e, Tasks) /\ e.fault = k.fault
<1>1. PICK f : /\ f[0] = k
               /\ \A i \in 1..n : f[i] = LeaveQueue(f[i - 1], ts[i])
               /\ j = f[n]
  BY LeaveAllDef
<1> DEFINE Good == {i \in 0..n : OK(f[i], i)}
<1>2. /\ n \in Nat
      /\ \A i \in 1..n : ts[i] \in Tasks /\ k.tcb[ts[i]].waiting # NONE
      /\ \A i, x \in 1..n : ts[i] = ts[x] => i = x
  BY DEF Distinct
<1> HIDE DEF n
<1>3. 0 \in Good
  <2>1. Leaves(k, k, M(0))
    BY DEF Leaves
  <2> HIDE DEF M
  <2> QED  BY <1>1, <1>2, <2>1
<1>4. ASSUME NEW i \in 1..n, i - 1 \in Good  PROVE i \in Good
  <2>1. SUFFICES ASSUME NEW l, l = f[i - 1], NEW u, u = ts[i], NEW e, e = f[i]
                 PROVE  OK(e, i)
    BY <1>2
  <2>2. OK(l, i - 1) /\ u \in Tasks /\ e = LeaveQueue(l, u)
    BY <1>1, <1>2, <1>4, <2>1
  <2>3. u \notin M(i - 1) /\ u \in M(i) /\ M(i - 1) \subseteq M(i)
    <3>1. \A x \in 1..(i - 1) : x \in 1..n /\ x # i /\ x \in 1..i
      BY <1>2
    <3>2. i \in 1..i
      BY <1>2
    <3> QED  BY <1>2, <2>1, <3>1, <3>2 DEF Members
  <2> HIDE DEF M
  <2>4. KInv(l) /\ Leaves(k, l, M(i - 1)) /\ (Exact(k, Tasks) => Exact(l, Tasks) /\ l.fault = k.fault)
    BY <2>2
  <2>5. l.tcb[u].waiting # NONE
    BY <1>2, <2>1, <2>2, <2>3, <2>4 DEF Leaves
  <2>6. Left(l, e, u, NONE) /\ (Exact(l, Tasks) => Exact(e, Tasks) /\ e.fault = l.fault)
    BY <2>2, <2>4, <2>5, LeaveQueueFacts
  <2>7. KInv(e)
    BY <2>2, <2>4, <2>6, LeftInv, Zenon
  <2>8. Leaves(l, e, {u})
    BY <2>2, <2>4, <2>5, <2>6, LeftLeaves
  <2>9. Leaves(k, e, M(i))
    BY <2>3, <2>4, <2>8 DEF Leaves
  <2> QED  BY <2>4, <2>6, <2>7, <2>9
<1>5. \A i \in 0..n : i \in Good
  <2> HIDE DEF Good
  <2>1. \A i \in 1..n : i - 1 \in Good => i \in Good
    BY <1>4
  <2> QED  BY <1>2, <1>3, <2>1, Induction
<1>6. n \in Good
  BY <1>2, <1>5
<1>7. OK(f[n], n)
  BY <1>6
<1> QED  BY <1>1, <1>7 DEF n

-----------------------------------------------------------------------------
(* Releases. *)

\* In a the task t, which waited for r, is unlinked from its queue.
Popped(k, a, r, t) ==
  /\ t \in Tasks /\ k.tcb[t].waiting = r /\ In(k.queue[r], t)
  /\ Relinked(k, a, r, FALSE, t)

\* The head of the queue of r is unlinked.
LEMMA PopFacts ==
  ASSUME NEW k, KInv(k), NEW r \in Resources, k.queue[r] # <<>>,
         NEW t, t = Head(k.queue[r]), NEW a, a = [k EXCEPT !.queue[r] = Tail(@)]
  PROVE  Popped(k, a, r, t)
<1>1. /\ k \in KernelType /\ k.queue[r] \in Seq(Tasks) /\ Distinct(k.queue[r])
      /\ Sorted(k.tcb, k.queue[r])
      /\ \A u : In(k.queue[r], u) => k.tcb[u].waiting = r
  BY DEF KInv, QueuesOK, KernelType
<1>2. SUFFICES ASSUME NEW q, q = k.queue[r], NEW w, w = Tail(q)
               PROVE  Popped(k, a, r, t)
  OBVIOUS
<1>3. q \in Seq(Tasks) /\ q # <<>> /\ Distinct(q)
  BY <1>1, <1>2
<1>4. t \in Tasks /\ In(q, t) /\ t = q[1]
  BY <1>2, <1>3 DEF In
<1>5. /\ w \in Seq(Tasks) /\ Len(w) = Len(q) - 1 /\ DOMAIN w = 1..(Len(q) - 1)
      /\ \A i \in 1..(Len(q) - 1) : w[i] = q[i + 1]
  BY <1>2, <1>3
<1>6. /\ Len(q) \in Nat /\ DOMAIN q = 1..Len(q)
      /\ \A i, x \in 1..Len(q) : q[i] = q[x] => i = x
  BY <1>3 DEF Distinct
<1>7. ASSUME NEW u  PROVE In(w, u) <=> In(q, u) /\ u # t
  <2>1. ASSUME In(w, u)  PROVE In(q, u) /\ u # t
    <3>1. PICK i \in 1..(Len(q) - 1) : q[i + 1] = u
      BY <2>1, <1>5 DEF In
    <3>2. i + 1 \in 1..Len(q) /\ i + 1 # 1 /\ 1 \in 1..Len(q)
      BY <1>6
    <3> QED  BY <3>1, <3>2, <1>4, <1>6 DEF In
  <2>2. ASSUME In(q, u), u # t  PROVE In(w, u)
    <3>1. PICK i \in 1..Len(q) : q[i] = u
      BY <2>2, <1>6 DEF In
    <3>2. i - 1 \in 1..(Len(q) - 1) /\ (i - 1) + 1 = i
      BY <3>1, <2>2, <1>4, <1>6
    <3>3. w[i - 1] = u
      BY <3>1, <3>2, <1>5
    <3> QED  BY <3>2, <3>3, <1>5 DEF In
  <2> QED  BY <2>1, <2>2
<1>8. Distinct(w)
  <2> SUFFICES ASSUME NEW i \in 1..(Len(q) - 1), NEW x \in 1..(Len(q) - 1), w[i] = w[x]
               PROVE  i = x
    BY <1>5 DEF Distinct
  <2>1. i + 1 \in 1..Len(q) /\ x + 1 \in 1..Len(q) /\ q[i + 1] = q[x + 1]
    BY <1>5, <1>6
  <2>2. i + 1 = x + 1
    BY <2>1, <1>6
  <2> QED  BY <2>2, <1>6
<1>9. Sorted(k.tcb, w)
  <2> SUFFICES ASSUME NEW i \in 1..(Len(q) - 1), NEW x \in 1..(Len(q) - 1), i < x
               PROVE  k.tcb[w[i]].priority <= k.tcb[w[x]].priority
    BY <1>5 DEF Sorted
  <2>1. i + 1 \in DOMAIN q /\ x + 1 \in DOMAIN q /\ i + 1 < x + 1
    BY <1>6
  <2>2. w[i] = q[i + 1] /\ w[x] = q[x + 1]
    BY <1>5
  <2> QED  BY <2>1, <2>2, <1>1, <1>2 DEF Sorted
<1>10. /\ a \in KernelType
       /\ a.tcb = k.tcb /\ a.count = k.count /\ a.owner = k.owner
       /\ a.depth = k.depth /\ a.fault = k.fault /\ a.queue[r] = w
       /\ \A s \in Resources : s # r => a.queue[s] = k.queue[s]
  <2>1. a = [k EXCEPT !.queue = [k.queue EXCEPT ![r] = w]]
    BY <1>1, <1>2 DEF KernelType
  <2>2. w \in Seq(Tasks)
    BY <1>5
  <2> QED  BY ONLY r \in Resources, <2>1, <2>2, <1>1 DEF KernelType
<1>11. QueuesOK(a)
  <2> SUFFICES ASSUME NEW s \in Resources
               PROVE  /\ Distinct(a.queue[s]) /\ Sorted(a.tcb, a.queue[s])
                      /\ \A u : In(a.queue[s], u) => a.tcb[u].waiting = s
    BY DEF QueuesOK
  <2>1. CASE s = r
    BY <2>1, <1>1, <1>2, <1>7, <1>8, <1>9, <1>10
  <2>2. CASE s # r
    BY <2>2, <1>10 DEF QueuesOK, KInv
  <2> QED  BY <2>1, <2>2
<1>12. In(a.queue[r], t) = FALSE
  <2>1. ~In(w, t)
    BY <1>7
  <2> QED  BY <2>1, <1>10 DEF In
<1>13. \A u : u # t => (In(a.queue[r], u) <=> In(k.queue[r], u))
  BY <1>2, <1>7, <1>10
<1> QED  BY <1>1, <1>2, <1>4, <1>10, <1>11, <1>12, <1>13 DEF Relinked, Popped

\* Permits of s that are in the count or granted.
GrantsOf(k, s) == {u \in Tasks : k.tcb[u].granted = s}
Permits(k, s) == k.count[s] + Cardinality(GrantsOf(k, s))

\* Grants are only added, to tasks that waited for what they were granted, and
\* no task starts to wait, exits or is spawned.
Moves(k, j) ==
  \A u \in Tasks :
    /\ \/ j.tcb[u].granted = k.tcb[u].granted
       \/ k.tcb[u].granted = NONE /\ j.tcb[u].granted = k.tcb[u].waiting
    /\ j.tcb[u].waiting = k.tcb[u].waiting \/ j.tcb[u].waiting = NONE
    /\ j.tcb[u].state = "Free" <=> k.tcb[u].state = "Free"

\* GrantsOf is finite.
LEMMA GrantsFinite ==
  ASSUME NEW k, NEW s
  PROVE  IsFiniteSet(GrantsOf(k, s)) /\ Cardinality(GrantsOf(k, s)) \in Nat
<1>1. GrantsOf(k, s) \in SUBSET Tasks
  BY DEF GrantsOf
<1> QED  BY <1>1, TaskFacts, FS_Subset, FS_CardinalityType

\* What release_semaphore_locked does for everybody else's sake.
Posted(k, j, s) ==
  /\ j.owner = k.owner /\ j.depth = k.depth /\ j.fault = k.fault
  /\ Moves(k, j)
  /\ Permits(j, s) = Permits(k, s) + 1
  /\ \A x \in Sems : x # s => Permits(j, x) = Permits(k, x)

\* A permit goes to the count when nobody waits for it.
LEMMA PostCount ==
  ASSUME NEW k, KInv(k), NEW s \in Sems, k.queue[s] = <<>>,
         NEW j, j = [k EXCEPT !.count[s] = @ + 1]
  PROVE  /\ KInv(j) /\ Posted(k, j, s)
         /\ Exact(k, Tasks) => Exact(j, Tasks)
<1>1. k \in KernelType /\ QueuesOK(k) /\ Acyclic(k) /\ Waits(k) /\ Grants(k) /\ Frees(k)
  BY DEF KInv
<1>2. /\ j \in KernelType /\ j.tcb = k.tcb /\ j.queue = k.queue /\ j.owner = k.owner
      /\ j.depth = k.depth /\ j.fault = k.fault /\ j.count[s] = k.count[s] + 1
      /\ k.count[s] \in Nat
      /\ \A x \in Sems : x # s => j.count[x] = k.count[x]
  <2> DEFINE c == [k.count EXCEPT ![s] = @ + 1]
  <2>1. k.count \in [Sems -> Nat]
    BY <1>1 DEF KernelType
  <2>2. /\ c \in [Sems -> Nat] /\ c[s] = k.count[s] + 1 /\ k.count[s] \in Nat
        /\ \A x \in Sems : x # s => c[x] = k.count[x]
    BY <2>1
  <2>3. j = [k EXCEPT !.count = c]
    BY <1>1 DEF KernelType
  <2> HIDE DEF c
  <2>4. /\ j \in KernelType /\ j.tcb = k.tcb /\ j.queue = k.queue /\ j.owner = k.owner
        /\ j.depth = k.depth /\ j.fault = k.fault /\ j.count = c
    BY ONLY <1>1, <2>2, <2>3 DEF KernelType
  <2> QED  BY <2>2, <2>4
<1>3. QueuesOK(j) /\ Waits(j) /\ Grants(j)
  BY <1>1, <1>2 DEF QueuesOK, Waits, Grants
<1>4. Frees(j)
  BY <1>1, <1>2 DEF Frees
<1>5. \A u : Succ(j, u) = Succ(k, u)
  BY <1>2 DEF Succ
<1>6. Acyclic(j)
  BY <1>1, <1>5 DEF Acyclic
<1>7. \A x : GrantsOf(j, x) = GrantsOf(k, x)
  BY <1>2 DEF GrantsOf
<1>8. Posted(k, j, s)
  <2>1. Moves(k, j)
    BY <1>2 DEF Moves
  <2>2. Cardinality(GrantsOf(k, s)) \in Nat
    BY GrantsFinite
  <2>3. Permits(j, s) = Permits(k, s) + 1
    BY <1>2, <1>7, <2>2 DEF Permits
  <2> QED  BY <1>2, <1>7, <2>1, <2>3 DEF Posted, Permits
<1>9. ASSUME Exact(k, Tasks)  PROVE Exact(j, Tasks)
  <2>1. SameDonations(k, Tasks, j, Tasks)
    BY <1>2, <1>5 DEF SameDonations
  <2>2. Tasks \in SUBSET Tasks
    OBVIOUS
  <2> QED  BY <1>9, <2>1, <2>2, ExactKept
<1> QED  BY <1>1, <1>2, <1>3, <1>4, <1>6, <1>8, <1>9 DEF KInv

\* A permit goes to the head waiter.
LEMMA PostHead ==
  ASSUME NEW k, KInv(k), NEW s \in Sems, k.queue[s] # <<>>,
         NEW h, h = Head(k.queue[s]), NEW a, a = [k EXCEPT !.queue[s] = Tail(@)],
         NEW j, j = EndWait(a, h, s)
  PROVE  /\ KInv(j) /\ Posted(k, j, s)
         /\ Exact(k, Tasks) => Exact(j, Tasks)
<1>0. s \in Resources /\ s # NONE /\ s \notin Mutexes
  BY ResourcesAssumption DEF Resources
<1>1. h \in Tasks /\ k.tcb[h].waiting = s /\ Relinked(k, a, s, FALSE, h)
  <2>1. Popped(k, a, s, h)
    BY <1>0, PopFacts
  <2> QED  BY <2>1 DEF Popped
<1>2. /\ a \in KernelType /\ QueuesOK(a) /\ a.tcb = k.tcb /\ a.owner = k.owner
      /\ a.count = k.count /\ a.depth = k.depth /\ a.fault = k.fault
  BY <1>1 DEF Relinked
<1>3. Unlinked(k, a, h)
  BY <1>0, <1>1, UnlinkedSound
<1>4. Ended(a, j, h, s)
  BY <1>0, <1>1, <1>2, EndWaitFacts
<1>5. QueuesOK(j)
  BY <1>1, <1>2, <1>3, <1>4, UnlinkedEnds DEF Unlinked
<1>6. Left(k, j, h, s)
  <2>1. \A u \in Tasks : u # h => SameTask(k.tcb[u], j.tcb[u])
    BY <1>2, <1>4 DEF Ended, SameTask
  <2>2. \A r \in Resources : \A u : In(j.queue[r], u) <=> In(k.queue[r], u) /\ u # h
    BY <1>3, <1>4 DEF Ended, Unlinked
  <2> QED  BY <1>2, <1>4, <1>5, <2>1, <2>2 DEF Left, Ended
<1>7. KInv(j)
  BY <1>1, <1>6, LeftInv
<1>8. k.tcb[h].granted = NONE /\ k.tcb[h].state = "Blocked"
  BY <1>0, <1>1 DEF KInv, Waits, Grants
<1>9. /\ j.tcb[h].granted = s /\ j.tcb[h].waiting = NONE /\ j.tcb[h].state = "Ready"
      /\ \A u \in Tasks : u # h => j.tcb[u] = k.tcb[u]
      /\ j.count = k.count /\ j.owner = k.owner /\ j.depth = k.depth /\ j.fault = k.fault
  BY <1>2, <1>4 DEF Ended
<1>10. Posted(k, j, s)
  <2>1. Moves(k, j)
    BY <1>1, <1>8, <1>9 DEF Moves
  <2>2. GrantsOf(j, s) = GrantsOf(k, s) \cup {h} /\ h \notin GrantsOf(k, s)
    BY <1>0, <1>1, <1>8, <1>9 DEF GrantsOf
  <2>3. \A x \in Sems : x # s => GrantsOf(j, x) = GrantsOf(k, x)
    <3> SUFFICES ASSUME NEW x \in Sems, x # s, NEW u \in Tasks
                 PROVE  j.tcb[u].granted = x <=> k.tcb[u].granted = x
      BY DEF GrantsOf
    <3>1. x # NONE
      BY ResourcesAssumption
    <3>2. CASE u = h
      BY <3>1, <3>2, <1>8, <1>9
    <3>3. CASE u # h
      BY <3>3, <1>9
    <3> QED  BY <3>2, <3>3
  <2>4. Cardinality(GrantsOf(j, s)) = Cardinality(GrantsOf(k, s)) + 1
    <3>1. IsFiniteSet(GrantsOf(k, s))
      BY GrantsFinite
    <3> QED  BY <2>2, <3>1, FS_AddElement
  <2>5. Cardinality(GrantsOf(k, s)) \in Nat /\ k.count[s] \in Nat
    BY GrantsFinite DEF KInv, KernelType
  <2>6. Permits(j, s) = Permits(k, s) + 1
    <3>1. j.count[s] = k.count[s]
      BY <1>9
    <3> QED  BY ONLY <3>1, <2>4, <2>5 DEF Permits
  <2> QED  BY <1>9, <2>1, <2>3, <2>6 DEF Posted, Permits
<1>11. ASSUME Exact(k, Tasks)  PROVE Exact(j, Tasks)
  <2>1. \A u \in Tasks : Succ(j, u) = Succ(k, u)
    BY <1>0, <1>1, <1>9, ResourcesAssumption DEF Succ
  <2>2. SameDonations(k, Tasks, j, Tasks)
    BY <1>2, <1>4, <2>1 DEF SameDonations, Ended
  <2>3. Tasks \in SUBSET Tasks
    OBVIOUS
  <2> QED  BY <1>11, <2>2, <2>3, ExactKept
<1> QED  BY <1>7, <1>10, <1>11

\* release_semaphore_locked.
LEMMA ReleaseSemaphoreFacts ==
  ASSUME NEW k, KInv(k), NEW s \in Sems, NEW j, j = ReleaseSemaphoreLocked(k, s)
  PROVE  /\ KInv(j) /\ Posted(k, j, s)
         /\ Exact(k, Tasks) => Exact(j, Tasks)
<1>1. CASE k.queue[s] = <<>>
  <2>1. j = [k EXCEPT !.count[s] = @ + 1]
    BY <1>1 DEF ReleaseSemaphoreLocked
  <2> QED  BY <1>1, <2>1, PostCount
<1>2. CASE k.queue[s] # <<>>
  <2>1. SUFFICES ASSUME NEW h, h = Head(k.queue[s]), NEW a, a = [k EXCEPT !.queue[s] = Tail(@)]
                 PROVE  /\ KInv(j) /\ Posted(k, j, s)
                        /\ Exact(k, Tasks) => Exact(j, Tasks)
    OBVIOUS
  <2>2. j = EndWait(a, h, s)
    BY <1>2, <2>1 DEF ReleaseSemaphoreLocked
  <2> QED  BY <1>2, <2>1, <2>2, PostHead
<1> QED  BY <1>1, <1>2

\* What release_mutex_locked does for everybody else's sake.
Released(k, j, m) ==
  /\ j.count = k.count
  /\ Moves(k, j)
  /\ \A s \in Sems : GrantsOf(j, s) = GrantsOf(k, s)
  /\ \A x \in Mutexes : x # m => j.owner[x] = k.owner[x] /\ j.depth[x] = k.depth[x]
  /\ j.owner[m] = NIL \/ (j.owner[m] \in Tasks /\ j.tcb[j.owner[m]].granted = m)

\* The mutex is handed to nobody that has resumed.
Ungranted(k, m) == \A u \in Tasks : k.tcb[u].granted # m

\* Nobody waits: the mutex becomes free.
LEMMA FreeMutex ==
  ASSUME NEW k, KInv(k), NEW m \in Mutexes, Ungranted(k, m), k.queue[m] = <<>>,
         NEW j, j = [k EXCEPT !.owner[m] = NIL]
  PROVE  /\ KInv(j) /\ Released(k, j, m)
         /\ Exact(k, Tasks) => Exact(j, Tasks) /\ j.fault = k.fault
<1>0. m \in Resources /\ m # NONE
  BY ResourcesAssumption DEF Resources
<1>1. k \in KernelType /\ QueuesOK(k) /\ Acyclic(k) /\ Waits(k) /\ Grants(k) /\ Frees(k)
  BY DEF KInv
<1>2. /\ j \in KernelType /\ j.tcb = k.tcb /\ j.queue = k.queue /\ j.count = k.count
      /\ j.depth = k.depth /\ j.fault = k.fault /\ j.owner[m] = NIL
      /\ \A x \in Mutexes : x # m => j.owner[x] = k.owner[x]
  BY <1>1 DEF KernelType
<1>3. \A u \in Tasks : k.tcb[u].waiting # m
  BY <1>0, <1>1, EmptyQueue DEF Waits
<1>4. \A u \in Tasks : Succ(j, u) = Succ(k, u)
  BY <1>2, <1>3 DEF Succ
<1>5. Acyclic(j)
  BY <1>1, <1>4 DEF Acyclic
<1>6. QueuesOK(j) /\ Waits(j)
  BY <1>1, <1>2 DEF QueuesOK, Waits
<1>7. Grants(j)
  BY <1>1, <1>2 DEF Grants, Ungranted
<1>8. Frees(j)
  BY <1>1, <1>2 DEF Frees
<1>9. Released(k, j, m)
  BY <1>2 DEF Released, Moves, GrantsOf
<1>10. ASSUME Exact(k, Tasks)  PROVE Exact(j, Tasks) /\ j.fault = k.fault
  <2>1. SameDonations(k, Tasks, j, Tasks)
    BY <1>2, <1>4 DEF SameDonations
  <2>2. Tasks \in SUBSET Tasks
    OBVIOUS
  <2> QED  BY <1>2, <1>10, <2>1, <2>2, ExactKept
<1> QED  BY <1>2, <1>5, <1>6, <1>7, <1>8, <1>9, <1>10 DEF KInv

\* In d the mutex m belongs to h, which waited for it; its waiters have not
\* donated yet.
Handed(k, d, m, h) ==
  /\ d \in KernelType /\ QueuesOK(d)
  /\ d.count = k.count
  /\ \A u \in Tasks : u # h => SameTask(k.tcb[u], d.tcb[u])
  /\ d.tcb[h].waiting = NONE /\ d.tcb[h].granted = m
  /\ d.tcb[h].semGranted /\ d.tcb[h].state = "Ready"
  /\ \A r \in Resources : \A u : In(d.queue[r], u) <=> In(k.queue[r], u) /\ u # h
  /\ d.owner[m] = h /\ d.depth[m] = 1
  /\ \A x \in Mutexes : x # m => d.owner[x] = k.owner[x] /\ d.depth[x] = k.depth[x]

\* The handoff closes no cycle and leaves everything else in place.
LEMMA HandedInv ==
  ASSUME NEW k, KInv(k), NEW m \in Mutexes, Ungranted(k, m), NEW h \in Tasks,
         k.tcb[h].waiting = m, NEW d, Handed(k, d, m, h)
  PROVE  KInv(d) /\ Released(k, d, m)
<1>0. m \in Resources /\ m # NONE /\ m \notin Sems /\ NONE \notin Mutexes
  BY ResourcesAssumption DEF Resources
<1>1. k \in KernelType /\ Acyclic(k) /\ Waits(k) /\ Grants(k) /\ Frees(k)
  BY DEF KInv
<1>2. /\ d \in KernelType /\ QueuesOK(d) /\ d.count = k.count
      /\ d.tcb[h].waiting = NONE /\ d.tcb[h].granted = m
      /\ d.tcb[h].semGranted /\ d.tcb[h].state = "Ready"
      /\ \A r \in Resources : \A u : In(d.queue[r], u) <=> In(k.queue[r], u) /\ u # h
      /\ d.owner[m] = h /\ d.depth[m] = 1
      /\ \A x \in Mutexes : x # m => d.owner[x] = k.owner[x] /\ d.depth[x] = k.depth[x]
  BY DEF Handed
<1>3. \A u \in Tasks : u # h => /\ d.tcb[u].waiting = k.tcb[u].waiting
                                /\ d.tcb[u].state = k.tcb[u].state
                                /\ d.tcb[u].granted = k.tcb[u].granted
                                /\ d.tcb[u].semGranted = k.tcb[u].semGranted
  BY DEF Handed, SameTask
<1>4. k.tcb[h].state = "Blocked" /\ k.tcb[h].granted = NONE
  BY <1>0, <1>1 DEF Waits, Grants
<1>5. Acyclic(d)
  <2> SUFFICES ASSUME NEW S \in SUBSET Tasks, S # {}  PROVE \E u \in S : Succ(d, u) \notin S
    BY DEF Acyclic
  <2>0. NIL \notin S
    BY TaskFacts
  <2>1. CASE h \in S
    <3>1. Succ(d, h) = NIL
      BY <1>0, <1>2 DEF Succ
    <3> QED  BY <2>0, <2>1, <3>1
  <2>2. CASE h \notin S
    <3>1. PICK u \in S : Succ(k, u) \notin S
      BY <1>1 DEF Acyclic
    <3>2. u # h /\ d.tcb[u].waiting = k.tcb[u].waiting
      BY <1>3, <2>2
    <3>3. CASE k.tcb[u].waiting = m
      <4>1. Succ(d, u) = h
        BY <1>2, <3>2, <3>3 DEF Succ
      <4> QED  BY <2>2, <4>1
    <3>4. CASE k.tcb[u].waiting # m
      <4>1. Succ(d, u) = Succ(k, u)
        BY <1>2, <3>2, <3>4 DEF Succ
      <4> QED  BY <3>1, <4>1
    <3> QED  BY <3>3, <3>4
  <2> QED  BY <2>1, <2>2
<1>6. Waits(d)
  <2>1. \A u \in Tasks : k.tcb[u].waiting \in Resources \cup {NONE}
    BY <1>1 DEF KernelType, TcbType
  <2> SUFFICES ASSUME NEW u \in Tasks
               PROVE  /\ d.tcb[u].waiting # NONE <=> d.tcb[u].state = "Blocked"
                      /\ d.tcb[u].waiting # NONE => In(d.queue[d.tcb[u].waiting], u)
    BY DEF Waits
  <2>2. CASE u = h
    <3>1. d.tcb[u].waiting = NONE /\ d.tcb[u].state = "Ready"
      BY <2>2, <1>2
    <3> QED  BY ONLY <3>1
  <2>3. CASE u # h
    <3>1. d.tcb[u].waiting = k.tcb[u].waiting /\ d.tcb[u].state = k.tcb[u].state
      BY <2>3, <1>3
    <3>2. /\ k.tcb[u].waiting # NONE <=> k.tcb[u].state = "Blocked"
          /\ k.tcb[u].waiting # NONE => In(k.queue[k.tcb[u].waiting], u)
      BY <1>1 DEF Waits
    <3>3. k.tcb[u].waiting # NONE => In(d.queue[k.tcb[u].waiting], u)
      BY <2>1, <2>3, <1>2, <3>2
    <3> QED  BY ONLY <3>1, <3>2, <3>3
  <2> QED  BY <2>2, <2>3
<1>7. Grants(d)
  <2> SUFFICES ASSUME NEW u \in Tasks
               PROVE  /\ d.tcb[u].semGranted <=> d.tcb[u].granted # NONE
                      /\ d.tcb[u].granted # NONE => d.tcb[u].state = "Ready"
                      /\ d.tcb[u].granted \in Mutexes =>
                           d.owner[d.tcb[u].granted] = u /\ d.depth[d.tcb[u].granted] = 1
    BY DEF Grants
  <2>1. CASE u = h
    BY <2>1, <1>0, <1>2
  <2>2. CASE u # h
    <3>1. k.tcb[u].granted # m
      BY DEF Ungranted
    <3> QED  BY <2>2, <3>1, <1>1, <1>2, <1>3 DEF Grants
  <2> QED  BY <2>1, <2>2
<1>8. \A r \in Resources : k.queue[r] = <<>> => d.queue[r] = <<>>
  BY <1>1, <1>2, EmptyQueue
<1>9. Frees(d)
  <2>1. h # NIL
    BY TaskFacts
  <2> QED  BY <1>1, <1>2, <1>8, <2>1 DEF Frees, Resources
<1>10. Moves(k, d)
  <2> SUFFICES ASSUME NEW u \in Tasks
               PROVE  /\ \/ d.tcb[u].granted = k.tcb[u].granted
                         \/ k.tcb[u].granted = NONE /\ d.tcb[u].granted = k.tcb[u].waiting
                      /\ d.tcb[u].waiting = k.tcb[u].waiting \/ d.tcb[u].waiting = NONE
                      /\ d.tcb[u].state = "Free" <=> k.tcb[u].state = "Free"
    BY DEF Moves
  <2>1. CASE u = h
    BY <2>1, <1>2, <1>4
  <2>2. CASE u # h
    BY <2>2, <1>3
  <2> QED  BY <2>1, <2>2
<1>11. ASSUME NEW s \in Sems  PROVE GrantsOf(d, s) = GrantsOf(k, s)
  <2> SUFFICES ASSUME NEW u \in Tasks  PROVE d.tcb[u].granted = s <=> k.tcb[u].granted = s
    BY DEF GrantsOf
  <2>1. s # m /\ s # NONE
    BY <1>0, ResourcesAssumption
  <2>2. CASE u = h
    BY <2>1, <2>2, <1>2, <1>4
  <2>3. CASE u # h
    BY <2>3, <1>3
  <2> QED  BY <2>2, <2>3
<1>12. Released(k, d, m)
  BY <1>2, <1>10, <1>11 DEF Released
<1> QED  BY <1>2, <1>5, <1>6, <1>7, <1>9, <1>12 DEF KInv

\* Inheritance keeps the invariant and what others rely on.
LEMMA SameInv ==
  ASSUME NEW k, KInv(k), NEW j, Same(k, j)
  PROVE  KInv(j)
<1>1. k \in KernelType /\ Acyclic(k) /\ Waits(k) /\ Grants(k) /\ Frees(k)
  BY DEF KInv
<1>2. /\ j \in KernelType /\ QueuesOK(j)
      /\ j.count = k.count /\ j.owner = k.owner /\ j.depth = k.depth
      /\ \A r \in Resources : \A u : In(j.queue[r], u) <=> In(k.queue[r], u)
  BY DEF Same
<1>3. \A u \in Tasks : /\ j.tcb[u].waiting = k.tcb[u].waiting
                       /\ j.tcb[u].state = k.tcb[u].state
                       /\ j.tcb[u].granted = k.tcb[u].granted
                       /\ j.tcb[u].semGranted = k.tcb[u].semGranted
  BY DEF Same, SameTask
<1>4. Acyclic(j)
  BY <1>1, SameAcyclic
<1>5. \A u \in Tasks : k.tcb[u].waiting \in Resources \cup {NONE}
  BY <1>1 DEF KernelType, TcbType
<1>6. Waits(j)
  BY <1>1, <1>2, <1>3, <1>5 DEF Waits
<1>7. Grants(j)
  BY <1>1, <1>2, <1>3 DEF Grants
<1>8. \A r \in Resources : k.queue[r] = <<>> => j.queue[r] = <<>>
  BY <1>1, <1>2, EmptyQueue
<1>9. Frees(j)
  BY <1>1, <1>2, <1>8 DEF Frees, Resources
<1> QED  BY <1>2, <1>4, <1>6, <1>7, <1>9 DEF KInv

\* A state that satisfies the invariant is one in which donations to anybody can
\* be propagated.
LEMMA InvSound ==
  ASSUME NEW k, KInv(k), NEW o
  PROVE  Sound(k, o)
<1>1. LinkedBut(k, o)
  BY ResourcesAssumption DEF KInv, Waits, LinkedBut, Resources
<1> QED  BY <1>1 DEF Sound, KInv

\* The members of a list are the elements in it.
LEMMA MembersIn ==
  ASSUME NEW S, NEW us \in Seq(S), NEW u
  PROVE  u \in Members(us, Len(us)) <=> In(us, u)
<1>1. DOMAIN us = 1..Len(us)
  OBVIOUS
<1> QED  BY <1>1 DEF Members, In

\* The first half of release_mutex_locked for a mutex with waiters: a has popped
\* the head h, in f every waiter has withdrawn its donation to the old owner o,
\* in d the mutex is h's.
HandsOver(k, m, o, h, a, f, d) ==
  /\ h \in Tasks /\ k.tcb[h].waiting = m
  /\ Sound(a, o) /\ a.tcb = k.tcb /\ a.fault = k.fault
  /\ \A u \in Tasks : Succ(a, u) = Succ(k, u)
  /\ Same(a, f)
  /\ Handed(k, d, m, h) /\ d.fault = f.fault
  /\ \A u \in Tasks : /\ d.tcb[u].priority = f.tcb[u].priority
                      /\ d.tcb[u].inherited = f.tcb[u].inherited
                      /\ d.tcb[u].base = f.tcb[u].base

\* In b the mutex m has been given to h at depth one.
Taken(f, b, m, h) ==
  /\ b \in KernelType /\ b.queue = f.queue /\ b.tcb = f.tcb /\ b.count = f.count
  /\ b.fault = f.fault
  /\ b.owner[m] = h /\ b.depth[m] = 1
  /\ \A x \in Mutexes : x # m => b.owner[x] = f.owner[x] /\ b.depth[x] = f.depth[x]

\* The assignment of owner and depth does that.
LEMMA TakeFacts ==
  ASSUME NEW f \in KernelType, NEW m \in Mutexes, NEW h \in Tasks,
         NEW b, b = [f EXCEPT !.owner[m] = h, !.depth[m] = 1]
  PROVE  Taken(f, b, m, h)
BY DEF Taken, KernelType

\* The handover does that.
LEMMA HandOverFacts ==
  ASSUME NEW k, KInv(k), NEW m \in Mutexes, NEW o \in Tasks, k.owner[m] = o,
         NEW h, NEW a, Popped(k, a, m, h), NEW f, Same(a, f),
         NEW b, Taken(f, b, m, h), NEW d, d = EndWait(b, h, m)
  PROVE  HandsOver(k, m, o, h, a, f, d)
<1>0. m \in Resources /\ m # NONE
  BY ResourcesAssumption DEF Resources
<1>1. h \in Tasks /\ k.tcb[h].waiting = m /\ Relinked(k, a, m, FALSE, h)
  BY DEF Popped
<1>2. /\ a.tcb = k.tcb /\ a.owner = k.owner
      /\ a.count = k.count /\ a.depth = k.depth /\ a.fault = k.fault
  BY <1>1 DEF Relinked
<1>3. Succ(k, h) = o
  BY <1>1 DEF Succ
<1>4. /\ Sound(a, o)
      /\ \A u \in Tasks : Succ(a, u) = Succ(k, u)
      /\ \A s \in Resources : ~In(a.queue[s], h)
      /\ \A s \in Resources : \A u : In(a.queue[s], u) <=> In(k.queue[s], u) /\ u # h
  <2>1. Unlinked(k, a, h)
    BY <1>0, <1>1, UnlinkedSound
  <2> QED  BY <2>1, <1>3 DEF Unlinked
<1>6. /\ f \in KernelType /\ QueuesOK(f)
      /\ f.count = k.count /\ f.owner = k.owner /\ f.depth = k.depth
      /\ \A u \in Tasks : SameTask(k.tcb[u], f.tcb[u])
      /\ \A s \in Resources : \A u : In(f.queue[s], u) <=> In(a.queue[s], u)
  BY <1>2 DEF Same
<1>7. /\ b \in KernelType /\ b.queue = f.queue /\ b.tcb = f.tcb /\ b.count = f.count
      /\ b.fault = f.fault /\ b.owner[m] = h /\ b.depth[m] = 1
      /\ \A x \in Mutexes : x # m => b.owner[x] = f.owner[x] /\ b.depth[x] = f.depth[x]
  BY DEF Taken
<1>8. QueuesOK(b)
  BY <1>6, <1>7, QueuesKept
<1>9. Ended(b, d, h, m)
  BY <1>0, <1>1, <1>7, EndWaitFacts
<1>10. QueuesOK(d)
  <2>1. \A s \in Resources : ~In(b.queue[s], h)
    BY <1>4, <1>6, <1>7
  <2> QED  BY <1>1, <1>7, <1>8, <1>9, <2>1, UnlinkedEnds
<1>11. Handed(k, d, m, h)
  <2>1. /\ d \in KernelType /\ d.count = k.count
        /\ d.tcb[h].waiting = NONE /\ d.tcb[h].granted = m
        /\ d.tcb[h].semGranted /\ d.tcb[h].state = "Ready"
        /\ d.queue = f.queue /\ d.owner = b.owner /\ d.depth = b.depth
        /\ \A u \in Tasks : u # h => d.tcb[u] = f.tcb[u]
    BY <1>0, <1>6, <1>7, <1>9 DEF Ended
  <2>2. \A r \in Resources : \A u : In(d.queue[r], u) <=> In(k.queue[r], u) /\ u # h
    BY <1>4, <1>6, <2>1
  <2>4. /\ d.owner[m] = h /\ d.depth[m] = 1
        /\ \A x \in Mutexes : x # m => d.owner[x] = k.owner[x] /\ d.depth[x] = k.depth[x]
    BY <1>6, <1>7, <2>1
  <2>5. \A u \in Tasks : u # h => SameTask(k.tcb[u], d.tcb[u])
    BY <1>6, <2>1
  <2> QED  BY <1>10, <2>1, <2>2, <2>4, <2>5 DEF Handed
<1>12. /\ d.fault = f.fault
       /\ \A u \in Tasks : /\ d.tcb[u].priority = f.tcb[u].priority
                           /\ d.tcb[u].inherited = f.tcb[u].inherited
                           /\ d.tcb[u].base = f.tcb[u].base
  BY <1>7, <1>9 DEF Ended
<1> QED  BY <1>1, <1>2, <1>4, <1>11, <1>12 DEF HandsOver

\* The tasks that are not in the list us.
Others(us) == Tasks \ Members(us, Len(us))

\* Half way through the handover the donations of everybody but the waiters left
\* behind are counted.
LEMMA HandOverExact ==
  ASSUME NEW k, KInv(k), NEW m \in Mutexes, NEW o \in Tasks, k.owner[m] = o,
         Exact(k, Tasks), NEW h, NEW a, NEW f, NEW d, HandsOver(k, m, o, h, a, f, d),
         f = WithdrawAll(a, o, k.queue[m]),
         NEW us, us = d.queue[m], NEW D, D = Others(us)
  PROVE  Exact(d, D) /\ d.fault = k.fault
<1> SUFFICES ASSUME NEW q, q = k.queue[m], NEW E, E = Tasks \ Members(q, Len(q))
             PROVE  Exact(d, D) /\ d.fault = k.fault
  OBVIOUS
<1>0. m \in Resources /\ m # NONE /\ Tasks \in SUBSET Tasks
  BY ResourcesAssumption DEF Resources
<1>1. /\ h \in Tasks /\ k.tcb[h].waiting = m
      /\ Sound(a, o) /\ a.tcb = k.tcb /\ a.fault = k.fault
      /\ \A u \in Tasks : Succ(a, u) = Succ(k, u)
      /\ Same(a, f) /\ Handed(k, d, m, h) /\ d.fault = f.fault
      /\ \A u \in Tasks : /\ d.tcb[u].priority = f.tcb[u].priority
                          /\ d.tcb[u].inherited = f.tcb[u].inherited
                          /\ d.tcb[u].base = f.tcb[u].base
  BY DEF HandsOver
<1>2. /\ k \in KernelType /\ QueuesOK(k) /\ Waits(k)
  BY DEF KInv
<1>3. /\ q \in Seq(Tasks) /\ Distinct(q) /\ DOMAIN q = 1..Len(q)
      /\ \A i \in DOMAIN q : q[i] \in Tasks /\ k.tcb[q[i]].waiting = m
  <2>1. \A i \in DOMAIN q : In(q, q[i])
    BY DEF In
  <2> QED  BY <1>0, <1>2, <2>1, QueueMembers DEF QueuesOK
<1>4. \A u \in Tasks : In(q, u) <=> k.tcb[u].waiting = m
  BY <1>0, <1>2 DEF QueuesOK, Waits
<1>5. Exact(a, Tasks)
  <2>1. SameDonations(k, Tasks, a, Tasks)
    BY <1>1 DEF SameDonations
  <2> QED  BY <1>0, <2>1, ExactKept
<1>6. Exact(f, E) /\ f.fault = a.fault
  <2>1. \A i \in DOMAIN q : q[i] \in Tasks /\ Succ(a, q[i]) = o
    BY <1>1, <1>3 DEF Succ
  <2>2. DonorsBut(a, Tasks, o)
    BY DEF DonorsBut
  <2>3. f = WithdrawAll(a, o, q)
    OBVIOUS
  <2>4. E = Tasks \ Members(q, Len(q))
    OBVIOUS
  <2>5. q \in Seq(Tasks) /\ Distinct(q) /\ Sound(a, o)
    BY <1>1, <1>3
  <2> QED  BY ONLY <1>0, o \in Tasks, <1>5, <2>1, <2>2, <2>3, <2>4, <2>5, WithdrawAllExact, ZenonT(30)
<1>7. \A u \in Tasks : u \in E <=> k.tcb[u].waiting # m
  <2>1. \A u : u \in Members(q, Len(q)) <=> In(q, u)
    BY <1>3, MembersIn
  <2> QED  BY <1>4, <2>1
<1>8. \A u \in Tasks : u \in D <=> (u = h \/ k.tcb[u].waiting # m)
  <2>1. d.queue[m] \in Seq(Tasks)
    BY <1>0, <1>1, QueueMembers DEF Handed
  <2>2. \A u : u \in Members(d.queue[m], Len(d.queue[m])) <=> In(d.queue[m], u)
    BY <2>1, MembersIn
  <2>3. \A u \in Tasks : In(d.queue[m], u) <=> In(q, u) /\ u # h
    BY <1>0, <1>1 DEF Handed
  <2> QED  BY <1>4, <2>2, <2>3 DEF Others
<1>9. \A u \in Tasks : Succ(f, u) = Succ(k, u)
  BY <1>1, SameSucc
<1>10. SameDonations(f, E, d, D)
  <2>1. Succ(d, h) = NIL
    BY <1>1, ResourcesAssumption DEF Handed, Succ
  <2>2. \A u \in Tasks : u # h /\ k.tcb[u].waiting # m => Succ(d, u) = Succ(k, u)
    BY <1>1 DEF Handed, Succ, SameTask
  <2>3. ASSUME NEW v \in Tasks, NEW u \in Tasks
        PROVE  (u \in E /\ Succ(f, u) = v) <=> (u \in D /\ Succ(d, u) = v)
    <3>1. CASE u = h
      BY <2>1, <3>1, <1>1, <1>7, TaskFacts
    <3>2. CASE u # h
      BY <2>2, <3>2, <1>7, <1>8, <1>9
    <3> QED  BY <3>1, <3>2
  <2> QED  BY ONLY <1>1, <2>3 DEF SameDonations
<1>11. E \in SUBSET Tasks /\ D \in SUBSET Tasks
  BY DEF Others
<1>12. Exact(d, D)
  BY <1>6, <1>10, <1>11, ExactKept
<1> QED  BY <1>1, <1>6, <1>12

\* A mutex's release stays one when donations are made afterwards.
LEMMA ReleasedSame ==
  ASSUME NEW k, NEW d, NEW m \in Mutexes, Released(k, d, m), NEW j, Same(d, j)
  PROVE  Released(k, j, m)
<1>1. \A u \in Tasks : /\ j.tcb[u].waiting = d.tcb[u].waiting
                       /\ j.tcb[u].state = d.tcb[u].state
                       /\ j.tcb[u].granted = d.tcb[u].granted
  BY DEF Same, SameTask
<1>2. j.count = d.count /\ j.owner = d.owner /\ j.depth = d.depth
  BY DEF Same
<1>3. Moves(k, j)
  BY <1>1 DEF Moves, Released
<1>4. \A s \in Sems : GrantsOf(j, s) = GrantsOf(k, s)
  <2>1. \A s \in Sems : GrantsOf(j, s) = GrantsOf(d, s)
    BY <1>1 DEF GrantsOf
  <2> QED  BY <2>1 DEF Released
<1> QED  BY <1>1, <1>2, <1>3, <1>4 DEF Released

\* The waiters left behind donate to the new owner h, and all is counted again.
LEMMA ContributedExact ==
  ASSUME NEW d, KInv(d), NEW m \in Mutexes, NEW h \in Tasks, d.owner[m] = h,
         NEW us, us = d.queue[m], NEW D, D = Others(us), Exact(d, D),
         NEW j, j = ContributeAll(d, h, us)
  PROVE  Exact(j, Tasks) /\ j.fault = d.fault
<1>0. m \in Resources
  BY DEF Resources
<1>1. /\ us \in Seq(Tasks) /\ Distinct(us) /\ DOMAIN us = 1..Len(us)
      /\ \A u : In(us, u) => u \in Tasks /\ d.tcb[u].waiting = m
  BY <1>0, QueueMembers DEF KInv, QueuesOK
<1>2. \A u : u \in Members(us, Len(us)) <=> In(us, u)
  BY <1>1, MembersIn
<1>a. D = Tasks \ Members(us, Len(us))
  BY DEF Others
<1>3. \A i \in DOMAIN us : us[i] \notin D /\ Succ(d, us[i]) = h
  <2>1. \A i \in DOMAIN us : In(us, us[i])
    BY DEF In
  <2> QED  BY <1>a, <1>1, <1>2, <2>1 DEF Succ
<1>4. DonorsBut(d, D, h)
  <2>1. \A u \in Tasks : u \in D \/ In(us, u)
    BY <1>a, <1>2
  <2> QED  BY <1>1, <2>1 DEF DonorsBut, Succ
<1>5. Tasks = D \cup Members(us, Len(us))
  BY <1>a, <1>1, <1>2
<1>6. D \in SUBSET Tasks /\ Sound(d, h)
  BY <1>a, InvSound
<1>7. us \in Seq(Tasks) /\ Distinct(us)
  BY <1>1
<1>8. \A i \in DOMAIN us : us[i] \notin D /\ Succ(d, us[i]) = h
  BY <1>3
<1>9. SUFFICES ASSUME NEW E, E = D \cup Members(us, Len(us))
               PROVE  Exact(j, Tasks) /\ j.fault = d.fault
  OBVIOUS
<1>10. Exact(j, E) /\ j.fault = d.fault
  BY ONLY h \in Tasks, Exact(d, D), j = ContributeAll(d, h, us),
          <1>4, <1>6, <1>7, <1>8, <1>9, ContributeAllExact, ZenonT(30)
<1> QED  BY <1>5, <1>9, <1>10

\* release_mutex_locked, once the owner's depth is zero.
LEMMA ReleaseMutexFacts ==
  ASSUME NEW k, KInv(k), NEW m \in Mutexes, NEW o \in Tasks, k.owner[m] = o,
         Ungranted(k, m), NEW j, j = ReleaseMutexLocked(k, m, o)
  PROVE  /\ KInv(j) /\ Released(k, j, m)
         /\ Exact(k, Tasks) => Exact(j, Tasks) /\ j.fault = k.fault
<1>1. CASE k.queue[m] = <<>>
  <2>1. j = [k EXCEPT !.owner[m] = NIL]
    BY <1>1 DEF ReleaseMutexLocked
  <2> QED  BY <1>1, <2>1, FreeMutex
<1>2. CASE k.queue[m] # <<>>
  <2>0. SUFFICES ASSUME NEW h, h = Head(k.queue[m]), NEW a, a = [k EXCEPT !.queue[m] = Tail(@)],
                        NEW f, f = WithdrawAll(a, o, k.queue[m]),
                        NEW b, b = [f EXCEPT !.owner[m] = h, !.depth[m] = 1],
                        NEW d, d = EndWait(b, h, m)
                 PROVE  /\ KInv(j) /\ Released(k, j, m)
                        /\ Exact(k, Tasks) => Exact(j, Tasks) /\ j.fault = k.fault
    OBVIOUS
  <2>1. j = ContributeAll(d, h, d.queue[m])
    BY <1>2, <2>0 DEF ReleaseMutexLocked
  <2>2. m \in Resources
    BY DEF Resources
  <2>3. Popped(k, a, m, h)
    BY ONLY KInv(k), <1>2, <2>0, <2>2, PopFacts
  <2>4. h \in Tasks /\ k.tcb[h].waiting = m /\ Relinked(k, a, m, FALSE, h)
    BY ONLY <2>3 DEF Popped
  <2>5. Sound(a, o)
    <3>1. Unlinked(k, a, h)
      BY ONLY KInv(k), <2>2, <2>4, UnlinkedSound
    <3>2. Succ(k, h) = o
      BY ONLY m \in Mutexes, k.owner[m] = o, <2>4 DEF Succ
    <3> QED  BY ONLY <3>1, <3>2 DEF Unlinked
  <2>6. k.queue[m] \in Seq(Tasks)
    BY ONLY KInv(k), <2>2, QueueMembers DEF KInv
  <2>7. Same(a, f)
    BY ONLY o \in Tasks, <2>0, <2>5, <2>6, WithdrawAllSame
  <2>8. f \in KernelType
    BY ONLY <2>7 DEF Same
  <2>9. Taken(f, b, m, h)
    BY ONLY m \in Mutexes, <2>0, <2>4, <2>8, TakeFacts
  <2>10. HandsOver(k, m, o, h, a, f, d)
    BY ONLY KInv(k), m \in Mutexes, o \in Tasks, k.owner[m] = o, <2>0, <2>3, <2>7, <2>9,
            HandOverFacts
  <2>11. Handed(k, d, m, h)
    BY ONLY <2>10 DEF HandsOver
  <2>12. KInv(d) /\ Released(k, d, m)
    BY ONLY KInv(k), m \in Mutexes, Ungranted(k, m), <2>4, <2>11, HandedInv
  <2>13. d.owner[m] = h /\ d.queue[m] \in Seq(Tasks)
    BY ONLY <2>2, <2>11, <2>12, QueueMembers DEF Handed, KInv
  <2>14. Sound(d, h)
    BY ONLY <2>12, InvSound
  <2>15. Same(d, j)
    BY ONLY <2>1, <2>4, <2>13, <2>14, ContributeAllSame
  <2>16. KInv(j) /\ Released(k, j, m)
    BY ONLY m \in Mutexes, <2>12, <2>15, SameInv, ReleasedSame
  <2>17. ASSUME Exact(k, Tasks)  PROVE Exact(j, Tasks) /\ j.fault = k.fault
    <3> SUFFICES ASSUME NEW us, us = d.queue[m], NEW D, D = Others(us)
                 PROVE  Exact(j, Tasks) /\ j.fault = k.fault
      OBVIOUS
    <3>0. us = d.queue[m] /\ D = Others(us) /\ f = WithdrawAll(a, o, k.queue[m])
      BY <2>0
    <3>1. Exact(d, D) /\ d.fault = k.fault
      BY ONLY KInv(k), m \in Mutexes, o \in Tasks, k.owner[m] = o, Exact(k, Tasks), <2>10,
              <3>0, HandOverExact
    <3>2. Exact(j, Tasks) /\ j.fault = d.fault
      BY ONLY m \in Mutexes, <2>1, <2>4, <2>12, <2>13, <3>0, <3>1, ContributedExact
    <3> QED  BY ONLY <3>1, <3>2
  <2> QED  BY ONLY <2>16, <2>17
<1> QED  BY <1>1, <1>2

\* In c the grant of t has been taken from its TCB.
Cleared(k, c, t) ==
  /\ c \in KernelType
  /\ c.queue = k.queue /\ c.count = k.count /\ c.owner = k.owner
  /\ c.depth = k.depth /\ c.fault = k.fault
  /\ \A u \in Tasks : u # t => c.tcb[u] = k.tcb[u]
  /\ c.tcb[t].granted = NONE /\ ~c.tcb[t].semGranted
  /\ \A u \in Tasks : /\ c.tcb[u].state = k.tcb[u].state
                      /\ c.tcb[u].waiting = k.tcb[u].waiting
                      /\ c.tcb[u].base = k.tcb[u].base
                      /\ c.tcb[u].priority = k.tcb[u].priority
                      /\ c.tcb[u].inherited = k.tcb[u].inherited

\* The two assignments that clear a grant do that.
LEMMA ClearFacts ==
  ASSUME NEW k \in KernelType, NEW t \in Tasks, NEW c,
         \/ c = [k EXCEPT !.tcb[t].granted = NONE, !.tcb[t].semGranted = FALSE]
         \/ c = [k EXCEPT !.tcb[t].semGranted = FALSE, !.tcb[t].granted = NONE]
  PROVE  Cleared(k, c, t)
<1> SUFFICES ASSUME NEW x, x = k.tcb[t],
                    NEW y, y = [x EXCEPT !.granted = NONE, !.semGranted = FALSE]
             PROVE  Cleared(k, c, t)
  OBVIOUS
<1>1. k.tcb \in [Tasks -> TcbType] /\ x \in TcbType
  BY DEF KernelType
<1>2. /\ y \in TcbType /\ y.granted = NONE /\ y.semGranted = FALSE
      /\ y.state = x.state /\ y.waiting = x.waiting /\ y.base = x.base
      /\ y.priority = x.priority /\ y.inherited = x.inherited
  BY <1>1 DEF TcbType
<1>3. c = [k EXCEPT !.tcb[t] = y]
  <2>1. [x EXCEPT !.semGranted = FALSE, !.granted = NONE] = y
    BY <1>1 DEF TcbType
  <2>2. CASE c = [k EXCEPT !.tcb[t].granted = NONE, !.tcb[t].semGranted = FALSE]
    BY <1>1, <2>2 DEF KernelType
  <2>3. CASE c = [k EXCEPT !.tcb[t].semGranted = FALSE, !.tcb[t].granted = NONE]
    BY <1>1, <2>1, <2>3 DEF KernelType
  <2> QED  BY <2>2, <2>3
<1>4. Retasked(k, c, t, y)
  BY ONLY k \in KernelType, t \in Tasks, <1>2, <1>3, Retask
<1>5. /\ c \in KernelType
      /\ c.queue = k.queue /\ c.count = k.count /\ c.owner = k.owner
      /\ c.depth = k.depth /\ c.fault = k.fault
      /\ c.tcb[t] = y /\ \A u \in Tasks : u # t => c.tcb[u] = k.tcb[u]
  BY ONLY <1>4 DEF Retasked
<1>6. \A u \in Tasks : /\ c.tcb[u].state = k.tcb[u].state
                       /\ c.tcb[u].waiting = k.tcb[u].waiting
                       /\ c.tcb[u].base = k.tcb[u].base
                       /\ c.tcb[u].priority = k.tcb[u].priority
                       /\ c.tcb[u].inherited = k.tcb[u].inherited
  <2> SUFFICES ASSUME NEW u \in Tasks
               PROVE  /\ c.tcb[u].state = k.tcb[u].state
                      /\ c.tcb[u].waiting = k.tcb[u].waiting
                      /\ c.tcb[u].base = k.tcb[u].base
                      /\ c.tcb[u].priority = k.tcb[u].priority
                      /\ c.tcb[u].inherited = k.tcb[u].inherited
    OBVIOUS
  <2>1. x = k.tcb[t]
    OBVIOUS
  <2>2. CASE u = t
    BY ONLY <1>2, <1>5, <2>1, <2>2
  <2>3. CASE u # t
    BY ONLY u \in Tasks, <1>5, <2>3
  <2> QED  BY <2>2, <2>3
<1> QED  BY ONLY <1>2, <1>5, <1>6 DEF Cleared

\* A kernel without one grant is as good as before.
LEMMA ClearedInv ==
  ASSUME NEW k, KInv(k), NEW t \in Tasks, NEW c, Cleared(k, c, t)
  PROVE  /\ KInv(c)
         /\ Exact(k, Tasks) => Exact(c, Tasks)
<1>1. k \in KernelType /\ QueuesOK(k) /\ Acyclic(k) /\ Waits(k) /\ Grants(k) /\ Frees(k)
  BY DEF KInv
<1>2. /\ c \in KernelType
      /\ c.queue = k.queue /\ c.count = k.count /\ c.owner = k.owner
      /\ c.depth = k.depth /\ c.fault = k.fault
      /\ \A u \in Tasks : u # t => c.tcb[u] = k.tcb[u]
      /\ c.tcb[t].granted = NONE /\ ~c.tcb[t].semGranted
      /\ \A u \in Tasks : /\ c.tcb[u].state = k.tcb[u].state
                          /\ c.tcb[u].waiting = k.tcb[u].waiting
                          /\ c.tcb[u].base = k.tcb[u].base
                          /\ c.tcb[u].priority = k.tcb[u].priority
                          /\ c.tcb[u].inherited = k.tcb[u].inherited
  BY DEF Cleared
<1>3. QueuesOK(c)
  BY <1>1, <1>2, QueuesKept
<1>4. \A u \in Tasks : Succ(c, u) = Succ(k, u)
  BY <1>2 DEF Succ
<1>5. Acyclic(c)
  BY <1>1, <1>4, AcyclicLess
<1>6. Waits(c)
  BY <1>1, <1>2 DEF Waits
<1>7. Grants(c)
  <2> SUFFICES ASSUME NEW u \in Tasks
               PROVE  /\ c.tcb[u].semGranted <=> c.tcb[u].granted # NONE
                      /\ c.tcb[u].granted # NONE => c.tcb[u].state = "Ready"
                      /\ c.tcb[u].granted \in Mutexes =>
                           c.owner[c.tcb[u].granted] = u /\ c.depth[c.tcb[u].granted] = 1
    BY DEF Grants
  <2>1. CASE u = t
    BY <1>2, <2>1, ResourcesAssumption
  <2>2. CASE u # t
    BY <1>1, <1>2, <2>2 DEF Grants
  <2> QED  BY <2>1, <2>2
<1>8. Frees(c)
  BY <1>1, <1>2 DEF Frees
<1>9. ASSUME Exact(k, Tasks)  PROVE Exact(c, Tasks)
  <2>1. SameDonations(k, Tasks, c, Tasks)
    BY <1>2, <1>4 DEF SameDonations
  <2>2. Tasks \in SUBSET Tasks
    OBVIOUS
  <2> QED  BY <1>9, <2>1, <2>2, ExactKept
<1> QED  BY <1>2, <1>3, <1>5, <1>6, <1>7, <1>8, <1>9 DEF KInv

\* Who is granted something or blocked is inside down or lock, and what is waited
\* for or granted is live.
Attached(k, P, L) ==
  \A u \in Tasks :
    /\ k.tcb[u].granted # NONE \/ k.tcb[u].state = "Blocked" => P[u]
    /\ k.tcb[u].waiting \in L \cup {NONE}
    /\ k.tcb[u].granted \in L \cup {NONE}

\* The permits of every semaphore are accounted for.
Owes(k, O) == \A s \in Sems : O[s] = Permits(k, s)

\* What holds whether or not tasks exit holding a mutex: of the kernel k, the
\* parked tasks P, the live resources L and the permits owed O.
Consistent(k, P, L, O) ==
  /\ KInv(k)
  /\ P \in [Tasks -> BOOLEAN] /\ L \in SUBSET Resources /\ O \in [Sems -> Nat]
  /\ Attached(k, P, L)
  /\ Owes(k, O)

\* The locks of m that lock() has told of, H, are what the mutex records.
HoldsOf(k, L, H, m) ==
  /\ \A u \in Tasks : H[u][m] > 0 =>
       /\ m \in L /\ k.owner[m] = u /\ k.depth[m] = H[u][m]
       /\ k.tcb[u].state # "Free" /\ k.tcb[u].granted # m
  /\ k.owner[m] # NIL =>
       H[k.owner[m]][m] > 0 \/ k.tcb[k.owner[m]].granted = m

\* What holds besides when no task exits holding a mutex.
Strict(k, L, H) ==
  /\ H \in [Tasks -> [Mutexes -> Nat]]
  /\ \A m \in Mutexes : HoldsOf(k, L, H, m)
  /\ Exact(k, Tasks)
  /\ k.fault = "none"

\* A waiter that was served or has left is attached as before.
LEMMA MovesAttached ==
  ASSUME NEW k, KInv(k), NEW j, KInv(j), Moves(k, j), NEW P, NEW L, Attached(k, P, L)
  PROVE  Attached(j, P, L)
<1> SUFFICES ASSUME NEW u \in Tasks
             PROVE  /\ j.tcb[u].granted # NONE \/ j.tcb[u].state = "Blocked" => P[u]
                    /\ j.tcb[u].waiting \in L \cup {NONE}
                    /\ j.tcb[u].granted \in L \cup {NONE}
  BY DEF Attached
<1>1. /\ k.tcb[u].waiting # NONE <=> k.tcb[u].state = "Blocked"
      /\ j.tcb[u].waiting # NONE <=> j.tcb[u].state = "Blocked"
  BY DEF KInv, Waits
<1>2. /\ \/ j.tcb[u].granted = k.tcb[u].granted
         \/ k.tcb[u].granted = NONE /\ j.tcb[u].granted = k.tcb[u].waiting
      /\ j.tcb[u].waiting = k.tcb[u].waiting \/ j.tcb[u].waiting = NONE
  BY DEF Moves
<1>3. /\ k.tcb[u].granted # NONE \/ k.tcb[u].state = "Blocked" => P[u]
      /\ k.tcb[u].waiting \in L \cup {NONE}
      /\ k.tcb[u].granted \in L \cup {NONE}
  BY DEF Attached
<1> QED  BY ONLY <1>1, <1>2, <1>3

\* Nobody waits for a mutex of its own.
LEMMA NotItsOwn ==
  ASSUME NEW k, KInv(k), NEW t \in Tasks, NEW m \in Mutexes, k.tcb[t].waiting = m
  PROVE  k.owner[m] # t
<1>1. Succ(k, t) = k.owner[m]
  BY DEF Succ
<1>2. \E u \in {t} : Succ(k, u) \notin {t}
  BY DEF KInv, Acyclic
<1> QED  BY <1>1, <1>2

\* A mutex that is not released stays with who holds it.
LEMMA MovesHolds ==
  ASSUME NEW k, KInv(k), NEW j, Moves(k, j), NEW L, NEW H, NEW m \in Mutexes,
         k.owner[m] \in Tasks \cup {NIL},
         j.owner[m] = k.owner[m], j.depth[m] = k.depth[m], HoldsOf(k, L, H, m)
  PROVE  HoldsOf(j, L, H, m)
<1>1. ASSUME NEW u \in Tasks, H[u][m] > 0
      PROVE  /\ m \in L /\ j.owner[m] = u /\ j.depth[m] = H[u][m]
             /\ j.tcb[u].state # "Free" /\ j.tcb[u].granted # m
  <2>1. /\ m \in L /\ k.owner[m] = u /\ k.depth[m] = H[u][m]
        /\ k.tcb[u].state # "Free" /\ k.tcb[u].granted # m
    BY <1>1 DEF HoldsOf
  <2>2. j.tcb[u].granted # m
    <3>1. k.tcb[u].waiting # m
      BY <2>1, NotItsOwn
    <3> QED  BY <2>1, <3>1 DEF Moves
  <2>3. j.tcb[u].state # "Free"
    BY <2>1 DEF Moves
  <2> QED  BY <2>1, <2>2, <2>3
<1>2. ASSUME j.owner[m] # NIL
      PROVE  H[j.owner[m]][m] > 0 \/ j.tcb[j.owner[m]].granted = m
  <2>1. k.owner[m] \in Tasks /\ m # NONE
    BY <1>2, ResourcesAssumption
  <2>2. H[k.owner[m]][m] > 0 \/ k.tcb[k.owner[m]].granted = m
    BY <1>2 DEF HoldsOf
  <2>3. k.tcb[k.owner[m]].granted = m => j.tcb[k.owner[m]].granted = m
    BY <2>1 DEF Moves
  <2> QED  BY <2>2, <2>3
<1> QED  BY <1>1, <1>2 DEF HoldsOf

\* A step that moves waiters and changes no mutex, no permit and no donation.
LEMMA MovesConsistent ==
  ASSUME NEW k, NEW P, NEW L, NEW O, Consistent(k, P, L, O), NEW j, KInv(j), Moves(k, j),
         \A s \in Sems : Permits(j, s) = Permits(k, s)
  PROVE  Consistent(j, P, L, O)
<1>1. KInv(k) /\ Attached(k, P, L)
  BY DEF Consistent
<1>2. Attached(j, P, L)
  BY <1>1, MovesAttached
<1> QED  BY <1>2 DEF Consistent, Owes

\* The same of the exact part.
LEMMA MovesStrict ==
  ASSUME NEW k, KInv(k), NEW L, NEW H, Strict(k, L, H), NEW j, Moves(k, j),
         j.owner = k.owner, j.depth = k.depth, Exact(j, Tasks), j.fault = k.fault
  PROVE  Strict(j, L, H)
<1>1. \A m \in Mutexes : k.owner[m] \in Tasks \cup {NIL}
  BY DEF KInv, KernelType
<1>2. \A m \in Mutexes : HoldsOf(j, L, H, m)
  BY <1>1, MovesHolds DEF Strict
<1> QED  BY <1>2 DEF Strict

\* Leaving a queue without the resource moves waiters and nothing else.
LEMMA LeavesKeeps ==
  ASSUME NEW k, NEW j, NEW S, Leaves(k, j, S)
  PROVE  Moves(k, j) /\ \A s \in Sems : Permits(j, s) = Permits(k, s)
<1>1. Moves(k, j)
  BY DEF Leaves, Moves
<1>2. \A s \in Sems : GrantsOf(j, s) = GrantsOf(k, s)
  BY DEF Leaves, GrantsOf
<1> QED  BY <1>1, <1>2 DEF Leaves, Permits

\* timeout_semaphore_waiter_locked, the mutex branch of wake_sleepers and the
\* queued branches of cancel_wait_locked keep the invariant.
LEMMA LeaveKeeps ==
  ASSUME NEW k, NEW P, NEW L, NEW O, Consistent(k, P, L, O), NEW H,
         NEW t \in Tasks, k.tcb[t].waiting # NONE, NEW j, j = LeaveQueue(k, t)
  PROVE  Consistent(j, P, L, O) /\ (Strict(k, L, H) => Strict(j, L, H))
<1>1. KInv(k)
  BY DEF Consistent
<1>2. Left(k, j, t, NONE) /\ (Exact(k, Tasks) => Exact(j, Tasks) /\ j.fault = k.fault)
  BY <1>1, LeaveQueueFacts
<1>3. KInv(j)
  BY <1>1, <1>2, LeftInv
<1>4. Leaves(k, j, {t})
  BY <1>1, <1>2, LeftLeaves
<1>5. Moves(k, j) /\ \A s \in Sems : Permits(j, s) = Permits(k, s)
  BY <1>4, LeavesKeeps
<1>6. Consistent(j, P, L, O)
  BY <1>3, <1>5, MovesConsistent
<1>7. j.owner = k.owner /\ j.depth = k.depth
  BY <1>4 DEF Leaves
<1>8. ASSUME Strict(k, L, H)  PROVE Strict(j, L, H)
  <2>1. Exact(j, Tasks) /\ j.fault = k.fault
    BY <1>2, <1>8 DEF Strict
  <2> QED  BY ONLY <1>1, <1>5, <1>7, <2>1, Strict(k, L, H), MovesStrict
<1> QED  BY <1>6, <1>8

\* wake_sleepers keeps the invariant.
LEMMA ScanKeeps ==
  ASSUME NEW k, NEW P, NEW L, NEW O, Consistent(k, P, L, O), NEW H,
         NEW ts \in Seq(Tasks), Distinct(ts), \A i \in DOMAIN ts : k.tcb[ts[i]].waiting # NONE,
         NEW j, j = LeaveAll(k, ts)
  PROVE  Consistent(j, P, L, O) /\ (Strict(k, L, H) => Strict(j, L, H))
<1>1. KInv(k)
  BY DEF Consistent
<1>2. /\ KInv(j) /\ Leaves(k, j, Members(ts, Len(ts)))
      /\ Exact(k, Tasks) => Exact(j, Tasks) /\ j.fault = k.fault
  BY <1>1, LeaveAllFacts
<1>5. Moves(k, j) /\ \A s \in Sems : Permits(j, s) = Permits(k, s)
  BY <1>2, LeavesKeeps
<1>6. Consistent(j, P, L, O)
  BY <1>2, <1>5, MovesConsistent
<1>7. j.owner = k.owner /\ j.depth = k.depth
  BY <1>2 DEF Leaves
<1>8. ASSUME Strict(k, L, H)  PROVE Strict(j, L, H)
  <2>1. Exact(j, Tasks) /\ j.fault = k.fault
    BY <1>2, <1>8 DEF Strict
  <2> QED  BY ONLY <1>1, <1>5, <1>7, <2>1, Strict(k, L, H), MovesStrict
<1> QED  BY <1>6, <1>8

\* up keeps the invariant, with one permit more.
LEMMA UpKeeps ==
  ASSUME NEW k, NEW P, NEW L, NEW O, Consistent(k, P, L, O), NEW H,
         NEW s \in Sems, NEW j, j = ReleaseSemaphoreLocked(k, s),
         NEW V, V = [O EXCEPT ![s] = @ + 1]
  PROVE  Consistent(j, P, L, V) /\ (Strict(k, L, H) => Strict(j, L, H))
<1>1. KInv(k) /\ Attached(k, P, L) /\ Owes(k, O) /\ O \in [Sems -> Nat]
  BY DEF Consistent
<1>2. /\ KInv(j) /\ Posted(k, j, s)
      /\ Exact(k, Tasks) => Exact(j, Tasks)
  BY <1>1, ReleaseSemaphoreFacts
<1>3. /\ j.owner = k.owner /\ j.depth = k.depth /\ j.fault = k.fault /\ Moves(k, j)
      /\ Permits(j, s) = Permits(k, s) + 1
      /\ \A x \in Sems : x # s => Permits(j, x) = Permits(k, x)
  BY <1>2 DEF Posted
<1>4. Attached(j, P, L)
  BY <1>1, <1>2, <1>3, MovesAttached
<1>5. V \in [Sems -> Nat] /\ V[s] = O[s] + 1 /\ \A x \in Sems : x # s => V[x] = O[x]
  BY <1>1
<1>6. Owes(j, V)
  BY ONLY s \in Sems, <1>1, <1>3, <1>5 DEF Owes
<1>7. Consistent(j, P, L, V)
  BY <1>2, <1>4, <1>5, <1>6 DEF Consistent
<1>8. ASSUME Strict(k, L, H)  PROVE Strict(j, L, H)
  <2>1. Exact(j, Tasks)
    BY <1>2, <1>8 DEF Strict
  <2> QED  BY ONLY <1>1, <1>3, <2>1, Strict(k, L, H), MovesStrict
<1> QED  BY <1>7, <1>8

\* A mutex that nobody claims is handed on without a contradiction.
LEMMA ReleasedStrict ==
  ASSUME NEW k, KInv(k), NEW L, NEW H, NEW m \in Mutexes, NEW j, Released(k, j, m),
         H \in [Tasks -> [Mutexes -> Nat]], \A u \in Tasks : H[u][m] = 0,
         \A x \in Mutexes : x # m => HoldsOf(k, L, H, x),
         Exact(j, Tasks), j.fault = "none"
  PROVE  Strict(j, L, H)
<1>1. /\ Moves(k, j)
      /\ \A x \in Mutexes : x # m => j.owner[x] = k.owner[x] /\ j.depth[x] = k.depth[x]
      /\ j.owner[m] = NIL \/ (j.owner[m] \in Tasks /\ j.tcb[j.owner[m]].granted = m)
  BY DEF Released
<1>2. \A x \in Mutexes : k.owner[x] \in Tasks \cup {NIL}
  BY DEF KInv, KernelType
<1>3. ASSUME NEW x \in Mutexes, x # m  PROVE HoldsOf(j, L, H, x)
  BY <1>1, <1>2, <1>3, MovesHolds
<1>4. HoldsOf(j, L, H, m)
  BY <1>1 DEF HoldsOf
<1> QED  BY <1>3, <1>4 DEF Strict

\* The same of the permits and the links.
LEMMA ReleasedConsistent ==
  ASSUME NEW k, NEW P, NEW L, NEW O, Consistent(k, P, L, O), NEW m, NEW j, KInv(j),
         Released(k, j, m)
  PROVE  Consistent(j, P, L, O)
<1>1. Moves(k, j) /\ \A s \in Sems : Permits(j, s) = Permits(k, s)
  BY DEF Released, Permits
<1> QED  BY <1>1, MovesConsistent

\* In e the mutex m has owner o and depth n, and nothing else differs from k.
Owning(k, e, m, o, n) ==
  /\ e \in KernelType /\ e.queue = k.queue /\ e.tcb = k.tcb /\ e.count = k.count
  /\ e.fault = k.fault
  /\ e.owner[m] = o /\ e.depth[m] = n
  /\ \A x \in Mutexes : x # m => e.owner[x] = k.owner[x] /\ e.depth[x] = k.depth[x]

\* The assignments to owner and depth do that.
LEMMA OwnFacts ==
  ASSUME NEW k \in KernelType, NEW m \in Mutexes, NEW o \in Tasks \cup {NIL}, NEW n \in Nat, NEW e,
         \/ e = [k EXCEPT !.owner[m] = o, !.depth[m] = n]
         \/ e = [k EXCEPT !.depth[m] = n] /\ o = k.owner[m]
  PROVE  Owning(k, e, m, o, n)
<1>1. k.owner \in [Mutexes -> Tasks \cup {NIL}] /\ k.depth \in [Mutexes -> Nat]
  BY DEF KernelType
<1>2. /\ e.queue = k.queue /\ e.tcb = k.tcb /\ e.count = k.count /\ e.fault = k.fault
      /\ e.owner = [k.owner EXCEPT ![m] = o] /\ e.depth = [k.depth EXCEPT ![m] = n]
      /\ e \in KernelType
  <2>1. CASE e = [k EXCEPT !.owner[m] = o, !.depth[m] = n]
    BY <2>1 DEF KernelType
  <2>2. CASE e = [k EXCEPT !.depth[m] = n] /\ o = k.owner[m]
    BY <1>1, <2>2 DEF KernelType
  <2> QED  BY <2>1, <2>2
<1> QED  BY ONLY m \in Mutexes, <1>1, <1>2 DEF Owning

\* Nobody's wait changes when a mutex without waiters changes hands or its owner
\* changes the depth.
LEMMA OwnInv ==
  ASSUME NEW k, KInv(k), NEW m \in Mutexes, NEW o, NEW n, NEW e, Owning(k, e, m, o, n),
         Ungranted(k, m), o = k.owner[m] \/ k.queue[m] = <<>>
  PROVE  /\ KInv(e) /\ Moves(k, e) /\ Ungranted(e, m)
         /\ \A s \in Sems : Permits(e, s) = Permits(k, s)
         /\ Exact(k, Tasks) => Exact(e, Tasks)
<1>1. k \in KernelType /\ QueuesOK(k) /\ Acyclic(k) /\ Waits(k) /\ Grants(k) /\ Frees(k)
  BY DEF KInv
<1>2. /\ e \in KernelType /\ e.queue = k.queue /\ e.tcb = k.tcb /\ e.count = k.count
      /\ e.owner[m] = o /\ e.depth[m] = n
      /\ \A x \in Mutexes : x # m => e.owner[x] = k.owner[x] /\ e.depth[x] = k.depth[x]
  BY DEF Owning
<1>3. QueuesOK(e)
  BY <1>1, <1>2 DEF QueuesOK
<1>4. \A u \in Tasks : Succ(e, u) = Succ(k, u)
  <2> SUFFICES ASSUME NEW u \in Tasks  PROVE Succ(e, u) = Succ(k, u)
    OBVIOUS
  <2>1. CASE k.tcb[u].waiting = m
    <3>1. m \in Resources /\ m # NONE
      BY ResourcesAssumption DEF Resources
    <3>2. In(k.queue[m], u)
      BY <1>1, <2>1, <3>1 DEF Waits
    <3>3. k.queue[m] # <<>>
      BY <1>1, <3>1, <3>2, EmptyQueue
    <3> QED  BY <1>2, <2>1, <3>3 DEF Succ
  <2>2. CASE k.tcb[u].waiting # m
    BY <1>2, <2>2 DEF Succ
  <2> QED  BY <2>1, <2>2
<1>5. Acyclic(e)
  BY <1>1, <1>4, AcyclicLess
<1>6. Waits(e)
  BY <1>1, <1>2 DEF Waits
<1>7. Grants(e)
  <2>1. \A u \in Tasks : k.tcb[u].granted # m
    BY DEF Ungranted
  <2> QED  BY <1>1, <1>2, <2>1 DEF Grants
<1>8. Frees(e)
  <2>1. k.owner[m] = NIL => k.queue[m] = <<>>
    BY <1>1 DEF Frees
  <2> QED  BY <1>1, <1>2, <2>1 DEF Frees
<1>9. Moves(k, e)
  BY <1>2 DEF Moves
<1>10. \A s \in Sems : Permits(e, s) = Permits(k, s)
  BY <1>2 DEF Permits, GrantsOf
<1>11. ASSUME Exact(k, Tasks)  PROVE Exact(e, Tasks)
  <2>1. SameDonations(k, Tasks, e, Tasks)
    BY <1>2, <1>4 DEF SameDonations
  <2>2. Tasks \in SUBSET Tasks
    OBVIOUS
  <2> QED  BY <1>11, <2>1, <2>2, ExactKept
<1>12. Ungranted(e, m)
  BY <1>2 DEF Ungranted
<1> QED  BY <1>2, <1>3, <1>5, <1>6, <1>7, <1>8, <1>9, <1>10, <1>11, <1>12 DEF KInv

\* A task that is not parked has no grant, and no mutex of its own is granted.
LEMMA RunningUngranted ==
  ASSUME NEW k, NEW P, NEW L, NEW O, Consistent(k, P, L, O), NEW t \in Tasks, ~P[t]
  PROVE  /\ k.tcb[t].granted = NONE
         /\ \A m \in Mutexes : k.owner[m] \in {t, NIL} => Ungranted(k, m)
<1>1. k.tcb[t].granted = NONE
  BY DEF Consistent, Attached
<1>2. ASSUME NEW m \in Mutexes, k.owner[m] \in {t, NIL}, NEW u \in Tasks, k.tcb[u].granted = m
      PROVE  FALSE
  <2>1. k.owner[m] = u
    BY <1>2 DEF Consistent, KInv, Grants
  <2> QED  BY <1>1, <1>2, <2>1, TaskFacts, ResourcesAssumption
<1> QED  BY <1>1, <1>2 DEF Ungranted

\* The depth that lock gives a free or own mutex, and the lock in the account.
LockDepth(k, t, m) == IF k.owner[m] = t THEN k.depth[m] + 1 ELSE 1
Locked(H, V, t, m) == V = [H EXCEPT ![t][m] = @ + 1]

\* lock of a free or own mutex keeps the invariant.
LEMMA LockKeeps ==
  ASSUME NEW k, NEW P, NEW L, NEW O, Consistent(k, P, L, O), NEW H,
         NEW t \in Tasks, ~P[t], k.tcb[t].state = "Ready", NEW m \in Mutexes, m \in L,
         k.owner[m] \in {t, NIL}, NEW n, n = LockDepth(k, t, m),
         NEW j, Owning(k, j, m, t, n), NEW V, Locked(H, V, t, m)
  PROVE  Consistent(j, P, L, O) /\ (Strict(k, L, H) => Strict(j, L, V))
<1>0. n = (IF k.owner[m] = t THEN k.depth[m] + 1 ELSE 1) /\ V = [H EXCEPT ![t][m] = @ + 1]
  BY DEF LockDepth, Locked
<1>1. KInv(k)
  BY DEF Consistent
<1>2. k.tcb[t].granted = NONE /\ Ungranted(k, m)
  BY RunningUngranted
<1>3. t = k.owner[m] \/ k.queue[m] = <<>>
  BY <1>1 DEF KInv, Frees
<1>4. /\ KInv(j) /\ Moves(k, j) /\ \A s \in Sems : Permits(j, s) = Permits(k, s)
      /\ Exact(k, Tasks) => Exact(j, Tasks)
  BY ONLY <1>1, <1>2, <1>3, m \in Mutexes, Owning(k, j, m, t, n), OwnInv
<1>5. Consistent(j, P, L, O)
  BY <1>4, MovesConsistent
<1>6. ASSUME Strict(k, L, H)  PROVE Strict(j, L, V)
  <2>1. /\ j.tcb = k.tcb /\ j.fault = k.fault /\ j.owner[m] = t /\ j.depth[m] = n
        /\ \A x \in Mutexes : x # m => j.owner[x] = k.owner[x] /\ j.depth[x] = k.depth[x]
    BY DEF Owning
  <2>2. /\ H \in [Tasks -> [Mutexes -> Nat]] /\ \A x \in Mutexes : HoldsOf(k, L, H, x)
        /\ Exact(k, Tasks) /\ k.fault = "none"
    BY <1>6 DEF Strict
  <2>3. /\ V \in [Tasks -> [Mutexes -> Nat]] /\ V[t][m] = H[t][m] + 1
        /\ \A u \in Tasks : \A x \in Mutexes : u # t \/ x # m => V[u][x] = H[u][x]
    BY <1>0, <2>2
  <2>4. \A u \in Tasks : u # t => H[u][m] = 0
    <3>1. \A u \in Tasks : H[u][m] \in Nat /\ (H[u][m] > 0 => k.owner[m] = u)
      BY <2>2 DEF HoldsOf
    <3> QED  BY <3>1, TaskFacts
  <2>5. V[t][m] = n
    <3>1. CASE k.owner[m] = t
      <4>1. H[t][m] > 0
        BY <1>2, <2>2, <3>1, TaskFacts, ResourcesAssumption DEF HoldsOf
      <4>2. k.depth[m] = H[t][m]
        BY <2>2, <4>1 DEF HoldsOf
      <4> QED  BY <1>0, <2>3, <3>1, <4>2
    <3>2. CASE k.owner[m] # t
      <4>1. H[t][m] \in Nat /\ ~(H[t][m] > 0)
        BY <2>2, <3>2 DEF HoldsOf
      <4> QED  BY <1>0, <2>3, <3>2, <4>1
    <3> QED  BY <3>1, <3>2
  <2>6. n > 0
    <3>1. k.depth[m] \in Nat
      BY <1>1 DEF KInv, KernelType
    <3> QED  BY <1>0, <3>1
  <2>7. HoldsOf(j, L, V, m)
    <3>1. m # NONE
      BY ResourcesAssumption
    <3> QED  BY <1>2, <2>1, <2>3, <2>4, <2>5, <2>6, <3>1 DEF HoldsOf
  <2>8. ASSUME NEW x \in Mutexes, x # m  PROVE HoldsOf(j, L, V, x)
    <3>1. /\ HoldsOf(k, L, H, x) /\ j.owner[x] = k.owner[x] /\ j.depth[x] = k.depth[x]
          /\ \A u \in Tasks : V[u][x] = H[u][x]
          /\ k.owner[x] \in Tasks \cup {NIL}
      BY <1>1, <2>1, <2>2, <2>3, <2>8 DEF KInv, KernelType
    <3> QED  BY ONLY <2>1, <3>1 DEF HoldsOf
  <2> QED  BY <1>4, <2>1, <2>2, <2>3, <2>7, <2>8 DEF Strict
<1> QED  BY <1>5, <1>6

\* unlock lowers the depth, releases the mutex when that is zero, and takes the
\* lock from the account.
Lowered(k, e, m) == e = [k EXCEPT !.depth[m] = @ - 1]
Unlocks(e, m, t) == IF e.depth[m] = 0 THEN ReleaseMutexLocked(e, m, t) ELSE e
Unlocked(H, V, t, m) == V = [H EXCEPT ![t][m] = @ - 1]

\* What a task that unlocks does.
Unlocking(k, P, e, j, H, V, t, m) ==
  /\ ~P[t] /\ k.owner[m] = t /\ k.depth[m] > 0
  /\ Lowered(k, e, m) /\ j = Unlocks(e, m, t) /\ Unlocked(H, V, t, m)

\* unlock keeps the invariant, whether or not it is the final one.
LEMMA UnlockKeeps ==
  ASSUME NEW k, NEW P, NEW L, NEW O, Consistent(k, P, L, O), NEW H, NEW t \in Tasks,
         NEW m \in Mutexes, NEW e, NEW j, NEW V, Unlocking(k, P, e, j, H, V, t, m)
  PROVE  Consistent(j, P, L, O) /\ (Strict(k, L, H) => Strict(j, L, V))
<1> SUFFICES ASSUME ~P[t], k.owner[m] = t, k.depth[m] > 0,
                    Lowered(k, e, m), j = Unlocks(e, m, t), Unlocked(H, V, t, m)
             PROVE  Consistent(j, P, L, O) /\ (Strict(k, L, H) => Strict(j, L, V))
  BY DEF Unlocking
<1>0. /\ e = [k EXCEPT !.depth[m] = @ - 1] /\ V = [H EXCEPT ![t][m] = @ - 1]
      /\ e.depth[m] = 0 => j = ReleaseMutexLocked(e, m, t)
      /\ e.depth[m] # 0 => j = e
  BY DEF Lowered, Unlocks, Unlocked
<1>1. KInv(k) /\ k \in KernelType
  BY DEF Consistent, KInv
<1>2. k.tcb[t].granted = NONE /\ Ungranted(k, m)
  BY RunningUngranted
<1>3. k.depth[m] \in Nat /\ k.depth[m] - 1 \in Nat
  <2>1. k.depth[m] \in Nat
    BY <1>1 DEF KernelType
  <2> QED  BY <2>1
<1>4. Owning(k, e, m, t, k.depth[m] - 1)
  <2> SUFFICES ASSUME NEW n, n = k.depth[m] - 1  PROVE Owning(k, e, m, t, n)
    OBVIOUS
  <2>1. e = [k EXCEPT !.depth[m] = n]
    BY <1>0
  <2>2. n \in Nat /\ t \in Tasks \cup {NIL} /\ t = k.owner[m]
    BY <1>3
  <2> QED  BY ONLY <1>1, m \in Mutexes, <2>1, <2>2, OwnFacts
<1>5. /\ KInv(e) /\ Moves(k, e) /\ Ungranted(e, m)
      /\ \A s \in Sems : Permits(e, s) = Permits(k, s)
      /\ Exact(k, Tasks) => Exact(e, Tasks)
  BY ONLY <1>1, <1>2, <1>4, m \in Mutexes, k.owner[m] = t, OwnInv
<1>6. /\ e.tcb = k.tcb /\ e.fault = k.fault /\ e.owner[m] = t /\ e.depth[m] = k.depth[m] - 1
      /\ \A x \in Mutexes : x # m => e.owner[x] = k.owner[x] /\ e.depth[x] = k.depth[x]
  BY ONLY <1>4 DEF Owning
<1>7. Consistent(e, P, L, O)
  BY ONLY <1>5, Consistent(k, P, L, O), MovesConsistent
<1>8. ASSUME e.depth[m] = 0
      PROVE  /\ KInv(j) /\ Released(e, j, m)
             /\ Exact(e, Tasks) => Exact(j, Tasks) /\ j.fault = e.fault
  <2>1. j = ReleaseMutexLocked(e, m, t)
    BY <1>0, <1>8
  <2> QED  BY ONLY <1>5, <1>6, <2>1, t \in Tasks, m \in Mutexes, ReleaseMutexFacts
<1>9. Consistent(j, P, L, O)
  <2>1. CASE e.depth[m] = 0
    BY <1>7, <1>8, <2>1, ReleasedConsistent
  <2>2. CASE e.depth[m] # 0
    BY <1>0, <1>7, <2>2
  <2> QED  BY <2>1, <2>2
<1>10. ASSUME Strict(k, L, H)  PROVE Strict(j, L, V)
  <2>2. /\ H \in [Tasks -> [Mutexes -> Nat]] /\ \A x \in Mutexes : HoldsOf(k, L, H, x)
        /\ Exact(k, Tasks) /\ k.fault = "none"
    BY <1>10 DEF Strict
  <2>4. \A u \in Tasks : u # t => H[u][m] = 0
    <3>1. \A u \in Tasks : H[u][m] \in Nat /\ (H[u][m] > 0 => k.owner[m] = u)
      BY <2>2 DEF HoldsOf
    <3> QED  BY <3>1, TaskFacts
  <2>5. H[t][m] = k.depth[m] /\ m \in L /\ k.tcb[t].state # "Free"
    <3>1. H[t][m] > 0
      BY <1>2, <2>2, TaskFacts, ResourcesAssumption DEF HoldsOf
    <3> QED  BY <2>2, <3>1 DEF HoldsOf
  <2>3. /\ V \in [Tasks -> [Mutexes -> Nat]] /\ V[t][m] = k.depth[m] - 1
        /\ \A u \in Tasks : \A x \in Mutexes : u # t \/ x # m => V[u][x] = H[u][x]
    BY <1>0, <1>3, <2>2, <2>5
  <2>8. ASSUME NEW x \in Mutexes, x # m  PROVE HoldsOf(e, L, V, x)
    <3>1. /\ HoldsOf(k, L, H, x) /\ e.owner[x] = k.owner[x] /\ e.depth[x] = k.depth[x]
          /\ \A u \in Tasks : V[u][x] = H[u][x]
          /\ k.owner[x] \in Tasks \cup {NIL}
      BY <1>1, <1>6, <2>2, <2>3, <2>8 DEF KernelType
    <3> QED  BY ONLY <1>6, <3>1 DEF HoldsOf
  <2>9. CASE e.depth[m] = 0
    <3>1. \A u \in Tasks : V[u][m] = 0
      BY <1>6, <2>3, <2>4, <2>9
    <3>2. Exact(j, Tasks) /\ j.fault = "none" /\ Released(e, j, m)
      BY <1>5, <1>6, <1>8, <2>2, <2>9
    <3>3. V \in [Tasks -> [Mutexes -> Nat]]
      BY <2>3
    <3> QED  BY ONLY m \in Mutexes, <1>5, <2>8, <3>1, <3>2, <3>3, ReleasedStrict
  <2>10. CASE e.depth[m] # 0
    <3>1. j = e
      BY <1>0, <2>10
    <3>2. V[t][m] > 0
      BY <1>3, <1>6, <2>3, <2>10
    <3>3. HoldsOf(e, L, V, m)
      <4>1. m # NONE
        BY ResourcesAssumption
      <4> QED  BY <1>2, <1>6, <2>3, <2>4, <2>5, <3>2, <4>1 DEF HoldsOf
    <3>4. Strict(e, L, V)
      BY <1>5, <1>6, <2>2, <2>3, <2>8, <3>3 DEF Strict
    <3> QED  BY <3>1, <3>4
  <2> QED  BY <2>9, <2>10
<1> QED  BY <1>9, <1>10

\* What a task was granted leaves the account when the grant is cleared.
LEMMA ClearedConsistent ==
  ASSUME NEW k, NEW P, NEW L, NEW O, Consistent(k, P, L, O), NEW t \in Tasks,
         NEW c, Cleared(k, c, t), NEW r, r = k.tcb[t].granted,
         NEW V, V = (IF r \in Sems THEN [O EXCEPT ![r] = @ - 1] ELSE O)
  PROVE  Consistent(c, P, L, V) /\ (r \in Sems => O[r] >= 1)
<1>1. KInv(k) /\ k \in KernelType /\ Attached(k, P, L) /\ Owes(k, O) /\ O \in [Sems -> Nat]
  BY DEF Consistent, KInv
<1>2. /\ c.count = k.count /\ c.tcb[t].granted = NONE
      /\ \A u \in Tasks : u # t => c.tcb[u] = k.tcb[u]
      /\ \A u \in Tasks : c.tcb[u].state = k.tcb[u].state /\ c.tcb[u].waiting = k.tcb[u].waiting
  BY DEF Cleared
<1>3. KInv(c)
  BY <1>1, ClearedInv
<1>4. Attached(c, P, L)
  <2> SUFFICES ASSUME NEW u \in Tasks
               PROVE  /\ c.tcb[u].granted # NONE \/ c.tcb[u].state = "Blocked" => P[u]
                      /\ c.tcb[u].waiting \in L \cup {NONE}
                      /\ c.tcb[u].granted \in L \cup {NONE}
    BY DEF Attached
  <2>1. CASE u = t
    BY <1>1, <1>2, <2>1 DEF Attached
  <2>2. CASE u # t
    BY <1>1, <1>2, <2>2 DEF Attached
  <2> QED  BY <2>1, <2>2
<1>5. \A s \in Sems : s # r => Permits(c, s) = Permits(k, s)
  <2>1. \A s \in Sems : s # r => GrantsOf(c, s) = GrantsOf(k, s)
    <3> SUFFICES ASSUME NEW s \in Sems, s # r, NEW u \in Tasks
                 PROVE  c.tcb[u].granted = s <=> k.tcb[u].granted = s
      BY DEF GrantsOf
    <3>1. s # NONE
      BY ResourcesAssumption
    <3>2. CASE u = t
      BY <1>2, <3>1, <3>2
    <3>3. CASE u # t
      BY <1>2, <3>3
    <3> QED  BY <3>2, <3>3
  <2> QED  BY <1>2, <2>1 DEF Permits
<1>6. ASSUME r \in Sems  PROVE O[r] >= 1 /\ Permits(c, r) = O[r] - 1
  <2>1. GrantsOf(c, r) = GrantsOf(k, r) \ {t} /\ t \in GrantsOf(k, r)
    <3>1. r # NONE
      BY <1>6, ResourcesAssumption
    <3> QED  BY <1>2, <3>1 DEF GrantsOf
  <2>2. /\ IsFiniteSet(GrantsOf(k, r)) /\ Cardinality(GrantsOf(k, r)) \in Nat
        /\ Cardinality(GrantsOf(c, r)) \in Nat
    BY GrantsFinite
  <2>3. Cardinality(GrantsOf(c, r)) = Cardinality(GrantsOf(k, r)) - 1
    BY <2>1, <2>2, FS_RemoveElement
  <2>4. O[r] = k.count[r] + Cardinality(GrantsOf(k, r)) /\ k.count[r] \in Nat
    BY <1>1, <1>6 DEF Owes, Permits, KernelType
  <2>5. c.count[r] = k.count[r]
    BY <1>2
  <2> QED  BY ONLY <2>2, <2>3, <2>4, <2>5 DEF Permits
<1>7. V \in [Sems -> Nat] /\ Owes(c, V)
  <2>1. CASE r \in Sems
    <3>1. V = [O EXCEPT ![r] = O[r] - 1]
      BY <2>1
    <3>2. O[r] \in Nat /\ O[r] - 1 \in Nat
      BY <1>1, <1>6, <2>1
    <3>3. V \in [Sems -> Nat] /\ V[r] = O[r] - 1 /\ \A s \in Sems : s # r => V[s] = O[s]
      BY ONLY <1>1, <2>1, <3>1, <3>2
    <3>4. ASSUME NEW s \in Sems  PROVE V[s] = Permits(c, s)
      <4>1. O[s] = Permits(k, s)
        BY <1>1 DEF Owes
      <4> QED  BY ONLY s \in Sems, <1>5, <1>6, <2>1, <3>3, <4>1
    <3> QED  BY <3>3, <3>4 DEF Owes
  <2>2. CASE r \notin Sems
    <3>1. V = O /\ \A s \in Sems : s # r
      BY <2>2
    <3> QED  BY <1>1, <1>5, <3>1 DEF Owes
  <2> QED  BY <2>1, <2>2
<1>8. P \in [Tasks -> BOOLEAN] /\ L \in SUBSET Resources
  BY DEF Consistent
<1> QED  BY ONLY <1>3, <1>4, <1>6, <1>7, <1>8 DEF Consistent

\* A resumed task consumes its grant, if it has one, and leaves down or lock; the
\* permit or the lock is then accounted for.
Returning(k, j, P, Q, O, V, H, W, t) ==
  LET r == k.tcb[t].granted
  IN  /\ k.tcb[t].state = "Ready" /\ j = Consumed(k, t) /\ Q = [P EXCEPT ![t] = FALSE]
      /\ V = (IF r \in Sems THEN [O EXCEPT ![r] = @ - 1] ELSE O)
      /\ W = (IF r \in Mutexes THEN [H EXCEPT ![t][r] = @ + 1] ELSE H)

\* That keeps the invariant.
LEMMA ReturnKeeps ==
  ASSUME NEW k, NEW P, NEW L, NEW O, Consistent(k, P, L, O), NEW H, NEW t \in Tasks,
         NEW j, NEW Q, NEW V, NEW W, Returning(k, j, P, Q, O, V, H, W, t)
  PROVE  Consistent(j, Q, L, V) /\ (Strict(k, L, H) => Strict(j, L, W))
<1> SUFFICES ASSUME NEW r, r = k.tcb[t].granted,
                    k.tcb[t].state = "Ready", j = Consumed(k, t), Q = [P EXCEPT ![t] = FALSE],
                    V = (IF r \in Sems THEN [O EXCEPT ![r] = @ - 1] ELSE O),
                    W = (IF r \in Mutexes THEN [H EXCEPT ![t][r] = @ + 1] ELSE H)
             PROVE  Consistent(j, Q, L, V) /\ (Strict(k, L, H) => Strict(j, L, W))
  BY DEF Returning
<1>1. KInv(k) /\ k \in KernelType /\ Grants(k) /\ P \in [Tasks -> BOOLEAN]
  BY DEF Consistent, KInv
<1>2. Cleared(k, j, t)
  <2>1. j = [k EXCEPT !.tcb[t].semGranted = FALSE, !.tcb[t].granted = NONE]
    BY DEF Consumed
  <2> QED  BY ONLY <1>1, <2>1, t \in Tasks, ClearFacts
<1>3. Consistent(j, P, L, V)
  BY ONLY Consistent(k, P, L, O), t \in Tasks, <1>2, r = k.tcb[t].granted,
          V = (IF r \in Sems THEN [O EXCEPT ![r] = @ - 1] ELSE O), ClearedConsistent
<1>4. /\ j.tcb[t].granted = NONE /\ j.tcb[t].state = "Ready"
      /\ j.owner = k.owner /\ j.depth = k.depth /\ j.fault = k.fault
      /\ \A u \in Tasks : u # t => j.tcb[u] = k.tcb[u]
      /\ \A u \in Tasks : j.tcb[u].state = k.tcb[u].state
  BY <1>2 DEF Cleared
<1>5. Q \in [Tasks -> BOOLEAN] /\ \A u \in Tasks : u # t => Q[u] = P[u]
  BY <1>1
<1>6. Attached(j, Q, L)
  <2> SUFFICES ASSUME NEW u \in Tasks
               PROVE  /\ j.tcb[u].granted # NONE \/ j.tcb[u].state = "Blocked" => Q[u]
                      /\ j.tcb[u].waiting \in L \cup {NONE}
                      /\ j.tcb[u].granted \in L \cup {NONE}
    BY DEF Attached
  <2>1. /\ j.tcb[u].granted # NONE \/ j.tcb[u].state = "Blocked" => P[u]
        /\ j.tcb[u].waiting \in L \cup {NONE}
        /\ j.tcb[u].granted \in L \cup {NONE}
    BY <1>3 DEF Consistent, Attached
  <2>2. CASE u = t
    BY <1>4, <2>1, <2>2
  <2>3. CASE u # t
    <3>1. Q[u] = P[u]
      BY <1>5, <2>3
    <3> QED  BY ONLY <2>1, <3>1
  <2> QED  BY <2>2, <2>3
<1>7. Consistent(j, Q, L, V)
  <2>1. KInv(j) /\ L \in SUBSET Resources /\ V \in [Sems -> Nat] /\ Owes(j, V)
    BY ONLY <1>3 DEF Consistent
  <2> QED  BY ONLY <2>1, <1>5, <1>6 DEF Consistent
<1>8. ASSUME Strict(k, L, H)  PROVE Strict(j, L, W)
  <2>1. /\ H \in [Tasks -> [Mutexes -> Nat]] /\ \A x \in Mutexes : HoldsOf(k, L, H, x)
        /\ Exact(k, Tasks) /\ k.fault = "none"
    BY <1>8 DEF Strict
  <2>2. Exact(j, Tasks)
    BY <1>1, <1>2, <2>1, ClearedInv
  <2>3. \A x \in Mutexes : k.owner[x] \in Tasks \cup {NIL} /\ x # NONE
    BY <1>1, ResourcesAssumption DEF KernelType
  <2>4. ASSUME NEW x \in Mutexes, x # r, \A u \in Tasks : W[u][x] = H[u][x]
        PROVE  HoldsOf(j, L, W, x)
    <3>1. HoldsOf(k, L, H, x) /\ k.owner[x] \in Tasks \cup {NIL} /\ x # NONE
      BY <2>1, <2>3
    <3>2. \A u \in Tasks : k.tcb[u].granted = x <=> j.tcb[u].granted = x
      <4> SUFFICES ASSUME NEW u \in Tasks  PROVE k.tcb[u].granted = x <=> j.tcb[u].granted = x
        OBVIOUS
      <4>1. CASE u = t
        BY <1>4, <2>4, <3>1, <4>1
      <4>2. CASE u # t
        BY <1>4, <4>2
      <4> QED  BY <4>1, <4>2
    <3> QED  BY ONLY <1>4, <2>4, <3>1, <3>2 DEF HoldsOf
  <2>5. CASE r \in Mutexes
    <3>1. k.owner[r] = t /\ k.depth[r] = 1
      BY <1>1, <2>5 DEF Grants
    <3>2. \A u \in Tasks : H[u][r] = 0
      <4> SUFFICES ASSUME NEW u \in Tasks, H[u][r] > 0  PROVE FALSE
        BY <2>1, <2>5
      <4>1. k.owner[r] = u /\ k.tcb[u].granted # r
        BY <2>1, <2>5 DEF HoldsOf
      <4> QED  BY <3>1, <4>1
    <3>3. r \in L
      BY <2>3, <2>5 DEF Consistent, Attached
    <3>4. /\ W \in [Tasks -> [Mutexes -> Nat]] /\ W[t][r] = 1
          /\ \A u \in Tasks : \A x \in Mutexes : u # t \/ x # r => W[u][x] = H[u][x]
      <4>1. W = [H EXCEPT ![t][r] = @ + 1]
        BY <2>5
      <4> QED  BY <2>1, <2>5, <3>2, <4>1
    <3>5. HoldsOf(j, L, W, r)
      <4>1. j.owner[r] = t /\ j.depth[r] = 1 /\ j.tcb[t].granted # r /\ j.tcb[t].state # "Free"
        BY <1>4, <2>3, <2>5, <3>1
      <4>2. \A u \in Tasks : W[u][r] > 0 => u = t
        BY <2>5, <3>2, <3>4
      <4> QED  BY ONLY <3>3, <3>4, <4>1, <4>2 DEF HoldsOf
    <3>6. ASSUME NEW x \in Mutexes  PROVE HoldsOf(j, L, W, x)
      <4>1. CASE x = r
        BY <3>5, <4>1
      <4>2. CASE x # r
        BY <2>4, <3>4, <4>2
      <4> QED  BY <4>1, <4>2
    <3> QED  BY <1>4, <2>1, <2>2, <3>4, <3>6 DEF Strict
  <2>6. CASE r \notin Mutexes
    <3>1. W = H
      BY <2>6
    <3>2. \A x \in Mutexes : HoldsOf(j, L, W, x)
      BY <2>4, <2>6, <3>1
    <3> QED  BY <1>4, <2>1, <2>2, <3>1, <3>2 DEF Strict
  <2> QED  BY <2>5, <2>6
<1> QED  BY <1>7, <1>8

\* A revoked permit goes to another waiter or back to the count.
LEMMA RevokeSemaphoreKeeps ==
  ASSUME NEW k, NEW P, NEW L, NEW O, Consistent(k, P, L, O), NEW H,
         NEW t \in Tasks, NEW r \in Sems, k.tcb[t].granted = r, NEW j, j = RevokeGrant(k, t)
  PROVE  Consistent(j, P, L, O) /\ (Strict(k, L, H) => Strict(j, L, H))
<1> SUFFICES ASSUME NEW c, c = [k EXCEPT !.tcb[t].granted = NONE, !.tcb[t].semGranted = FALSE],
                    NEW V, V = [O EXCEPT ![r] = @ - 1]
             PROVE  Consistent(j, P, L, O) /\ (Strict(k, L, H) => Strict(j, L, H))
  OBVIOUS
<1>0. j = ReleaseSemaphoreLocked(c, r)
  BY DEF RevokeGrant
<1>1. KInv(k) /\ k \in KernelType /\ O \in [Sems -> Nat]
  BY DEF Consistent, KInv
<1>2. Cleared(k, c, t)
  BY ClearFacts, <1>1
<1>3. Consistent(c, P, L, V) /\ O[r] >= 1
  <2>1. V = (IF r \in Sems THEN [O EXCEPT ![r] = @ - 1] ELSE O) /\ r = k.tcb[t].granted
    OBVIOUS
  <2> QED  BY ONLY Consistent(k, P, L, O), t \in Tasks, r \in Sems, <1>2, <2>1, ClearedConsistent
<1>4. O = [V EXCEPT ![r] = @ + 1]
  <2>1. V = [O EXCEPT ![r] = O[r] - 1] /\ O[r] \in Nat
    BY <1>1
  <2>2. /\ V \in [Sems -> Int] /\ V[r] + 1 = O[r]
        /\ \A x \in Sems : x # r => V[x] = O[x]
    BY ONLY <1>1, <2>1, r \in Sems
  <2> QED  BY ONLY <1>1, <2>2, r \in Sems
<1>5. Consistent(j, P, L, O) /\ (Strict(c, L, H) => Strict(j, L, H))
  BY ONLY <1>0, <1>3, <1>4, r \in Sems, UpKeeps
<1>6. ASSUME Strict(k, L, H)  PROVE Strict(c, L, H)
  <2>1. /\ H \in [Tasks -> [Mutexes -> Nat]] /\ \A x \in Mutexes : HoldsOf(k, L, H, x)
        /\ Exact(k, Tasks) /\ k.fault = "none"
    BY <1>6 DEF Strict
  <2>2. Exact(c, Tasks)
    BY <1>1, <1>2, <2>1, ClearedInv
  <2>3. /\ c.owner = k.owner /\ c.depth = k.depth /\ c.fault = k.fault
        /\ c.tcb[t].granted = NONE /\ \A u \in Tasks : u # t => c.tcb[u] = k.tcb[u]
        /\ \A u \in Tasks : c.tcb[u].state = k.tcb[u].state
    BY <1>2 DEF Cleared
  <2>4. ASSUME NEW x \in Mutexes  PROVE HoldsOf(c, L, H, x)
    <3>1. HoldsOf(k, L, H, x) /\ k.owner[x] \in Tasks \cup {NIL} /\ x # NONE /\ x # r
      BY <1>1, <2>1, ResourcesAssumption DEF KernelType
    <3>2. \A u \in Tasks : k.tcb[u].granted = x <=> c.tcb[u].granted = x
      <4> SUFFICES ASSUME NEW u \in Tasks  PROVE k.tcb[u].granted = x <=> c.tcb[u].granted = x
        OBVIOUS
      <4>1. CASE u = t
        BY <2>3, <3>1, <4>1
      <4>2. CASE u # t
        BY <2>3, <4>2
      <4> QED  BY <4>1, <4>2
    <3> QED  BY ONLY <2>3, <3>1, <3>2 DEF HoldsOf
  <2> QED  BY <2>1, <2>2, <2>3, <2>4 DEF Strict
<1> QED  BY <1>5, <1>6

\* A revoked mutex handoff finds its depth-one owner and is handed on.
LEMMA RevokeMutexKeeps ==
  ASSUME NEW k, NEW P, NEW L, NEW O, Consistent(k, P, L, O), NEW H,
         NEW t \in Tasks, NEW r \in Mutexes, k.tcb[t].granted = r, NEW j, j = RevokeGrant(k, t)
  PROVE  Consistent(j, P, L, O) /\ (Strict(k, L, H) => Strict(j, L, H))
<1> SUFFICES ASSUME NEW c, c = [k EXCEPT !.tcb[t].granted = NONE, !.tcb[t].semGranted = FALSE],
                    NEW e, e = [c EXCEPT !.depth[r] = 0]
             PROVE  Consistent(j, P, L, O) /\ (Strict(k, L, H) => Strict(j, L, H))
  OBVIOUS
<1>1. KInv(k) /\ k \in KernelType /\ Grants(k)
  BY DEF Consistent, KInv
<1>a. r \notin Sems /\ r # NONE
  BY ResourcesAssumption
<1>b. k.owner[r] = t /\ k.depth[r] = 1
  BY <1>1 DEF Grants
<1>0. j = ReleaseMutexLocked(e, r, t)
  BY <1>a, <1>b DEF RevokeGrant
<1>2. Cleared(k, c, t)
  BY ClearFacts, <1>1
<1>3. Consistent(c, P, L, O)
  <2>1. O = (IF r \in Sems THEN [O EXCEPT ![r] = @ - 1] ELSE O) /\ r = k.tcb[t].granted
    BY <1>a
  <2> QED  BY ONLY Consistent(k, P, L, O), t \in Tasks, <1>2, <2>1, ClearedConsistent
<1>4. /\ c \in KernelType /\ c.owner = k.owner /\ c.depth = k.depth /\ c.fault = k.fault
      /\ c.tcb[t].granted = NONE /\ \A u \in Tasks : u # t => c.tcb[u] = k.tcb[u]
      /\ \A u \in Tasks : c.tcb[u].state = k.tcb[u].state
  BY <1>2 DEF Cleared
<1>5. Ungranted(c, r)
  <2> SUFFICES ASSUME NEW u \in Tasks, c.tcb[u].granted = r  PROVE FALSE
    BY DEF Ungranted
  <2>1. u # t
    BY <1>4, <1>a
  <2>2. k.tcb[u].granted = r
    BY <1>4, <2>1
  <2>3. k.owner[r] = u
    BY <1>1, <2>2 DEF Grants
  <2> QED  BY <1>b, <2>1, <2>3
<1>6. Owning(c, e, r, t, 0)
  <2>1. e = [c EXCEPT !.depth[r] = 0] /\ t = c.owner[r] /\ t \in Tasks \cup {NIL} /\ 0 \in Nat
    BY <1>4, <1>b
  <2> QED  BY ONLY <1>4, <2>1, r \in Mutexes, OwnFacts
<1>7. KInv(c) /\ t = c.owner[r]
  BY <1>3, <1>4, <1>b DEF Consistent
<1>8. /\ KInv(e) /\ Moves(c, e) /\ Ungranted(e, r)
      /\ \A s \in Sems : Permits(e, s) = Permits(c, s)
      /\ Exact(c, Tasks) => Exact(e, Tasks)
  BY ONLY <1>5, <1>6, <1>7, r \in Mutexes, OwnInv
<1>9. /\ e.tcb = c.tcb /\ e.fault = k.fault /\ e.owner[r] = t
      /\ \A x \in Mutexes : x # r => e.owner[x] = k.owner[x] /\ e.depth[x] = k.depth[x]
  BY ONLY <1>4, <1>6 DEF Owning
<1>10. /\ KInv(j) /\ Released(e, j, r)
       /\ Exact(e, Tasks) => Exact(j, Tasks) /\ j.fault = e.fault
  BY ONLY <1>0, <1>8, <1>9, t \in Tasks, r \in Mutexes, ReleaseMutexFacts
<1>11. Consistent(e, P, L, O)
  BY ONLY <1>3, <1>8, MovesConsistent
<1>12. Consistent(j, P, L, O)
  BY ONLY <1>10, <1>11, ReleasedConsistent
<1>13. ASSUME Strict(k, L, H)  PROVE Strict(j, L, H)
  <2>1. /\ H \in [Tasks -> [Mutexes -> Nat]] /\ \A x \in Mutexes : HoldsOf(k, L, H, x)
        /\ Exact(k, Tasks) /\ k.fault = "none"
    BY <1>13 DEF Strict
  <2>2. Exact(j, Tasks) /\ j.fault = "none"
    <3>1. Exact(c, Tasks)
      BY ONLY t \in Tasks, <1>1, <1>2, <2>1, ClearedInv
    <3> QED  BY <1>8, <1>9, <1>10, <2>1, <3>1
  <2>3. \A u \in Tasks : H[u][r] = 0
    <3> SUFFICES ASSUME NEW u \in Tasks, H[u][r] > 0  PROVE FALSE
      BY <2>1
    <3>1. k.owner[r] = u /\ k.tcb[u].granted # r
      BY <2>1 DEF HoldsOf
    <3> QED  BY <1>b, <3>1
  <2>4. ASSUME NEW x \in Mutexes, x # r  PROVE HoldsOf(e, L, H, x)
    <3>1. /\ HoldsOf(k, L, H, x) /\ k.owner[x] \in Tasks \cup {NIL} /\ x # NONE
          /\ e.owner[x] = k.owner[x] /\ e.depth[x] = k.depth[x]
      BY <1>1, <1>9, <2>1, <2>4, ResourcesAssumption DEF KernelType
    <3>2. \A u \in Tasks : k.tcb[u].granted = x <=> e.tcb[u].granted = x
      <4> SUFFICES ASSUME NEW u \in Tasks  PROVE k.tcb[u].granted = x <=> e.tcb[u].granted = x
        OBVIOUS
      <4>1. CASE u = t
        BY <1>4, <1>9, <2>4, <3>1, <4>1
      <4>2. CASE u # t
        BY <1>4, <1>9, <4>2
      <4> QED  BY <4>1, <4>2
    <3>3. \A u \in Tasks : e.tcb[u].state = k.tcb[u].state
      BY <1>4, <1>9
    <3> QED  BY ONLY <3>1, <3>2, <3>3 DEF HoldsOf
  <2> QED  BY ONLY r \in Mutexes, <1>8, <1>10, <2>1, <2>2, <2>3, <2>4, ReleasedStrict
<1> QED  BY <1>12, <1>13

\* Changes to a task that is in no queue keep every queue.
LEMMA UnqueuedKept ==
  ASSUME NEW k \in KernelType, QueuesOK(k), NEW t \in Tasks,
         \A r \in Resources : ~In(k.queue[r], t), NEW j \in KernelType, j.queue = k.queue,
         \A u \in Tasks : u # t => j.tcb[u] = k.tcb[u]
  PROVE  QueuesOK(j)
<1> SUFFICES ASSUME NEW r \in Resources
             PROVE  /\ Distinct(j.queue[r]) /\ Sorted(j.tcb, j.queue[r])
                    /\ \A u : In(j.queue[r], u) => j.tcb[u].waiting = r
  BY DEF QueuesOK
<1>1. /\ Distinct(k.queue[r]) /\ Sorted(k.tcb, k.queue[r])
      /\ \A u : In(k.queue[r], u) => k.tcb[u].waiting = r
  BY DEF QueuesOK
<1>2. (\A i \in DOMAIN k.queue[r] : k.queue[r][i] \in Tasks) /\ (\A u : In(k.queue[r], u) => u \in Tasks)
  BY QueueMembers
<1>4. \A i \in DOMAIN k.queue[r] : j.tcb[k.queue[r][i]].priority = k.tcb[k.queue[r][i]].priority
  BY <1>2 DEF In
<1>5. Sorted(j.tcb, j.queue[r])
  BY <1>1, <1>4 DEF Sorted
<1> QED  BY <1>1, <1>2, <1>5

\* In a the task t is blocked and linked into the queue of r.
Parks(k, a, t, r) ==
  /\ a \in KernelType /\ QueuesOK(a)
  /\ a.count = k.count /\ a.owner = k.owner /\ a.depth = k.depth /\ a.fault = k.fault
  /\ \A u \in Tasks : u # t => a.tcb[u] = k.tcb[u]
  /\ a.tcb[t].state = "Blocked" /\ a.tcb[t].waiting = r
  /\ a.tcb[t].granted = k.tcb[t].granted /\ ~a.tcb[t].semGranted
  /\ a.tcb[t].base = k.tcb[t].base /\ a.tcb[t].priority = k.tcb[t].priority
  /\ a.tcb[t].inherited = k.tcb[t].inherited
  /\ \A x \in Resources : x # r => a.queue[x] = k.queue[x]
  /\ \A u : In(a.queue[r], u) <=> In(k.queue[r], u) \/ u = t

\* The blocking part of down and lock does that.
LEMMA ParkFacts ==
  ASSUME NEW k, KInv(k), NEW t \in Tasks, k.tcb[t].state = "Ready", NEW r \in Resources,
         NEW timed \in BOOLEAN,
         NEW b, b = [k EXCEPT !.tcb[t].state = "Blocked", !.tcb[t].timed = timed,
                              !.tcb[t].waiting = r, !.tcb[t].semGranted = FALSE],
         NEW a, a = EnqueueWaiter(b, r, t)
  PROVE  Parks(k, a, t, r)
<1> SUFFICES ASSUME NEW x, x = k.tcb[t],
                    NEW y, y = [x EXCEPT !.state = "Blocked", !.timed = timed,
                                         !.waiting = r, !.semGranted = FALSE]
             PROVE  Parks(k, a, t, r)
  OBVIOUS
<1>1. k \in KernelType /\ QueuesOK(k) /\ Waits(k)
  BY DEF KInv
<1>2. k.tcb \in [Tasks -> TcbType] /\ x \in TcbType
  BY <1>1 DEF KernelType
<1>3. /\ y \in TcbType /\ y.state = "Blocked" /\ y.waiting = r /\ ~y.semGranted
      /\ y.granted = x.granted /\ y.base = x.base /\ y.priority = x.priority
      /\ y.inherited = x.inherited
  BY ONLY <1>2, timed \in BOOLEAN, r \in Resources,
          y = [x EXCEPT !.state = "Blocked", !.timed = timed, !.waiting = r, !.semGranted = FALSE]
          DEF TcbType
<1>4. b = [k EXCEPT !.tcb[t] = y]
  BY <1>1, <1>2 DEF KernelType
<1>5. Retasked(k, b, t, y)
  BY ONLY t \in Tasks, <1>1, <1>3, <1>4, Retask
<1>6. /\ b \in KernelType
      /\ b.queue = k.queue /\ b.count = k.count /\ b.owner = k.owner
      /\ b.depth = k.depth /\ b.fault = k.fault /\ b.tcb[t] = y
      /\ \A u \in Tasks : u # t => b.tcb[u] = k.tcb[u]
  BY ONLY <1>5 DEF Retasked
<1>7. \A s \in Resources : ~In(k.queue[s], t)
  <2>1. k.tcb[t].waiting = NONE
    BY <1>1 DEF Waits
  <2> QED  BY <1>1, <2>1, ResourcesAssumption DEF QueuesOK, Resources
<1>8. QueuesOK(b)
  BY ONLY t \in Tasks, <1>1, <1>6, <1>7, UnqueuedKept
<1>9. Relinked(b, a, r, TRUE, t)
  <2>1. b.tcb[t].waiting = r /\ ~In(b.queue[r], t)
    BY <1>3, <1>6, <1>7
  <2> QED  BY ONLY t \in Tasks, r \in Resources, a = EnqueueWaiter(b, r, t), <1>6, <1>8, <2>1,
              LinkFacts
<1>10. /\ a \in KernelType /\ QueuesOK(a)
       /\ a.tcb = b.tcb /\ a.count = b.count /\ a.owner = b.owner
       /\ a.depth = b.depth /\ a.fault = b.fault /\ In(a.queue[r], t)
       /\ \A u : u # t => (In(a.queue[r], u) <=> In(b.queue[r], u))
       /\ \A s \in Resources : s # r => a.queue[s] = b.queue[s]
  BY ONLY <1>9 DEF Relinked
<1>11. \A u : In(a.queue[r], u) <=> In(k.queue[r], u) \/ u = t
  BY ONLY <1>6, <1>10
<1>12. x = k.tcb[t]
  OBVIOUS
<1> QED  BY ONLY <1>3, <1>6, <1>10, <1>11, <1>12 DEF Parks

\* A task that parks without closing a cycle keeps the kernel's invariant.
LEMMA ParkInv ==
  ASSUME NEW k, KInv(k), NEW t \in Tasks, k.tcb[t].state = "Ready", k.tcb[t].granted = NONE,
         NEW r \in Resources, NEW a, Parks(k, a, t, r), Acyclic(a),
         r \in Sems => k.count[r] = 0, r \in Mutexes => k.owner[r] # NIL
  PROVE  KInv(a)
<1>1. k \in KernelType /\ QueuesOK(k) /\ Acyclic(k) /\ Waits(k) /\ Grants(k) /\ Frees(k)
  BY DEF KInv
<1>2. /\ a \in KernelType /\ QueuesOK(a)
      /\ a.count = k.count /\ a.owner = k.owner /\ a.depth = k.depth
      /\ \A u \in Tasks : u # t => a.tcb[u] = k.tcb[u]
      /\ a.tcb[t].state = "Blocked" /\ a.tcb[t].waiting = r
      /\ a.tcb[t].granted = NONE /\ ~a.tcb[t].semGranted
      /\ \A x \in Resources : x # r => a.queue[x] = k.queue[x]
      /\ \A u : In(a.queue[r], u) <=> In(k.queue[r], u) \/ u = t
  BY DEF Parks
<1>3. r # NONE
  BY ResourcesAssumption DEF Resources
<1>4. Waits(a)
  <2> SUFFICES ASSUME NEW u \in Tasks
               PROVE  /\ a.tcb[u].waiting # NONE <=> a.tcb[u].state = "Blocked"
                      /\ a.tcb[u].waiting # NONE => In(a.queue[a.tcb[u].waiting], u)
    BY DEF Waits
  <2>1. CASE u = t
    BY <1>2, <1>3, <2>1
  <2>2. CASE u # t
    <3>1. a.tcb[u] = k.tcb[u]
      BY <1>2, <2>2
    <3>2. /\ k.tcb[u].waiting # NONE <=> k.tcb[u].state = "Blocked"
          /\ k.tcb[u].waiting # NONE => In(k.queue[k.tcb[u].waiting], u)
      BY <1>1 DEF Waits
    <3>3. k.tcb[u].waiting \in Resources \cup {NONE}
      BY <1>1 DEF KernelType, TcbType
    <3>4. k.tcb[u].waiting # NONE => In(a.queue[k.tcb[u].waiting], u)
      BY <1>2, <3>2, <3>3
    <3> QED  BY ONLY <3>1, <3>2, <3>4
  <2> QED  BY <2>1, <2>2
<1>5. Grants(a)
  <2> SUFFICES ASSUME NEW u \in Tasks
               PROVE  /\ a.tcb[u].semGranted <=> a.tcb[u].granted # NONE
                      /\ a.tcb[u].granted # NONE => a.tcb[u].state = "Ready"
                      /\ a.tcb[u].granted \in Mutexes =>
                           a.owner[a.tcb[u].granted] = u /\ a.depth[a.tcb[u].granted] = 1
    BY DEF Grants
  <2>1. CASE u = t
    BY <1>2, <2>1, ResourcesAssumption
  <2>2. CASE u # t
    BY <1>1, <1>2, <2>2 DEF Grants
  <2> QED  BY <2>1, <2>2
<1>6. Frees(a)
  <2>1. ASSUME NEW m \in Mutexes, a.owner[m] = NIL  PROVE a.queue[m] = <<>>
    <3>1. m # r /\ m \in Resources
      BY <1>2, <2>1 DEF Resources
    <3> QED  BY <1>1, <1>2, <2>1, <3>1 DEF Frees
  <2>2. ASSUME NEW s \in Sems, a.count[s] > 0  PROVE a.queue[s] = <<>>
    <3>1. s # r /\ s \in Resources
      BY <1>2, <2>2 DEF Resources
    <3> QED  BY <1>1, <1>2, <2>2, <3>1 DEF Frees
  <2> QED  BY <2>1, <2>2 DEF Frees
<1> QED  BY <1>2, <1>4, <1>5, <1>6 DEF KInv

\* What mutex_chain_contains walks, and that it does not arrive at t.
Unreached(k, o, t) ==
  \E f : /\ f[0] = o
         /\ \A i \in 1..TaskSlotCount :
              f[i] = IF f[i - 1] \in {NIL, t} THEN f[i - 1] ELSE Succ(k, f[i - 1])
         /\ f[TaskSlotCount] = NIL

\* The check of lock is enough: a wait that it admits closes no cycle.
LEMMA ParkAcyclic ==
  ASSUME NEW k, KInv(k), NEW t \in Tasks, NEW r \in Resources, NEW a, Parks(k, a, t, r),
         NEW o, o = Succ(a, t), Unreached(k, o, t) \/ o = NIL
  PROVE  Acyclic(a)
<1>1. Acyclic(k)
  BY DEF KInv
<1>2. \A u \in Tasks : u # t => Succ(a, u) = Succ(k, u)
  BY DEF Parks, Succ
<1> SUFFICES ASSUME NEW S \in SUBSET Tasks, S # {}, \A u \in S : Succ(a, u) \in S
             PROVE  FALSE
  BY DEF Acyclic
<1>3. NIL \notin S
  BY TaskFacts
<1>4. t \in S
  <2> SUFFICES ASSUME t \notin S  PROVE FALSE
    OBVIOUS
  <2>1. PICK u \in S : Succ(k, u) \notin S
    BY <1>1 DEF Acyclic
  <2> QED  BY <1>2, <2>1
<1>5. o \in S
  BY <1>4
<1>6. PICK f : /\ f[0] = o
               /\ \A i \in 1..TaskSlotCount :
                    f[i] = IF f[i - 1] \in {NIL, t} THEN f[i - 1] ELSE Succ(k, f[i - 1])
               /\ f[TaskSlotCount] = NIL
  BY <1>3, <1>5 DEF Unreached
<1> DEFINE n == TaskSlotCount
           Inside == {i \in 0..n : f[i] \in S}
<1>7. n \in Nat
  BY TaskFacts
<1>8. 0 \in Inside
  BY <1>5, <1>6, <1>7
<1>9. ASSUME NEW i \in 1..n, i - 1 \in Inside  PROVE i \in Inside
  <2>1. f[i - 1] \in S /\ i \in 0..n
    BY <1>7, <1>9
  <2>2. CASE f[i - 1] = t
    BY <1>6, <2>1, <2>2
  <2>3. CASE f[i - 1] # t
    <3>1. f[i - 1] \notin {NIL, t}
      BY <1>3, <2>1, <2>3
    <3>2. f[i] = Succ(k, f[i - 1])
      BY <1>6, <3>1
    <3>3. Succ(k, f[i - 1]) = Succ(a, f[i - 1])
      BY <1>2, <2>1, <2>3
    <3> QED  BY <2>1, <3>2, <3>3
  <2> QED  BY <2>2, <2>3
<1>10. \A i \in 0..n : i \in Inside
  <2> HIDE DEF Inside, n
  <2>1. \A i \in 1..n : i - 1 \in Inside => i \in Inside
    BY <1>9
  <2> QED  BY <1>7, <1>8, <2>1, Induction
<1>11. f[n] \in S
  BY <1>7, <1>10
<1> QED  BY <1>3, <1>6, <1>11

\* Parking is recorded where it must be.
LEMMA ParkConsistent ==
  ASSUME NEW k, NEW P, NEW L, NEW O, Consistent(k, P, L, O), NEW t \in Tasks,
         k.tcb[t].granted = NONE, NEW r \in Resources, r \in L, NEW a, Parks(k, a, t, r), KInv(a),
         NEW Q, Q = [P EXCEPT ![t] = TRUE]
  PROVE  Consistent(a, Q, L, O)
<1>1. /\ KInv(k) /\ P \in [Tasks -> BOOLEAN] /\ L \in SUBSET Resources /\ O \in [Sems -> Nat]
      /\ Attached(k, P, L) /\ Owes(k, O)
  BY DEF Consistent
<1>2. /\ a.count = k.count
      /\ \A u \in Tasks : u # t => a.tcb[u] = k.tcb[u]
      /\ a.tcb[t].waiting = r /\ a.tcb[t].granted = NONE
  BY DEF Parks
<1>3. Q \in [Tasks -> BOOLEAN] /\ Q[t] /\ \A u \in Tasks : u # t => Q[u] = P[u]
  BY <1>1
<1>4. Attached(a, Q, L)
  <2> SUFFICES ASSUME NEW u \in Tasks
               PROVE  /\ a.tcb[u].granted # NONE \/ a.tcb[u].state = "Blocked" => Q[u]
                      /\ a.tcb[u].waiting \in L \cup {NONE}
                      /\ a.tcb[u].granted \in L \cup {NONE}
    BY DEF Attached
  <2>1. CASE u = t
    BY <1>2, <1>3, <2>1
  <2>2. CASE u # t
    <3>1. a.tcb[u] = k.tcb[u] /\ Q[u] = P[u]
      BY <1>2, <1>3, <2>2
    <3>2. /\ k.tcb[u].granted # NONE \/ k.tcb[u].state = "Blocked" => P[u]
          /\ k.tcb[u].waiting \in L \cup {NONE}
          /\ k.tcb[u].granted \in L \cup {NONE}
      BY <1>1 DEF Attached
    <3> QED  BY ONLY <3>1, <3>2
  <2> QED  BY <2>1, <2>2
<1>5. \A u \in Tasks : a.tcb[u].granted = k.tcb[u].granted
  BY <1>2
<1>6. \A s \in Sems : Permits(a, s) = Permits(k, s)
  BY <1>2, <1>5 DEF Permits, GrantsOf
<1>7. Owes(a, O)
  BY <1>1, <1>6 DEF Owes
<1> QED  BY ONLY KInv(a), <1>1, <1>3, <1>4, <1>7 DEF Consistent

\* Parking changes no lock.
LEMMA ParkHolds ==
  ASSUME NEW k, KInv(k), NEW L, NEW H, NEW m \in Mutexes, HoldsOf(k, L, H, m), NEW t \in Tasks,
         NEW r, NEW a, Parks(k, a, t, r)
  PROVE  HoldsOf(a, L, H, m)
<1>1. k.owner[m] \in Tasks \cup {NIL}
  BY DEF KInv, KernelType
<1>2. /\ a.owner = k.owner /\ a.depth = k.depth
      /\ \A u \in Tasks : u # t => a.tcb[u] = k.tcb[u]
      /\ a.tcb[t].state = "Blocked" /\ a.tcb[t].granted = k.tcb[t].granted
  BY DEF Parks
<1>3. \A u \in Tasks : /\ a.tcb[u].granted = k.tcb[u].granted
                       /\ k.tcb[u].state # "Free" => a.tcb[u].state # "Free"
  BY <1>2
<1> QED  BY ONLY HoldsOf(k, L, H, m), <1>1, <1>2, <1>3 DEF HoldsOf

\* down without a permit at hand keeps the invariant.
LEMMA DownParkKeeps ==
  ASSUME NEW k, NEW P, NEW L, NEW O, Consistent(k, P, L, O), NEW H, NEW t \in Tasks,
         ~P[t], k.tcb[t].state = "Ready", NEW s \in Sems, s \in L, k.count[s] = 0,
         NEW a, Parks(k, a, t, s), NEW Q, Q = [P EXCEPT ![t] = TRUE]
  PROVE  Consistent(a, Q, L, O) /\ (Strict(k, L, H) => Strict(a, L, H))
<1>0. s \in Resources /\ s \notin Mutexes
  BY ResourcesAssumption DEF Resources
<1>1. KInv(k) /\ k.tcb[t].granted = NONE
  BY RunningUngranted DEF Consistent
<1>2. Succ(a, t) = NIL
  BY <1>0 DEF Parks, Succ
<1>3. Acyclic(a)
  BY ONLY t \in Tasks, Parks(k, a, t, s), <1>0, <1>1, <1>2, ParkAcyclic
<1>4. KInv(a)
  BY ONLY t \in Tasks, k.tcb[t].state = "Ready", k.count[s] = 0, Parks(k, a, t, s),
          <1>0, <1>1, <1>3, ParkInv
<1>5. Consistent(a, Q, L, O)
  BY ONLY t \in Tasks, Consistent(k, P, L, O), s \in L, Parks(k, a, t, s),
          Q = [P EXCEPT ![t] = TRUE], <1>0, <1>1, <1>4, ParkConsistent
<1>6. ASSUME Strict(k, L, H)  PROVE Strict(a, L, H)
  <2>1. /\ H \in [Tasks -> [Mutexes -> Nat]] /\ \A x \in Mutexes : HoldsOf(k, L, H, x)
        /\ Exact(k, Tasks) /\ k.fault = "none"
    BY <1>6 DEF Strict
  <2>2. \A x \in Mutexes : HoldsOf(a, L, H, x)
    BY <1>1, <2>1, ParkHolds
  <2>3. SameDonations(k, Tasks, a, Tasks)
    <3>1. k.tcb[t].waiting = NONE
      BY <1>1 DEF KInv, Waits
    <3>2. \A u \in Tasks : Succ(a, u) = Succ(k, u)
      BY <1>2, <3>1, ResourcesAssumption DEF Parks, Succ
    <3> QED  BY <3>2 DEF Parks, SameDonations
  <2>4. Tasks \in SUBSET Tasks /\ a.fault = k.fault
    BY DEF Parks
  <2>5. Exact(a, Tasks)
    BY <2>1, <2>3, <2>4, ExactKept
  <2> QED  BY <2>1, <2>2, <2>4, <2>5 DEF Strict
<1> QED  BY <1>5, <1>6

\* The new waiter donates to the owner.
LEMMA LockParkExact ==
  ASSUME NEW k, KInv(k), Exact(k, Tasks), NEW t \in Tasks, k.tcb[t].waiting = NONE,
         NEW m, NEW a, Parks(k, a, t, m), NEW o \in Tasks, Succ(a, t) = o, Sound(a, o),
         NEW p, p = a.tcb[t].priority, NEW j, j = AddInheritance(a, o, p)
  PROVE  Exact(j, Tasks) /\ j.fault = k.fault
<1> SUFFICES ASSUME NEW D, D = Less(Tasks, t), NEW E, E = Plus(D, t)
             PROVE  Exact(j, Tasks) /\ j.fault = k.fault
  OBVIOUS
<1>1. D \in SUBSET Tasks /\ t \notin D /\ E = Tasks /\ Tasks \in SUBSET Tasks
  BY DEF Less, Plus
<1>2. \A u \in Tasks : u # t => u \in D
  BY DEF Less
<1>3. SameDonations(k, Tasks, a, D)
  <2>1. \A u \in Tasks : u # t => Succ(a, u) = Succ(k, u)
    BY DEF Parks, Succ
  <2>2. Succ(k, t) = NIL
    BY ResourcesAssumption DEF Succ
  <2>3. ASSUME NEW v \in Tasks, NEW u \in Tasks
        PROVE  (u \in Tasks /\ Succ(k, u) = v) <=> (u \in D /\ Succ(a, u) = v)
    <3>1. CASE u = t
      BY <1>1, <2>2, <3>1, TaskFacts
    <3>2. CASE u # t
      BY <1>2, <2>1, <3>2
    <3> QED  BY <3>1, <3>2
  <2>4. \A u \in Tasks : /\ a.tcb[u].priority = k.tcb[u].priority
                         /\ a.tcb[u].inherited = k.tcb[u].inherited
                         /\ a.tcb[u].base = k.tcb[u].base
    BY DEF Parks
  <2> QED  BY ONLY <2>3, <2>4 DEF SameDonations
<1>4. Exact(a, D)
  BY <1>1, <1>3, ExactKept
<1>5. DonorsBut(a, D, o)
  BY <1>2 DEF DonorsBut
<1>6. Exact(j, E) /\ j.fault = a.fault
  <2>1. j = AddInheritance(a, o, a.tcb[t].priority)
    OBVIOUS
  <2>2. D \in SUBSET Tasks /\ t \notin D
    BY <1>1
  <2> QED  BY ONLY o \in Tasks, t \in Tasks, Sound(a, o), Succ(a, t) = o, E = Plus(D, t),
                   <1>4, <1>5, <2>1, <2>2, ContributeExact
<1> QED  BY <1>1, <1>6 DEF Parks

\* Inheritance moves no waiter and no permit.
LEMMA SameMoves ==
  ASSUME NEW k, NEW j, Same(k, j)
  PROVE  /\ Moves(k, j) /\ j.owner = k.owner /\ j.depth = k.depth
         /\ \A s \in Sems : Permits(j, s) = Permits(k, s)
<1>1. \A u \in Tasks : /\ j.tcb[u].waiting = k.tcb[u].waiting
                       /\ j.tcb[u].state = k.tcb[u].state
                       /\ j.tcb[u].granted = k.tcb[u].granted
  BY DEF Same, SameTask
<1>2. j.count = k.count /\ j.owner = k.owner /\ j.depth = k.depth
  BY DEF Same
<1>3. Moves(k, j)
  BY <1>1 DEF Moves
<1>4. \A s \in Sems : GrantsOf(j, s) = GrantsOf(k, s)
  BY <1>1 DEF GrantsOf
<1> QED  BY <1>2, <1>3, <1>4 DEF Permits

\* What lock does to a mutex that another task owns: the caller is inside lock
\* and linked, and its priority is donated.
ParksOn(k, P, Q, L, t, m) ==
  /\ ~P[t] /\ k.tcb[t].state = "Ready" /\ m \in L /\ Q = [P EXCEPT ![t] = TRUE]
Inherits(k, a, j, t, m, o) ==
  /\ k.owner[m] = o /\ Unreached(k, o, t) /\ Parks(k, a, t, m)
  /\ j = AddInheritance(a, o, k.tcb[t].priority)

\* It keeps the invariant.
LEMMA LockParkKeeps ==
  ASSUME NEW k, NEW P, NEW L, NEW O, Consistent(k, P, L, O), NEW H, NEW t \in Tasks,
         NEW m \in Mutexes, NEW o \in Tasks, NEW a, NEW Q, NEW j,
         ParksOn(k, P, Q, L, t, m), Inherits(k, a, j, t, m, o)
  PROVE  Consistent(j, Q, L, O) /\ (Strict(k, L, H) => Strict(j, L, H))
<1>a. SUFFICES ASSUME NEW p, p = k.tcb[t].priority
               PROVE  Consistent(j, Q, L, O) /\ (Strict(k, L, H) => Strict(j, L, H))
  OBVIOUS
<1>b. /\ ~P[t] /\ k.tcb[t].state = "Ready" /\ m \in L /\ Q = [P EXCEPT ![t] = TRUE]
      /\ k.owner[m] = o /\ Unreached(k, o, t) /\ Parks(k, a, t, m)
      /\ j = AddInheritance(a, o, p)
  BY <1>a DEF ParksOn, Inherits
<1>0. m \in Resources /\ m \notin Sems /\ o # NIL
  BY ResourcesAssumption, TaskFacts DEF Resources
<1>1. KInv(k) /\ k.tcb[t].granted = NONE
  BY <1>b, RunningUngranted DEF Consistent
<1>2. Succ(a, t) = o /\ p = a.tcb[t].priority
  BY <1>a, <1>b DEF Parks, Succ
<1>3. Acyclic(a)
  BY ONLY t \in Tasks, <1>b, <1>0, <1>1, <1>2, ParkAcyclic
<1>4. KInv(a)
  BY ONLY t \in Tasks, <1>b, <1>0, <1>1, <1>3, ParkInv
<1>5. Consistent(a, Q, L, O)
  BY ONLY t \in Tasks, Consistent(k, P, L, O), <1>b, <1>0, <1>1, <1>4, ParkConsistent
<1>6. Sound(a, o)
  BY <1>4, InvSound
<1>7. p \in Priorities
  <2>1. k.tcb[t] \in TcbType
    BY <1>1 DEF KInv, KernelType
  <2> QED  BY <1>a, <2>1 DEF TcbType
<1>8. Same(a, j)
  BY ONLY o \in Tasks, <1>b, <1>6, <1>7, InheritanceSame
<1>9. /\ Moves(a, j) /\ j.owner = a.owner /\ j.depth = a.depth
      /\ \A s \in Sems : Permits(j, s) = Permits(a, s)
  BY ONLY <1>8, SameMoves
<1>10. KInv(j)
  BY ONLY <1>4, <1>8, SameInv
<1>11. Consistent(j, Q, L, O)
  BY ONLY <1>5, <1>9, <1>10, MovesConsistent
<1>12. ASSUME Strict(k, L, H)  PROVE Strict(j, L, H)
  <2>1. /\ H \in [Tasks -> [Mutexes -> Nat]] /\ \A x \in Mutexes : HoldsOf(k, L, H, x)
        /\ Exact(k, Tasks) /\ k.fault = "none"
    BY <1>12 DEF Strict
  <2>2. k.tcb[t].waiting = NONE
    BY <1>1, <1>b DEF KInv, Waits
  <2>3. Exact(j, Tasks) /\ j.fault = k.fault
    BY ONLY t \in Tasks, o \in Tasks, <1>b, <1>1, <1>2, <1>6, <2>1, <2>2, LockParkExact
  <2>4. ASSUME NEW x \in Mutexes  PROVE HoldsOf(j, L, H, x)
    <3>1. HoldsOf(a, L, H, x)
      BY <1>b, <1>1, <2>1, ParkHolds
    <3>2. /\ j.owner[x] = a.owner[x] /\ j.depth[x] = a.depth[x]
          /\ a.owner[x] \in Tasks \cup {NIL}
      BY <1>4, <1>9 DEF KInv, KernelType
    <3> QED  BY ONLY x \in Mutexes, <1>4, <1>9, <3>1, <3>2, MovesHolds
  <2> QED  BY <2>1, <2>3, <2>4 DEF Strict
<1> QED  BY <1>11, <1>12

\* In b the base priority of t is another.
Rebased(k, b, t) ==
  /\ b \in KernelType
  /\ b.queue = k.queue /\ b.count = k.count /\ b.owner = k.owner
  /\ b.depth = k.depth /\ b.fault = k.fault
  /\ \A u \in Tasks : u # t => b.tcb[u] = k.tcb[u]
  /\ \A u \in Tasks : /\ b.tcb[u].state = k.tcb[u].state
                      /\ b.tcb[u].waiting = k.tcb[u].waiting
                      /\ b.tcb[u].granted = k.tcb[u].granted
                      /\ b.tcb[u].semGranted = k.tcb[u].semGranted
                      /\ b.tcb[u].priority = k.tcb[u].priority
                      /\ b.tcb[u].inherited = k.tcb[u].inherited

\* The assignment of set_task_priority does that.
LEMMA RebaseFacts ==
  ASSUME NEW k \in KernelType, NEW t \in Tasks, NEW p \in Priorities,
         NEW b, b = [k EXCEPT !.tcb[t].base = p]
  PROVE  Rebased(k, b, t)
<1> SUFFICES ASSUME NEW x, x = k.tcb[t], NEW y, y = [x EXCEPT !.base = p]
             PROVE  Rebased(k, b, t)
  OBVIOUS
<1>1. x \in TcbType
  BY DEF KernelType
<1>2. /\ y \in TcbType /\ y.state = x.state /\ y.waiting = x.waiting
      /\ y.granted = x.granted /\ y.semGranted = x.semGranted
      /\ y.priority = x.priority /\ y.inherited = x.inherited
  BY <1>1 DEF TcbType
<1>3. b = [k EXCEPT !.tcb[t] = y]
  BY DEF KernelType
<1>4. Retasked(k, b, t, y)
  BY ONLY k \in KernelType, t \in Tasks, <1>2, <1>3, Retask
<1>5. /\ b \in KernelType
      /\ b.queue = k.queue /\ b.count = k.count /\ b.owner = k.owner
      /\ b.depth = k.depth /\ b.fault = k.fault
      /\ b.tcb[t] = y /\ \A u \in Tasks : u # t => b.tcb[u] = k.tcb[u]
  BY ONLY <1>4 DEF Retasked
<1>6. x = k.tcb[t]
  OBVIOUS
<1>7. ASSUME NEW u \in Tasks
      PROVE  /\ b.tcb[u].state = k.tcb[u].state
             /\ b.tcb[u].waiting = k.tcb[u].waiting
             /\ b.tcb[u].granted = k.tcb[u].granted
             /\ b.tcb[u].semGranted = k.tcb[u].semGranted
             /\ b.tcb[u].priority = k.tcb[u].priority
             /\ b.tcb[u].inherited = k.tcb[u].inherited
  <2>1. CASE u = t
    BY ONLY <1>2, <1>5, <1>6, <2>1
  <2>2. CASE u # t
    BY ONLY u \in Tasks, <1>5, <2>2
  <2> QED  BY <2>1, <2>2
<1> QED  BY ONLY <1>5, <1>7 DEF Rebased

\* set_task_priority keeps the invariant.
LEMMA SetPriorityKeeps ==
  ASSUME NEW k, NEW P, NEW L, NEW O, Consistent(k, P, L, O), NEW H, NEW t \in Tasks,
         NEW b, Rebased(k, b, t), NEW j, j = RefreshInheritedPriority(b, t)
  PROVE  Consistent(j, P, L, O) /\ (Strict(k, L, H) => Strict(j, L, H))
<1>1. k \in KernelType /\ QueuesOK(k) /\ Acyclic(k) /\ Waits(k) /\ Grants(k) /\ Frees(k)
  BY DEF Consistent, KInv
<1>2. /\ b \in KernelType
      /\ b.queue = k.queue /\ b.count = k.count /\ b.owner = k.owner
      /\ b.depth = k.depth /\ b.fault = k.fault
      /\ \A u \in Tasks : u # t => b.tcb[u] = k.tcb[u]
      /\ \A u \in Tasks : /\ b.tcb[u].state = k.tcb[u].state
                          /\ b.tcb[u].waiting = k.tcb[u].waiting
                          /\ b.tcb[u].granted = k.tcb[u].granted
                          /\ b.tcb[u].semGranted = k.tcb[u].semGranted
                          /\ b.tcb[u].priority = k.tcb[u].priority
                          /\ b.tcb[u].inherited = k.tcb[u].inherited
  BY DEF Rebased
<1>3. QueuesOK(b)
  BY <1>1, <1>2, QueuesKept
<1>4. \A u \in Tasks : Succ(b, u) = Succ(k, u)
  BY <1>2 DEF Succ
<1>5. KInv(b)
  <2>1. Acyclic(b)
    BY <1>1, <1>4, AcyclicLess
  <2>2. Waits(b)
    BY <1>1, <1>2 DEF Waits
  <2>3. Grants(b)
    BY <1>1, <1>2 DEF Grants
  <2>4. Frees(b)
    BY <1>1, <1>2 DEF Frees
  <2> QED  BY <1>2, <1>3, <2>1, <2>2, <2>3, <2>4 DEF KInv
<1>6. Moves(k, b) /\ \A s \in Sems : Permits(b, s) = Permits(k, s)
  <2>1. \A s \in Sems : GrantsOf(b, s) = GrantsOf(k, s)
    BY <1>2 DEF GrantsOf
  <2>2. Moves(k, b)
    BY <1>2 DEF Moves
  <2> QED  BY <1>2, <2>1, <2>2 DEF Permits
<1>7. Consistent(b, P, L, O)
  BY ONLY Consistent(k, P, L, O), <1>5, <1>6, MovesConsistent
<1>8. Sound(b, t)
  BY <1>5, InvSound
<1>9. Same(b, j)
  BY <1>8, RefreshSame DEF Sound
<1>10. /\ Moves(b, j) /\ j.owner = b.owner /\ j.depth = b.depth
       /\ \A s \in Sems : Permits(j, s) = Permits(b, s)
  BY ONLY <1>9, SameMoves
<1>11. KInv(j)
  BY ONLY <1>5, <1>9, SameInv
<1>12. Consistent(j, P, L, O)
  BY ONLY <1>7, <1>10, <1>11, MovesConsistent
<1>13. ASSUME Strict(k, L, H)  PROVE Strict(j, L, H)
  <2>1. /\ H \in [Tasks -> [Mutexes -> Nat]] /\ \A x \in Mutexes : HoldsOf(k, L, H, x)
        /\ Counted(k, Tasks) /\ SettledBut(k, NIL) /\ k.fault = "none"
    BY <1>13 DEF Strict, Exact
  <2>2. Counted(b, Tasks)
    <3>1. \A v \in Tasks, q \in Priorities : DonorsAt(b, Tasks, v, q) = DonorsAt(k, Tasks, v, q)
      BY <1>2, <1>4 DEF DonorsAt
    <3> QED  BY <1>2, <2>1, <3>1 DEF Counted
  <2>3. SettledBut(b, t)
    <3>1. \A u \in Tasks : u # NIL
      BY TaskFacts
    <3> QED  BY <1>2, <2>1, <3>1 DEF SettledBut
  <2>4. DonorsBut(b, Tasks, t) /\ Tasks \in SUBSET Tasks
    BY DEF DonorsBut
  <2>5. Counted(j, Tasks) /\ SettledBut(j, NIL) /\ j.fault = b.fault
    <3>1. b \in KernelType /\ QueuesOK(b) /\ Acyclic(b) /\ LinkedBut(b, t)
      BY ONLY <1>8 DEF Sound
    <3> QED  BY ONLY t \in Tasks, j = RefreshInheritedPriority(b, t), <2>2, <2>3, <2>4, <3>1,
                RefreshExact
  <2>6. ASSUME NEW x \in Mutexes  PROVE HoldsOf(j, L, H, x)
    <3>1. /\ k.owner[x] \in Tasks \cup {NIL} /\ b.owner[x] \in Tasks \cup {NIL}
          /\ b.owner[x] = k.owner[x] /\ b.depth[x] = k.depth[x] /\ KInv(k)
      BY <1>1, <1>2 DEF KernelType, Consistent
    <3>2. HoldsOf(k, L, H, x)
      BY <2>1
    <3>3. HoldsOf(b, L, H, x)
      BY ONLY x \in Mutexes, <1>6, <3>1, <3>2, MovesHolds
    <3>4. j.owner[x] = b.owner[x] /\ j.depth[x] = b.depth[x]
      BY <1>10
    <3> QED  BY ONLY x \in Mutexes, <1>5, <1>10, <3>1, <3>3, <3>4, MovesHolds
  <2> QED  BY <1>2, <2>1, <2>5, <2>6 DEF Strict, Exact
<1> QED  BY <1>12, <1>13

\* In b the slot of t, which neither waits nor has a grant, was written anew.
Rewritten(k, b, t, p) ==
  /\ k.tcb[t].waiting = NONE /\ k.tcb[t].granted = NONE
  /\ b \in KernelType
  /\ b.queue = k.queue /\ b.count = k.count /\ b.owner = k.owner
  /\ b.depth = k.depth /\ b.fault = k.fault
  /\ \A u \in Tasks : u # t => b.tcb[u] = k.tcb[u]
  /\ b.tcb[t].waiting = NONE /\ b.tcb[t].granted = NONE /\ ~b.tcb[t].semGranted
  /\ b.tcb[t].state # "Blocked"
  /\ b.tcb[t].base = p /\ b.tcb[t].priority = p
  /\ \A q \in Priorities : b.tcb[t].inherited[q] \in {0, k.tcb[t].inherited[q]}

\* A slot that is written anew disturbs no queue and no wait.
LEMMA RewriteKeeps ==
  ASSUME NEW k, NEW P, NEW L, NEW O, Consistent(k, P, L, O), NEW t \in Tasks,
         NEW p, NEW b, Rewritten(k, b, t, p)
  PROVE  Consistent(b, P, L, O)
<1>1. /\ KInv(k) /\ k \in KernelType /\ QueuesOK(k) /\ Acyclic(k) /\ Waits(k) /\ Grants(k)
      /\ Frees(k) /\ Attached(k, P, L) /\ Owes(k, O)
  BY DEF Consistent, KInv
<1>2. /\ k.tcb[t].waiting = NONE /\ k.tcb[t].granted = NONE
      /\ b \in KernelType
      /\ b.queue = k.queue /\ b.count = k.count /\ b.owner = k.owner /\ b.depth = k.depth
      /\ \A u \in Tasks : u # t => b.tcb[u] = k.tcb[u]
      /\ b.tcb[t].waiting = NONE /\ b.tcb[t].granted = NONE /\ ~b.tcb[t].semGranted
      /\ b.tcb[t].state # "Blocked"
  BY DEF Rewritten
<1>3. \A r \in Resources : ~In(k.queue[r], t)
  BY <1>1, <1>2, ResourcesAssumption DEF QueuesOK, Resources
<1>4. QueuesOK(b)
  BY ONLY t \in Tasks, <1>1, <1>2, <1>3, UnqueuedKept
<1>5. \A u \in Tasks : /\ b.tcb[u].waiting = k.tcb[u].waiting
                       /\ b.tcb[u].granted = k.tcb[u].granted
  BY <1>2
<1>6. \A u \in Tasks : Succ(b, u) = Succ(k, u)
  BY <1>2, <1>5 DEF Succ
<1>7. Acyclic(b)
  BY <1>1, <1>6, AcyclicLess
<1>8. Waits(b)
  <2> SUFFICES ASSUME NEW u \in Tasks
               PROVE  /\ b.tcb[u].waiting # NONE <=> b.tcb[u].state = "Blocked"
                      /\ b.tcb[u].waiting # NONE => In(b.queue[b.tcb[u].waiting], u)
    BY DEF Waits
  <2>1. CASE u = t
    BY <1>2, <2>1
  <2>2. CASE u # t
    BY <1>1, <1>2, <2>2 DEF Waits
  <2> QED  BY <2>1, <2>2
<1>9. Grants(b)
  <2> SUFFICES ASSUME NEW u \in Tasks
               PROVE  /\ b.tcb[u].semGranted <=> b.tcb[u].granted # NONE
                      /\ b.tcb[u].granted # NONE => b.tcb[u].state = "Ready"
                      /\ b.tcb[u].granted \in Mutexes =>
                           b.owner[b.tcb[u].granted] = u /\ b.depth[b.tcb[u].granted] = 1
    BY DEF Grants
  <2>1. CASE u = t
    BY <1>2, <2>1, ResourcesAssumption
  <2>2. CASE u # t
    BY <1>1, <1>2, <2>2 DEF Grants
  <2> QED  BY <2>1, <2>2
<1>10. Frees(b)
  BY <1>1, <1>2 DEF Frees
<1>11. KInv(b)
  BY <1>2, <1>4, <1>7, <1>8, <1>9, <1>10 DEF KInv
<1>12. Attached(b, P, L)
  <2> SUFFICES ASSUME NEW u \in Tasks
               PROVE  /\ b.tcb[u].granted # NONE \/ b.tcb[u].state = "Blocked" => P[u]
                      /\ b.tcb[u].waiting \in L \cup {NONE}
                      /\ b.tcb[u].granted \in L \cup {NONE}
    BY DEF Attached
  <2>1. CASE u = t
    BY <1>2, <2>1
  <2>2. CASE u # t
    BY <1>1, <1>2, <2>2 DEF Attached
  <2> QED  BY <2>1, <2>2
<1>13. Owes(b, O)
  <2>1. \A s \in Sems : Permits(b, s) = Permits(k, s)
    BY <1>2, <1>5 DEF Permits, GrantsOf
  <2> QED  BY <1>1, <2>1 DEF Owes
<1> QED  BY <1>11, <1>12, <1>13 DEF Consistent

\* If t owns no mutex, nobody donates to it and no lock is forgotten.
LEMMA RewriteStrict ==
  ASSUME NEW k, KInv(k), NEW L, NEW H, Strict(k, L, H), NEW t \in Tasks,
         \A m \in Mutexes : k.owner[m] # t,
         NEW p \in Priorities, NEW b, Rewritten(k, b, t, p)
  PROVE  Strict(b, L, H) /\ \A m \in Mutexes : H[t][m] = 0
<1>1. /\ H \in [Tasks -> [Mutexes -> Nat]] /\ \A x \in Mutexes : HoldsOf(k, L, H, x)
      /\ Exact(k, Tasks) /\ Counted(k, Tasks) /\ SettledBut(k, NIL) /\ k.fault = "none"
  BY DEF Strict, Exact
<1>2. /\ k.tcb[t].waiting = NONE /\ k.tcb[t].granted = NONE
      /\ b \in KernelType
      /\ b.owner = k.owner /\ b.depth = k.depth /\ b.fault = k.fault
      /\ \A u \in Tasks : u # t => b.tcb[u] = k.tcb[u]
      /\ b.tcb[t].waiting = NONE /\ b.tcb[t].granted = NONE
      /\ b.tcb[t].base = p /\ b.tcb[t].priority = p
      /\ \A q \in Priorities : b.tcb[t].inherited[q] \in {0, k.tcb[t].inherited[q]}
  BY DEF Rewritten
<1>3. \A u \in Tasks : Succ(k, u) # t
  BY TaskFacts DEF Succ
<1>4. \A u \in Tasks : /\ b.tcb[u].waiting = k.tcb[u].waiting
                       /\ b.tcb[u].granted = k.tcb[u].granted
  BY <1>2
<1>5. \A u \in Tasks : Succ(b, u) = Succ(k, u)
  BY <1>2, <1>4 DEF Succ
<1>6. Succ(k, t) = NIL
  BY <1>2, ResourcesAssumption DEF Succ
<1>7. \A q \in Priorities : k.tcb[t].inherited[q] = 0 /\ b.tcb[t].inherited[q] = 0
  <2>1. \A q \in Priorities : DonorsAt(k, Tasks, t, q) = {}
    BY <1>3 DEF DonorsAt
  <2>2. \A q \in Priorities : k.tcb[t].inherited[q] = 0
    BY <1>1, <2>1, FS_EmptySet DEF Counted
  <2> QED  BY <1>2, <2>2
<1>8. Counted(b, Tasks)
  <2> SUFFICES ASSUME NEW v \in Tasks, NEW q \in Priorities
               PROVE  b.tcb[v].inherited[q] = Cardinality(DonorsAt(b, Tasks, v, q))
    BY DEF Counted
  <2>1. DonorsAt(b, Tasks, v, q) = DonorsAt(k, Tasks, v, q)
    <3> SUFFICES ASSUME NEW u \in Tasks
                 PROVE  (Succ(b, u) = v /\ b.tcb[u].priority = q) <=>
                        (Succ(k, u) = v /\ k.tcb[u].priority = q)
      BY DEF DonorsAt
    <3>1. CASE u = t
      BY <1>5, <1>6, <3>1, TaskFacts
    <3>2. CASE u # t
      BY <1>2, <1>5, <3>2
    <3> QED  BY <3>1, <3>2
  <2>2. b.tcb[v].inherited[q] = k.tcb[v].inherited[q]
    <3>1. CASE v = t
      BY <1>7, <3>1
    <3>2. CASE v # t
      BY <1>2, <3>2
    <3> QED  BY <3>1, <3>2
  <2> QED  BY <1>1, <2>1, <2>2 DEF Counted
<1>9. SettledBut(b, NIL)
  <2> SUFFICES ASSUME NEW u \in Tasks  PROVE b.tcb[u].priority = EffectivePriority(b.tcb[u])
    BY DEF SettledBut
  <2>1. CASE u = t
    <3> SUFFICES ASSUME NEW x, x = b.tcb[t]  PROVE x.priority = EffectivePriority(x)
      BY <2>1
    <3>1. x \in TcbType
      BY <1>2 DEF KernelType
    <3>2. {x.base} \cup {q \in Priorities : x.inherited[q] # 0} = {p}
      BY <1>2, <1>7
    <3>3. EffectivePriority(x) \in {p}
      BY <3>1, <3>2, EffectivePriorityFacts
    <3> QED  BY <1>2, <3>3
  <2>2. CASE u # t
    <3>1. u # NIL
      BY TaskFacts
    <3> QED  BY <1>1, <1>2, <2>2, <3>1 DEF SettledBut
  <2> QED  BY <2>1, <2>2
<1>10. \A m \in Mutexes : H[t][m] = 0
  <2> SUFFICES ASSUME NEW m \in Mutexes, H[t][m] > 0  PROVE FALSE
    BY <1>1
  <2> QED  BY <1>1 DEF HoldsOf
<1>11. ASSUME NEW x \in Mutexes  PROVE HoldsOf(b, L, H, x)
  <2>1. HoldsOf(k, L, H, x) /\ k.owner[x] \in Tasks \cup {NIL}
    BY <1>1 DEF KInv, KernelType
  <2>2. \A u \in Tasks : H[u][x] > 0 => u # t
    BY <1>10
  <2>3. k.owner[x] # t
    OBVIOUS
  <2> QED  BY ONLY <1>2, <1>4, <2>1, <2>2, <2>3 DEF HoldsOf
<1> QED  BY <1>1, <1>2, <1>8, <1>9, <1>10, <1>11 DEF Strict, Exact

\* In b the count of s is n.
Counts(k, b, s, n) ==
  /\ b \in KernelType /\ b.tcb = k.tcb /\ b.queue = k.queue /\ b.owner = k.owner
  /\ b.depth = k.depth /\ b.fault = k.fault /\ b.count[s] = n
  /\ \A x \in Sems : x # s => b.count[x] = k.count[x]

\* The assignment of a count does that; so does the creation of a semaphore for
\* which nobody waits.
LEMMA CountFacts ==
  ASSUME NEW k \in KernelType, NEW s \in Sems, NEW n \in Nat, NEW b,
         \/ b = [k EXCEPT !.count[s] = n]
         \/ b = [k EXCEPT !.queue[s] = <<>>, !.count[s] = n] /\ k.queue[s] = <<>>
  PROVE  Counts(k, b, s, n)
<1>1. k.count \in [Sems -> Nat] /\ k.queue \in [Resources -> Seq(Tasks)] /\ s \in Resources
  BY DEF KernelType, Resources
<1>2. b = [k EXCEPT !.count = [k.count EXCEPT ![s] = n]]
  <2>1. CASE b = [k EXCEPT !.count[s] = n]
    BY <2>1 DEF KernelType
  <2>2. CASE b = [k EXCEPT !.queue[s] = <<>>, !.count[s] = n] /\ k.queue[s] = <<>>
    <3>1. [k.queue EXCEPT ![s] = <<>>] = k.queue
      BY <1>1, <2>2
    <3> QED  BY <2>2, <3>1 DEF KernelType
  <2> QED  BY <2>1, <2>2
<1> SUFFICES ASSUME NEW c, c = [k.count EXCEPT ![s] = n]  PROVE Counts(k, b, s, n)
  OBVIOUS
<1>3. c \in [Sems -> Nat] /\ c[s] = n /\ \A x \in Sems : x # s => c[x] = k.count[x]
  BY <1>1
<1>4. b = [k EXCEPT !.count = c]
  BY <1>2
<1>5. /\ b \in KernelType /\ b.tcb = k.tcb /\ b.queue = k.queue /\ b.owner = k.owner
      /\ b.depth = k.depth /\ b.fault = k.fault /\ b.count = c
  BY ONLY k \in KernelType, <1>3, <1>4 DEF KernelType
<1> QED  BY ONLY <1>3, <1>5 DEF Counts

\* A count that changes while nobody waits keeps the kernel's invariant.
LEMMA CountInv ==
  ASSUME NEW k, KInv(k), NEW s \in Sems, NEW n \in Nat, NEW b, Counts(k, b, s, n),
         k.queue[s] = <<>>
  PROVE  /\ KInv(b) /\ Moves(k, b) /\ \A x : GrantsOf(b, x) = GrantsOf(k, x)
         /\ Exact(k, Tasks) => Exact(b, Tasks)
<1>1. k \in KernelType /\ QueuesOK(k) /\ Acyclic(k) /\ Waits(k) /\ Grants(k) /\ Frees(k)
  BY DEF KInv
<1>2. /\ b \in KernelType /\ b.tcb = k.tcb /\ b.queue = k.queue /\ b.owner = k.owner
      /\ b.depth = k.depth /\ \A x \in Sems : x # s => b.count[x] = k.count[x]
  BY DEF Counts
<1>3. QueuesOK(b) /\ Waits(b) /\ Grants(b)
  BY <1>1, <1>2 DEF QueuesOK, Waits, Grants
<1>4. Frees(b)
  BY <1>1, <1>2 DEF Frees
<1>5. \A u : Succ(b, u) = Succ(k, u)
  BY <1>2 DEF Succ
<1>6. Acyclic(b)
  BY <1>1, <1>5 DEF Acyclic
<1>7. \A x : GrantsOf(b, x) = GrantsOf(k, x)
  BY <1>2 DEF GrantsOf
<1>8. Moves(k, b)
  BY <1>2 DEF Moves
<1>9. ASSUME Exact(k, Tasks)  PROVE Exact(b, Tasks)
  <2>1. SameDonations(k, Tasks, b, Tasks)
    BY <1>2, <1>5 DEF SameDonations
  <2>2. Tasks \in SUBSET Tasks
    OBVIOUS
  <2> QED  BY <1>9, <2>1, <2>2, ExactKept
<1> QED  BY <1>2, <1>3, <1>4, <1>6, <1>7, <1>8, <1>9 DEF KInv

\* The live resources M are those of L, or more.
Grown(L, M) == M \in SUBSET Resources /\ L \subseteq M

\* The account V is O with n permits of s.
Charged(O, V, s, n) == V = [O EXCEPT ![s] = n]

\* A count that changes while nobody waits, with the account of its permits.
LEMMA CountKeeps ==
  ASSUME NEW k, NEW P, NEW L, NEW O, Consistent(k, P, L, O), NEW H, NEW s \in Sems, NEW n \in Nat,
         NEW b, Counts(k, b, s, n), k.queue[s] = <<>>,
         NEW M, Grown(L, M), NEW c, c = n + Cardinality(GrantsOf(k, s)), NEW V, Charged(O, V, s, c)
  PROVE  Consistent(b, P, M, V) /\ (Strict(k, L, H) => Strict(b, M, H))
<1>1. KInv(k) /\ Attached(k, P, L) /\ Owes(k, O) /\ O \in [Sems -> Nat] /\ P \in [Tasks -> BOOLEAN]
  BY DEF Consistent
<1>2. /\ KInv(b) /\ Moves(k, b) /\ \A x : GrantsOf(b, x) = GrantsOf(k, x)
      /\ Exact(k, Tasks) => Exact(b, Tasks)
  BY <1>1, CountInv
<1>3. /\ b.tcb = k.tcb /\ b.owner = k.owner /\ b.depth = k.depth /\ b.fault = k.fault
      /\ b.count[s] = n /\ \A x \in Sems : x # s => b.count[x] = k.count[x]
  BY DEF Counts
<1>4. Attached(b, P, M)
  BY <1>1, <1>3 DEF Attached, Grown
<1>5. Cardinality(GrantsOf(k, s)) \in Nat
  BY GrantsFinite
<1>6. /\ V \in [Sems -> Nat] /\ V[s] = n + Cardinality(GrantsOf(k, s))
      /\ \A x \in Sems : x # s => V[x] = O[x]
  <2>1. c \in Nat /\ V = [O EXCEPT ![s] = c]
    BY <1>5 DEF Charged
  <2> QED  BY <1>1, <2>1
<1>7. Owes(b, V)
  <2> SUFFICES ASSUME NEW x \in Sems  PROVE V[x] = Permits(b, x)
    BY DEF Owes
  <2>1. GrantsOf(b, x) = GrantsOf(k, x) /\ O[x] = Permits(k, x)
    BY <1>1, <1>2 DEF Owes
  <2>2. CASE x = s
    BY ONLY <1>3, <1>6, <2>1, <2>2 DEF Permits
  <2>3. CASE x # s
    BY ONLY x \in Sems, <1>3, <1>6, <2>1, <2>3 DEF Permits
  <2> QED  BY <2>2, <2>3
<1>8. Consistent(b, P, M, V)
  BY ONLY Grown(L, M), <1>1, <1>2, <1>4, <1>6, <1>7 DEF Consistent, Grown
<1>9. ASSUME Strict(k, L, H)  PROVE Strict(b, M, H)
  <2>1. /\ H \in [Tasks -> [Mutexes -> Nat]] /\ \A x \in Mutexes : HoldsOf(k, L, H, x)
        /\ Exact(k, Tasks) /\ k.fault = "none"
    BY <1>9 DEF Strict
  <2>2. \A x \in Mutexes : HoldsOf(b, M, H, x)
    BY <1>3, <2>1 DEF HoldsOf, Grown
  <2> QED  BY <1>2, <1>3, <2>1, <2>2 DEF Strict
<1> QED  BY <1>8, <1>9

\* A resource that is not live has no waiters and is granted to nobody.
LEMMA NotLive ==
  ASSUME NEW k, NEW P, NEW L, NEW O, Consistent(k, P, L, O), NEW r \in Resources, r \notin L
  PROVE  k.queue[r] = <<>> /\ \A u \in Tasks : k.tcb[u].waiting # r /\ k.tcb[u].granted # r
<1>1. r # NONE /\ k \in KernelType /\ QueuesOK(k)
  BY ResourcesAssumption DEF Resources, Consistent, KInv
<1>2. \A u \in Tasks : k.tcb[u].waiting # r /\ k.tcb[u].granted # r
  BY <1>1 DEF Consistent, Attached
<1>3. \A u : ~In(k.queue[r], u)
  <2>1. \A u : In(k.queue[r], u) => u \in Tasks /\ k.tcb[u].waiting = r
    BY <1>1, QueueMembers DEF QueuesOK
  <2> QED  BY <1>2, <2>1
<1> QED  BY <1>1, <1>2, <1>3, EmptyQueue

\* A resource that nobody waits for or was granted, and nobody owns, may go.
LEMMA DestroyKeeps ==
  ASSUME NEW k, NEW P, NEW L, NEW O, Consistent(k, P, L, O), NEW H, NEW r \in Resources,
         k.queue[r] = <<>>, \A u \in Tasks : k.tcb[u].granted # r,
         r \in Mutexes => k.owner[r] = NIL, NEW M, M = L \ {r}
  PROVE  Consistent(k, P, M, O) /\ (Strict(k, L, H) => Strict(k, M, H))
<1>1. /\ KInv(k) /\ Attached(k, P, L) /\ Owes(k, O) /\ O \in [Sems -> Nat]
      /\ P \in [Tasks -> BOOLEAN] /\ L \in SUBSET Resources
  BY DEF Consistent
<1>2. r # NONE /\ k \in KernelType /\ Waits(k)
  BY <1>1, ResourcesAssumption DEF Resources, KInv
<1>3. \A u \in Tasks : k.tcb[u].waiting # r
  BY <1>2, EmptyQueue DEF Waits
<1>4. Attached(k, P, M)
  BY <1>1, <1>3 DEF Attached
<1>5. Consistent(k, P, M, O)
  BY <1>1, <1>4 DEF Consistent
<1>6. ASSUME Strict(k, L, H)  PROVE Strict(k, M, H)
  <2>1. /\ H \in [Tasks -> [Mutexes -> Nat]] /\ \A x \in Mutexes : HoldsOf(k, L, H, x)
        /\ Exact(k, Tasks) /\ k.fault = "none"
    BY <1>6 DEF Strict
  <2>2. ASSUME NEW x \in Mutexes  PROVE HoldsOf(k, M, H, x)
    <3>1. HoldsOf(k, L, H, x)
      BY <2>1
    <3>2. CASE x = r
      BY <3>1, <3>2, TaskFacts DEF HoldsOf
    <3>3. CASE x # r
      BY <3>1, <3>3 DEF HoldsOf
    <3> QED  BY <3>2, <3>3
  <2> QED  BY <2>1, <2>2 DEF Strict
<1> QED  BY <1>5, <1>6

\* What mutex_create writes.
Fresh(k, b, m) == b = [k EXCEPT !.queue[m] = <<>>, !.owner[m] = NIL, !.depth[m] = 0]

\* mutex_create keeps the invariant: the handle was not live.
LEMMA CreateMutexKeeps ==
  ASSUME NEW k, NEW P, NEW L, NEW O, Consistent(k, P, L, O), NEW H, NEW m \in Mutexes, m \notin L,
         NEW b, Fresh(k, b, m), NEW M, M = Plus(L, m)
  PROVE  Consistent(b, P, M, O) /\ (Strict(k, L, H) => Strict(b, M, H))
<1>0. m \in Resources
  BY DEF Resources
<1>1. KInv(k) /\ k \in KernelType /\ L \in SUBSET Resources
  BY DEF Consistent, KInv
<1>2. k.queue[m] = <<>> /\ Ungranted(k, m)
  BY <1>0, NotLive DEF Ungranted
<1>3. b = [k EXCEPT !.owner[m] = NIL, !.depth[m] = 0]
  <2>1. [k.queue EXCEPT ![m] = <<>>] = k.queue
    BY <1>0, <1>1, <1>2 DEF KernelType
  <2> QED  BY <1>1, <2>1 DEF KernelType, Fresh
<1>4. Owning(k, b, m, NIL, 0)
  <2>1. NIL \in Tasks \cup {NIL} /\ 0 \in Nat
    OBVIOUS
  <2> QED  BY ONLY m \in Mutexes, <1>1, <1>3, <2>1, OwnFacts
<1>5. /\ KInv(b) /\ Moves(k, b)
      /\ \A s \in Sems : Permits(b, s) = Permits(k, s)
      /\ Exact(k, Tasks) => Exact(b, Tasks)
  BY ONLY m \in Mutexes, <1>1, <1>2, <1>4, OwnInv
<1>6. Consistent(b, P, L, O)
  BY ONLY Consistent(k, P, L, O), <1>5, MovesConsistent
<1>7. Consistent(b, P, M, O)
  <2>1. M \in SUBSET Resources /\ L \subseteq M
    BY <1>0, <1>1 DEF Plus
  <2> QED  BY ONLY <1>6, <2>1 DEF Consistent, Attached
<1>8. ASSUME Strict(k, L, H)  PROVE Strict(b, M, H)
  <2>1. /\ H \in [Tasks -> [Mutexes -> Nat]] /\ \A x \in Mutexes : HoldsOf(k, L, H, x)
        /\ Exact(k, Tasks) /\ k.fault = "none"
    BY <1>8 DEF Strict
  <2>2. /\ b.tcb = k.tcb /\ b.fault = k.fault /\ b.owner[m] = NIL
        /\ \A x \in Mutexes : x # m => b.owner[x] = k.owner[x] /\ b.depth[x] = k.depth[x]
    BY ONLY <1>4 DEF Owning
  <2>3. ASSUME NEW x \in Mutexes  PROVE HoldsOf(b, M, H, x)
    <3>1. HoldsOf(k, L, H, x)
      BY <2>1
    <3>2. CASE x = m
      <4>1. \A u \in Tasks : ~(H[u][m] > 0)
        BY <3>1, <3>2 DEF HoldsOf
      <4> QED  BY <2>2, <3>2, <4>1 DEF HoldsOf
    <3>3. CASE x # m
      <4>1. L \subseteq M /\ b.owner[x] = k.owner[x] /\ b.depth[x] = k.depth[x]
        BY <2>2, <3>3 DEF Plus
      <4> QED  BY ONLY <2>2, <3>1, <4>1 DEF HoldsOf
    <3> QED  BY <3>2, <3>3
  <2> QED  BY <1>5, <2>1, <2>2, <2>3 DEF Strict
<1> QED  BY <1>7, <1>8

-----------------------------------------------------------------------------
(* The inductive invariant, and that every action keeps it. *)

\* What holds whether or not tasks exit holding a mutex.
WaitInv == Consistent(Kernel, parked, live, owed)

\* What holds besides when none does.
LockInv == Strict(Kernel, live, held)

\* Both are kept by a step.
Kept == WaitInv' /\ (LockInv /\ ~ExitHoldingMutex => LockInv')

\* The fields of the kernel are the variables.
LEMMA KernelFields ==
  /\ Kernel.tcb = tcb /\ Kernel.queue = queue /\ Kernel.count = count
  /\ Kernel.owner = owner /\ Kernel.depth = depth /\ Kernel.fault = fault
BY DEF Kernel

\* Installing a kernel makes it the kernel of the next state.
LEMMA Install ==
  ASSUME NEW j \in KernelType, Becomes(j)
  PROVE  Kernel' = j
BY DEF Becomes, Kernel, KernelType

\* So an operation that keeps the invariant as a function on kernels keeps it as
\* an action.
LEMMA Installed ==
  ASSUME NEW j, Becomes(j), Consistent(j, parked', live', owed'),
         LockInv /\ ~ExitHoldingMutex => Strict(j, live', held')
  PROVE  Kept
<1>1. j \in KernelType
  BY DEF Consistent, KInv
<1>2. Kernel' = j
  BY <1>1, Install
<1> QED  BY <1>2 DEF Kept, WaitInv, LockInv

\* semaphore_create.
LEMMA SemaphoreCreateKeeps ==
  ASSUME WaitInv, NEW s \in Sems, NEW n \in 0..MaxCount, SemaphoreCreate(s, n)
  PROVE  Kept
<1> SUFFICES ASSUME NEW k, k = Kernel, NEW j, j = [k EXCEPT !.queue[s] = <<>>, !.count[s] = n]
             PROVE  Kept
  OBVIOUS
<1>1. Consistent(k, parked, live, owed)
  BY DEF WaitInv
<1>2. s \notin live /\ live' = live \cup {s} /\ owed' = [owed EXCEPT ![s] = n]
      /\ parked' = parked /\ held' = held /\ Becomes(j)
  BY DEF SemaphoreCreate
<1>3. s \in Resources /\ n \in Nat /\ k \in KernelType /\ live \in SUBSET Resources
  BY <1>1, BoundsAssumption DEF Resources, Consistent, KInv
<1>4. k.queue[s] = <<>> /\ \A u \in Tasks : k.tcb[u].granted # s
  BY <1>1, <1>2, <1>3, NotLive
<1>5. Counts(k, j, s, n)
  BY <1>3, <1>4, CountFacts
<1>6. n + Cardinality(GrantsOf(k, s)) = n
  <2>1. GrantsOf(k, s) = {}
    BY <1>4 DEF GrantsOf
  <2> QED  BY <1>3, <2>1, FS_EmptySet
<1>7. Grown(live, live')
  BY <1>2, <1>3 DEF Grown
<1>8. Charged(owed, owed', s, n) /\ n = n + Cardinality(GrantsOf(k, s))
  BY <1>2, <1>6 DEF Charged
<1>9. Consistent(j, parked, live', owed') /\ (Strict(k, live, held) => Strict(j, live', held))
  BY ONLY s \in Sems, <1>1, <1>3, <1>4, <1>5, <1>7, <1>8, CountKeeps
<1>10. LockInv => Strict(j, live', held')
  BY <1>2, <1>9 DEF LockInv
<1> QED  BY <1>2, <1>9, <1>10, Installed

\* semaphore_destroy.
LEMMA SemaphoreDestroyKeeps ==
  ASSUME WaitInv, NEW s \in Sems, SemaphoreDestroy(s)
  PROVE  Kept
<1>1. /\ queue[s] = <<>> /\ \A t \in Tasks : tcb[t].granted # s
      /\ live' = live \ {s} /\ UNCHANGED <<kernelVars, parked, owed, held>>
  BY DEF SemaphoreDestroy, SemaphoreBusy
<1>2. Kernel' = Kernel /\ parked' = parked /\ owed' = owed /\ held' = held
  BY <1>1 DEF Kernel, kernelVars
<1>3. /\ Kernel.queue[s] = <<>> /\ \A t \in Tasks : Kernel.tcb[t].granted # s
      /\ s \in Resources /\ s \notin Mutexes
  BY <1>1, KernelFields, ResourcesAssumption DEF Resources
<1>4. Consistent(Kernel, parked, live, owed)
  BY DEF WaitInv
<1>5. /\ Consistent(Kernel, parked, live', owed)
      /\ Strict(Kernel, live, held) => Strict(Kernel, live', held)
  BY ONLY <1>1, <1>3, <1>4, DestroyKeeps
<1> QED  BY <1>2, <1>5 DEF Kept, WaitInv, LockInv

\* down with a permit at hand.
LEMMA SemaphoreDownNowKeeps ==
  ASSUME WaitInv, NEW s \in Sems, SemaphoreDownNow(s)
  PROVE  Kept
<1> SUFFICES ASSUME NEW k, k = Kernel, NEW j, j = [k EXCEPT !.count[s] = @ - 1]
             PROVE  Kept
  OBVIOUS
<1>1. Consistent(k, parked, live, owed)
  BY DEF WaitInv
<1>2. k.count[s] > 0 /\ live' = live /\ owed' = [owed EXCEPT ![s] = @ - 1]
      /\ parked' = parked /\ held' = held /\ Becomes(j)
  BY KernelFields DEF SemaphoreDownNow
<1>3. /\ k \in KernelType /\ live \in SUBSET Resources /\ k.queue[s] = <<>> /\ k.count[s] \in Nat
      /\ owed \in [Sems -> Nat] /\ owed[s] = k.count[s] + Cardinality(GrantsOf(k, s))
  BY <1>1, <1>2 DEF Consistent, KInv, Frees, KernelType, Owes, Permits
<1>4. SUFFICES ASSUME NEW n, n = k.count[s] - 1  PROVE Kept
  OBVIOUS
<1>5. n \in Nat /\ j = [k EXCEPT !.count[s] = n]
  BY <1>2, <1>3, <1>4
<1>6. Counts(k, j, s, n)
  BY ONLY s \in Sems, <1>3, <1>5, CountFacts
<1>7. Cardinality(GrantsOf(k, s)) \in Nat
  BY GrantsFinite
<1>8. owed[s] - 1 = n + Cardinality(GrantsOf(k, s))
  BY ONLY <1>3, <1>4, <1>7
<1>9. Charged(owed, owed', s, owed[s] - 1)
  BY <1>2 DEF Charged
<1>10. Consistent(j, parked, live, owed') /\ (Strict(k, live, held) => Strict(j, live, held))
  <2>1. Grown(live, live)
    BY <1>3 DEF Grown
  <2> SUFFICES ASSUME NEW c, c = owed[s] - 1
               PROVE  /\ Consistent(j, parked, live, owed')
                      /\ Strict(k, live, held) => Strict(j, live, held)
    OBVIOUS
  <2>2. Charged(owed, owed', s, c) /\ c = n + Cardinality(GrantsOf(k, s))
    BY <1>8, <1>9
  <2> QED  BY ONLY s \in Sems, <1>1, <1>3, <1>5, <1>6, <2>1, <2>2, CountKeeps
<1>11. LockInv => Strict(j, live', held')
  BY <1>2, <1>10 DEF LockInv
<1> QED  BY <1>2, <1>10, <1>11, Installed

\* down without one.
LEMMA SemaphoreDownParkKeeps ==
  ASSUME WaitInv, NEW s \in Sems, NEW t \in Tasks, NEW timed \in BOOLEAN,
         SemaphoreDownPark(t, s, timed)
  PROVE  Kept
<1> SUFFICES ASSUME NEW k, k = Kernel, NEW j, j = Park(t, s, timed)
             PROVE  Kept
  OBVIOUS
<1>1. Consistent(k, parked, live, owed) /\ KInv(k)
  BY DEF WaitInv, Consistent
<1>2. /\ ~parked[t] /\ k.tcb[t].state = "Ready" /\ s \in live /\ k.count[s] = 0
      /\ live' = live /\ owed' = owed /\ held' = held /\ Becomes(j)
      /\ parked' = [parked EXCEPT ![t] = TRUE]
  BY KernelFields DEF SemaphoreDownPark, Executing
<1>3. s \in Resources
  BY DEF Resources
<1>4. Parks(k, j, t, s)
  <2>1. j = EnqueueWaiter([k EXCEPT !.tcb[t].state = "Blocked", !.tcb[t].timed = timed,
                                    !.tcb[t].waiting = s, !.tcb[t].semGranted = FALSE], s, t)
    BY DEF Park
  <2> QED  BY ONLY t \in Tasks, timed \in BOOLEAN, <1>1, <1>2, <1>3, <2>1, ParkFacts
<1>5. Consistent(j, parked', live, owed) /\ (Strict(k, live, held) => Strict(j, live, held))
  BY ONLY t \in Tasks, s \in Sems, <1>1, <1>2, <1>4, DownParkKeeps
<1>6. LockInv => Strict(j, live', held')
  BY <1>2, <1>5 DEF LockInv
<1> QED  BY <1>2, <1>5, <1>6, Installed

\* up.
LEMMA SemaphoreUpKeeps ==
  ASSUME WaitInv, NEW s \in Sems, SemaphoreUp(s)
  PROVE  Kept
<1> SUFFICES ASSUME NEW k, k = Kernel, NEW j, j = ReleaseSemaphoreLocked(k, s)
             PROVE  Kept
  OBVIOUS
<1>1. Consistent(k, parked, live, owed)
  BY DEF WaitInv
<1>2. live' = live /\ owed' = [owed EXCEPT ![s] = @ + 1]
      /\ parked' = parked /\ held' = held /\ Becomes(j)
  BY DEF SemaphoreUp
<1>3. Consistent(j, parked, live, owed') /\ (Strict(k, live, held) => Strict(j, live, held))
  BY <1>1, <1>2, UpKeeps
<1>4. LockInv => Strict(j, live', held')
  BY <1>2, <1>3 DEF LockInv
<1> QED  BY <1>2, <1>3, <1>4, Installed

\* mutex_create.
LEMMA MutexCreateKeeps ==
  ASSUME WaitInv, NEW m \in Mutexes, MutexCreate(m)
  PROVE  Kept
<1> SUFFICES ASSUME NEW k, k = Kernel,
                    NEW j, j = [k EXCEPT !.queue[m] = <<>>, !.owner[m] = NIL, !.depth[m] = 0]
             PROVE  Kept
  OBVIOUS
<1>1. Consistent(k, parked, live, owed)
  BY DEF WaitInv
<1>2. m \notin live /\ live' = live \cup {m}
      /\ owed' = owed /\ parked' = parked /\ held' = held /\ Becomes(j)
  BY DEF MutexCreate
<1>3. Consistent(j, parked, live', owed) /\ (Strict(k, live, held) => Strict(j, live', held))
  <2>1. Fresh(k, j, m) /\ live' = Plus(live, m) /\ m \notin live
    BY <1>2 DEF Fresh, Plus
  <2> QED  BY ONLY m \in Mutexes, <1>1, <2>1, CreateMutexKeeps
<1>4. LockInv => Strict(j, live', held')
  BY <1>2, <1>3 DEF LockInv
<1> QED  BY <1>2, <1>3, <1>4, Installed

\* mutex_destroy.
LEMMA MutexDestroyKeeps ==
  ASSUME WaitInv, NEW m \in Mutexes, MutexDestroy(m)
  PROVE  Kept
<1>1. /\ queue[m] = <<>> /\ owner[m] = NIL
      /\ live' = live \ {m} /\ UNCHANGED <<kernelVars, parked, owed, held>>
  BY DEF MutexDestroy
<1>2. Kernel' = Kernel /\ parked' = parked /\ owed' = owed /\ held' = held
  BY <1>1 DEF Kernel, kernelVars
<1>3. Kernel.queue[m] = <<>> /\ Kernel.owner[m] = NIL /\ m \in Resources
  BY <1>1, KernelFields DEF Resources
<1>4. Consistent(Kernel, parked, live, owed) /\ Grants(Kernel)
  BY DEF WaitInv, Consistent, KInv
<1>5. \A t \in Tasks : Kernel.tcb[t].granted # m
  BY <1>3, <1>4, TaskFacts DEF Grants
<1>6. /\ Consistent(Kernel, parked, live', owed)
      /\ Strict(Kernel, live, held) => Strict(Kernel, live', held)
  BY ONLY <1>1, <1>3, <1>4, <1>5, DestroyKeeps
<1> QED  BY <1>2, <1>6 DEF Kept, WaitInv, LockInv

\* lock of a free mutex, or again by its owner.
LEMMA MutexLockNowKeeps ==
  ASSUME WaitInv, NEW m \in Mutexes, NEW t \in Tasks, MutexLockNow(t, m)
  PROVE  Kept
<1> SUFFICES ASSUME NEW k, k = Kernel,
                    NEW n, n = (IF k.owner[m] = t THEN k.depth[m] + 1 ELSE 1),
                    NEW j, j = [k EXCEPT !.owner[m] = t, !.depth[m] = n]
             PROVE  Kept
  OBVIOUS
<1>1. Consistent(k, parked, live, owed) /\ k \in KernelType
  BY DEF WaitInv, Consistent, KInv
<1>2. /\ ~parked[t] /\ k.tcb[t].state = "Ready" /\ m \in live /\ k.owner[m] \in {t, NIL}
      /\ live' = live /\ owed' = owed /\ parked' = parked
      /\ held' = [held EXCEPT ![t][m] = @ + 1] /\ Becomes(j)
  <2>1. [Kernel EXCEPT !.owner[m] = t, !.depth[m] = IF owner[m] = t THEN @ + 1 ELSE 1] = j
    <3>1. k.owner = owner /\ k.depth = depth
      BY KernelFields
    <3> QED  BY <1>1, <3>1 DEF KernelType
  <2> QED  BY <2>1, KernelFields DEF MutexLockNow, Executing
<1>3. n \in Nat
  <2>1. k.depth[m] \in Nat
    BY <1>1 DEF KernelType
  <2> QED  BY <2>1
<1>4. Owning(k, j, m, t, n)
  <2>1. t \in Tasks \cup {NIL}
    OBVIOUS
  <2> QED  BY ONLY m \in Mutexes, j = [k EXCEPT !.owner[m] = t, !.depth[m] = n],
              <1>1, <1>3, <2>1, OwnFacts
<1>5. Consistent(j, parked, live, owed) /\ (Strict(k, live, held) => Strict(j, live, held'))
  <2>1. n = LockDepth(k, t, m) /\ Locked(held, held', t, m)
    BY <1>2 DEF LockDepth, Locked
  <2>2. ~parked[t] /\ k.tcb[t].state = "Ready" /\ m \in live /\ k.owner[m] \in {t, NIL}
    BY <1>2
  <2> QED  BY ONLY m \in Mutexes, t \in Tasks, <1>1, <1>4, <2>1, <2>2, LockKeeps
<1>6. LockInv => Strict(j, live', held')
  BY <1>2, <1>5 DEF LockInv
<1> QED  BY <1>2, <1>5, <1>6, Installed

\* lock of a mutex that another task owns.
LEMMA MutexLockParkKeeps ==
  ASSUME WaitInv, NEW m \in Mutexes, NEW t \in Tasks, NEW timed \in BOOLEAN,
         MutexLockPark(t, m, timed)
  PROVE  Kept
<1> SUFFICES ASSUME NEW k, k = Kernel, NEW a, a = Park(t, m, timed), NEW o, o = k.owner[m],
                    NEW p, p = k.tcb[t].priority, NEW j, j = AddInheritance(a, o, p)
             PROVE  Kept
  OBVIOUS
<1>1. Consistent(k, parked, live, owed) /\ KInv(k) /\ k \in KernelType
  BY DEF WaitInv, Consistent, KInv
<1>2. /\ ~parked[t] /\ k.tcb[t].state = "Ready" /\ m \in live
      /\ o \notin {NIL, t} /\ ~MutexChainContains(o, t)
      /\ live' = live /\ owed' = owed /\ held' = held /\ Becomes(j)
      /\ parked' = [parked EXCEPT ![t] = TRUE]
  BY KernelFields DEF MutexLockPark, Executing
<1>3. m \in Resources /\ o \in Tasks
  BY <1>1, <1>2 DEF Resources, KernelType
<1>4. Parks(k, a, t, m)
  <2>1. a = EnqueueWaiter([k EXCEPT !.tcb[t].state = "Blocked", !.tcb[t].timed = timed,
                                    !.tcb[t].waiting = m, !.tcb[t].semGranted = FALSE], m, t)
    BY DEF Park
  <2> QED  BY ONLY t \in Tasks, timed \in BOOLEAN, <1>1, <1>2, <1>3, <2>1, ParkFacts
<1>5. Unreached(k, o, t)
  <2>1. PICK f : /\ f[0] = o
                 /\ \A i \in 1..TaskSlotCount :
                      f[i] = (IF f[i - 1] \in {NIL, t} THEN f[i - 1] ELSE Follow(f[i - 1]))
                 /\ MutexChainContains(o, t) = (f[TaskSlotCount] # NIL)
    BY OwnerChainDef
  <2>2. \A u : Follow(u) = Succ(k, u)
    BY KernelFields DEF Follow, Succ
  <2>3. f[TaskSlotCount] = NIL
    BY <1>2, <2>1
  <2> QED  BY <2>1, <2>2, <2>3 DEF Unreached
<1>6. Consistent(j, parked', live, owed) /\ (Strict(k, live, held) => Strict(j, live, held))
  <2>1. ParksOn(k, parked, parked', live, t, m)
    BY <1>2 DEF ParksOn
  <2>2. Inherits(k, a, j, t, m, o)
    BY <1>4, <1>5 DEF Inherits
  <2>3. Consistent(k, parked, live, owed) /\ o \in Tasks
    BY <1>1, <1>3
  <2> QED  BY ONLY t \in Tasks, m \in Mutexes, <2>1, <2>2, <2>3, LockParkKeeps
<1>7. LockInv => Strict(j, live', held')
  BY <1>2, <1>6 DEF LockInv
<1> QED  BY <1>2, <1>6, <1>7, Installed

\* unlock.
LEMMA MutexUnlockKeeps ==
  ASSUME WaitInv, NEW m \in Mutexes, NEW t \in Tasks, MutexUnlock(t, m)
  PROVE  Kept
<1> SUFFICES ASSUME NEW k, k = Kernel, NEW e, e = [k EXCEPT !.depth[m] = @ - 1],
                    NEW j, j = (IF e.depth[m] = 0 THEN ReleaseMutexLocked(e, m, t) ELSE e)
             PROVE  Kept
  OBVIOUS
<1>1. Consistent(k, parked, live, owed)
  BY DEF WaitInv
<1>2. /\ ~parked[t] /\ k.owner[m] = t /\ k.depth[m] > 0
      /\ live' = live /\ owed' = owed /\ parked' = parked
      /\ held' = [held EXCEPT ![t][m] = @ - 1] /\ Becomes(j)
  BY KernelFields DEF MutexUnlock, Executing
<1>3. Consistent(j, parked, live, owed) /\ (Strict(k, live, held) => Strict(j, live, held'))
  <2>1. Lowered(k, e, m) /\ j = Unlocks(e, m, t) /\ Unlocked(held, held', t, m)
    BY <1>2 DEF Lowered, Unlocks, Unlocked
  <2>2. Unlocking(k, parked, e, j, held, held', t, m)
    BY <1>2, <2>1 DEF Unlocking
  <2> QED  BY ONLY m \in Mutexes, t \in Tasks, <1>1, <2>2, UnlockKeeps
<1>4. LockInv => Strict(j, live', held')
  BY <1>2, <1>3 DEF LockInv
<1> QED  BY <1>2, <1>3, <1>4, Installed

\* A resumed task ends its parked call.
LEMMA WaitReturnsKeeps ==
  ASSUME WaitInv, NEW t \in Tasks, WaitReturns(t)
  PROVE  Kept
<1> SUFFICES ASSUME NEW k, k = Kernel, NEW j, j = Consumed(k, t), NEW r, r = k.tcb[t].granted
             PROVE  Kept
  OBVIOUS
<1>1. Consistent(k, parked, live, owed) /\ Grants(k)
  BY DEF WaitInv, Consistent, KInv
<1>2. k.tcb[t].semGranted <=> r # NONE
  BY <1>1 DEF Grants
<1>3. NONE \notin Sems /\ NONE \notin Mutexes
  BY ResourcesAssumption
<1>4. r = tcb[t].granted /\ (tcb[t].semGranted <=> r # NONE)
  BY <1>2, KernelFields
<1>5. /\ k.tcb[t].state = "Ready" /\ Becomes(j) /\ live' = live
      /\ parked' = [parked EXCEPT ![t] = FALSE]
      /\ owed' = (IF r # NONE /\ r \in Sems THEN [owed EXCEPT ![r] = @ - 1] ELSE owed)
      /\ held' = (IF r # NONE /\ r \in Mutexes THEN [held EXCEPT ![t][r] = @ + 1] ELSE held)
  BY <1>4, KernelFields DEF WaitReturns
<1>6. Returning(k, j, parked, parked', owed, owed', held, held', t)
  BY <1>3, <1>5 DEF Returning
<1>7. Consistent(j, parked', live, owed') /\ (Strict(k, live, held) => Strict(j, live, held'))
  BY ONLY t \in Tasks, <1>1, <1>6, ReturnKeeps
<1>8. LockInv => Strict(j, live', held')
  BY <1>5, <1>7 DEF LockInv
<1> QED  BY <1>5, <1>7, <1>8, Installed

\* cancel_wait.
LEMMA CancelWaitKeeps ==
  ASSUME WaitInv, NEW t \in Tasks, CancelWait(t)
  PROVE  Kept
<1> SUFFICES ASSUME NEW k, k = Kernel,
                    NEW j, j = (IF k.tcb[t].waiting # NONE THEN LeaveQueue(k, t)
                                ELSE RevokeGrant(k, t))
             PROVE  Kept
  OBVIOUS
<1>1. Consistent(k, parked, live, owed) /\ k \in KernelType
  BY DEF WaitInv, Consistent, KInv
<1>2. /\ k.tcb[t].waiting # NONE \/ k.tcb[t].granted # NONE
      /\ Becomes(j) /\ live' = live /\ parked' = parked /\ owed' = owed /\ held' = held
  BY KernelFields DEF CancelWait
<1>3. Consistent(j, parked, live, owed) /\ (Strict(k, live, held) => Strict(j, live, held))
  <2>1. CASE k.tcb[t].waiting # NONE
    <3>1. j = LeaveQueue(k, t)
      BY <2>1
    <3> QED  BY ONLY t \in Tasks, <1>1, <2>1, <3>1, LeaveKeeps
  <2>2. CASE k.tcb[t].waiting = NONE
    <3>1. j = RevokeGrant(k, t)
      BY <2>2
    <3>2. k.tcb[t].granted \in Sems \cup Mutexes
      <4>1. k.tcb[t] \in TcbType
        BY <1>1 DEF KernelType
      <4> QED  BY <1>2, <2>2, <4>1 DEF TcbType, Resources
    <3> SUFFICES ASSUME NEW r, k.tcb[t].granted = r
                 PROVE  /\ Consistent(j, parked, live, owed)
                        /\ Strict(k, live, held) => Strict(j, live, held)
      OBVIOUS
    <3>3. CASE r \in Sems
      BY ONLY t \in Tasks, k.tcb[t].granted = r, <1>1, <3>1, <3>3, RevokeSemaphoreKeeps
    <3>4. CASE r \in Mutexes
      BY ONLY t \in Tasks, k.tcb[t].granted = r, <1>1, <3>1, <3>4, RevokeMutexKeeps
    <3> QED  BY <3>2, <3>3, <3>4
  <2> QED  BY <2>1, <2>2
<1>4. LockInv => Strict(j, live', held')
  BY <1>2, <1>3 DEF LockInv
<1> QED  BY <1>2, <1>3, <1>4, Installed

\* The timer scan.
LEMMA TimerScanKeeps ==
  ASSUME WaitInv, NEW due \in SUBSET Tasks, TimerScan(due)
  PROVE  Kept
<1> SUFFICES ASSUME NEW k, k = Kernel, NEW ts, ts = InSlotOrder(due), NEW j, j = LeaveAll(k, ts)
             PROVE  Kept
  OBVIOUS
<1>1. Consistent(k, parked, live, owed) /\ Waits(k)
  BY DEF WaitInv, Consistent, KInv
<1>2. /\ \A t \in due : k.tcb[t].state = "Blocked"
      /\ Becomes(j) /\ live' = live /\ parked' = parked /\ owed' = owed /\ held' = held
  BY KernelFields DEF TimerScan
<1>3. ts \in Seq(Tasks) /\ Distinct(ts) /\ \A u : In(ts, u) <=> u \in due
  <2>1. Tasks \in SUBSET Int /\ IsFiniteSet(Tasks)
    BY TasksAssumption
  <2> QED  BY <2>1, SlotOrderFacts
<1>4. \A i \in DOMAIN ts : k.tcb[ts[i]].waiting # NONE
  <2> SUFFICES ASSUME NEW i \in DOMAIN ts  PROVE k.tcb[ts[i]].waiting # NONE
    OBVIOUS
  <2>1. ts[i] \in due
    BY <1>3 DEF In
  <2> QED  BY <1>1, <1>2, <2>1 DEF Waits
<1>5. Consistent(j, parked, live, owed) /\ (Strict(k, live, held) => Strict(j, live, held))
  BY ONLY <1>1, <1>3, <1>4, j = LeaveAll(k, ts), ScanKeeps
<1>6. LockInv => Strict(j, live', held')
  BY <1>2, <1>5 DEF LockInv
<1> QED  BY <1>2, <1>5, <1>6, Installed

\* set_task_priority.
LEMMA SetTaskPriorityKeeps ==
  ASSUME WaitInv, NEW t \in Tasks, NEW p \in Priorities, SetTaskPriority(t, p)
  PROVE  Kept
<1> SUFFICES ASSUME NEW k, k = Kernel, NEW b, b = [k EXCEPT !.tcb[t].base = p],
                    NEW j, j = RefreshInheritedPriority(b, t)
             PROVE  Kept
  OBVIOUS
<1>1. Consistent(k, parked, live, owed) /\ k \in KernelType
  BY DEF WaitInv, Consistent, KInv
<1>2. Becomes(j) /\ live' = live /\ parked' = parked /\ owed' = owed /\ held' = held
  BY DEF SetTaskPriority
<1>3. Rebased(k, b, t)
  BY <1>1, RebaseFacts
<1>4. Consistent(j, parked, live, owed) /\ (Strict(k, live, held) => Strict(j, live, held))
  BY ONLY t \in Tasks, <1>1, <1>3, j = RefreshInheritedPriority(b, t), SetPriorityKeeps
<1>5. LockInv => Strict(j, live', held')
  BY <1>2, <1>4 DEF LockInv
<1> QED  BY <1>2, <1>4, <1>5, Installed

\* A task that has no lock and no grant owns no mutex.
LEMMA OwnsNothing ==
  ASSUME NEW k, NEW L, NEW H, Strict(k, L, H), NEW t \in Tasks, k.tcb[t].granted = NONE,
         (\A m \in Mutexes : H[t][m] = 0) \/ k.tcb[t].state = "Free"
  PROVE  \A m \in Mutexes : k.owner[m] # t
<1> SUFFICES ASSUME NEW m \in Mutexes, k.owner[m] = t  PROVE FALSE
  OBVIOUS
<1>1. HoldsOf(k, L, H, m) /\ m # NONE /\ t # NIL
  BY TaskFacts, ResourcesAssumption DEF Strict
<1>2. H[t][m] > 0 /\ k.tcb[t].state # "Free"
  BY <1>1 DEF HoldsOf
<1> QED  BY <1>2

\* spawn.
LEMMA SpawnKeeps ==
  ASSUME WaitInv, NEW t \in Tasks, NEW p \in Priorities, Spawn(t, p)
  PROVE  Kept
<1> SUFFICES ASSUME NEW k, k = Kernel, NEW x, x = k.tcb[t],
                    NEW y, y = [x EXCEPT !.base = p, !.priority = p, !.timed = FALSE,
                                         !.state = "Ready"],
                    NEW b, b = [k EXCEPT !.tcb[t] = y]
             PROVE  Kept
  OBVIOUS
<1>1. /\ Consistent(k, parked, live, owed) /\ KInv(k) /\ k \in KernelType
      /\ Waits(k) /\ Grants(k)
  BY DEF WaitInv, Consistent, KInv
<1>2. x \in TcbType
  BY <1>1 DEF KernelType
<1>3. MakeReady([k EXCEPT !.tcb[t].base = p, !.tcb[t].priority = p, !.tcb[t].timed = FALSE], t)
      = b
  <2> SUFFICES ASSUME NEW f, f = k.tcb  PROVE
        MakeReady([k EXCEPT !.tcb[t].base = p, !.tcb[t].priority = p, !.tcb[t].timed = FALSE], t)
        = b
    OBVIOUS
  <2>1. f \in [Tasks -> TcbType]
    BY <1>1 DEF KernelType
  <2>2. [f EXCEPT ![t].base = p, ![t].priority = p, ![t].timed = FALSE, ![t].state = "Ready"]
        = [f EXCEPT ![t] = y]
    BY <1>2, <2>1 DEF TcbType
  <2>3. b = [k EXCEPT !.tcb = [f EXCEPT ![t] = y]]
    BY <1>1 DEF KernelType
  <2>4. MakeReady([k EXCEPT !.tcb[t].base = p, !.tcb[t].priority = p, !.tcb[t].timed = FALSE], t)
        = [k EXCEPT !.tcb = [f EXCEPT ![t].base = p, ![t].priority = p, ![t].timed = FALSE,
                                      ![t].state = "Ready"]]
    BY <1>1 DEF MakeReady, KernelType
  <2> QED  BY <2>2, <2>3, <2>4
<1>4. /\ x.state = "Free" /\ Becomes(b)
      /\ held' = [held EXCEPT ![t] = [m \in Mutexes |-> 0]]
      /\ live' = live /\ parked' = parked /\ owed' = owed
  BY <1>3, KernelFields DEF Spawn
<1>5. x.waiting = NONE /\ x.granted = NONE /\ ~x.semGranted
  BY <1>1, <1>4 DEF Waits, Grants
<1>6. /\ y \in TcbType /\ y.state = "Ready" /\ y.waiting = NONE /\ y.granted = NONE
      /\ ~y.semGranted /\ y.base = p /\ y.priority = p /\ y.inherited = x.inherited
  BY <1>2, <1>5 DEF TcbType
<1>7. Retasked(k, b, t, y)
  BY ONLY t \in Tasks, b = [k EXCEPT !.tcb[t] = y], <1>1, <1>6, Retask
<1>8. Rewritten(k, b, t, p)
  BY <1>5, <1>6, <1>7 DEF Retasked, Rewritten
<1>9. Consistent(b, parked, live, owed)
  BY ONLY t \in Tasks, <1>1, <1>8, RewriteKeeps
<1>10. ASSUME LockInv  PROVE Strict(b, live, held')
  <2>1. Strict(k, live, held)
    BY <1>10 DEF LockInv
  <2>2. \A m \in Mutexes : k.owner[m] # t
    BY <1>4, <1>5, <2>1, OwnsNothing
  <2>3. Strict(b, live, held) /\ \A m \in Mutexes : held[t][m] = 0
    BY ONLY t \in Tasks, p \in Priorities, <1>1, <1>8, <2>1, <2>2, RewriteStrict
  <2>4. held \in [Tasks -> [Mutexes -> Nat]]
    BY <2>1 DEF Strict
  <2>5. held' = held
    <3>1. held[t] = [m \in Mutexes |-> 0]
      BY <2>3, <2>4
    <3> QED  BY <1>4, <2>4, <3>1
  <2> QED  BY <2>3, <2>5
<1>11. LockInv => Strict(b, live', held')
  BY <1>4, <1>10
<1> QED  BY <1>4, <1>9, <1>11, Installed

\* task_exit.
LEMMA ExitKeeps ==
  ASSUME WaitInv, NEW t \in Tasks, Exit(t)
  PROVE  Kept
<1> SUFFICES ASSUME NEW k, k = Kernel, NEW x, x = k.tcb[t], NEW y, y = EmptyTcb,
                    NEW b, b = [k EXCEPT !.tcb[t] = y], NEW p, p = PriorityLevels - 1
             PROVE  Kept
  OBVIOUS
<1>1. /\ Consistent(k, parked, live, owed) /\ KInv(k) /\ k \in KernelType /\ Waits(k)
      /\ Attached(k, parked, live)
  BY DEF WaitInv, Consistent, KInv
<1>2. /\ x.state = "Ready" /\ ~parked[t] /\ Becomes(b)
      /\ ExitHoldingMutex \/ \A m \in Mutexes : held[t][m] = 0
      /\ live' = live /\ parked' = parked /\ owed' = owed /\ held' = held
  BY KernelFields DEF Exit, Executing
<1>3. x.waiting = NONE /\ x.granted = NONE
  BY <1>1, <1>2 DEF Waits, Attached
<1>4. p \in Priorities
  BY PriorityLevelsAssumption DEF Priorities
<1>5. /\ y \in TcbType /\ y.state = "Free" /\ y.waiting = NONE /\ y.granted = NONE
      /\ ~y.semGranted /\ y.base = p /\ y.priority = p
      /\ \A q \in Priorities : y.inherited[q] = 0
  BY <1>4 DEF TcbType, EmptyTcb
<1>6. Retasked(k, b, t, y)
  BY ONLY t \in Tasks, b = [k EXCEPT !.tcb[t] = y], <1>1, <1>5, Retask
<1>7. Rewritten(k, b, t, p)
  BY <1>3, <1>5, <1>6 DEF Retasked, Rewritten
<1>8. Consistent(b, parked, live, owed)
  BY ONLY t \in Tasks, <1>1, <1>7, RewriteKeeps
<1>9. ASSUME LockInv, ~ExitHoldingMutex  PROVE Strict(b, live, held)
  <2>1. Strict(k, live, held)
    BY <1>9 DEF LockInv
  <2>2. \A m \in Mutexes : k.owner[m] # t
    BY <1>2, <1>3, <1>9, <2>1, OwnsNothing
  <2> QED  BY ONLY t \in Tasks, <1>1, <1>4, <1>7, <2>1, <2>2, RewriteStrict
<1>10. LockInv /\ ~ExitHoldingMutex => Strict(b, live', held')
  BY <1>2, <1>9
<1> QED  BY <1>2, <1>8, <1>10, Installed

\* Initially nothing has been spawned or created.
LEMMA InitInv ==
  ASSUME Init
  PROVE  WaitInv /\ LockInv
<1> SUFFICES ASSUME NEW k, k = Kernel  PROVE WaitInv /\ LockInv
  OBVIOUS
<1>1. PICK p \in Priorities :
        tcb = [t \in Tasks |-> IF t = MAIN THEN [EmptyTcb EXCEPT !.state = "Ready", !.base = p,
                                                                 !.priority = p]
                               ELSE EmptyTcb]
  BY DEF Init
<1>2. /\ queue = [r \in Resources |-> <<>>] /\ count = [s \in Sems |-> 0]
      /\ owner = [m \in Mutexes |-> NIL] /\ depth = [m \in Mutexes |-> 0]
      /\ live = {} /\ parked = [t \in Tasks |-> FALSE] /\ fault = "none"
      /\ owed = [s \in Sems |-> 0] /\ held = [t \in Tasks |-> [m \in Mutexes |-> 0]]
  BY DEF Init
<1>3. /\ EmptyTcb \in TcbType /\ EmptyTcb.state = "Free" /\ EmptyTcb.waiting = NONE
      /\ EmptyTcb.granted = NONE /\ ~EmptyTcb.semGranted
      /\ EmptyTcb.base = EmptyTcb.priority /\ \A q \in Priorities : EmptyTcb.inherited[q] = 0
  BY PriorityLevelsAssumption DEF TcbType, EmptyTcb, Priorities
<1>4. ASSUME NEW t \in Tasks
      PROVE  /\ tcb[t] \in TcbType /\ tcb[t].state \in {"Free", "Ready"} /\ tcb[t].waiting = NONE
             /\ tcb[t].granted = NONE /\ ~tcb[t].semGranted /\ tcb[t].base = tcb[t].priority
             /\ \A q \in Priorities : tcb[t].inherited[q] = 0
  <2>1. CASE t = MAIN
    <3>1. tcb[t] = [EmptyTcb EXCEPT !.state = "Ready", !.base = p, !.priority = p]
      BY <1>1, <2>1
    <3> QED  BY <1>3, <3>1 DEF TcbType
  <2>2. CASE t # MAIN
    <3>1. tcb[t] = EmptyTcb
      BY <1>1, <2>2
    <3> QED  BY <1>3, <3>1
  <2> QED  BY <2>1, <2>2
<1>5. /\ k.tcb = tcb /\ k.queue = queue /\ k.count = count /\ k.owner = owner
      /\ k.depth = depth /\ k.fault = fault
  BY KernelFields
<1>6. k \in KernelType
  <2>1. tcb \in [Tasks -> TcbType]
    BY <1>1, <1>4
  <2>2. queue \in [Resources -> Seq(Tasks)]
    BY <1>2
  <2>3. /\ count \in [Sems -> Nat] /\ owner \in [Mutexes -> Tasks \cup {NIL}]
        /\ depth \in [Mutexes -> Nat] /\ fault \in Faults
    BY <1>2 DEF Faults
  <2> QED  BY <2>1, <2>2, <2>3 DEF Kernel, KernelType
<1>7. \A r \in Resources : k.queue[r] = <<>>
  BY <1>2, <1>5
<1>8. QueuesOK(k)
  <2>1. \A r \in Resources : Distinct(k.queue[r]) /\ Sorted(k.tcb, k.queue[r])
    BY <1>7 DEF Distinct, Sorted
  <2>2. \A r \in Resources : \A u : ~In(k.queue[r], u)
    BY <1>7 DEF In
  <2> QED  BY <2>1, <2>2 DEF QueuesOK
<1>9. \A u \in Tasks : Succ(k, u) = NIL /\ u # NIL
  BY <1>4, <1>5, TaskFacts, ResourcesAssumption DEF Succ
<1>10. Acyclic(k)
  BY <1>9, TaskFacts DEF Acyclic
<1>11. Waits(k) /\ Grants(k)
  BY <1>4, <1>5, ResourcesAssumption DEF Waits, Grants
<1>12. Frees(k)
  BY <1>7 DEF Frees, Resources
<1>13. Attached(k, parked, live)
  BY <1>2, <1>4, <1>5 DEF Attached
<1>14. Owes(k, owed)
  <2> SUFFICES ASSUME NEW s \in Sems  PROVE owed[s] = Permits(k, s)
    BY DEF Owes
  <2>1. GrantsOf(k, s) = {}
    BY <1>4, <1>5, ResourcesAssumption DEF GrantsOf
  <2> QED  BY <1>2, <1>5, <2>1, FS_EmptySet DEF Permits
<1>15. WaitInv
  <2>1. parked \in [Tasks -> BOOLEAN] /\ live \in SUBSET Resources /\ owed \in [Sems -> Nat]
    BY <1>2
  <2> QED  BY <1>6, <1>8, <1>10, <1>11, <1>12, <1>13, <1>14, <2>1
          DEF WaitInv, Consistent, KInv
<1>16. Exact(k, Tasks)
  <2>1. Counted(k, Tasks)
    <3> SUFFICES ASSUME NEW t \in Tasks, NEW q \in Priorities
                 PROVE  k.tcb[t].inherited[q] = Cardinality(DonorsAt(k, Tasks, t, q))
      BY DEF Counted
    <3>1. DonorsAt(k, Tasks, t, q) = {}
      BY <1>9 DEF DonorsAt
    <3> QED  BY <1>4, <1>5, <3>1, FS_EmptySet
  <2>2. SettledBut(k, NIL)
    <3> SUFFICES ASSUME NEW t \in Tasks
                 PROVE  k.tcb[t].priority = EffectivePriority(k.tcb[t])
      BY DEF SettledBut
    <3> SUFFICES ASSUME NEW x, x = k.tcb[t]  PROVE x.priority = EffectivePriority(x)
      OBVIOUS
    <3>1. x \in TcbType /\ x.base = x.priority /\ \A q \in Priorities : x.inherited[q] = 0
      BY <1>4, <1>5
    <3>2. {x.base} \cup {q \in Priorities : x.inherited[q] # 0} = {x.base}
      BY <3>1
    <3>3. x.base \in Int
      BY <3>1, PriorityLevelsAssumption DEF TcbType, Priorities
    <3> QED  BY <3>1, <3>2, <3>3 DEF EffectivePriority
  <2> QED  BY <2>1, <2>2 DEF Exact
<1>17. LockInv
  <2>1. held \in [Tasks -> [Mutexes -> Nat]] /\ k.fault = "none"
    BY <1>2, <1>5
  <2>2. \A m \in Mutexes : HoldsOf(k, live, held, m)
    BY <1>2, <1>5 DEF HoldsOf
  <2> QED  BY <1>16, <2>1, <2>2 DEF LockInv, Strict
<1> QED  BY <1>15, <1>17

\* Every step keeps the invariant.
LEMMA NextKeeps ==
  ASSUME WaitInv, [Next]_vars
  PROVE  Kept
<1>1. CASE SemaphoreStep
  BY <1>1, SemaphoreCreateKeeps, SemaphoreDestroyKeeps, SemaphoreDownNowKeeps,
     SemaphoreDownParkKeeps, SemaphoreUpKeeps DEF SemaphoreStep
<1>2. CASE MutexStep
  BY <1>2, MutexCreateKeeps, MutexDestroyKeeps, MutexLockNowKeeps, MutexLockParkKeeps,
     MutexUnlockKeeps DEF MutexStep
<1>3. CASE TaskStep
  BY <1>3, WaitReturnsKeeps, CancelWaitKeeps, TimerScanKeeps, SetTaskPriorityKeeps,
     SpawnKeeps, ExitKeeps DEF TaskStep
<1>4. CASE UNCHANGED vars
  <2>1. Kernel' = Kernel /\ live' = live /\ parked' = parked /\ owed' = owed /\ held' = held
    BY <1>4 DEF vars, kernelVars, Kernel
  <2> QED  BY <2>1 DEF Kept, WaitInv, LockInv
<1> QED  BY <1>1, <1>2, <1>3, <1>4 DEF Next

-----------------------------------------------------------------------------
(* The theorems. *)

\* The invariant of the waits is one of the specification.
LEMMA WaitInvariant == Spec => []WaitInv
<1>1. Init => WaitInv
  BY InitInv
<1>2. WaitInv /\ [Next]_vars => WaitInv'
  BY NextKeeps DEF Kept
<1> QED  BY <1>1, <1>2, PTL DEF Spec

\* So is that of the locks, when no task exits holding a mutex.
LEMMA LockInvariant ==
  ASSUME ~ExitHoldingMutex
  PROVE  Spec => [](WaitInv /\ LockInv)
<1>1. Init => WaitInv /\ LockInv
  BY InitInv
<1>2. WaitInv /\ LockInv /\ [Next]_vars => WaitInv' /\ LockInv'
  BY NextKeeps DEF Kept
<1> QED  BY <1>1, <1>2, PTL DEF Spec

\* However signal, timeout and cancellation race for a waiter, it is linked
\* exactly where its TCB says, exactly while it is blocked, and a grant belongs to
\* a parked task that is ready (enqueue_waiter to cancel_wait_locked).
THEOREM WaitOwnershipHolds == Spec => []WaitOwnership
<1>1. ASSUME WaitInv  PROVE WaitOwnership
  <2>1. /\ QueuesOK(Kernel) /\ Waits(Kernel) /\ Grants(Kernel) /\ Kernel \in KernelType
        /\ Attached(Kernel, parked, live)
    BY <1>1 DEF WaitInv, Consistent, KInv
  <2>2. Kernel.tcb = tcb /\ Kernel.queue = queue
    BY KernelFields
  <2>3. ASSUME NEW r \in Resources  PROVE IsInjective(queue[r])
    BY <2>1, <2>2 DEF QueuesOK, Distinct, IsInjective
  <2>4. ASSUME NEW t \in Tasks
        PROVE  {r \in Resources : t \in Range(queue[r])} = {tcb[t].waiting} \ {NONE}
    <3>1. \A r \in Resources : t \in Range(queue[r]) <=> In(queue[r], t)
      BY DEF Range, In
    <3>2. \A r \in Resources : In(queue[r], t) => tcb[t].waiting = r
      BY <2>1, <2>2 DEF QueuesOK
    <3>3. tcb[t].waiting # NONE => In(queue[tcb[t].waiting], t)
      BY <2>1, <2>2 DEF Waits
    <3>4. tcb[t].waiting \in Resources \cup {NONE} /\ NONE \notin Resources
      <4>1. tcb[t] \in TcbType
        BY <2>1, <2>2 DEF KernelType
      <4> QED  BY <4>1, ResourcesAssumption DEF TcbType, Resources
    <3> QED  BY <3>1, <3>2, <3>3, <3>4
  <2>5. ASSUME NEW t \in Tasks
        PROVE  /\ tcb[t].waiting # NONE <=> tcb[t].state = "Blocked"
               /\ tcb[t].semGranted <=> tcb[t].granted # NONE
               /\ tcb[t].granted # NONE => tcb[t].state = "Ready" /\ parked[t]
               /\ tcb[t].state = "Blocked" => parked[t]
    BY <2>1, <2>2 DEF Waits, Grants, Attached
  <2> QED  BY <2>3, <2>4, <2>5 DEF WaitOwnership
<1> QED  BY <1>1, WaitInvariant, PTL

\* No order of up, timeout, cancellation and resumption loses, duplicates or
\* steals a permit, and none lies in the count while a task waits
\* (release_semaphore_locked, down, cancel_wait_locked).
THEOREM PermitsConservedHolds == Spec => []PermitsConserved
<1>1. ASSUME WaitInv  PROVE PermitsConserved
  <2> SUFFICES ASSUME NEW s \in Sems
               PROVE  /\ owed[s] = count[s] + Cardinality({t \in Tasks : tcb[t].granted = s})
                      /\ count[s] > 0 => queue[s] = <<>>
    BY DEF PermitsConserved
  <2>1. Owes(Kernel, owed) /\ Frees(Kernel)
    BY <1>1 DEF WaitInv, Consistent, KInv
  <2> QED  BY <2>1, KernelFields DEF Owes, Permits, GrantsOf, Frees
<1> QED  BY <1>1, WaitInvariant, PTL

\* No task waits for, or has a grant of, a resource that was destroyed
\* (semaphore_destroy, mutex_destroy).
THEOREM NoDanglingWaitHolds == Spec => []NoDanglingWait
<1>1. ASSUME WaitInv  PROVE NoDanglingWait
  <2>1. Attached(Kernel, parked, live)
    BY <1>1 DEF WaitInv, Consistent
  <2> QED  BY <2>1, KernelFields DEF Attached, NoDanglingWait
<1> QED  BY <1>1, WaitInvariant, PTL

\* The walk of mutex_chain_contains when a task parks is enough to keep waiting
\* free of cycles through all later handoffs, timeouts, cancellations and exits.
THEOREM NoWaitCycleHolds == Spec => []NoWaitCycle
<1>1. ASSUME WaitInv  PROVE NoWaitCycle
  <2> SUFFICES ASSUME NEW S \in SUBSET Tasks, S # {}
               PROVE  \E t \in S : \A u \in S : tcb[t].waiting \notin Owned(u)
    BY DEF NoWaitCycle
  <2>1. PICK t \in S : Succ(Kernel, t) \notin S
    BY <1>1 DEF WaitInv, Consistent, KInv, Acyclic
  <2>2. \A u \in S : tcb[t].waiting \notin Owned(u)
    BY <2>1, KernelFields DEF Succ, Owned
  <2> QED  BY <2>2
<1> QED  BY <1>1, WaitInvariant, PTL

\* Wait queues stay in the order of effective priorities while donations and
\* set_task_priority change the priorities of queued tasks
\* (set_effective_priority, refresh_inherited_priority).
THEOREM QueuesOrderedHolds == Spec => []QueuesOrdered
<1>1. ASSUME WaitInv  PROVE QueuesOrdered
  <2>1. QueuesOK(Kernel)
    BY <1>1 DEF WaitInv, Consistent, KInv
  <2> QED  BY <2>1, KernelFields DEF QueuesOK, Sorted, QueuesOrdered
<1> QED  BY <1>1, WaitInvariant, PTL

\* When no task exits holding a mutex, a task that lock() gave a mutex to keeps
\* it, alone and at its depth, until its own last unlock
\* (lock, unlock, release_mutex_locked, cancel_wait_locked).
THEOREM MutexOwnershipHolds ==
  ASSUME ~ExitHoldingMutex
  PROVE  Spec => []MutexOwnership
<1>1. ASSUME WaitInv, LockInv  PROVE MutexOwnership
  <2> SUFFICES ASSUME NEW m \in Mutexes
               PROVE  /\ \A t \in Tasks : held[t][m] > 0 =>
                           owner[m] = t /\ depth[m] = held[t][m]
                      /\ owner[m] # NIL /\ held[owner[m]][m] = 0 =>
                           depth[m] = 1 /\ tcb[owner[m]].granted = m
                      /\ owner[m] = NIL => queue[m] = <<>>
    BY DEF MutexOwnership
  <2>1. Kernel \in KernelType /\ Grants(Kernel) /\ Frees(Kernel)
    BY <1>1 DEF WaitInv, Consistent, KInv
  <2>2. HoldsOf(Kernel, live, held, m)
    BY <1>1 DEF LockInv, Strict
  <2>3. owner[m] \in Tasks \cup {NIL}
    BY <2>1, KernelFields DEF KernelType
  <2>4. \A t \in Tasks : held[t][m] > 0 => owner[m] = t /\ depth[m] = held[t][m]
    BY <2>2, KernelFields DEF HoldsOf
  <2>5. ASSUME owner[m] # NIL, held[owner[m]][m] = 0
        PROVE  depth[m] = 1 /\ tcb[owner[m]].granted = m
    <3>1. owner[m] \in Tasks
      BY <2>3, <2>5
    <3>2. tcb[owner[m]].granted = m
      BY <2>2, <2>5, KernelFields DEF HoldsOf
    <3> QED  BY <2>1, <3>1, <3>2, KernelFields DEF Grants
  <2>6. owner[m] = NIL => queue[m] = <<>>
    BY <2>1, KernelFields DEF Frees
  <2> QED  BY <2>4, <2>5, <2>6
<1> QED  BY <1>1, LockInvariant, PTL

\* When no task exits holding a mutex, every effective priority is the most
\* urgent of the base and of the priorities of those who wait for a mutex of the
\* task, and the donation counters are exact (refresh_inherited_priority,
\* add_inheritance, remove_inheritance, replace_inheritance and their callers).
THEOREM DonationsExactHolds ==
  ASSUME ~ExitHoldingMutex
  PROVE  Spec => []DonationsExact
<1>1. ASSUME WaitInv, LockInv  PROVE DonationsExact
  <2> SUFFICES ASSUME NEW t \in Tasks, NEW offers,
                      offers = {tcb[t].base} \cup {tcb[u].priority : u \in Donors(t)}
               PROVE  /\ \A p \in Priorities : tcb[t].inherited[p]
                           = Cardinality({u \in Donors(t) : tcb[u].priority = p})
                      /\ tcb[t].priority \in offers
                      /\ \A p \in offers : tcb[t].priority <= p
    BY DEF DonationsExact
  <2>1. /\ Kernel \in KernelType /\ Counted(Kernel, Tasks) /\ SettledBut(Kernel, NIL)
        /\ Kernel.tcb = tcb /\ Kernel.owner = owner /\ t # NIL
    BY <1>1, KernelFields, TaskFacts DEF WaitInv, Consistent, KInv, LockInv, Strict, Exact
  <2>2. \A u \in Tasks : tcb[u] \in TcbType
    BY <2>1 DEF KernelType
  <2>3. ASSUME NEW p
        PROVE  {u \in Donors(t) : tcb[u].priority = p} = DonorsAt(Kernel, Tasks, t, p)
    <3>1. \A u \in Tasks : u \in Donors(t) <=> Succ(Kernel, u) = t
      BY <2>1 DEF Donors, Owned, Succ
    <3>2. Donors(t) \in SUBSET Tasks
      BY DEF Donors
    <3> QED  BY <2>1, <3>1, <3>2 DEF DonorsAt
  <2>4. \A p \in Priorities : tcb[t].inherited[p]
          = Cardinality({u \in Donors(t) : tcb[u].priority = p})
    BY <2>1, <2>3 DEF Counted
  <2>5. ASSUME NEW p \in Priorities
        PROVE  tcb[t].inherited[p] # 0 <=> \E u \in Donors(t) : tcb[u].priority = p
    <3> SUFFICES ASSUME NEW D, D = {u \in Donors(t) : tcb[u].priority = p}
                 PROVE  Cardinality(D) # 0 <=> D # {}
      BY <2>4
    <3>1. D \in SUBSET Tasks
      BY DEF Donors
    <3>2. IsFiniteSet(D)
      BY <3>1, TaskFacts, FS_Subset
    <3> QED  BY <3>2, FS_EmptySet
  <2>6. offers = {tcb[t].base} \cup {p \in Priorities : tcb[t].inherited[p] # 0}
    <3>1. \A u \in Donors(t) : tcb[u].priority \in Priorities
      BY <2>2 DEF Donors, TcbType
    <3> QED  BY <2>5, <3>1
  <2>7. tcb[t].priority = EffectivePriority(tcb[t])
    BY <2>1 DEF SettledBut
  <2> SUFFICES ASSUME NEW x, x = tcb[t], x \in TcbType
               PROVE  x.priority \in offers /\ \A p \in offers : x.priority <= p
    BY <2>2, <2>4
  <2>8. /\ EffectivePriority(x) \in offers
        /\ \A p \in offers : EffectivePriority(x) <= p
    BY <2>6, EffectivePriorityFacts
  <2> QED  BY <2>7, <2>8
<1> QED  BY <1>1, LockInvariant, PTL

\* When no task exits holding a mutex, no expectation of the inheritance and
\* cancellation code fails: no donation is withdrawn that was not made, no chain
\* is longer than the task table, a revoked handoff finds its depth-one owner.
THEOREM NoFaultHolds ==
  ASSUME ~ExitHoldingMutex
  PROVE  Spec => []NoFault
<1>1. ASSUME WaitInv, LockInv  PROVE NoFault
  BY <1>1, KernelFields DEF LockInv, Strict, NoFault
<1> QED  BY <1>1, LockInvariant, PTL
=============================================================================
