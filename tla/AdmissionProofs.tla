--------------------------- MODULE AdmissionProofs ---------------------------
(***************************************************************************)
(* Stacks, promises, reservation tokens and task identities for any number *)
(* of tasks, reservation entries, stacks and plans.                        *)
(***************************************************************************)
EXTENDS Admission, CommonLemmas

Pcs == {"idle", "free", "preallocate", "reserve", "size", "allocate", "commit", "identify"}
TaskType == [taken : BOOLEAN, stack : Stacks \cup {NULL}, generation : Nat]
EntryType == [active : BOOLEAN, generation : Nat, remaining : Nat,
              sized : BOOLEAN, stacks : SUBSET Stacks]
LocalType == [plan : Plans \cup {<<>>}, token : Tokens \cup {NONE},
              stacks : SUBSET Stacks, next : {"idle", "size"},
              slot : Slots \cup {0}, generation : Nat]

\* What task t knows at its place in a call.  A spawn that holds no stack when
\* it commits has a reservation with stacks, if that reservation is still live.
CallOK(t) ==
  LET l == local[t] IN
  /\ at[t] \in {"idle", "size", "allocate", "identify"} => l.stacks = {}
  /\ at[t] \in {"preallocate", "reserve"} => l.plan \in Plans
  /\ at[t] = "identify" => l.slot \in Slots /\ l.generation <= slotGenerations[l.slot]
  /\ at[t] = "allocate" /\ Resolves(l.token) => ~entries[l.token[1]].sized
  /\ at[t] = "commit" =>
       /\ \A s, u \in l.stacks : s = u
       /\ l.token = NONE => l.stacks # {}
       /\ Resolves(l.token) => (entries[l.token[1]].sized <=> l.stacks = {})

\* Tokens are the handed out ones, and no generation is ahead of its entry.
TokenInv ==
  /\ \A t \in Callers : local[t].token \in tokens \cup {NONE}
  /\ \A token \in tokens : token[2] <= entries[token[1]].generation

\* A slot's task carries the generation of the slot; no exited task is ahead of it.
IdentityInv ==
  /\ \A i \in Slots :
       /\ tasks[i].taken => /\ tasks[i].generation = slotGenerations[i]
                            /\ <<i, tasks[i].generation>> \notin ended
       /\ ~tasks[i].taken => tasks[i].generation = 0
       /\ tasks[i].taken <=> tasks[i].stack # NULL
  /\ \A id \in ended : id[2] <= slotGenerations[id[1]]

\* Allocated stacks are those that somebody owns, and no two owners share one.
OwnerInv ==
  /\ \A s \in heap : \/ s \in retired
                     \/ \E i \in Slots : tasks[i].stack = s
                     \/ \E k \in Entries : s \in entries[k].stacks
                     \/ \E t \in Callers : s \in local[t].stacks
  /\ retired \subseteq heap
  /\ \A i \in Slots : tasks[i].stack \in heap \cup {NULL} /\ tasks[i].stack \notin retired
  /\ \A k \in Entries : entries[k].stacks \subseteq heap /\ entries[k].stacks \cap retired = {}
  /\ \A t \in Callers : local[t].stacks \subseteq heap /\ local[t].stacks \cap retired = {}
  /\ \A i, j \in Slots : tasks[i].stack = tasks[j].stack => i = j \/ tasks[i].stack = NULL
  /\ \A k, m \in Entries : k # m => entries[k].stacks \cap entries[m].stacks = {}
  /\ \A t, u \in Callers : t # u => local[t].stacks \cap local[u].stacks = {}
  /\ \A i \in Slots, k \in Entries : tasks[i].stack \notin entries[k].stacks
  /\ \A i \in Slots, t \in Callers : tasks[i].stack \notin local[t].stacks
  /\ \A k \in Entries, t \in Callers : entries[k].stacks \cap local[t].stacks = {}

\* The inductive invariant.
IInv ==
  /\ TypeOK
  /\ \A t \in Callers : CallOK(t)
  /\ TokenInv
  /\ ReleasedTokensStale
  /\ IdentityInv
  /\ OwnerInv
  /\ PromisesBacked
-----------------------------------------------------------------------------
(* Counts of tasks. *)

\* The tasks of a list of counts are finitely many numbered pairs.
LEMMA TasksFacts ==
  ASSUME NEW D, IsFiniteSet(D), NEW f \in [D -> Nat]
  PROVE  /\ \A x : x \in TasksOf(f) <=> \E j \in D, n \in Nat \ {0} : n <= f[j] /\ x = <<j, n>>
         /\ IsFiniteSet(TasksOf(f))
         /\ SumOf(f) \in Nat
<1> DEFINE row(j) == {j} \X (1..f[j])
           rows == {row(j) : j \in D}
<1>1. TasksOf(f) = UNION rows
  BY DEF TasksOf
<1>2. \A j \in D : IsFiniteSet(row(j))
  <2> TAKE j \in D
  <2>1. f[j] \in Int
    OBVIOUS
  <2>2. IsFiniteSet({j}) /\ IsFiniteSet(1..f[j])
    <3>1. IsFiniteSet({j})
      BY FS_Singleton
    <3>2. IsFiniteSet(1..f[j])
      BY <2>1, FS_Interval
    <3> QED  BY <3>1, <3>2
  <2> QED  BY <2>2, FS_Product
<1>3. IsFiniteSet(rows)
  <2>1. [j \in D |-> row(j)] \in Surjection(D, rows)
    <3> HIDE DEF row
    <3> QED  BY DEF Surjection
  <2> HIDE DEF rows
  <2> QED  BY <2>1, FS_Surjection
<1>4. \A T \in rows : IsFiniteSet(T)
  <2> HIDE DEF row
  <2> QED  BY <1>2
<1>5. IsFiniteSet(UNION rows)
  <2> HIDE DEF rows
  <2> QED  BY <1>3, <1>4, FS_UNION
<1>6. \A x : x \in TasksOf(f) <=> \E j \in D, n \in Nat \ {0} : n <= f[j] /\ x = <<j, n>>
  BY <1>1
<1> HIDE DEF rows
<1>7. IsFiniteSet(TasksOf(f))
  BY <1>1, <1>5
<1> QED  BY <1>6, <1>7, FS_CardinalityType DEF SumOf

\* One task less in one group.
LEMMA SumDrop ==
  ASSUME NEW D, IsFiniteSet(D), NEW f \in [D -> Nat], NEW g \in [D -> Nat], NEW k \in D,
         f[k] # 0, g[k] = f[k] - 1, \A j \in D : j # k => g[j] = f[j]
  PROVE  SumOf(g) = SumOf(f) - 1
<1>1. TasksOf(g) = TasksOf(f) \ {<<k, f[k]>>}
  <2>1. \A x : x \in TasksOf(f) <=> \E j \in D, n \in Nat \ {0} : n <= f[j] /\ x = <<j, n>>
    BY TasksFacts
  <2>2. \A x : x \in TasksOf(g) <=> \E j \in D, n \in Nat \ {0} : n <= g[j] /\ x = <<j, n>>
    BY TasksFacts
  <2>3. \A j \in D, n \in Nat \ {0} : n <= g[j] <=> n <= f[j] /\ <<j, n>> # <<k, f[k]>>
    OBVIOUS
  <2> QED  BY <2>1, <2>2, <2>3
<1>2. <<k, f[k]>> \in TasksOf(f) /\ IsFiniteSet(TasksOf(f))
  BY TasksFacts
<1> QED  BY <1>1, <1>2, FS_RemoveElement DEF SumOf

\* No task left in one group.
LEMMA SumClear ==
  ASSUME NEW D, IsFiniteSet(D), NEW f \in [D -> Nat], NEW g \in [D -> Nat], NEW k \in D,
         g[k] = 0, \A j \in D : j # k => g[j] = f[j]
  PROVE  SumOf(g) = SumOf(f) - f[k] /\ f[k] <= SumOf(f)
<1> DEFINE row == {k} \X (1..f[k])
<1>1. \A x : x \in TasksOf(f) <=> \E j \in D, n \in Nat \ {0} : n <= f[j] /\ x = <<j, n>>
  BY TasksFacts
<1>2. \A x : x \in TasksOf(g) <=> \E j \in D, n \in Nat \ {0} : n <= g[j] /\ x = <<j, n>>
  BY TasksFacts
<1>3. \A x : x \in row <=> \E n \in Nat \ {0} : n <= f[k] /\ x = <<k, n>>
  OBVIOUS
<1>4. Cardinality(row) = f[k]
  <2>1. IsFiniteSet({k}) /\ Cardinality({k}) = 1
    BY FS_Singleton
  <2>2. f[k] \in Nat
    OBVIOUS
  <2>3. IsFiniteSet(1..f[k]) /\ Cardinality(1..f[k]) = f[k]
    BY <2>2, FS_Interval
  <2>4. Cardinality(row) = Cardinality({k}) * Cardinality(1..f[k])
    BY <2>1, <2>3, FS_Product
  <2>5. Cardinality(row) = 1 * f[k]
    BY <2>1, <2>3, <2>4
  <2> QED  BY <2>2, <2>5
<1> HIDE DEF row
<1>5. row \in SUBSET TasksOf(f)
  BY <1>1, <1>3
<1>6. TasksOf(g) = TasksOf(f) \ row
  <2>1. \A j \in D, n \in Nat \ {0} : n <= g[j] <=> n <= f[j] /\ j # k
    OBVIOUS
  <2>2. \A x \in TasksOf(g) : x \in TasksOf(f) /\ x \notin row
    BY <1>1, <1>2, <1>3, <2>1
  <2>3. \A x \in TasksOf(f) : x \notin row => x \in TasksOf(g)
    BY <1>1, <1>2, <1>3, <2>1
  <2> QED  BY <2>2, <2>3
<1>7. IsFiniteSet(TasksOf(f)) /\ TasksOf(f) \cap row = row
  BY TasksFacts, <1>5
<1>8. Cardinality(row) <= Cardinality(TasksOf(f))
  BY <1>5, <1>7, FS_Subset
<1>9. Cardinality(TasksOf(f) \ row) = Cardinality(TasksOf(f)) - Cardinality(row)
  BY <1>7, FS_Difference
<1> QED  BY <1>4, <1>6, <1>8, <1>9 DEF SumOf

\* The groups J of a plan p are given to the empty groups e[1], e[2], ... of f.
Placed(D, J, f, g, p, e) ==
  /\ IsFiniteSet(D) /\ IsFiniteSet(J)
  /\ f \in [D -> Nat] /\ g \in [D -> Nat] /\ p \in [J -> Nat] /\ e \in [J -> D]
  /\ \A i, j \in J : e[i] = e[j] => i = j
  /\ \A j \in J : f[e[j]] = 0 /\ g[e[j]] = p[j]
  /\ \A k \in D : (\A j \in J : e[j] # k) => g[k] = f[k]

\* Their tasks are added to those of f.
LEMMA SumAdd ==
  ASSUME NEW D, NEW J, NEW f, NEW g, NEW p, NEW e, Placed(D, J, f, g, p, e)
  PROVE  SumOf(g) = SumOf(f) + SumOf(p)
<1> USE DEF Placed
<1>1. \A x : x \in TasksOf(f) <=> \E j \in D, n \in Nat \ {0} : n <= f[j] /\ x = <<j, n>>
  BY TasksFacts
<1>2. \A x : x \in TasksOf(g) <=> \E j \in D, n \in Nat \ {0} : n <= g[j] /\ x = <<j, n>>
  BY TasksFacts
<1>3. \A x : x \in TasksOf(p) <=> \E j \in J, n \in Nat \ {0} : n <= p[j] /\ x = <<j, n>>
  BY TasksFacts
<1>4. IsFiniteSet(TasksOf(f)) /\ IsFiniteSet(TasksOf(p)) /\ SumOf(f) \in Nat /\ SumOf(p) \in Nat
  BY TasksFacts
<1> DEFINE h == [x \in TasksOf(p) |-> <<e[x[1]], x[2]>>]
           new == {h[x] : x \in TasksOf(p)}
<1>5. \A j \in J, n \in Nat \ {0} : n <= p[j] => <<j, n>> \in TasksOf(p) /\ h[<<j, n>>] = <<e[j], n>>
  BY <1>3
<1>6. \A y : y \in new <=> \E j \in J, n \in Nat \ {0} : n <= p[j] /\ y = <<e[j], n>>
  <2>1. ASSUME NEW y \in new  PROVE \E j \in J, n \in Nat \ {0} : n <= p[j] /\ y = <<e[j], n>>
    BY <1>3, <1>5
  <2>2. ASSUME NEW j \in J, NEW n \in Nat \ {0}, n <= p[j]  PROVE <<e[j], n>> \in new
    <3>1. <<j, n>> \in TasksOf(p) /\ h[<<j, n>>] = <<e[j], n>>
      BY <1>5, <2>2
    <3> HIDE DEF h
    <3> QED  BY <3>1
  <2> QED  BY <2>1, <2>2
<1>7. IsFiniteSet(new) /\ Cardinality(new) = SumOf(p)
  <2>1. h \in Injection(TasksOf(p), new)
    <3>1. h \in [TasksOf(p) -> new]
      OBVIOUS
    <3>2. \A x, y \in TasksOf(p) : h[x] = h[y] => x = y
      <4> SUFFICES ASSUME NEW x \in TasksOf(p), NEW y \in TasksOf(p), h[x] = h[y]  PROVE x = y
        OBVIOUS
      <4>1. PICK i \in J, n \in Nat \ {0} : n <= p[i] /\ x = <<i, n>>
        BY <1>3
      <4>2. PICK j \in J, m \in Nat \ {0} : m <= p[j] /\ y = <<j, m>>
        BY <1>3
      <4>3. h[x] = <<e[i], n>> /\ h[y] = <<e[j], m>>
        BY <4>1, <4>2, <1>5
      <4> QED  BY <4>1, <4>2, <4>3
    <3> HIDE DEF h, new
    <3> QED  BY <3>1, <3>2 DEF Injection, IsInjective
  <2>2. h \in Surjection(TasksOf(p), new)
    BY DEF Surjection
  <2>3. ExistsBijection(TasksOf(p), new)
    <3> HIDE DEF h, new
    <3> QED  BY <2>1, <2>2 DEF ExistsBijection, Bijection
  <2> HIDE DEF new
  <2> QED  BY <2>3, <1>4, FS_Bijection DEF SumOf
<1> HIDE DEF h, new
<1>8. TasksOf(g) = TasksOf(f) \cup new
  <2>1. ASSUME NEW y \in TasksOf(g)  PROVE y \in TasksOf(f) \cup new
    <3>1. PICK k \in D, n \in Nat \ {0} : n <= g[k] /\ y = <<k, n>>
      BY <1>2
    <3> QED  BY <3>1, <1>1, <1>6
  <2>2. ASSUME NEW y \in TasksOf(f)  PROVE y \in TasksOf(g)
    <3>1. PICK k \in D, n \in Nat \ {0} : n <= f[k] /\ y = <<k, n>>
      BY <1>1
    <3>2. \A j \in J : e[j] # k
      BY <3>1
    <3> QED  BY <3>1, <3>2, <1>2
  <2>3. ASSUME NEW y \in new  PROVE y \in TasksOf(g)
    BY <1>2, <1>6
  <2> QED  BY <2>1, <2>2, <2>3
<1>9. TasksOf(f) \cap new = {}
  <2> SUFFICES ASSUME NEW y \in TasksOf(f), y \in new  PROVE FALSE
    OBVIOUS
  <2>1. PICK k \in D, n \in Nat \ {0} : n <= f[k] /\ y = <<k, n>>
    BY <1>1
  <2>2. PICK j \in J, m \in Nat \ {0} : m <= p[j] /\ y = <<e[j], m>>
    BY <1>6
  <2> QED  BY <2>1, <2>2
<1>10. Cardinality(TasksOf(g)) = Cardinality(TasksOf(f)) + Cardinality(new) - 0
  BY <1>4, <1>7, <1>8, <1>9, FS_Union, FS_EmptySet
<1> QED  BY <1>4, <1>7, <1>10 DEF SumOf

\* The inactive entries are listed once each.
LEMMA InactiveFacts ==
  ASSUME NEW j \in 1..Cardinality(FreeEntries)
  PROVE  /\ Inactive[j] \in FreeEntries
         /\ \A i \in 1..Cardinality(FreeEntries) : Inactive[i] = Inactive[j] => i = j
<1> DEFINE S == FreeEntries
           n == Cardinality(S)
           upTo(k) == {f \in S : f <= k}
           rank == [k \in S |-> Cardinality(upTo(k))]
<1>1. IsFiniteSet(S) /\ S \subseteq Int /\ n \in Nat
  <2>1. IsFiniteSet(Entries) /\ Entries \subseteq Int /\ S \in SUBSET Entries
    BY TableSizeAssumption, FS_Interval DEF Entries, FreeEntries
  <2> HIDE DEF S
  <2> QED  BY <2>1, FS_Subset, FS_CardinalityType
<1>2. Inactive = [i \in 1..n |-> CHOOSE k \in S : Cardinality(upTo(k)) = i]
  BY DEF Inactive
<1> HIDE DEF S
<1>3. \A k \in S : IsFiniteSet(upTo(k)) /\ rank[k] = Cardinality(upTo(k)) /\ rank[k] \in 1..n
  <2> TAKE k \in S
  <2>1. upTo(k) \in SUBSET S /\ k \in upTo(k)
    BY <1>1
  <2> HIDE DEF upTo
  <2>2. IsFiniteSet(upTo(k)) /\ Cardinality(upTo(k)) <= n /\ Cardinality(upTo(k)) \in Nat
    BY <2>1, <1>1, FS_Subset, FS_CardinalityType
  <2>3. Cardinality(upTo(k)) # 0
    BY <2>1, <2>2, FS_EmptySet
  <2> QED  BY <1>1, <2>2, <2>3
<1>4. ASSUME NEW k \in S, NEW m \in S, k < m  PROVE rank[k] # rank[m]
  <2>1. upTo(k) \in SUBSET upTo(m) /\ m \in upTo(m) /\ m \notin upTo(k)
    <3>1. \A f \in S : f \in Int
      BY <1>1
    <3>2. \A f \in S : f <= k => f <= m
      BY <1>4, <3>1
    <3>3. m <= m /\ ~(m <= k)
      BY <1>4, <3>1
    <3> QED  BY <3>2, <3>3
  <2>2. Cardinality(upTo(m)) = Cardinality(upTo(k)) => upTo(m) = upTo(k)
    BY <2>1, <1>3, FS_Subset
  <2> QED  BY <2>1, <2>2, <1>3
<1>5. rank \in Injection(S, 1..n)
  <2>1. \A k, m \in S : rank[k] = rank[m] => k = m
    BY <1>4, <1>1
  <2>2. rank \in [S -> 1..n]
    BY <1>3
  <2> HIDE DEF rank
  <2> QED  BY <2>1, <2>2 DEF Injection, IsInjective
<1>6. IsFiniteSet(1..n) /\ Cardinality(1..n) = n
  BY <1>1, FS_Interval
<1>7. rank \in Surjection(S, 1..n)
  <2> HIDE DEF rank
  <2> QED  BY <1>5, <1>6, FS_Injection
<1>8. \A i \in 1..n : \E k \in S : Cardinality(upTo(k)) = i
  BY <1>7, <1>3 DEF Surjection
<1>9. \A i \in 1..n : Inactive[i] \in S /\ Cardinality(upTo(Inactive[i])) = i
  BY <1>2, <1>8
<1> HIDE DEF upTo, rank, n
<1> QED  BY <1>9 DEF S, n
-----------------------------------------------------------------------------
(* The parts of a step. *)

\* TypeOK with names for its record types.
TypeParts ==
  /\ tasks \in [Slots -> TaskType]
  /\ slotGenerations \in [Slots -> Nat]
  /\ entries \in [Entries -> EntryType]
  /\ totalRemaining \in Nat
  /\ retired \subseteq Stacks
  /\ heap \subseteq Stacks
  /\ at \in [Callers -> Pcs]
  /\ local \in [Callers -> LocalType]
  /\ tokens \subseteq Tokens
  /\ released \subseteq tokens
  /\ ended \subseteq Slots \X Nat

\* TypeParts says the same as TypeOK, before and after a step.
LEMMA Types == (TypeOK <=> TypeParts) /\ (TypeOK' <=> TypeParts')
BY DEF TypeOK, TypeParts, TaskType, EntryType, LocalType, Pcs

\* A token that resolves names an entry.
LEMMA TokenFacts ==
  ASSUME NEW token \in Tokens
  PROVE  token[1] \in Entries /\ token[2] \in Nat \ {0} /\ token # NONE
BY DEF Tokens, NONE

\* A step of task t moves nobody else.
LEMMA GotoFacts ==
  ASSUME TypeOK, NEW t \in Callers, NEW pc, NEW l, Goto(t, pc, l)
  PROVE  /\ at'[t] = pc /\ local'[t] = l
         /\ \A u \in Callers : u # t => at'[u] = at[u] /\ local'[u] = local[u]
         /\ pc \in Pcs => at' \in [Callers -> Pcs]
         /\ l \in LocalType => local' \in [Callers -> LocalType]
BY Types DEF TypeParts, Goto

\* The fields of a call's local variables, one assignment at a time.
LEMMA SetStacks ==
  ASSUME NEW l \in LocalType, NEW X \in SUBSET Stacks
  PROVE  LET r == [l EXCEPT !.stacks = X] IN
         /\ r \in LocalType
         /\ r.stacks = X /\ r.token = l.token /\ r.plan = l.plan /\ r.next = l.next
         /\ r.slot = l.slot /\ r.generation = l.generation
BY DEF LocalType

\* Where the call continues when its stacks are freed.
LEMMA SetNext ==
  ASSUME NEW l \in LocalType, NEW pc \in {"idle", "size"}
  PROVE  LET r == [l EXCEPT !.next = pc] IN
         /\ r \in LocalType
         /\ r.stacks = l.stacks /\ r.token = l.token /\ r.plan = l.plan /\ r.next = pc
         /\ r.slot = l.slot /\ r.generation = l.generation
BY DEF LocalType

\* The slot of the task that a spawn created.
LEMMA SetSlot ==
  ASSUME NEW l \in LocalType, NEW i \in Slots
  PROVE  LET r == [l EXCEPT !.slot = i] IN
         /\ r \in LocalType
         /\ r.stacks = l.stacks /\ r.token = l.token /\ r.slot = i
         /\ r.generation = l.generation
BY DEF LocalType

\* The generation of the task that a spawn created.
LEMMA SetGeneration ==
  ASSUME NEW l \in LocalType, NEW g \in Nat
  PROVE  LET r == [l EXCEPT !.generation = g] IN
         /\ r \in LocalType
         /\ r.stacks = l.stacks /\ r.token = l.token /\ r.slot = l.slot
         /\ r.generation = g
BY DEF LocalType

\* The local variables with which a call begins.
LEMMA IdleFacts ==
  /\ Idle \in LocalType
  /\ Idle.stacks = {} /\ Idle.token = NONE /\ Idle.next = "idle"
  /\ \A plan \in Plans : /\ [Idle EXCEPT !.plan = plan] \in LocalType
                         /\ [Idle EXCEPT !.plan = plan].plan = plan
                         /\ [Idle EXCEPT !.plan = plan].stacks = {}
                         /\ [Idle EXCEPT !.plan = plan].token = NONE
  /\ \A token \in Tokens \cup {NONE} :
       /\ [Idle EXCEPT !.token = token] \in LocalType
       /\ [Idle EXCEPT !.token = token].token = token
       /\ [Idle EXCEPT !.token = token].stacks = {}
<1>1. Idle \in LocalType
  BY DEF Idle, LocalType
<1>2. Idle.stacks = {} /\ Idle.token = NONE /\ Idle.next = "idle"
  BY DEF Idle
<1> HIDE DEF Idle
<1> QED  BY <1>1, <1>2 DEF LocalType

\* FreeThen stops at "free" as long as there is something to free.
LEMMA FreeThenFacts ==
  ASSUME NEW t \in Callers, NEW blocks \in SUBSET Stacks, NEW pc \in {"idle", "size"},
         NEW l \in LocalType, FreeThen(t, blocks, pc, l)
  PROVE  \E r \in LocalType :
           /\ r.stacks = blocks /\ r.token = l.token
           /\ Goto(t, "free", r) \/ (blocks = {} /\ Goto(t, pc, r))
<1>1. CASE blocks = {}
  <2> DEFINE r == [l EXCEPT !.stacks = {}]
  <2>1. r \in LocalType /\ r.stacks = {} /\ r.token = l.token
    BY SetStacks
  <2>2. Goto(t, pc, r)
    BY <1>1 DEF FreeThen
  <2> QED  BY <1>1, <2>1, <2>2
<1>2. CASE blocks # {}
  <2> DEFINE m == [l EXCEPT !.stacks = blocks]
             r == [m EXCEPT !.next = pc]
  <2>1. m \in LocalType /\ m.stacks = blocks /\ m.token = l.token
    BY SetStacks
  <2>2. Goto(t, "free", r)
    BY <1>2 DEF FreeThen
  <2> HIDE DEF m
  <2>3. r \in LocalType /\ r.stacks = blocks /\ r.token = l.token
    BY <2>1, SetNext
  <2> QED  BY <2>2, <2>3
<1> QED  BY <1>1, <1>2

\* A call that has nothing left to do but to free its blocks.
LEMMA FreeThenIdle ==
  ASSUME NEW t \in Callers, NEW blocks \in SUBSET Stacks, FreeThen(t, blocks, "idle", Idle)
  PROVE  \E r \in LocalType :
           /\ r.stacks = blocks /\ r.token = NONE
           /\ Goto(t, "free", r) \/ (blocks = {} /\ Goto(t, "idle", r))
<1>1. Idle \in LocalType /\ Idle.token = NONE
  BY IdleFacts
<1>2. \E r \in LocalType :
        /\ r.stacks = blocks /\ r.token = Idle.token
        /\ Goto(t, "free", r) \/ (blocks = {} /\ Goto(t, "idle", r))
  BY <1>1, FreeThenFacts
<1> QED  BY <1>1, <1>2

\* What may happen to the table: generations grow, and an entry that keeps
\* its generation is not made active, or sized, by the step.
TableStep ==
  \A k \in Entries :
    /\ entries'[k].generation >= entries[k].generation
    /\ entries'[k].active /\ entries'[k].generation = entries[k].generation =>
         entries[k].active /\ (entries'[k].sized <=> entries[k].sized)

\* A token of before the step resolves after it only if it did before.
LEMMA ResolvesKept ==
  ASSUME IInv, TypeOK', TableStep, NEW token \in tokens \cup {NONE}, Resolves(token)'
  PROVE  /\ Resolves(token)
         /\ entries'[token[1]].sized <=> entries[token[1]].sized
<1>1. /\ token # NONE /\ entries'[token[1]].active
      /\ entries'[token[1]].generation = token[2]
  BY DEF Resolves
<1>2. TypeOK /\ TokenInv /\ token \in tokens
  BY <1>1 DEF IInv
<1>3. token[1] \in Entries /\ token[2] \in Nat
  BY <1>2, Types, TokenFacts DEF TypeParts
<1>4. entries[token[1]].generation \in Nat
  BY <1>2, <1>3, Types DEF TypeParts, EntryType
<1>5. token[2] <= entries[token[1]].generation
  BY <1>2 DEF TokenInv
<1>6. entries'[token[1]].generation >= entries[token[1]].generation
  BY <1>3 DEF TableStep
<1>7. entries'[token[1]].generation = entries[token[1]].generation
  BY <1>1, <1>3, <1>4, <1>5, <1>6
<1> QED  BY <1>1, <1>3, <1>7 DEF TableStep, Resolves

\* The invariant after a step of task t, from its parts.
LEMMA StepInv ==
  ASSUME IInv, TypeOK', TableStep, NEW t \in Callers,
         \A u \in Callers : u # t => at'[u] = at[u] /\ local'[u] = local[u],
         \A i \in Slots : slotGenerations'[i] >= slotGenerations[i],
         CallOK(t)', local'[t].token \in tokens' \cup {NONE},
         tokens \subseteq tokens',
         \A token \in tokens' \ tokens : token[2] <= entries'[token[1]].generation,
         \A token \in released' \ released : ~Resolves(token)',
         IdentityInv', OwnerInv', PromisesBacked'
  PROVE  IInv'
<1>0. TypeOK /\ (\A u \in Callers : CallOK(u)) /\ TokenInv /\ ReleasedTokensStale
  BY DEF IInv
<1>1. \A u \in Callers : CallOK(u)'
  <2> SUFFICES ASSUME NEW u \in Callers, u # t  PROVE CallOK(u)'
    OBVIOUS
  <2>1. at'[u] = at[u] /\ local'[u] = local[u] /\ CallOK(u)
    BY <1>0
  <2>2. local[u].token \in tokens \cup {NONE}
    BY <1>0 DEF TokenInv
  <2>3. Resolves(local[u].token)' =>
          /\ Resolves(local[u].token)
          /\ entries'[local[u].token[1]].sized <=> entries[local[u].token[1]].sized
    <3>1. SUFFICES ASSUME NEW token, token = local[u].token, (Resolves(local[u].token))'
                   PROVE  /\ Resolves(token)
                          /\ entries'[token[1]].sized <=> entries[token[1]].sized
      OBVIOUS
    <3>2. entries'[token[1]].active /\ token # NONE
      BY <3>1, <2>1 DEF Resolves
    <3> QED  BY <3>1, <2>1, <2>2, ResolvesKept DEF Resolves
  <2>4. local[u].slot \in Slots /\ local[u].generation <= slotGenerations[local[u].slot]
          => local[u].generation <= slotGenerations'[local[u].slot]
    BY <1>0, Types DEF TypeParts, LocalType
  <2> QED  BY <2>1, <2>3, <2>4 DEF CallOK, Resolves
<1>2. TokenInv'
  <2>1. \A u \in Callers : local'[u].token \in tokens' \cup {NONE}
    BY <1>0 DEF TokenInv
  <2>2. ASSUME NEW token \in tokens  PROVE token[2] <= entries'[token[1]].generation
    <3>1. token[1] \in Entries /\ token[2] \in Nat
      BY <1>0, Types, TokenFacts DEF TypeParts
    <3>2. entries[token[1]].generation \in Nat /\ entries'[token[1]].generation \in Nat
      BY <1>0, <3>1, Types DEF TypeParts, EntryType
    <3> QED  BY <1>0, <3>1, <3>2 DEF TokenInv, TableStep
  <2> QED  BY <2>1, <2>2 DEF TokenInv
<1>3. ReleasedTokensStale'
  <2>1. ASSUME NEW token \in released  PROVE ~Resolves(token)'
    <3>1. token \in tokens /\ ~Resolves(token)
      BY <1>0, Types DEF TypeParts, ReleasedTokensStale
    <3> QED  BY <3>1, ResolvesKept
  <2> QED  BY <2>1 DEF ReleasedTokensStale
<1> QED  BY <1>1, <1>2, <1>3 DEF IInv

\* A step that only moves task t and stacks.
LEMMA CallStep ==
  ASSUME IInv, NEW t \in Callers, NEW pc \in Pcs, NEW l \in LocalType, Goto(t, pc, l),
         UNCHANGED <<slotVars, table, ghosts>>, heap' \subseteq Stacks, retired' \subseteq Stacks,
         l.token \in tokens \cup {NONE}, CallOK(t)', OwnerInv'
  PROVE  IInv'
<1>1. UNCHANGED <<tasks, slotGenerations, entries, totalRemaining, tokens, released, ended>>
  BY DEF slotVars, table, ghosts
<1>2. TypeOK /\ IdentityInv /\ PromisesBacked
  BY DEF IInv
<1>3. /\ at'[t] = pc /\ local'[t] = l
      /\ \A u \in Callers : u # t => at'[u] = at[u] /\ local'[u] = local[u]
      /\ at' \in [Callers -> Pcs] /\ local' \in [Callers -> LocalType]
  BY <1>2, GotoFacts
<1>4. TypeOK'
  <2>1. /\ tasks' \in [Slots -> TaskType] /\ slotGenerations' \in [Slots -> Nat]
        /\ entries' \in [Entries -> EntryType] /\ totalRemaining' \in Nat
        /\ tokens' \subseteq Tokens /\ released' \subseteq tokens' /\ ended' \subseteq Slots \X Nat
    BY <1>1, <1>2, Types DEF TypeParts
  <2> QED  BY <1>3, <2>1, Types DEF TypeParts
<1>5. TableStep /\ \A i \in Slots : slotGenerations'[i] >= slotGenerations[i]
  BY <1>1, <1>2, Types DEF TypeParts, TableStep, EntryType
<1>6. IdentityInv' /\ PromisesBacked'
  BY <1>1, <1>2 DEF IdentityInv, PromisesBacked, FreeSlots
<1> QED  BY <1>1, <1>3, <1>4, <1>5, <1>6, StepInv

\* Such a step that leaves every stack where it is.
LEMMA QuietStep ==
  ASSUME IInv, NEW t \in Callers, NEW pc \in Pcs, NEW l \in LocalType, Goto(t, pc, l),
         UNCHANGED <<slotVars, table, retired, heap, ghosts>>,
         l.stacks = local[t].stacks, l.token \in tokens \cup {NONE}, CallOK(t)'
  PROVE  IInv'
<1>1. TypeOK /\ OwnerInv /\ UNCHANGED <<slotVars, table, ghosts>>
  BY DEF IInv
<1>2. UNCHANGED <<tasks, entries, retired, heap>> /\ heap' \subseteq Stacks /\ retired' \subseteq Stacks
  BY <1>1, Types DEF slotVars, table, TypeParts
<1>3. \A u \in Callers : local'[u].stacks = local[u].stacks
  BY <1>1, GotoFacts
<1>4. OwnerInv'
  BY <1>1, <1>2, <1>3 DEF OwnerInv
<1> QED  BY <1>1, <1>2, <1>4, CallStep

\* A failing call gives its stacks back.
LEMMA GiveBack ==
  ASSUME IInv, NEW t \in Callers, FreeThen(t, local[t].stacks, "idle", Idle),
         UNCHANGED <<slotVars, table, retired, heap, ghosts>>
  PROVE  IInv'
<1>1. TypeOK /\ local[t].stacks \in SUBSET Stacks
  BY Types DEF IInv, TypeParts, LocalType
<1>2. PICK r \in LocalType :
        /\ r.stacks = local[t].stacks /\ r.token = NONE
        /\ Goto(t, "free", r) \/ (local[t].stacks = {} /\ Goto(t, "idle", r))
  <2> SUFFICES ASSUME NEW X \in SUBSET Stacks, X = local[t].stacks, FreeThen(t, X, "idle", Idle)
               PROVE  \E r \in LocalType :
                 /\ r.stacks = X /\ r.token = NONE
                 /\ Goto(t, "free", r) \/ (X = {} /\ Goto(t, "idle", r))
    BY <1>1
  <2> QED  BY FreeThenIdle
<1>3. PICK q \in {"free", "idle"} : Goto(t, q, r) /\ (q # "free" => r.stacks = {})
  BY <1>2
<1>4. at'[t] = q /\ local'[t] = r
  BY <1>1, <1>3, GotoFacts
<1>5. CallOK(t)'
  BY <1>3, <1>4 DEF CallOK
<1> QED  BY <1>2, <1>3, <1>5, IdleFacts, QuietStep DEF Pcs

\* A call returns without any stack in its hands.
LEMMA ReturnsEmpty ==
  ASSUME IInv, NEW t \in Callers, Return(t), local[t].stacks = {},
         UNCHANGED <<slotVars, table, retired, heap, ghosts>>
  PROVE  IInv'
<1>1. Goto(t, "idle", Idle) /\ TypeOK
  BY DEF Return, IInv
<1>2. at'[t] = "idle" /\ local'[t] = Idle
  BY <1>1, GotoFacts
<1>3. CallOK(t)'
  BY <1>2, IdleFacts DEF CallOK
<1> QED  BY <1>1, <1>3, IdleFacts, QuietStep DEF Pcs

\* The actions that move no stack and do not touch the table.
LEMMA QuietActions ==
  ASSUME IInv, NEW t \in Callers,
         \/ \E plan \in Plans : BeginPlan(t, plan)
         \/ PreallocateFails(t) \/ ReservePlanRefused(t) \/ ReadStackSize(t) \/ SpawnTooLarge(t)
         \/ SpawnAllocateFails(t) \/ SpawnRefused(t) \/ Identify(t)
  PROVE  IInv'
<1>1. TypeOK /\ CallOK(t) /\ TokenInv /\ local[t] \in LocalType
  BY Types DEF IInv, TypeParts
<1>2. CASE \E plan \in Plans : BeginPlan(t, plan)
  <2>1. PICK plan \in Plans : BeginPlan(t, plan)
    BY <1>2
  <2> DEFINE l == [Idle EXCEPT !.plan = plan]
  <2>2. /\ at[t] = "idle" /\ Goto(t, "preallocate", l)
        /\ UNCHANGED <<slotVars, table, retired, heap, ghosts>>
    BY <2>1 DEF BeginPlan, CanCall
  <2>3. l \in LocalType /\ l.plan \in Plans /\ l.stacks = {} /\ l.token = NONE
    BY IdleFacts
  <2> HIDE DEF l
  <2>4. at'[t] = "preallocate" /\ local'[t] = l
    BY <1>1, <2>2, GotoFacts
  <2>5. CallOK(t)'
    BY <2>3, <2>4 DEF CallOK
  <2>6. local[t].stacks = {}
    BY <1>1, <2>2 DEF CallOK
  <2> QED  BY <2>2, <2>3, <2>5, <2>6, QuietStep DEF Pcs
<1>3. CASE PreallocateFails(t) \/ ReservePlanRefused(t) \/ SpawnRefused(t)
  BY <1>3, GiveBack DEF PreallocateFails, ReservePlanRefused, SpawnRefused
<1>4. CASE SpawnTooLarge(t) \/ SpawnAllocateFails(t) \/ Identify(t)
  <2>1. local[t].stacks = {}
    BY <1>1, <1>4 DEF CallOK, SpawnTooLarge, SpawnAllocateFails, Identify
  <2> QED  BY <2>1, <1>4, ReturnsEmpty DEF SpawnTooLarge, SpawnAllocateFails, Identify
<1>5. CASE ReadStackSize(t)
  <2> DEFINE pc == IF HasStacks(local[t].token) THEN "commit" ELSE "allocate"
             refused == local[t].token # NONE /\ ~Resolves(local[t].token)
  <2>1. /\ at[t] = "size" /\ UNCHANGED <<slotVars, table, retired, heap, ghosts>>
        /\ IF refused THEN Return(t) ELSE Goto(t, pc, local[t])
    BY <1>5 DEF ReadStackSize
  <2>2. local[t].stacks = {}
    BY <1>1, <2>1 DEF CallOK
  <2>3. CASE refused
    BY <2>1, <2>2, <2>3, ReturnsEmpty
  <2>4. CASE ~refused
    <3>1. Goto(t, pc, local[t])
      BY <2>1, <2>4
    <3>2. at'[t] = pc /\ local'[t] = local[t] /\ UNCHANGED entries
      BY <1>1, <2>1, <3>1, GotoFacts DEF table
    <3>3. CallOK(t)'
      <4>1. Resolves(local[t].token)' <=> Resolves(local[t].token)
        BY <3>2 DEF Resolves
      <4>2. ~Resolves(NONE)
        BY DEF Resolves
      <4> QED  BY <2>2, <3>2, <4>1, <4>2 DEF CallOK, HasStacks
    <3>4. local[t].token \in tokens \cup {NONE}
      BY <1>1 DEF TokenInv
    <3> QED  BY <1>1, <2>1, <3>1, <3>3, <3>4, QuietStep DEF Pcs
  <2> QED  BY <2>3, <2>4
<1> QED  BY <1>2, <1>3, <1>4, <1>5
-----------------------------------------------------------------------------
(* The allocator and the list of retired stacks. *)

\* A block that the allocator hands out has no owner.
LEMMA TakeBlock ==
  ASSUME IInv, NEW t \in Callers, NEW pc \in Pcs, NEW l \in LocalType, Goto(t, pc, l),
         NEW s \in Stacks, s \notin heap, heap' = heap \cup {s},
         l.stacks = local[t].stacks \cup {s}, l.token \in tokens \cup {NONE}, CallOK(t)',
         UNCHANGED <<slotVars, table, retired, ghosts>>
  PROVE  IInv'
<1>1. TypeOK /\ OwnerInv /\ UNCHANGED <<slotVars, table, ghosts>>
  BY DEF IInv
<1>2. UNCHANGED <<tasks, entries, retired>> /\ heap' \subseteq Stacks /\ retired' \subseteq Stacks
  BY <1>1, Types DEF slotVars, table, TypeParts
<1>3. /\ local'[t].stacks = local[t].stacks \cup {s}
      /\ \A u \in Callers : u # t => local'[u].stacks = local[u].stacks
  BY <1>1, GotoFacts
<1>4. s # NULL /\ s \notin retired /\ (\A i \in Slots : tasks[i].stack # s)
      /\ (\A k \in Entries : s \notin entries[k].stacks) /\ \A u \in Callers : s \notin local[u].stacks
  BY <1>1, StacksAssumption DEF OwnerInv
<1>5. OwnerInv'
  BY <1>1, <1>2, <1>3, <1>4 DEF OwnerInv
<1> QED  BY <1>1, <1>2, <1>5, CallStep

\* One more stack of a plan is allocated.
LEMMA PreallocateInv ==
  ASSUME IInv, NEW t \in Callers, NEW s \in Stacks, Preallocate(t, s)
  PROVE  IInv'
<1> DEFINE l == [local[t] EXCEPT !.stacks = local[t].stacks \cup {s}]
           pc == IF Cardinality(l.stacks) = SumOf(l.plan) THEN "reserve" ELSE "preallocate"
<1>1. /\ at[t] = "preallocate" /\ s \notin heap /\ heap' = heap \cup {s} /\ Goto(t, pc, l)
      /\ UNCHANGED <<slotVars, table, retired, ghosts>>
  BY DEF Preallocate
<1>2. TypeOK /\ CallOK(t) /\ TokenInv /\ local[t] \in LocalType
  BY Types DEF IInv, TypeParts
<1>3. l \in LocalType /\ l.stacks = local[t].stacks \cup {s} /\ l.token = local[t].token
      /\ l.plan = local[t].plan
  <2>1. local[t].stacks \cup {s} \in SUBSET Stacks
    BY <1>2 DEF LocalType
  <2> QED  BY <1>2, <2>1, SetStacks
<1>4. pc \in {"reserve", "preallocate"}
  OBVIOUS
<1> HIDE DEF l, pc
<1>5. at'[t] = pc /\ local'[t] = l
  BY <1>1, <1>2, GotoFacts
<1>6. CallOK(t)'
  BY <1>1, <1>2, <1>3, <1>4, <1>5 DEF CallOK
<1>7. l.token \in tokens \cup {NONE}
  BY <1>2, <1>3 DEF TokenInv
<1> QED  BY <1>1, <1>3, <1>4, <1>6, <1>7, TakeBlock DEF Pcs

\* A spawn whose reservation has no stacks, if it has one, allocates.
LEMMA SpawnAllocateInv ==
  ASSUME IInv, NEW t \in Callers, NEW s \in Stacks, SpawnAllocate(t, s)
  PROVE  IInv'
<1> DEFINE l == [local[t] EXCEPT !.stacks = {s}]
<1>1. /\ at[t] = "allocate" /\ s \notin heap /\ heap' = heap \cup {s} /\ Goto(t, "commit", l)
      /\ UNCHANGED <<slotVars, table, retired, ghosts>>
  BY DEF SpawnAllocate
<1>2. TypeOK /\ CallOK(t) /\ TokenInv /\ local[t] \in LocalType
  BY Types DEF IInv, TypeParts
<1>3. l \in LocalType /\ l.stacks = {s} /\ l.token = local[t].token
  BY <1>2, SetStacks
<1> HIDE DEF l
<1>4. at'[t] = "commit" /\ local'[t] = l /\ UNCHANGED entries
  BY <1>1, <1>2, GotoFacts DEF table
<1>5. CallOK(t)'
  <2>1. Resolves(local[t].token)' <=> Resolves(local[t].token)
    BY <1>3, <1>4 DEF Resolves
  <2>2. Resolves(local[t].token) => ~entries[local[t].token[1]].sized
    BY <1>1, <1>2 DEF CallOK
  <2> QED  BY <1>3, <1>4, <2>1, <2>2 DEF CallOK
<1>6. l.token \in tokens \cup {NONE} /\ l.stacks = local[t].stacks \cup {s}
  BY <1>1, <1>2, <1>3 DEF TokenInv, CallOK
<1> QED  BY <1>1, <1>3, <1>5, <1>6, TakeBlock DEF Pcs

\* A block that is freed had the call as its only owner.
LEMMA DeallocateInv ==
  ASSUME IInv, NEW t \in Callers, NEW s \in Stacks, Deallocate(t, s)
  PROVE  IInv'
<1>1. TypeOK /\ TokenInv /\ OwnerInv /\ local[t] \in LocalType
  BY Types DEF IInv, TypeParts
<1>2. /\ s \in local[t].stacks /\ heap' = heap \ {s}
      /\ UNCHANGED <<slotVars, table, retired, ghosts>>
  BY DEF Deallocate
<1>3. \E pc \in {"free", "idle", "size"}, l \in LocalType :
        /\ Goto(t, pc, l) /\ l.stacks = local[t].stacks \ {s} /\ l.token \in tokens \cup {NONE}
        /\ pc # "free" => l.stacks = {}
  <2>1. CASE local[t].stacks # {s}
    <3> DEFINE l == [local[t] EXCEPT !.stacks = local[t].stacks \ {s}]
    <3>1. local[t].stacks \ {s} \in SUBSET Stacks
      BY <1>1 DEF LocalType
    <3>2. l \in LocalType /\ l.stacks = local[t].stacks \ {s} /\ l.token = local[t].token
      BY <1>1, <3>1, SetStacks
    <3>3. Goto(t, "free", l)
      BY <2>1 DEF Deallocate
    <3> HIDE DEF l
    <3> QED  BY <1>1, <3>2, <3>3 DEF TokenInv
  <2>2. CASE local[t].stacks = {s} /\ local[t].next = "idle"
    <3>1. Goto(t, "idle", Idle)
      BY <2>2 DEF Deallocate, Return
    <3> QED  BY <2>2, <3>1, IdleFacts
  <2>3. CASE local[t].stacks = {s} /\ local[t].next # "idle"
    <3> DEFINE m == [local[t] EXCEPT !.stacks = {}]
               l == [m EXCEPT !.next = "idle"]
    <3>1. m \in LocalType /\ m.stacks = {} /\ m.token = local[t].token
      BY <1>1, SetStacks
    <3>2. Goto(t, local[t].next, l) /\ local[t].next = "size"
      BY <1>1, <2>3 DEF Deallocate, LocalType
    <3> HIDE DEF m
    <3>3. l \in LocalType /\ l.stacks = {} /\ l.token = local[t].token
      BY <3>1, SetNext
    <3> HIDE DEF l
    <3> QED  BY <1>1, <2>3, <3>2, <3>3 DEF TokenInv
  <2> QED  BY <2>1, <2>2, <2>3
<1>4. PICK pc \in {"free", "idle", "size"}, l \in LocalType :
        /\ Goto(t, pc, l) /\ l.stacks = local[t].stacks \ {s} /\ l.token \in tokens \cup {NONE}
        /\ pc # "free" => l.stacks = {}
  BY <1>3
<1>5. /\ at'[t] = pc /\ local'[t] = l /\ local'[t].stacks = local[t].stacks \ {s}
      /\ \A u \in Callers : u # t => local'[u].stacks = local[u].stacks
  BY <1>1, <1>4, GotoFacts
<1>6. CallOK(t)'
  BY <1>4, <1>5 DEF CallOK
<1>7. /\ UNCHANGED <<tasks, entries, retired>> /\ heap' \subseteq Stacks /\ retired' \subseteq Stacks
      /\ UNCHANGED <<slotVars, table, ghosts>>
  BY <1>1, <1>2, Types DEF slotVars, table, TypeParts
<1>8. /\ s # NULL /\ s \notin retired /\ (\A i \in Slots : tasks[i].stack # s)
      /\ (\A k \in Entries : s \notin entries[k].stacks)
      /\ \A u \in Callers : u # t => s \notin local[u].stacks
  BY <1>1, <1>2, StacksAssumption DEF OwnerInv
<1>9. OwnerInv'
  BY <1>1, <1>2, <1>5, <1>7, <1>8 DEF OwnerInv
<1> QED  BY <1>4, <1>6, <1>7, <1>9, CallStep DEF Pcs

\* reclaim_retired_stacks takes over the whole list.
LEMMA ReclaimStep ==
  ASSUME IInv, NEW t \in Callers, NEW pc \in {"idle", "size"}, NEW l \in LocalType,
         at[t] = "idle", FreeThen(t, retired, pc, l), retired' = {},
         l.token \in tokens \cup {NONE}, UNCHANGED <<slotVars, table, heap, ghosts>>
  PROVE  IInv'
<1>1. TypeOK /\ OwnerInv /\ retired \in SUBSET Stacks /\ local[t].stacks = {}
  BY Types DEF IInv, TypeParts, CallOK
<1>2. PICK r \in LocalType :
        /\ r.stacks = retired /\ r.token = l.token
        /\ Goto(t, "free", r) \/ (retired = {} /\ Goto(t, pc, r))
  <2> SUFFICES ASSUME NEW X \in SUBSET Stacks, X = retired, FreeThen(t, X, pc, l)
               PROVE  \E r \in LocalType :
                 /\ r.stacks = X /\ r.token = l.token
                 /\ Goto(t, "free", r) \/ (X = {} /\ Goto(t, pc, r))
    BY <1>1
  <2>1. \E r \in LocalType :
          /\ r.stacks = X /\ r.token = l.token
          /\ Goto(t, "free", r) \/ (X = {} /\ Goto(t, pc, r))
    <3>1. FreeThen(t, X, pc, l) /\ X \in SUBSET Stacks /\ l \in LocalType /\ pc \in {"idle", "size"}
      OBVIOUS
    <3>2. CASE pc = "idle"
      BY <3>1, <3>2, FreeThenFacts
    <3>3. CASE pc = "size"
      BY <3>1, <3>3, FreeThenFacts
    <3> QED  BY <3>1, <3>2, <3>3
  <2> QED  BY <2>1
<1>3. PICK q \in {"free", "idle", "size"} : Goto(t, q, r) /\ (q # "free" => r.stacks = {})
  BY <1>2
<1>4. /\ at'[t] = q /\ local'[t] = r /\ local'[t].stacks = retired
      /\ \A u \in Callers : u # t => local'[u].stacks = local[u].stacks
  BY <1>1, <1>2, <1>3, GotoFacts
<1>5. CallOK(t)'
  BY <1>3, <1>4 DEF CallOK
<1>6. /\ UNCHANGED <<tasks, entries, heap>> /\ heap' \subseteq Stacks /\ retired' \subseteq Stacks
      /\ UNCHANGED <<slotVars, table, ghosts>>
  BY <1>1, Types DEF slotVars, table, TypeParts
<1>7. OwnerInv'
  BY <1>1, <1>4, <1>6 DEF OwnerInv
<1> QED  BY <1>2, <1>3, <1>5, <1>6, <1>7, CallStep DEF Pcs

\* yield_now, sleep_ms and the first step of spawn.
LEMMA ReclaimActions ==
  ASSUME IInv, NEW t \in Callers,
         Yield(t) \/ \E token \in tokens \cup {NONE} : BeginSpawn(t, token)
  PROVE  IInv'
<1>1. tokens \cup {NONE} \subseteq Tokens \cup {NONE}
  BY Types DEF IInv, TypeParts
<1>2. CASE Yield(t)
  BY <1>2, ReclaimStep, IdleFacts DEF Yield, CanCall, TakeRetired
<1>3. CASE \E token \in tokens \cup {NONE} : BeginSpawn(t, token)
  <2>1. PICK token \in tokens \cup {NONE} : BeginSpawn(t, token)
    BY <1>3
  <2> DEFINE l == [Idle EXCEPT !.token = token]
  <2>2. l \in LocalType /\ l.token = token
    BY <1>1, IdleFacts
  <2>3. /\ at[t] = "idle" /\ FreeThen(t, retired, "size", l) /\ retired' = {}
        /\ UNCHANGED <<slotVars, table, heap, ghosts>>
    BY <2>1 DEF BeginSpawn, CanCall, TakeRetired
  <2> HIDE DEF l
  <2> QED  BY <2>2, <2>3, ReclaimStep
<1> QED  BY <1>2, <1>3

\* task_exit: the stack moves to the list, the slot becomes free.
LEMMA ExitInv ==
  ASSUME IInv, NEW i \in Slots, Exit(i)
  PROVE  IInv'
<1>1. /\ TypeOK /\ TokenInv /\ IdentityInv /\ OwnerInv /\ PromisesBacked /\ CallOK(i)
      /\ i \in Callers
  BY DEF IInv, Callers
<1>2. TypeParts /\ IsFiniteSet(Slots) /\ MAIN # i
  BY <1>1, Types, SlotsAssumption
<1>3. /\ tasks[i].taken /\ tasks' = [tasks EXCEPT ![i] = EmptyTask]
      /\ retired' = retired \cup ({tasks[i].stack} \ {NULL})
      /\ ended' = ended \cup {<<i, tasks[i].generation>>}
      /\ UNCHANGED <<slotGenerations, entries, totalRemaining, heap, at, local, tokens, released>>
  BY <1>2 DEF Exit, CanCall, table
<1>4. /\ EmptyTask \in TaskType /\ ~EmptyTask.taken /\ EmptyTask.stack = NULL
      /\ EmptyTask.generation = 0
  BY DEF EmptyTask, TaskType
<1>5. /\ tasks' \in [Slots -> TaskType] /\ tasks'[i] = EmptyTask
      /\ \A j \in Slots : j # i => tasks'[j] = tasks[j]
  BY <1>2, <1>3, <1>4 DEF TypeParts
<1>6. tasks[i].stack \in Stacks \cup {NULL} /\ tasks[i].generation \in Nat
      /\ tasks[i].generation = slotGenerations[i]
  BY <1>1, <1>2, <1>3 DEF TypeParts, TaskType, IdentityInv
<1>7. TypeOK'
  <2>1. retired' \subseteq Stacks /\ ended' \subseteq Slots \X Nat
    BY <1>2, <1>3, <1>6 DEF TypeParts
  <2> QED  BY <1>2, <1>3, <1>5, <2>1, Types DEF TypeParts
<1>8. IdentityInv'
  BY <1>1, <1>2, <1>3, <1>4, <1>5, <1>6 DEF IdentityInv, TypeParts
<1>9. OwnerInv'
  <2>1. tasks[i].stack # NULL
    BY <1>1, <1>3 DEF IdentityInv
  <2>2. retired' = retired \cup {tasks[i].stack} /\ NULL \notin Stacks
    BY <1>3, <2>1, StacksAssumption
  <2>3. /\ tasks[i].stack \in heap
        /\ \A j \in Slots : j # i => tasks[j].stack # tasks[i].stack
        /\ \A k \in Entries : tasks[i].stack \notin entries[k].stacks
        /\ \A t \in Callers : tasks[i].stack \notin local[t].stacks
    BY <1>1, <2>1 DEF OwnerInv
  <2>4. /\ \A k \in Entries : NULL \notin entries[k].stacks
        /\ \A t \in Callers : NULL \notin local[t].stacks
        /\ NULL \notin retired'
    BY <1>2, <1>6, <2>1, <2>2 DEF TypeParts, EntryType, LocalType
  <2> QED  BY <1>1, <1>3, <1>4, <1>5, <2>1, <2>2, <2>3, <2>4 DEF OwnerInv
<1>10. PromisesBacked'
  <2>1. FreeSlots' = FreeSlots \cup {i}
    BY <1>3, <1>4, <1>5 DEF FreeSlots
  <2>2. IsFiniteSet(FreeSlots) /\ Cardinality(FreeSlots) \in Nat
    BY <1>2, FS_Subset, FS_CardinalityType DEF FreeSlots
  <2>3. Cardinality(FreeSlots') \in Int /\ Cardinality(FreeSlots') >= Cardinality(FreeSlots)
    BY <2>1, <2>2, FS_AddElement
  <2>4. totalRemaining' <= Cardinality(FreeSlots')
    BY <1>1, <1>2, <1>3, <2>2, <2>3 DEF PromisesBacked, TypeParts
  <2> QED  BY <1>1, <1>3, <2>4 DEF PromisesBacked
<1>11. TableStep /\ \A j \in Slots : slotGenerations'[j] >= slotGenerations[j]
  BY <1>2, <1>3 DEF TableStep, TypeParts, EntryType
<1>12. CallOK(i)' /\ local'[i].token \in tokens' \cup {NONE}
  BY <1>1, <1>3 DEF CallOK, Resolves, TokenInv
<1> QED  BY <1>1, <1>3, <1>7, <1>8, <1>9, <1>10, <1>11, <1>12, StepInv
-----------------------------------------------------------------------------
(* The reservation table. *)

Remaining == [k \in Entries |-> entries[k].remaining]

\* An inactive entry promises nothing and holds no stack.
LEMMA TableFacts ==
  ASSUME IInv
  PROVE  /\ IsFiniteSet(Entries) /\ Remaining \in [Entries -> Nat]
         /\ totalRemaining = SumOf(Remaining)
         /\ \A k \in Entries : IsFiniteSet(entries[k].stacks)
         /\ \A k \in Entries : ~entries[k].active => entries[k].remaining = 0 /\ entries[k].stacks = {}
<1>1. TypeParts /\ PromisesBacked
  BY Types DEF IInv
<1>2. IsFiniteSet(Entries)
  BY TableSizeAssumption, FS_Interval DEF Entries
<1>3. Remaining \in [Entries -> Nat] /\ totalRemaining = SumOf(Remaining)
  BY <1>1 DEF Remaining, TypeParts, EntryType, PromisesBacked
<1>4. ASSUME NEW k \in Entries  PROVE IsFiniteSet(entries[k].stacks)
  <2>1. entries[k].stacks \in SUBSET Stacks
    BY <1>1 DEF TypeParts, EntryType
  <2> QED  BY <2>1, StacksAssumption, FS_Subset
<1>5. ASSUME NEW k \in Entries, ~entries[k].active
      PROVE  entries[k].remaining = 0 /\ entries[k].stacks = {}
  <2>1. entries[k].remaining = 0 /\ Cardinality(entries[k].stacks) = 0
    BY <1>1, <1>5 DEF PromisesBacked
  <2> QED  BY <2>1, <1>4, FS_EmptySet
<1> QED  BY <1>2, <1>3, <1>4, <1>5

\* release_task_reservation hands the entry's stacks to the call.
LEMMA ReleaseInv ==
  ASSUME IInv, NEW t \in Callers, NEW token \in tokens, Release(t, token)
  PROVE  IInv'
<1> DEFINE k == token[1]
           e == entries[k]
           new == [EmptyEntry EXCEPT !.generation = entries[k].generation]
<1>1. /\ TypeOK /\ TypeParts /\ TokenInv /\ IdentityInv /\ OwnerInv /\ PromisesBacked /\ CallOK(t)
  BY Types DEF IInv
<1>2. /\ at[t] = "idle" /\ Resolves(token) /\ totalRemaining' = totalRemaining - entries[k].remaining
      /\ entries' = [entries EXCEPT ![k] = new] /\ FreeThen(t, entries[k].stacks, "idle", Idle)
      /\ released' = released \cup {token}
      /\ UNCHANGED <<tasks, slotGenerations, retired, heap, tokens, ended>>
  BY DEF Release, CanCall, slotVars
<1>3. /\ k \in Entries /\ entries[k] \in EntryType /\ entries[k].generation = token[2]
  BY <1>1, <1>2, TokenFacts DEF TypeParts, Resolves
<1>4. /\ new \in EntryType /\ ~new.active /\ new.generation = entries[k].generation
      /\ new.remaining = 0 /\ ~new.sized /\ new.stacks = {}
  <2>1. /\ EmptyEntry \in EntryType /\ EmptyEntry.active = FALSE /\ EmptyEntry.sized = FALSE
        /\ EmptyEntry.remaining = 0 /\ EmptyEntry.stacks = {}
    BY DEF EmptyEntry, EntryType
  <2>2. entries[k].generation \in Nat
    BY <1>3 DEF EntryType
  <2>3. SUFFICES ASSUME NEW x, x = EmptyEntry, NEW g \in Nat, g = entries[k].generation
                 PROVE  LET n == [x EXCEPT !.generation = g] IN
                        /\ n \in EntryType /\ ~n.active /\ n.generation = g
                        /\ n.remaining = 0 /\ ~n.sized /\ n.stacks = {}
    BY <2>2
  <2> QED  BY <2>1, <2>3 DEF EntryType
<1> HIDE DEF new
<1>5. /\ entries' \in [Entries -> EntryType] /\ entries'[k] = new
      /\ \A m \in Entries : m # k => entries'[m] = entries[m]
  BY <1>1, <1>2, <1>3, <1>4 DEF TypeParts
<1>6. PICK r \in LocalType :
        /\ r.stacks = entries[k].stacks /\ r.token = NONE
        /\ Goto(t, "free", r) \/ (entries[k].stacks = {} /\ Goto(t, "idle", r))
  <2>1. entries[k].stacks \in SUBSET Stacks
    BY <1>3 DEF EntryType
  <2>2. SUFFICES ASSUME NEW X \in SUBSET Stacks, X = entries[k].stacks, FreeThen(t, X, "idle", Idle)
               PROVE  \E r \in LocalType :
                 /\ r.stacks = X /\ r.token = NONE
                 /\ Goto(t, "free", r) \/ (X = {} /\ Goto(t, "idle", r))
    BY <1>2, <2>1
  <2> QED  BY <2>2, FreeThenIdle
<1>7. PICK q \in {"free", "idle"} : Goto(t, q, r) /\ (q # "free" => r.stacks = {})
  BY <1>6
<1>8. /\ at'[t] = q /\ local'[t] = r /\ local'[t].stacks = entries[k].stacks
      /\ \A u \in Callers : u # t => at'[u] = at[u] /\ local'[u] = local[u]
      /\ at' \in [Callers -> Pcs] /\ local' \in [Callers -> LocalType]
  BY <1>1, <1>6, <1>7, GotoFacts DEF Pcs
<1>9. PromisesBacked' /\ totalRemaining' \in Nat
  <2>1. SumOf(Remaining') = SumOf(Remaining) - Remaining[k] /\ Remaining[k] <= SumOf(Remaining)
    <3>1. /\ Remaining' \in [Entries -> Nat] /\ Remaining'[k] = 0
          /\ \A m \in Entries : m # k => Remaining'[m] = Remaining[m]
      BY <1>3, <1>4, <1>5 DEF Remaining, EntryType
    <3> SUFFICES ASSUME NEW f \in [Entries -> Nat], NEW g \in [Entries -> Nat], g[k] = 0,
                        \A m \in Entries : m # k => g[m] = f[m]
                 PROVE  SumOf(g) = SumOf(f) - f[k] /\ f[k] <= SumOf(f)
      BY <3>1, TableFacts
    <3> HIDE DEF k
    <3> QED  BY <1>3, TableFacts, SumClear
  <2>2. Remaining[k] = entries[k].remaining /\ entries[k].remaining \in Nat
    BY <1>3 DEF Remaining, EntryType
  <2>3. totalRemaining = SumOf(Remaining) /\ totalRemaining \in Nat
    BY <1>1, TableFacts DEF TypeParts
  <2>4. totalRemaining' = SumOf(Remaining') /\ totalRemaining' \in Nat
    BY <1>2, <2>1, <2>2, <2>3
  <2>5. totalRemaining' <= Cardinality(FreeSlots')
    <3>1. FreeSlots' = FreeSlots /\ Cardinality(FreeSlots) \in Nat
      BY <1>2, SlotsAssumption, FS_Subset, FS_CardinalityType DEF FreeSlots
    <3> QED  BY <1>1, <1>2, <2>2, <2>3, <3>1 DEF PromisesBacked
  <2>6. \A m \in Entries :
          /\ ~entries'[m].active => entries'[m].remaining = 0
          /\ Cardinality(entries'[m].stacks) =
               (IF entries'[m].sized THEN entries'[m].remaining ELSE 0)
    BY <1>1, <1>4, <1>5, FS_EmptySet DEF PromisesBacked
  <2> QED  BY <2>4, <2>5, <2>6 DEF PromisesBacked, Remaining
<1>10. TypeOK'
  <2>1. released' \subseteq tokens'
    BY <1>1, <1>2 DEF TypeParts
  <2> QED  BY <1>1, <1>2, <1>5, <1>8, <1>9, <2>1, Types DEF TypeParts
<1>11. TableStep /\ \A i \in Slots : slotGenerations'[i] >= slotGenerations[i]
  BY <1>1, <1>2, <1>3, <1>4, <1>5 DEF TableStep, TypeParts, EntryType
<1>12. CallOK(t)' /\ local'[t].token \in tokens' \cup {NONE}
  BY <1>6, <1>7, <1>8, IdleFacts DEF CallOK
<1>13. \A x \in released' \ released : ~Resolves(x)'
  BY <1>2, <1>4, <1>5 DEF Resolves
<1>14. IdentityInv'
  BY <1>1, <1>2 DEF IdentityInv
<1>15. OwnerInv'
  <2>1. local[t].stacks = {}
    BY <1>1, <1>2 DEF CallOK
  <2>2. /\ local'[t].stacks = entries[k].stacks /\ entries'[k].stacks = {}
        /\ \A u \in Callers : u # t => local'[u].stacks = local[u].stacks
        /\ \A m \in Entries : m # k => entries'[m].stacks = entries[m].stacks
    BY <1>4, <1>5, <1>8
  <2> HIDE DEF k
  <2> QED  BY <1>1, <1>2, <1>3, <2>1, <2>2 DEF OwnerInv
<1> QED  BY <1>1, <1>2, <1>8, <1>9, <1>10, <1>11, <1>12, <1>13, <1>14, <1>15, StepInv

\* reserve and reserve_plan_with_stacks fill one inactive entry for each group
\* of the plan, and leave the others alone.
LEMMA PublishFacts ==
  ASSUME IInv, NEW plan \in Seq(Nat \ {0}), NEW sized \in BOOLEAN,
         NEW given \in [DOMAIN plan -> SUBSET Stacks],
         Len(plan) <= Cardinality(FreeEntries), Publish(plan, sized, given)
  PROVE  /\ \A j \in DOMAIN plan :
              /\ Inactive[j] \in Entries /\ ~entries[Inactive[j]].active
              /\ \A i \in DOMAIN plan : Inactive[i] = Inactive[j] => i = j
              /\ entries'[Inactive[j]] =
                   [active |-> TRUE, generation |-> NextGeneration(Inactive[j]),
                    remaining |-> plan[j], sized |-> sized, stacks |-> given[j]]
         /\ \A k \in Entries : (\A j \in DOMAIN plan : Inactive[j] # k) => entries'[k] = entries[k]
         /\ DOMAIN entries' = Entries /\ entries' = [k \in Entries |-> entries'[k]]
         /\ totalRemaining' = totalRemaining + SumOf(plan)
         /\ tokens' = tokens \cup
              {<<k, NextGeneration(k)>> : k \in {Inactive[j] : j \in DOMAIN plan}}
<1> DEFINE J == DOMAIN plan
           group(k) == {j \in J : Inactive[j] = k}
           taken == {Inactive[j] : j \in J}
           rec(k, j) == [active |-> TRUE, generation |-> NextGeneration(k),
                         remaining |-> plan[j], sized |-> sized, stacks |-> given[j]]
<1>1. /\ entries' = [k \in Entries |-> IF k \notin taken THEN entries[k]
                                       ELSE rec(k, CHOOSE g \in group(k) : TRUE)]
      /\ totalRemaining' = totalRemaining + SumOf(plan)
      /\ tokens' = tokens \cup {<<k, NextGeneration(k)>> : k \in taken}
  BY DEF Publish
<1>2. J = 1..Len(plan) /\ Len(plan) \in Nat
  OBVIOUS
<1>3. Cardinality(FreeEntries) \in Nat
  <2>1. FreeEntries \in SUBSET Entries /\ IsFiniteSet(Entries)
    BY TableFacts DEF FreeEntries
  <2> QED  BY <2>1, FS_Subset, FS_CardinalityType
<1>4. J \subseteq 1..Cardinality(FreeEntries)
  BY <1>2, <1>3
<1>5. \A j \in J : /\ Inactive[j] \in Entries /\ ~entries[Inactive[j]].active
                   /\ \A i \in J : Inactive[i] = Inactive[j] => i = j
  BY <1>4, InactiveFacts DEF FreeEntries
<1>6. ASSUME NEW j \in J  PROVE entries'[Inactive[j]] = rec(Inactive[j], j)
  <2>1. group(Inactive[j]) = {j}
    BY <1>5
  <2>2. (CHOOSE g \in group(Inactive[j]) : TRUE) = j
    BY <2>1
  <2>3. Inactive[j] \in taken /\ Inactive[j] \in Entries
    BY <1>5
  <2> HIDE DEF group, rec, taken
  <2> QED  BY <1>1, <2>2, <2>3
<1>7. \A k \in Entries : (\A j \in J : Inactive[j] # k) => entries'[k] = entries[k]
  <2>1. \A k : (\A j \in J : Inactive[j] # k) => k \notin taken
    OBVIOUS
  <2> HIDE DEF taken, rec, group
  <2> QED  BY <1>1, <2>1
<1>8. DOMAIN entries' = Entries /\ entries' = [k \in Entries |-> entries'[k]]
  <2> HIDE DEF taken, rec, group
  <2> QED  BY <1>1
<1> QED  BY <1>1, <1>5, <1>6, <1>7, <1>8

\* The parts of the invariant that a reservation touches, but the owners.
Published(plan, given) ==
  /\ entries' \in [Entries -> EntryType]
  /\ \A k \in Entries : \/ entries'[k].stacks = entries[k].stacks
                        \/ \E j \in DOMAIN plan : k = Inactive[j]
  /\ \A j \in DOMAIN plan :
       /\ Inactive[j] \in Entries
       /\ entries[Inactive[j]].stacks = {} /\ entries'[Inactive[j]].stacks = given[j]
       /\ \A i \in DOMAIN plan : Inactive[i] = Inactive[j] => i = j
  /\ TableStep
  /\ tokens \subseteq tokens' /\ tokens' \subseteq Tokens
  /\ \A token \in tokens' \ tokens : token[2] <= entries'[token[1]].generation
  /\ totalRemaining' \in Nat /\ PromisesBacked'

\* They hold after an admitted reservation.
LEMMA PublishStep ==
  ASSUME IInv, NEW plan \in Seq(Nat \ {0}), NEW sized \in BOOLEAN,
         NEW given \in [DOMAIN plan -> SUBSET Stacks],
         \A j \in DOMAIN plan : Cardinality(given[j]) = IF sized THEN plan[j] ELSE 0,
         Admissible(plan), Publish(plan, sized, given), UNCHANGED tasks
  PROVE  Published(plan, given)
<1> DEFINE J == DOMAIN plan
           e(j) == Inactive[j]
<1>1. TypeParts /\ PromisesBacked
  BY Types DEF IInv
<1>2. SumOf(plan) <= Available /\ Len(plan) <= Cardinality(FreeEntries)
  BY DEF Admissible
<1>3. /\ \A j \in J : /\ e(j) \in Entries /\ ~entries[e(j)].active
                      /\ \A i \in J : e(i) = e(j) => i = j
                      /\ entries'[e(j)] =
                           [active |-> TRUE, generation |-> NextGeneration(e(j)),
                            remaining |-> plan[j], sized |-> sized, stacks |-> given[j]]
      /\ \A k \in Entries : (\A j \in J : e(j) # k) => entries'[k] = entries[k]
      /\ DOMAIN entries' = Entries /\ entries' = [k \in Entries |-> entries'[k]]
      /\ totalRemaining' = totalRemaining + SumOf(plan)
      /\ tokens' = tokens \cup {<<k, NextGeneration(k)>> : k \in {e(j) : j \in J}}
  BY <1>2, PublishFacts
<1>4. /\ J = 1..Len(plan) /\ Len(plan) \in Nat /\ plan \in [J -> Nat] /\ IsFiniteSet(J)
  <2>1. J = 1..Len(plan) /\ Len(plan) \in Nat /\ plan \in [J -> Nat]
    OBVIOUS
  <2> HIDE DEF J
  <2> QED  BY <2>1, FS_Interval
<1> HIDE DEF e
<1>5. \A k \in Entries : NextGeneration(k) \in Nat \ {0} /\ NextGeneration(k) > entries[k].generation
                         /\ entries[k].generation \in Nat
  BY <1>1 DEF NextGeneration, TypeParts, EntryType
<1>6. ASSUME NEW j \in J
      PROVE  /\ entries'[e(j)].active = TRUE /\ entries'[e(j)].generation = NextGeneration(e(j))
             /\ entries'[e(j)].remaining = plan[j] /\ entries'[e(j)].sized = sized
             /\ entries'[e(j)].stacks = given[j] /\ entries'[e(j)] \in EntryType
             /\ given[j] \in SUBSET Stacks /\ plan[j] \in Nat
  <2>1. e(j) \in Entries /\ given[j] \in SUBSET Stacks /\ plan[j] \in Nat
        /\ NextGeneration(e(j)) \in Nat
    BY <1>3, <1>4, <1>5
  <2>2. entries'[e(j)] =
           [active |-> TRUE, generation |-> NextGeneration(e(j)),
            remaining |-> plan[j], sized |-> sized, stacks |-> given[j]]
    BY <1>3
  <2> HIDE DEF J
  <2> QED  BY <2>1, <2>2 DEF EntryType
<1> HIDE DEF J
<1>7. entries' \in [Entries -> EntryType]
  <2>1. \A k \in Entries : entries'[k] \in EntryType
    <3> TAKE k \in Entries
    <3>1. CASE \A j \in J : e(j) # k
      BY <1>1, <1>3, <3>1 DEF TypeParts
    <3>2. CASE \E j \in J : e(j) = k
      BY <1>6, <3>2
    <3> QED  BY <3>1, <3>2
  <2> QED  BY <1>3, <2>1
<1>8. TableStep
  <2> SUFFICES ASSUME NEW k \in Entries
               PROVE  /\ entries'[k].generation >= entries[k].generation
                      /\ entries'[k].active /\ entries'[k].generation = entries[k].generation =>
                           entries[k].active /\ (entries'[k].sized <=> entries[k].sized)
    BY DEF TableStep
  <2>1. CASE \A j \in J : e(j) # k
    <3>1. entries'[k] = entries[k] /\ entries[k].generation \in Nat
      BY <1>3, <1>5, <2>1
    <3> QED  BY <3>1
  <2>2. CASE \E j \in J : e(j) = k
    <3>1. entries'[k].generation = NextGeneration(k)
      BY <1>6, <2>2
    <3>2. entries[k].generation \in Nat /\ NextGeneration(k) \in Nat
          /\ NextGeneration(k) > entries[k].generation
      BY <1>5
    <3> QED  BY <3>1, <3>2
  <2> QED  BY <2>1, <2>2
<1>9. /\ tokens \subseteq tokens' /\ tokens' \subseteq Tokens
      /\ \A token \in tokens' \ tokens : token[2] <= entries'[token[1]].generation
  <2>1. ASSUME NEW token \in tokens', token \notin tokens
        PROVE  token \in Tokens /\ token[2] <= entries'[token[1]].generation
    <3>1. PICK j \in J : token = <<e(j), NextGeneration(e(j))>>
      BY <1>3, <2>1
    <3>2. e(j) \in Entries /\ NextGeneration(e(j)) \in Nat \ {0}
          /\ entries'[e(j)].generation = NextGeneration(e(j))
      BY <1>3, <1>5, <1>6
    <3> QED  BY <3>1, <3>2 DEF Tokens
  <2> QED  BY <1>1, <1>3, <2>1 DEF TypeParts
<1>10. PromisesBacked' /\ totalRemaining' \in Nat
  <2>1. \A j \in J : entries[e(j)].remaining = 0
    BY <1>3, TableFacts
  <2>2. SumOf(Remaining') = SumOf(Remaining) + SumOf(plan)
    <3>1. /\ Remaining' \in [Entries -> Nat]
          /\ \A j \in J : Remaining[e(j)] = 0 /\ Remaining'[e(j)] = plan[j]
          /\ \A k \in Entries : (\A j \in J : e(j) # k) => Remaining'[k] = Remaining[k]
      BY <1>3, <1>6, <1>7, <2>1 DEF Remaining, EntryType
    <3>2. SUFFICES ASSUME NEW f \in [Entries -> Nat], NEW g \in [Entries -> Nat],
                          NEW h \in [J -> Entries], \A j \in J : h[j] = e(j),
                          \A j \in J : f[e(j)] = 0 /\ g[e(j)] = plan[j],
                          \A k \in Entries : (\A j \in J : e(j) # k) => g[k] = f[k]
                   PROVE  SumOf(g) = SumOf(f) + SumOf(plan)
      <4>1. [j \in J |-> e(j)] \in [J -> Entries]
        BY <1>3
      <4>2. Remaining \in [Entries -> Nat]
        BY TableFacts
      <4> QED  BY <3>1, <4>1, <4>2
    <3>3. IsFiniteSet(Entries)
      BY TableFacts
    <3>4. \A i, j \in J : h[i] = h[j] => i = j
      <4>1. \A i, j \in J : e(i) = e(j) => i = j
        BY <1>3
      <4> QED  BY <3>2, <4>1
    <3>5. \A j \in J : f[h[j]] = 0 /\ g[h[j]] = plan[j]
      BY <3>2
    <3>6. \A k \in Entries : (\A j \in J : h[j] # k) => g[k] = f[k]
      BY <3>2
    <3>7. SUFFICES ASSUME NEW p \in [J -> Nat], p = plan  PROVE SumOf(g) = SumOf(f) + SumOf(p)
      BY <1>4
    <3>8. \A j \in J : f[h[j]] = 0 /\ g[h[j]] = p[j]
      BY <3>5, <3>7
    <3>9. IsFiniteSet(J)
      BY <1>4
    <3>10. Placed(Entries, J, f, g, p, h)
      BY <3>3, <3>4, <3>6, <3>8, <3>9 DEF Placed
    <3> QED  BY <3>10, SumAdd
  <2>3. totalRemaining = SumOf(Remaining) /\ totalRemaining \in Nat /\ SumOf(plan) \in Nat
    BY <1>1, <1>4, TableFacts, TasksFacts DEF TypeParts
  <2>4. totalRemaining' = SumOf(Remaining') /\ totalRemaining' \in Nat
    BY <1>3, <2>2, <2>3
  <2>5. totalRemaining' <= Cardinality(FreeSlots')
    <3>1. FreeSlots' = FreeSlots /\ Cardinality(FreeSlots) \in Nat
      BY SlotsAssumption, FS_Subset, FS_CardinalityType DEF FreeSlots
    <3> QED  BY <1>2, <1>3, <2>3, <3>1 DEF Available
  <2>6. \A k \in Entries :
          /\ ~entries'[k].active => entries'[k].remaining = 0
          /\ Cardinality(entries'[k].stacks) =
               (IF entries'[k].sized THEN entries'[k].remaining ELSE 0)
    <3> TAKE k \in Entries
    <3>1. CASE \A j \in J : e(j) # k
      BY <1>1, <1>3, <3>1 DEF PromisesBacked
    <3>2. CASE \E j \in J : e(j) = k
      BY <1>6, <3>2 DEF J
    <3> QED  BY <3>1, <3>2
  <2> QED  BY <2>4, <2>5, <2>6 DEF PromisesBacked, Remaining
<1>11. /\ \A k \in Entries : entries'[k].stacks = entries[k].stacks \/ \E j \in J : k = e(j)
       /\ \A j \in J : /\ e(j) \in Entries /\ entries[e(j)].stacks = {} /\ entries'[e(j)].stacks = given[j]
                       /\ \A i \in J : e(i) = e(j) => i = j
  BY <1>3, <1>6, TableFacts
<1> QED  BY <1>7, <1>8, <1>9, <1>10, <1>11 DEF J, e, Published

\* reserve_tasks promises slots and moves no stack.
LEMMA ReserveTasksInv ==
  ASSUME IInv, NEW t \in Callers, NEW n \in 1..Cardinality(Slots), ReserveTasks(t, n)
  PROVE  IInv'
<1> DEFINE plan == <<n>>
           given == <<{}>>
           none == FALSE
<1>1. /\ TypeOK /\ TypeParts /\ TokenInv /\ IdentityInv /\ OwnerInv /\ CallOK(t)
  BY Types DEF IInv
<1>2. /\ at[t] = "idle" /\ Admissible(plan) /\ Publish(plan, none, given)
      /\ UNCHANGED <<tasks, slotGenerations, retired, heap, at, local, released, ended>>
  BY DEF ReserveTasks, CanCall, slotVars
<1>3. /\ plan \in Seq(Nat \ {0}) /\ none \in BOOLEAN /\ given \in [DOMAIN plan -> SUBSET Stacks]
      /\ \A j \in DOMAIN plan : given[j] = {} /\ Cardinality(given[j]) = IF none THEN plan[j] ELSE 0
  <2>1. n \in Nat \ {0} /\ Cardinality({}) = 0
    BY SlotsAssumption, FS_CardinalityType, FS_EmptySet
  <2> QED  BY <2>1
<1> HIDE DEF plan, given, none
<1>4. Published(plan, given)
  BY <1>2, <1>3, PublishStep
<1>5. \A k \in Entries : entries'[k].stacks = entries[k].stacks
  BY <1>3, <1>4 DEF Published
<1>6. OwnerInv'
  BY <1>1, <1>2, <1>5 DEF OwnerInv
<1>7. TypeOK'
  <2>1. released' \subseteq tokens'
    BY <1>1, <1>2, <1>4 DEF Published, TypeParts
  <2> QED  BY <1>1, <1>2, <1>4, <2>1, Types DEF Published, TypeParts
<1>8. CallOK(t)' /\ local'[t].token \in tokens' \cup {NONE}
  BY <1>1, <1>2, <1>4 DEF Published, CallOK, TokenInv
<1>9. IdentityInv' /\ (\A i \in Slots : slotGenerations'[i] >= slotGenerations[i])
      /\ (\A u \in Callers : u # t => at'[u] = at[u] /\ local'[u] = local[u])
      /\ \A token \in released' \ released : ~Resolves(token)'
  BY <1>1, <1>2 DEF IdentityInv, TypeParts
<1> QED  BY <1>4, <1>6, <1>7, <1>8, <1>9, StepInv DEF Published

\* reserve_plan_with_stacks hands every stack of the call to one entry.
LEMMA ReservePlanInv ==
  ASSUME IInv, NEW t \in Callers, ReservePlan(t)
  PROVE  IInv'
<1>1. /\ TypeOK /\ TypeParts /\ TokenInv /\ IdentityInv /\ OwnerInv /\ CallOK(t)
  BY Types DEF IInv
<1>2. SUFFICES ASSUME NEW plan \in Plans, plan = local[t].plan,
                      NEW group \in [local[t].stacks -> DOMAIN plan],
                      NEW given, given = [j \in DOMAIN plan |-> {s \in local[t].stacks : group[s] = j}],
                      \A j \in DOMAIN given : Cardinality(given[j]) = plan[j],
                      NEW all \in BOOLEAN, all,
                      Admissible(plan), Publish(plan, all, given)
               PROVE  IInv'
  <2>1. at[t] = "reserve"
    BY DEF ReservePlan
  <2>2. local[t].plan \in Plans
    BY <1>1, <2>1 DEF CallOK
  <2>3. SUFFICES ASSUME NEW plan \in Plans, plan = local[t].plan PROVE IInv'
    BY <2>2
  <2>4. PICK group \in [local[t].stacks -> DOMAIN plan] :
          LET given == [j \in DOMAIN plan |-> {s \in local[t].stacks : group[s] = j}]
          IN /\ \A j \in DOMAIN given : Cardinality(given[j]) = plan[j]
             /\ Publish(plan, TRUE, given)
    BY <2>3 DEF ReservePlan
  <2>5. Admissible(plan)
    BY <2>3 DEF ReservePlan
  <2> QED  BY <1>2, <2>3, <2>4, <2>5
<1>3. /\ Goto(t, "idle", Idle)
      /\ UNCHANGED <<tasks, slotGenerations, retired, heap, released, ended>>
  BY DEF ReservePlan, Return, slotVars
<1>4. /\ at'[t] = "idle" /\ local'[t] = Idle
      /\ \A u \in Callers : u # t => at'[u] = at[u] /\ local'[u] = local[u]
      /\ at' \in [Callers -> Pcs] /\ local' \in [Callers -> LocalType]
  BY <1>1, <1>3, GotoFacts, IdleFacts DEF Pcs
<1>5. /\ plan \in Seq(Nat \ {0}) /\ given \in [DOMAIN plan -> SUBSET Stacks]
      /\ \A j \in DOMAIN plan : Cardinality(given[j]) = IF all THEN plan[j] ELSE 0
      /\ \A j \in DOMAIN plan : given[j] = {s \in local[t].stacks : group[s] = j}
  <2>1. local[t].stacks \subseteq Stacks
    BY <1>1 DEF TypeParts, LocalType
  <2> QED  BY <1>2, <2>1, PlansAssumption
<1>6. Published(plan, given)
  BY <1>2, <1>3, <1>5, PublishStep
<1>7. OwnerInv'
  <2>1. \A k \in Entries : \A s \in entries[k].stacks : s \in entries'[k].stacks
    <3>1. \A k \in Entries :
            (\E j \in DOMAIN plan : k = Inactive[j]) => entries[k].stacks = {}
      BY <1>6 DEF Published
    <3>2. \A k \in Entries : entries'[k].stacks = entries[k].stacks \/ entries[k].stacks = {}
      BY <1>6, <3>1 DEF Published
    <3> QED  BY <3>2
  <2>2. \A k \in Entries : \A s \in entries'[k].stacks :
          s \in entries[k].stacks \/ (s \in local[t].stacks /\ k = Inactive[group[s]])
    BY <1>5, <1>6 DEF Published
  <2>3. \A s \in local[t].stacks : \E k \in Entries : s \in entries'[k].stacks
    <3> TAKE s \in local[t].stacks
    <3>1. group[s] \in DOMAIN plan
      BY <1>2
    <3>2. s \in given[group[s]]
      BY <1>5, <3>1
    <3> QED  BY <1>6, <3>1, <3>2 DEF Published
  <2>4. \A k, m \in Entries : k # m => entries'[k].stacks \cap entries'[m].stacks = {}
    <3>1. \A k, m \in Entries : k # m => entries[k].stacks \cap entries[m].stacks = {}
      BY <1>1 DEF OwnerInv
    <3>2. \A k \in Entries : entries[k].stacks \cap local[t].stacks = {}
      BY <1>1 DEF OwnerInv
    <3> QED  BY <2>2, <3>1, <3>2
  <2>5. /\ local'[t].stacks = {}
        /\ \A u \in Callers : u # t => local'[u].stacks = local[u].stacks
    BY <1>4, IdleFacts
  <2>6. \A s \in heap' : \/ s \in retired'
                         \/ \E i \in Slots : tasks'[i].stack = s
                         \/ \E k \in Entries : s \in entries'[k].stacks
                         \/ \E u \in Callers : s \in local'[u].stacks
    BY <1>1, <1>3, <2>1, <2>3, <2>5 DEF OwnerInv
  <2>7. \A k \in Entries : \A s \in entries'[k].stacks :
          /\ s \in heap' /\ s \notin retired'
          /\ \A i \in Slots : tasks'[i].stack # s
          /\ \A u \in Callers : s \notin local'[u].stacks
    <3> TAKE k \in Entries
    <3> TAKE s \in entries'[k].stacks
    <3>1. CASE s \in entries[k].stacks
      BY <1>1, <1>3, <2>5, <3>1 DEF OwnerInv
    <3>2. CASE s \in local[t].stacks
      BY <1>1, <1>3, <2>5, <3>2 DEF OwnerInv
    <3> QED  BY <2>2, <3>1, <3>2
  <2> QED  BY <1>1, <1>3, <2>4, <2>5, <2>6, <2>7 DEF OwnerInv
<1>8. TypeOK'
  <2>1. released' \subseteq tokens'
    BY <1>1, <1>3, <1>6 DEF Published, TypeParts
  <2> QED  BY <1>1, <1>3, <1>4, <1>6, <2>1, Types DEF Published, TypeParts
<1>9. CallOK(t)' /\ local'[t].token \in tokens' \cup {NONE}
  BY <1>4, IdleFacts DEF CallOK
<1>10. IdentityInv' /\ (\A i \in Slots : slotGenerations'[i] >= slotGenerations[i])
       /\ \A token \in released' \ released : ~Resolves(token)'
  BY <1>1, <1>3 DEF IdentityInv, TypeParts
<1> QED  BY <1>4, <1>6, <1>7, <1>8, <1>9, <1>10, StepInv DEF Published
-----------------------------------------------------------------------------
(* The commit of a spawn. *)

\* The stack of the new task comes from its reservation, and then the call has
\* none, or it is the only one of the call.
LEMMA OfferFacts ==
  ASSUME IInv, NEW t \in Callers, at[t] = "commit", SlotGranted(local[t].token),
         NEW stack \in Offered(t)
  PROVE  /\ stack \in Stacks /\ local[t].stacks \ {stack} = {}
         /\ HasStacks(local[t].token) =>
              stack \in entries[local[t].token[1]].stacks /\ local[t].stacks = {}
         /\ ~HasStacks(local[t].token) => local[t].stacks = {stack}
         /\ local[t].token # NONE =>
              /\ Resolves(local[t].token) /\ entries[local[t].token[1]].remaining # 0
              /\ local[t].token[1] \in Entries
<1>1. TypeParts /\ TokenInv /\ CallOK(t)
  BY Types DEF IInv
<1>2. local[t].token # NONE =>
        /\ Resolves(local[t].token) /\ entries[local[t].token[1]].remaining # 0
        /\ local[t].token[1] \in Entries
  <2>1. local[t].token # NONE => local[t].token \in Tokens
    BY <1>1 DEF TokenInv, TypeParts
  <2> QED  BY <2>1, TokenFacts DEF SlotGranted, ReservedSlot
<1>3. CASE HasStacks(local[t].token)
  <2>1. stack \in entries[local[t].token[1]].stacks /\ local[t].stacks = {}
    BY <1>1, <1>3 DEF Offered, HasStacks, CallOK
  <2>2. local[t].token # NONE
    BY <1>3 DEF HasStacks, Resolves
  <2>3. entries[local[t].token[1]].stacks \subseteq Stacks
    BY <1>1, <1>2, <2>2 DEF TypeParts, EntryType
  <2> QED  BY <1>2, <1>3, <2>1, <2>3
<1>4. CASE ~HasStacks(local[t].token)
  <2>1. local[t].stacks # {}
    BY <1>1, <1>2, <1>4 DEF HasStacks, CallOK
  <2>2. stack \in local[t].stacks
    BY <1>4, <2>1 DEF Offered
  <2>3. local[t].stacks = {stack}
    BY <1>1, <2>2 DEF CallOK
  <2>4. local[t].stacks \subseteq Stacks
    BY <1>1 DEF TypeParts, LocalType
  <2> QED  BY <1>2, <1>4, <2>3, <2>4
<1> QED  BY <1>3, <1>4

\* One promise and its stack leave entry k.
LEMMA ConsumeFacts ==
  ASSUME TypeParts, NEW k \in Entries, NEW stack, entries[k].remaining # 0,
         entries' = [entries EXCEPT ![k].remaining = @ - 1, ![k].stacks = @ \ {stack}]
  PROVE  /\ entries' \in [Entries -> EntryType]
         /\ entries'[k].active = entries[k].active /\ entries'[k].generation = entries[k].generation
         /\ entries'[k].sized = entries[k].sized
         /\ entries'[k].remaining = entries[k].remaining - 1
         /\ entries'[k].stacks = entries[k].stacks \ {stack}
         /\ \A m \in Entries : m # k => entries'[m] = entries[m]
<1> DEFINE n == entries[k].remaining - 1
           X == entries[k].stacks \ {stack}
           f == [entries EXCEPT ![k].remaining = n]
<1>1. entries \in [Entries -> EntryType] /\ entries[k] \in EntryType /\ n \in Nat /\ X \in SUBSET Stacks
  BY DEF TypeParts, EntryType
<1>2. f[k].stacks = entries[k].stacks
  BY <1>1 DEF EntryType
<1>3. entries' = [f EXCEPT ![k].stacks = X]
  BY <1>2
<1> HIDE DEF n, X
<1>4. /\ f \in [Entries -> EntryType] /\ \A m \in Entries : m # k => f[m] = entries[m]
      /\ f[k].active = entries[k].active /\ f[k].generation = entries[k].generation
      /\ f[k].sized = entries[k].sized /\ f[k].remaining = n
  BY <1>1 DEF EntryType
<1> HIDE DEF f
<1>5. /\ entries' \in [Entries -> EntryType] /\ \A m \in Entries : m # k => entries'[m] = f[m]
      /\ entries'[k].active = f[k].active /\ entries'[k].generation = f[k].generation
      /\ entries'[k].sized = f[k].sized /\ entries'[k].remaining = f[k].remaining
      /\ entries'[k].stacks = X
  <2> DEFINE r == [f[k] EXCEPT !.stacks = X]
  <2>1. f[k] \in EntryType
    BY <1>4
  <2>2. entries' = [f EXCEPT ![k] = r]
    BY <1>3
  <2>3. /\ r \in EntryType /\ r.active = f[k].active /\ r.generation = f[k].generation
        /\ r.sized = f[k].sized /\ r.remaining = f[k].remaining /\ r.stacks = X
    BY <1>1, <2>1 DEF EntryType
  <2> HIDE DEF r
  <2> QED  BY <1>4, <2>2, <2>3
<1> QED  BY <1>4, <1>5 DEF n, X

\* The effect of consume on the table, for a reserved and for an ordinary spawn.
LEMMA ConsumeStep ==
  ASSUME IInv, NEW t \in Callers, at[t] = "commit", SlotGranted(local[t].token),
         NEW stack \in Offered(t), Consume(local[t].token, stack)
  PROVE  /\ entries' \in [Entries -> EntryType] /\ TableStep
         /\ \A k \in Entries : entries'[k].stacks = entries[k].stacks \ {stack}
         /\ totalRemaining' \in Nat /\ totalRemaining' = SumOf(Remaining')
         /\ totalRemaining' < Cardinality(FreeSlots)
         /\ \A k \in Entries :
              /\ ~entries'[k].active => entries'[k].remaining = 0
              /\ Cardinality(entries'[k].stacks) =
                   (IF entries'[k].sized THEN entries'[k].remaining ELSE 0)
<1>1. TypeParts /\ OwnerInv /\ PromisesBacked
  BY Types DEF IInv
<1>2. /\ stack \in Stacks
      /\ HasStacks(local[t].token) => stack \in entries[local[t].token[1]].stacks
      /\ ~HasStacks(local[t].token) => local[t].stacks = {stack}
      /\ local[t].token # NONE =>
           /\ Resolves(local[t].token) /\ entries[local[t].token[1]].remaining # 0
           /\ local[t].token[1] \in Entries
  BY OfferFacts
<1>3. Cardinality(FreeSlots) \in Nat /\ totalRemaining \in Nat /\ totalRemaining <= Cardinality(FreeSlots)
      /\ totalRemaining = SumOf(Remaining) /\ Remaining \in [Entries -> Nat] /\ IsFiniteSet(Entries)
  BY <1>1, TableFacts, SlotsAssumption, FS_Subset, FS_CardinalityType
     DEF FreeSlots, TypeParts, PromisesBacked
<1>4. ~HasStacks(local[t].token) => \A k \in Entries : stack \notin entries[k].stacks
  BY <1>1, <1>2 DEF OwnerInv
<1>5. CASE local[t].token = NONE
  <2>1. UNCHANGED <<entries, totalRemaining>> /\ Cardinality(FreeSlots) > totalRemaining
    BY <1>5 DEF Consume, table, SlotGranted, OrdinarySlot
  <2>2. ~HasStacks(local[t].token)
    BY <1>5 DEF HasStacks, Resolves
  <2>3. \A k \in Entries : entries'[k].stacks = entries[k].stacks \ {stack}
    BY <1>4, <2>1, <2>2
  <2>4. Remaining' = Remaining
    BY <2>1 DEF Remaining
  <2>5. TableStep
    BY <1>1, <2>1 DEF TableStep, TypeParts, EntryType
  <2> QED  BY <1>1, <1>3, <2>1, <2>3, <2>4, <2>5 DEF TypeParts, PromisesBacked
<1>6. CASE local[t].token # NONE
  <2>1. SUFFICES ASSUME NEW k \in Entries, k = local[t].token[1], entries[k].remaining # 0
                 PROVE  /\ entries' \in [Entries -> EntryType] /\ TableStep
                        /\ \A m \in Entries : entries'[m].stacks = entries[m].stacks \ {stack}
                        /\ totalRemaining' \in Nat /\ totalRemaining' = SumOf(Remaining')
                        /\ totalRemaining' < Cardinality(FreeSlots)
                        /\ \A m \in Entries :
                             /\ ~entries'[m].active => entries'[m].remaining = 0
                             /\ Cardinality(entries'[m].stacks) =
                                  (IF entries'[m].sized THEN entries'[m].remaining ELSE 0)
    BY <1>2, <1>6
  <2>2. /\ entries' = [entries EXCEPT ![k].remaining = @ - 1, ![k].stacks = @ \ {stack}]
        /\ totalRemaining' = totalRemaining - 1
    BY <1>6, <2>1 DEF Consume
  <2>3. /\ entries' \in [Entries -> EntryType]
        /\ entries'[k].active = entries[k].active /\ entries'[k].generation = entries[k].generation
        /\ entries'[k].sized = entries[k].sized
        /\ entries'[k].remaining = entries[k].remaining - 1
        /\ entries'[k].stacks = entries[k].stacks \ {stack}
        /\ \A m \in Entries : m # k => entries'[m] = entries[m]
    BY <1>1, <2>1, <2>2, ConsumeFacts
  <2>4. entries[k].active /\ entries[k].remaining \in Nat /\ entries[k].generation \in Nat
        /\ (HasStacks(local[t].token) <=> entries[k].sized)
    BY <1>1, <1>2, <1>6, <2>1 DEF TypeParts, EntryType, HasStacks, Resolves
  <2>5. \A m \in Entries : m # k => stack \notin entries[m].stacks
    BY <1>1, <1>2, <1>4, <2>1 DEF OwnerInv
  <2>6. \A m \in Entries : entries'[m].stacks = entries[m].stacks \ {stack}
    BY <2>3, <2>5
  <2>7. TableStep
    BY <1>1, <2>3, <2>4 DEF TableStep, TypeParts, EntryType
  <2>8. SumOf(Remaining') = SumOf(Remaining) - 1 /\ SumOf(Remaining') \in Nat
    <3>1. /\ Remaining' \in [Entries -> Nat] /\ Remaining[k] # 0 /\ Remaining'[k] = Remaining[k] - 1
          /\ \A m \in Entries : m # k => Remaining'[m] = Remaining[m]
      BY <2>1, <2>3 DEF Remaining, EntryType
    <3>2. SUFFICES ASSUME NEW f \in [Entries -> Nat], NEW g \in [Entries -> Nat],
                          f[k] # 0, g[k] = f[k] - 1, \A m \in Entries : m # k => g[m] = f[m]
                   PROVE  SumOf(g) = SumOf(f) - 1 /\ SumOf(g) \in Nat
      BY <1>3, <3>1
    <3> QED  BY <1>3, <3>2, SumDrop, TasksFacts
  <2>9. /\ totalRemaining' = SumOf(Remaining') /\ totalRemaining' \in Nat
        /\ totalRemaining' < Cardinality(FreeSlots)
    BY <1>3, <2>2, <2>8
  <2>10. \A m \in Entries :
           /\ ~entries'[m].active => entries'[m].remaining = 0
           /\ Cardinality(entries'[m].stacks) =
                (IF entries'[m].sized THEN entries'[m].remaining ELSE 0)
    <3> TAKE m \in Entries
    <3>1. CASE m # k
      BY <1>1, <2>3, <3>1 DEF PromisesBacked
    <3>2. CASE m = k /\ HasStacks(local[t].token)
      <4>1. stack \in entries[k].stacks /\ IsFiniteSet(entries[k].stacks)
        BY <1>2, <2>1, <3>2, TableFacts
      <4>2. Cardinality(entries[k].stacks \ {stack}) = Cardinality(entries[k].stacks) - 1
        BY <4>1, FS_RemoveElement
      <4>3. Cardinality(entries[k].stacks) = entries[k].remaining
        BY <1>1, <2>4, <3>2 DEF PromisesBacked
      <4> QED  BY <2>3, <2>4, <3>2, <4>2, <4>3
    <3>3. CASE m = k /\ ~HasStacks(local[t].token)
      <4>1. entries[k].stacks \ {stack} = entries[k].stacks
        BY <1>4, <3>3
      <4>2. Cardinality(entries[k].stacks) = 0
        BY <1>1, <2>4, <3>3 DEF PromisesBacked
      <4> QED  BY <2>3, <2>4, <3>3, <4>1, <4>2
    <3> QED  BY <3>1, <3>2, <3>3
  <2> QED  BY <2>3, <2>6, <2>7, <2>9, <2>10
<1> QED  BY <1>5, <1>6

\* The second critical section of spawn: the slot, its generation, the promise
\* and the stack change hands together.
LEMMA SpawnCommitInv ==
  ASSUME IInv, NEW t \in Callers, SpawnCommit(t)
  PROVE  IInv'
<1>1. /\ TypeOK /\ TypeParts /\ TokenInv /\ IdentityInv /\ OwnerInv /\ PromisesBacked
  BY Types DEF IInv
<1>2. at[t] = "commit" /\ SlotGranted(local[t].token)
      /\ UNCHANGED <<retired, heap, tokens, released, ended>>
  BY DEF SpawnCommit, ghosts
<1>3. PICK stack \in Offered(t), i \in FreeSlots :
        /\ Consume(local[t].token, stack)
        /\ tasks' = [tasks EXCEPT ![i] =
                       [taken |-> TRUE, stack |-> stack, generation |-> NewGeneration(i)]]
        /\ slotGenerations' = [slotGenerations EXCEPT ![i] = NewGeneration(i)]
        /\ Goto(t, "identify",
                [Idle EXCEPT !.stacks = local[t].stacks \ {stack},
                             !.slot = i, !.generation = NewGeneration(i)])
  BY DEF SpawnCommit
<1>4. /\ stack \in Stacks /\ local[t].stacks \ {stack} = {}
      /\ HasStacks(local[t].token) =>
           stack \in entries[local[t].token[1]].stacks /\ local[t].stacks = {}
      /\ ~HasStacks(local[t].token) => local[t].stacks = {stack}
      /\ local[t].token # NONE => local[t].token[1] \in Entries
  BY <1>2, OfferFacts
<1>5. /\ entries' \in [Entries -> EntryType] /\ TableStep
      /\ \A k \in Entries : entries'[k].stacks = entries[k].stacks \ {stack}
      /\ totalRemaining' \in Nat /\ totalRemaining' = SumOf(Remaining')
      /\ totalRemaining' < Cardinality(FreeSlots)
      /\ \A k \in Entries :
           /\ ~entries'[k].active => entries'[k].remaining = 0
           /\ Cardinality(entries'[k].stacks) =
                (IF entries'[k].sized THEN entries'[k].remaining ELSE 0)
  BY <1>2, <1>3, ConsumeStep
<1>6. SUFFICES ASSUME NEW g \in Nat, g = NewGeneration(i), g = slotGenerations[i] + 1
               PROVE  IInv'
  BY <1>1, <1>3 DEF NewGeneration, TypeParts, FreeSlots
<1>7. i \in Slots /\ ~tasks[i].taken /\ tasks[i].stack = NULL /\ stack # NULL /\ NULL \notin Stacks
  BY <1>1, <1>4, StacksAssumption DEF FreeSlots, IdentityInv
<1>8. PICK l \in LocalType : /\ Goto(t, "identify", l) /\ l.stacks = {} /\ l.token = NONE
                             /\ l.slot = i /\ l.generation = g
  <2> DEFINE a == [Idle EXCEPT !.stacks = {}]
             b == [a EXCEPT !.slot = i]
             c == [b EXCEPT !.generation = g]
  <2>1. Goto(t, "identify", c)
    BY <1>3, <1>4, <1>6
  <2>2. a \in LocalType /\ a.stacks = {} /\ a.token = NONE
    BY IdleFacts, SetStacks
  <2> HIDE DEF a
  <2>3. b \in LocalType /\ b.stacks = {} /\ b.token = NONE /\ b.slot = i
    BY <1>7, <2>2, SetSlot
  <2> HIDE DEF b
  <2>4. c \in LocalType /\ c.stacks = {} /\ c.token = NONE /\ c.slot = i /\ c.generation = g
    BY <2>3, SetGeneration
  <2> HIDE DEF c
  <2> QED  BY <2>1, <2>4
<1>9. /\ at'[t] = "identify" /\ local'[t] = l
      /\ \A u \in Callers : u # t => at'[u] = at[u] /\ local'[u] = local[u]
      /\ at' \in [Callers -> Pcs] /\ local' \in [Callers -> LocalType]
  BY <1>1, <1>8, GotoFacts DEF Pcs
<1>10. /\ tasks' \in [Slots -> TaskType] /\ \A j \in Slots : j # i => tasks'[j] = tasks[j]
       /\ tasks'[i].taken = TRUE /\ tasks'[i].stack = stack /\ tasks'[i].generation = g
  <2> DEFINE r == [taken |-> TRUE, stack |-> stack, generation |-> g]
  <2>1. r \in TaskType /\ r.taken = TRUE /\ r.stack = stack /\ r.generation = g
    BY <1>4 DEF TaskType
  <2>2. tasks' = [tasks EXCEPT ![i] = r]
    BY <1>3, <1>6
  <2> HIDE DEF r
  <2> QED  BY <1>1, <1>7, <2>1, <2>2 DEF TypeParts
<1>11. /\ slotGenerations' \in [Slots -> Nat] /\ slotGenerations'[i] = slotGenerations[i] + 1
       /\ slotGenerations'[i] = g
       /\ \A j \in Slots : j # i => slotGenerations'[j] = slotGenerations[j]
  BY <1>1, <1>3, <1>6, <1>7 DEF TypeParts
<1>12. TypeOK'
  BY <1>1, <1>2, <1>5, <1>9, <1>10, <1>11, Types DEF TypeParts
<1>13. CallOK(t)' /\ local'[t].token \in tokens' \cup {NONE}
  BY <1>7, <1>8, <1>9, <1>11 DEF CallOK
<1>14. \A j \in Slots : slotGenerations[j] \in Nat /\ slotGenerations'[j] >= slotGenerations[j]
  BY <1>1, <1>11 DEF TypeParts
<1>15. IdentityInv'
  <2>1. \A id \in ended : /\ id[1] \in Slots /\ id[2] \in Nat /\ id[2] <= slotGenerations[id[1]]
    BY <1>1 DEF IdentityInv, TypeParts
  <2>2. \A id \in ended' : id[2] <= slotGenerations'[id[1]]
    BY <1>2, <1>11, <1>14, <2>1
  <2>3. <<i, g>> \notin ended'
    BY <1>2, <1>6, <1>7, <1>14, <2>1
  <2>4. \A j \in Slots :
          /\ tasks'[j].taken => /\ tasks'[j].generation = slotGenerations'[j]
                                /\ <<j, tasks'[j].generation>> \notin ended'
          /\ ~tasks'[j].taken => tasks'[j].generation = 0
          /\ tasks'[j].taken <=> tasks'[j].stack # NULL
    <3> TAKE j \in Slots
    <3>1. CASE j = i
      BY <1>7, <1>10, <1>11, <2>3, <3>1
    <3>2. CASE j # i
      BY <1>1, <1>2, <1>10, <1>11, <3>2 DEF IdentityInv
    <3> QED  BY <3>1, <3>2
  <2> QED  BY <2>2, <2>4 DEF IdentityInv
<1>16. OwnerInv'
  <2>1. /\ local'[t].stacks = {}
        /\ \A u \in Callers : u # t => local'[u].stacks = local[u].stacks
    BY <1>8, <1>9
  <2>2. /\ stack \in heap /\ stack \notin retired /\ \A j \in Slots : tasks[j].stack # stack
        /\ \A u \in Callers : u # t => stack \notin local[u].stacks
    <3>1. CASE HasStacks(local[t].token)
      <4>1. local[t].token[1] \in Entries /\ stack \in entries[local[t].token[1]].stacks
        BY <1>4, <3>1 DEF HasStacks, Resolves
      <4> QED  BY <1>1, <4>1 DEF OwnerInv
    <3>2. CASE ~HasStacks(local[t].token)
      BY <1>1, <1>4, <3>2 DEF OwnerInv
    <3> QED  BY <3>1, <3>2
  <2>3. /\ \A k \in Entries : NULL \notin entries[k].stacks
        /\ \A u \in Callers : NULL \notin local[u].stacks
    BY <1>1, <1>7 DEF TypeParts, EntryType, LocalType
  <2>4. \A s \in heap' : \/ s \in retired'
                         \/ \E j \in Slots : tasks'[j].stack = s
                         \/ \E k \in Entries : s \in entries'[k].stacks
                         \/ \E u \in Callers : s \in local'[u].stacks
    <3> TAKE s \in heap'
    <3>1. CASE s = stack
      BY <1>7, <1>10, <3>1
    <3>2. CASE s # stack
      <4>1. s # NULL /\ s \in heap
        BY <1>1, <1>2, <1>7 DEF TypeParts
      <4>2. CASE \E j \in Slots : tasks[j].stack = s
        BY <1>7, <1>10, <4>1, <4>2
      <4>3. CASE \E k \in Entries : s \in entries[k].stacks
        BY <1>5, <3>2, <4>3
      <4>4. CASE \E u \in Callers : s \in local[u].stacks
        BY <1>4, <2>1, <3>2, <4>4
      <4> QED  BY <1>1, <1>2, <4>1, <4>2, <4>3, <4>4 DEF OwnerInv
    <3> QED  BY <3>1, <3>2
  <2>5. \A j \in Slots : /\ tasks'[j].stack \in heap' \cup {NULL} /\ tasks'[j].stack \notin retired'
                         /\ \A k \in Entries : tasks'[j].stack \notin entries'[k].stacks
                         /\ \A u \in Callers : tasks'[j].stack \notin local'[u].stacks
    <3> TAKE j \in Slots
    <3>1. CASE j = i
      BY <1>2, <1>5, <1>10, <2>1, <2>2, <3>1
    <3>2. CASE j # i
      BY <1>1, <1>2, <1>5, <1>10, <2>1, <3>2 DEF OwnerInv
    <3> QED  BY <3>1, <3>2
  <2>6. \A j, m \in Slots : tasks'[j].stack = tasks'[m].stack => j = m \/ tasks'[j].stack = NULL
    BY <1>1, <1>10, <2>2 DEF OwnerInv
  <2>7. /\ \A k \in Entries : entries'[k].stacks \subseteq heap' /\ entries'[k].stacks \cap retired' = {}
        /\ \A k, m \in Entries : k # m => entries'[k].stacks \cap entries'[m].stacks = {}
        /\ \A k \in Entries, u \in Callers : entries'[k].stacks \cap local'[u].stacks = {}
    BY <1>1, <1>2, <1>5, <2>1 DEF OwnerInv
  <2>8. /\ \A u \in Callers : local'[u].stacks \subseteq heap' /\ local'[u].stacks \cap retired' = {}
        /\ \A u, v \in Callers : u # v => local'[u].stacks \cap local'[v].stacks = {}
        /\ retired' \subseteq heap'
    BY <1>1, <1>2, <2>1 DEF OwnerInv
  <2> QED  BY <2>4, <2>5, <2>6, <2>7, <2>8 DEF OwnerInv
<1>17. PromisesBacked'
  <2>1. FreeSlots' = FreeSlots \ {i}
    BY <1>10 DEF FreeSlots
  <2>2. IsFiniteSet(FreeSlots) /\ Cardinality(FreeSlots) \in Nat /\ i \in FreeSlots
    BY SlotsAssumption, FS_Subset, FS_CardinalityType DEF FreeSlots
  <2>3. Cardinality(FreeSlots') = Cardinality(FreeSlots) - 1
    BY <2>1, <2>2, FS_RemoveElement
  <2>4. totalRemaining' <= Cardinality(FreeSlots')
    BY <1>5, <2>2, <2>3
  <2> QED  BY <1>5, <2>4 DEF PromisesBacked, Remaining
<1> QED  BY <1>2, <1>5, <1>9, <1>12, <1>13, <1>14, <1>15, <1>16, <1>17, StepInv
-----------------------------------------------------------------------------
(* The theorems. *)

\* Nothing is reserved, allocated or under way when the scheduler starts.
LEMMA InitInv == Init => IInv
<1> SUFFICES ASSUME Init PROVE IInv
  OBVIOUS
<1> USE DEF Init
<1>1. /\ EmptyTask \in TaskType /\ ~EmptyTask.taken /\ EmptyTask.stack = NULL /\ EmptyTask.generation = 0
  BY DEF EmptyTask, TaskType
<1>2. /\ EmptyEntry \in EntryType /\ ~EmptyEntry.active /\ ~EmptyEntry.sized
      /\ EmptyEntry.remaining = 0 /\ EmptyEntry.stacks = {}
  BY DEF EmptyEntry, EntryType
<1>3. TypeOK
  BY <1>1, <1>2, IdleFacts, Types DEF TypeParts, Pcs
<1>4. (\A t \in Callers : CallOK(t)) /\ TokenInv /\ ReleasedTokensStale
  BY IdleFacts DEF CallOK, TokenInv, ReleasedTokensStale
<1>5. IdentityInv
  BY <1>1 DEF IdentityInv
<1>6. OwnerInv
  <2>1. /\ \A i \in Slots : tasks[i].stack = NULL
        /\ \A k \in Entries : entries[k].stacks = {}
        /\ \A t \in Callers : local[t].stacks = {}
    BY <1>1, <1>2, IdleFacts
  <2> QED  BY <2>1 DEF OwnerInv
<1>7. PromisesBacked
  <2>1. IsFiniteSet(Entries)
    BY TableSizeAssumption, FS_Interval DEF Entries
  <2>2. Remaining \in [Entries -> Nat] /\ \A k \in Entries : Remaining[k] = 0
    BY <1>2 DEF Remaining
  <2>3. \A x : x \notin TasksOf(Remaining)
    <3>1. \A x : x \in TasksOf(Remaining) <=>
            \E j \in Entries, n \in Nat \ {0} : n <= Remaining[j] /\ x = <<j, n>>
      <4> SUFFICES ASSUME NEW f \in [Entries -> Nat]
                   PROVE  \A x : x \in TasksOf(f) <=>
                            \E j \in Entries, n \in Nat \ {0} : n <= f[j] /\ x = <<j, n>>
        BY <2>2
      <4> QED  BY <2>1, TasksFacts
    <3> QED  BY <2>2, <3>1
  <2>4. TasksOf(Remaining) = {}
    BY <2>3
  <2>5. SumOf(Remaining) = 0
    BY <2>4, FS_EmptySet DEF SumOf
  <2>6. Cardinality(FreeSlots) \in Nat
    BY SlotsAssumption, FS_Subset, FS_CardinalityType DEF FreeSlots
  <2> QED  BY <1>2, <2>5, <2>6, FS_EmptySet DEF PromisesBacked, Remaining
<1> QED  BY <1>3, <1>4, <1>5, <1>6, <1>7 DEF IInv

\* Every action preserves the invariant.
LEMMA NextInv == IInv /\ [Next]_vars => IInv'
<1> SUFFICES ASSUME IInv, [Next]_vars  PROVE IInv'
  OBVIOUS
<1>1. ASSUME NEW t \in Callers, NEW s \in Stacks,
             Deallocate(t, s) \/ Preallocate(t, s) \/ SpawnAllocate(t, s)
      PROVE  IInv'
  BY <1>1, DeallocateInv, PreallocateInv, SpawnAllocateInv
<1>2. ASSUME NEW t \in Callers, \E n \in 1..Cardinality(Slots) : ReserveTasks(t, n)  PROVE IInv'
  BY <1>2, ReserveTasksInv
<1>3. ASSUME NEW t \in Callers, \E token \in tokens : Release(t, token)  PROVE IInv'
  BY <1>3, ReleaseInv
<1>4. ASSUME NEW t \in Callers,
             Yield(t) \/ \E token \in tokens \cup {NONE} : BeginSpawn(t, token)
      PROVE  IInv'
  BY <1>4, ReclaimActions
<1>5. ASSUME NEW t \in Callers,
             \/ \E plan \in Plans : BeginPlan(t, plan)
             \/ PreallocateFails(t) \/ ReservePlanRefused(t) \/ ReadStackSize(t) \/ SpawnTooLarge(t)
             \/ SpawnAllocateFails(t) \/ SpawnRefused(t) \/ Identify(t)
      PROVE  IInv'
  BY <1>5, QuietActions
<1>6. ASSUME NEW t \in Callers, ReservePlan(t) \/ SpawnCommit(t)  PROVE IInv'
  BY <1>6, ReservePlanInv, SpawnCommitInv
<1>7. ASSUME NEW i \in Slots, Exit(i)  PROVE IInv'
  BY <1>7, ExitInv
<1>8. ASSUME UNCHANGED vars  PROVE IInv'
  BY <1>8 DEF vars, slotVars, table, ghosts, IInv, TypeOK, CallOK, TokenInv, ReleasedTokensStale,
              Resolves, IdentityInv, OwnerInv, PromisesBacked, FreeSlots
<1> QED  BY <1>1, <1>2, <1>3, <1>4, <1>5, <1>6, <1>7, <1>8 DEF Next

\* The inductive invariant holds in every reachable state.
LEMMA Invariance == Spec => []IInv
BY InitInv, NextInv, PTL DEF Spec

\* The owners of a stack, counted.
LEMMA OneOwner ==
  ASSUME IInv, NEW s \in Stacks
  PROVE  Cardinality(Owners(s)) = (IF s \in heap THEN 1 ELSE 0)
<1>1. OwnerInv /\ s # NULL
  BY StacksAssumption DEF IInv
<1>2. \A o : o \in Owners(s) <=>
        \/ \E i \in Slots : tasks[i].stack = s /\ o = <<"task", i>>
        \/ \E k \in Entries : s \in entries[k].stacks /\ o = <<"entry", k>>
        \/ \E t \in Callers : s \in local[t].stacks /\ o = <<"call", t>>
        \/ s \in retired /\ o = <<"retired">>
  BY DEF Owners
<1>3. \A i \in Slots : tasks[i].stack = s => \A o \in Owners(s) : o = <<"task", i>>
  BY <1>1, <1>2 DEF OwnerInv
<1>4. \A k \in Entries : s \in entries[k].stacks => \A o \in Owners(s) : o = <<"entry", k>>
  BY <1>1, <1>2 DEF OwnerInv
<1>5. \A t \in Callers : s \in local[t].stacks => \A o \in Owners(s) : o = <<"call", t>>
  BY <1>1, <1>2 DEF OwnerInv
<1>6. s \in retired => \A o \in Owners(s) : o = <<"retired">>
  BY <1>1, <1>2 DEF OwnerInv
<1>7. \A o, p \in Owners(s) : o = p
  BY <1>2, <1>3, <1>4, <1>5, <1>6
<1>8. Owners(s) # {} <=> s \in heap
  <2>1. ASSUME NEW o \in Owners(s)  PROVE s \in heap
    BY <1>1, <1>2 DEF OwnerInv
  <2>2. ASSUME s \in heap  PROVE \E o : o \in Owners(s)
    <3>1. \/ s \in retired
          \/ \E i \in Slots : tasks[i].stack = s
          \/ \E k \in Entries : s \in entries[k].stacks
          \/ \E t \in Callers : s \in local[t].stacks
      BY <1>1, <2>2 DEF OwnerInv
    <3> QED  BY <1>2, <3>1
  <2> QED  BY <2>1, <2>2
<1>9. CASE s \in heap
  <2>1. PICK o : Owners(s) = {o}
    BY <1>7, <1>8, <1>9
  <2> QED  BY <1>9, <2>1, FS_Singleton
<1>10. CASE s \notin heap
  BY <1>8, <1>10, FS_EmptySet
<1> QED  BY <1>9, <1>10

\* Every variable of the admission model keeps its type; in particular the
\* counters of promises that the code decrements never drop below zero.
THEOREM TypeCorrect == Spec => []TypeOK
<1>1. IInv => TypeOK
  BY DEF IInv
<1> QED  BY <1>1, Invariance, PTL

\* Whichever calls overlap or fail, every allocated stack has exactly one owner
\* (a live task, a reservation, the retired list or a call) and a free one none,
\* and no call that returns still holds one.
THEOREM StacksConserved == Spec => []StackOwnership
<1>1. IInv => StackOwnership
  <2> SUFFICES ASSUME IInv PROVE StackOwnership
    OBVIOUS
  <2>1. \A s \in Stacks : Cardinality(Owners(s)) = (IF s \in heap THEN 1 ELSE 0)
    BY OneOwner
  <2>2. \A i \in Slots : tasks[i].taken <=> tasks[i].stack # NULL
    BY DEF IInv, IdentityInv
  <2>3. \A t \in Callers : at[t] \in {"idle", "identify"} => local[t].stacks = {}
    BY DEF IInv, CallOK
  <2> QED  BY <2>1, <2>2, <2>3 DEF StackOwnership
<1> QED  BY <1>1, Invariance, PTL

\* total_remaining is the sum of what the entries promise, the free slots cover
\* it, and a reservation with stacks holds one for each slot it still promises.
THEOREM PromisesCovered == Spec => []PromisesBacked
<1>1. IInv => PromisesBacked
  BY DEF IInv
<1> QED  BY <1>1, Invariance, PTL

\* resolve_slot never accepts a token that was released.
THEOREM ReleasedStayReleased == Spec => []ReleasedTokensStale
<1>1. IInv => ReleasedTokensStale
  BY DEF IInv
<1> QED  BY <1>1, Invariance, PTL

\* No live task has the identity of an exited one, and a spawn never names an
\* earlier task of its slot.
THEOREM IdentitiesNeverReused == Spec => []IdentitiesFresh
<1>1. IInv => IdentitiesFresh
  <2> SUFFICES ASSUME IInv PROVE IdentitiesFresh
    OBVIOUS
  <2>1. TypeParts /\ IdentityInv
    BY Types DEF IInv
  <2>2. \A i \in Slots : tasks[i].taken => <<i, tasks[i].generation>> \notin ended
    BY <2>1 DEF IdentityInv
  <2>3. ASSUME NEW t \in Callers, at[t] = "identify"
        PROVE  tasks[local[t].slot].generation = 0
               \/ tasks[local[t].slot].generation >= local[t].generation
    <3>1. local[t].slot \in Slots /\ local[t].generation <= slotGenerations[local[t].slot]
      BY <2>3 DEF IInv, CallOK
    <3>2. local[t].generation \in Nat /\ slotGenerations[local[t].slot] \in Nat
      BY <2>1, <3>1 DEF TypeParts, LocalType
    <3> QED  BY <2>1, <3>1, <3>2 DEF IdentityInv
  <2> QED  BY <2>2, <2>3 DEF IdentitiesFresh
<1> QED  BY <1>1, Invariance, PTL
=============================================================================
