---------------------------- MODULE CommonLemmas ----------------------------
(***************************************************************************)
(* Facts about quotients, remainders, least elements, recursive functions  *)
(* on intervals and lists of tasks that the proofs of several components   *)
(* share.                                                                  *)
(***************************************************************************)
EXTENDS SlotLists, SequenceTheorems, FiniteSetTheorems, WellFoundedInduction, TLAPS

-----------------------------------------------------------------------------
(* Numbers. *)

\* The quotient and the remainder of a division by a positive number.
LEMMA DivFacts ==
  ASSUME NEW a \in Int, NEW d \in Nat \ {0}
  PROVE  /\ a \div d \in Int
         /\ a % d = a - d * (a \div d)
         /\ a % d \in Nat /\ a % d < d
OBVIOUS

\* A larger number has no smaller quotient.
LEMMA DivMonotone ==
  ASSUME NEW a \in Int, NEW b \in Int, a <= b, NEW d \in Nat \ {0}
  PROVE  a \div d <= b \div d
OBVIOUS

\* Whole multiples of d: the quotient is exact, and adding d to a multiple
\* k times yields another one.
LEMMA AlignedSum ==
  ASSUME NEW a \in Int, NEW k \in Int, NEW d \in Nat \ {0}, a % d = 0
  PROVE  (a + k * d) % d = 0
<1>1. a = (a \div d) * d
  BY DivFacts
<1> DEFINE q == a \div d
<1>2. q \in Int
  BY DivFacts
<1>3. (q + k) * d = q * d + k * d
  BY <1>2
<1>4. ((q + k) * d) % d = 0
  <2> DEFINE m == q + k
  <2>1. m \in Int
    BY <1>2
  <2> HIDE DEF m
  <2>2. (m * d) % d = 0
    BY <2>1
  <2> QED  BY <2>2 DEF m
<1> QED  BY <1>1, <1>3, <1>4

\* A boundary that lies after b and not after a lies in a later period than b.
LEMMA LaterPeriod ==
  ASSUME NEW a \in Int, NEW b \in Int, NEW r \in Int, NEW d \in Nat \ {0},
         r % d = 0, b < r, r <= a
  PROVE  a \div d > b \div d
<1>1. r \div d <= a \div d
  BY DivMonotone
<1>2. r = d * (r \div d) /\ d * (b \div d) <= b
  BY DivFacts
<1> DEFINE x == r \div d
           y == b \div d
<1>3. x \in Int /\ y \in Int /\ d * y < d * x
  BY <1>2, DivFacts
<1>4. y < x
  <2> HIDE DEF x, y
  <2> QED  BY <1>3
<1> QED  BY <1>1, <1>3, <1>4, DivFacts

\* A number has one quotient and one remainder.
LEMMA DivUnique ==
  ASSUME NEW q \in Int, NEW d \in Nat \ {0}, NEW r \in 0..(d - 1)
  PROVE  (q * d + r) \div d = q /\ (q * d + r) % d = r
<1> DEFINE a == q * d + r
           p == a \div d
<1>1. a \in Int
  OBVIOUS
<1>2. p \in Int /\ a = d * p + (a % d) /\ a % d \in Nat /\ a % d < d
  BY <1>1, DivFacts
<1>3. d * p <= d * q + r /\ d * q + r < d * p + d
  BY <1>2
<1>4. p = q
  <2> HIDE DEF p
  <2>1. ~(p < q)
    <3> SUFFICES ASSUME p + 1 <= q PROVE FALSE
      BY <1>2
    <3>1. d * (p + 1) <= d * q
      BY <1>2
    <3>2. d * (p + 1) = d * p + d
      BY <1>2
    <3> QED  BY <1>2, <1>3, <3>1, <3>2
  <2>2. ~(q < p)
    <3> SUFFICES ASSUME q + 1 <= p PROVE FALSE
      BY <1>2
    <3>1. d * (q + 1) <= d * p
      BY <1>2
    <3>2. d * (q + 1) = d * q + d
      OBVIOUS
    <3> QED  BY <1>2, <1>3, <3>1, <3>2
  <2> QED  BY <1>2, <2>1, <2>2
<1> QED  BY <1>2, <1>4

\* Two numbers have the same remainder exactly when d divides their difference.
LEMMA SameRemainder ==
  ASSUME NEW a \in Int, NEW b \in Int, NEW d \in Nat \ {0}
  PROVE  (a % d = b % d) <=> ((a - b) % d = 0)
<1> DEFINE p == a \div d
           q == b \div d
           r == a % d
           t == b % d
<1>1. /\ p \in Int /\ q \in Int /\ r \in 0..(d - 1) /\ t \in 0..(d - 1)
      /\ a = p * d + r /\ b = q * d + t
  BY DivFacts
<1>2. a - b = (p - q) * d + (r - t)
  <2> HIDE DEF p, q, r, t
  <2>1. (p - q) * d = p * d - q * d
    BY <1>1
  <2> QED  BY <1>1, <2>1
<1>3. CASE r = t
  <2>1. a - b = (p - q) * d + 0 /\ p - q \in Int /\ 0 \in 0..(d - 1)
    BY <1>1, <1>2, <1>3
  <2> HIDE DEF p, q, r, t
  <2>2. ((p - q) * d + 0) % d = 0
    BY <2>1, DivUnique
  <2> QED  BY <1>3, <2>1, <2>2 DEF r, t
<1>4. CASE r > t
  <2>1. r - t \in 0..(d - 1) /\ p - q \in Int /\ r - t # 0
    BY <1>1, <1>4
  <2> HIDE DEF p, q, r, t
  <2>2. ((p - q) * d + (r - t)) % d = r - t
    BY <2>1, DivUnique
  <2> QED  BY <1>1, <1>2, <1>4, <2>1, <2>2 DEF r, t
<1>5. CASE r < t
  <2>1. d + (r - t) \in 0..(d - 1) /\ p - q - 1 \in Int /\ d + (r - t) # 0
    BY <1>1, <1>5
  <2> HIDE DEF p, q, r, t
  <2>2. ((p - q - 1) * d + (d + (r - t))) % d = d + (r - t)
    BY <2>1, DivUnique
  <2>3. (p - q - 1) * d = (p - q) * d - d
    BY <1>1
  <2>4. (p - q - 1) * d + (d + (r - t)) = a - b
    BY <1>1, <1>2, <2>3
  <2> QED  BY <1>1, <1>5, <2>1, <2>2, <2>4 DEF r, t
<1> QED  BY <1>1, <1>3, <1>4, <1>5

\* A number and its sum with k times d have quotients that differ by k.
LEMMA DivShift ==
  ASSUME NEW a \in Int, NEW k \in Int, NEW d \in Nat \ {0}
  PROVE  (a + k * d) \div d = (a \div d) + k
<1> DEFINE q == a \div d
           r == a % d
<1>1. q \in Int /\ r \in 0..(d - 1) /\ a = q * d + r
  BY DivFacts
<1> HIDE DEF q, r
<1>2. a + k * d = (q + k) * d + r
  <2>1. (q + k) * d = q * d + k * d
    BY <1>1
  <2> QED  BY <1>1, <2>1
<1>3. q + k \in Int
  BY <1>1
<1>4. ((q + k) * d + r) \div d = q + k
  BY <1>1, <1>3, DivUnique
<1> QED  BY <1>2, <1>4 DEF q

\* Every nonempty set of natural numbers has a least element.
LEMMA NatMin ==
  ASSUME NEW T \in SUBSET Nat, T # {}
  PROVE  \E x \in T : \A y \in T : x <= y
<1> DEFINE R == OpToRel(<, Nat)
<1>1. IsWellFoundedOn(R, Nat)
  BY NatLessThanWellFounded
<1>2. \A x, y \in Nat : y < x => <<y, x>> \in R
  BY DEF OpToRel
<1> HIDE DEF R
<1>3. PICK x \in T : \A y \in T : ~ (<<y, x>> \in R)
  BY <1>1, WFMin
<1>4. ASSUME NEW y \in T PROVE x <= y
  <2>1. ~(y < x) /\ x \in Nat /\ y \in Nat
    BY <1>2, <1>3
  <2> QED  BY <2>1
<1> QED  BY <1>4

\* Induction over an interval: Good is the set of numbers with the property.
LEMMA Induction ==
  ASSUME NEW n \in Nat, NEW Good, 0 \in Good, \A i \in 1..n : i - 1 \in Good => i \in Good
  PROVE  \A i \in 0..n : i \in Good
<1> DEFINE Bad == {i \in 0..n : i \notin Good}
<1>1. SUFFICES ASSUME Bad # {}  PROVE FALSE
  OBVIOUS
<1>2. Bad \in SUBSET Nat
  OBVIOUS
<1>3. PICK x \in Bad : \A y \in Bad : x <= y
  BY <1>1, <1>2, NatMin
<1>4. x \in 1..n /\ x - 1 \in 0..n
  BY <1>3
<1>5. x - 1 \notin Bad
  BY <1>3, <1>4
<1>6. x - 1 \in Good
  BY <1>4, <1>5
<1> QED  BY <1>3, <1>4, <1>6

-----------------------------------------------------------------------------
(* Lists. *)

\* A list without duplicates.
Distinct(q) == \A i, j \in DOMAIN q : q[i] = q[j] => i = j

\* ready_push appends exactly one member.
LEMMA AppendFacts ==
  ASSUME NEW S, NEW q \in Seq(S), NEW t \in S
  PROVE  /\ Append(q, t) \in Seq(S)
         /\ \A u : In(Append(q, t), u) <=> In(q, u) \/ u = t
         /\ Distinct(q) /\ ~In(q, t) => Distinct(Append(q, t))
<1> DEFINE a == Append(q, t)
<1>1. /\ a \in Seq(S) /\ Len(a) = Len(q) + 1
      /\ Len(q) \in Nat /\ DOMAIN q = 1..Len(q) /\ DOMAIN a = 1..(Len(q) + 1)
      /\ \A i \in 1..Len(q) : a[i] = q[i]
      /\ a[Len(q) + 1] = t
  OBVIOUS
<1> HIDE DEF a
<1>2. \A u : In(a, u) <=> In(q, u) \/ u = t
  <2> TAKE u
  <2>1. In(q, u) => In(a, u)
    BY <1>1 DEF In
  <2>2. u = t => In(a, u)
    BY <1>1 DEF In
  <2>3. In(a, u) => In(q, u) \/ u = t
    <3> SUFFICES ASSUME NEW i \in DOMAIN a, a[i] = u  PROVE In(q, u) \/ u = t
      BY DEF In
    <3>1. i \in 1..Len(q) \/ i = Len(q) + 1
      BY <1>1
    <3> QED  BY <3>1, <1>1 DEF In
  <2> QED  BY <2>1, <2>2, <2>3
<1>3. Distinct(q) /\ ~In(q, t) => Distinct(a)
  <2> SUFFICES ASSUME Distinct(q), ~In(q, t), NEW i \in DOMAIN a, NEW j \in DOMAIN a, a[i] = a[j]
               PROVE  i = j
    BY DEF Distinct
  <2>1. (i \in 1..Len(q) \/ i = Len(q) + 1) /\ (j \in 1..Len(q) \/ j = Len(q) + 1)
    BY <1>1
  <2> QED  BY <2>1, <1>1 DEF Distinct, In
<1> QED  BY <1>1, <1>2, <1>3 DEF a

\* ready_pop takes exactly the head.
LEMMA TailFacts ==
  ASSUME NEW S, NEW q \in Seq(S), q # <<>>
  PROVE  /\ Head(q) \in S
         /\ In(q, Head(q))
         /\ Tail(q) \in Seq(S)
         /\ \A u : In(Tail(q), u) => In(q, u)
         /\ \A u : In(q, u) => In(Tail(q), u) \/ u = Head(q)
         /\ Distinct(q) => Distinct(Tail(q)) /\ ~In(Tail(q), Head(q))
<1> DEFINE b == Tail(q)
<1>1. /\ b \in Seq(S) /\ Len(q) \in Nat /\ Len(q) >= 1
      /\ DOMAIN q = 1..Len(q) /\ DOMAIN b = 1..(Len(q) - 1)
      /\ \A i \in 1..(Len(q) - 1) : b[i] = q[i + 1]
      /\ Head(q) = q[1] /\ Head(q) \in S
  OBVIOUS
<1> HIDE DEF b
<1>2. In(q, Head(q))
  BY <1>1 DEF In
<1>3. \A u : In(b, u) => In(q, u)
  BY <1>1 DEF In
<1>4. ASSUME NEW u, In(q, u)  PROVE In(b, u) \/ u = Head(q)
  <2> PICK i \in DOMAIN q : q[i] = u
    BY <1>4 DEF In
  <2>1. CASE i = 1
    BY <2>1, <1>1
  <2>2. CASE i # 1
    <3>1. i - 1 \in 1..(Len(q) - 1) /\ (i - 1) + 1 = i
      BY <2>2, <1>1
    <3>2. b[i - 1] = u
      BY <3>1, <1>1
    <3> QED  BY <3>1, <3>2, <1>1 DEF In
  <2> QED  BY <2>1, <2>2
<1>5. ASSUME Distinct(q)  PROVE Distinct(b) /\ ~In(b, Head(q))
  <2>1. ASSUME NEW i \in DOMAIN b, NEW j \in DOMAIN b, b[i] = b[j]  PROVE i = j
    <3>1. i + 1 \in DOMAIN q /\ j + 1 \in DOMAIN q /\ q[i + 1] = q[j + 1]
      BY <2>1, <1>1
    <3> QED  BY <3>1, <1>5, <1>1 DEF Distinct
  <2>2. ASSUME NEW i \in DOMAIN b, b[i] = Head(q)  PROVE FALSE
    <3>1. i + 1 \in DOMAIN q /\ 1 \in DOMAIN q /\ q[i + 1] = q[1] /\ i + 1 # 1
      BY <2>2, <1>1
    <3> QED  BY <3>1, <1>5 DEF Distinct
  <2> QED  BY <2>1, <2>2 DEF Distinct, In
<1> QED  BY <1>1, <1>2, <1>3, <1>4, <1>5 DEF b

\* ready_remove takes exactly t.
LEMMA WithoutFacts ==
  ASSUME NEW S, NEW q \in Seq(S), NEW t, Distinct(q)
  PROVE  /\ Without(q, t) \in Seq(S)
         /\ Distinct(Without(q, t))
         /\ \A u : In(Without(q, t), u) <=> In(q, u) /\ u # t
<1>1. CASE ~ \E k \in DOMAIN q : q[k] = t
  <2>1. Without(q, t) = q
    BY <1>1 DEF Without
  <2> QED  BY <2>1, <1>1 DEF In
<1>2. CASE \E k \in DOMAIN q : q[k] = t
  <2> DEFINE k == CHOOSE k \in DOMAIN q : q[k] = t
             w == [i \in 1..(Len(q) - 1) |-> IF i < k THEN q[i] ELSE q[i + 1]]
  <2>1. k \in DOMAIN q /\ q[k] = t
    BY <1>2
  <2>2. Without(q, t) = w
    BY <1>2 DEF Without
  <2> HIDE DEF k
  <2>3. Len(q) \in Nat /\ DOMAIN q = 1..Len(q) /\ k \in 1..Len(q) /\ Len(q) - 1 \in Nat
    BY <2>1
  <2>4. \A i \in 1..Len(q) : q[i] \in S
    BY <2>3
  <2>5. \A i \in 1..(Len(q) - 1) : (IF i < k THEN q[i] ELSE q[i + 1]) \in S
    BY <2>3, <2>4
  <2>6. w \in [1..(Len(q) - 1) -> S]
    BY <2>5
  <2>7. w \in Seq(S) /\ DOMAIN w = 1..(Len(q) - 1)
    BY <2>6, <2>3, SeqDef
  <2>8. \A i \in 1..(Len(q) - 1) : w[i] = IF i < k THEN q[i] ELSE q[i + 1]
    OBVIOUS
  <2> HIDE DEF w
  <2>9. ASSUME NEW i \in DOMAIN w, NEW j \in DOMAIN w, w[i] = w[j]  PROVE i = j
    <3> DEFINE at(n) == IF n < k THEN n ELSE n + 1
    <3>1. /\ at(i) \in DOMAIN q /\ w[i] = q[at(i)]
          /\ at(j) \in DOMAIN q /\ w[j] = q[at(j)]
      BY <2>7, <2>8, <2>3
    <3>2. at(i) = at(j)
      BY <3>1, <2>9 DEF Distinct
    <3> QED  BY <3>2, <2>7, <2>3
  <2>10. ASSUME NEW u, In(w, u)  PROVE In(q, u) /\ u # t
    <3> PICK i \in DOMAIN w : w[i] = u
      BY <2>10 DEF In
    <3>1. CASE i < k
      <4>1. i \in DOMAIN q /\ q[i] = u /\ i # k
        BY <3>1, <2>7, <2>8, <2>3
      <4> QED  BY <4>1, <2>1 DEF Distinct, In
    <3>2. CASE ~(i < k)
      <4>1. i + 1 \in DOMAIN q /\ q[i + 1] = u /\ i + 1 # k
        BY <3>2, <2>7, <2>8, <2>3
      <4> QED  BY <4>1, <2>1 DEF Distinct, In
    <3> QED  BY <3>1, <3>2
  <2>11. ASSUME NEW u, In(q, u), u # t  PROVE In(w, u)
    <3> PICK i \in DOMAIN q : q[i] = u
      BY <2>11 DEF In
    <3>1. i # k
      BY <2>11, <2>1
    <3>2. CASE i < k
      <4>1. i \in DOMAIN w /\ w[i] = u
        BY <3>2, <2>7, <2>8, <2>3
      <4> QED  BY <4>1 DEF In
    <3>3. CASE i > k
      <4>1. i - 1 \in 1..(Len(q) - 1) /\ ~(i - 1 < k) /\ (i - 1) + 1 = i
        BY <3>3, <2>3
      <4>2. i - 1 \in DOMAIN w /\ w[i - 1] = u
        BY <4>1, <2>7, <2>8
      <4> QED  BY <4>2 DEF In
    <3> QED  BY <3>1, <3>2, <3>3, <2>3
  <2> QED  BY <2>2, <2>7, <2>9, <2>10, <2>11 DEF Distinct
<1> QED  BY <1>1, <1>2

\* Two lists without a common member, one after the other.
LEMMA ConcatFacts ==
  ASSUME NEW S, NEW q \in Seq(S), NEW r \in Seq(S)
  PROVE  /\ q \o r \in Seq(S)
         /\ \A u : In(q \o r, u) <=> In(q, u) \/ In(r, u)
         /\ Distinct(q) /\ Distinct(r) /\ (\A u : ~(In(q, u) /\ In(r, u))) => Distinct(q \o r)
<1> DEFINE c == q \o r
<1>1. /\ c \in Seq(S) /\ Len(q) \in Nat /\ Len(r) \in Nat
      /\ DOMAIN q = 1..Len(q) /\ DOMAIN r = 1..Len(r) /\ DOMAIN c = 1..(Len(q) + Len(r))
      /\ \A i \in 1..(Len(q) + Len(r)) : c[i] = IF i <= Len(q) THEN q[i] ELSE r[i - Len(q)]
  OBVIOUS
<1> HIDE DEF c
<1>2. ASSUME NEW u, In(c, u)  PROVE In(q, u) \/ In(r, u)
  <2> PICK i \in DOMAIN c : c[i] = u
    BY <1>2 DEF In
  <2>1. CASE i <= Len(q)
    BY <2>1, <1>1 DEF In
  <2>2. CASE ~(i <= Len(q))
    <3>1. i - Len(q) \in DOMAIN r /\ r[i - Len(q)] = u
      BY <2>2, <1>1
    <3> QED  BY <3>1 DEF In
  <2> QED  BY <2>1, <2>2
<1>3. ASSUME NEW u, In(q, u)  PROVE In(c, u)
  <2> PICK i \in DOMAIN q : q[i] = u
    BY <1>3 DEF In
  <2>1. i \in DOMAIN c /\ c[i] = u
    BY <1>1
  <2> QED  BY <2>1 DEF In
<1>4. ASSUME NEW u, In(r, u)  PROVE In(c, u)
  <2> PICK i \in DOMAIN r : r[i] = u
    BY <1>4 DEF In
  <2>1. /\ i + Len(q) \in DOMAIN c /\ ~(i + Len(q) <= Len(q))
        /\ (i + Len(q)) - Len(q) = i
    BY <1>1
  <2>2. c[i + Len(q)] = u
    BY <2>1, <1>1
  <2> QED  BY <2>1, <2>2 DEF In
<1>5. ASSUME Distinct(q), Distinct(r), \A u : ~(In(q, u) /\ In(r, u)),
             NEW i \in DOMAIN c, NEW j \in DOMAIN c, c[i] = c[j]
      PROVE  i = j
  <2>1. CASE i <= Len(q) /\ j <= Len(q)
    BY <2>1, <1>1, <1>5 DEF Distinct
  <2>2. CASE ~(i <= Len(q)) /\ ~(j <= Len(q))
    <3>1. /\ i - Len(q) \in DOMAIN r /\ j - Len(q) \in DOMAIN r
          /\ r[i - Len(q)] = r[j - Len(q)]
      BY <2>2, <1>1, <1>5
    <3> QED  BY <3>1, <1>1, <1>5 DEF Distinct
  <2>3. CASE i <= Len(q) /\ ~(j <= Len(q))
    <3>1. i \in DOMAIN q /\ j - Len(q) \in DOMAIN r /\ q[i] = r[j - Len(q)]
      BY <2>3, <1>1, <1>5
    <3> QED  BY <3>1, <1>5 DEF In
  <2>4. CASE ~(i <= Len(q)) /\ j <= Len(q)
    <3>1. j \in DOMAIN q /\ i - Len(q) \in DOMAIN r /\ q[j] = r[i - Len(q)]
      BY <2>4, <1>1, <1>5
    <3> QED  BY <3>1, <1>5 DEF In
  <2> QED  BY <2>1, <2>2, <2>3, <2>4
<1> QED  BY <1>1, <1>2, <1>3, <1>4, <1>5 DEF Distinct, c

-----------------------------------------------------------------------------

\* InSlotOrder enumerates a set of slots: the loop over the task table visits
\* every member exactly once.
LEMMA SlotOrderFacts ==
  ASSUME NEW All \in SUBSET Int, IsFiniteSet(All), NEW S \in SUBSET All
  PROVE  /\ InSlotOrder(S) \in Seq(All)
         /\ Distinct(InSlotOrder(S))
         /\ \A u : In(InSlotOrder(S), u) <=> u \in S
<1> DEFINE n == Cardinality(S)
           upTo(t) == {u \in S : u <= t}
           rank == [t \in S |-> Rank(S, t)]
           g == InSlotOrder(S)
<1>1. IsFiniteSet(All) /\ All \subseteq Int
  OBVIOUS
<1>2. IsFiniteSet(S) /\ n \in Nat
  BY <1>1, FS_Subset, FS_CardinalityType
<1>3. ASSUME NEW t \in S
      PROVE  /\ IsFiniteSet(upTo(t)) /\ Rank(S, t) = Cardinality(upTo(t))
             /\ Rank(S, t) \in 1..n
  <2>1. upTo(t) \in SUBSET S
    OBVIOUS
  <2>2. IsFiniteSet(upTo(t)) /\ Cardinality(upTo(t)) <= n /\ Cardinality(upTo(t)) \in Nat
    BY <2>1, <1>2, FS_Subset, FS_CardinalityType
  <2>3. t \in upTo(t)
    BY <1>1
  <2>4. Cardinality(upTo(t)) # 0
    BY <2>2, <2>3, FS_EmptySet
  <2> QED  BY <2>2, <2>4, <1>2 DEF Rank
<1>4. ASSUME NEW t \in S, NEW v \in S, t < v  PROVE Rank(S, t) # Rank(S, v)
  <2>1. t \in Int /\ v \in Int
    BY <1>1
  <2>2. upTo(t) \in SUBSET upTo(v)
    <3>1. \A u \in S : u \in Int
      BY <1>1
    <3>2. \A u \in S : u <= t => u <= v
      BY <3>1, <2>1, <1>4
    <3> QED  BY <3>2
  <2>3. v \in upTo(v) /\ v \notin upTo(t)
    BY <2>1, <1>4
  <2>4. Cardinality(upTo(v)) = Cardinality(upTo(t)) => upTo(v) = upTo(t)
    BY <2>2, <1>3, FS_Subset
  <2> QED  BY <2>3, <2>4, <1>3
<1>5. \A t, v \in S : Rank(S, t) = Rank(S, v) => t = v
  BY <1>4, <1>1
<1>6. rank \in Injection(S, 1..n)
  BY <1>3, <1>5 DEF Injection, IsInjective
<1>7. IsFiniteSet(1..n) /\ Cardinality(1..n) = n
  BY <1>2, FS_Interval
<1>8. rank \in Surjection(S, 1..n)
  BY <1>6, <1>7, FS_Injection
<1>9. \A i \in 1..n : \E t \in S : Rank(S, t) = i
  BY <1>8 DEF Surjection
<1>10. g = [i \in 1..n |-> CHOOSE t \in S : Rank(S, t) = i]
  BY DEF InSlotOrder
<1>11. \A i \in 1..n : g[i] \in S /\ Rank(S, g[i]) = i
  BY <1>9, <1>10
<1>12. DOMAIN g = 1..n
  BY <1>10
<1>13. g \in Seq(All)
  <2>1. g \in [1..n -> All]
    BY <1>10, <1>11
  <2> QED  BY <2>1, <1>2, SeqDef
<1> HIDE DEF g, n
<1>14. Distinct(g)
  BY <1>11, <1>12 DEF Distinct
<1>15. \A u : In(g, u) <=> u \in S
  <2>1. ASSUME NEW u \in S  PROVE In(g, u)
    <3>1. Rank(S, u) \in 1..n
      BY <1>3 DEF n
    <3>2. g[Rank(S, u)] = u
      BY <3>1, <1>11, <1>5
    <3> QED  BY <3>1, <3>2, <1>12 DEF In
  <2>2. ASSUME NEW u, In(g, u)  PROVE u \in S
    BY <2>2, <1>11, <1>12 DEF In
  <2> QED  BY <2>1, <2>2
<1> QED  BY <1>13, <1>14, <1>15 DEF g
=============================================================================
