--------------------------- MODULE ResourcesProofs ---------------------------
(***************************************************************************)
(* Blocks, handles and start calls for any number of callers, storages,    *)
(* blocks and handle slots and any width of the generation.                *)
(***************************************************************************)
EXTENDS Resources, CommonLemmas

SlotType == [pointer : Blocks \cup {None}, generation : Nat, kind : Kinds]

OwningPcs == {"create", "release"}
UsingPcs == {"resolved", "waiting"}
StartPcs == {"start", "init"}

\* Every variable the properties read has its type.
TypeInv ==
  /\ start \in Heaps \cup {None} /\ started \in BOOLEAN
  /\ free \subseteq Blocks
  /\ table \in [SlotIds -> SlotType]
  /\ uses \in [SlotIds -> Nat]
  /\ DOMAIN call = Callers
  /\ \A c \in Callers :
       /\ call[c].pc \in OwningPcs => call[c].pointer \in Blocks
       /\ call[c].pc = "create" => call[c].kind \in Kinds

\* At most one start call is under way, and it holds START_STATE; objects are
\* created only when it has succeeded.
StartInv ==
  /\ started => start # None
  /\ ~started => free = Blocks
  /\ \A c \in Callers :
       /\ call[c].pc \in StartPcs => ~started /\ start # None
       /\ call[c].pc \in OwningPcs \cup UsingPcs => started
  /\ \A c, d \in Callers : call[c].pc \in StartPcs /\ call[d].pc \in StartPcs => c = d

Holds(c, b) == call[c].pc \in OwningPcs /\ call[c].pointer = b

\* Nobody owns a free block, somebody owns every other one, and no two do.
OwnerInv ==
  /\ \A b \in free : /\ \A i \in SlotIds : table[i].pointer # b
                     /\ \A c \in Callers : ~Holds(c, b)
  /\ \A b \in Blocks \ free : \/ \E i \in SlotIds : table[i].pointer = b
                              \/ \E c \in Callers : Holds(c, b)
  /\ \A b \in Blocks :
       /\ \A i, j \in SlotIds : table[i].pointer = b /\ table[j].pointer = b => i = j
       /\ \A c, d \in Callers : Holds(c, b) /\ Holds(d, b) => c = d
       /\ \A i \in SlotIds, c \in Callers : ~(table[i].pointer = b /\ Holds(c, b))

\* The generation of the n-th object of a slot.
Generation(n) == ((n - 1) % GenerationMax) + 1

\* A slot carries the generation of its last object, and a handle names its
\* slot and the generation of its own object.
HandleInv ==
  /\ \A i \in SlotIds :
       table[i].generation = IF uses[i] = 0 THEN 0 ELSE Generation(uses[i])
  /\ \A h \in issued :
       /\ HandleSlot(h.raw) \in SlotIds
       /\ h.born \in Nat \ {0} /\ h.born <= uses[HandleSlot(h.raw)]
       /\ HandleGeneration(h.raw) = Generation(h.born)

\* The inductive invariant.
IInv ==
  /\ TypeInv
  /\ StartInv
  /\ OwnerInv
  /\ ReturnedToItsHeap
  /\ HandleInv
-----------------------------------------------------------------------------
(* Handles and generations. *)

\* next_generation counts 1, 2, ..., GenerationMax, 1, ...
LEMMA GenerationFacts ==
  ASSUME NEW n \in Nat \ {0}
  PROVE  /\ Generation(n) \in 1..GenerationMax
         /\ NextGeneration(Generation(n)) = Generation(n + 1)
         /\ Generation(1) = 1
<1> USE HandleAssumption
<1> DEFINE q == (n - 1) \div GenerationMax
           r == (n - 1) % GenerationMax
<1>1. q \in Int /\ r \in 0..(GenerationMax - 1) /\ n - 1 = q * GenerationMax + r
  <2>1. n - 1 \in Int /\ GenerationMax \in Nat \ {0}
    OBVIOUS
  <2>2. /\ q \in Int /\ r = (n - 1) - GenerationMax * q
        /\ r \in Nat /\ r < GenerationMax
    BY <2>1, DivFacts
  <2> HIDE DEF q, r
  <2> QED  BY <2>1, <2>2
<1>2. Generation(n) = r + 1
  BY DEF Generation
<1>3. Generation(1) = 1
  <2>1. (0 * GenerationMax + 0) % GenerationMax = 0
    BY DivUnique
  <2> QED  BY <2>1 DEF Generation
<1> HIDE DEF q, r
<1>4. CASE r = GenerationMax - 1
  <2>1. n = (q + 1) * GenerationMax + 0
    <3>1. (q + 1) * GenerationMax = q * GenerationMax + GenerationMax
      BY <1>1
    <3> QED  BY <1>1, <1>4, <3>1
  <2>2. n % GenerationMax = 0
    <3>1. q + 1 \in Int /\ 0 \in 0..(GenerationMax - 1)
      BY <1>1
    <3> QED  BY <2>1, <3>1, DivUnique
  <2>3. Generation(n + 1) = 1
    BY <2>2 DEF Generation
  <2> QED  BY <1>1, <1>2, <1>3, <1>4, <2>3 DEF NextGeneration
<1>5. CASE r # GenerationMax - 1
  <2>1. n = q * GenerationMax + (r + 1) /\ r + 1 \in 0..(GenerationMax - 1)
    BY <1>1, <1>5
  <2>2. n % GenerationMax = r + 1
    BY <1>1, <2>1, DivUnique
  <2>3. Generation(n + 1) = r + 2
    BY <1>1, <2>2 DEF Generation
  <2> QED  BY <1>1, <1>2, <1>3, <1>5, <2>3 DEF NextGeneration
<1> QED  BY <1>4, <1>5

\* decode of encode.
LEMMA EncodeFacts ==
  ASSUME NEW i \in SlotIds, NEW g \in Nat
  PROVE  HandleSlot(EncodeHandle(i, g)) = i /\ HandleGeneration(EncodeHandle(i, g)) = g
<1>1. i + 1 \in 0..(SlotBase - 1) /\ SlotBase \in Nat \ {0} /\ i \in Int
  BY HandleAssumption DEF SlotIds
<1>2. EncodeHandle(i, g) = g * SlotBase + (i + 1)
  BY <1>1 DEF EncodeHandle
<1>3. (g * SlotBase + (i + 1)) \div SlotBase = g /\ (g * SlotBase + (i + 1)) % SlotBase = i + 1
  <2> DEFINE r == i + 1
  <2>1. r \in 0..(SlotBase - 1) /\ g \in Int
    BY <1>1
  <2> HIDE DEF r
  <2>2. (g * SlotBase + r) \div SlotBase = g /\ (g * SlotBase + r) % SlotBase = r
    BY <1>1, <2>1, DivUnique
  <2> QED  BY <2>2 DEF r
<1> QED  BY <1>1, <1>2, <1>3 DEF HandleSlot, HandleGeneration

\* Two objects of a slot share their generation when a multiple of
\* GenerationMax lies between them.
LEMMA SameGeneration ==
  ASSUME NEW u \in Nat \ {0}, NEW b \in Nat \ {0}
  PROVE  (Generation(u) = Generation(b)) <=> ((u - b) % GenerationMax = 0)
<1> USE HandleAssumption
<1>1. ((u - 1) % GenerationMax = (b - 1) % GenerationMax)
        <=> (((u - 1) - (b - 1)) % GenerationMax = 0)
  <2> DEFINE x == u - 1
             y == b - 1
  <2>1. x \in Int /\ y \in Int /\ GenerationMax \in Nat \ {0}
    OBVIOUS
  <2> HIDE DEF x, y
  <2>2. (x % GenerationMax = y % GenerationMax) <=> ((x - y) % GenerationMax = 0)
    BY <2>1, SameRemainder
  <2> QED  BY <2>2 DEF x, y
<1>2. (u - 1) - (b - 1) = u - b
  OBVIOUS
<1>3. (u - 1) % GenerationMax \in Nat /\ (b - 1) % GenerationMax \in Nat
  BY DivFacts
<1>4. (Generation(u) = Generation(b))
        <=> ((u - 1) % GenerationMax = (b - 1) % GenerationMax)
  <2> DEFINE x == (u - 1) % GenerationMax
             y == (b - 1) % GenerationMax
  <2>1. x \in Nat /\ y \in Nat /\ Generation(u) = x + 1 /\ Generation(b) = y + 1
    BY <1>3 DEF Generation
  <2> HIDE DEF x, y
  <2> QED  BY <2>1 DEF x, y
<1> QED  BY <1>1, <1>2, <1>4
-----------------------------------------------------------------------------
(* The inductive invariant. *)

\* The places of a call at which it owns, uses or starts something differ.
LEMMA PcFacts ==
  /\ "idle" \notin OwningPcs \cup UsingPcs \cup StartPcs
  /\ "install" \notin OwningPcs \cup UsingPcs \cup StartPcs
  /\ OwningPcs \cap UsingPcs = {} /\ OwningPcs \cap StartPcs = {} /\ UsingPcs \cap StartPcs = {}
BY DEF OwningPcs, UsingPcs, StartPcs

\* A step of caller c moves nobody else.
LEMMA GotoFacts ==
  ASSUME TypeInv, NEW c \in Callers, NEW r, Goto(c, r)
  PROVE  /\ DOMAIN call' = Callers
         /\ call'[c] = r
         /\ \A d \in Callers : d # c => call'[d] = call[d]
BY DEF TypeInv, Goto

\* Before install and start nothing is allocated.
LEMMA InitInv == Init => IInv
<1> SUFFICES ASSUME Init PROVE IInv
  OBVIOUS
<1> USE NoneAssumption DEF Init
<1>1. \A c \in Callers : call[c].pc = "idle"
  BY DEF Idle
<1>2. \A i \in SlotIds : table[i].pointer = None /\ table[i].generation = 0
  BY DEF EmptySlot
<1>3. TypeInv
  <2>1. EmptySlot \in SlotType
    BY DEF EmptySlot, SlotType, Kinds
  <2>2. table \in [SlotIds -> SlotType] /\ uses \in [SlotIds -> Nat]
    BY <2>1
  <2> QED  BY <1>1, <2>2, PcFacts DEF TypeInv
<1>4. StartInv
  BY <1>1, PcFacts DEF StartInv
<1>5. OwnerInv
  BY <1>1, <1>2, PcFacts DEF OwnerInv, Holds
<1>6. ReturnedToItsHeap
  BY DEF ReturnedToItsHeap
<1>7. HandleInv
  BY <1>2 DEF HandleInv
<1> QED  BY <1>3, <1>4, <1>5, <1>6, <1>7 DEF IInv

\* A step that leaves table, heap and START_STATE alone, of a caller that owns no
\* block.
LEMMA QuietStep ==
  ASSUME IInv, NEW c \in Callers, NEW r, Goto(c, r), call[c].pc \notin OwningPcs,
         r.pc \notin OwningPcs \cup StartPcs, r.pc \in UsingPcs => started,
         UNCHANGED <<start, started, tableVars, free>>
  PROVE  IInv'
<1>0. /\ TypeInv /\ StartInv /\ OwnerInv /\ ReturnedToItsHeap /\ HandleInv
      /\ UNCHANGED <<start, started, table, uses, issued, free>>
  BY DEF IInv, tableVars
<1>1. /\ DOMAIN call' = Callers
      /\ call'[c].pc \notin OwningPcs \cup StartPcs /\ call'[c].pc # "create"
      /\ call'[c].pc \in UsingPcs => started
      /\ \A d \in Callers : d # c => call'[d] = call[d]
  BY <1>0, GotoFacts DEF OwningPcs
<1>2. TypeInv'
  BY <1>0, <1>1 DEF TypeInv
<1>3. StartInv'
  BY <1>0, <1>1 DEF StartInv
<1>4. \A d \in Callers : \A b : Holds(d, b)' <=> Holds(d, b)
  BY <1>1 DEF Holds
<1>5. OwnerInv'
  BY <1>0, <1>4 DEF OwnerInv
<1>6. ReturnedToItsHeap' /\ HandleInv'
  BY <1>0 DEF ReturnedToItsHeap, HandleInv
<1> QED  BY <1>2, <1>3, <1>5, <1>6 DEF IInv

\* A step that leaves all of it alone.
LEMMA UnchangedStep ==
  ASSUME IInv, UNCHANGED <<start, started, tableVars, free, call>>
  PROVE  IInv'
BY DEF IInv, TypeInv, StartInv, OwnerInv, Holds, ReturnedToItsHeap, HandleInv, tableVars

\* install, and the operations on semaphores and mutexes.
LEMMA QuietActions ==
  ASSUME IInv, NEW c \in Callers,
         \/ \E q \in Placements : InstallClaim(c, q[1], q[2])
         \/ InstallInit(c) \/ Operating(c)
  PROVE  IInv'
<1> USE DEF bootVars
<1>0. Idle.pc = "idle"
  BY DEF Idle
<1>1. CASE \E q \in Placements : InstallClaim(c, q[1], q[2])
  <2>1. PICK q \in Placements : InstallClaim(c, q[1], q[2])
    BY <1>1
  <2>2. call[c].pc \notin OwningPcs
    BY <2>1, PcFacts DEF InstallClaim, MayCall
  <2>3. Goto(c, [pc |-> "install", storage |-> q[1], arena |-> q[2]])
        /\ UNCHANGED <<start, started, tableVars, free>>
    BY <2>1 DEF InstallClaim
  <2> QED  BY <2>2, <2>3, PcFacts, QuietStep
<1>2. CASE InstallInit(c)
  BY <1>0, <1>2, PcFacts, QuietStep DEF InstallInit, At, Return
<1>3. CASE \E h \in issued, k \in Kinds : CallResolve(c, h.raw, k)
  <2>1. PICK h \in issued, k \in Kinds : CallResolve(c, h.raw, k)
    BY <1>3
  <2>2. /\ call[c].pc \notin OwningPcs /\ started
        /\ Goto(c, [pc |-> "resolved", pointer |-> Resolve(h.raw, k), kind |-> k])
        /\ UNCHANGED <<start, started, tableVars, free>>
    BY <2>1, PcFacts DEF CallResolve, MayCall
  <2>3. "resolved" \notin OwningPcs \cup StartPcs
    BY DEF OwningPcs, StartPcs
  <2> QED  BY <2>2, <2>3, QuietStep
<1>4. CASE CallWaits(c)
  <2>1. call[c].pc = "resolved" /\ started
    BY <1>4 DEF CallWaits, At, IInv, StartInv, UsingPcs
  <2>2. Goto(c, [pc |-> "waiting"]) /\ UNCHANGED <<start, started, tableVars, free>>
    BY <1>4 DEF CallWaits
  <2>3. "resolved" \notin OwningPcs /\ "waiting" \notin OwningPcs \cup StartPcs
    BY DEF OwningPcs, StartPcs
  <2> QED  BY <2>1, <2>2, <2>3, QuietStep
<1>5. CASE LockTakes(c) \/ Up(c) \/ Unlock(c) \/ CallReturns(c) \/ CallResumes(c)
  <2>1. call[c].pc \notin OwningPcs
    BY <1>5 DEF LockTakes, Up, Unlock, CallReturns, CallResumes, Using, At, OwningPcs
  <2>2. Goto(c, Idle) /\ UNCHANGED <<start, started, tableVars, free>>
    BY <1>5 DEF LockTakes, Up, Unlock, CallReturns, CallResumes, Return
  <2> QED  BY <1>0, <2>1, <2>2, PcFacts, QuietStep
<1>6. CASE WaitEnds(c) \/ CancelGrant(c)
  BY <1>6, UnchangedStep DEF WaitEnds, CancelGrant
<1> QED  BY <1>1, <1>2, <1>3, <1>4, <1>5, <1>6 DEF Operating

\* The start calls: START_STATE changes only while nothing is allocated.
LEMMA StartStep ==
  ASSUME IInv, NEW c \in Callers, NEW r, Goto(c, r), call[c].pc \notin OwningPcs \cup UsingPcs,
         r.pc \notin OwningPcs \cup UsingPcs, UNCHANGED <<tableVars, free>>, ~started,
         start' \in Heaps \cup {None}, started' \in BOOLEAN,
         started' => start' # None, r.pc \in StartPcs => ~started' /\ start' # None,
         \A d \in Callers : call[d].pc \in StartPcs => d = c
  PROVE  IInv'
<1>0. /\ TypeInv /\ StartInv /\ OwnerInv /\ ReturnedToItsHeap /\ HandleInv
      /\ UNCHANGED <<table, uses, issued, free>> /\ free = Blocks
  BY DEF IInv, tableVars, StartInv
<1>1. /\ DOMAIN call' = Callers /\ call'[c] = r
      /\ \A d \in Callers : d # c => call'[d] = call[d]
  BY <1>0, GotoFacts
<1>2. \A d \in Callers : /\ call[d].pc \notin OwningPcs \cup UsingPcs
                         /\ call'[d].pc \notin OwningPcs \cup UsingPcs
  BY <1>0, <1>1 DEF StartInv
<1>3. TypeInv'
  <2>1. \A d \in Callers : call'[d].pc # "create"
    BY <1>2 DEF OwningPcs
  <2> QED  BY <1>0, <1>1, <1>2, <2>1 DEF TypeInv
<1>4. StartInv'
  BY <1>0, <1>1, <1>2 DEF StartInv
<1>5. OwnerInv'
  BY <1>0, <1>2 DEF OwnerInv, Holds
<1>6. ReturnedToItsHeap' /\ HandleInv'
  BY <1>0 DEF ReturnedToItsHeap, HandleInv
<1> QED  BY <1>3, <1>4, <1>5, <1>6 DEF IInv

\* The three steps of start_inner.
LEMMA StartActions ==
  ASSUME IInv, NEW c \in Callers,
         (\E h \in Heaps : StartClaim(c, h)) \/ StartDriver(c) \/ StartInit(c)
  PROVE  IInv'
<1>0. TypeInv /\ StartInv
  BY DEF IInv
<1>1. CASE \E h \in Heaps : StartClaim(c, h)
  <2>1. PICK h \in Heaps : StartClaim(c, h)
    BY <1>1
  <2>2. h # None
    BY NoneAssumption
  <2>3. CASE start = None /\ start' = h /\ Goto(c, [pc |-> "start"])
    <3>1. /\ UNCHANGED <<started, tableVars, free>> /\ call[c].pc = "idle"
      BY <2>1 DEF StartClaim, MayCall
    <3>2. ~started /\ \A d \in Callers : call[d].pc \notin StartPcs
      BY <1>0, <2>3 DEF StartInv
    <3>3. /\ "start" \in StartPcs /\ "start" \notin OwningPcs \cup UsingPcs
          /\ [pc |-> "start"].pc = "start"
      BY DEF StartPcs, OwningPcs, UsingPcs
    <3> QED  BY <1>0, <2>2, <2>3, <3>1, <3>2, <3>3, PcFacts, StartStep DEF TypeInv
  <2>4. CASE UNCHANGED <<start, call>>
    BY <2>1, <2>4, UnchangedStep DEF StartClaim
  <2> QED  BY <2>1, <2>3, <2>4 DEF StartClaim, StartFree
<1>2. CASE StartDriver(c) \/ StartInit(c)
  <2>1. /\ call[c].pc \in StartPcs /\ UNCHANGED <<tableVars, free>>
        /\ call[c].pc \notin OwningPcs \cup UsingPcs
    BY <1>2 DEF StartDriver, StartInit, At, StartPcs, OwningPcs, UsingPcs
  <2>2. /\ ~started /\ start # None
        /\ \A d \in Callers : call[d].pc \in StartPcs => d = c
    BY <1>0, <2>1 DEF StartInv
  <2>3. Idle.pc = "idle" /\ [pc |-> "init"].pc = "init" /\ "init" \in StartPcs
        /\ "init" \notin OwningPcs \cup UsingPcs
    BY DEF Idle, StartPcs, OwningPcs, UsingPcs
  <2>4. CASE StartDriver(c) /\ Goto(c, [pc |-> "init"]) /\ start' = start /\ started' = started
    BY <1>0, <2>1, <2>2, <2>3, <2>4, StartStep DEF TypeInv
  <2>5. CASE StartDriver(c) /\ Goto(c, Idle) /\ start' = None /\ started' = started
    BY <1>0, <2>1, <2>2, <2>3, <2>5, PcFacts, StartStep DEF TypeInv
  <2>6. CASE StartInit(c)
    <3>1. Goto(c, Idle) /\ start' = start /\ started' = TRUE
      BY <2>6 DEF StartInit, Return
    <3> QED  BY <1>0, <2>1, <2>2, <2>3, <3>1, PcFacts, StartStep DEF TypeInv
  <2> QED  BY <1>2, <2>4, <2>5, <2>6 DEF StartDriver, Return
<1> QED  BY <1>1, <1>2
\* allocate hands out a free block of the heap that START_STATE names.
LEMMA CreateAllocateInv ==
  ASSUME IInv, NEW c \in Callers, NEW k \in Kinds, CreateAllocate(c, k)
  PROVE  IInv'
<1>1. PICK b \in free : /\ b[1] = start /\ free' = free \ {b}
                        /\ Goto(c, [pc |-> "create", pointer |-> b, kind |-> k])
  BY DEF CreateAllocate
<1>2. /\ TypeInv /\ StartInv /\ OwnerInv /\ ReturnedToItsHeap /\ HandleInv
      /\ started /\ call[c].pc = "idle" /\ UNCHANGED <<start, started, table, uses, issued>>
  BY DEF IInv, CreateAllocate, MayCall, bootVars, tableVars
<1>3. /\ DOMAIN call' = Callers
      /\ call'[c].pc = "create" /\ call'[c].pointer = b /\ call'[c].kind = k
      /\ \A d \in Callers : d # c => call'[d] = call[d]
  BY <1>1, <1>2, GotoFacts
<1>4. b \in Blocks
  BY <1>2 DEF TypeInv
<1>5. TypeInv'
  <2>1. free' \subseteq Blocks
    BY <1>1, <1>2 DEF TypeInv
  <2> QED  BY <1>2, <1>3, <1>4, <2>1 DEF TypeInv
<1>6. StartInv'
  BY <1>2, <1>3 DEF StartInv, StartPcs
<1>7. /\ \A d \in Callers : \A x : d # c => (Holds(d, x)' <=> Holds(d, x))
      /\ \A x : Holds(c, x)' <=> x = b
      /\ \A x : ~Holds(c, x)
  BY <1>2, <1>3 DEF Holds, OwningPcs
<1>8. OwnerInv'
  <2>1. /\ \A i \in SlotIds : table[i].pointer # b
        /\ \A d \in Callers : ~Holds(d, b)
    BY <1>2 DEF OwnerInv
  <2> QED  BY <1>1, <1>2, <1>7, <2>1 DEF OwnerInv
<1>9. ReturnedToItsHeap' /\ HandleInv'
  BY <1>1, <1>2 DEF ReturnedToItsHeap, HandleInv
<1> QED  BY <1>5, <1>6, <1>8, <1>9 DEF IInv

\* insert moves the block from the call to the table.
LEMMA CreateInsertInv ==
  ASSUME IInv, NEW c \in Callers, CreateInsert(c)
  PROVE  IInv'
<1> DEFINE p == call[c].pointer
           k == call[c].kind
           g(i) == NextGeneration(table[i].generation)
<1>1. PICK i \in FreeSlots :
        /\ table' = [table EXCEPT ![i] = [pointer |-> p, generation |-> g(i), kind |-> k]]
        /\ issued' = issued \cup {[raw |-> EncodeHandle(i, g(i)), born |-> uses[i] + 1]}
        /\ uses' = [uses EXCEPT ![i] = @ + 1]
  BY DEF CreateInsert
<1>2. /\ TypeInv /\ StartInv /\ OwnerInv /\ ReturnedToItsHeap /\ HandleInv
      /\ call[c].pc = "create" /\ Goto(c, Idle) /\ UNCHANGED <<start, started, free>>
  BY DEF IInv, CreateInsert, At, Return, bootVars
<1>3. i \in SlotIds /\ table[i].pointer = None
  BY <1>1 DEF FreeSlots
<1>4. p \in Blocks /\ k \in Kinds /\ p # None
  BY <1>2, NoneAssumption DEF TypeInv, OwningPcs
<1>5. /\ DOMAIN call' = Callers /\ call'[c].pc = "idle"
      /\ \A d \in Callers : d # c => call'[d] = call[d]
  BY <1>2, GotoFacts DEF Idle
<1>6. uses[i] \in Nat /\ g(i) = Generation(uses[i] + 1) /\ g(i) \in Nat
  <2>1. uses[i] \in Nat /\ table[i].generation = IF uses[i] = 0 THEN 0 ELSE Generation(uses[i])
    BY <1>2, <1>3 DEF TypeInv, HandleInv
  <2>2. CASE uses[i] = 0
    BY <2>1, <2>2, GenerationFacts DEF NextGeneration
  <2>3. CASE uses[i] # 0
    <3>1. uses[i] \in Nat \ {0} /\ uses[i] + 1 \in Nat \ {0}
      BY <2>1, <2>3
    <3> QED  BY <2>1, <2>3, <3>1, GenerationFacts, HandleAssumption
  <2> QED  BY <2>2, <2>3
<1> HIDE DEF g
<1>7. /\ \A j \in SlotIds : j # i => table'[j] = table[j]
      /\ table'[i].pointer = p /\ table'[i].generation = g(i)
      /\ \A j \in SlotIds : uses'[j] = IF j = i THEN uses[i] + 1 ELSE uses[j]
      /\ table' \in [SlotIds -> SlotType] /\ uses' \in [SlotIds -> Nat]
  <2>1. [pointer |-> p, generation |-> g(i), kind |-> k] \in SlotType
    BY <1>4, <1>6 DEF SlotType
  <2>2. table \in [SlotIds -> SlotType] /\ uses \in [SlotIds -> Nat]
    BY <1>2 DEF TypeInv
  <2> QED  BY <1>1, <1>3, <1>6, <2>1, <2>2
<1>8. TypeInv'
  BY <1>2, <1>5, <1>7, PcFacts DEF TypeInv
<1>9. StartInv'
  BY <1>2, <1>5, PcFacts DEF StartInv
<1>10. /\ \A d \in Callers : \A x : Holds(d, x)' <=> d # c /\ Holds(d, x)
       /\ \A x : Holds(c, x) <=> x = p
  BY <1>2, <1>5, PcFacts DEF Holds, OwningPcs
<1>11. OwnerInv'
  <2>1. /\ \A b \in Blocks : b # None
        /\ p \notin free /\ (\A j \in SlotIds : table[j].pointer # p)
        /\ \A d \in Callers : d # c => ~Holds(d, p)
    BY <1>2, <1>4, <1>10, NoneAssumption DEF OwnerInv
  <2>2. \A b \in free' : /\ \A j \in SlotIds : table'[j].pointer # b
                         /\ \A d \in Callers : ~Holds(d, b)'
    BY <1>2, <1>7, <1>10, <2>1 DEF OwnerInv
  <2>3. \A b \in Blocks \ free' : \/ \E j \in SlotIds : table'[j].pointer = b
                                  \/ \E d \in Callers : Holds(d, b)'
    <3> SUFFICES ASSUME NEW b \in Blocks \ free
                 PROVE  \/ \E j \in SlotIds : table'[j].pointer = b
                        \/ \E d \in Callers : Holds(d, b)'
      BY <1>2
    <3>1. CASE b = p
      BY <1>3, <1>7, <3>1
    <3>2. CASE b # p
      <4>1. \/ \E j \in SlotIds : j # i /\ table[j].pointer = b
            \/ \E d \in Callers : d # c /\ Holds(d, b)
        BY <1>2, <1>3, <1>10, <2>1, <3>2 DEF OwnerInv
      <4> QED  BY <1>7, <1>10, <4>1
    <3> QED  BY <3>1, <3>2
  <2>4. \A b \in Blocks :
          /\ \A j, l \in SlotIds : table'[j].pointer = b /\ table'[l].pointer = b => j = l
          /\ \A d, e \in Callers : Holds(d, b)' /\ Holds(e, b)' => d = e
          /\ \A j \in SlotIds, d \in Callers : ~(table'[j].pointer = b /\ Holds(d, b)')
    BY <1>2, <1>7, <1>10, <2>1 DEF OwnerInv
  <2> QED  BY <2>2, <2>3, <2>4 DEF OwnerInv
<1>12. ReturnedToItsHeap'
  BY <1>2 DEF ReturnedToItsHeap
<1>13. HandleInv'
  <2>1. \A j \in SlotIds :
          table'[j].generation = IF uses'[j] = 0 THEN 0 ELSE Generation(uses'[j])
    BY <1>2, <1>6, <1>7 DEF HandleInv
  <2>2. ASSUME NEW h \in issued
        PROVE  /\ HandleSlot(h.raw) \in SlotIds
               /\ h.born \in Nat \ {0} /\ h.born <= uses'[HandleSlot(h.raw)]
               /\ HandleGeneration(h.raw) = Generation(h.born)
    <3>1. /\ HandleSlot(h.raw) \in SlotIds
          /\ h.born \in Nat \ {0} /\ h.born <= uses[HandleSlot(h.raw)]
          /\ HandleGeneration(h.raw) = Generation(h.born)
      BY <1>2 DEF HandleInv
    <3> QED  BY <1>6, <1>7, <3>1
  <2>3. LET h == [raw |-> EncodeHandle(i, g(i)), born |-> uses[i] + 1]
        IN  /\ HandleSlot(h.raw) \in SlotIds
            /\ h.born \in Nat \ {0} /\ h.born <= uses'[HandleSlot(h.raw)]
            /\ HandleGeneration(h.raw) = Generation(h.born)
    <3>1. HandleSlot(EncodeHandle(i, g(i))) = i /\ HandleGeneration(EncodeHandle(i, g(i))) = g(i)
      BY <1>3, <1>6, EncodeFacts
    <3> QED  BY <1>3, <1>6, <1>7, <3>1
  <2> QED  BY <1>1, <2>1, <2>2, <2>3 DEF HandleInv
<1> QED  BY <1>8, <1>9, <1>11, <1>12, <1>13 DEF IInv

\* A refused creation keeps its block until deallocate.
LEMMA CreateRefusedInv ==
  ASSUME IInv, NEW c \in Callers, CreateRefused(c)
  PROVE  IInv'
<1>1. /\ TypeInv /\ StartInv /\ OwnerInv /\ ReturnedToItsHeap /\ HandleInv
      /\ call[c].pc = "create" /\ UNCHANGED <<start, started, table, uses, issued, free>>
      /\ Goto(c, [pc |-> "release", pointer |-> call[c].pointer])
  BY DEF IInv, CreateRefused, At, bootVars, tableVars
<1>2. /\ DOMAIN call' = Callers
      /\ call'[c].pc = "release" /\ call'[c].pointer = call[c].pointer
      /\ \A d \in Callers : d # c => call'[d] = call[d]
  BY <1>1, GotoFacts
<1>3. "release" \in OwningPcs /\ "create" \in OwningPcs
  BY DEF OwningPcs
<1>4. TypeInv' /\ StartInv'
  BY <1>1, <1>2, <1>3, PcFacts DEF TypeInv, StartInv
<1>5. \A d \in Callers : \A b : Holds(d, b)' <=> Holds(d, b)
  BY <1>1, <1>2, <1>3 DEF Holds
<1>6. OwnerInv'
  BY <1>1, <1>5 DEF OwnerInv
<1>7. ReturnedToItsHeap' /\ HandleInv'
  BY <1>1 DEF ReturnedToItsHeap, HandleInv
<1> QED  BY <1>4, <1>6, <1>7 DEF IInv

\* deallocate returns the block itself, since it came from the heap that
\* START_STATE names.
LEMMA DeallocateInv ==
  ASSUME IInv, NEW c \in Callers, Deallocate(c)
  PROVE  IInv'
<1> DEFINE p == call[c].pointer
<1>1. /\ TypeInv /\ StartInv /\ OwnerInv /\ ReturnedToItsHeap /\ HandleInv
      /\ call[c].pc = "release" /\ UNCHANGED <<start, started, table, uses, issued>>
      /\ Goto(c, Idle) /\ free' = free \cup {<<start, p[2]>>}
  BY DEF IInv, Deallocate, At, Return, bootVars, tableVars
<1>2. /\ DOMAIN call' = Callers /\ call'[c].pc = "idle"
      /\ \A d \in Callers : d # c => call'[d] = call[d]
  BY <1>1, GotoFacts DEF Idle
<1>3. p \in Blocks /\ p \notin free /\ started
  BY <1>1 DEF TypeInv, StartInv, OwnerInv, Holds, OwningPcs
<1>4. <<start, p[2]>> = p
  BY <1>1, <1>3 DEF ReturnedToItsHeap, Blocks
<1>5. free' = free \cup {p}
  BY <1>1, <1>4
<1>6. TypeInv' /\ StartInv'
  <2>1. free' \subseteq Blocks
    BY <1>1, <1>3, <1>5 DEF TypeInv
  <2> QED  BY <1>1, <1>2, <1>3, <2>1, PcFacts DEF TypeInv, StartInv
<1>7. /\ \A d \in Callers : \A x : Holds(d, x)' <=> d # c /\ Holds(d, x)
      /\ \A x : Holds(c, x) <=> x = p
  BY <1>1, <1>2, PcFacts DEF Holds, OwningPcs
<1>8. OwnerInv'
  BY <1>1, <1>3, <1>5, <1>7 DEF OwnerInv
<1>9. ReturnedToItsHeap' /\ HandleInv'
  BY <1>1, <1>5 DEF ReturnedToItsHeap, HandleInv
<1> QED  BY <1>6, <1>8, <1>9 DEF IInv
\* resolve returns the pointer of an occupied slot, or nothing.
LEMMA ResolveFacts ==
  ASSUME IInv, NEW raw, NEW k \in Kinds, Resolve(raw, k) # None
  PROVE  /\ HandleSlot(raw) \in SlotIds
         /\ table[HandleSlot(raw)].pointer = Resolve(raw, k)
         /\ table[HandleSlot(raw)].kind = k
         /\ Resolve(raw, k) \in Blocks
<1>1. /\ HandleSlot(raw) \in SlotIds /\ table[HandleSlot(raw)].pointer = Resolve(raw, k)
      /\ table[HandleSlot(raw)].kind = k
  BY DEF Resolve
<1> QED  BY <1>1 DEF IInv, TypeInv, SlotType

\* destroy moves the block from the table to the call.
LEMMA DestroyInv ==
  ASSUME IInv, NEW c \in Callers, NEW raw, NEW k \in Kinds, Destroy(c, raw, k)
  PROVE  IInv'
<1> DEFINE p == Resolve(raw, k)
           i == HandleSlot(raw)
<1>1. /\ TypeInv /\ StartInv /\ OwnerInv /\ ReturnedToItsHeap /\ HandleInv
      /\ call[c].pc = "idle" /\ started /\ UNCHANGED <<start, started, uses, issued, free>>
      /\ Goto(c, [pc |-> "release", pointer |-> p])
      /\ table' = [table EXCEPT ![i].pointer = None]
      /\ p # None
  BY DEF IInv, Destroy, MayCall, bootVars
<1>3. i \in SlotIds /\ table[i].pointer = p /\ p \in Blocks
  BY <1>1, ResolveFacts
<1> HIDE DEF p, i
<1>4. /\ DOMAIN call' = Callers /\ call'[c].pc = "release" /\ call'[c].pointer = p
      /\ \A d \in Callers : d # c => call'[d] = call[d]
  BY <1>1, GotoFacts
<1>5. /\ \A j \in SlotIds : j # i => table'[j] = table[j]
      /\ table'[i].pointer = None
      /\ \A j \in SlotIds : table'[j].generation = table[j].generation
      /\ table' \in [SlotIds -> SlotType]
  BY <1>1, <1>3 DEF TypeInv, SlotType
<1>6. TypeInv' /\ StartInv'
  BY <1>1, <1>3, <1>4, <1>5 DEF TypeInv, StartInv, OwningPcs, StartPcs
<1>7. /\ \A d \in Callers : \A x : d # c => (Holds(d, x)' <=> Holds(d, x))
      /\ \A x : Holds(c, x)' <=> x = p
      /\ \A x : ~Holds(c, x)
  BY <1>1, <1>4 DEF Holds, OwningPcs
<1>8. OwnerInv'
  <2>1. /\ \A b \in Blocks : b # None
        /\ p \notin free /\ (\A j \in SlotIds : table[j].pointer = p => j = i)
        /\ \A d \in Callers : ~Holds(d, p)
    BY <1>1, <1>3, NoneAssumption DEF OwnerInv
  <2>2. \A b \in free' : /\ \A j \in SlotIds : table'[j].pointer # b
                         /\ \A d \in Callers : ~Holds(d, b)'
    <3>1. \A b \in free : b \in Blocks
      BY <1>1 DEF TypeInv
    <3> QED  BY <1>1, <1>5, <1>7, <2>1, <3>1 DEF OwnerInv
  <2>3. \A b \in Blocks \ free' : \/ \E j \in SlotIds : table'[j].pointer = b
                                  \/ \E d \in Callers : Holds(d, b)'
    <3> SUFFICES ASSUME NEW b \in Blocks \ free
                 PROVE  \/ \E j \in SlotIds : table'[j].pointer = b
                        \/ \E d \in Callers : Holds(d, b)'
      BY <1>1
    <3>1. CASE b = p
      BY <1>7, <3>1
    <3>2. CASE b # p
      <4>1. \/ \E j \in SlotIds : j # i /\ table[j].pointer = b
            \/ \E d \in Callers : d # c /\ Holds(d, b)
        BY <1>1, <1>3, <1>7, <3>2 DEF OwnerInv
      <4> QED  BY <1>5, <1>7, <4>1
    <3> QED  BY <3>1, <3>2
  <2>4. \A b \in Blocks :
          /\ \A j, l \in SlotIds : table'[j].pointer = b /\ table'[l].pointer = b => j = l
          /\ \A d, e \in Callers : Holds(d, b)' /\ Holds(e, b)' => d = e
          /\ \A j \in SlotIds, d \in Callers : ~(table'[j].pointer = b /\ Holds(d, b)')
    BY <1>1, <1>5, <1>7, <2>1 DEF OwnerInv
  <2> QED  BY <2>2, <2>3, <2>4 DEF OwnerInv
<1>9. ReturnedToItsHeap'
  BY <1>1 DEF ReturnedToItsHeap
<1>10. HandleInv'
  BY <1>1, <1>5 DEF HandleInv
<1> QED  BY <1>6, <1>8, <1>9, <1>10 DEF IInv

\* Every step preserves the inductive invariant.
LEMMA NextInv == IInv /\ [Next]_vars => IInv'
<1> SUFFICES ASSUME IInv, [Next]_vars PROVE IInv'
  OBVIOUS
<1>1. CASE UNCHANGED vars
  BY <1>1, UnchangedStep DEF vars, bootVars
<1>2. ASSUME NEW c \in Callers, Booting(c) PROVE IInv'
  BY <1>2, QuietActions, StartActions DEF Booting
<1>3. ASSUME NEW c \in Callers, Managing(c) PROVE IInv'
  BY <1>3, CreateAllocateInv, CreateInsertInv, CreateRefusedInv, DeallocateInv, DestroyInv
     DEF Managing
<1>4. ASSUME NEW c \in Callers, Operating(c) PROVE IInv'
  BY <1>4, QuietActions
<1> QED  BY <1>1, <1>2, <1>3, <1>4 DEF Next

\* The inductive invariant holds in every reachable state.
LEMMA Invariance == Spec => []IInv
<1> QED  BY InitInv, NextInv, PTL DEF Spec

-----------------------------------------------------------------------------
(* The pointers of waiting callers. *)

ObjectType == [owner : Callers \cup {None}, waiters : SUBSET Callers]
TcbType == [pointer : Blocks \cup {None}, kind : Kinds, granted : BOOLEAN]

ObjectTypeInv ==
  /\ words \in [Blocks -> ObjectType]
  /\ tcb \in [Callers -> TcbType]
  /\ held \subseteq Callers \X Blocks

\* A resolved pointer is registered until the operation has used it: what the
\* contract of destroy gives.
ResolvedInv ==
  \A c \in Callers : call[c].pc = "resolved" =>
    /\ call[c].pointer \in Blocks /\ call[c].kind \in Kinds
    /\ Registered(call[c].pointer, call[c].kind)

\* The queue of an object and the waiting words of the callers agree, and only a
\* caller that waits has a pointer.
WaitInv ==
  /\ \A p \in Blocks, c \in Callers :
       c \in words[p].waiters <=> tcb[c].pointer = p /\ ~tcb[c].granted
  /\ \A c \in Callers : tcb[c].pointer # None => call[c].pc = "waiting"
  /\ \A c \in Callers : tcb[c].granted => tcb[c].pointer # None

MutexGranted(c, p) == tcb[c].granted /\ tcb[c].kind = "Mutex" /\ tcb[c].pointer = p

\* The owner word of a mutex names the caller that holds it or that it was granted
\* to, and nobody waits for a mutex that it holds.
HeldInv ==
  \A c \in Callers, p \in Blocks :
    /\ MutexGranted(c, p) => words[p].owner = c
    /\ <<c, p>> \in held => words[p].owner = c /\ tcb[c].pointer # p

\* What keeps PointersLive: on top of IInv, destroy's look at the words of the
\* object is a look at every pointer to it.
ObjectInv ==
  /\ ObjectTypeInv
  /\ ResolvedInv
  /\ WaitInv
  /\ HeldInv
  /\ PointersLive

\* A block is registered under one kind.
LEMMA OneKind ==
  ASSUME IInv, NEW p \in Blocks, NEW k, NEW l, Registered(p, k), Registered(p, l)
  PROVE  k = l
BY DEF IInv, OwnerInv, Registered

\* Nothing points to a block that is not registered.
LEMMA Unregistered ==
  ASSUME ObjectInv, NEW p \in Blocks, \A k \in Kinds : ~Registered(p, k)
  PROVE  /\ \A c \in Callers : tcb[c].pointer # p /\ <<c, p>> \notin held
         /\ \A c \in Callers : call[c].pc = "resolved" => call[c].pointer # p
<1>1. ObjectTypeInv /\ ResolvedInv /\ PointersLive
  BY DEF ObjectInv
<1>2. \A c \in Callers : tcb[c].kind \in Kinds
  BY <1>1 DEF ObjectTypeInv, TcbType
<1>3. \A c \in Callers : tcb[c].pointer # p
  BY <1>1, <1>2, NoneAssumption DEF PointersLive
<1>4. "Mutex" \in Kinds
  BY DEF Kinds
<1>5. \A c \in Callers : <<c, p>> \notin held
  BY <1>1, <1>4 DEF PointersLive
<1> QED  BY <1>1, <1>3, <1>5 DEF ResolvedInv

LEMMA InitObjects == Init => ObjectInv
<1> SUFFICES ASSUME Init PROVE ObjectInv
  OBVIOUS
<1>1. /\ words = [b \in Blocks |-> NewObject] /\ held = {}
      /\ tcb = [c \in Callers |-> NotWaiting] /\ call = [c \in Callers |-> Idle]
  BY DEF Init
<1>2. NewObject \in ObjectType /\ NewObject.waiters = {}
  BY DEF NewObject, ObjectType
<1>3. /\ NotWaiting \in TcbType /\ NotWaiting.pointer = None /\ NotWaiting.granted = FALSE
  BY DEF NotWaiting, TcbType, Kinds
<1>4. ObjectTypeInv
  BY <1>1, <1>2, <1>3 DEF ObjectTypeInv
<1>5. ResolvedInv
  BY <1>1 DEF ResolvedInv, Idle
<1>6. WaitInv
  BY <1>1, <1>2, <1>3, NoneAssumption DEF WaitInv
<1>7. HeldInv /\ PointersLive
  BY <1>1, <1>3 DEF HeldInv, MutexGranted, PointersLive
<1> QED  BY <1>4, <1>5, <1>6, <1>7 DEF ObjectInv

\* A step of a caller that does not wait and leaves every object where it is.
LEMMA QuietObjects ==
  ASSUME IInv, ObjectInv, NEW c \in Callers, NEW r, Goto(c, r), call[c].pc # "waiting",
         UNCHANGED objectVars,
         \A p \in Blocks, k \in Kinds : Registered(p, k) => Registered(p, k)',
         r.pc = "resolved" => r.pointer \in Blocks /\ r.kind \in Kinds /\ Registered(r.pointer, r.kind)
  PROVE  ObjectInv'
<1>1. /\ ObjectTypeInv /\ ResolvedInv /\ WaitInv /\ HeldInv /\ PointersLive
      /\ UNCHANGED <<words, tcb, held>>
  BY DEF ObjectInv, objectVars
<1>2. call'[c] = r /\ \A d \in Callers : d # c => call'[d] = call[d]
  BY GotoFacts DEF IInv
<1>3. ObjectTypeInv' /\ HeldInv'
  BY <1>1 DEF ObjectTypeInv, HeldInv, MutexGranted
<1>4. ResolvedInv'
  BY <1>1, <1>2 DEF ResolvedInv
<1>5. WaitInv'
  BY <1>1, <1>2 DEF WaitInv
<1>6. PointersLive'
  <2>1. \A d \in Callers : tcb[d].kind \in Kinds /\ tcb[d].pointer \in Blocks \cup {None}
    BY <1>1 DEF ObjectTypeInv, TcbType
  <2>2. "Mutex" \in Kinds /\ \A o \in held : o[2] \in Blocks
    BY <1>1 DEF Kinds, ObjectTypeInv
  <2> QED  BY <1>1, <2>1, <2>2 DEF PointersLive
<1> QED  BY <1>3, <1>4, <1>5, <1>6 DEF ObjectInv

\* release_semaphore_locked and release_mutex_locked, for a caller d that gives up
\* its permit or its ownership and waits for nothing.
LEMMA ReleaseObjects ==
  ASSUME IInv, ObjectInv, UNCHANGED table,
         NEW p \in Blocks, NEW k \in Kinds, Registered(p, k),
         NEW d \in Callers, NEW t \in [Callers -> TcbType], Release(p, k, t),
         t[d].pointer = None, t[d].granted = FALSE, \A e \in Callers : e # d => t[e] = tcb[e],
         d \notin words[p].waiters, tcb[d].granted \/ tcb[d].pointer = None,
         k = "Mutex" => words[p].owner = d,
         held' \subseteq held, <<d, p>> \notin held',
         \A e \in Callers : e # d => call'[e] = call[e],
         call'[d].pc # "resolved" \/ call'[d] = call[d]
  PROVE  ObjectInv'
<1>1. /\ ObjectTypeInv /\ ResolvedInv /\ WaitInv /\ HeldInv /\ PointersLive
  BY DEF ObjectInv
<1>2. \A q, l : Registered(q, l)' <=> Registered(q, l)
  BY DEF Registered
<1>3. /\ \A q \in Blocks : words[q] \in ObjectType
      /\ \A e \in Callers : tcb[e] \in TcbType
      /\ None \notin Blocks /\ None \notin Callers
  BY <1>1, NoneAssumption DEF ObjectTypeInv
<1>4. \A e \in Callers : tcb[e].pointer = p => tcb[e].kind = k
  BY <1>1, <1>3, OneKind DEF PointersLive
<1>5. k # "Mutex" => \A e \in Callers : <<e, p>> \notin held
  BY <1>1, OneKind DEF PointersLive
<1>6. ResolvedInv'
  BY <1>1, <1>2 DEF ResolvedInv
<1>7. /\ words' \in [Blocks -> ObjectType] /\ tcb' \in [Callers -> TcbType]
      /\ \A q \in Blocks : q # p => words'[q] = words[q]
      /\ tcb'[d].pointer = None /\ tcb'[d].granted = FALSE
      /\ \A e \in Callers : tcb'[e].pointer = t[e].pointer /\ tcb'[e].kind = t[e].kind
      /\ \/ /\ words[p].waiters = {} /\ words'[p].owner = None /\ words'[p].waiters = {}
            /\ \A e \in Callers : tcb'[e].granted = t[e].granted
         \/ \E w \in words[p].waiters :
              /\ w \in Callers /\ w # d
              /\ words'[p].owner = (IF k = "Mutex" THEN w ELSE None)
              /\ words'[p].waiters = words[p].waiters \ {w}
              /\ tcb'[w].granted = TRUE
              /\ \A e \in Callers : e # w => tcb'[e].granted = t[e].granted
  <2>1. CASE words[p].waiters = {} /\ words' = [words EXCEPT ![p].owner = None] /\ tcb' = t
    BY <1>1, <1>3, <2>1 DEF ObjectTypeInv, ObjectType
  <2>2. CASE \E w \in words[p].waiters :
               /\ words' = [words EXCEPT ![p] = [owner |-> IF k = "Mutex" THEN w ELSE None,
                                                 waiters |-> @.waiters \ {w}]]
               /\ tcb' = [t EXCEPT ![w].granted = TRUE]
    <3>1. PICK w \in words[p].waiters :
               /\ words' = [words EXCEPT ![p] = [owner |-> IF k = "Mutex" THEN w ELSE None,
                                                 waiters |-> words[p].waiters \ {w}]]
               /\ tcb' = [t EXCEPT ![w].granted = TRUE]
      BY <2>2
    <3>2. w \in Callers /\ w # d
      BY <1>3 DEF ObjectType
    <3>3. [owner |-> IF k = "Mutex" THEN w ELSE None, waiters |-> words[p].waiters \ {w}] \in ObjectType
      BY <1>3, <3>2 DEF ObjectType
    <3>4. /\ words' \in [Blocks -> ObjectType]
          /\ \A q \in Blocks : q # p => words'[q] = words[q]
          /\ words'[p].owner = (IF k = "Mutex" THEN w ELSE None)
          /\ words'[p].waiters = words[p].waiters \ {w}
      BY <1>1, <3>1, <3>3 DEF ObjectTypeInv
    <3>5. /\ tcb' \in [Callers -> TcbType]
          /\ \A e \in Callers : tcb'[e].pointer = t[e].pointer /\ tcb'[e].kind = t[e].kind
          /\ tcb'[w].granted = TRUE
          /\ \A e \in Callers : e # w => tcb'[e].granted = t[e].granted
      BY <3>1, <3>2 DEF TcbType
    <3> QED  BY <3>2, <3>4, <3>5
  <2> QED  BY <2>1, <2>2 DEF Release
<1>8. ObjectTypeInv'
  BY <1>1, <1>7 DEF ObjectTypeInv
<1>9. \A e \in Callers : e # d => tcb'[e].pointer = tcb[e].pointer /\ tcb'[e].kind = tcb[e].kind
  BY <1>7
<1>10. PointersLive'
  BY <1>1, <1>2, <1>7, <1>9 DEF PointersLive
<1>11. WaitInv'
  <2>1. \A e \in Callers : tcb'[e].pointer # None => call'[e].pc = "waiting"
    BY <1>1, <1>7, <1>9 DEF WaitInv
  <2>2. \A q \in Blocks, e \in Callers :
          e \in words[q].waiters <=> tcb[e].pointer = q /\ ~tcb[e].granted
    BY <1>1 DEF WaitInv
  <2>3. CASE /\ words[p].waiters = {} /\ words'[p].waiters = {}
             /\ \A e \in Callers : tcb'[e].granted = t[e].granted
    <3>1. \A q \in Blocks, e \in Callers :
            e \in words'[q].waiters <=> tcb'[e].pointer = q /\ ~tcb'[e].granted
      <4> SUFFICES ASSUME NEW q \in Blocks, NEW e \in Callers
                   PROVE  e \in words'[q].waiters <=> tcb'[e].pointer = q /\ ~tcb'[e].granted
        OBVIOUS
      <4>1. CASE e = d
        BY <1>3, <1>7, <2>2, <2>3, <4>1
      <4>2. CASE e # d
        BY <1>7, <1>9, <2>2, <2>3, <4>2
      <4> QED  BY <4>1, <4>2
    <3>2. \A e \in Callers : tcb'[e].granted => tcb'[e].pointer # None
      BY <1>1, <1>7, <1>9, <2>3 DEF WaitInv
    <3> QED  BY <2>1, <3>1, <3>2 DEF WaitInv
  <2>4. CASE \E w \in words[p].waiters :
              /\ w \in Callers /\ w # d /\ words'[p].waiters = words[p].waiters \ {w}
              /\ tcb'[w].granted = TRUE
              /\ \A e \in Callers : e # w => tcb'[e].granted = t[e].granted
    <3>0. PICK w \in words[p].waiters :
              /\ w \in Callers /\ w # d /\ words'[p].waiters = words[p].waiters \ {w}
              /\ tcb'[w].granted = TRUE
              /\ \A e \in Callers : e # w => tcb'[e].granted = t[e].granted
      BY <2>4
    <3>1. tcb[w].pointer = p /\ ~tcb[w].granted
      BY <2>2, <3>0
    <3>2. \A q \in Blocks, e \in Callers :
            e \in words'[q].waiters <=> tcb'[e].pointer = q /\ ~tcb'[e].granted
      <4> SUFFICES ASSUME NEW q \in Blocks, NEW e \in Callers
                   PROVE  e \in words'[q].waiters <=> tcb'[e].pointer = q /\ ~tcb'[e].granted
        OBVIOUS
      <4>1. CASE e = d
        BY <1>3, <1>7, <2>2, <3>0, <4>1
      <4>2. CASE e = w
        BY <1>7, <2>2, <3>0, <3>1, <4>2
      <4>3. CASE e # d /\ e # w
        BY <1>7, <1>9, <2>2, <3>0, <4>3
      <4> QED  BY <4>1, <4>2, <4>3
    <3>3. \A e \in Callers : tcb'[e].granted => tcb'[e].pointer # None
      BY <1>1, <1>3, <1>7, <1>9, <3>0, <3>1 DEF WaitInv
    <3> QED  BY <2>1, <3>2, <3>3 DEF WaitInv
  <2> QED  BY <1>7, <2>3, <2>4
<1>12. HeldInv'
  <2> SUFFICES ASSUME NEW e \in Callers, NEW q \in Blocks
               PROVE  /\ MutexGranted(e, q)' => words'[q].owner = e
                      /\ <<e, q>> \in held' => words'[q].owner = e /\ tcb'[e].pointer # q
    BY DEF HeldInv
  <2>1. /\ MutexGranted(e, q) => words[q].owner = e
        /\ <<e, q>> \in held => words[q].owner = e /\ tcb[e].pointer # q
    BY <1>1 DEF HeldInv
  <2>2. CASE e = d
    BY <1>3, <1>7, <2>1, <2>2 DEF MutexGranted
  <2>3. CASE e # d /\ q # p
    <3>1. \A w \in words[p].waiters : w \in Callers => tcb[w].pointer = p
      BY <1>1 DEF WaitInv
    <3>2. tcb'[e].pointer = q => tcb'[e].granted = tcb[e].granted
      BY <1>7, <1>9, <2>3, <3>1
    <3> QED  BY <1>7, <1>9, <2>1, <2>3, <3>2 DEF MutexGranted
  <2>4. CASE e # d /\ q = p
    <3>1. <<e, q>> \notin held
      BY <1>5, <2>1, <2>4
    <3>2. ASSUME MutexGranted(e, q)' PROVE words'[q].owner = e
      <4>1. tcb[e].kind = "Mutex" /\ tcb[e].pointer = p /\ tcb'[e].granted
        BY <1>9, <2>4, <3>2 DEF MutexGranted
      <4>2. k = "Mutex" /\ words[p].owner = d
        BY <1>4, <4>1
      <4>3. ~tcb[e].granted
        BY <2>1, <2>4, <4>1, <4>2 DEF MutexGranted
      <4> QED  BY <1>7, <2>4, <4>1, <4>2, <4>3
    <3> QED  BY <3>1, <3>2
  <2> QED  BY <2>2, <2>3, <2>4
<1> QED  BY <1>6, <1>8, <1>10, <1>11, <1>12 DEF ObjectInv

\* up, the outermost unlock and the cancellation of a grant release an object.
LEMMA ReleasingObjects ==
  ASSUME IInv, ObjectInv, NEW c \in Callers, Up(c) \/ Unlock(c) \/ CancelGrant(c)
  PROVE  ObjectInv'
<1>1. /\ ObjectTypeInv /\ ResolvedInv /\ WaitInv /\ HeldInv /\ PointersLive
      /\ tcb \in [Callers -> TcbType] /\ tcb[c] \in TcbType /\ "Semaphore" \in Kinds /\ "Mutex" \in Kinds
  BY DEF ObjectInv, ObjectTypeInv, Kinds
<1>2. CASE Up(c) \/ Unlock(c)
  <2> DEFINE p == call[c].pointer
             k == call[c].kind
  <2>1. /\ call[c].pc = "resolved" /\ k \in Kinds /\ p \in Blocks /\ Registered(p, k)
        /\ Release(p, k, tcb) /\ UNCHANGED table /\ Goto(c, Idle)
    BY <1>1, <1>2 DEF Up, Unlock, Using, At, ResolvedInv, Return, tableVars
  <2>2. tcb[c].pointer = None /\ tcb[c].granted = FALSE
    BY <1>1, <2>1 DEF WaitInv, TcbType
  <2>3. c \notin words[p].waiters
    BY <1>1, <2>1, <2>2, NoneAssumption DEF WaitInv
  <2>4. call'[c].pc = "idle" /\ \A e \in Callers : e # c => call'[e] = call[e]
    BY <2>1, GotoFacts DEF IInv, Idle
  <2>5. /\ k = "Mutex" => words[p].owner = c
        /\ held' \subseteq held /\ <<c, p>> \notin held'
    <3>1. CASE Up(c)
      <4>1. k = "Semaphore" /\ held' = held
        BY <3>1 DEF Up, Using
      <4>2. <<c, p>> \notin held
        BY <1>1, <2>1, <4>1, OneKind DEF PointersLive
      <4> QED  BY <4>1, <4>2
    <3>2. CASE Unlock(c)
      BY <3>2 DEF Unlock
    <3> QED  BY <1>2, <3>1, <3>2
  <2> HIDE DEF p, k
  <2> QED  BY <1>1, <2>1, <2>2, <2>3, <2>4, <2>5, ReleaseObjects
<1>3. CASE CancelGrant(c)
  <2> DEFINE p == tcb[c].pointer
             k == tcb[c].kind
             t == [tcb EXCEPT ![c] = NotWaiting]
  <2>1. /\ tcb[c].granted /\ p \in Blocks /\ p # None /\ k \in Kinds /\ Registered(p, k)
        /\ Release(p, k, t) /\ UNCHANGED <<table, call, held>>
    BY <1>1, <1>3 DEF CancelGrant, TcbType, WaitInv, PointersLive, tableVars
  <2>2. NotWaiting \in TcbType /\ NotWaiting.pointer = None /\ NotWaiting.granted = FALSE
    BY DEF NotWaiting, TcbType, Kinds
  <2>3. /\ t \in [Callers -> TcbType] /\ t[c].pointer = None /\ t[c].granted = FALSE
        /\ \A e \in Callers : e # c => t[e] = tcb[e]
    BY <1>1, <2>2
  <2>4. c \notin words[p].waiters
    BY <1>1, <2>1 DEF WaitInv
  <2>5. (k = "Mutex" => words[p].owner = c) /\ <<c, p>> \notin held'
    BY <1>1, <2>1 DEF HeldInv, MutexGranted
  <2> HIDE DEF p, k, t
  <2> QED  BY <2>1, <2>3, <2>4, <2>5, ReleaseObjects
<1> QED  BY <1>2, <1>3

\* The waiter enters the queue of a registered object that it does not hold.
LEMMA WaitsObjects ==
  ASSUME IInv, ObjectInv, NEW c \in Callers, CallWaits(c)
  PROVE  ObjectInv'
<1> DEFINE p == call[c].pointer
           k == call[c].kind
<1>1. /\ ObjectTypeInv /\ ResolvedInv /\ WaitInv /\ HeldInv /\ PointersLive
  BY DEF ObjectInv
<1>2. /\ call[c].pc = "resolved" /\ p \in Blocks /\ k \in Kinds /\ Registered(p, k)
      /\ k = "Mutex" => words[p].owner # c
      /\ words' = [words EXCEPT ![p].waiters = @ \cup {c}]
      /\ tcb' = [tcb EXCEPT ![c] = [pointer |-> p, kind |-> k, granted |-> FALSE]]
      /\ UNCHANGED <<table, held>> /\ Goto(c, [pc |-> "waiting"])
  BY <1>1 DEF CallWaits, At, ResolvedInv, tableVars
<1> HIDE DEF p, k
<1>3. call'[c].pc = "waiting" /\ \A e \in Callers : e # c => call'[e] = call[e]
  BY <1>2, GotoFacts DEF IInv
<1>4. tcb[c].pointer = None /\ <<c, p>> \notin held
  <2>1. tcb[c].pointer = None
    BY <1>1, <1>2 DEF WaitInv
  <2>2. <<c, p>> \in held => k = "Mutex"
    BY <1>1, <1>2, OneKind DEF PointersLive
  <2> QED  BY <1>1, <1>2, <2>1, <2>2 DEF HeldInv
<1>5. /\ words' \in [Blocks -> ObjectType] /\ tcb' \in [Callers -> TcbType]
      /\ \A q \in Blocks : q # p => words'[q] = words[q]
      /\ words'[p].owner = words[p].owner /\ words'[p].waiters = words[p].waiters \cup {c}
      /\ tcb'[c].pointer = p /\ tcb'[c].kind = k /\ tcb'[c].granted = FALSE
      /\ \A e \in Callers : e # c => tcb'[e] = tcb[e]
  <2>1. words[p] \in ObjectType /\ words \in [Blocks -> ObjectType] /\ tcb \in [Callers -> TcbType]
    BY <1>1, <1>2 DEF ObjectTypeInv
  <2>2. [pointer |-> p, kind |-> k, granted |-> FALSE] \in TcbType
    BY <1>2 DEF TcbType
  <2>3. tcb' \in [Callers -> TcbType] /\ \A e \in Callers : e # c => tcb'[e] = tcb[e]
    BY <1>2, <2>1, <2>2
  <2> QED  BY <1>2, <2>1, <2>3 DEF ObjectType
<1>6. \A q, l : Registered(q, l)' <=> Registered(q, l)
  BY <1>2 DEF Registered
<1>7. ObjectTypeInv' /\ ResolvedInv' /\ PointersLive'
  BY <1>1, <1>2, <1>3, <1>5, <1>6 DEF ObjectTypeInv, ResolvedInv, PointersLive
<1>8. WaitInv'
  <2>1. \A q \in Blocks, e \in Callers :
          e \in words'[q].waiters <=> tcb'[e].pointer = q /\ ~tcb'[e].granted
    <3> SUFFICES ASSUME NEW q \in Blocks, NEW e \in Callers
                 PROVE  e \in words'[q].waiters <=> tcb'[e].pointer = q /\ ~tcb'[e].granted
      OBVIOUS
    <3>1. e \in words[q].waiters <=> tcb[e].pointer = q /\ ~tcb[e].granted
      BY <1>1 DEF WaitInv
    <3> QED  BY <1>4, <1>5, <3>1, NoneAssumption
  <2>2. \A e \in Callers : /\ tcb'[e].pointer # None => call'[e].pc = "waiting"
                           /\ tcb'[e].granted => tcb'[e].pointer # None
    BY <1>1, <1>3, <1>5 DEF WaitInv
  <2> QED  BY <2>1, <2>2 DEF WaitInv
<1>9. HeldInv'
  <2> SUFFICES ASSUME NEW e \in Callers, NEW q \in Blocks
               PROVE  /\ MutexGranted(e, q)' => words'[q].owner = e
                      /\ <<e, q>> \in held' => words'[q].owner = e /\ tcb'[e].pointer # q
    BY DEF HeldInv
  <2>1. /\ MutexGranted(e, q) => words[q].owner = e
        /\ <<e, q>> \in held => words[q].owner = e /\ tcb[e].pointer # q
    BY <1>1 DEF HeldInv
  <2>2. words'[q].owner = words[q].owner
    BY <1>5
  <2> QED  BY <1>2, <1>4, <1>5, <2>1, <2>2 DEF MutexGranted
<1> QED  BY <1>7, <1>8, <1>9 DEF ObjectInv

\* lock of a free mutex.
LEMMA LockObjects ==
  ASSUME IInv, ObjectInv, NEW c \in Callers, LockTakes(c)
  PROVE  ObjectInv'
<1> DEFINE p == call[c].pointer
<1>1. /\ ObjectTypeInv /\ ResolvedInv /\ WaitInv /\ HeldInv /\ PointersLive
  BY DEF ObjectInv
<1>2. /\ call[c].pc = "resolved" /\ p \in Blocks /\ Registered(p, "Mutex")
      /\ words[p].owner = None /\ words' = [words EXCEPT ![p].owner = c]
      /\ held' = held \cup {<<c, p>>} /\ UNCHANGED <<table, tcb>> /\ Goto(c, Idle)
  BY <1>1 DEF LockTakes, Using, At, ResolvedInv, Return, tableVars
<1> HIDE DEF p
<1>3. call'[c].pc = "idle" /\ \A e \in Callers : e # c => call'[e] = call[e]
  BY <1>2, GotoFacts DEF IInv, Idle
<1>4. /\ words' \in [Blocks -> ObjectType]
      /\ \A q \in Blocks : q # p => words'[q] = words[q]
      /\ words'[p].owner = c /\ words'[p].waiters = words[p].waiters
  <2>1. words[p] \in ObjectType /\ words \in [Blocks -> ObjectType]
    BY <1>1, <1>2 DEF ObjectTypeInv
  <2> QED  BY <1>2, <2>1 DEF ObjectType
<1>5. \A q, l : Registered(q, l)' <=> Registered(q, l)
  BY <1>2 DEF Registered
<1>6. tcb[c].pointer = None /\ p # None /\ None \notin Callers
  BY <1>1, <1>2, NoneAssumption DEF WaitInv
<1>7. ObjectTypeInv' /\ ResolvedInv'
  BY <1>1, <1>2, <1>3, <1>4, <1>5 DEF ObjectTypeInv, ResolvedInv
<1>8. PointersLive'
  <2>1. \A o \in held' : o \in held \/ o[2] = p
    BY <1>2
  <2> QED  BY <1>1, <1>2, <1>5, <2>1 DEF PointersLive
<1>9. WaitInv'
  <2>1. \A q \in Blocks : words'[q].waiters = words[q].waiters
    BY <1>4
  <2> QED  BY <1>1, <1>2, <1>3, <1>6, <2>1 DEF WaitInv
<1>10. HeldInv'
  <2> SUFFICES ASSUME NEW e \in Callers, NEW q \in Blocks
               PROVE  /\ MutexGranted(e, q)' => words'[q].owner = e
                      /\ <<e, q>> \in held' => words'[q].owner = e /\ tcb'[e].pointer # q
    BY DEF HeldInv
  <2>1. /\ MutexGranted(e, q) => words[q].owner = e
        /\ <<e, q>> \in held => words[q].owner = e /\ tcb[e].pointer # q
    BY <1>1 DEF HeldInv
  <2>2. MutexGranted(e, q)' <=> MutexGranted(e, q)
    BY <1>2 DEF MutexGranted
  <2>3. CASE q = p
    BY <1>2, <1>4, <1>6, <2>1, <2>2, <2>3
  <2>4. CASE q # p
    BY <1>2, <1>4, <2>1, <2>2, <2>4
  <2> QED  BY <2>3, <2>4
<1> QED  BY <1>7, <1>8, <1>9, <1>10 DEF ObjectInv

\* A deadline, a cancellation and the waiter itself clear the waiting word.
LEMMA EndObjects ==
  ASSUME IInv, ObjectInv, NEW c \in Callers, WaitEnds(c) \/ CallResumes(c)
  PROVE  ObjectInv'
<1>1. /\ ObjectTypeInv /\ ResolvedInv /\ WaitInv /\ HeldInv /\ PointersLive
  BY DEF ObjectInv
<1>2. /\ tcb' = [tcb EXCEPT ![c] = NotWaiting] /\ UNCHANGED table
      /\ \A e \in Callers : e # c => call'[e] = call[e]
      /\ call'[c] = call[c] \/ call'[c].pc = "idle"
  BY GotoFacts DEF WaitEnds, CallResumes, Return, Idle, tableVars, IInv
<1>3. /\ tcb' \in [Callers -> TcbType] /\ tcb'[c].pointer = None /\ tcb'[c].granted = FALSE
      /\ \A e \in Callers : e # c => tcb'[e] = tcb[e]
  <2>1. NotWaiting \in TcbType /\ NotWaiting.pointer = None /\ NotWaiting.granted = FALSE
    BY DEF NotWaiting, TcbType, Kinds
  <2> QED  BY <1>1, <1>2, <2>1 DEF ObjectTypeInv
<1>4. tcb[c] \in TcbType /\ tcb[c].pointer \in Blocks \cup {None} /\ None \notin Blocks
  BY <1>1, NoneAssumption DEF ObjectTypeInv, TcbType
<1>5. /\ words' \in [Blocks -> ObjectType]
      /\ \A q \in Blocks : /\ words'[q].owner = words[q].owner
                           /\ words'[q].waiters = words[q].waiters \ {c}
  <2>1. words \in [Blocks -> ObjectType] /\ \A q \in Blocks : words[q] \in ObjectType
    BY <1>1 DEF ObjectTypeInv
  <2>2. CASE WaitEnds(c)
    <3> DEFINE p == tcb[c].pointer
    <3>1. p \in Blocks /\ words' = [words EXCEPT ![p].waiters = @ \ {c}]
      BY <1>4, <2>2 DEF WaitEnds
    <3>2. \A q \in Blocks : q # p => c \notin words[q].waiters
      BY <1>1 DEF WaitInv
    <3> HIDE DEF p
    <3> QED  BY <2>1, <3>1, <3>2 DEF ObjectType
  <2>3. CASE CallResumes(c)
    <3>1. words' = words /\ (tcb[c].pointer = None \/ tcb[c].granted)
      BY <2>3 DEF CallResumes
    <3>2. \A q \in Blocks : c \notin words[q].waiters
      BY <1>1, <1>4, <3>1 DEF WaitInv
    <3> QED  BY <2>1, <3>1, <3>2
  <2> QED  BY <2>2, <2>3
<1>6. /\ held \subseteq held'
      /\ \A o \in held' : o \in held \/ (MutexGranted(c, tcb[c].pointer) /\ o = <<c, tcb[c].pointer>>)
  BY DEF WaitEnds, CallResumes, MutexGranted
<1>7. MutexGranted(c, tcb[c].pointer) => tcb[c].pointer \in Blocks /\ Registered(tcb[c].pointer, "Mutex")
  BY <1>1, <1>4 DEF MutexGranted, WaitInv, PointersLive
<1>8. \A q, l : Registered(q, l)' <=> Registered(q, l)
  BY <1>2 DEF Registered
<1>9. ObjectTypeInv'
  <2>1. held' \subseteq Callers \X Blocks
    BY <1>1, <1>6, <1>7 DEF ObjectTypeInv
  <2> QED  BY <1>3, <1>5, <2>1 DEF ObjectTypeInv
<1>10. ResolvedInv'
  BY <1>1, <1>2, <1>8 DEF ResolvedInv
<1>11. PointersLive'
  <2>1. \A o \in held' : Registered(o[2], "Mutex")
    BY <1>1, <1>6, <1>7 DEF PointersLive
  <2> QED  BY <1>1, <1>3, <1>8, <2>1 DEF PointersLive
<1>12. WaitInv'
  <2>1. \A q \in Blocks, e \in Callers :
          e \in words'[q].waiters <=> tcb'[e].pointer = q /\ ~tcb'[e].granted
    <3> SUFFICES ASSUME NEW q \in Blocks, NEW e \in Callers
                 PROVE  e \in words'[q].waiters <=> tcb'[e].pointer = q /\ ~tcb'[e].granted
      OBVIOUS
    <3>1. e \in words[q].waiters <=> tcb[e].pointer = q /\ ~tcb[e].granted
      BY <1>1 DEF WaitInv
    <3>2. CASE e = c
      BY <1>3, <1>4, <1>5, <3>2
    <3>3. CASE e # c
      BY <1>3, <1>5, <3>1, <3>3
    <3> QED  BY <3>2, <3>3
  <2>2. \A e \in Callers : /\ tcb'[e].pointer # None => call'[e].pc = "waiting"
                           /\ tcb'[e].granted => tcb'[e].pointer # None
    BY <1>1, <1>2, <1>3 DEF WaitInv
  <2> QED  BY <2>1, <2>2 DEF WaitInv
<1>13. HeldInv'
  <2> SUFFICES ASSUME NEW e \in Callers, NEW q \in Blocks
               PROVE  /\ MutexGranted(e, q)' => words'[q].owner = e
                      /\ <<e, q>> \in held' => words'[q].owner = e /\ tcb'[e].pointer # q
    BY DEF HeldInv
  <2>1. /\ MutexGranted(e, q) => words[q].owner = e
        /\ <<e, q>> \in held => words[q].owner = e /\ tcb[e].pointer # q
    BY <1>1 DEF HeldInv
  <2>2. CASE e = c
    <3>1. ~MutexGranted(e, q)' /\ tcb'[e].pointer # q
      BY <1>3, <1>4, <2>2 DEF MutexGranted
    <3>2. <<e, q>> \in held' => <<e, q>> \in held \/ MutexGranted(e, q)
      BY <1>6, <2>2
    <3> QED  BY <1>5, <2>1, <3>1, <3>2
  <2>3. CASE e # c
    <3>1. <<e, q>> \in held' => <<e, q>> \in held
      BY <1>6, <2>3
    <3> QED  BY <1>3, <1>5, <2>1, <2>3, <3>1 DEF MutexGranted
  <2> QED  BY <2>2, <2>3
<1> QED  BY <1>9, <1>10, <1>11, <1>12, <1>13 DEF ObjectInv

\* A new object is written into a block that nothing points to.
LEMMA AllocateObjects ==
  ASSUME IInv, ObjectInv, NEW c \in Callers, NEW k \in Kinds, CreateAllocate(c, k)
  PROVE  ObjectInv'
<1>1. /\ ObjectTypeInv /\ ResolvedInv /\ WaitInv /\ HeldInv /\ PointersLive
  BY DEF ObjectInv
<1>2. PICK b \in free : /\ words' = [words EXCEPT ![b] = NewObject]
                        /\ Goto(c, [pc |-> "create", pointer |-> b, kind |-> k])
  BY DEF CreateAllocate
<1>3. UNCHANGED <<table, tcb, held>> /\ call[c].pc = "idle"
  BY DEF CreateAllocate, MayCall, tableVars
<1>4. b \in Blocks /\ \A l : ~Registered(b, l)
  BY DEF IInv, TypeInv, OwnerInv, Registered
<1>5. \A e \in Callers : tcb[e].pointer # b /\ <<e, b>> \notin held
  BY <1>4, Unregistered
<1>6. call'[c].pc = "create" /\ \A e \in Callers : e # c => call'[e] = call[e]
  BY <1>2, GotoFacts DEF IInv
<1>7. /\ words' \in [Blocks -> ObjectType] /\ words'[b].waiters = {}
      /\ \A q \in Blocks : q # b => words'[q] = words[q]
  <2>1. NewObject \in ObjectType /\ NewObject.waiters = {}
    BY DEF NewObject, ObjectType
  <2> QED  BY <1>1, <1>2, <1>4, <2>1 DEF ObjectTypeInv
<1>8. \A q, l : Registered(q, l)' <=> Registered(q, l)
  BY <1>3 DEF Registered
<1>9. ObjectTypeInv' /\ ResolvedInv' /\ PointersLive'
  BY <1>1, <1>3, <1>6, <1>7, <1>8 DEF ObjectTypeInv, ResolvedInv, PointersLive
<1>10. WaitInv'
  <2>1. ASSUME NEW q \in Blocks, NEW e \in Callers
        PROVE  e \in words'[q].waiters <=> tcb[e].pointer = q /\ ~tcb[e].granted
    <3>1. e \in words[q].waiters <=> tcb[e].pointer = q /\ ~tcb[e].granted
      BY <1>1 DEF WaitInv
    <3> QED  BY <1>5, <1>7, <3>1
  <2>2. \A e \in Callers : /\ tcb[e].pointer # None => call'[e].pc = "waiting"
                           /\ tcb[e].granted => tcb[e].pointer # None
    BY <1>1, <1>3, <1>6 DEF WaitInv
  <2> QED  BY <1>3, <2>1, <2>2 DEF WaitInv
<1>11. HeldInv'
  <2> SUFFICES ASSUME NEW e \in Callers, NEW q \in Blocks
               PROVE  /\ MutexGranted(e, q)' => words'[q].owner = e
                      /\ <<e, q>> \in held' => words'[q].owner = e /\ tcb'[e].pointer # q
    BY DEF HeldInv
  <2>1. /\ MutexGranted(e, q) => words[q].owner = e
        /\ <<e, q>> \in held => words[q].owner = e /\ tcb[e].pointer # q
    BY <1>1 DEF HeldInv
  <2>2. MutexGranted(e, q)' <=> MutexGranted(e, q)
    BY <1>3 DEF MutexGranted
  <2>3. MutexGranted(e, q) => q # b
    BY <1>5 DEF MutexGranted
  <2> QED  BY <1>3, <1>5, <1>7, <2>1, <2>2, <2>3
<1> QED  BY <1>9, <1>10, <1>11 DEF ObjectInv

\* destroy's look at the words of the object is a look at every pointer to it.
LEMMA DestroyObjects ==
  ASSUME IInv, ObjectInv, NEW c \in Callers, NEW raw, NEW k \in Kinds,
         Destroy(c, raw, k), DestroyContract(raw, k)
  PROVE  ObjectInv'
<1> DEFINE p == Resolve(raw, k)
           i == HandleSlot(raw)
<1>1. /\ ObjectTypeInv /\ ResolvedInv /\ WaitInv /\ HeldInv /\ PointersLive
  BY DEF ObjectInv
<1>2. /\ call[c].pc = "idle" /\ ~Busy(p, k) /\ p # None
      /\ table' = [table EXCEPT ![i].pointer = None]
      /\ Goto(c, [pc |-> "release", pointer |-> p]) /\ UNCHANGED <<words, tcb, held>>
      /\ \A e \in Callers : call[e].pc = "resolved" => call[e].pointer # p
  BY DEF Destroy, DestroyContract, MayCall, objectVars
<1>3. i \in SlotIds /\ table[i].pointer = p /\ table[i].kind = k /\ p \in Blocks
  BY <1>2, ResolveFacts
<1> HIDE DEF p, i
<1>4. Registered(p, k)
  BY <1>3 DEF Registered
<1>5. words[p].waiters = {}
  BY <1>2 DEF Busy
<1>6. \A e \in Callers : tcb[e].pointer # p
  <2> SUFFICES ASSUME NEW e \in Callers, tcb[e].pointer = p PROVE FALSE
    OBVIOUS
  <2>1. tcb[e].kind = k
    BY <1>1, <1>2, <1>3, <1>4, OneKind DEF PointersLive
  <2>2. tcb[e].granted
    BY <1>1, <1>3, <1>5 DEF WaitInv
  <2>3. CASE k = "Mutex"
    <3>1. MutexGranted(e, p)
      BY <2>1, <2>2, <2>3 DEF MutexGranted
    <3>2. words[p].owner = e
      BY <1>1, <1>3, <3>1 DEF HeldInv
    <3>3. words[p].owner = None
      BY <1>2, <2>3 DEF Busy
    <3> QED  BY <3>2, <3>3, NoneAssumption
  <2>4. CASE k # "Mutex"
    BY <1>2, <2>1, <2>2, <2>4 DEF Busy
  <2> QED  BY <2>3, <2>4
<1>7. \A e \in Callers : <<e, p>> \notin held
  <2> SUFFICES ASSUME NEW e \in Callers, <<e, p>> \in held PROVE FALSE
    OBVIOUS
  <2>1. k = "Mutex"
    BY <1>1, <1>3, <1>4, OneKind DEF PointersLive
  <2> QED  BY <1>1, <1>2, <1>3, <2>1, NoneAssumption DEF HeldInv, Busy
<1>8. \A q \in Blocks, l \in Kinds : q # p /\ Registered(q, l) => Registered(q, l)'
  <2>1. \A j \in SlotIds : j # i => table'[j] = table[j]
    BY <1>2
  <2> QED  BY <1>3, <2>1 DEF Registered
<1>9. call'[c].pc = "release" /\ \A e \in Callers : e # c => call'[e] = call[e]
  BY <1>2, GotoFacts DEF IInv
<1>10. ObjectTypeInv' /\ HeldInv'
  BY <1>1, <1>2 DEF ObjectTypeInv, HeldInv, MutexGranted
<1>11. ResolvedInv'
  BY <1>1, <1>2, <1>8, <1>9 DEF ResolvedInv
<1>12. WaitInv'
  BY <1>1, <1>2, <1>9 DEF WaitInv
<1>13. PointersLive'
  <2>1. \A e \in Callers : tcb[e].kind \in Kinds /\ tcb[e].pointer \in Blocks \cup {None}
    BY <1>1 DEF ObjectTypeInv, TcbType
  <2>2. "Mutex" \in Kinds /\ \A o \in held : o[2] \in Blocks /\ o[2] # p
    BY <1>1, <1>7 DEF Kinds, ObjectTypeInv
  <2> QED  BY <1>1, <1>2, <1>6, <1>8, <2>1, <2>2 DEF PointersLive
<1> QED  BY <1>10, <1>11, <1>12, <1>13 DEF ObjectInv

\* Every step preserves the invariant of the pointers.
LEMMA NextObjects == IInv /\ ObjectInv /\ [Next]_vars => ObjectInv'
<1> SUFFICES ASSUME IInv, ObjectInv, [Next]_vars PROVE ObjectInv'
  OBVIOUS
<1>1. CASE UNCHANGED vars
  <2>1. UNCHANGED <<table, call, words, tcb, held>>
    BY <1>1 DEF vars, tableVars, objectVars
  <2> QED
    BY <2>1 DEF ObjectInv, ObjectTypeInv, ResolvedInv, WaitInv, HeldInv, MutexGranted,
                PointersLive, Registered
<1>2. ASSUME NEW c \in Callers, NEW r, Goto(c, r), call[c].pc # "waiting", r.pc # "resolved",
             UNCHANGED <<table, objectVars>>
      PROVE  ObjectInv'
  <2>1. \A p \in Blocks, k \in Kinds : Registered(p, k) => Registered(p, k)'
    BY <1>2 DEF Registered
  <2> QED  BY <1>2, <2>1, QuietObjects
<1>3. ASSUME NEW c \in Callers, Booting(c) PROVE ObjectInv'
  <2>1. CASE \E q \in Placements : InstallClaim(c, q[1], q[2])
    <3>1. PICK q \in Placements : InstallClaim(c, q[1], q[2])
      BY <2>1
    <3>2. /\ Goto(c, [pc |-> "install", storage |-> q[1], arena |-> q[2]])
          /\ call[c].pc # "waiting" /\ UNCHANGED <<table, objectVars>>
      BY <3>1 DEF InstallClaim, MayCall, tableVars
    <3> QED  BY <1>2, <3>2
  <2>2. CASE \E h \in Heaps : StartClaim(c, h)
    <3>1. UNCHANGED <<table, objectVars>> /\ call[c].pc = "idle"
      BY <2>2 DEF StartClaim, MayCall, tableVars
    <3>2. Goto(c, [pc |-> "start"]) \/ UNCHANGED call
      BY <2>2 DEF StartClaim
    <3>3. CASE UNCHANGED call
      <4>1. UNCHANGED <<table, call, words, tcb, held>>
        BY <3>1, <3>3 DEF objectVars
      <4> QED
        BY <4>1 DEF ObjectInv, ObjectTypeInv, ResolvedInv, WaitInv, HeldInv, MutexGranted,
                    PointersLive, Registered
    <3> QED  BY <1>2, <3>1, <3>2, <3>3
  <2>3. CASE InstallInit(c) \/ StartDriver(c) \/ StartInit(c)
    <3>1. UNCHANGED <<table, objectVars>> /\ call[c].pc # "waiting"
      BY <2>3 DEF InstallInit, StartDriver, StartInit, At, tableVars
    <3>2. Goto(c, Idle) \/ Goto(c, [pc |-> "init"])
      BY <2>3 DEF InstallInit, StartDriver, StartInit, Return
    <3>3. Idle.pc # "resolved"
      BY DEF Idle
    <3> QED  BY <1>2, <3>1, <3>2, <3>3
  <2> QED  BY <1>3, <2>1, <2>2, <2>3 DEF Booting
<1>4. ASSUME NEW c \in Callers, Managing(c) PROVE ObjectInv'
  <2>1. CASE CreateInsert(c)
    <3>1. PICK i \in FreeSlots :
            table' = [table EXCEPT ![i] = [pointer |-> call[c].pointer,
                                           generation |-> NextGeneration(table[i].generation),
                                           kind |-> call[c].kind]]
      BY <2>1 DEF CreateInsert
    <3>2. i \in SlotIds /\ table[i].pointer = None
      BY DEF FreeSlots
    <3>3. \A j \in SlotIds : j # i => table'[j] = table[j]
      BY <3>1
    <3>4. \A p \in Blocks, k \in Kinds : Registered(p, k) => Registered(p, k)'
      BY <3>2, <3>3, NoneAssumption DEF Registered
    <3>5. Goto(c, Idle) /\ UNCHANGED objectVars /\ call[c].pc # "waiting" /\ Idle.pc # "resolved"
      BY <2>1 DEF CreateInsert, Return, At, Idle
    <3> QED  BY <3>4, <3>5, QuietObjects
  <2>2. CASE CreateRefused(c)
    <3>1. /\ Goto(c, [pc |-> "release", pointer |-> call[c].pointer])
          /\ UNCHANGED <<table, objectVars>> /\ call[c].pc # "waiting"
      BY <2>2 DEF CreateRefused, At, tableVars
    <3> QED  BY <1>2, <3>1
  <2>3. CASE Deallocate(c)
    <3>1. /\ Goto(c, Idle) /\ Idle.pc # "resolved"
          /\ UNCHANGED <<table, objectVars>> /\ call[c].pc # "waiting"
      BY <2>3 DEF Deallocate, Return, Idle, At, tableVars
    <3> QED  BY <1>2, <3>1
  <2> QED  BY <1>4, <2>1, <2>2, <2>3, AllocateObjects, DestroyObjects DEF Managing
<1>5. ASSUME NEW c \in Callers, Operating(c) PROVE ObjectInv'
  <2>1. CASE \E h \in issued, k \in Kinds : CallResolve(c, h.raw, k)
    <3>1. PICK h \in issued, k \in Kinds : CallResolve(c, h.raw, k)
      BY <2>1
    <3> DEFINE r == [pc |-> "resolved", pointer |-> Resolve(h.raw, k), kind |-> k]
    <3>2. /\ Goto(c, r) /\ Resolve(h.raw, k) # None
          /\ UNCHANGED <<table, objectVars>> /\ call[c].pc # "waiting"
      BY <3>1 DEF CallResolve, MayCall, tableVars
    <3>3. r.pointer \in Blocks /\ r.kind \in Kinds /\ Registered(r.pointer, r.kind)
      BY <3>2, ResolveFacts DEF Registered
    <3>4. \A p \in Blocks, l \in Kinds : Registered(p, l) => Registered(p, l)'
      BY <3>2 DEF Registered
    <3> HIDE DEF r
    <3> QED  BY <3>2, <3>3, <3>4, QuietObjects
  <2>2. CASE CallReturns(c)
    <3>1. /\ Goto(c, Idle) /\ Idle.pc # "resolved"
          /\ UNCHANGED <<table, objectVars>> /\ call[c].pc # "waiting"
      BY <2>2 DEF CallReturns, Return, Idle, At, tableVars
    <3> QED  BY <1>2, <3>1
  <2> QED
    BY <1>5, <2>1, <2>2, WaitsObjects, LockObjects, ReleasingObjects, EndObjects DEF Operating
<1> QED  BY <1>1, <1>3, <1>4, <1>5 DEF Next

-----------------------------------------------------------------------------

\* Between the separate critical sections of allocation, registration and
\* release, whoever runs in between, a block that is not free has exactly one
\* owner and a free one has none: no leak and no double free.
THEOREM BlocksConserved == Spec => []BlocksOwnedOnce
<1>1. IInv => BlocksOwnedOnce
  <2> SUFFICES ASSUME IInv, NEW b \in Blocks
               PROVE  Cardinality(Owners(b)) = IF b \in free THEN 0 ELSE 1
    BY DEF BlocksOwnedOnce
  <2>0. OwnerInv
    BY DEF IInv
  <2>1. \A x : x \in Owners(b) <=> \/ x \in SlotIds /\ table[x].pointer = b
                                   \/ x \in Callers /\ Holds(x, b)
    BY DEF Owners, Holds, OwningPcs
  <2>2. CASE b \in free
    <3>1. Owners(b) = {}
      BY <2>0, <2>1, <2>2 DEF OwnerInv
    <3> QED  BY <2>2, <3>1, FS_EmptySet
  <2>3. CASE b \notin free
    <3>1. \E x : x \in Owners(b)
      BY <2>0, <2>1, <2>3 DEF OwnerInv
    <3>2. \A x, y : x \in Owners(b) /\ y \in Owners(b) => x = y
      BY <2>0, <2>1 DEF OwnerInv
    <3>3. \E x : Owners(b) = {x}
      BY <3>1, <3>2
    <3> QED  BY <2>3, <3>3, FS_Singleton
  <2> QED  BY <2>2, <2>3
<1> QED  BY <1>1, Invariance, PTL

\* Every block in use came from the heap that START_STATE names now, so that
\* deallocate returns it where it came from, whatever failed or repeated start
\* calls came before.
THEOREM BlocksReturn == Spec => []ReturnedToItsHeap
<1>1. IInv => ReturnedToItsHeap
  BY DEF IInv
<1> QED  BY <1>1, Invariance, PTL

\* What destroy sees in the words of an object and in the granted words of the tasks
\* is every pointer that a later signal, deadline or cancellation dereferences, and
\* every ownership that lock has reported: none of them outlives its object.
THEOREM ObjectsOutlivePointers == Spec => []PointersLive
<1>1. ObjectInv => PointersLive
  BY DEF ObjectInv
<1> QED  BY <1>1, Invariance, InitObjects, NextObjects, PTL DEF Spec

\* resolve accepts a handle exactly while its own object is alive and of the
\* kind asked for, or after its generation has gone all the way round.
THEOREM HandlesResolveExactly == Spec => []HandlesExact
<1>1. IInv => HandlesExact
  <2> SUFFICES ASSUME IInv, NEW h \in issued, NEW k \in Kinds
               PROVE  LET slot == HandleSlot(h.raw)
                      IN  (Resolve(h.raw, k) # None) <=>
                            /\ table[slot].pointer # None
                            /\ table[slot].kind = k
                            /\ (uses[slot] - h.born) % GenerationMax = 0
    BY DEF HandlesExact
  <2> DEFINE i == HandleSlot(h.raw)
  <2>1. /\ i \in SlotIds /\ h.born \in Nat \ {0} /\ h.born <= uses[i] /\ uses[i] \in Nat
        /\ HandleGeneration(h.raw) = Generation(h.born)
        /\ table[i].generation = IF uses[i] = 0 THEN 0 ELSE Generation(uses[i])
    BY DEF IInv, HandleInv, TypeInv
  <2>2. uses[i] \in Nat \ {0} /\ table[i].generation = Generation(uses[i])
    BY <2>1
  <2>3. Generation(h.born) # 0
    BY <2>1, GenerationFacts, HandleAssumption
  <2>4. (Generation(uses[i]) = Generation(h.born)) <=> ((uses[i] - h.born) % GenerationMax = 0)
    BY <2>1, <2>2, SameGeneration
  <2>5. (Resolve(h.raw, k) # None) <=>
          (table[i].pointer # None /\ table[i].generation = HandleGeneration(h.raw)
             /\ table[i].kind = k)
    BY <2>1, <2>3 DEF Resolve
  <2> QED  BY <2>1, <2>2, <2>4, <2>5
<1> QED  BY <1>1, Invariance, PTL
=============================================================================
