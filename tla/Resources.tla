------------------------------ MODULE Resources ------------------------------
(***************************************************************************)
(* What has to be in place before the kernel can be called, and the        *)
(* objects its callers hold handles to: SchedulerStorage (storage.rs),     *)
(* start_inner (runtime.rs), the heap behind allocate and deallocate, and  *)
(* the table that turns handles into pointers (resource.rs), used by the   *)
(* create, use and destroy calls of driver.rs.  Of semaphores and mutexes  *)
(* the words that destroy inspects are modelled: owner, wait queue and the *)
(* pointers of waiting tasks.  Counts, depths, the order of the queues and *)
(* inheritance are the subject of Sync.                                    *)
(*                                                                         *)
(* One action is one critical section: allocation, table update and        *)
(* deallocation are three, and other callers run in between.  The heap     *)
(* (hisi_alloc) and the driver registry (hisi_rf_rtos_driver) are external. *)
(***************************************************************************)
EXTENDS Integers, FiniteSets

CONSTANTS
  Boot, Tasks,     \* the thread that starts the kernel, and the tasks it runs later
  Storages, Legacy, \* SchedulerStorage objects; the allocator of Resources
  None,
  Placements,      \* the <<storage, arena>> pairs the application passes to install
  BlockCount,      \* blocks a heap can hand out
  HandleSlots,     \* RESOURCE_HANDLE_CAPACITY
  SlotBase,        \* 2^HANDLE_SLOT_BITS
  GenerationMax,   \* HANDLE_GENERATION_MAX
  MaxUses          \* bound on the objects created in one slot

ASSUME HandleAssumption ==
  /\ HandleSlots \in Nat /\ SlotBase \in Nat /\ GenerationMax \in Nat
  /\ HandleSlots < SlotBase - 1 /\ GenerationMax >= 1
ASSUME BoundsAssumption == BlockCount \in Nat /\ MaxUses \in Nat

Callers == {Boot} \cup Tasks
Heaps == Storages \cup {Legacy}
Blocks == Heaps \X (1..BlockCount)
Kinds == {"Semaphore", "Mutex"}
SlotIds == 0..(HandleSlots - 1)
ASSUME NoneAssumption == None \notin Heaps \cup Blocks \cup Callers
EmptySlot == [pointer |-> None, generation |-> 0, kind |-> "Semaphore"]
Idle == [pc |-> "idle"]
NewObject == [owner |-> None, waiters |-> {}]
NotWaiting == [pointer |-> None, kind |-> "Semaphore", granted |-> FALSE]

VARIABLES
  installed,  \* SchedulerStorage.installed of each storage
  heap,       \* the arena a storage's heap manages, or None
  offered,    \* InstalledSchedulerStorage capabilities not yet passed to a start call
  start,      \* START_STATE: None, or the heap that serves allocate and deallocate
  driver,     \* whose runtime the driver registry holds: nobody's, ours or another
  started,    \* Sched.started
  free,       \* the free blocks of each heap
  table,      \* RESOURCE_HANDLES
  uses,       \* history: objects created in each slot
  issued,     \* history: handles returned to callers
  call,       \* the call each caller is in
  words,      \* the owner and the wait queue of the object written in each block
  tcb,        \* the object in a caller's waiting_sem or waiting_mutex, and once it is
              \* granted in its granted_sem or granted_mutex
  held        \* history: <<c, p>> when lock has told c that it owns the mutex at p

bootVars == <<installed, heap, offered, start, driver, started>>
tableVars == <<table, uses, issued>>
objectVars == <<words, tcb, held>>
vars == <<bootVars, tableVars, free, call, objectVars>>

\* Before the scheduler runs, the boot thread is the only caller.
MayCall(c) == call[c].pc = "idle" /\ (c = Boot \/ started)
At(c, pc) == call[c].pc = pc
Goto(c, r) == call' = [call EXCEPT ![c] = r]
Return(c) == Goto(c, Idle)

-----------------------------------------------------------------------------
(* SchedulerStorage::install. *)

\* The flag is claimed first; a storage that is claimed already is refused.
InstallClaim(c, s, a) ==
  /\ MayCall(c)
  /\ ~installed[s]
  /\ installed' = [installed EXCEPT ![s] = TRUE]
  /\ Goto(c, [pc |-> "install", storage |-> s, arena |-> a])
  /\ UNCHANGED <<heap, offered, start, driver, started, tableVars, free, objectVars>>

\* heap.init accepts the arena and empties the heap, or the claim is rolled back.
InstallInit(c) ==
  /\ At(c, "install")
  /\ LET s == call[c].storage
     IN  \/ /\ heap' = [heap EXCEPT ![s] = call[c].arena]
            /\ offered' = offered \cup {s}
            /\ UNCHANGED installed
         \/ /\ installed' = [installed EXCEPT ![s] = FALSE]
            /\ UNCHANGED <<heap, offered>>
  /\ Return(c)
  /\ UNCHANGED <<start, driver, started, tableVars, free, objectVars>>

-----------------------------------------------------------------------------
(* start_inner. *)

\* Fault: a second start replaces the state of the first.
StartFreeAlways == start \in Heaps \cup {None}

\* START_STATE is set only when it is empty.
StartFree == start = None

\* The first critical section.  The capability is moved into the call and is
\* gone if the call fails.
StartClaim(c, h) ==
  /\ MayCall(c)
  /\ h \in offered \cup {Legacy}
  /\ offered' = offered \ {h}
  /\ \/ StartFree /\ start' = h /\ Goto(c, [pc |-> "start"])
     \/ ~StartFree /\ UNCHANGED <<start, call>>
  /\ UNCHANGED <<installed, heap, driver, started, tableVars, free, objectVars>>

\* hisi_rf_rtos_driver::install, which fails if the contract is taken.
StartDriver(c) ==
  /\ At(c, "start")
  /\ \/ driver = "nobody" /\ driver' = "ours" /\ Goto(c, [pc |-> "init"]) /\ UNCHANGED start
     \/ driver # "nobody" /\ start' = None /\ Return(c) /\ UNCHANGED driver
  /\ UNCHANGED <<installed, heap, offered, started, tableVars, free, objectVars>>

\* init, which is idempotent, and the first rearm_timer.
StartInit(c) ==
  /\ At(c, "init")
  /\ started' = TRUE
  /\ Return(c)
  /\ UNCHANGED <<installed, heap, offered, start, driver, tableVars, free, objectVars>>

-----------------------------------------------------------------------------
(* The handle table. *)

NextGeneration(g) == IF g = 0 \/ g = GenerationMax THEN 1 ELSE g + 1

EncodeHandle(slot, generation) == generation * SlotBase + slot + 1
HandleSlot(raw) == (raw % SlotBase) - 1
HandleGeneration(raw) == raw \div SlotBase

\* Fault: the generation is not compared.
ResolveAnyGeneration(raw, kind) ==
  LET slot == HandleSlot(raw)
  IN  IF slot \in SlotIds /\ table[slot].pointer # None /\ table[slot].kind = kind
      THEN table[slot].pointer ELSE None

\* resolve, with None for InvalidHandle.
Resolve(raw, kind) ==
  LET slot == HandleSlot(raw)
      generation == HandleGeneration(raw)
  IN  IF /\ slot \in SlotIds /\ generation # 0
         /\ table[slot].pointer # None
         /\ table[slot].generation = generation
         /\ table[slot].kind = kind
      THEN table[slot].pointer ELSE None

FreeSlots == {i \in SlotIds : table[i].pointer = None}

-----------------------------------------------------------------------------
(* semaphore_create and mutex_create. *)

\* allocate from the heap of START_STATE, first fit, and write a new object into the
\* block, which nobody else knows of; a heap without space returns null and the
\* call fails without a trace.
CreateAllocate(c, kind) ==
  /\ MayCall(c)
  /\ started
  /\ \A i \in SlotIds : uses[i] < MaxUses
  /\ \E b \in free :
       /\ b[1] = start
       /\ \A o \in free : o[1] = start => b[2] <= o[2]
       /\ free' = free \ {b}
       /\ words' = [words EXCEPT ![b] = NewObject]
       /\ Goto(c, [pc |-> "create", pointer |-> b, kind |-> kind])
  /\ UNCHANGED <<bootVars, tableVars, tcb, held>>

\* insert into the first free slot.
CreateInsert(c) ==
  /\ At(c, "create")
  /\ \E slot \in FreeSlots :
       /\ \A i \in FreeSlots : slot <= i
       /\ LET generation == NextGeneration(table[slot].generation)
          IN  /\ table' = [table EXCEPT ![slot] =
                             [pointer |-> call[c].pointer, generation |-> generation,
                              kind |-> call[c].kind]]
              /\ issued' = issued \cup {[raw |-> EncodeHandle(slot, generation),
                                         born |-> uses[slot] + 1]}
       /\ uses' = [uses EXCEPT ![slot] = @ + 1]
  /\ Return(c)
  /\ UNCHANGED <<bootVars, free, objectVars>>

\* Fault: the block is not given back when the table is full.
CreateRefusedLeaks(c) ==
  /\ At(c, "create")
  /\ FreeSlots = {}
  /\ Return(c)
  /\ UNCHANGED <<bootVars, tableVars, free, objectVars>>

\* A full table: the block has to be given back.
CreateRefused(c) ==
  /\ At(c, "create")
  /\ FreeSlots = {}
  /\ Goto(c, [pc |-> "release", pointer |-> call[c].pointer])
  /\ UNCHANGED <<bootVars, tableVars, free, objectVars>>

\* deallocate, which passes the pointer to the heap of START_STATE.
Deallocate(c) ==
  /\ At(c, "release")
  /\ start # None
  /\ free' = free \cup {<<start, call[c].pointer[2]>>}
  /\ Return(c)
  /\ UNCHANGED <<bootVars, tableVars, objectVars>>

-----------------------------------------------------------------------------
(* Use. *)

\* semaphore_from_handle and mutex_from_handle.  The pointer is dereferenced in a
\* later critical section, the one of the operation.
CallResolve(c, raw, kind) ==
  /\ MayCall(c)
  /\ started
  /\ Resolve(raw, kind) # None
  /\ Goto(c, [pc |-> "resolved", pointer |-> Resolve(raw, kind), kind |-> kind])
  /\ UNCHANGED <<bootVars, tableVars, free, objectVars>>

Using(c, kind) == At(c, "resolved") /\ call[c].kind = kind

\* The object at p is released, by c or for c: a waiter is taken from its queue and
\* granted the object, and owns it if it is a mutex.  t is what the release has
\* already done to the task words.
Release(p, kind, t) ==
  \/ /\ words[p].waiters = {}
     /\ words' = [words EXCEPT ![p].owner = None]
     /\ tcb' = t
  \/ \E w \in words[p].waiters :
       /\ words' = [words EXCEPT ![p] = [owner |-> IF kind = "Mutex" THEN w ELSE None,
                                         waiters |-> @.waiters \ {w}]]
       /\ tcb' = [t EXCEPT ![w].granted = TRUE]

\* down without a permit, and lock of a mutex that another owns.
CallWaits(c) ==
  LET p == call[c].pointer
      kind == call[c].kind
  IN  /\ At(c, "resolved")
      /\ kind = "Mutex" => words[p].owner \notin {None, c}
      /\ words' = [words EXCEPT ![p].waiters = @ \cup {c}]
      /\ tcb' = [tcb EXCEPT ![c] = [pointer |-> p, kind |-> kind, granted |-> FALSE]]
      /\ Goto(c, [pc |-> "waiting"])
      /\ UNCHANGED <<bootVars, tableVars, free, held>>

\* lock of a free mutex.
LockTakes(c) ==
  LET p == call[c].pointer
  IN  /\ Using(c, "Mutex")
      /\ words[p].owner = None
      /\ words' = [words EXCEPT ![p].owner = c]
      /\ held' = held \cup {<<c, p>>}
      /\ Return(c)
      /\ UNCHANGED <<bootVars, tableVars, free, tcb>>

\* up.
Up(c) ==
  /\ Using(c, "Semaphore")
  /\ Release(call[c].pointer, "Semaphore", tcb)
  /\ Return(c)
  /\ UNCHANGED <<bootVars, tableVars, free, held>>

\* The outermost unlock.
Unlock(c) ==
  LET p == call[c].pointer
  IN  /\ Using(c, "Mutex")
      /\ words[p].owner = c
      /\ Release(p, "Mutex", tcb)
      /\ held' = held \ {<<c, p>>}
      /\ Return(c)
      /\ UNCHANGED <<bootVars, tableVars, free>>

\* down with a permit, a recursive lock or unlock, a call that may not wait and
\* one that is refused.
CallReturns(c) ==
  /\ At(c, "resolved")
  /\ Return(c)
  /\ UNCHANGED <<bootVars, tableVars, free, objectVars>>

\* A deadline (wake_sleepers) or cancel_wait takes waiter w out of the queue that its
\* waiting word points to.
WaitEnds(w) ==
  /\ tcb[w].pointer # None
  /\ ~tcb[w].granted
  /\ words' = [words EXCEPT ![tcb[w].pointer].waiters = @ \ {w}]
  /\ tcb' = [tcb EXCEPT ![w] = NotWaiting]
  /\ UNCHANGED <<bootVars, tableVars, free, call, held>>

\* cancel_wait before w has run again: the object its granted word points to is
\* released.
CancelGrant(w) ==
  /\ tcb[w].granted
  /\ Release(tcb[w].pointer, tcb[w].kind, [tcb EXCEPT ![w] = NotWaiting])
  /\ UNCHANGED <<bootVars, tableVars, free, call, held>>

\* The waiter runs again and consumes its grant, if it has one.
CallResumes(c) ==
  /\ At(c, "waiting")
  /\ tcb[c].pointer = None \/ tcb[c].granted
  /\ tcb' = [tcb EXCEPT ![c] = NotWaiting]
  /\ held' = IF tcb[c].granted /\ tcb[c].kind = "Mutex"
               THEN held \cup {<<c, tcb[c].pointer>>} ELSE held
  /\ Return(c)
  /\ UNCHANGED <<bootVars, tableVars, free, words>>

-----------------------------------------------------------------------------
(* Destruction. *)

\* Fault: destroy looks at the object alone and not at the granted words.
BusyIgnoresGrants(p, kind) ==
  words[p].waiters # {} \/ (kind = "Mutex" /\ words[p].owner # None)

\* semaphore_state_has_waiters with the search for a granted_sem, and
\* mutex_state_is_busy.
Busy(p, kind) ==
  \/ words[p].waiters # {}
  \/ IF kind = "Mutex" THEN words[p].owner # None
     ELSE \E c \in Callers : tcb[c].granted /\ tcb[c].kind = kind /\ tcb[c].pointer = p

\* semaphore_destroy and mutex_destroy.
Destroy(c, raw, kind) ==
  LET p == Resolve(raw, kind)
  IN  /\ MayCall(c)
      /\ started
      /\ p # None
      /\ ~Busy(p, kind)
      /\ table' = [table EXCEPT ![HandleSlot(raw)].pointer = None]
      /\ Goto(c, [pc |-> "release", pointer |-> p])
      /\ UNCHANGED <<bootVars, uses, issued, free, objectVars>>

\* What the callers of the unsafe destroy promise, as far as it is needed: no call is
\* between resolving the object and its critical section.  Waiters, owners and
\* unconsumed grants are left to destroy.
DestroyContract(raw, kind) ==
  \A o \in Callers : call[o].pc = "resolved" => call[o].pointer # Resolve(raw, kind)

-----------------------------------------------------------------------------

Init ==
  /\ installed = [s \in Storages |-> FALSE]
  /\ heap = [s \in Storages |-> None]
  /\ offered = {}
  /\ start = None
  /\ driver \in {"nobody", "another"}
  /\ started = FALSE
  /\ free = Blocks
  /\ table = [i \in SlotIds |-> EmptySlot]
  /\ uses = [i \in SlotIds |-> 0]
  /\ issued = {}
  /\ call = [c \in Callers |-> Idle]
  /\ words = [b \in Blocks |-> NewObject]
  /\ tcb = [c \in Callers |-> NotWaiting]
  /\ held = {}

Booting(c) ==
  \/ \E q \in Placements : InstallClaim(c, q[1], q[2])
  \/ \E h \in Heaps : StartClaim(c, h)
  \/ InstallInit(c) \/ StartDriver(c) \/ StartInit(c)

Managing(c) ==
  \/ \E k \in Kinds : CreateAllocate(c, k)
  \/ CreateInsert(c) \/ CreateRefused(c) \/ Deallocate(c)
  \/ \E h \in issued, k \in Kinds : Destroy(c, h.raw, k) /\ DestroyContract(h.raw, k)

Operating(c) ==
  \/ \E h \in issued, k \in Kinds : CallResolve(c, h.raw, k)
  \/ CallWaits(c) \/ LockTakes(c) \/ Up(c) \/ Unlock(c) \/ CallReturns(c)
  \/ WaitEnds(c) \/ CancelGrant(c) \/ CallResumes(c)

Next ==
  \E c \in Callers : Booting(c) \/ Managing(c) \/ Operating(c)

Spec == Init /\ [][Next]_vars

-----------------------------------------------------------------------------

\* The table and the calls that own block b.
Owners(b) ==
  {i \in SlotIds : table[i].pointer = b}
    \cup {c \in Callers : call[c].pc \in {"create", "release"} /\ call[c].pointer = b}

\* A block of the heap is free or has exactly one owner: creation and destruction,
\* which allocate, register and release in separate critical sections, neither
\* leak a block nor free one twice, whoever runs in between.
BlocksOwnedOnce ==
  \A b \in Blocks : Cardinality(Owners(b)) = IF b \in free THEN 0 ELSE 1

\* allocate and deallocate look START_STATE up each time: every block in use came
\* from the heap it names now, whatever failed or repeated start calls came before.
ReturnedToItsHeap == \A b \in Blocks \ free : b[1] = start

\* A handle resolves exactly while its own object is alive and has the kind the
\* caller asks for; a later object in its slot passes for it only after the
\* generation has gone all the way round.
HandlesExact ==
  \A h \in issued, k \in Kinds :
    LET slot == HandleSlot(h.raw)
    IN  (Resolve(h.raw, k) # None) <=>
          /\ table[slot].pointer # None
          /\ table[slot].kind = k
          /\ (uses[slot] - h.born) % GenerationMax = 0

Registered(p, kind) == \E i \in SlotIds : table[i].pointer = p /\ table[i].kind = kind

\* "A queued waiter keeps the mutex allocation live", "an unconsumed direct grant keeps
\* the resource allocation live" (cancel_wait_locked): whatever signals, deadlines,
\* cancellations and destroy calls come between, the object that a task's waiting or
\* granted word points to, which a deadline or a cancellation dereferences without
\* looking it up, is still registered under its kind, and so is every mutex that a
\* caller has been told it owns.
PointersLive ==
  /\ \A c \in Callers : tcb[c].pointer # None => Registered(tcb[c].pointer, tcb[c].kind)
  /\ \A o \in held : Registered(o[2], "Mutex")

\* "Its bytes are accessed only through the returned capability and the RTOS"
\* (SchedulerStorage::install): no two heaps manage the same arena.
OneHeapPerArena ==
  \A s, r \in Storages : heap[s] # None /\ heap[s] = heap[r] => s = r
=============================================================================
