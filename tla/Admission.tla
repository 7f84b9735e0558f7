------------------------------ MODULE Admission ------------------------------
(***************************************************************************)
(* Task admission of hisi-rtos: reservations of dynamic task slots and     *)
(* stacks (src/src/runtime/reservation.rs), ordinary and reserved spawns,  *)
(* task exit and the reclamation of stacks (src/src/runtime.rs), and the   *)
(* calls that drive them (src/src/runtime/driver.rs).                      *)
(*                                                                         *)
(* A call runs in several steps, because stacks are allocated and freed    *)
(* outside the scheduler's critical section and a task may be preempted    *)
(* between any two of them.  One action is one critical section or one     *)
(* call of the allocator; at[t] says where task t stands in its call.      *)
(* Which task runs next is left open: every schedule of Preemptive tasks   *)
(* is covered.  A task that exits never runs again, so task_exit is one    *)
(* step; that nobody else runs before its stack is left is module          *)
(* Scheduler's concern.                                                    *)
(*                                                                         *)
(* A token or a task identity is a pair of a slot and a generation, which  *)
(* is what the code packs into 24 and 32 bits.  The stacks of an entry     *)
(* that were not consumed (stacks[next_stack..stack_count]) are a set.     *)
(* Generations stay below the 16 bits of the code.                         *)
(***************************************************************************)
EXTENDS Integers, Sequences, FiniteSets, Functions

CONSTANTS MAIN,            \* the boot task: it is never spawned and never exits
          Slots,           \* the dynamic task slots, dynamic_capacity of them
          TableSize,       \* RESERVATION_SLOT_COUNT
          Stacks,          \* blocks the allocator can hand out
          Plans,           \* the task-resource plans that may be requested
          MaxReservations, \* bound on the reservations ever made
          MaxSpawns        \* bound on the spawns ever begun

NULL == "null"   \* a null stack pointer

ASSUME SlotsAssumption ==
         Slots \subseteq Nat \ {0} /\ IsFiniteSet(Slots) /\ MAIN \notin Slots
ASSUME TableSizeAssumption == TableSize \in Nat \ {0}
ASSUME StacksAssumption == IsFiniteSet(Stacks) /\ NULL \notin Stacks
ASSUME PlansAssumption ==
         \A plan \in Plans : plan \in Seq(Nat \ {0}) /\ plan # <<>>
ASSUME BoundsAssumption == MaxReservations \in Nat /\ MaxSpawns \in Nat

Callers == {MAIN} \cup Slots
Entries == 1..TableSize
NONE == <<0, 0>> \* an ordinary spawn passes no reservation

\* TASK_SLOT_COUNT: main, idle and the dynamic slots.
TaskSlotCount == Cardinality(Slots) + 2

VARIABLES
  tasks,           \* tasks[i]: whether slot i is taken, its stack, its identity_generation
  slotGenerations, \* slot_generations
  entries,         \* the ReservationTable
  totalRemaining,  \* its total_remaining
  retired,         \* retired_stacks: left by exited tasks and not yet freed
  heap,            \* the blocks that are allocated
  at,              \* where each task stands in its call
  local,           \* the call's arguments and local variables
  tokens,          \* the reservation tokens handed out
  released,        \* ghost: the tokens that were released
  ended            \* ghost: the identities of the tasks that exited

table == <<entries, totalRemaining>>
slotVars == <<tasks, slotGenerations>>
ghosts == <<tokens, released, ended>>
vars == <<slotVars, table, retired, heap, at, local, ghosts>>

Idle == [plan |-> <<>>, token |-> NONE, stacks |-> {}, next |-> "idle",
         slot |-> 0, generation |-> 0]

EmptyTask == [taken |-> FALSE, stack |-> NULL, generation |-> 0]
EmptyEntry ==
  [active |-> FALSE, generation |-> 0, remaining |-> 0, sized |-> FALSE, stacks |-> {}]

Init ==
  /\ tasks = [i \in Slots |-> EmptyTask]
  /\ slotGenerations = [i \in Slots |-> 0]
  /\ entries = [k \in Entries |-> EmptyEntry]
  /\ totalRemaining = 0
  /\ retired = {}
  /\ heap = {}
  /\ at = [t \in Callers |-> "idle"]
  /\ local = [t \in Callers |-> Idle]
  /\ tokens = {}
  /\ released = {}
  /\ ended = {}

-----------------------------------------------------------------------------
(* The calls of one task. *)

CanCall(t) == at[t] = "idle" /\ (t # MAIN => tasks[t].taken)

Goto(t, pc, l) ==
  /\ at' = [at EXCEPT ![t] = pc]
  /\ local' = [local EXCEPT ![t] = l]

Return(t) == Goto(t, "idle", Idle)

\* The call frees the blocks one by one, and then continues at pc.
FreeThen(t, blocks, pc, l) ==
  IF blocks = {} THEN Goto(t, pc, [l EXCEPT !.stacks = {}])
  ELSE Goto(t, "free", [l EXCEPT !.stacks = blocks, !.next = pc])

Deallocate(t, s) ==
  /\ at[t] = "free"
  /\ s \in local[t].stacks
  /\ heap' = heap \ {s}
  /\ IF local[t].stacks # {s}
     THEN Goto(t, "free", [local[t] EXCEPT !.stacks = @ \ {s}])
     ELSE IF local[t].next = "idle" THEN Return(t)
     ELSE Goto(t, local[t].next, [local[t] EXCEPT !.stacks = {}, !.next = "idle"])
  /\ UNCHANGED <<slotVars, table, retired, ghosts>>

-----------------------------------------------------------------------------
(* The reservation table. *)

FreeSlots == {i \in Slots : ~tasks[i].taken}
Available == Cardinality(FreeSlots) - totalRemaining

NextGeneration(k) == entries[k].generation + 1

\* Fault: only the entry is looked up, and the generation of the token is ignored.
ResolvesAnyGeneration(token) ==
  token # NONE /\ entries[token[1]].active

\* ReservationTable::resolve_slot.
Resolves(token) ==
  /\ token # NONE
  /\ entries[token[1]].active
  /\ entries[token[1]].generation = token[2]

FreeEntries == {k \in Entries : ~entries[k].active}

\* The inactive entries, in the order in which position finds them.
Inactive ==
  [j \in 1..Cardinality(FreeEntries) |->
     CHOOSE k \in FreeEntries : Cardinality({f \in FreeEntries : f <= k}) = j]

\* The tasks of a list of counts: number n of group j, for each n up to the count.
TasksOf(counts) == UNION {{j} \X (1..counts[j]) : j \in DOMAIN counts}

SumOf(plan) == Cardinality(TasksOf(plan))

\* reserve and reserve_plan_with_stacks admit all of a plan or nothing of it.
Admissible(plan) == SumOf(plan) <= Available /\ Len(plan) <= Cardinality(FreeEntries)

\* Group j of the plan takes the j-th inactive entry, with the stacks given[j].
Publish(plan, sized, given) ==
  LET group(k) == {j \in DOMAIN plan : Inactive[j] = k}
      taken == {Inactive[j] : j \in DOMAIN plan}
  IN /\ entries' = [k \in Entries |->
          IF k \notin taken THEN entries[k]
          ELSE LET j == CHOOSE g \in group(k) : TRUE IN
               [active |-> TRUE, generation |-> NextGeneration(k),
                remaining |-> plan[j], sized |-> sized, stacks |-> given[j]]]
     /\ totalRemaining' = totalRemaining + SumOf(plan)
     /\ tokens' = tokens \cup {<<k, NextGeneration(k)>> : k \in taken}

\* The bound MaxReservations also counts the calls that may still succeed.
MayReserve(n) ==
  Cardinality(tokens) + n + SumFunction([t \in Callers |-> Len(local[t].plan)])
    <= MaxReservations

\* reserve_tasks: slots without stacks, in one critical section.
ReserveTasks(t, n) ==
  /\ CanCall(t)
  /\ MayReserve(1)
  /\ Admissible(<<n>>)
  /\ Publish(<<n>>, FALSE, <<{}>>)
  /\ UNCHANGED <<slotVars, retired, heap, at, local, released, ended>>

\* reserve_task_resource_plan, and reserve_task_resources as a plan of one group.
BeginPlan(t, plan) ==
  /\ CanCall(t)
  /\ MayReserve(Len(plan))
  /\ Goto(t, "preallocate", [Idle EXCEPT !.plan = plan])
  /\ UNCHANGED <<slotVars, table, retired, heap, ghosts>>

Preallocate(t, s) ==
  /\ at[t] = "preallocate"
  /\ s \notin heap
  /\ heap' = heap \cup {s}
  /\ LET l == [local[t] EXCEPT !.stacks = @ \cup {s}] IN
     Goto(t, IF Cardinality(l.stacks) = SumOf(l.plan) THEN "reserve" ELSE "preallocate", l)
  /\ UNCHANGED <<slotVars, table, retired, ghosts>>

\* The allocator returns null: what was allocated is released again.
PreallocateFails(t) ==
  /\ at[t] = "preallocate"
  /\ FreeThen(t, local[t].stacks, "idle", Idle)
  /\ UNCHANGED <<slotVars, table, retired, heap, ghosts>>

\* The checks that precede the loop of reserve_plan_with_stacks are those of
\* the loop itself, so its rollback branch has no case left.
ReservePlan(t) ==
  /\ at[t] = "reserve"
  /\ Admissible(local[t].plan)
  /\ \E group \in [local[t].stacks -> DOMAIN local[t].plan] :
       LET given == [j \in DOMAIN local[t].plan |->
                      {s \in local[t].stacks : group[s] = j}]
       IN /\ \A j \in DOMAIN given : Cardinality(given[j]) = local[t].plan[j]
          /\ Publish(local[t].plan, TRUE, given)
  /\ Return(t)
  /\ UNCHANGED <<slotVars, retired, heap, released, ended>>

ReservePlanRefused(t) ==
  /\ at[t] = "reserve"
  /\ ~Admissible(local[t].plan)
  /\ FreeThen(t, local[t].stacks, "idle", Idle)
  /\ UNCHANGED <<slotVars, table, retired, heap, ghosts>>

\* release_task_reservation: unconsumed slots return to the pool in the
\* critical section, unconsumed stacks to the allocator after it.
Release(t, token) ==
  /\ CanCall(t)
  /\ Resolves(token)
  /\ LET e == entries[token[1]] IN
     /\ totalRemaining' = totalRemaining - e.remaining
     /\ entries' = [entries EXCEPT ![token[1]] = [EmptyEntry EXCEPT !.generation = e.generation]]
     /\ FreeThen(t, e.stacks, "idle", Idle)
  /\ released' = released \cup {token}
  /\ UNCHANGED <<slotVars, retired, heap, tokens, ended>>

-----------------------------------------------------------------------------
(* Spawn, exit and reclamation. *)

\* Fault: the list of retired stacks is read and not cleared.
TakeRetiredTwice == UNCHANGED retired

\* The critical section of reclaim_retired_stacks empties the list.
TakeRetired == retired' = {}

Spawning(t) == at[t] \in {"size", "allocate", "commit"}
               \/ (at[t] = "free" /\ local[t].next = "size")
SpawnsBegun == SumFunction(slotGenerations) + Cardinality({t \in Callers : Spawning(t)})

\* spawn starts by freeing what exited tasks left; token is NONE for an
\* ordinary spawn.
BeginSpawn(t, token) ==
  /\ CanCall(t)
  /\ SpawnsBegun < MaxSpawns
  /\ FreeThen(t, retired, "size", [Idle EXCEPT !.token = token])
  /\ TakeRetired
  /\ UNCHANGED <<slotVars, table, heap, ghosts>>

\* yield_now and sleep_ms end with reclaim_retired_stacks.
Yield(t) ==
  /\ CanCall(t)
  /\ FreeThen(t, retired, "idle", Idle)
  /\ TakeRetired
  /\ UNCHANGED <<slotVars, table, heap, ghosts>>

HasStacks(token) == Resolves(token) /\ entries[token[1]].sized

\* The first critical section reads whether the reservation comes with stacks.
ReadStackSize(t) ==
  /\ at[t] = "size"
  /\ IF local[t].token # NONE /\ ~Resolves(local[t].token) THEN Return(t)
     ELSE Goto(t, IF HasStacks(local[t].token) THEN "commit" ELSE "allocate", local[t])
  /\ UNCHANGED <<slotVars, table, retired, heap, ghosts>>

\* The task asks for more bytes than its reservation promised.
SpawnTooLarge(t) ==
  /\ at[t] = "size"
  /\ HasStacks(local[t].token)
  /\ Return(t)
  /\ UNCHANGED <<slotVars, table, retired, heap, ghosts>>

SpawnAllocate(t, s) ==
  /\ at[t] = "allocate"
  /\ s \notin heap
  /\ heap' = heap \cup {s}
  /\ Goto(t, "commit", [local[t] EXCEPT !.stacks = {s}])
  /\ UNCHANGED <<slotVars, table, retired, ghosts>>

SpawnAllocateFails(t) ==
  /\ at[t] = "allocate"
  /\ Return(t)
  /\ UNCHANGED <<slotVars, table, retired, heap, ghosts>>

\* Fault: an ordinary spawn takes any free slot.
OrdinarySlotUnpromised == FreeSlots # {}

\* alloc_dynamic_slot: promised slots are left alone.
OrdinarySlot == Cardinality(FreeSlots) > totalRemaining

\* Fault: the remaining promise is not looked at.
ReservedSlotUnchecked(token) == Resolves(token) /\ FreeSlots # {}

\* alloc_reserved_dynamic_slot with ensure_consumable.
ReservedSlot(token) ==
  Resolves(token) /\ entries[token[1]].remaining # 0 /\ FreeSlots # {}

SlotGranted(token) == IF token = NONE THEN OrdinarySlot ELSE ReservedSlot(token)

\* ReservationTable::consume, handing out stack (NULL: none).
Consume(token, stack) ==
  IF token = NONE THEN UNCHANGED table
  ELSE /\ entries' = [entries EXCEPT ![token[1]].remaining = @ - 1,
                                     ![token[1]].stacks = @ \ {stack}]
       /\ totalRemaining' = totalRemaining - 1

\* The stacks the new task may get: a promised one if there are any, else the
\* one that the call allocated.
Offered(t) ==
  LET token == local[t].token IN
  IF HasStacks(token) THEN entries[token[1]].stacks
  ELSE IF local[t].stacks = {} THEN {NULL} ELSE local[t].stacks

\* Fault: the generation is kept in the task control block, which exit clears.
NewGenerationFromTask(i) == tasks[i].generation + 1

NewGeneration(i) == slotGenerations[i] + 1

\* The second critical section takes the slot, and the stack, and publishes the task.
SpawnCommit(t) ==
  /\ at[t] = "commit"
  /\ SlotGranted(local[t].token)
  /\ \E stack \in Offered(t), i \in FreeSlots :
       /\ \A j \in FreeSlots : i <= j
       /\ Consume(local[t].token, stack)
       /\ tasks' = [tasks EXCEPT ![i] =
                      [taken |-> TRUE, stack |-> stack, generation |-> NewGeneration(i)]]
       /\ slotGenerations' = [slotGenerations EXCEPT ![i] = NewGeneration(i)]
       /\ Goto(t, "identify",
               [Idle EXCEPT !.stacks = local[t].stacks \ {stack},
                            !.slot = i, !.generation = NewGeneration(i)])
  /\ UNCHANGED <<retired, heap, ghosts>>

SpawnRefused(t) ==
  /\ at[t] = "commit"
  /\ ~SlotGranted(local[t].token)
  /\ FreeThen(t, local[t].stacks, "idle", Idle)
  /\ UNCHANGED <<slotVars, table, retired, heap, ghosts>>

\* The driver call builds the TaskId in a third critical section, from the
\* generation that the slot has by then.  A stack still in local would be lost.
Identify(t) ==
  /\ at[t] = "identify"
  /\ Return(t)
  /\ UNCHANGED <<slotVars, table, retired, heap, ghosts>>

\* task_exit: the slot is free at once, the stack is freed by somebody else later.
Exit(i) ==
  /\ CanCall(i)
  /\ tasks' = [tasks EXCEPT ![i] = EmptyTask]
  /\ retired' = retired \cup ({tasks[i].stack} \ {NULL})
  /\ ended' = ended \cup {<<i, tasks[i].generation>>}
  /\ UNCHANGED <<slotGenerations, table, heap, at, local, tokens, released>>

Next ==
  \/ \E t \in Callers :
       \/ \E s \in Stacks : Deallocate(t, s) \/ Preallocate(t, s) \/ SpawnAllocate(t, s)
       \/ \E n \in 1..Cardinality(Slots) : ReserveTasks(t, n)
       \/ \E plan \in Plans : BeginPlan(t, plan)
       \/ \E token \in tokens : Release(t, token)
       \/ \E token \in tokens \cup {NONE} : BeginSpawn(t, token)
       \/ PreallocateFails(t) \/ ReservePlan(t) \/ ReservePlanRefused(t)
       \/ Yield(t) \/ ReadStackSize(t) \/ SpawnTooLarge(t) \/ SpawnAllocateFails(t)
       \/ SpawnCommit(t) \/ SpawnRefused(t) \/ Identify(t)
  \/ \E i \in Slots : Exit(i)

Spec == Init /\ [][Next]_vars

-----------------------------------------------------------------------------
(* Properties. *)

Tokens == Entries \X (Nat \ {0})

\* Every variable keeps its type; a u8 or usize counter of promises never
\* drops below zero.
TypeOK ==
  /\ tasks \in [Slots -> [taken : BOOLEAN, stack : Stacks \cup {NULL}, generation : Nat]]
  /\ slotGenerations \in [Slots -> Nat]
  /\ entries \in [Entries -> [active : BOOLEAN, generation : Nat, remaining : Nat,
                              sized : BOOLEAN, stacks : SUBSET Stacks]]
  /\ totalRemaining \in Nat
  /\ retired \subseteq Stacks
  /\ heap \subseteq Stacks
  /\ at \in [Callers -> {"idle", "free", "preallocate", "reserve", "size",
                         "allocate", "commit", "identify"}]
  /\ local \in [Callers -> [plan : Plans \cup {<<>>}, token : Tokens \cup {NONE},
                             stacks : SUBSET Stacks, next : {"idle", "size"},
                             slot : Slots \cup {0}, generation : Nat]]
  /\ tokens \subseteq Tokens
  /\ released \subseteq tokens
  /\ ended \subseteq Slots \X Nat

Owners(s) ==
  {<<"task", i>> : i \in {j \in Slots : tasks[j].stack = s}}
    \cup {<<"entry", k>> : k \in {j \in Entries : s \in entries[j].stacks}}
    \cup {<<"call", t>> : t \in {u \in Callers : s \in local[u].stacks}}
    \cup (IF s \in retired THEN {<<"retired">>} ELSE {})

\* Every allocated stack has exactly one owner - a live task, a reservation,
\* the list of retired stacks or a call in progress - and a free one has none:
\* no stack is leaked, freed twice, shared by two tasks or freed while a task
\* or a promise still needs it, whichever calls fail or overlap.
StackOwnership ==
  /\ \A s \in Stacks : Cardinality(Owners(s)) = (IF s \in heap THEN 1 ELSE 0)
  /\ \A i \in Slots : tasks[i].taken <=> tasks[i].stack # NULL
  /\ \A t \in Callers : at[t] \in {"idle", "identify"} => local[t].stacks = {}

\* What is promised can be delivered: the free slots cover the promises of all
\* live reservations, and a reservation with stacks holds one for each slot it
\* still promises.  So a reserved spawn with a promise left is never refused.
PromisesBacked ==
  /\ totalRemaining = SumOf([k \in Entries |-> entries[k].remaining])
  /\ totalRemaining <= Cardinality(FreeSlots)
  /\ \A k \in Entries :
       /\ ~entries[k].active => entries[k].remaining = 0
       /\ Cardinality(entries[k].stacks) =
            (IF entries[k].sized THEN entries[k].remaining ELSE 0)

\* A token that was released never resolves again, also when its entry is in
\* use by another reservation (resolve_slot compares generations).
ReleasedTokensStale == \A token \in released : ~Resolves(token)

\* A live task never has the identity of a task that exited: slot_generations
\* outlives the task control block (RTOS-ID-001).  And a spawn whose task exits
\* before the call names it may name a later task of the slot, never an earlier.
IdentitiesFresh ==
  /\ \A i \in Slots : tasks[i].taken => <<i, tasks[i].generation>> \notin ended
  /\ \A t \in Callers : at[t] = "identify" =>
       LET generation == tasks[local[t].slot].generation
       IN generation = 0 \/ generation >= local[t].generation

\* The identity that a spawn returns is that of the task it created: when the
\* driver call reads the generation of the slot, the slot is still that task's,
\* or empty, which makes the call fail (RTOS-ID-001: "A task identity is
\* `{ slot, generation }`").
SpawnNamesItsTask ==
  \A t \in Callers :
    at[t] = "identify" =>
      tasks[local[t].slot].generation \in {0, local[t].generation}

\* The array of retired stacks is large enough: the assertion of retire_stack.
RetiredFits == Cardinality(retired) <= TaskSlotCount
=============================================================================
