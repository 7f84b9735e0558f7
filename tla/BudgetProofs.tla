----------------------------- MODULE BudgetProofs -----------------------------
(***************************************************************************)
(* The periodic quota for every capacity, period, lock limit and interrupt *)
(* latency and for every resolution of the hardware clock: phase,          *)
(* readmission, the scheduler-lock bound, the deferred exhaustion, and the *)
(* accounting of the running time up to what truncation to milliseconds    *)
(* takes from each run.                                                    *)
(***************************************************************************)
EXTENDS Budget, CommonLemmas

BudgetType == [remaining : 0..Capacity, replenishesAt : Nat,
               since : Nat \cup {NONE}, overrun : BOOLEAN]

\* The next replenishment is a phase boundary at most one period away.
PhaseInv == PhaseAligned /\ budget.replenishesAt <= Now + Period

\* Only a running task holds the lock, and since a time that was read before
\* it took it; an exhaustion is deferred only by the lock.
LockInv ==
  /\ locked => task = "Running" /\ lockStarted # NONE
  /\ lockStarted # NONE => locked /\ lockedAt # NONE /\ lockStarted <= lockedAt
  /\ lockRead <= Now /\ unlockRead <= Now
  /\ unlockRead # NONE => locked
  /\ budget.overrun => locked

\* A throttled task waits for a boundary at most one period after it was
\* throttled; one throttled by its unlock, for a boundary after the call of it.
ThrottleInv ==
  /\ task = "Throttled" => /\ throttledAt # NONE
                           /\ budget.replenishesAt <= throttledAt + Period
  /\ calledAt # NONE =>
       \/ task = "Throttled" /\ budget.replenishesAt > calledAt
       \/ /\ task = "Ready"
          /\ (Now - origin) \div Period > (calledAt - origin) \div Period

\* The inductive invariant, for every resolution of the clock.
IInv ==
  /\ TypeOK
  /\ budget.since <= Now
  /\ PhaseInv
  /\ LockInv
  /\ OverrunJustified
  /\ ThrottleInv
  /\ ReadmittedInTime

\* A task is charged from the moment it runs; a running task that nothing
\* charges has used its budget up.
ChargedInv ==
  /\ task # "Running" => budget.since = NONE
  /\ task = "Running" /\ budget.since = NONE => budget.remaining = 0

\* What is left and what was used make up at most the capacity and what
\* truncation took from earlier runs; a run that has started adds the time since
\* its last charge, whose truncation is not settled before it ends.
SpentInv ==
  budget.remaining # 0 =>
    IF task = "Running" /\ ~fresh
    THEN /\ runs # 0
         /\ used + budget.remaining * TicksPerMs
              <= Capacity * TicksPerMs + (clock - budget.since * TicksPerMs)
                   + (runs - 1) * (TicksPerMs - 1)
    ELSE used + budget.remaining * TicksPerMs <= Capacity * TicksPerMs + Truncated

\* A policy was installed at an earlier moment, and what was used was used since.
InstalledInv == installedAt * TicksPerMs <= clock /\ used <= clock - installedAt * TicksPerMs

\* A running task with an empty budget was dispatched with it or exhausted it
\* under the lock; every other one is within the deadline of its timer.
EmptyInv ==
  task = "Running" =>
    IF budget.remaining = 0 THEN ranEmpty \/ budget.overrun
    ELSE used <= (Capacity + MaxLatency) * TicksPerMs + Truncated

\* The inductive invariant of the accounting.
QuotaInv ==
  /\ ChargedInv /\ SpentInv /\ InstalledInv /\ EmptyInv
  /\ fresh => task = "Running"
-----------------------------------------------------------------------------
(* The operations of BudgetState. *)

\* The boundary that replenish_if_due and throttle_after_lock_overrun move to:
\* the first one after now, in the phase of the old one.
NextBoundary(r, now) == r + ((now - r) \div Period + 1) * Period

\* next_boundary is the first boundary after now, in phase with the given one.
LEMMA NextBoundaryFacts ==
  ASSUME NEW r \in Nat, NEW now \in Nat, r <= now
  PROVE  /\ NextBoundary(r, now) \in Nat
         /\ now < NextBoundary(r, now) /\ NextBoundary(r, now) <= now + Period
         /\ \A o \in Nat : (r - o) % Period = 0 => (NextBoundary(r, now) - o) % Period = 0
<1> USE BudgetSpecAssumption
<1> DEFINE q == (now - r) \div Period
<1>1. /\ q \in Int /\ Period * q <= now - r /\ now - r < Period * q + Period
  BY DivFacts
<1>2. (q + 1) * Period = Period * q + Period
  BY <1>1
<1>3. NextBoundary(r, now) = r + (Period * q + Period)
  BY <1>1, <1>2 DEF NextBoundary
<1>4. /\ NextBoundary(r, now) \in Nat
      /\ now < NextBoundary(r, now) /\ NextBoundary(r, now) <= now + Period
  <2> DEFINE z == Period * q
  <2>1. z \in Int /\ z <= now - r /\ now - r < z + Period /\ NextBoundary(r, now) = r + (z + Period)
    BY <1>1, <1>3
  <2> HIDE DEF z
  <2> QED  BY <2>1
<1>5. ASSUME NEW o \in Nat, (r - o) % Period = 0
      PROVE  (NextBoundary(r, now) - o) % Period = 0
  <2>1. ((r - o) + (q + 1) * Period) % Period = 0
    <3>1. q + 1 \in Int /\ r - o \in Int
      BY <1>1
    <3> HIDE DEF q
    <3> QED  BY <3>1, <1>5, AlignedSum
  <2> DEFINE z == (q + 1) * Period
  <2>2. z \in Int /\ ((r - o) + z) % Period = 0 /\ NextBoundary(r, now) = r + z
    BY <2>1, <1>1 DEF NextBoundary
  <2> HIDE DEF z
  <2>3. NextBoundary(r, now) - o = (r - o) + z
    BY <2>2
  <2> QED  BY <2>2, <2>3
<1> QED  BY <1>4, <1>5

\* charge_until subtracts the running time, never below zero.
LEMMA ChargeFacts ==
  ASSUME NEW b \in BudgetType, NEW now \in Nat, b.since <= now
  PROVE  LET c == ChargeUntil(b, now) IN
         /\ c \in BudgetType
         /\ c.replenishesAt = b.replenishesAt /\ c.overrun = b.overrun
         /\ c.since = (IF b.since = NONE THEN NONE ELSE now)
         /\ c.remaining # 0 =>
              c.remaining = b.remaining - (IF b.since = NONE THEN 0 ELSE now - b.since)
<1> DEFINE c == ChargeUntil(b, now)
           elapsed == IF b.since < now THEN now - b.since ELSE 0
           left == IF elapsed < b.remaining THEN b.remaining - elapsed ELSE 0
<1>0. b.remaining \in 0..Capacity /\ b.since \in Nat \cup {NONE}
  BY DEF BudgetType
<1>1. CASE b.since = NONE
  BY <1>0, <1>1 DEF ChargeUntil, NONE
<1>2. CASE b.since # NONE
  <2>1. c = [remaining |-> left, replenishesAt |-> b.replenishesAt,
             since |-> now, overrun |-> b.overrun]
    BY <1>2 DEF ChargeUntil, BudgetType
  <2>2. left \in 0..Capacity /\ (left # 0 => left = b.remaining - (now - b.since))
    BY <1>0, <1>2, BudgetSpecAssumption DEF NONE
  <2> HIDE DEF left
  <2>3. c \in BudgetType
    BY <2>1, <2>2 DEF BudgetType
  <2> QED  BY <1>2, <2>1, <2>2, <2>3
<1> QED  BY <1>1, <1>2

\* replenish_if_due fills the budget and moves to the next boundary.
LEMMA ReplenishFacts ==
  ASSUME NEW b \in BudgetType, NEW now \in Nat
  PROVE  LET c == ReplenishIfDue(b, now) IN
         /\ c \in BudgetType
         /\ c.since = b.since /\ c.overrun = b.overrun
         /\ ~IsDue(b, now) => c = b
         /\ IsDue(b, now) => c.remaining = Capacity /\ c.replenishesAt = NextBoundary(b.replenishesAt, now)
<1>1. CASE ~IsDue(b, now)
  BY <1>1 DEF ReplenishIfDue
<1>2. CASE IsDue(b, now)
  <2>1. NextBoundary(b.replenishesAt, now) \in Nat
    BY <1>2, NextBoundaryFacts DEF IsDue, BudgetType
  <2>2. ReplenishIfDue(b, now) =
          [b EXCEPT !.remaining = Capacity, !.replenishesAt = NextBoundary(b.replenishesAt, now)]
    BY <1>2 DEF ReplenishIfDue, NextBoundary, BudgetType
  <2> DEFINE c == ReplenishIfDue(b, now)
             n == NextBoundary(b.replenishesAt, now)
  <2>3. c.remaining = Capacity /\ c.replenishesAt = n /\ c.since = b.since /\ c.overrun = b.overrun
    BY <2>2 DEF BudgetType
  <2>4. c = [remaining |-> Capacity, replenishesAt |-> n, since |-> b.since, overrun |-> b.overrun]
    BY <2>2 DEF BudgetType
  <2>5. c \in BudgetType
    BY <2>1, <2>4, BudgetSpecAssumption DEF BudgetType
  <2> QED  BY <1>2, <2>3, <2>5
<1> QED  BY <1>1, <1>2

\* A replenishment keeps the phase of every origin, and the next boundary at
\* most a period away.
LEMMA ReplenishPhase ==
  ASSUME NEW b \in BudgetType, NEW now \in Nat, NEW o \in Nat,
         b.replenishesAt > o, (b.replenishesAt - o) % Period = 0,
         b.replenishesAt <= now + Period
  PROVE  LET c == ReplenishIfDue(b, now) IN
         /\ c.replenishesAt > o
         /\ (c.replenishesAt - o) % Period = 0
         /\ c.replenishesAt <= now + Period
<1>0. b.replenishesAt \in Nat
  BY DEF BudgetType
<1>1. CASE ~IsDue(b, now)
  BY <1>1, ReplenishFacts
<1>2. CASE IsDue(b, now)
  <2>1. b.replenishesAt <= now
    BY <1>2 DEF IsDue
  <2> DEFINE n == NextBoundary(b.replenishesAt, now)
  <2>2. /\ n \in Nat /\ now < n /\ n <= now + Period
        /\ (n - o) % Period = 0
    BY <2>1, <1>0, NextBoundaryFacts
  <2>3. ReplenishIfDue(b, now).replenishesAt = n
    BY <1>2, ReplenishFacts
  <2> HIDE DEF n
  <2> QED  BY <1>0, <2>1, <2>2, <2>3, BudgetSpecAssumption
<1> QED  BY <1>1, <1>2
\* Setting `since` leaves the rest of the budget alone.
LEMMA SinceFacts ==
  ASSUME NEW b \in BudgetType, NEW x \in Nat \cup {NONE}
  PROVE  LET c == [b EXCEPT !.since = x] IN
         /\ c \in BudgetType
         /\ c.since = x /\ c.remaining = b.remaining
         /\ c.replenishesAt = b.replenishesAt /\ c.overrun = b.overrun
<1>1. [b EXCEPT !.since = x] =
        [remaining |-> b.remaining, replenishesAt |-> b.replenishesAt, since |-> x,
         overrun |-> b.overrun]
  BY DEF BudgetType
<1> QED  BY <1>1 DEF BudgetType

\* The budget after a timer interrupt that found it used up.
LEMMA ExhaustFacts ==
  ASSUME NEW b \in BudgetType, NEW now \in Nat, b.since <= now, locked \in BOOLEAN
  PROVE  LET c == Exhaust(b, now) IN
         /\ c \in BudgetType
         /\ c.since = NONE /\ c.remaining = ChargeUntil(b, now).remaining
         /\ c.replenishesAt = b.replenishesAt /\ c.overrun = (b.overrun \/ locked)
<1> DEFINE d == ChargeUntil(b, now)
<1>0. d \in BudgetType /\ d.replenishesAt = b.replenishesAt /\ d.overrun = b.overrun
  BY ChargeFacts
<1>1. Exhaust(b, now) = [d EXCEPT !.since = NONE, !.overrun = d.overrun \/ locked]
  BY DEF Exhaust
<1> HIDE DEF d
<1>2. Exhaust(b, now) =
        [remaining |-> d.remaining, replenishesAt |-> d.replenishesAt, since |-> NONE,
         overrun |-> d.overrun \/ locked]
  BY <1>0, <1>1 DEF BudgetType
<1>3. d.overrun \/ locked \in BOOLEAN
  OBVIOUS
<1>4. Exhaust(b, now) \in BudgetType
  BY <1>0, <1>2, <1>3 DEF BudgetType
<1> QED  BY <1>0, <1>2, <1>4 DEF d

\* So does setting one of the other fields.
LEMMA OverrunFacts ==
  ASSUME NEW b \in BudgetType, NEW x \in BOOLEAN
  PROVE  LET c == [b EXCEPT !.overrun = x] IN
         /\ c \in BudgetType
         /\ c.remaining = b.remaining /\ c.replenishesAt = b.replenishesAt
         /\ c.since = b.since /\ c.overrun = x
<1>1. [b EXCEPT !.overrun = x] =
        [remaining |-> b.remaining, replenishesAt |-> b.replenishesAt, since |-> b.since, overrun |-> x]
  BY DEF BudgetType
<1> QED  BY <1>1 DEF BudgetType

\* One assignment to a budget: what is left of it.
LEMMA RemainingFacts ==
  ASSUME NEW b \in BudgetType, NEW r \in 0..Capacity
  PROVE  LET c == [b EXCEPT !.remaining = r] IN
         /\ c \in BudgetType
         /\ c.remaining = r /\ c.replenishesAt = b.replenishesAt
         /\ c.since = b.since /\ c.overrun = b.overrun
<1>1. [b EXCEPT !.remaining = r] =
        [remaining |-> r, replenishesAt |-> b.replenishesAt, since |-> b.since, overrun |-> b.overrun]
  BY DEF BudgetType
<1> QED  BY <1>1 DEF BudgetType

\* One assignment to a budget: its boundary.
LEMMA BoundaryFacts ==
  ASSUME NEW b \in BudgetType, NEW n \in Nat
  PROVE  LET c == [b EXCEPT !.replenishesAt = n] IN
         /\ c \in BudgetType
         /\ c.remaining = b.remaining /\ c.replenishesAt = n
         /\ c.since = b.since /\ c.overrun = b.overrun
<1>1. [b EXCEPT !.replenishesAt = n] =
        [remaining |-> b.remaining, replenishesAt |-> n, since |-> b.since, overrun |-> b.overrun]
  BY DEF BudgetType
<1> QED  BY <1>1 DEF BudgetType

\* An update of every field, in the order of throttle_after_lock_overrun.
Updated(b, x, r, n) ==
  [b EXCEPT !.overrun = x, !.remaining = r, !.since = NONE, !.replenishesAt = n]

\* The four assignments of an update, together.
LEMMA UpdateFacts ==
  ASSUME NEW b \in BudgetType, NEW r \in 0..Capacity, NEW n \in Nat, NEW x \in BOOLEAN
  PROVE  LET c == Updated(b, x, r, n) IN
         /\ c \in BudgetType
         /\ c.overrun = x /\ c.remaining = r /\ c.since = NONE /\ c.replenishesAt = n
<1> DEFINE b1 == [b EXCEPT !.overrun = x]
           b2 == [b1 EXCEPT !.remaining = r]
           b3 == [b2 EXCEPT !.since = NONE]
           b4 == [b3 EXCEPT !.replenishesAt = n]
<1>1. b1 \in BudgetType /\ b1.overrun = x
  BY OverrunFacts
<1> HIDE DEF b1
<1>2. b2 \in BudgetType /\ b2.overrun = x /\ b2.remaining = r
  BY <1>1, RemainingFacts
<1> HIDE DEF b2
<1>3. b3 \in BudgetType /\ b3.overrun = x /\ b3.remaining = r /\ b3.since = NONE
  BY <1>2, SinceFacts
<1> HIDE DEF b3
<1>4. /\ b4 \in BudgetType /\ b4.overrun = x /\ b4.remaining = r
      /\ b4.since = NONE /\ b4.replenishesAt = n
  BY <1>3, BoundaryFacts
<1>5. b4 = Updated(b, x, r, n)
  BY DEF Updated, b1, b2, b3
<1> QED  BY <1>4, <1>5, Zenon

\* throttle_after_lock_overrun empties the budget until the next boundary.
LEMMA ThrottleFacts ==
  ASSUME NEW b \in BudgetType, NEW now \in Nat
  PROVE  LET c == ThrottleAfterLockOverrun(b, now) IN
         /\ c \in BudgetType
         /\ c.since = NONE /\ c.remaining = 0 /\ ~c.overrun
         /\ c.replenishesAt = IF b.replenishesAt > now THEN b.replenishesAt
                              ELSE NextBoundary(b.replenishesAt, now)
<1> DEFINE n == IF b.replenishesAt > now THEN b.replenishesAt
                ELSE NextBoundary(b.replenishesAt, now)
<1>1. n \in Nat
  BY NextBoundaryFacts DEF BudgetType
<1>2. ThrottleAfterLockOverrun(b, now) = Updated(b, FALSE, 0, n)
  BY Zenon DEF ThrottleAfterLockOverrun, NextBoundary, Updated
<1>3. 0 \in 0..Capacity
  BY BudgetSpecAssumption
<1> HIDE DEF n
<1>4. /\ Updated(b, FALSE, 0, n) \in BudgetType
      /\ Updated(b, FALSE, 0, n).since = NONE /\ Updated(b, FALSE, 0, n).remaining = 0
      /\ ~Updated(b, FALSE, 0, n).overrun
      /\ Updated(b, FALSE, 0, n).replenishesAt = n
  BY <1>1, <1>3, UpdateFacts
<1> QED  BY <1>2, <1>4, Zenon DEF n

\* The budget of a new policy.
LEMMA ForPolicyFacts ==
  ASSUME NEW now \in Nat
  PROVE  LET b == ForPolicy(now) IN
         /\ b \in BudgetType
         /\ b.since = NONE /\ b.remaining = Capacity /\ ~b.overrun
         /\ b.replenishesAt = now + Period
         /\ ~IsDue(b, now)
BY BudgetSpecAssumption DEF ForPolicy, BudgetType, IsDue

-----------------------------------------------------------------------------
(* The invariant for every resolution of the clock. *)

\* The code reads the clock in whole milliseconds.
LEMMA NowType == clock \in Nat => Now \in Nat
<1> SUFFICES ASSUME clock \in Nat PROVE Now \in Nat
  OBVIOUS
<1>1. clock \div TicksPerMs \in Int /\ clock % TicksPerMs = clock - TicksPerMs * (clock \div TicksPerMs)
      /\ clock % TicksPerMs < TicksPerMs
  BY ClockAssumption, DivFacts
<1>2. 0 \div TicksPerMs <= clock \div TicksPerMs
  BY ClockAssumption, DivMonotone
<1>3. 0 \div TicksPerMs = 0
  BY ClockAssumption
<1> QED  BY <1>1, <1>2, <1>3 DEF Now

\* The types the invariant rests on.
LEMMA Types ==
  ASSUME TypeOK
  PROVE  /\ Now \in Nat /\ clock \in Nat /\ clock <= MaxTime
         /\ budget \in BudgetType
         /\ budget.remaining \in 0..Capacity /\ budget.replenishesAt \in Nat
         /\ budget.since \in Nat \cup {NONE}
         /\ lockRead \in Nat \cup {NONE} /\ unlockRead \in Nat \cup {NONE}
         /\ lockStarted \in Nat \cup {NONE} /\ lockedAt \in Nat \cup {NONE}
<1>1. clock \in Nat /\ clock <= MaxTime
  BY ClockAssumption DEF TypeOK
<1>2. budget \in BudgetType
  BY DEF TypeOK, BudgetType
<1> QED  BY <1>1, <1>2, NowType DEF TypeOK, BudgetType

\* The invariant holds when the task is created.
LEMMA InitInv == Init => IInv
<1> SUFFICES ASSUME Init PROVE IInv
  OBVIOUS
<1> USE BudgetSpecAssumption, ClockAssumption DEF Init
<1>1. Now = 0
  BY DEF Now
<1>2. /\ budget \in BudgetType /\ budget.since = NONE /\ budget.remaining = Capacity
      /\ ~budget.overrun /\ budget.replenishesAt = Period
  <2>1. budget = ForPolicy(0) /\ 0 + Period = Period
    OBVIOUS
  <2> QED  BY <2>1, ForPolicyFacts
<1>3. TypeOK
  <2>1. clock \in 0..MaxTime /\ budget \in BudgetType /\ task \in {"Ready", "Running", "Sleeping", "Throttled"}
    BY <1>2
  <2>2. /\ {lockRead, unlockRead, lockStarted, lockedAt} \subseteq Nat \cup {NONE}
        /\ {throttledAt, calledAt, unlockedAt} \subseteq Nat \cup {NONE}
    OBVIOUS
  <2> QED  BY <2>1, <2>2 DEF TypeOK, BudgetType
<1>4. (Period - 0) % Period = 0
  <2>1. (0 + 1 * Period) % Period = 0
    BY AlignedSum
  <2> QED  BY <2>1
<1>5. PhaseInv
  BY <1>1, <1>2, <1>4 DEF PhaseInv, PhaseAligned
<1> QED
  BY <1>1, <1>2, <1>3, <1>5
     DEF IInv, LockInv, OverrunJustified, ThrottleInv, ReadmittedInTime, NONE
\* Time passes: `now` does not fall, and nobody's deadline is missed.
LEMMA TickInv == IInv /\ Tick => IInv'
<1> SUFFICES ASSUME IInv, Tick PROVE IInv'
  OBVIOUS
<1> USE BudgetSpecAssumption, ClockAssumption
<1>0. /\ ~stopped /\ clock < MaxTime /\ clock' = clock + 1
      /\ WithinDeadline((clock + 1) \div TicksPerMs)
      /\ UNCHANGED <<task, budget, stopped, lockVars, phaseHistory, unlockHistory, ranEmpty>>
  BY DEF Tick
<1>1. UNCHANGED <<locked, lockRead, unlockRead, lockStarted, lockedAt, origin, installedAt,
                  throttledAt, calledAt, unlockedAt>>
  BY <1>0 DEF lockVars, phaseHistory, unlockHistory
<1>2. TypeOK
  BY DEF IInv
<1>3. Now' = (clock + 1) \div TicksPerMs /\ Now <= Now' /\ Now \in Nat /\ Now' \in Nat
  <2>1. clock \in Nat /\ clock' \in Nat /\ Now \in Nat
    BY <1>0, <1>2, Types
  <2>2. Now' = (clock + 1) \div TicksPerMs
    BY <1>0 DEF Now
  <2>3. clock \div TicksPerMs <= (clock + 1) \div TicksPerMs
    BY <2>1, DivMonotone
  <2>4. (clock + 1) \div TicksPerMs \in Int
    BY <2>1, DivFacts
  <2>5. Now = clock \div TicksPerMs
    BY DEF Now
  <2> DEFINE n == (clock + 1) \div TicksPerMs
  <2>6. n \in Int /\ Now <= n /\ Now' = n /\ Now \in Nat
    BY <2>1, <2>2, <2>3, <2>4, <2>5
  <2> HIDE DEF n
  <2> QED  BY <2>6 DEF n
<1>4. used' \in Nat /\ windowUsed' \in Nat /\ runs' \in Nat /\ fresh' \in BOOLEAN
  <2> DEFINE ran == IF task = "Running" THEN 1 ELSE 0
             boundary == (clock - origin * TicksPerMs) % (Period * TicksPerMs) = 0
  <2>1. used' = used + ran /\ windowUsed' = IF boundary THEN ran ELSE windowUsed + ran
    BY DEF Tick
  <2>2. ran \in Nat /\ used \in Nat /\ windowUsed \in Nat
    BY <1>2 DEF TypeOK
  <2>3. runs' \in Nat
    BY <1>2 DEF TypeOK, Tick
  <2>4. fresh' \in BOOLEAN
    BY DEF Tick
  <2> HIDE DEF ran, boundary
  <2>5. used' \in Nat /\ windowUsed' \in Nat
    BY <2>1, <2>2
  <2> QED  BY <2>3, <2>4, <2>5
<1>5. TypeOK'
  <2>1. clock' \in 0..MaxTime
    BY <1>0, <1>2 DEF TypeOK
  <2> QED  BY <1>0, <1>1, <1>2, <1>4, <2>1 DEF TypeOK
<1>6. /\ budget.since \in Nat \cup {NONE} /\ budget.replenishesAt \in Nat
      /\ lockRead \in Nat \cup {NONE} /\ unlockRead \in Nat \cup {NONE}
      /\ lockedAt \in Nat \cup {NONE}
      /\ origin \in Nat /\ calledAt \in Nat \cup {NONE} /\ throttledAt \in Nat \cup {NONE}
  BY <1>2, Types DEF TypeOK
<1>7. (budget.since <= Now)' /\ PhaseInv' /\ LockInv'
  <2>1. budget.since <= Now /\ PhaseInv /\ LockInv
    BY DEF IInv
  <2> QED  BY <1>0, <1>1, <1>3, <1>6, <2>1 DEF PhaseInv, PhaseAligned, LockInv, NONE
<1>8. OverrunJustified'
  BY <1>0 DEF OverrunJustified
<1>9. ThrottleInv'
  <2>1. ThrottleInv
    BY DEF IInv
  <2>2. CASE calledAt # NONE /\ task = "Ready"
    <3>1. (Now - origin) \div Period > (calledAt - origin) \div Period
      BY <2>1, <2>2 DEF ThrottleInv
    <3>2. (Now - origin) \div Period <= (Now' - origin) \div Period
      <4>1. Now - origin \in Int /\ Now' - origin \in Int /\ Now - origin <= Now' - origin
        BY <1>3, <1>6
      <4> QED  BY <4>1, DivMonotone
    <3>3. /\ (Now - origin) \div Period \in Int /\ (Now' - origin) \div Period \in Int
          /\ (calledAt - origin) \div Period \in Int
      <4>1. Now - origin \in Int /\ Now' - origin \in Int /\ calledAt - origin \in Int
        BY <1>3, <1>6 DEF NONE
      <4> QED  BY <4>1, DivFacts
    <3>4. (Now' - origin) \div Period > (calledAt - origin) \div Period
      BY <3>1, <3>2, <3>3
    <3> QED  BY <2>1, <2>2, <3>4, <1>0, <1>1 DEF ThrottleInv
  <2>3. CASE ~(calledAt # NONE /\ task = "Ready")
    BY <2>1, <2>3, <1>0, <1>1 DEF ThrottleInv
  <2> QED  BY <2>2, <2>3
<1>10. ReadmittedInTime'
  <2> SUFFICES ASSUME task = "Throttled" PROVE Now' <= throttledAt + Period + MaxLatency
    BY <1>0, <1>1 DEF ReadmittedInTime
  <2>1. budget.replenishesAt <= throttledAt + Period /\ throttledAt \in Nat
    BY <1>6 DEF IInv, ThrottleInv
  <2>2. Now' <= budget.replenishesAt + MaxLatency \/ Now' <= throttledAt + 1 + MaxLatency
    BY <1>0, <1>3 DEF WithinDeadline
  <2> QED  BY <1>3, <1>6, <2>1, <2>2
<1> QED  BY <1>5, <1>7, <1>8, <1>9, <1>10 DEF IInv

\* The steps at one moment that neither change the task's state nor its
\* budget: the calls of lock_scheduler and unlock_scheduler, and the critical
\* section of the first.
LEMMA LockInvStep == IInv /\ (LockCall \/ LockCurrent \/ UnlockCall) => IInv'
<1> SUFFICES ASSUME IInv, LockCall \/ LockCurrent \/ UnlockCall PROVE IInv'
  OBVIOUS
<1>0. /\ UNCHANGED <<clock, task, budget, stopped, quotaHistory>> /\ ~stopped /\ task = "Running"
      /\ TypeOK
  BY DEF LockCall, LockCurrent, UnlockCall, IInv, LockInv
<1>1. UNCHANGED <<origin, installedAt, used, runs, fresh, windowUsed, throttledAt, calledAt,
                  unlockedAt, ranEmpty>>
  BY <1>0 DEF quotaHistory, phaseHistory, useHistory, unlockHistory
<1>2. Now' = Now /\ Now \in Nat
  BY <1>0, Types DEF Now
<1>3. TypeOK'
  <2>1. /\ {lockRead', unlockRead', lockStarted', lockedAt'} \subseteq Nat \cup {NONE}
        /\ locked' \in BOOLEAN
    BY <1>0, <1>2, Types DEF LockCall, LockCurrent, UnlockCall, TypeOK
  <2> QED  BY <1>0, <1>1, <2>1 DEF TypeOK
<1>4. LockInv'
  <2>1. /\ LockInv /\ lockRead \in Nat \cup {NONE} /\ unlockRead \in Nat \cup {NONE}
        /\ lockStarted \in Nat \cup {NONE}
    BY <1>0, Types DEF IInv
  <2>2. CASE LockCall
    BY <1>0, <1>2, <2>1, <2>2 DEF LockCall, LockInv, NONE
  <2>3. CASE LockCurrent
    BY <1>0, <1>2, <2>1, <2>3 DEF LockCurrent, LockInv, NONE
  <2>4. CASE UnlockCall
    BY <1>0, <1>2, <2>1, <2>4 DEF UnlockCall, LockInv, NONE
  <2> QED  BY <2>2, <2>3, <2>4
<1>5. PhaseInv' /\ OverrunJustified' /\ ThrottleInv' /\ ReadmittedInTime' /\ (budget.since <= Now)'
  <2>1. PhaseInv /\ ThrottleInv /\ ReadmittedInTime /\ budget.since <= Now
    BY DEF IInv
  <2> QED
    BY <1>0, <1>1, <1>2, <2>1
       DEF PhaseInv, PhaseAligned, OverrunJustified, ThrottleInv, ReadmittedInTime
<1> QED  BY <1>3, <1>4, <1>5 DEF IInv
\* The types of the history variables.
HistoryType ==
  /\ origin \in Nat /\ installedAt \in Nat
  /\ used \in Nat /\ runs \in Nat /\ windowUsed \in Nat
  /\ fresh \in BOOLEAN /\ ranEmpty \in BOOLEAN
  /\ {throttledAt, calledAt, unlockedAt} \subseteq Nat \cup {NONE}

\* It suffices to show these facts about the new budget.
LEMMA BudgetStep ==
  ASSUME IInv, ~stopped, UNCHANGED <<clock, lockVars>>,
         stopped' \in BOOLEAN, stopped' => LockOverrun,
         task' \in {"Ready", "Running", "Sleeping", "Throttled"},
         locked => task' = "Running",
         HistoryType',
         budget' \in BudgetType, budget'.since <= Now, budget'.overrun => locked,
         budget'.replenishesAt > origin', (budget'.replenishesAt - origin') % Period = 0,
         budget'.replenishesAt <= Now + Period,
         ThrottleInv', ReadmittedInTime'
  PROVE  IInv'
<1>0. TypeOK /\ LockInv /\ Now' = Now /\ Now \in Nat
  BY Types DEF IInv, Now
<1>1. UNCHANGED <<locked, lockRead, unlockRead, lockStarted, lockedAt>>
  BY DEF lockVars
<1>2. TypeOK'
  <2>1. clock' \in 0..MaxTime /\ locked' \in BOOLEAN
        /\ {lockRead', unlockRead', lockStarted', lockedAt'} \subseteq Nat \cup {NONE}
    BY <1>0, <1>1 DEF TypeOK
  <2> QED  BY <2>1 DEF TypeOK, BudgetType, HistoryType
<1>3. (budget.since <= Now)' /\ PhaseInv' /\ LockInv'
  BY <1>0, <1>1 DEF PhaseInv, PhaseAligned, LockInv
<1>4. OverrunJustified'
  <2> SUFFICES ASSUME LockOverrun
               PROVE  locked /\ (Now - lockedAt >= LockLimit \/ lockedAt > lockStarted)
    BY <1>0, <1>1 DEF OverrunJustified
  <2>1. lockStarted # NONE /\ Now - lockStarted >= LockLimit
    BY DEF LockOverrun
  <2>2. locked /\ lockStarted <= lockedAt /\ lockStarted \in Nat /\ lockedAt \in Nat
    BY <1>0, <2>1, Types DEF LockInv
  <2> QED  BY <1>0, <2>1, <2>2
<1> QED  BY <1>2, <1>3, <1>4 DEF IInv

\* What every such step starts from.
LEMMA BudgetFacts ==
  ASSUME IInv
  PROVE  /\ TypeOK /\ Now \in Nat /\ budget \in BudgetType /\ budget.since <= Now
         /\ budget.replenishesAt \in Nat /\ budget.replenishesAt > origin
         /\ (budget.replenishesAt - origin) % Period = 0
         /\ budget.replenishesAt <= Now + Period
         /\ HistoryType /\ origin \in Nat /\ locked \in BOOLEAN /\ stopped \in BOOLEAN
         /\ budget.overrun => locked
         /\ locked => task = "Running"
BY Types DEF IInv, PhaseInv, PhaseAligned, LockInv, TypeOK, HistoryType

\* on_dispatch preserves the invariant.
LEMMA DispatchInv == IInv /\ Dispatch => IInv'
<1> SUFFICES ASSUME IInv, Dispatch PROVE IInv'
  OBVIOUS
<1> USE BudgetFacts
<1> DEFINE r == ReplenishIfDue(budget, Now)
<1>1. budget' = [r EXCEPT !.since = Now]
  BY DEF Dispatch, OnDispatch
<1>2. r \in BudgetType /\ r.overrun = budget.overrun
  BY ReplenishFacts
<1>3. /\ r.replenishesAt > origin /\ (r.replenishesAt - origin) % Period = 0
      /\ r.replenishesAt <= Now + Period
  BY ReplenishPhase
<1> HIDE DEF r
<1>4. /\ budget' \in BudgetType /\ budget'.since = Now /\ budget'.overrun = r.overrun
      /\ budget'.replenishesAt = r.replenishesAt
  BY <1>1, <1>2, SinceFacts
<1>5. /\ ~stopped /\ task = "Ready" /\ task' = "Running" /\ calledAt' = NONE /\ unlockedAt' = NONE
      /\ UNCHANGED <<clock, stopped, lockVars, origin, installedAt, windowUsed, throttledAt>>
  BY DEF Dispatch, phaseHistory
<1>6. HistoryType'
  <2>1. used' \in Nat /\ runs' \in Nat
    BY DEF Dispatch, HistoryType
  <2>2. ranEmpty' \in BOOLEAN /\ fresh' = TRUE
    BY Zenon DEF Dispatch, HistoryType
  <2> QED  BY <1>5, <2>1, <2>2 DEF HistoryType
<1>7. ThrottleInv' /\ ReadmittedInTime'
  BY <1>5 DEF ThrottleInv, ReadmittedInTime
<1> QED
  <2>1. /\ budget'.since <= Now /\ (budget'.overrun => locked) /\ budget'.replenishesAt > origin'
        /\ (budget'.replenishesAt - origin') % Period = 0 /\ budget'.replenishesAt <= Now + Period
    BY <1>2, <1>3, <1>4, <1>5
  <2>2. stopped' = FALSE /\ ~locked
    BY <1>5
  <2> QED  BY <1>4, <1>5, <1>6, <1>7, <2>1, <2>2, BudgetStep

\* on_switch_out preserves the invariant.
LEMMA SwitchOutInv == \A s \in {"Ready", "Sleeping"} : IInv /\ SwitchOut(s) => IInv'
<1> SUFFICES ASSUME NEW s \in {"Ready", "Sleeping"}, IInv, SwitchOut(s) PROVE IInv'
  OBVIOUS
<1> USE BudgetFacts
<1> DEFINE c == ChargeUntil(budget, Now)
<1>1. budget' = [c EXCEPT !.since = NONE]
  BY DEF SwitchOut, OnSwitchOut
<1>2. c \in BudgetType /\ c.overrun = budget.overrun /\ c.replenishesAt = budget.replenishesAt
  BY ChargeFacts
<1> HIDE DEF c
<1>3. /\ budget' \in BudgetType /\ budget'.since = NONE /\ budget'.overrun = c.overrun
      /\ budget'.replenishesAt = c.replenishesAt
  BY <1>1, <1>2, SinceFacts
<1>4. /\ ~stopped /\ task = "Running" /\ task' = s /\ ~locked
      /\ UNCHANGED <<clock, stopped, lockVars>>
  BY DEF SwitchOut
<1>5. /\ UNCHANGED <<origin, installedAt, used, runs, windowUsed, throttledAt, calledAt,
                     unlockedAt, ranEmpty>>
      /\ HistoryType'
  BY DEF SwitchOut, phaseHistory, unlockHistory, HistoryType
<1>6. ThrottleInv' /\ ReadmittedInTime'
  <2>1. calledAt = NONE /\ task' # "Throttled"
    BY <1>4 DEF IInv, ThrottleInv
  <2> QED  BY <1>4, <1>5, <2>1 DEF ThrottleInv, ReadmittedInTime
<1> QED
  <2>1. /\ budget'.since <= Now /\ (budget'.overrun => locked) /\ budget'.replenishesAt > origin'
        /\ (budget'.replenishesAt - origin') % Period = 0 /\ budget'.replenishesAt <= Now + Period
    BY <1>2, <1>3, <1>5 DEF NONE
  <2>2. stopped' = FALSE /\ task' \in {"Ready", "Running", "Sleeping", "Throttled"}
    BY <1>4
  <2> QED  BY <1>3, <1>4, <1>5, <1>6, <2>1, <2>2, BudgetStep

\* A wake preserves the invariant.
LEMMA WakeUpInv == IInv /\ WakeUp => IInv'
<1> SUFFICES ASSUME IInv, WakeUp PROVE IInv'
  OBVIOUS
<1> USE BudgetFacts
<1>1. /\ ~stopped /\ task = "Sleeping" /\ task' = "Ready"
      /\ UNCHANGED <<clock, budget, stopped, lockVars, quotaHistory>>
  BY DEF WakeUp
<1>2. /\ UNCHANGED <<origin, installedAt, used, runs, fresh, windowUsed, throttledAt, calledAt,
                     unlockedAt, ranEmpty>>
      /\ HistoryType'
  BY <1>1 DEF quotaHistory, phaseHistory, useHistory, unlockHistory, HistoryType
<1>3. ThrottleInv' /\ ReadmittedInTime' /\ ~locked
  <2>1. calledAt = NONE /\ ~locked
    BY <1>1 DEF IInv, ThrottleInv
  <2> QED  BY <1>1, <1>2, <2>1 DEF ThrottleInv, ReadmittedInTime
<1>4. stopped' = FALSE
  BY <1>1
<1> QED  BY <1>1, <1>2, <1>3, <1>4, BudgetStep
\* A timer interrupt before exhaustion preserves the invariant.
LEMMA TimerStillAvailableInv == IInv /\ TimerStillAvailable => IInv'
<1> SUFFICES ASSUME IInv, TimerStillAvailable PROVE IInv'
  OBVIOUS
<1> USE BudgetFacts
<1>1. /\ ~stopped /\ task = "Running" /\ budget' = ChargeUntil(budget, Now)
      /\ stopped' = LockOverrun /\ UNCHANGED <<clock, task, lockVars, quotaHistory>>
  BY DEF TimerStillAvailable
<1>2. /\ UNCHANGED <<origin, installedAt, used, runs, fresh, windowUsed, throttledAt, calledAt,
                     unlockedAt, ranEmpty>>
      /\ HistoryType'
  BY <1>1 DEF quotaHistory, phaseHistory, useHistory, unlockHistory, HistoryType
<1>3. /\ budget' \in BudgetType /\ budget'.overrun = budget.overrun
      /\ budget'.replenishesAt = budget.replenishesAt
      /\ budget'.since = (IF budget.since = NONE THEN NONE ELSE Now)
  BY <1>1, ChargeFacts
<1>4. ThrottleInv' /\ ReadmittedInTime'
  <2>1. calledAt = NONE
    BY <1>1 DEF IInv, ThrottleInv
  <2> QED  BY <1>1, <1>2, <2>1 DEF ThrottleInv, ReadmittedInTime
<1>5. stopped' \in BOOLEAN
  BY <1>1 DEF LockOverrun
<1>6. /\ budget'.since <= Now /\ (budget'.overrun => locked) /\ budget'.replenishesAt > origin'
      /\ (budget'.replenishesAt - origin') % Period = 0 /\ budget'.replenishesAt <= Now + Period
  BY <1>2, <1>3 DEF NONE
<1> QED  BY <1>1, <1>2, <1>3, <1>4, <1>5, <1>6, BudgetStep

\* A timer interrupt that finds the budget exhausted preserves the invariant.
LEMMA TimerExhaustedInv == IInv /\ TimerExhausted => IInv'
<1> SUFFICES ASSUME IInv, TimerExhausted PROVE IInv'
  OBVIOUS
<1> USE BudgetFacts
<1>1. /\ ~stopped /\ task = "Running" /\ budget' = Exhaust(budget, Now)
      /\ stopped' = LockOverrun
      /\ UNCHANGED <<clock, lockVars, origin, installedAt, used, runs, windowUsed, ranEmpty,
                      calledAt, unlockedAt>>
      /\ \/ locked /\ UNCHANGED <<task, throttledAt, fresh>>
         \/ ~locked /\ task' = "Throttled" /\ throttledAt' = Now /\ fresh' = FALSE
  BY DEF TimerExhausted, phaseHistory
<1>2. /\ budget' \in BudgetType /\ budget'.since = NONE
      /\ budget'.replenishesAt = budget.replenishesAt
      /\ budget'.overrun = (budget.overrun \/ locked)
  BY <1>1, ExhaustFacts
<1>3. Now' = Now /\ calledAt = NONE
  BY <1>1 DEF Now, IInv, ThrottleInv
<1>4. ThrottleInv' /\ ReadmittedInTime'
  BY <1>1, <1>2, <1>3, BudgetSpecAssumption, ClockAssumption
     DEF ThrottleInv, ReadmittedInTime, NONE
<1>5. stopped' \in BOOLEAN
  BY <1>1 DEF LockOverrun
<1>6. /\ budget'.since <= Now /\ (budget'.overrun => locked) /\ budget'.replenishesAt > origin'
      /\ (budget'.replenishesAt - origin') % Period = 0 /\ budget'.replenishesAt <= Now + Period
  BY <1>1, <1>2 DEF NONE
<1>7. /\ task' \in {"Ready", "Running", "Sleeping", "Throttled"} /\ (locked => task' = "Running")
      /\ HistoryType' /\ UNCHANGED <<clock, lockVars>>
  BY <1>1 DEF HistoryType
<1> QED  BY <1>1, <1>2, <1>4, <1>5, <1>6, <1>7, BudgetStep

\* replenish_if_due preserves the invariant, with an old reading too.
LEMMA ReplenishInv == \A now \in Readings : IInv /\ Replenish(now) => IInv'
<1> SUFFICES ASSUME NEW now \in Readings, IInv, Replenish(now) PROVE IInv'
  OBVIOUS
<1> USE BudgetFacts
<1>0. now \in Nat /\ now <= Now
  BY DEF Readings
<1>1. /\ ~stopped /\ task = "Throttled" /\ task' = "Ready" /\ IsDue(budget, now)
      /\ budget' = ReplenishIfDue(budget, now) /\ used' = 0 /\ runs' = 0 /\ ranEmpty' = FALSE
      /\ UNCHANGED <<clock, stopped, lockVars, origin, installedAt, fresh, windowUsed,
                      throttledAt, calledAt, unlockedAt>>
  BY DEF Replenish, phaseHistory, unlockHistory
<1>2. /\ budget' \in BudgetType /\ budget'.since = budget.since
      /\ budget'.overrun = budget.overrun
  BY <1>0, <1>1, ReplenishFacts
<1>3. /\ budget'.replenishesAt > origin /\ (budget'.replenishesAt - origin) % Period = 0
      /\ budget'.replenishesAt <= Now + Period
  <2> DEFINE n == NextBoundary(budget.replenishesAt, now)
  <2>1. budget.replenishesAt <= now
    BY <1>1 DEF IsDue
  <2>2. n \in Nat /\ now < n /\ n <= now + Period /\ (n - origin) % Period = 0
    BY <1>0, <2>1, NextBoundaryFacts
  <2>3. budget'.replenishesAt = n
    BY <1>0, <1>1, ReplenishFacts
  <2> HIDE DEF n
  <2> QED  BY <1>0, <2>1, <2>2, <2>3, BudgetSpecAssumption
<1>4. ASSUME calledAt # NONE
      PROVE  (Now - origin) \div Period > (calledAt - origin) \div Period
  <2>1. budget.replenishesAt > calledAt /\ budget.replenishesAt <= Now /\ calledAt \in Nat
    BY <1>0, <1>1, <1>4 DEF IInv, ThrottleInv, IsDue, HistoryType
  <2>2. /\ Now - origin \in Int /\ calledAt - origin \in Int
        /\ budget.replenishesAt - origin \in Int
        /\ calledAt - origin < budget.replenishesAt - origin
        /\ budget.replenishesAt - origin <= Now - origin
    BY <2>1
  <2> QED  BY <2>2, BudgetSpecAssumption, LaterPeriod
<1>5. ThrottleInv' /\ ReadmittedInTime'
  <2>1. Now' = Now
    BY <1>1 DEF Now
  <2> QED  BY <1>1, <1>4, <2>1 DEF ThrottleInv, ReadmittedInTime
<1>6. HistoryType'
  BY <1>1 DEF HistoryType
<1> QED
  <2>1. stopped' = FALSE /\ ~locked /\ origin' = origin
    BY <1>1
  <2> QED  BY <1>1, <1>2, <1>3, <1>5, <1>6, <2>1, BudgetStep

\* A new policy preserves the invariant.
LEMMA SetRunPolicyInv == \A now \in Readings : IInv /\ SetRunPolicy(now) => IInv'
<1> SUFFICES ASSUME NEW now \in Readings, IInv, SetRunPolicy(now) PROVE IInv'
  OBVIOUS
<1> USE BudgetFacts
<1>0. now \in Nat /\ now <= Now
  BY DEF Readings
<1> DEFINE b == ForPolicy(now)
<1>1. /\ ~stopped /\ origin' = now /\ installedAt' = Now /\ used' = 0 /\ runs' = 0
      /\ windowUsed' = 0 /\ throttledAt' = NONE /\ calledAt' = NONE /\ unlockedAt' = NONE
      /\ ranEmpty' = FALSE /\ fresh' = (task = "Running")
      /\ task' = (IF task = "Throttled" THEN "Ready" ELSE task)
      /\ budget' = (IF task = "Running" THEN OnDispatch(b, now) ELSE b)
      /\ UNCHANGED <<clock, stopped, lockVars>>
  BY DEF SetRunPolicy
<1>2. /\ b \in BudgetType /\ b.since = NONE /\ ~b.overrun /\ b.replenishesAt = now + Period
      /\ ~IsDue(b, now)
  BY <1>0, ForPolicyFacts
<1> HIDE DEF b
<1>3. OnDispatch(b, now) = [b EXCEPT !.since = now]
  BY <1>2 DEF OnDispatch, ReplenishIfDue
<1>4. /\ budget' \in BudgetType /\ budget'.since \in {NONE, now} /\ ~budget'.overrun
      /\ budget'.replenishesAt = now + Period
  BY <1>0, <1>1, <1>2, <1>3, SinceFacts
<1>5. ((now + Period) - now) % Period = 0
  <2>1. (0 + 1 * Period) % Period = 0
    BY BudgetSpecAssumption, AlignedSum
  <2>2. (now + Period) - now = 0 + 1 * Period
    BY <1>0, BudgetSpecAssumption
  <2> QED  BY <2>1, <2>2
<1>6. task' # "Throttled" /\ task' \in {"Ready", "Running", "Sleeping", "Throttled"}
      /\ (locked => task' = "Running")
  BY <1>1 DEF TypeOK
<1>7. ThrottleInv' /\ ReadmittedInTime'
  BY <1>1, <1>6 DEF ThrottleInv, ReadmittedInTime
<1>8. HistoryType'
  BY <1>0, <1>1 DEF HistoryType
<1> QED
  <2>1. /\ budget'.since <= Now /\ budget'.replenishesAt > origin'
        /\ (budget'.replenishesAt - origin') % Period = 0 /\ budget'.replenishesAt <= Now + Period
    BY <1>0, <1>1, <1>4, <1>5, BudgetSpecAssumption DEF NONE
  <2>2. stopped' = FALSE
    BY <1>1
  <2> QED  BY <1>1, <1>4, <1>6, <1>7, <1>8, <2>1, <2>2, BudgetStep

\* The outermost unlock, with a throttling it deferred, preserves the invariant.
LEMMA UnlockInv == IInv /\ Unlock => IInv'
<1> SUFFICES ASSUME IInv, Unlock PROVE IInv'
  OBVIOUS
<1> USE BudgetFacts
<1> DEFINE now == unlockRead
<1>0. now \in Nat /\ now <= Now
  <2>1. unlockRead # NONE /\ unlockRead \in Nat \cup {NONE} /\ unlockRead <= Now
    BY Types DEF Unlock, IInv, LockInv
  <2> QED  BY <2>1
<1>1. /\ ~stopped /\ locked /\ task = "Running"
      /\ locked' = FALSE /\ lockStarted' = NONE /\ lockedAt' = NONE /\ unlockRead' = NONE
      /\ UNCHANGED <<clock, stopped, lockRead, origin, installedAt, used, runs, windowUsed, ranEmpty>>
  BY DEF Unlock, UnlockCurrent, phaseHistory
<1>2. Now' = Now /\ calledAt = NONE
  BY <1>1 DEF Now, IInv, ThrottleInv
<1>3. \/ ~budget.overrun /\ UNCHANGED <<task, budget, fresh, throttledAt, calledAt, unlockedAt>>
      \/ /\ task' = "Throttled" /\ budget' = ThrottleAfterLockOverrun(budget, now)
         /\ fresh' = FALSE /\ throttledAt' = Now /\ calledAt' = now /\ unlockedAt' = Now
  BY DEF Unlock, unlockHistory
<1> HIDE DEF now
<1>4. CASE ~budget.overrun /\ UNCHANGED <<task, budget, fresh, throttledAt, calledAt, unlockedAt>>
  <2>1. TypeOK'
    BY <1>1, <1>4 DEF TypeOK
  <2>2. LockInv'
    BY <1>1, <1>2, <1>4 DEF IInv, LockInv, NONE
  <2>3. PhaseInv' /\ OverrunJustified' /\ ThrottleInv' /\ ReadmittedInTime' /\ (budget.since <= Now)'
    BY <1>1, <1>2, <1>4
       DEF IInv, PhaseInv, PhaseAligned, OverrunJustified, ThrottleInv, ReadmittedInTime
  <2> QED  BY <2>1, <2>2, <2>3 DEF IInv
<1>5. CASE /\ task' = "Throttled" /\ budget' = ThrottleAfterLockOverrun(budget, now)
           /\ fresh' = FALSE /\ throttledAt' = Now /\ calledAt' = now /\ unlockedAt' = Now
  <2>1. /\ budget' \in BudgetType /\ budget'.since = NONE /\ ~budget'.overrun
        /\ budget'.replenishesAt = (IF budget.replenishesAt > now THEN budget.replenishesAt
                                    ELSE NextBoundary(budget.replenishesAt, now))
    BY <1>0, <1>5, ThrottleFacts
  <2>2. /\ budget'.replenishesAt \in Nat /\ budget'.replenishesAt > now
        /\ budget'.replenishesAt <= Now + Period
        /\ budget'.replenishesAt > origin /\ (budget'.replenishesAt - origin) % Period = 0
    <3>1. CASE budget.replenishesAt > now
      BY <2>1, <3>1
    <3>2. CASE ~(budget.replenishesAt > now)
      <4> DEFINE n == NextBoundary(budget.replenishesAt, now)
      <4>1. budget.replenishesAt <= now
        BY <1>0, <3>2
      <4>2. n \in Nat /\ now < n /\ n <= now + Period /\ (n - origin) % Period = 0
        BY <1>0, <4>1, NextBoundaryFacts
      <4>3. budget'.replenishesAt = n
        BY <2>1, <3>2
      <4> HIDE DEF n
      <4> QED  BY <1>0, <4>1, <4>2, <4>3, BudgetSpecAssumption
    <3> QED  BY <3>1, <3>2
  <2>3. TypeOK'
    <3>1. /\ {lockRead', unlockRead', lockStarted', lockedAt'} \subseteq Nat \cup {NONE}
          /\ {throttledAt', calledAt', unlockedAt'} \subseteq Nat \cup {NONE}
      BY <1>0, <1>1, <1>5 DEF TypeOK
    <3> QED  BY <1>1, <1>5, <2>1, <3>1 DEF TypeOK, BudgetType
  <2>4. LockInv' /\ PhaseInv' /\ OverrunJustified' /\ (budget.since <= Now)'
    BY <1>1, <1>2, <2>1, <2>2
       DEF IInv, LockInv, PhaseInv, PhaseAligned, OverrunJustified, NONE
  <2>5. ThrottleInv' /\ ReadmittedInTime'
    BY <1>0, <1>2, <1>5, <2>2, BudgetSpecAssumption, ClockAssumption
       DEF ThrottleInv, ReadmittedInTime, NONE
  <2> QED  BY <2>3, <2>4, <2>5 DEF IInv
<1> QED  BY <1>3, <1>4, <1>5

\* Every step preserves the inductive invariant.
LEMMA NextInv == IInv /\ [Next]_vars => IInv'
<1> SUFFICES ASSUME IInv, [Next]_vars PROVE IInv'
  OBVIOUS
<1>1. CASE UNCHANGED vars
  <2>1. UNCHANGED <<clock, task, budget, stopped, locked, lockRead, unlockRead, lockStarted,
                    lockedAt, origin, installedAt, used, runs, fresh, windowUsed, throttledAt,
                    calledAt, unlockedAt, ranEmpty>>
    BY <1>1 DEF vars, lockVars, quotaHistory, phaseHistory, useHistory, unlockHistory
  <2> QED
    BY <2>1 DEF IInv, TypeOK, PhaseInv, PhaseAligned, LockInv, OverrunJustified, ThrottleInv,
                ReadmittedInTime, Now
<1>2. CASE EndOfTime
  BY <1>1, <1>2 DEF EndOfTime
<1> QED
  BY <1>1, <1>2, TickInv, DispatchInv, SwitchOutInv, WakeUpInv, TimerStillAvailableInv,
     TimerExhaustedInv, ReplenishInv, LockInvStep, UnlockInv, SetRunPolicyInv DEF Next

\* The inductive invariant holds in every reachable state.
LEMMA Invariance == Spec => []IInv
<1> QED  BY InitInv, NextInv, PTL DEF Spec

-----------------------------------------------------------------------------

\* Every variable keeps its type; the unsigned `remaining` never leaves
\* 0..Capacity, whatever charge_until is given.
THEOREM TypeCorrect == Spec => []TypeOK
<1>1. IInv => TypeOK
  BY DEF IInv
<1> QED  BY <1>1, Invariance, PTL

\* Replenishment keeps the phase of the installation: replenish_if_due skips
\* missed periods and throttle_after_lock_overrun advances over the boundaries
\* that passed under the lock, neither loses the phase.
THEOREM PhaseKept == Spec => []PhaseAligned
<1>1. IInv => PhaseAligned
  BY DEF IInv, PhaseInv
<1> QED  BY <1>1, Invariance, PTL

\* A throttled task is eligible again within one period and the latency of the
\* timer interrupt that replenish_budgets runs in.
THEOREM Readmission == Spec => []ReadmittedInTime
<1>1. IInv => ReadmittedInTime
  BY DEF IInv
<1> QED  BY <1>1, Invariance, PTL

\* on_timer reports a scheduler-lock overrun only for a task that holds the
\* lock, and that has held it for the limit unless time passed between the
\* clock reading of lock_scheduler and its critical section.
THEOREM OverrunsJustified == Spec => []OverrunJustified
<1>1. IInv => OverrunJustified
  BY DEF IInv
<1> QED  BY <1>1, Invariance, PTL

\* An exhaustion that the scheduler lock deferred is not erased by the unlock:
\* account_switch gives the task the processor only in a later period than the
\* one in which it called unlock_scheduler, whatever interrupts the call
\* between its reading of the clock and its critical section.
THEOREM ExhaustionStays == Spec => LockCannotEraseExhaustion
<1> DEFINE A == task = "Ready" /\ task' = "Running" /\ calledAt # NONE =>
                  (Now - origin) \div Period > (calledAt - origin) \div Period
<1>1. IInv => A
  BY DEF IInv, ThrottleInv
<1>2. IInv /\ [Next]_vars => [A]_vars
  BY <1>1
<1> QED  BY <1>2, Invariance, PTL DEF Spec, LockCannotEraseExhaustion
-----------------------------------------------------------------------------
(* The accounting, in ticks of the hardware clock. *)

\* Products of sums and differences, and their order.
LEMMA Products ==
  ASSUME NEW a \in Int, NEW b \in Int, NEW c \in Nat
  PROVE  /\ a * c \in Int /\ b * c \in Int
         /\ (a + b) * c = a * c + b * c /\ (a - b) * c = a * c - b * c
         /\ a <= b => a * c <= b * c
         /\ a \in Nat => a * c \in Nat
OBVIOUS

\* A reading of the clock is less than a millisecond old.
LEMMA ReadingFacts ==
  ASSUME NEW c \in Nat, NEW n \in Int, n = c \div TicksPerMs
  PROVE  n * TicksPerMs <= c /\ c <= n * TicksPerMs + (TicksPerMs - 1)
<1>1. c % TicksPerMs = c - TicksPerMs * n /\ c % TicksPerMs \in Nat /\ c % TicksPerMs < TicksPerMs
  BY DivFacts, ClockAssumption
<1>2. TicksPerMs * n = n * TicksPerMs
  BY ClockAssumption
<1> DEFINE p == n * TicksPerMs
           m == c % TicksPerMs
<1>3. p \in Int /\ m = c - p /\ m \in Nat /\ m < TicksPerMs /\ TicksPerMs \in Nat
  BY <1>1, <1>2, ClockAssumption
<1> HIDE DEF p, m
<1>4. p <= c /\ c <= p + (TicksPerMs - 1)
  BY <1>3
<1> QED  BY <1>4 DEF p

\* What truncation takes from one more run.
LEMMA TruncatedFacts ==
  ASSUME NEW n \in Nat, n # 0
  PROVE  /\ (n - 1) * (TicksPerMs - 1) \in Nat
         /\ n * (TicksPerMs - 1) = (n - 1) * (TicksPerMs - 1) + (TicksPerMs - 1)
<1>1. n - 1 \in Nat /\ TicksPerMs - 1 \in Nat /\ n = (n - 1) + 1
  BY ClockAssumption
<1> DEFINE m == n - 1
           t == TicksPerMs - 1
<1>2. m \in Nat /\ t \in Nat /\ n = m + 1
  BY <1>1
<1> HIDE DEF m, t
<1>3. m * t \in Nat /\ (m + 1) * t = m * t + t
  BY <1>2
<1> QED  BY <1>2, <1>3 DEF m, t

\* What the accounting starts from at each step, the products in ticks included.
LEMMA QuotaFacts ==
  ASSUME IInv
  PROVE  /\ TypeOK /\ clock \in Nat /\ Now \in Nat /\ TicksPerMs \in Nat \ {0}
         /\ budget \in BudgetType /\ budget.since \in Nat \cup {NONE} /\ budget.since <= Now
         /\ budget.remaining \in Nat /\ budget.remaining <= Capacity
         /\ used \in Nat /\ runs \in Nat /\ installedAt \in Nat /\ fresh \in BOOLEAN
         /\ Capacity \in Nat \ {0} /\ MaxLatency \in Nat
         /\ Capacity * TicksPerMs \in Nat /\ Truncated \in Nat
         /\ budget.remaining * TicksPerMs \in Nat /\ budget.since * TicksPerMs \in Int
         /\ installedAt * TicksPerMs \in Nat
         /\ Now * TicksPerMs <= clock /\ clock <= Now * TicksPerMs + (TicksPerMs - 1)
         /\ Now * TicksPerMs \in Nat
<1>1. /\ TypeOK /\ clock \in Nat /\ Now \in Nat /\ TicksPerMs \in Nat \ {0}
      /\ budget \in BudgetType /\ budget.since \in Nat \cup {NONE} /\ budget.since <= Now
      /\ budget.remaining \in Nat /\ budget.remaining <= Capacity
      /\ used \in Nat /\ runs \in Nat /\ installedAt \in Nat /\ fresh \in BOOLEAN
      /\ Capacity \in Nat \ {0} /\ MaxLatency \in Nat
  BY Types, BudgetSpecAssumption, ClockAssumption DEF IInv, TypeOK
<1>2. Now * TicksPerMs <= clock /\ clock <= Now * TicksPerMs + (TicksPerMs - 1)
  BY <1>1, ReadingFacts DEF Now
<1>3. TicksPerMs - 1 \in Nat /\ budget.since \in Int
  BY <1>1 DEF NONE
<1>4. /\ Capacity * TicksPerMs \in Nat /\ budget.remaining * TicksPerMs \in Nat
      /\ installedAt * TicksPerMs \in Nat /\ Now * TicksPerMs \in Nat
      /\ budget.since * TicksPerMs \in Int
  BY <1>1, <1>3, Products
<1>5. Truncated \in Nat
  BY <1>1, <1>3, Products DEF Truncated
<1> QED  BY <1>1, <1>2, <1>4, <1>5

\* Nothing is spent when the task is created.
LEMMA QuotaInit == Init => QuotaInv
<1> SUFFICES ASSUME Init PROVE QuotaInv
  OBVIOUS
<1>1. budget.since = NONE /\ budget.remaining = Capacity
  BY DEF Init, ForPolicy
<1>2. Capacity * TicksPerMs \in Nat /\ Truncated = 0 /\ installedAt * TicksPerMs = 0
  BY BudgetSpecAssumption, ClockAssumption DEF Init, Truncated
<1>3. SpentInv
  BY <1>1, <1>2 DEF Init, SpentInv
<1> QED  BY <1>1, <1>2, <1>3, BudgetSpecAssumption DEF Init, QuotaInv, ChargedInv, InstalledInv, EmptyInv

\* Running time adds to `used` as much as to the pending charge, and the timer
\* interrupt ends a run that is charged at most MaxLatency after its budget.
LEMMA QuotaTick ==
  ASSUME IInv, QuotaInv, Tick
  PROVE  QuotaInv'
<1> DEFINE n == (clock + 1) \div TicksPerMs
<1>0. /\ clock \in Nat /\ used \in Nat /\ runs \in Nat /\ fresh \in BOOLEAN
      /\ TicksPerMs \in Nat \ {0} /\ Capacity \in Nat \ {0} /\ MaxLatency \in Nat
      /\ installedAt \in Nat /\ budget.remaining \in Nat
      /\ budget.since \in Nat \cup {NONE} /\ budget.since <= Now /\ Now \in Nat
      /\ Truncated \in Nat /\ Now * TicksPerMs <= clock
  BY QuotaFacts
<1>1. /\ clock' = clock + 1 /\ WithinDeadline(n)
      /\ UNCHANGED <<task, budget, ranEmpty, installedAt>>
      /\ runs' = (IF fresh THEN runs + 1 ELSE runs) /\ fresh' = FALSE
  BY DEF Tick, phaseHistory
<1>2. used' = IF task = "Running" THEN used + 1 ELSE used
  BY <1>0 DEF Tick
<1>3. ChargedInv /\ SpentInv /\ InstalledInv /\ EmptyInv /\ (fresh => task = "Running")
  BY DEF QuotaInv
<1>4. n \in Int /\ clock + 1 <= n * TicksPerMs + (TicksPerMs - 1)
  <2>1. clock + 1 \in Nat /\ n \in Int
    BY <1>0
  <2> QED  BY ONLY <2>1, ReadingFacts DEF n
<1> HIDE DEF n
<1> DEFINE R == budget.remaining * TicksPerMs
           S == budget.since * TicksPerMs
           C == Capacity * TicksPerMs
           L == MaxLatency * TicksPerMs
           I == installedAt * TicksPerMs
           N == n * TicksPerMs
           K == (runs' - 1) * (TicksPerMs - 1)
<1>5. /\ R \in Nat /\ S \in Int /\ C \in Nat /\ L \in Nat /\ I \in Nat /\ N \in Int
      /\ TicksPerMs <= C /\ S <= clock /\ (Capacity + MaxLatency) * TicksPerMs = C + L
  <2>1. budget.since \in Int
    BY <1>0 DEF NONE
  <2>2. R \in Nat /\ S \in Int /\ C \in Nat /\ L \in Nat /\ I \in Nat /\ N \in Int
    BY <1>0, <1>4, <2>1, Products
  <2>3. S <= Now * TicksPerMs /\ Now * TicksPerMs \in Int
    BY <1>0, <2>1, Products
  <2>4. 1 * TicksPerMs <= C
    BY <1>0, Products
  <2>5. (Capacity + MaxLatency) * TicksPerMs = C + L
    BY <1>0, Products
  <2> HIDE DEF R, S, C, L, I, N
  <2> QED  BY <1>0, <2>2, <2>3, <2>4, <2>5
<1>6. ChargedInv' /\ (fresh => task = "Running")'
  BY <1>1, <1>3 DEF ChargedInv
<1>7. InstalledInv'
  BY <1>0, <1>1, <1>2, <1>3, <1>5 DEF InstalledInv
<1>8. ASSUME task = "Running", budget.remaining # 0
      PROVE  /\ runs' \in Nat \ {0} /\ K \in Nat /\ Truncated' = K + (TicksPerMs - 1)
             /\ used' + R <= C + (clock + 1 - S) + K
  <2>1. runs' \in Nat \ {0}
    BY <1>0, <1>1, <1>3, <1>8 DEF SpentInv
  <2>2. K \in Nat /\ Truncated' = K + (TicksPerMs - 1)
    BY <2>1, TruncatedFacts DEF Truncated
  <2>3. CASE fresh
    <3>1. K = Truncated
      BY <1>0, <1>1, <2>3 DEF Truncated
    <3>2. used + R <= C + Truncated
      BY <1>3, <1>8, <2>3 DEF SpentInv
    <3> HIDE DEF R, S, C, K
    <3> QED  BY <1>0, <1>2, <1>5, <1>8, <2>1, <2>2, <3>1, <3>2
  <2>4. CASE ~fresh
    <3>1. K = (runs - 1) * (TicksPerMs - 1)
      BY <1>1, <2>4
    <3>2. used + R <= C + (clock - S) + K
      BY <1>3, <1>8, <2>4, <3>1 DEF SpentInv
    <3> HIDE DEF R, S, C, K
    <3> QED  BY <1>0, <1>2, <1>5, <1>8, <2>1, <2>2, <3>2
  <2> QED  BY <2>3, <2>4
<1>9. SpentInv'
  <2>1. CASE task = "Running" /\ budget.remaining # 0
    <3>1. /\ task' = "Running" /\ fresh' = FALSE /\ budget' = budget /\ clock' = clock + 1
      BY <1>1, <2>1
    <3>2. runs' # 0 /\ used' + R <= C + (clock + 1 - S) + K
      BY <1>8, <2>1
    <3>3. used' + budget'.remaining * TicksPerMs
            <= Capacity * TicksPerMs + (clock' - budget'.since * TicksPerMs)
                 + (runs' - 1) * (TicksPerMs - 1)
      <4>1. /\ budget'.remaining * TicksPerMs = R /\ budget'.since * TicksPerMs = S
        BY <3>1
      <4>2. clock' - S = clock + 1 - S
        <5> HIDE DEF S
        <5> QED  BY <1>0, <1>5, <3>1
      <4>3. used' + R <= C + (clock' - S) + K
        BY ONLY <3>2, <4>2
      <4> QED  BY ONLY <4>1, <4>3 DEF R, S, C, K
    <3> HIDE DEF R, S, C, K
    <3> QED  BY ONLY <3>1, <3>2, <3>3 DEF SpentInv
  <2>2. CASE budget.remaining = 0
    <3>1. budget' = budget
      BY <1>1
    <3> QED  BY ONLY <2>2, <3>1 DEF SpentInv
  <2>3. CASE task # "Running"
    <3>1. used' = used /\ runs' = runs
      BY <1>1, <1>2, <1>3, <2>3
    <3>2. Truncated' = Truncated
      BY <3>1 DEF Truncated
    <3> QED  BY <1>1, <1>3, <2>3, <3>1, <3>2 DEF SpentInv
  <2> QED  BY <2>1, <2>2, <2>3
<1>10. EmptyInv'
  <2>1. ASSUME task = "Running", budget.remaining # 0
        PROVE  used' <= (Capacity + MaxLatency) * TicksPerMs + Truncated'
    <3>1. budget.since # NONE
      BY <1>3, <2>1 DEF ChargedInv
    <3>2. n <= budget.since + budget.remaining + MaxLatency \/ n <= installedAt + 1 + MaxLatency
      BY <1>1, <2>1, <3>1 DEF WithinDeadline
    <3>3. /\ runs' \in Nat \ {0} /\ K \in Nat /\ Truncated' = K + (TicksPerMs - 1)
          /\ used' + R <= C + (clock + 1 - S) + K
      BY <1>8, <2>1
    <3>4. CASE n <= budget.since + budget.remaining + MaxLatency
      <4>1. budget.since \in Nat
        BY <1>0, <3>1
      <4>2. N <= (budget.since + budget.remaining + MaxLatency) * TicksPerMs
        BY <1>0, <1>4, <3>4, <4>1, Products
      <4>3. (budget.since + budget.remaining + MaxLatency) * TicksPerMs = S + R + L
        BY <1>0, <4>1, Products
      <4> HIDE DEF R, S, C, L, N, K
      <4> QED  BY <1>0, <1>2, <1>4, <1>5, <2>1, <3>3, <4>2, <4>3 DEF N
    <3>5. CASE n <= installedAt + 1 + MaxLatency
      <4>1. N <= (installedAt + 1 + MaxLatency) * TicksPerMs
        BY <1>0, <1>4, <3>5, Products
      <4>2. (installedAt + 1 + MaxLatency) * TicksPerMs = I + TicksPerMs + L
        BY <1>0, Products
      <4>3. used' <= clock + 1 - I
        <5>1. installedAt' = installedAt /\ clock' = clock + 1
          BY <1>1
        <5>2. used' <= clock' - installedAt' * TicksPerMs
          BY ONLY <1>7 DEF InstalledInv
        <5>3. installedAt' * TicksPerMs = I
          BY <5>1
        <5> HIDE DEF I
        <5>4. used' <= clock' - I
          BY <5>2, <5>3
        <5> QED  BY <1>0, <1>5, <5>1, <5>4
      <4> HIDE DEF R, S, C, L, I, N, K
      <4> QED  BY <1>0, <1>2, <1>4, <1>5, <2>1, <3>3, <4>1, <4>2, <4>3 DEF N
    <3> QED  BY <3>2, <3>4, <3>5
  <2>2. Capacity' = Capacity /\ budget'.remaining = budget.remaining /\ task' = task
    BY <1>1
  <2>3. CASE task = "Running" /\ budget.remaining # 0
    BY <2>1, <2>2, <2>3 DEF EmptyInv
  <2>4. CASE task # "Running" \/ budget.remaining = 0
    BY <1>1, <1>3, <2>4 DEF EmptyInv
  <2> QED  BY <2>3, <2>4
<1> QED  BY <1>6, <1>7, <1>9, <1>10 DEF QuotaInv

\* An account that is balanced is within the quota.
LEMMA BalancedWithinQuota ==
  ASSUME NEW u \in Nat, NEW r \in Nat, NEW k \in Nat,
         u + r * TicksPerMs <= Capacity * TicksPerMs + k
  PROVE  u <= (Capacity + MaxLatency) * TicksPerMs + k
<1> DEFINE R == r * TicksPerMs
           C == Capacity * TicksPerMs
           L == MaxLatency * TicksPerMs
<1>1. TicksPerMs \in Nat /\ Capacity \in Nat /\ MaxLatency \in Nat
  BY BudgetSpecAssumption, ClockAssumption
<1>2. R \in Nat /\ C \in Nat /\ L \in Nat /\ (Capacity + MaxLatency) * TicksPerMs = C + L
  BY <1>1, Products
<1> HIDE DEF R, C, L
<1>3. u + R <= C + k
  BY DEF R, C
<1> QED  BY <1>2, <1>3

\* on_dispatch spends nothing.
LEMMA QuotaDispatch ==
  ASSUME IInv, QuotaInv, Dispatch
  PROVE  QuotaInv'
<1> DEFINE r == ReplenishIfDue(budget, Now)
<1>0. /\ budget \in BudgetType /\ Now \in Nat /\ used \in Nat /\ runs \in Nat /\ clock \in Nat
      /\ budget.remaining \in Nat /\ Capacity \in Nat \ {0} /\ TicksPerMs \in Nat \ {0}
      /\ Capacity * TicksPerMs \in Nat /\ Truncated \in Nat /\ installedAt * TicksPerMs \in Nat
  BY QuotaFacts
<1>1. /\ task = "Ready" /\ task' = "Running" /\ budget' = [r EXCEPT !.since = Now]
      /\ clock' = clock /\ fresh' = TRUE /\ installedAt' = installedAt
      /\ \/ IsDue(budget, Now) /\ used' = 0 /\ runs' = 0
         \/ /\ ~IsDue(budget, Now) /\ used' = used /\ runs' = runs
            /\ ranEmpty' = (ranEmpty \/ budget.remaining = 0)
  BY DEF Dispatch, OnDispatch, phaseHistory
<1>2. /\ r \in BudgetType
      /\ r.remaining = (IF IsDue(budget, Now) THEN Capacity ELSE budget.remaining)
  BY <1>0, ReplenishFacts
<1> HIDE DEF r
<1>3. budget'.since = Now /\ budget'.remaining = r.remaining /\ r.remaining \in Nat
  BY <1>0, <1>1, <1>2, SinceFacts
<1>4. /\ used' \in Nat /\ Truncated' \in Nat /\ used' <= used
      /\ r.remaining # 0 => used' + r.remaining * TicksPerMs <= Capacity * TicksPerMs + Truncated'
      /\ r.remaining = 0 => ranEmpty'
  <2>1. CASE IsDue(budget, Now)
    <3>1. used' = 0 /\ runs' = 0 /\ r.remaining = Capacity
      BY <1>1, <1>2, <2>1
    <3>2. Truncated' = 0
      BY <1>0, <3>1 DEF Truncated
    <3> QED  BY <1>0, <3>1, <3>2
  <2>2. CASE ~IsDue(budget, Now)
    <3>1. /\ used' = used /\ runs' = runs /\ r.remaining = budget.remaining
          /\ ranEmpty' = (ranEmpty \/ budget.remaining = 0)
      BY <1>1, <1>2, <2>2
    <3>2. Truncated' = Truncated
      BY <3>1 DEF Truncated
    <3>3. budget.remaining # 0 => used + budget.remaining * TicksPerMs <= Capacity * TicksPerMs + Truncated
      BY <1>1 DEF QuotaInv, SpentInv
    <3>4. r.remaining = 0 => ranEmpty'
      BY <3>1, Zenon
    <3> QED  BY <1>0, <3>1, <3>2, <3>3, <3>4
  <2> QED  BY <2>1, <2>2
<1>5. ChargedInv' /\ (fresh => task = "Running")'
  BY <1>0, <1>1, <1>3 DEF ChargedInv, NONE
<1>6. SpentInv'
  BY <1>1, <1>3, <1>4 DEF SpentInv
<1>7. InstalledInv'
  BY <1>0, <1>1, <1>4 DEF InstalledInv, QuotaInv
<1>8. EmptyInv'
  <2>1. r.remaining # 0 => used' <= (Capacity + MaxLatency) * TicksPerMs + Truncated'
    BY <1>3, <1>4, BalancedWithinQuota
  <2> QED  BY <1>1, <1>3, <1>4, <2>1 DEF EmptyInv
<1> QED  BY <1>5, <1>6, <1>7, <1>8 DEF QuotaInv

\* A charge settles the running time since the last one but for the milliseconds
\* it truncates: less than one for each run.
LEMMA SettledCharge ==
  ASSUME IInv, QuotaInv, task = "Running", ChargeUntil(budget, Now).remaining # 0
  PROVE  LET left == ChargeUntil(budget, Now).remaining IN
         /\ left \in Nat
         /\ budget.since # NONE /\ budget.remaining # 0
         /\ used + left * TicksPerMs <= Capacity * TicksPerMs + Truncated
         /\ ~fresh => /\ runs # 0
                      /\ used + left * TicksPerMs
                           <= Capacity * TicksPerMs + (clock - Now * TicksPerMs)
                                + (runs - 1) * (TicksPerMs - 1)
<1> DEFINE c == ChargeUntil(budget, Now)
           left == c.remaining
<1>0. /\ budget \in BudgetType /\ budget.since \in Nat \cup {NONE} /\ budget.since <= Now
      /\ Now \in Nat /\ used \in Nat /\ runs \in Nat /\ clock \in Nat /\ fresh \in BOOLEAN
      /\ budget.remaining \in Nat /\ TicksPerMs \in Nat \ {0}
      /\ Capacity * TicksPerMs \in Nat /\ Truncated \in Nat
      /\ budget.remaining * TicksPerMs \in Nat /\ budget.since * TicksPerMs \in Int
      /\ Now * TicksPerMs \in Nat /\ clock <= Now * TicksPerMs + (TicksPerMs - 1)
  BY QuotaFacts
<1>1. c \in BudgetType /\ left = budget.remaining - (IF budget.since = NONE THEN 0 ELSE Now - budget.since)
  BY <1>0, ChargeFacts
<1>2. left \in Nat
  BY <1>1 DEF BudgetType
<1> HIDE DEF c
<1>3. budget.since # NONE
  BY <1>1 DEF QuotaInv, ChargedInv, c
<1>4. budget.since \in Nat /\ left = budget.remaining - (Now - budget.since) /\ left <= budget.remaining
  BY <1>0, <1>1, <1>3
<1>5. budget.remaining # 0
  BY <1>0, <1>2, <1>4 DEF c
<1> DEFINE R == budget.remaining * TicksPerMs
           S == budget.since * TicksPerMs
           C == Capacity * TicksPerMs
           N == Now * TicksPerMs
           Z == left * TicksPerMs
           K == (runs - 1) * (TicksPerMs - 1)
<1>6. Z \in Nat /\ Z = R - (N - S) /\ Z <= R
  BY <1>0, <1>2, <1>4, Products
<1>7. CASE fresh
  <2>1. used + R <= C + Truncated
    BY <1>5, <1>7 DEF QuotaInv, SpentInv
  <2>2. R \in Nat /\ C \in Nat /\ Truncated \in Nat /\ used \in Nat
    BY <1>0
  <2>3. used + Z <= C + Truncated
    <3> HIDE DEF R, C, Z
    <3> QED  BY <1>6, <2>1, <2>2
  <2> QED  BY <1>2, <1>3, <1>5, <1>7, <2>3 DEF c
<1>8. CASE ~fresh
  <2>1. runs # 0 /\ used + R <= C + (clock - S) + K
    BY <1>5, <1>8 DEF QuotaInv, SpentInv
  <2>2. K \in Nat /\ Truncated = K + (TicksPerMs - 1)
    BY <1>0, <2>1, TruncatedFacts DEF Truncated
  <2>3. R \in Nat /\ C \in Nat /\ S \in Int /\ N \in Nat /\ clock <= N + (TicksPerMs - 1)
    BY <1>0
  <2>4. used + Z <= C + (clock - N) + K /\ used + Z <= C + Truncated
    <3> HIDE DEF R, C, Z, S, N, K
    <3> QED  BY <1>0, <1>6, <2>1, <2>2, <2>3
  <2> QED  BY <1>2, <1>3, <1>5, <2>1, <2>4 DEF c
<1> QED  BY <1>7, <1>8, <1>0

\* on_switch_out charges the run in whole milliseconds.
LEMMA QuotaSwitchOut ==
  ASSUME IInv, QuotaInv, NEW s \in {"Ready", "Sleeping"}, SwitchOut(s)
  PROVE  QuotaInv'
<1> DEFINE c == ChargeUntil(budget, Now)
<1>0. /\ budget \in BudgetType /\ budget.since \in Nat \cup {NONE}
      /\ budget.since <= Now /\ Now \in Nat
  BY QuotaFacts
<1>1. /\ task = "Running" /\ task' = s /\ budget' = [c EXCEPT !.since = NONE] /\ fresh' = FALSE
      /\ UNCHANGED <<clock, used, runs, installedAt>>
  BY DEF SwitchOut, OnSwitchOut, phaseHistory
<1>2. c \in BudgetType
  BY <1>0, ChargeFacts
<1>3. c.remaining # 0 => used + c.remaining * TicksPerMs <= Capacity * TicksPerMs + Truncated
  BY <1>1, SettledCharge
<1> HIDE DEF c
<1>4. budget'.since = NONE /\ budget'.remaining = c.remaining
  BY <1>1, <1>2, SinceFacts
<1>5. Truncated' = Truncated /\ task' # "Running"
  BY <1>1 DEF Truncated
<1>6. ChargedInv' /\ SpentInv' /\ EmptyInv'
  BY <1>1, <1>3, <1>4, <1>5 DEF ChargedInv, SpentInv, EmptyInv
<1> QED  BY <1>1, <1>6 DEF QuotaInv, InstalledInv

\* A timer interrupt charges the run in whole milliseconds.
LEMMA QuotaTimer ==
  ASSUME IInv, QuotaInv, TimerStillAvailable \/ TimerExhausted
  PROVE  QuotaInv'
<1> DEFINE c == ChargeUntil(budget, Now)
<1>0. /\ TypeOK /\ budget \in BudgetType /\ budget.since \in Nat \cup {NONE}
      /\ budget.since <= Now /\ Now \in Nat /\ fresh \in BOOLEAN
      /\ used \in Nat /\ Truncated \in Nat
  BY QuotaFacts
<1>1. CASE TimerStillAvailable
  <2>1. /\ task = "Running" /\ c.remaining # 0 /\ budget' = c
        /\ UNCHANGED <<clock, task, used, runs, fresh, ranEmpty, installedAt>>
    BY <1>1 DEF TimerStillAvailable, quotaHistory, useHistory, phaseHistory
  <2>2. /\ c.remaining \in Nat /\ budget.since # NONE
        /\ used + c.remaining * TicksPerMs <= Capacity * TicksPerMs + Truncated
        /\ ~fresh => /\ runs # 0
                     /\ used + c.remaining * TicksPerMs
                          <= Capacity * TicksPerMs + (clock - Now * TicksPerMs)
                               + (runs - 1) * (TicksPerMs - 1)
    BY <2>1, SettledCharge
  <2>3. c.since = Now
    BY <1>0, <2>2, ChargeFacts
  <2> HIDE DEF c
  <2>4. used <= (Capacity + MaxLatency) * TicksPerMs + Truncated
    BY <1>0, <2>2, BalancedWithinQuota
  <2>5. Truncated' = Truncated
    BY <2>1 DEF Truncated
  <2>6. SpentInv'
    BY <2>1, <2>2, <2>3, <2>5 DEF SpentInv
  <2>7. ChargedInv' /\ EmptyInv'
    BY <1>0, <2>1, <2>3, <2>4, <2>5 DEF ChargedInv, EmptyInv, NONE
  <2> QED  BY <2>1, <2>6, <2>7 DEF QuotaInv, InstalledInv
<1>2. CASE TimerExhausted
  <2>1. /\ task = "Running" /\ c.remaining = 0 /\ budget' = Exhaust(budget, Now)
        /\ \/ locked /\ task' = task /\ fresh' = fresh
           \/ task' = "Throttled" /\ fresh' = FALSE
        /\ UNCHANGED <<clock, used, installedAt>>
    BY <1>2 DEF TimerExhausted, phaseHistory
  <2>2. locked \in BOOLEAN
    BY <1>0 DEF TypeOK
  <2>3. /\ budget'.since = NONE /\ budget'.remaining = 0
        /\ budget'.overrun = (budget.overrun \/ locked)
    BY <1>0, <2>1, <2>2, ExhaustFacts
  <2>4. ChargedInv' /\ SpentInv' /\ EmptyInv'
    BY <2>1, <2>3 DEF ChargedInv, SpentInv, EmptyInv
  <2> QED  BY <2>1, <2>4 DEF QuotaInv, InstalledInv
<1> QED  BY <1>1, <1>2

\* The outermost unlock leaves the account as it is, or empties it.
LEMMA QuotaUnlock ==
  ASSUME IInv, QuotaInv, Unlock
  PROVE  QuotaInv'
<1>1. UNCHANGED <<clock, used, runs, ranEmpty, installedAt>>
  BY DEF Unlock, phaseHistory
<1>2. Truncated' = Truncated
  BY <1>1 DEF Truncated
<1>3. CASE UNCHANGED <<task, budget, fresh>>
  BY <1>1, <1>2, <1>3 DEF QuotaInv, ChargedInv, SpentInv, InstalledInv, EmptyInv
<1>4. CASE task' = "Throttled" /\ budget' = ThrottleAfterLockOverrun(budget, unlockRead)
           /\ fresh' = FALSE /\ unlockRead # NONE
  <2>1. budget \in BudgetType /\ unlockRead \in Nat
    BY <1>4, QuotaFacts DEF TypeOK
  <2>2. budget'.since = NONE /\ budget'.remaining = 0
    BY <1>4, <2>1, ThrottleFacts
  <2> QED  BY <1>1, <1>4, <2>2 DEF QuotaInv, ChargedInv, SpentInv, InstalledInv, EmptyInv
<1> QED  BY <1>3, <1>4 DEF Unlock

\* A budget that is filled accounts for nothing, and nothing was used of it.
LEMMA QuotaFilled ==
  ASSUME IInv, QuotaInv, NEW now \in Readings, Replenish(now) \/ SetRunPolicy(now)
  PROVE  QuotaInv'
<1>0. /\ budget \in BudgetType /\ Now \in Nat /\ now \in Nat /\ clock \in Nat
      /\ Capacity \in Nat \ {0} /\ TicksPerMs \in Nat \ {0}
      /\ Capacity * TicksPerMs \in Nat /\ installedAt * TicksPerMs \in Nat /\ used \in Nat
      /\ Now * TicksPerMs \in Nat /\ Now * TicksPerMs <= clock
  BY QuotaFacts DEF Readings
<1>1. used' = 0 /\ runs' = 0 /\ clock' = clock
  BY DEF Replenish, SetRunPolicy
<1>2. Truncated' = 0
  BY <1>0, <1>1 DEF Truncated
<1>3. 0 <= (Capacity + MaxLatency) * TicksPerMs + 0
  BY <1>0, BalancedWithinQuota
<1>4. CASE Replenish(now)
  <2>1. /\ task = "Throttled" /\ task' = "Ready" /\ fresh' = fresh /\ installedAt' = installedAt
        /\ budget' = ReplenishIfDue(budget, now) /\ IsDue(budget, now)
    BY <1>4 DEF Replenish, phaseHistory
  <2>2. budget'.remaining = Capacity /\ budget'.since = budget.since
    BY <1>0, <2>1, ReplenishFacts
  <2>3. ChargedInv' /\ EmptyInv' /\ (fresh => task = "Running")'
    BY <2>1, <2>2 DEF QuotaInv, ChargedInv, EmptyInv
  <2>4. SpentInv'
    BY <1>0, <1>1, <1>2, <2>1, <2>2 DEF SpentInv
  <2>5. InstalledInv'
    BY <1>0, <1>1, <2>1 DEF QuotaInv, InstalledInv
  <2> QED  BY <2>3, <2>4, <2>5 DEF QuotaInv
<1>5. CASE SetRunPolicy(now)
  <2> DEFINE b == ForPolicy(now)
  <2>1. /\ installedAt' = Now /\ fresh' = (task = "Running")
        /\ task' = (IF task = "Throttled" THEN "Ready" ELSE task)
        /\ budget' = (IF task = "Running" THEN OnDispatch(b, now) ELSE b)
    BY <1>5 DEF SetRunPolicy
  <2>2. b \in BudgetType /\ b.since = NONE /\ b.remaining = Capacity /\ ~IsDue(b, now)
    BY <1>0, ForPolicyFacts
  <2> HIDE DEF b
  <2>3. OnDispatch(b, now) = [b EXCEPT !.since = now]
    BY <2>2 DEF OnDispatch, ReplenishIfDue
  <2>4. /\ budget'.remaining = Capacity
        /\ task # "Running" => budget'.since = NONE
        /\ task = "Running" => budget'.since # NONE
    BY <1>0, <2>1, <2>2, <2>3, SinceFacts DEF NONE
  <2>5. task' = "Running" <=> task = "Running"
    BY <2>1
  <2>6. ChargedInv' /\ (fresh => task = "Running")'
    BY <1>0, <2>1, <2>4, <2>5 DEF ChargedInv
  <2>7. SpentInv'
    <3>1. ~(task' = "Running" /\ ~fresh')
      BY <2>1, <2>5
    <3>2. used' + budget'.remaining * TicksPerMs <= Capacity * TicksPerMs + Truncated'
      <4> DEFINE C == Capacity * TicksPerMs
      <4>1. C \in Nat /\ budget'.remaining * TicksPerMs = C /\ used' = 0 /\ Truncated' = 0
        BY <1>0, <1>1, <1>2, <2>4
      <4> HIDE DEF C
      <4>2. used' + budget'.remaining * TicksPerMs <= C + Truncated'
        BY ONLY <4>1
      <4> QED  BY <4>2 DEF C
    <3> QED  BY ONLY <3>1, <3>2 DEF SpentInv
  <2>8. InstalledInv'
    BY <1>0, <1>1, <2>1 DEF InstalledInv
  <2>9. EmptyInv'
    BY <1>0, <1>1, <1>2, <1>3, <2>4 DEF EmptyInv
  <2> QED  BY <2>6, <2>7, <2>8, <2>9 DEF QuotaInv
<1> QED  BY <1>4, <1>5

\* Every action preserves the accounting.
LEMMA QuotaNext == IInv /\ QuotaInv /\ [Next]_vars => QuotaInv'
<1> SUFFICES ASSUME IInv, QuotaInv, [Next]_vars PROVE QuotaInv'
  OBVIOUS
<1>1. CASE UNCHANGED vars \/ EndOfTime \/ LockCall \/ LockCurrent \/ UnlockCall
  <2>1. UNCHANGED <<clock, task, budget, used, runs, fresh, ranEmpty, installedAt>>
    BY <1>1 DEF vars, quotaHistory, phaseHistory, useHistory, EndOfTime, LockCall, LockCurrent, UnlockCall
  <2>2. Truncated' = Truncated
    BY <2>1 DEF Truncated
  <2> QED  BY <2>1, <2>2 DEF QuotaInv, ChargedInv, SpentInv, InstalledInv, EmptyInv
<1>2. CASE WakeUp
  <2>1. /\ task # "Running" /\ task' # "Running"
        /\ UNCHANGED <<clock, budget, used, runs, fresh, installedAt>>
    BY <1>2 DEF WakeUp, quotaHistory, phaseHistory, useHistory
  <2>2. Truncated' = Truncated
    BY <2>1 DEF Truncated
  <2> QED  BY <2>1, <2>2 DEF QuotaInv, ChargedInv, SpentInv, InstalledInv, EmptyInv
<1>3. CASE \E now \in Readings : Replenish(now) \/ SetRunPolicy(now)
  BY <1>3, QuotaFilled
<1> QED
  BY <1>1, <1>2, <1>3, QuotaTick, QuotaDispatch, QuotaSwitchOut, QuotaTimer, QuotaUnlock DEF Next

\* The accounting holds in every reachable state.
LEMMA QuotaInvariance == Spec => [](IInv /\ QuotaInv)
<1>1. Init => QuotaInv
  BY QuotaInit
<1>2. IInv /\ QuotaInv /\ [Next]_vars => QuotaInv'
  BY QuotaNext
<1> QED  BY <1>1, <1>2, Invariance, PTL DEF Spec

\* For every resolution of the clock the runtime loses less than a millisecond
\* of each run: a task off the processor never owns more budget than its true
\* running time and that loss left it, over any sequence of switches, timer
\* interrupts, stale clock readings and lock calls.
THEOREM NothingUnderAccounted == Spec => []UnderAccountsByTruncation
<1>1. IInv /\ QuotaInv => UnderAccountsByTruncation
  BY DEF QuotaInv, SpentInv, UnderAccountsByTruncation
<1> QED  BY <1>1, QuotaInvariance, PTL

\* One filling of the budget buys at most Capacity of processor time beyond the
\* latency of the timer interrupt, the scheduler lock and the truncation of each
\* run, unless account_switch dispatched the task with an empty budget.
THEOREM QuotaHolds == Spec => []QuotaUnlessEmpty
<1>1. IInv /\ QuotaInv => QuotaUnlessEmpty
  <2> SUFFICES ASSUME IInv, QuotaInv, ~ranEmpty, task = "Running", ~locked
               PROVE  used <= (Capacity + MaxLatency) * TicksPerMs + Truncated
    BY DEF QuotaUnlessEmpty, QuotaBounded
  <2>1. ~budget.overrun
    BY DEF IInv, LockInv
  <2> QED  BY <2>1 DEF QuotaInv, EmptyInv
<1> QED  BY <1>1, QuotaInvariance, PTL
=============================================================================
