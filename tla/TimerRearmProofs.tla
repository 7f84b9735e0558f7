--------------------------- MODULE TimerRearmProofs ---------------------------
(***************************************************************************)
(* The rearm protocol for any set of threads and wakers, any nesting of    *)
(* interrupts and any resolution of the Embassy clock: the ticket makes    *)
(* every rearm that was overtaken repeat itself before application code    *)
(* runs again.                                                             *)
(***************************************************************************)
EXTENDS TimerRearm, CommonLemmas

Stages == {"app", "timer", "read", "claim", "program", "check"}
FrameType == [at : Stages, now : 0..MaxTime, ticket : Nat, deadline : Times,
              leaving : BOOLEAN, lag : 0..MaxTime]

\* The contexts that have to finish before another thread's code runs.
Stack == {current} \cup 1..depth

\* A context whose ticket is the last one, and one that will claim again.
Fresh(c) == frame[c].at \in {"program", "check"} /\ frame[c].ticket = generation
Pending(c) ==
  \/ frame[c].at \in {"timer", "read", "claim"}
  \/ frame[c].at \in {"program", "check"} /\ frame[c].ticket # generation

\* The deadlines that the hardware has to be programmed for.
Wanted == {due} \cup {DelayMs(timers[w]) : w \in Wakers}
Covers(d) == \A e \in Wanted : d <= e
OnTime == \A e \in Wanted : armed <= e + claimLag \/ armed <= clock + 1 + claimLag

\* Only interrupts have an epilogue, the age of a reading is counted, tickets
\* are handed out once and in order.
FrameInv ==
  /\ \A t \in Threads : ~frame[t].leaving
  /\ \A c \in Contexts : frame[c].at = "claim" => clock = frame[c].now + frame[c].lag
  /\ \A c \in Contexts : frame[c].at \in {"program", "check"} => frame[c].ticket <= generation
  /\ \A c, d \in Contexts : Fresh(c) /\ Fresh(d) => c = d

\* No time passes between a claim and its programming, unless it is overtaken.
ProgramInv == At("program") /\ Fresh(Active) => clock = frame[Active].now + claimLag

\* Unless somebody on the stack will claim again, the last claim covers every
\* deadline, and so does the hardware once it is programmed.
ClaimInv ==
  (\A c \in Stack : ~Pending(c)) =>
    /\ \A c \in Contexts \ Stack : ~Fresh(c)
    /\ \A c \in Stack : Fresh(c) /\ frame[c].at = "program" => Covers(frame[c].deadline)
    /\ (\A c \in Stack : ~(Fresh(c) /\ frame[c].at = "program")) => Covers(armedFor) /\ OnTime

\* The inductive invariant.
IInv == TypeOK /\ FrameInv /\ ProgramInv /\ ClaimInv
-----------------------------------------------------------------------------
(* Updates of a frame. *)

\* Setting one field of one frame leaves the others alone.
LEMMA SetAt ==
  ASSUME NEW f \in [Contexts -> FrameType], NEW c \in Contexts, NEW v \in Stages
  PROVE  LET g == [f EXCEPT ![c].at = v] IN
         /\ g \in [Contexts -> FrameType] /\ \A d \in Contexts : d # c => g[d] = f[d]
         /\ g[c].at = v /\ g[c].now = f[c].now /\ g[c].ticket = f[c].ticket
         /\ g[c].deadline = f[c].deadline /\ g[c].leaving = f[c].leaving /\ g[c].lag = f[c].lag
<1> DEFINE r == [f[c] EXCEPT !.at = v]
<1>1. f[c] \in FrameType
  OBVIOUS
<1>2. r = [at |-> v, now |-> f[c].now, ticket |-> f[c].ticket, deadline |-> f[c].deadline, leaving |-> f[c].leaving, lag |-> f[c].lag]
  BY <1>1 DEF FrameType
<1>3. r \in FrameType
  BY <1>1, <1>2 DEF FrameType
<1>4. [f EXCEPT ![c].at = v] = [f EXCEPT ![c] = r]
  OBVIOUS
<1> HIDE DEF r
<1>5. [f EXCEPT ![c] = r] \in [Contexts -> FrameType] /\ [f EXCEPT ![c] = r][c] = r
  BY <1>3
<1> QED  BY <1>2, <1>4, <1>5

\* One assignment to the locals of a frame: the clock reading.
LEMMA SetNow ==
  ASSUME NEW f \in [Contexts -> FrameType], NEW c \in Contexts, NEW v \in 0..MaxTime
  PROVE  LET g == [f EXCEPT ![c].now = v] IN
         /\ g \in [Contexts -> FrameType] /\ \A d \in Contexts : d # c => g[d] = f[d]
         /\ g[c].at = f[c].at /\ g[c].now = v /\ g[c].ticket = f[c].ticket
         /\ g[c].deadline = f[c].deadline /\ g[c].leaving = f[c].leaving /\ g[c].lag = f[c].lag
<1> DEFINE r == [f[c] EXCEPT !.now = v]
<1>1. f[c] \in FrameType
  OBVIOUS
<1>2. r = [at |-> f[c].at, now |-> v, ticket |-> f[c].ticket, deadline |-> f[c].deadline, leaving |-> f[c].leaving, lag |-> f[c].lag]
  BY <1>1 DEF FrameType
<1>3. r \in FrameType
  BY <1>1, <1>2 DEF FrameType
<1>4. [f EXCEPT ![c].now = v] = [f EXCEPT ![c] = r]
  OBVIOUS
<1> HIDE DEF r
<1>5. [f EXCEPT ![c] = r] \in [Contexts -> FrameType] /\ [f EXCEPT ![c] = r][c] = r
  BY <1>3
<1> QED  BY <1>2, <1>4, <1>5

\* One assignment to the locals of a frame: the ticket.
LEMMA SetTicket ==
  ASSUME NEW f \in [Contexts -> FrameType], NEW c \in Contexts, NEW v \in Nat
  PROVE  LET g == [f EXCEPT ![c].ticket = v] IN
         /\ g \in [Contexts -> FrameType] /\ \A d \in Contexts : d # c => g[d] = f[d]
         /\ g[c].at = f[c].at /\ g[c].now = f[c].now /\ g[c].ticket = v
         /\ g[c].deadline = f[c].deadline /\ g[c].leaving = f[c].leaving /\ g[c].lag = f[c].lag
<1> DEFINE r == [f[c] EXCEPT !.ticket = v]
<1>1. f[c] \in FrameType
  OBVIOUS
<1>2. r = [at |-> f[c].at, now |-> f[c].now, ticket |-> v, deadline |-> f[c].deadline, leaving |-> f[c].leaving, lag |-> f[c].lag]
  BY <1>1 DEF FrameType
<1>3. r \in FrameType
  BY <1>1, <1>2 DEF FrameType
<1>4. [f EXCEPT ![c].ticket = v] = [f EXCEPT ![c] = r]
  OBVIOUS
<1> HIDE DEF r
<1>5. [f EXCEPT ![c] = r] \in [Contexts -> FrameType] /\ [f EXCEPT ![c] = r][c] = r
  BY <1>3
<1> QED  BY <1>2, <1>4, <1>5

\* One assignment to the locals of a frame: the deadline.
LEMMA SetDeadline ==
  ASSUME NEW f \in [Contexts -> FrameType], NEW c \in Contexts, NEW v \in Times
  PROVE  LET g == [f EXCEPT ![c].deadline = v] IN
         /\ g \in [Contexts -> FrameType] /\ \A d \in Contexts : d # c => g[d] = f[d]
         /\ g[c].at = f[c].at /\ g[c].now = f[c].now /\ g[c].ticket = f[c].ticket
         /\ g[c].deadline = v /\ g[c].leaving = f[c].leaving /\ g[c].lag = f[c].lag
<1> DEFINE r == [f[c] EXCEPT !.deadline = v]
<1>1. f[c] \in FrameType
  OBVIOUS
<1>2. r = [at |-> f[c].at, now |-> f[c].now, ticket |-> f[c].ticket, deadline |-> v, leaving |-> f[c].leaving, lag |-> f[c].lag]
  BY <1>1 DEF FrameType
<1>3. r \in FrameType
  BY <1>1, <1>2 DEF FrameType
<1>4. [f EXCEPT ![c].deadline = v] = [f EXCEPT ![c] = r]
  OBVIOUS
<1> HIDE DEF r
<1>5. [f EXCEPT ![c] = r] \in [Contexts -> FrameType] /\ [f EXCEPT ![c] = r][c] = r
  BY <1>3
<1> QED  BY <1>2, <1>4, <1>5

\* One assignment to the locals of a frame: what follows the rearm.
LEMMA SetLeaving ==
  ASSUME NEW f \in [Contexts -> FrameType], NEW c \in Contexts, NEW v \in BOOLEAN
  PROVE  LET g == [f EXCEPT ![c].leaving = v] IN
         /\ g \in [Contexts -> FrameType] /\ \A d \in Contexts : d # c => g[d] = f[d]
         /\ g[c].at = f[c].at /\ g[c].now = f[c].now /\ g[c].ticket = f[c].ticket
         /\ g[c].deadline = f[c].deadline /\ g[c].leaving = v /\ g[c].lag = f[c].lag
<1> DEFINE r == [f[c] EXCEPT !.leaving = v]
<1>1. f[c] \in FrameType
  OBVIOUS
<1>2. r = [at |-> f[c].at, now |-> f[c].now, ticket |-> f[c].ticket, deadline |-> f[c].deadline, leaving |-> v, lag |-> f[c].lag]
  BY <1>1 DEF FrameType
<1>3. r \in FrameType
  BY <1>1, <1>2 DEF FrameType
<1>4. [f EXCEPT ![c].leaving = v] = [f EXCEPT ![c] = r]
  OBVIOUS
<1> HIDE DEF r
<1>5. [f EXCEPT ![c] = r] \in [Contexts -> FrameType] /\ [f EXCEPT ![c] = r][c] = r
  BY <1>3
<1> QED  BY <1>2, <1>4, <1>5

\* One assignment to the locals of a frame: the age of the clock reading.
LEMMA SetLag ==
  ASSUME NEW f \in [Contexts -> FrameType], NEW c \in Contexts, NEW v \in 0..MaxTime
  PROVE  LET g == [f EXCEPT ![c].lag = v] IN
         /\ g \in [Contexts -> FrameType] /\ \A d \in Contexts : d # c => g[d] = f[d]
         /\ g[c].at = f[c].at /\ g[c].now = f[c].now /\ g[c].ticket = f[c].ticket
         /\ g[c].deadline = f[c].deadline /\ g[c].leaving = f[c].leaving /\ g[c].lag = v
<1> DEFINE r == [f[c] EXCEPT !.lag = v]
<1>1. f[c] \in FrameType
  OBVIOUS
<1>2. r = [at |-> f[c].at, now |-> f[c].now, ticket |-> f[c].ticket, deadline |-> f[c].deadline, leaving |-> f[c].leaving, lag |-> v]
  BY <1>1 DEF FrameType
<1>3. r \in FrameType
  BY <1>1, <1>2 DEF FrameType
<1>4. [f EXCEPT ![c].lag = v] = [f EXCEPT ![c] = r]
  OBVIOUS
<1> HIDE DEF r
<1>5. [f EXCEPT ![c] = r] \in [Contexts -> FrameType] /\ [f EXCEPT ![c] = r][c] = r
  BY <1>3
<1> QED  BY <1>2, <1>4, <1>5
-----------------------------------------------------------------------------
(* Numbers: the bounds, least deadlines, ticks in milliseconds. *)

\* The bounds, and where NEVER lies.
LEMMA Bounds ==
  /\ NEVER \in Nat /\ MaxTime \in Nat /\ MaxDelay \in Nat \ {0} /\ TicksPerMs \in Nat \ {0}
  /\ MaxTime < NEVER /\ MaxTime + MaxDelay + 1 < NEVER
  /\ NoTimer \in Nat /\ MaxDepth \in Nat /\ MaxEvents \in Nat
<1>1. NEVER \in Nat /\ TicksPerMs \in Nat
  BY TimerBoundsAssumption DEF NEVER
<1>2. NoTimer \in Nat
  <2> HIDE DEF NEVER
  <2> QED  BY <1>1 DEF NoTimer
<1> QED  BY <1>1, <1>2, TimerBoundsAssumption DEF NEVER

\* Min picks the least element.
LEMMA MinFacts ==
  ASSUME NEW T \in SUBSET Nat, T # {}
  PROVE  Min(T) \in T /\ \A y \in T : Min(T) <= y
BY NatMin DEF Min

\* Max of two numbers is one of them and at least both.
LEMMA MaxOfTwo ==
  ASSUME NEW a \in Int, NEW b \in Int
  PROVE  Max({a, b}) = IF a >= b THEN a ELSE b
<1>1. \E x \in {a, b} : \A y \in {a, b} : x >= y
  OBVIOUS
<1>2. Max({a, b}) \in {a, b} /\ \A y \in {a, b} : Max({a, b}) >= y
  BY <1>1 DEF Max
<1> QED  BY <1>2

\* Ticks in milliseconds: shifting by whole milliseconds, order, and the limits.
LEMMA DelayFacts ==
  /\ \A x \in Int : DelayMs(x) \in Int
  /\ \A x, n \in Int : n + DelayMs(x - n * TicksPerMs) = DelayMs(x)
  /\ \A x, y \in Int : x <= y => DelayMs(x) <= DelayMs(y)
  /\ \A x, n \in Int : x > n * TicksPerMs => DelayMs(x) >= n + 1
  /\ \A n \in Int : DelayMs(n * TicksPerMs) = n
<1> SUFFICES ASSUME NEW x \in Int, NEW y \in Int, NEW n \in Int
             PROVE  /\ DelayMs(x) \in Int
                    /\ n + DelayMs(x - n * TicksPerMs) = DelayMs(x)
                    /\ x <= y => DelayMs(x) <= DelayMs(y)
                    /\ x > n * TicksPerMs => DelayMs(x) >= n + 1
                    /\ DelayMs(n * TicksPerMs) = n
  OBVIOUS
<1> DEFINE T == TicksPerMs
           z == n * T
<1>1. T \in Nat \ {0} /\ z \in Int
  BY Bounds
<1>2. DelayMs(x) \in Int
  <2>1. x + T - 1 \in Int
    BY <1>1
  <2> QED  BY <1>1, <2>1, DivFacts DEF DelayMs
<1>3. n + DelayMs(x - z) = DelayMs(x)
  <2> DEFINE a == x - z + T - 1
  <2>1. a \in Int /\ a + z = x + T - 1
    BY <1>1
  <2>2. (a + n * T) \div T = (a \div T) + n
    <3> HIDE DEF a
    <3> QED  BY <1>1, <2>1, DivShift
  <2>3. a \div T \in Int
    <3> HIDE DEF a
    <3> QED  BY <1>1, <2>1, DivFacts
  <2> QED  BY <2>1, <2>2, <2>3 DEF DelayMs
<1>4. ASSUME x <= y PROVE DelayMs(x) <= DelayMs(y)
  <2>1. x + T - 1 \in Int /\ y + T - 1 \in Int /\ x + T - 1 <= y + T - 1
    BY <1>1, <1>4
  <2> QED  BY <1>1, <2>1, DivMonotone DEF DelayMs
<1>5. DelayMs(z) = n
  <2>1. T - 1 \in 0..(T - 1) /\ z + T - 1 = n * T + (T - 1)
    BY <1>1
  <2>2. (n * T + (T - 1)) \div T = n
    BY <1>1, <2>1, DivUnique
  <2> QED  BY <2>1, <2>2 DEF DelayMs
<1>6. ASSUME x > z PROVE DelayMs(x) >= n + 1
  <2> DEFINE m == n + 1
  <2>1. m \in Int /\ m * T = z + T /\ 0 \in 0..(T - 1)
    BY <1>1
  <2>2. m * T + 0 <= x + T - 1 /\ m * T + 0 \in Int /\ x + T - 1 \in Int
    BY <1>1, <1>6, <2>1
  <2>3. (m * T + 0) \div T = m
    <3> HIDE DEF m, T
    <3> QED  BY <1>1, <2>1, DivUnique
  <2>4. (m * T + 0) \div T <= (x + T - 1) \div T
    BY <1>1, <2>2, DivMonotone
  <2> QED  BY <2>3, <2>4 DEF DelayMs
<1> QED  BY <1>2, <1>3, <1>4, <1>5, <1>6

\* Every wanted deadline is a time.
LEMMA WantedTimes ==
  ASSUME due \in Times, timers \in [Wakers -> 0..NoTimer]
  PROVE  Wanted \subseteq Times /\ Wanted # {} /\ Earliest \in Wanted /\ \A e \in Wanted : Earliest <= e
<1>1. ASSUME NEW w \in Wakers PROVE DelayMs(timers[w]) \in Times
  <2>1. timers[w] \in Int /\ 0 \in Int /\ NoTimer \in Int /\ 0 <= timers[w] /\ timers[w] <= NoTimer
    BY Bounds
  <2>2. DelayMs(0 * TicksPerMs) = 0 /\ DelayMs(NEVER * TicksPerMs) = NEVER
    BY Bounds, DelayFacts
  <2>3. 0 * TicksPerMs = 0
    BY Bounds
  <2>4. DelayMs(0) <= DelayMs(timers[w]) /\ DelayMs(timers[w]) <= DelayMs(NoTimer)
    BY <2>1, DelayFacts
  <2>5. DelayMs(timers[w]) \in Int
    BY <2>1, Bounds, DelayFacts
  <2> QED  BY <2>2, <2>3, <2>4, <2>5, Bounds DEF NoTimer, Times
<1>2. Wanted \subseteq Times /\ Wanted # {}
  BY <1>1 DEF Wanted
<1>3. Wanted \in SUBSET Nat
  BY <1>2, Bounds DEF Times
<1>4. Earliest = Min(Wanted)
  BY DEF Earliest, Wanted
<1> QED  BY <1>2, <1>3, <1>4, MinFacts

\* The Embassy deadline is a time, and not after what remains in the queue once
\* the expired wakers are gone.
LEMMA EmbassyCovers ==
  ASSUME timers \in [Wakers -> 0..NoTimer], NEW now \in 0..MaxTime
  PROVE  /\ EmbassyDeadline(now) \in Times
         /\ \A w \in Wakers \ Expired(now) : EmbassyDeadline(now) <= DelayMs(timers[w])
<1> DEFINE S == {timers[w] : w \in Wakers \ Expired(now)} \cup {NoTimer}
           x == NextExpiration(now)
           z == now * TicksPerMs
<1>1. S \in SUBSET Nat /\ S # {}
  BY Bounds DEF Expired
<1>2. x \in S /\ \A y \in S : x <= y
  <2> HIDE DEF S
  <2>1. x = Min(S)
    BY DEF S, NextExpiration
  <2> QED  BY <1>1, <2>1, MinFacts
<1>3. z \in Int /\ now \in Int
  BY Bounds
<1>4. \A w \in Wakers : timers[w] \in Int /\ timers[w] <= NoTimer
  BY Bounds
<1>5. DelayMs(NoTimer) = NEVER
  BY Bounds, DelayFacts DEF NoTimer
<1>6. CASE x = NoTimer
  <2>1. EmbassyDeadline(now) = NEVER
    BY <1>6 DEF EmbassyDeadline
  <2>2. ASSUME NEW w \in Wakers \ Expired(now) PROVE timers[w] = NoTimer
    <3>1. timers[w] \in S
      OBVIOUS
    <3>2. NoTimer <= timers[w]
      BY <1>2, <1>6, <3>1
    <3> QED  BY <1>4, <3>2, Bounds
  <2> QED  BY <1>5, <2>1, <2>2, Bounds DEF Times
<1>7. CASE x # NoTimer
  <2>1. PICK v \in Wakers \ Expired(now) : x = timers[v]
    BY <1>2, <1>7
  <2>2. x > z /\ x \in Int
    BY <1>3, <1>4, <2>1 DEF Expired
  <2>3. x - z \in Int /\ x - z > 0
    BY <1>3, <2>2
  <2>4. 0 * TicksPerMs = 0
    BY Bounds
  <2>5. DelayMs(x - z) >= 0 + 1 /\ DelayMs(x - z) \in Int
    <3> HIDE DEF x, z
    <3> QED  BY <2>3, <2>4, DelayFacts
  <2>6. now + DelayMs(x - z) = DelayMs(x)
    <3> HIDE DEF x
    <3> QED  BY <1>3, <2>2, DelayFacts
  <2>7. EmbassyDeadline(now) = DelayMs(x)
    <3>1. Max({DelayMs(x - z), 1}) = DelayMs(x - z)
      <4> HIDE DEF x, z
      <4> QED  BY <2>5, MaxOfTwo
    <3> QED  BY <1>7, <2>6, <3>1 DEF EmbassyDeadline
  <2>8. ASSUME NEW w \in Wakers \ Expired(now) PROVE DelayMs(x) <= DelayMs(timers[w])
    <3>1. timers[w] \in S /\ timers[w] \in Int
      BY <1>4
    <3>2. x <= timers[w]
      BY <1>2, <3>1
    <3> HIDE DEF x
    <3> QED  BY <2>2, <3>1, <3>2, DelayFacts
  <2>9. DelayMs(x) \in Times
    <3>1. x <= NoTimer /\ NoTimer \in Int
      BY <1>4, <2>1, Bounds
    <3>2. DelayMs(x) <= NEVER
      <4> HIDE DEF x
      <4> QED  BY <1>5, <2>2, <3>1, DelayFacts
    <3>3. DelayMs(x) >= 0 /\ DelayMs(x) \in Int
      <4> HIDE DEF x, z
      <4> QED  BY <1>3, <2>2, <2>5, <2>6, DelayFacts
    <3> HIDE DEF x
    <3> QED  BY <3>2, <3>3, Bounds DEF Times
  <2> QED  BY <2>7, <2>8, <2>9
<1> QED  BY <1>6, <1>7

-----------------------------------------------------------------------------
(* Contexts. *)

\* Threads and interrupt levels are different contexts; the active one is on
\* the stack.
LEMMA ContextFacts ==
  ASSUME current \in Threads, depth \in 0..MaxDepth
  PROVE  /\ Active \in Contexts /\ Active \in Stack /\ Stack \subseteq Contexts
         /\ depth # 0 => Active = depth /\ depth \notin Threads
         /\ depth = 0 => Active = current /\ Active \in Threads
         /\ \A n \in 1..MaxDepth : n \in Contexts /\ n \notin Threads
         /\ Threads \subseteq Contexts
<1>1. MaxDepth \in Nat
  BY Bounds
<1> QED  BY <1>1, ThreadsAssumption DEF Active, Stack, Contexts

\* A claim is still to come: nothing is asked of the hardware yet.
LEMMA ActiveWaits ==
  ASSUME IInv, TypeOK', clock' = clock, generation' = generation,
         NEW c \in Contexts, Active' = c,
         \A d \in Contexts : d # c => frame'[d] = frame[d],
         frame'[c].at \in {"timer", "read", "claim"},
         frame'[c].at = "claim" => clock = frame'[c].now + frame'[c].lag,
         c \in Threads => ~frame'[c].leaving
  PROVE  FrameInv' /\ ProgramInv' /\ ClaimInv'
<1>1. current' \in Threads /\ depth' \in 0..MaxDepth
  BY DEF TypeOK
<1>2. c \in Stack'
  BY <1>1, ContextFacts DEF Stack, Active, Contexts
<1>3. Pending(c)' /\ ~Fresh(c)'
  BY DEF Pending, Fresh
<1>4. \A d \in Contexts : d # c => (Fresh(d)' <=> Fresh(d))
  BY DEF Fresh
<1>5. FrameInv'
  <2>1. Threads \subseteq Contexts
    BY DEF Contexts
  <2>2. \A t \in Threads : ~frame'[t].leaving
    BY <2>1 DEF IInv, FrameInv
  <2>3. \A d \in Contexts : frame'[d].at = "claim" => clock' = frame'[d].now + frame'[d].lag
    BY DEF IInv, FrameInv
  <2>4. \A d \in Contexts : frame'[d].at \in {"program", "check"} => frame'[d].ticket <= generation'
    BY DEF IInv, FrameInv
  <2>5. \A d, e \in Contexts : Fresh(d)' /\ Fresh(e)' => d = e
    BY <1>3, <1>4 DEF IInv, FrameInv
  <2> QED  BY <2>2, <2>3, <2>4, <2>5 DEF FrameInv
<1>6. ProgramInv'
  BY DEF ProgramInv, At
<1>7. ClaimInv'
  BY <1>2, <1>3 DEF ClaimInv
<1> QED  BY <1>5, <1>6, <1>7

\* What the actions use of the type invariant.
LEMMA Types ==
  ASSUME TypeOK
  PROVE  /\ clock \in Nat /\ clock <= MaxTime /\ due \in Times /\ timers \in [Wakers -> 0..NoTimer]
         /\ generation \in Nat /\ frame \in [Contexts -> FrameType]
         /\ current \in Threads /\ depth \in 0..MaxDepth /\ Active \in Contexts
         /\ \A c \in Contexts : /\ frame[c].ticket \in Nat /\ frame[c].now \in 0..MaxTime
                                /\ frame[c].lag \in 0..MaxTime /\ frame[c].deadline \in Times
<1>1. frame \in [Contexts -> FrameType]
  BY DEF TypeOK, FrameType, Stages
<1>2. current \in Threads /\ depth \in 0..MaxDepth
  BY DEF TypeOK
<1>3. Active \in Contexts
  BY <1>2, ContextFacts
<1>4. ASSUME NEW c \in Contexts
      PROVE  /\ frame[c].ticket \in Nat /\ frame[c].now \in 0..MaxTime
             /\ frame[c].lag \in 0..MaxTime /\ frame[c].deadline \in Times
  <2>1. frame[c] \in FrameType
    BY <1>1
  <2> QED  BY <2>1 DEF FrameType
<1> QED  BY <1>1, <1>2, <1>3, <1>4, Bounds DEF TypeOK

\* The frame of a new interrupt.
LEMMA IdleFrameFacts ==
  ASSUME NEW v \in Stages
  PROVE  LET r == [IdleFrame EXCEPT !.at = v] IN r \in FrameType /\ r.at = v /\ ~r.leaving
<1> DEFINE b == FALSE
           q == [at |-> v, now |-> 0, ticket |-> 0, deadline |-> NEVER, leaving |-> b, lag |-> 0]
           i == [at |-> "app", now |-> 0, ticket |-> 0, deadline |-> NEVER, leaving |-> b, lag |-> 0]
<1>1. [IdleFrame EXCEPT !.at = v] = q
  <2>1. IdleFrame = i
    BY Zenon DEF IdleFrame
  <2>2. [i EXCEPT !.at = v] = q
    <3> HIDE DEF b
    <3> QED  OBVIOUS
  <2> HIDE DEF i, q
  <2> QED  BY <2>1, <2>2
<1>2. 0 \in 0..MaxTime /\ 0 \in Nat /\ NEVER \in Times
  BY Bounds DEF Times
<1>3. q \in FrameType
  BY <1>2, Zenon DEF FrameType
<1>4. q.at = v /\ ~q.leaving
  BY Zenon
<1> HIDE DEF q
<1> QED  BY <1>1, <1>3, <1>4

\* IdleFrame is one of them.
LEMMA IdleFrameIsApp ==
  IdleFrame \in FrameType /\ IdleFrame.at = "app" /\ ~IdleFrame.leaving
<1> DEFINE b == FALSE
           i == [at |-> "app", now |-> 0, ticket |-> 0, deadline |-> NEVER, leaving |-> b, lag |-> 0]
<1>1. [IdleFrame EXCEPT !.at = "app"] = IdleFrame
  <2>1. IdleFrame = i
    BY Zenon DEF IdleFrame
  <2>2. [i EXCEPT !.at = "app"] = i
    <3> HIDE DEF b
    <3> QED  OBVIOUS
  <2> HIDE DEF i
  <2> QED  BY <2>1, <2>2
<1>2. "app" \in Stages
  BY DEF Stages
<1> QED  BY <1>1, <1>2, IdleFrameFacts

\* An action in which the active context changes the state and goes to the
\* start of rearm_timer.
LEMMA MoveToRead ==
  ASSUME IInv, MoveTo("read"), UNCHANGED <<clock, generation, armed, current, depth, armedFor, claimLag>>,
         due' \in Times, timers' \in [Wakers -> 0..NoTimer], events' \in 0..MaxEvents
  PROVE  IInv'
<1>1. "read" \in Stages
  BY DEF Stages
<1>2. TypeOK
  BY DEF IInv
<1>3. Active \in Contexts /\ Active' = Active /\ frame \in [Contexts -> FrameType]
  BY <1>2, Types DEF Active
<1> DEFINE c == Active
<1> HIDE DEF c
<1>4. /\ frame' \in [Contexts -> FrameType] /\ \A d \in Contexts : d # c => frame'[d] = frame[d]
      /\ frame'[c].at = "read" /\ frame'[c].leaving = frame[c].leaving
  BY <1>1, <1>3, SetAt DEF MoveTo, c
<1>5. TypeOK'
  BY <1>2, <1>3, <1>4 DEF TypeOK, FrameType, Stages, At, c
<1>6. c \in Threads => ~frame'[c].leaving
  BY <1>4 DEF IInv, FrameInv
<1>7. FrameInv' /\ ProgramInv' /\ ClaimInv'
  BY <1>3, <1>4, <1>5, <1>6, ActiveWaits DEF c
<1> QED  BY <1>5, <1>7 DEF IInv

\* An operation of a thread changes the deadlines and then rearms.
LEMMA OperationStep ==
  ASSUME IInv, NEW d \in Deadlines, Operation(d)
  PROVE  IInv'
<1>1. d \in Times /\ TypeOK
  BY Bounds DEF IInv, TypeOK, Deadlines, Times
<1>2. events' \in 0..MaxEvents
  BY <1>1, Bounds DEF Operation, Event, TypeOK
<1> QED  BY <1>1, <1>2, MoveToRead DEF Operation, TypeOK

\* The timer handler sets its deadlines and rearms.
LEMMA OnTimerInterruptStep ==
  ASSUME IInv, NEW d \in Deadlines, OnTimerInterrupt(d)
  PROVE  IInv'
<1>1. d \in Times /\ TypeOK
  BY Bounds DEF IInv, TypeOK, Deadlines, Times
<1> QED  BY <1>1, MoveToRead DEF OnTimerInterrupt, TypeOK

\* The Embassy driver files a waker and then rearms.
LEMMA ScheduleWakeStep ==
  ASSUME IInv, NEW w \in Wakers, NEW at \in 0..MaxTime * TicksPerMs, ScheduleWake(w, at)
  PROVE  IInv'
<1>1. TypeOK
  BY DEF IInv
<1>2. events' \in 0..MaxEvents
  BY <1>1, Bounds DEF ScheduleWake, Event, TypeOK
<1>3. at \in 0..NoTimer
  <2>1. timers[w] \in 0..NoTimer /\ at < timers[w] /\ MaxTime * TicksPerMs \in Nat
    BY <1>1, Bounds DEF TypeOK, ScheduleWake
  <2> QED  BY <2>1, Bounds
<1>4. timers' \in [Wakers -> 0..NoTimer]
  BY <1>1, <1>3 DEF TypeOK, ScheduleWake
<1> QED  BY <1>1, <1>2, <1>4, MoveToRead DEF ScheduleWake, TypeOK

\* The outermost epilogue may resume another thread.
LEMMA EpilogueStep ==
  ASSUME IInv, NEW t \in Threads, NEW d \in Times, Epilogue(t, d)
  PROVE  IInv'
<1>1. TypeOK
  BY DEF IInv
<1> DEFINE c == depth
           b == TRUE
           f == [frame EXCEPT ![c].at = "read"]
           g == [f EXCEPT ![c].leaving = b]
<1>2. "read" \in Stages /\ b \in BOOLEAN
  BY DEF Stages
<1>3. c \in Contexts /\ c \notin Threads /\ Active' = c /\ Active = c /\ frame \in [Contexts -> FrameType]
  BY <1>1, Types, ContextFacts, Bounds DEF Epilogue, Active, Contexts
<1>4. frame' = g
  BY DEF Epilogue
<1> HIDE DEF b, c
<1>5. f \in [Contexts -> FrameType] /\ f[c].at = "read" /\ \A e \in Contexts : e # c => f[e] = frame[e]
  BY <1>2, <1>3, SetAt
<1> HIDE DEF f
<1>6. g \in [Contexts -> FrameType] /\ g[c].at = f[c].at /\ \A e \in Contexts : e # c => g[e] = f[e]
  BY <1>2, <1>3, <1>5, SetLeaving
<1> HIDE DEF g
<1>7. /\ frame' \in [Contexts -> FrameType] /\ frame'[c].at = "read"
      /\ \A e \in Contexts : e # c => frame'[e] = frame[e]
  BY <1>4, <1>5, <1>6
<1>8. TypeOK'
  BY <1>1, <1>3, <1>7 DEF TypeOK, FrameType, Stages, At, Epilogue
<1>9. FrameInv' /\ ProgramInv' /\ ClaimInv'
  BY <1>3, <1>7, <1>8, ActiveWaits DEF Epilogue
<1> QED  BY <1>8, <1>9 DEF IInv

\* rearm_timer reads the clock.
LEMMA ReadNowStep ==
  ASSUME IInv, ReadNow
  PROVE  IInv'
<1>1. TypeOK
  BY DEF IInv
<1>2. "claim" \in Stages /\ 0 \in 0..MaxTime /\ clock \in 0..MaxTime /\ clock \in Nat
  BY <1>1, Bounds DEF Stages, TypeOK
<1> DEFINE c == Active
           f == [frame EXCEPT ![c].now = clock]
           g == [f EXCEPT ![c].lag = 0]
           h == [g EXCEPT ![c].at = "claim"]
<1>3. c \in Contexts /\ Active' = c /\ frame \in [Contexts -> FrameType]
  BY <1>1, Types DEF ReadNow, Active
<1>4. frame' = h
  BY DEF ReadNow
<1> HIDE DEF c
<1>5. /\ f \in [Contexts -> FrameType] /\ f[c].now = clock /\ f[c].leaving = frame[c].leaving
      /\ \A e \in Contexts : e # c => f[e] = frame[e]
  BY <1>2, <1>3, SetNow
<1> HIDE DEF f
<1>6. /\ g \in [Contexts -> FrameType] /\ g[c].now = f[c].now /\ g[c].lag = 0 /\ g[c].leaving = f[c].leaving
      /\ \A e \in Contexts : e # c => g[e] = f[e]
  BY <1>2, <1>3, <1>5, SetLag
<1> HIDE DEF g
<1>7. /\ h \in [Contexts -> FrameType] /\ h[c].now = g[c].now /\ h[c].lag = g[c].lag
      /\ h[c].leaving = g[c].leaving /\ h[c].at = "claim"
      /\ \A e \in Contexts : e # c => h[e] = g[e]
  BY <1>2, <1>3, <1>6, SetAt
<1> HIDE DEF h
<1>8. /\ frame' \in [Contexts -> FrameType] /\ frame'[c].at = "claim"
      /\ frame'[c].now = clock /\ frame'[c].lag = 0 /\ frame'[c].leaving = frame[c].leaving
      /\ \A e \in Contexts : e # c => frame'[e] = frame[e]
  BY <1>4, <1>5, <1>6, <1>7
<1>9. TypeOK'
  BY <1>1, <1>3, <1>8 DEF TypeOK, FrameType, Stages, At, ReadNow
<1>10. FrameInv' /\ ProgramInv' /\ ClaimInv'
  <2>1. clock = clock + 0 /\ (c \in Threads => ~frame'[c].leaving)
    BY <1>2, <1>8 DEF IInv, FrameInv
  <2> QED  BY <1>3, <1>8, <1>9, <2>1, ActiveWaits DEF ReadNow
<1> QED  BY <1>9, <1>10 DEF IInv

\* A new interrupt has a frame of its own on top of the stack.
LEMMA Entered ==
  ASSUME TypeOK, NEW v \in Stages, EnterAt(v), current' = current
  PROVE  LET c == depth + 1 IN
         /\ depth' = c /\ c \in 1..MaxDepth /\ c \in Contexts /\ c \notin Threads /\ Active' = c
         /\ frame' \in [Contexts -> FrameType] /\ frame'[c].at = v
         /\ \A e \in Contexts : e # c => frame'[e] = frame[e]
         /\ events' \in 0..MaxEvents /\ Stack' = Stack \cup {c} /\ c \notin Stack
<1> DEFINE c == depth + 1
           r == [IdleFrame EXCEPT !.at = v]
<1>1. depth' = c /\ c \in 1..MaxDepth /\ c \in Contexts /\ c \notin Threads /\ Active' = c
  BY Types, Bounds, ContextFacts, ThreadsAssumption DEF EnterAt, Active, Contexts
<1>2. Stack' = Stack \cup {c} /\ c \notin Stack
  BY <1>1, Types DEF Stack
<1>3. events' \in 0..MaxEvents
  BY Bounds DEF EnterAt, Event, TypeOK
<1>4. frame' = [frame EXCEPT ![c] = r]
  BY <1>1 DEF EnterAt
<1>5. r \in FrameType /\ r.at = v
  BY IdleFrameFacts
<1>6. frame \in [Contexts -> FrameType]
  BY Types
<1> HIDE DEF r, c
<1>7. /\ frame' \in [Contexts -> FrameType] /\ frame'[c].at = v
      /\ \A e \in Contexts : e # c => frame'[e] = frame[e]
  BY <1>1, <1>4, <1>5, <1>6
<1> QED  BY <1>1, <1>2, <1>3, <1>7 DEF c

\* The timer interrupt is entered.
LEMMA TimerInterruptStep ==
  ASSUME IInv, TimerInterrupt
  PROVE  IInv'
<1>1. TypeOK /\ "timer" \in Stages
  BY DEF IInv, Stages
<1> DEFINE c == depth + 1
<1>2. /\ depth' = c /\ c \in 1..MaxDepth /\ c \in Contexts /\ c \notin Threads /\ Active' = c
      /\ frame' \in [Contexts -> FrameType] /\ frame'[c].at = "timer"
      /\ \A e \in Contexts : e # c => frame'[e] = frame[e]
      /\ events' \in 0..MaxEvents
  BY <1>1, Entered DEF TimerInterrupt
<1> HIDE DEF c
<1>3. TypeOK'
  <2>1. depth' \in 0..MaxDepth /\ NEVER \in Times
    BY <1>2, Bounds DEF Times
  <2> QED  BY <1>1, <1>2, <2>1 DEF TypeOK, FrameType, Stages, At, TimerInterrupt
<1>4. FrameInv' /\ ProgramInv' /\ ClaimInv'
  BY <1>2, <1>3, ActiveWaits DEF TimerInterrupt
<1> QED  BY <1>3, <1>4 DEF IInv

\* Any other interrupt is entered.
LEMMA InterruptStep ==
  ASSUME IInv, Interrupt
  PROVE  IInv'
<1>1. TypeOK /\ "app" \in Stages
  BY DEF IInv, Stages
<1> SUFFICES ASSUME NEW c, c = depth + 1 PROVE IInv'
  OBVIOUS
<1>2. /\ depth' = c /\ c \in 1..MaxDepth /\ c \in Contexts /\ c \notin Threads /\ Active' = c
      /\ frame' \in [Contexts -> FrameType] /\ frame'[c].at = "app"
      /\ \A e \in Contexts : e # c => frame'[e] = frame[e]
      /\ events' \in 0..MaxEvents /\ Stack' = Stack \cup {c} /\ c \notin Stack
  BY <1>1, Entered DEF Interrupt
<1>3. TypeOK'
  <2>1. depth' \in 0..MaxDepth
    BY <1>2, Bounds
  <2> QED  BY <1>1, <1>2, <2>1 DEF TypeOK, FrameType, Stages, At, Interrupt
<1>4. /\ ~Fresh(c)' /\ ~Pending(c)'
      /\ \A d \in Contexts : d # c => (Fresh(d)' <=> Fresh(d)) /\ (Pending(d)' <=> Pending(d))
  BY <1>2 DEF Fresh, Pending, Interrupt
<1>5. FrameInv'
  <2>1. \A t \in Threads : ~frame'[t].leaving
    BY <1>2 DEF IInv, FrameInv, Contexts
  <2>2. \A d \in Contexts : frame'[d].at = "claim" => clock' = frame'[d].now + frame'[d].lag
    BY <1>2 DEF IInv, FrameInv, Interrupt
  <2>3. \A d \in Contexts : frame'[d].at \in {"program", "check"} => frame'[d].ticket <= generation'
    BY <1>2 DEF IInv, FrameInv, Interrupt
  <2>4. \A d, e \in Contexts : Fresh(d)' /\ Fresh(e)' => d = e
    BY <1>4 DEF IInv, FrameInv
  <2> QED  BY <2>1, <2>2, <2>3, <2>4 DEF FrameInv
<1>6. ProgramInv'
  BY <1>2 DEF ProgramInv, At
<1>7. ClaimInv'
  <2>1. Stack \subseteq Contexts
    BY <1>1, Types, ContextFacts
  <2> SUFFICES ASSUME \A d \in Stack' : ~Pending(d)'
               PROVE  /\ \A d \in Contexts \ Stack' : ~Fresh(d)'
                      /\ \A d \in Stack' : Fresh(d)' /\ frame'[d].at = "program" => Covers(frame[d].deadline)'
                      /\ (\A d \in Stack' : ~(Fresh(d)' /\ frame'[d].at = "program")) => Covers(armedFor)' /\ OnTime'
    BY DEF ClaimInv
  <2>2. \A d \in Stack : d # c /\ frame'[d] = frame[d] /\ ~Pending(d)
    BY <1>2, <1>4, <2>1
  <2>3. Wanted' = Wanted /\ armedFor' = armedFor /\ armed' = armed /\ claimLag' = claimLag /\ clock' = clock
    BY DEF Wanted, Interrupt
  <2>4. \A d \in Contexts \ Stack' : ~Fresh(d)'
    BY <1>2, <1>4, <2>2 DEF IInv, ClaimInv
  <2>5. ASSUME NEW d \in Stack', Fresh(d)', frame'[d].at = "program" PROVE Covers(frame[d].deadline)'
    BY <1>2, <1>4, <2>1, <2>2, <2>3, <2>5 DEF IInv, ClaimInv, Covers
  <2>6. ASSUME \A d \in Stack' : ~(Fresh(d)' /\ frame'[d].at = "program") PROVE Covers(armedFor)' /\ OnTime'
    <3>1. \A d \in Stack : ~(Fresh(d) /\ frame[d].at = "program")
      BY <1>2, <1>4, <2>1, <2>2, <2>6
    <3> QED  BY <2>2, <2>3, <3>1 DEF IInv, ClaimInv, Covers, OnTime
  <2> QED  BY <2>4, <2>5, <2>6
<1> QED  BY <1>3, <1>5, <1>6, <1>7 DEF IInv

\* The timer handler wakes what is due.
LEMMA WakeSleepersStep ==
  ASSUME IInv, NEW d \in Deadlines, WakeSleepers(d)
  PROVE  IInv'
<1>1. TypeOK /\ d \in Times
  BY Bounds DEF IInv, TypeOK, Deadlines, Times
<1>2. TypeOK'
  BY <1>1 DEF TypeOK, WakeSleepers, At, Active
<1>3. FrameInv'
  BY DEF IInv, FrameInv, Fresh, WakeSleepers
<1>4. ProgramInv'
  BY DEF IInv, ProgramInv, Fresh, At, Active, WakeSleepers
<1>5. ASSUME NEW x \in Times, Covers(x) PROVE Covers(x)'
  <2>1. Covers(x)' <=> x <= due' /\ \A w \in Wakers : x <= DelayMs(timers[w])
    BY DEF Covers, Wanted, WakeSleepers
  <2>2. x <= due /\ \A w \in Wakers : x <= DelayMs(timers[w])
    BY <1>5 DEF Covers, Wanted
  <2>3. due' = d /\ d > due /\ due \in Int /\ d \in Int /\ x \in Int
    BY <1>1, Bounds DEF WakeSleepers, TypeOK, Times
  <2> QED  BY <2>1, <2>2, <2>3
<1>6. ASSUME OnTime PROVE OnTime'
  <2>1. Wanted' = {d} \cup {DelayMs(timers[w]) : w \in Wakers} /\ due \in Wanted /\ UNCHANGED <<clock, armed, claimLag>>
    BY DEF Wanted, WakeSleepers
  <2>2. ASSUME NEW e \in Wanted'
        PROVE  armed <= e + claimLag \/ armed <= clock + 1 + claimLag
    <3>1. CASE e \in Wanted
      BY <1>6, <3>1 DEF OnTime
    <3>2. CASE e = d
      <4>1. armed <= due + claimLag \/ armed <= clock + 1 + claimLag
        BY <1>6, <2>1 DEF OnTime
      <4>2. d > due /\ due \in Int /\ d \in Int /\ armed \in Int /\ claimLag \in Int
        BY <1>1, Bounds DEF WakeSleepers, TypeOK, Times
      <4>3. clock + 1 + claimLag \in Int
        BY <1>1, Bounds DEF TypeOK
      <4> QED  BY <3>2, <4>1, <4>2, <4>3
    <3> QED  BY <2>1, <3>1, <3>2 DEF Wanted
  <2> QED  BY <2>1, <2>2 DEF OnTime
<1>7. ClaimInv'
  <2>1. /\ Stack' = Stack /\ frame' = frame /\ armedFor' = armedFor
        /\ \A c : (Fresh(c)' <=> Fresh(c)) /\ (Pending(c)' <=> Pending(c))
    BY DEF Stack, Fresh, Pending, WakeSleepers
  <2>2. armedFor \in Times /\ \A c \in Stack : frame[c].deadline \in Times
    BY <1>1, Types, ContextFacts DEF TypeOK
  <2>3. \A c \in Stack : Covers(frame[c].deadline) => Covers(frame[c].deadline)'
    BY <1>5, <2>1, <2>2 DEF Covers
  <2>4. Covers(armedFor) => Covers(armedFor)'
    BY <1>5, <2>1, <2>2 DEF Covers
  <2> QED  BY <1>6, <2>1, <2>3, <2>4 DEF IInv, ClaimInv
<1> QED  BY <1>2, <1>3, <1>4, <1>7 DEF IInv

\* A reading of the clock gets older; nothing else in a frame changes.
LEMMA Aged ==
  ASSUME NEW r \in FrameType, r.lag < MaxTime
  PROVE  LET q == [r EXCEPT !.lag = @ + 1] IN
         /\ q \in FrameType /\ q.at = r.at /\ q.now = r.now /\ q.ticket = r.ticket
         /\ q.deadline = r.deadline /\ q.leaving = r.leaving /\ q.lag = r.lag + 1
<1> DEFINE q == [r EXCEPT !.lag = r.lag + 1]
<1>1. r.lag \in 0..MaxTime /\ r.lag + 1 \in 0..MaxTime
  BY Bounds DEF FrameType
<1>2. q = [at |-> r.at, now |-> r.now, ticket |-> r.ticket, deadline |-> r.deadline, leaving |-> r.leaving, lag |-> r.lag + 1]
  BY DEF FrameType
<1>3. q \in FrameType
  BY <1>1, <1>2 DEF FrameType
<1> QED  BY <1>2, <1>3

\* Time passes outside rearm_timer.
LEMMA TickStep ==
  ASSUME IInv, Tick
  PROVE  IInv'
<1>1. TypeOK
  BY DEF IInv
<1>2. frame \in [Contexts -> FrameType] /\ clock \in Nat /\ clock < MaxTime /\ clock' = clock + 1 /\ MaxTime \in Nat
  BY <1>1, Types, Bounds DEF Tick
<1>3. ASSUME NEW c \in Contexts
      PROVE  /\ frame'[c] \in FrameType /\ frame'[c].at = frame[c].at /\ frame'[c].now = frame[c].now
             /\ frame'[c].ticket = frame[c].ticket /\ frame'[c].deadline = frame[c].deadline
             /\ frame'[c].leaving = frame[c].leaving
             /\ frame[c].at = "claim" => clock = frame[c].now + frame[c].lag /\ frame'[c].lag = frame[c].lag + 1
  <2>1. CASE frame[c].at = "claim"
    <3>1. clock = frame[c].now + frame[c].lag
      BY <2>1 DEF IInv, FrameInv
    <3>2. frame[c].lag < MaxTime
      BY <1>1, <1>2, <3>1, Types
    <3>3. frame[c] \in FrameType /\ frame'[c] = [frame[c] EXCEPT !.lag = @ + 1]
      BY <1>2, <2>1 DEF Tick
    <3> QED  BY <3>1, <3>2, <3>3, Aged
  <2>2. CASE frame[c].at # "claim"
    BY <1>2, <2>2 DEF Tick
  <2> QED  BY <2>1, <2>2
<1>4. frame' \in [Contexts -> FrameType]
  <2>1. frame' = [c \in Contexts |-> frame'[c]]
    BY DEF Tick
  <2> QED  BY <1>3, <2>1
<1>5. Active \in Contexts /\ Active' = Active /\ frame[Active].at \in {"app", "timer"}
  BY <1>1, Types DEF Tick, Active
<1>6. frame'[Active].at = frame[Active].at
  BY <1>3, <1>5
<1>7. TypeOK'
  BY <1>1, <1>2, <1>4, <1>5, <1>6 DEF TypeOK, FrameType, Stages, At, Tick
<1>8. \A c \in Contexts : (Fresh(c)' <=> Fresh(c)) /\ (Pending(c)' <=> Pending(c))
  BY <1>3 DEF Fresh, Pending, Tick
<1>9. FrameInv'
  <2>1. \A t \in Threads : ~frame'[t].leaving
    BY <1>3 DEF IInv, FrameInv, Contexts
  <2>2. ASSUME NEW c \in Contexts, frame'[c].at = "claim" PROVE clock' = frame'[c].now + frame'[c].lag
    BY <1>1, <1>2, <1>3, <2>2, Types
  <2>3. \A c \in Contexts : frame'[c].at \in {"program", "check"} => frame'[c].ticket <= generation'
    BY <1>3 DEF IInv, FrameInv, Tick
  <2>4. \A c, d \in Contexts : Fresh(c)' /\ Fresh(d)' => c = d
    BY <1>8 DEF IInv, FrameInv
  <2> QED  BY <2>1, <2>2, <2>3, <2>4 DEF FrameInv
<1>10. ProgramInv'
  BY <1>5, <1>6 DEF ProgramInv, At
<1>11. ClaimInv'
  <2>1. Stack \subseteq Contexts /\ Stack' = Stack /\ Wanted' = Wanted /\ armedFor' = armedFor
    BY <1>1, Types, ContextFacts DEF Stack, Wanted, Tick
  <2>2. OnTime => OnTime'
    <3> SUFFICES ASSUME OnTime, NEW e \in Wanted
                 PROVE  armed <= e + claimLag \/ armed <= clock + 1 + 1 + claimLag
      BY <1>2, <2>1 DEF OnTime, Tick
    <3>1. armed \in Int /\ claimLag \in Int
      BY <1>1, Bounds DEF TypeOK, Times
    <3>2. armed <= e + claimLag \/ armed <= clock + 1 + claimLag
      BY DEF OnTime
    <3> QED  BY <1>2, <3>1, <3>2
  <2>3. Covers(armedFor) => Covers(armedFor)'
    BY <2>1 DEF Covers
  <2>4. \A c \in Contexts : Covers(frame[c].deadline) => Covers(frame[c].deadline)'
    BY <1>3, <2>1 DEF Covers
  <2> QED  BY <1>3, <1>8, <2>1, <2>2, <2>3, <2>4 DEF IInv, ClaimInv
<1> QED  BY <1>7, <1>9, <1>10, <1>11 DEF IInv

\* rearm_timer claims a ticket and computes the deadline.
LEMMA ClaimStep ==
  ASSUME IInv, Claim
  PROVE  IInv'
<1>1. TypeOK /\ "program" \in Stages
  BY DEF IInv, Stages
<1> SUFFICES ASSUME NEW c, c = Active, NEW n, n = frame[c].now, NEW x, x = Min({due, EmbassyDeadline(n)}),
                    NEW k, k = generation + 1
             PROVE  IInv'
  OBVIOUS
<1>2. c \in Contexts /\ Active' = c /\ frame \in [Contexts -> FrameType] /\ n \in 0..MaxTime /\ k \in Nat
  BY <1>1, Types DEF Claim, Active
<1>3. EmbassyDeadline(n) \in Times /\ \A w \in Wakers \ Expired(n) : EmbassyDeadline(n) <= DelayMs(timers[w])
  BY <1>1, <1>2, Types, EmbassyCovers
<1>4. x \in Times /\ x <= due /\ x <= EmbassyDeadline(n)
  <2>1. {due, EmbassyDeadline(n)} \in SUBSET Nat /\ {due, EmbassyDeadline(n)} # {}
    BY <1>1, <1>3, Types, Bounds DEF Times
  <2>2. x \in {due, EmbassyDeadline(n)} /\ \A y \in {due, EmbassyDeadline(n)} : x <= y
    BY <2>1, MinFacts
  <2> QED  BY <1>1, <1>3, <2>2, Types
<1> DEFINE f == [frame EXCEPT ![c].ticket = k]
           g == [f EXCEPT ![c].deadline = x]
           h == [g EXCEPT ![c].at = "program"]
<1>5. frame' = h
  BY DEF Claim, NextGeneration
<1>6. /\ f \in [Contexts -> FrameType] /\ f[c].ticket = k /\ f[c].leaving = frame[c].leaving
      /\ f[c].now = frame[c].now /\ \A e \in Contexts : e # c => f[e] = frame[e]
  BY <1>2, SetTicket
<1> HIDE DEF f
<1>7. /\ g \in [Contexts -> FrameType] /\ g[c].ticket = f[c].ticket /\ g[c].leaving = f[c].leaving
      /\ g[c].now = f[c].now /\ g[c].deadline = x /\ \A e \in Contexts : e # c => g[e] = f[e]
  BY <1>2, <1>4, <1>6, SetDeadline
<1> HIDE DEF g
<1>8. /\ h \in [Contexts -> FrameType] /\ h[c].ticket = g[c].ticket /\ h[c].leaving = g[c].leaving
      /\ h[c].now = g[c].now /\ h[c].deadline = g[c].deadline /\ h[c].at = "program"
      /\ \A e \in Contexts : e # c => h[e] = g[e]
  BY <1>1, <1>2, <1>7, SetAt
<1> HIDE DEF h
<1>9. /\ frame' \in [Contexts -> FrameType] /\ frame'[c].ticket = k /\ frame'[c].leaving = frame[c].leaving
      /\ frame'[c].now = n /\ frame'[c].deadline = x /\ frame'[c].at = "program"
      /\ \A e \in Contexts : e # c => frame'[e] = frame[e]
  BY <1>5, <1>6, <1>7, <1>8
<1>10. /\ generation' = k /\ claimLag' = frame[c].lag /\ clock = n + frame[c].lag
       /\ timers' = [w \in Wakers |-> IF w \in Expired(n) THEN NoTimer ELSE timers[w]]
  BY <1>2 DEF Claim, NextGeneration, IInv, FrameInv, At
<1>11. timers' \in [Wakers -> 0..NoTimer]
  BY <1>1, <1>10, Types, Bounds
<1>12. TypeOK'
  <2>1. claimLag' \in 0..MaxTime
    BY <1>1, <1>2, <1>10, Types
  <2> QED  BY <1>1, <1>2, <1>9, <1>10, <1>11, <2>1 DEF TypeOK, FrameType, Stages, At, Claim
<1>13. Fresh(c)' /\ \A e \in Contexts : e # c => ~Fresh(e)'
  <2>1. Fresh(c)'
    BY <1>9, <1>10 DEF Fresh
  <2>2. ASSUME NEW e \in Contexts, e # c PROVE ~Fresh(e)'
    <3>1. frame'[e].at \in {"program", "check"} => frame'[e].ticket <= generation
      BY <1>9, <2>2 DEF IInv, FrameInv
    <3>2. frame'[e].ticket \in Nat /\ generation \in Nat
      BY <1>1, <1>9, <2>2, Types
    <3> QED  BY <1>10, <3>1, <3>2 DEF Fresh
  <2> QED  BY <2>1, <2>2
<1>14. FrameInv'
  <2>1. \A t \in Threads : ~frame'[t].leaving
    BY <1>9 DEF IInv, FrameInv, Contexts
  <2>2. \A e \in Contexts : frame'[e].at = "claim" => clock' = frame'[e].now + frame'[e].lag
    BY <1>9 DEF IInv, FrameInv, Claim
  <2>3. ASSUME NEW e \in Contexts, frame'[e].at \in {"program", "check"} PROVE frame'[e].ticket <= generation'
    <3>1. generation \in Nat /\ frame[e].ticket \in Nat
      BY <1>1, Types
    <3>2. e # c => frame[e].ticket <= generation
      BY <1>9, <2>3 DEF IInv, FrameInv
    <3> QED  BY <1>9, <1>10, <3>1, <3>2
  <2>4. \A d, e \in Contexts : Fresh(d)' /\ Fresh(e)' => d = e
    BY <1>13
  <2> QED  BY <2>1, <2>2, <2>3, <2>4 DEF FrameInv
<1>15. ProgramInv'
  BY <1>2, <1>9, <1>10 DEF ProgramInv, Claim
<1>16. ClaimInv'
  <2>1. c \in Stack' /\ Stack' \subseteq Contexts
    <3>1. Stack' = Stack
      BY DEF Stack, Claim
    <3>2. Active \in Stack /\ Stack \subseteq Contexts
      BY <1>1, Types, ContextFacts
    <3> QED  BY <3>1, <3>2
  <2>2. Covers(x)'
    <3> SUFFICES ASSUME NEW e \in Wanted' PROVE x <= e
      BY DEF Covers
    <3>1. CASE e = due'
      BY <1>4, <3>1 DEF Claim
    <3>2. CASE e # due'
      <4>1. PICK w \in Wakers : e = DelayMs(timers'[w])
        BY <3>2 DEF Wanted
      <4>2. CASE w \in Expired(n)
        <5>1. DelayMs(NoTimer) = NEVER
          BY Bounds, DelayFacts DEF NoTimer
        <5> QED  BY <1>4, <1>10, <4>1, <4>2, <5>1, Bounds DEF Times
      <4>3. CASE w \notin Expired(n)
        <5>1. e = DelayMs(timers[w]) /\ EmbassyDeadline(n) <= e /\ timers[w] \in Int
          BY <1>1, <1>3, <1>10, <4>1, <4>3, Types, Bounds
        <5>2. e \in Int
          BY <5>1, DelayFacts
        <5> QED  BY <1>3, <1>4, <5>1, <5>2, Bounds DEF Times
      <4> QED  BY <4>2, <4>3
    <3> QED  BY <3>1, <3>2
  <2>3. \A d \in Stack' : Fresh(d)' /\ frame'[d].at = "program" => Covers(frame[d].deadline)'
    BY <1>9, <1>13, <2>1, <2>2 DEF Covers
  <2> QED  BY <1>9, <1>13, <2>1, <2>3 DEF ClaimInv
<1> QED  BY <1>12, <1>14, <1>15, <1>16 DEF IInv

\* Programming what the last claim asked for is on time; the timer is never
\* set to the present.
LEMMA ProgramStep ==
  ASSUME IInv, Program
  PROVE  IInv'
<1>1. TypeOK /\ "check" \in Stages
  BY DEF IInv, Stages
<1> SUFFICES ASSUME NEW c, c = Active, NEW x, x = frame[c].deadline, NEW n, n = frame[c].now
             PROVE  IInv'
  OBVIOUS
<1>2. /\ c \in Contexts /\ Active' = c /\ c \in Stack /\ Stack' = Stack /\ Stack \subseteq Contexts
      /\ x \in Times /\ n \in 0..MaxTime /\ frame[c].at = "program"
  BY <1>1, Types, ContextFacts DEF Program, Active, Stack, At
<1>3. /\ frame' \in [Contexts -> FrameType] /\ \A e \in Contexts : e # c => frame'[e] = frame[e]
      /\ frame'[c].at = "check" /\ frame'[c].ticket = frame[c].ticket /\ frame'[c].leaving = frame[c].leaving
  BY <1>1, <1>2, Types, SetAt DEF Program, MoveTo
<1>4. /\ armed' = IF x = NEVER THEN NEVER ELSE clock + Delay(x - n)
      /\ armedFor' = x
  BY DEF Program
<1>5. armed' \in Times /\ armed' > clock
  BY <1>1, <1>2, <1>4, Types, Bounds DEF Delay, Times
<1>6. TypeOK'
  BY <1>1, <1>2, <1>3, <1>4, <1>5 DEF TypeOK, FrameType, Stages, Program
<1>7. \A e \in Contexts : (Fresh(e)' <=> Fresh(e)) /\ (Pending(e)' <=> Pending(e))
  BY <1>2, <1>3 DEF Fresh, Pending, Program
<1>8. FrameInv'
  <2>1. \A t \in Threads : ~frame'[t].leaving
    BY <1>3 DEF IInv, FrameInv, Contexts
  <2>2. \A e \in Contexts : frame'[e].at = "claim" => clock' = frame'[e].now + frame'[e].lag
    BY <1>3 DEF IInv, FrameInv, Program
  <2>3. \A e \in Contexts : frame'[e].at \in {"program", "check"} => frame'[e].ticket <= generation'
    BY <1>2, <1>3 DEF IInv, FrameInv, Program
  <2>4. \A d, e \in Contexts : Fresh(d)' /\ Fresh(e)' => d = e
    BY <1>7 DEF IInv, FrameInv
  <2> QED  BY <2>1, <2>2, <2>3, <2>4 DEF FrameInv
<1>9. ProgramInv'
  BY <1>2, <1>3 DEF ProgramInv, At
<1>10. ClaimInv'
  <2> SUFFICES ASSUME \A d \in Stack : ~Pending(d)
               PROVE  /\ \A d \in Contexts \ Stack : ~Fresh(d)
                      /\ \A d \in Stack : Fresh(d) => frame'[d].at = "check"
                      /\ Covers(x)' /\ OnTime'
    BY <1>2, <1>4, <1>7 DEF ClaimInv, Covers
  <2>1. Fresh(c)
    BY <1>2 DEF Fresh, Pending
  <2>2. \A d \in Contexts : Fresh(d) => d = c
    BY <1>2, <2>1 DEF IInv, FrameInv
  <2>3. Covers(x) /\ clock = n + claimLag
    BY <1>2, <2>1 DEF IInv, ClaimInv, ProgramInv, At
  <2>4. Wanted' = Wanted /\ clock' = clock /\ claimLag' = claimLag
    BY DEF Wanted, Program
  <2>5. ASSUME NEW e \in Wanted PROVE armed' <= e + claimLag \/ armed' <= clock + 1 + claimLag
    <3>1. e \in Times /\ x <= e
      BY <1>1, <2>3, Types, WantedTimes DEF Covers
    <3>2. claimLag \in Nat /\ clock \in Nat /\ n \in Nat /\ x \in Nat /\ e \in Nat /\ e <= NEVER
      BY <1>1, <1>2, <3>1, Types, Bounds DEF TypeOK, Times
    <3>3. CASE x = NEVER
      BY <1>4, <3>1, <3>2, <3>3, Bounds
    <3>4. CASE x # NEVER
      <4>1. armed' = clock + Delay(x - n)
        BY <1>4, <3>4
      <4>2. Delay(x - n) = 1 \/ (Delay(x - n) \in Int /\ Delay(x - n) <= x - n)
        BY <3>2, Bounds DEF Delay
      <4> QED  BY <2>3, <3>1, <3>2, <4>1, <4>2
    <3> QED  BY <3>3, <3>4
  <2>6. Covers(x)' /\ OnTime'
    BY <2>3, <2>4, <2>5 DEF Covers, OnTime
  <2> QED  BY <1>2, <1>3, <2>1, <2>2, <2>6 DEF IInv, ClaimInv
<1> QED  BY <1>6, <1>8, <1>9, <1>10 DEF IInv

\* A rearm returns only with the last ticket, and then nobody holds it; with an
\* older one it starts again.
LEMMA CheckTicketStep ==
  ASSUME IInv, CheckTicket
  PROVE  IInv'
<1>1. TypeOK
  BY DEF IInv
<1> SUFFICES ASSUME NEW c, c = Active PROVE IInv'
  OBVIOUS
<1>2. /\ c \in Contexts /\ c \in Stack /\ Stack \subseteq Contexts /\ frame \in [Contexts -> FrameType]
      /\ frame[c].at = "check" /\ depth \in 0..MaxDepth /\ current' = current /\ clock' = clock
      /\ generation' = generation
  BY <1>1, Types, ContextFacts DEF CheckTicket, At
<1>3. CASE frame[c].ticket # generation
  <2>1. MoveTo("read") /\ depth' = depth
    BY <1>3 DEF CheckTicket
  <2> QED  BY <1>1, <2>1, MoveToRead DEF CheckTicket, TypeOK
<1>4. CASE frame[c].ticket = generation
  <2>1. Fresh(c) /\ \A e \in Contexts : Fresh(e) => e = c
    BY <1>2, <1>4 DEF Fresh, IInv, FrameInv
  <2>2. frame' = [frame EXCEPT ![c] = IdleFrame] /\ depth' = IF frame[c].leaving THEN depth - 1 ELSE depth
    BY <1>4 DEF CheckTicket, Return
  <2>3. /\ frame' \in [Contexts -> FrameType] /\ frame'[c] = IdleFrame
        /\ \A e \in Contexts : e # c => frame'[e] = frame[e]
    BY <1>2, <2>2, IdleFrameIsApp
  <2>4. /\ \A e \in Contexts : ~Fresh(e)' /\ (Pending(e)' => Pending(e))
        /\ \A e \in Contexts : e # c => (Pending(e) => Pending(e)')
    BY <1>2, <2>1, <2>3, IdleFrameIsApp DEF Fresh, Pending
  <2>5. depth' \in 0..MaxDepth /\ Stack' \subseteq Stack /\ Stack \subseteq Stack' \cup {c}
    <3>1. CASE frame[c].leaving
      <4>1. c = depth /\ depth # 0
        BY <1>1, <3>1, Types, ContextFacts DEF IInv, FrameInv
      <4> QED  BY <1>2, <2>2, <3>1, <4>1, Bounds DEF Stack
    <3>2. CASE ~frame[c].leaving
      BY <1>2, <2>2, <3>2 DEF Stack
    <3> QED  BY <3>1, <3>2
  <2>6. Active' \in Contexts
    BY <1>1, <1>2, <2>5, Types, ContextFacts, Bounds DEF Active, Contexts
  <2>7. TypeOK'
    <3>1. ~(At("check") /\ frame[Active].ticket = generation)'
      BY <2>4, <2>6 DEF Fresh, At
    <3> QED  BY <1>1, <2>3, <2>5, <3>1 DEF TypeOK, FrameType, Stages, CheckTicket
  <2>8. FrameInv'
    <3>1. \A t \in Threads : ~frame'[t].leaving
      BY <2>3, IdleFrameIsApp DEF IInv, FrameInv, Contexts
    <3>2. \A e \in Contexts : frame'[e].at = "claim" => clock' = frame'[e].now + frame'[e].lag
      BY <1>2, <2>3, IdleFrameIsApp DEF IInv, FrameInv
    <3>3. \A e \in Contexts : frame'[e].at \in {"program", "check"} => frame'[e].ticket <= generation'
      BY <1>2, <2>3, IdleFrameIsApp DEF IInv, FrameInv
    <3> QED  BY <2>4, <3>1, <3>2, <3>3 DEF FrameInv
  <2>9. ProgramInv'
    BY <2>4, <2>6 DEF ProgramInv
  <2>10. ClaimInv'
    <3> SUFFICES ASSUME \A d \in Stack' : ~Pending(d)' PROVE Covers(armedFor)' /\ OnTime'
      BY <1>2, <2>4, <2>5 DEF ClaimInv
    <3>1. \A d \in Stack : ~Pending(d)
      BY <1>2, <1>4, <2>4, <2>5 DEF Pending
    <3>2. \A d \in Stack : ~(Fresh(d) /\ frame[d].at = "program")
      BY <1>2, <2>1
    <3>3. Covers(armedFor) /\ OnTime
      BY <3>1, <3>2 DEF IInv, ClaimInv
    <3> QED  BY <3>3 DEF Covers, OnTime, Wanted, CheckTicket
  <2> QED  BY <2>7, <2>8, <2>9, <2>10 DEF IInv
<1> QED  BY <1>3, <1>4

-----------------------------------------------------------------------------
(* The invariant and what it implies. *)

\* Nothing is due and nobody rearms when the scheduler starts.
LEMMA Initially == Init => IInv
<1> SUFFICES ASSUME Init PROVE IInv
  OBVIOUS
<1>1. /\ 0 \in 0..MaxTime /\ 0 \in 0..MaxDepth /\ 0 \in 0..MaxEvents /\ 0 \in Nat
      /\ NEVER \in Times /\ NoTimer \in 0..NoTimer
  BY Bounds DEF Times
<1>2. frame \in [Contexts -> FrameType] /\ \A c \in Contexts : frame[c].at = "app" /\ ~frame[c].leaving
  BY IdleFrameIsApp DEF Init
<1>3. current \in Threads /\ depth \in 0..MaxDepth
  BY <1>1 DEF Init
<1>4. Active \in Contexts /\ Stack \subseteq Contexts
  BY <1>3, ContextFacts
<1>5. timers \in [Wakers -> 0..NoTimer]
  BY <1>1 DEF Init
<1>6. TypeOK
  BY <1>1, <1>2, <1>3, <1>4, <1>5 DEF TypeOK, FrameType, Stages, At, Init
<1>7. \A c \in Contexts : ~Fresh(c) /\ ~Pending(c)
  BY <1>2 DEF Fresh, Pending
<1>8. FrameInv /\ ProgramInv
  BY <1>2, <1>4, <1>7 DEF FrameInv, ProgramInv, Contexts
<1>9. Covers(armedFor) /\ OnTime
  <2>1. DelayMs(NoTimer) = NEVER
    BY Bounds, DelayFacts DEF NoTimer
  <2>2. Wanted \subseteq {NEVER}
    BY <2>1 DEF Wanted, Init
  <2> QED  BY <2>2, Bounds DEF Covers, OnTime, Init
<1>10. ClaimInv
  BY <1>4, <1>7, <1>9 DEF ClaimInv
<1> QED  BY <1>6, <1>8, <1>10 DEF IInv

\* Every step keeps the invariant.
LEMMA Inductive == IInv /\ [Next]_vars => IInv'
<1> SUFFICES ASSUME IInv, [Next]_vars PROVE IInv'
  OBVIOUS
<1>1. CASE Tick
  BY <1>1, TickStep
<1>2. CASE Compute \/ UNCHANGED vars
  <2>1. UNCHANGED vars
    BY <1>2 DEF Compute
  <2>2. TypeOK'
    BY <2>1 DEF IInv, TypeOK, vars, At, Active
  <2>3. FrameInv' /\ ProgramInv'
    BY <2>1 DEF IInv, FrameInv, ProgramInv, Fresh, vars, At, Active
  <2>4. ClaimInv'
    BY <2>1 DEF IInv, ClaimInv, Fresh, Pending, Covers, OnTime, Wanted, Stack, vars
  <2> QED  BY <2>2, <2>3, <2>4 DEF IInv
<1>3. CASE Interrupt
  BY <1>3, InterruptStep
<1>4. CASE TimerInterrupt
  BY <1>4, TimerInterruptStep
<1>5. CASE RearmTimer
  BY <1>5, ReadNowStep, ClaimStep, ProgramStep, CheckTicketStep DEF RearmTimer
<1>6. ASSUME NEW d \in Deadlines, Operation(d) \/ WakeSleepers(d) \/ OnTimerInterrupt(d) PROVE IInv'
  BY <1>6, OperationStep, WakeSleepersStep, OnTimerInterruptStep
<1>7. ASSUME NEW t \in Threads, NEW d \in Deadlines \cup {due}, Epilogue(t, d) PROVE IInv'
  <2>1. d \in Times
    BY Bounds DEF IInv, TypeOK, Deadlines, Times
  <2> QED  BY <1>7, <2>1, EpilogueStep
<1>8. ASSUME NEW w \in Wakers, NEW at \in 0..MaxTime * TicksPerMs, ScheduleWake(w, at) PROVE IInv'
  BY <1>8, ScheduleWakeStep
<1> QED  BY <1>1, <1>2, <1>3, <1>4, <1>5, <1>6, <1>7, <1>8 DEF Next

\* The invariant holds in every state of every behaviour.
THEOREM Invariance == Spec => []IInv
BY Initially, Inductive, PTL DEF Spec

\* Types, and arm_timer is never given a delay of zero.
THEOREM TypeCorrect == Spec => []TypeOK
<1>1. IInv => TypeOK
  BY DEF IInv
<1> QED  BY <1>1, Invariance, PTL

\* In application code nobody on the stack is inside rearm_timer, so that the
\* hardware covers every deadline on time.
LEMMA QuiescentCovered ==
  ASSUME IInv, Quiescent
  PROVE  /\ Covers(armedFor) /\ OnTime /\ TypeOK
         /\ Earliest \in Wanted /\ Earliest \in Times
<1>1. TypeOK
  BY DEF IInv
<1>2. Stack = {current} /\ Active = current
  BY DEF Stack, Quiescent, Active
<1>3. ~Pending(current) /\ ~Fresh(current)
  BY <1>2 DEF Quiescent, At, Pending, Fresh
<1>4. Covers(armedFor) /\ OnTime
  BY <1>2, <1>3 DEF IInv, ClaimInv
<1> QED  BY <1>1, <1>4, Types, WantedTimes

\* Whatever is interrupted within rearm_timer, the hardware was last programmed
\* for the earliest deadline of the scheduler and of Embassy, or for an earlier
\* one, whenever application code executes.
THEOREM DeadlineNeverStale == Spec => []NoStaleDeadline
<1>1. IInv => NoStaleDeadline
  BY QuiescentCovered DEF NoStaleDeadline, Covers
<1> QED  BY <1>1, Invariance, PTL

\* The timer is late by at most the age of the clock reading at the last claim,
\* however long the claimant was suspended afterwards.
THEOREM LatenessBounded == Spec => []LateByClaimLag
<1>1. IInv => LateByClaimLag
  <2> SUFFICES ASSUME IInv, Quiescent PROVE armed <= Max({Earliest, clock + 1}) + claimLag
    BY DEF LateByClaimLag
  <2>1. Earliest \in Int /\ clock + 1 \in Int /\ armed \in Int /\ claimLag \in Int /\ clock \in Int
    BY QuiescentCovered, Bounds DEF TypeOK, Times
  <2>2. armed <= Earliest + claimLag \/ armed <= clock + 1 + claimLag
    BY QuiescentCovered DEF OnTime
  <2>3. Max({Earliest, clock + 1}) = IF Earliest >= clock + 1 THEN Earliest ELSE clock + 1
    BY <2>1, MaxOfTwo
  <2> QED  BY <2>1, <2>2, <2>3
<1> QED  BY <1>1, Invariance, PTL
=============================================================================
