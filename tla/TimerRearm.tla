------------------------------ MODULE TimerRearm ------------------------------
(***************************************************************************)
(* The shared one-shot timer of hisi-rtos: rearm_timer of                  *)
(* src/src/runtime/time.rs with its generation ticket, against the         *)
(* interrupts and context switches that rearm the timer in between, and    *)
(* the Embassy time driver that shares the timer.                          *)
(*                                                                         *)
(* One action is one step of rearm_timer that an interrupt can separate    *)
(* from the next: reading the clock, the critical section that computes    *)
(* the earliest deadline and claims a ticket, programming the hardware,    *)
(* checking the ticket.  The scheduler is reduced to that earliest         *)
(* deadline, due; an operation that changes it calls rearm_timer after its *)
(* critical section.  Interrupts nest like a stack on top of the current   *)
(* thread; the outermost epilogue may resume another thread, which         *)
(* continues where it was interrupted, perhaps within rearm_timer.         *)
(* Embassy deadlines are in ticks, the scheduler's in milliseconds.        *)
(*                                                                         *)
(* Time passes only in application code, in interrupt handlers and while a *)
(* thread is switched out: the instructions of rearm_timer take none.      *)
(***************************************************************************)
EXTENDS Integers, FiniteSets, FiniteSetsExt

CONSTANTS Threads,    \* tasks that call the runtime
          MaxDepth,   \* bound on the nesting of interrupts
          MaxDelay,   \* port.max_timer_delay, in milliseconds
          Wakers,     \* Embassy futures that wait for a time
          TicksPerMs, \* EMBASSY_TICKS_PER_MILLISECOND
          MaxTime,    \* bound on the clock and on deadlines, in milliseconds
          MaxEvents   \* bound on the changes of the deadline and the interrupts

ASSUME ThreadsAssumption == Threads # {} /\ Threads \cap (1..MaxDepth) = {}
ASSUME TimerBoundsAssumption ==
         /\ MaxDepth \in Nat /\ MaxDelay \in Nat \ {0} /\ TicksPerMs \in Nat \ {0}
         /\ MaxTime \in Nat /\ MaxEvents \in Nat

\* No deadline, or a disarmed timer: later than every time.
NEVER == 2 * MaxTime + MaxDelay + 2

Contexts == Threads \cup 1..MaxDepth

VARIABLES
  clock,      \* monotonic_ms
  due,        \* the earliest deadline of the scheduler state
  timers,     \* EMBASSY_TIME_QUEUE: timers[w] is when waker w expires, in ticks
  generation, \* TIMER_REARM_GENERATION
  armed,      \* when the hardware timer fires
  current,    \* the thread that executes when no interrupt does
  depth,      \* the nesting of interrupts
  frame,      \* frame[c]: where context c stands, and the locals of rearm_timer
  events,     \* how many of MaxEvents have happened
  armedFor,   \* ghost: the deadline that the hardware was last programmed for
  claimLag    \* ghost: how old the clock reading was at the last claim

vars == <<clock, due, timers, generation, armed, current, depth, frame, events, armedFor,
          claimLag>>

NoTimer == NEVER * TicksPerMs

\* leaving: the frame of an interrupt is in its epilogue.
\* lag: ghost, the time that passed since rearm_timer read the clock.
IdleFrame == [at |-> "app", now |-> 0, ticket |-> 0, deadline |-> NEVER, leaving |-> FALSE,
              lag |-> 0]

Active == IF depth = 0 THEN current ELSE depth
At(stage) == frame[Active].at = stage

Init ==
  /\ clock = 0
  /\ due = NEVER
  /\ timers = [w \in Wakers |-> NoTimer]
  /\ generation = 0
  /\ armed = NEVER
  /\ current \in Threads
  /\ depth = 0
  /\ frame = [c \in Contexts |-> IdleFrame]
  /\ events = 0
  /\ armedFor = NEVER
  /\ claimLag = 0

\* The deadlines an operation may leave: a dispatch is due at once.
Deadlines == clock..MaxTime \cup {NEVER}

Event == events < MaxEvents /\ events' = events + 1
MoveTo(stage) == frame' = [frame EXCEPT ![Active].at = stage]

-----------------------------------------------------------------------------
(* The operations around rearm_timer. *)

Tick ==
  /\ clock < MaxTime
  /\ frame[Active].at \in {"app", "timer"}
  /\ clock' = clock + 1
  /\ frame' = [c \in Contexts |-> IF frame[c].at = "claim"
                                 THEN [frame[c] EXCEPT !.lag = @ + 1] ELSE frame[c]]
  /\ UNCHANGED <<due, timers, generation, armed, current, depth, events, armedFor, claimLag>>

\* Application code of a thread that leaves the runtime alone.
Compute == depth = 0 /\ At("app") /\ UNCHANGED vars

\* A runtime call in a thread or a handler changes deadlines and rearms: sleep,
\* a timed wait, a wake, a lock, a spawn, a policy change.
Operation(d) ==
  /\ At("app")
  /\ Event
  /\ due' = d
  /\ MoveTo("read")
  /\ UNCHANGED <<clock, timers, generation, armed, current, depth, armedFor, claimLag>>

\* A yield that finds no target has woken sleepers, and does not rearm: the
\* earliest deadline only moves away.
WakeSleepers(d) ==
  /\ At("app")
  /\ depth = 0
  /\ d > due
  /\ due' = d
  /\ UNCHANGED <<clock, timers, generation, armed, current, depth, frame, events, armedFor, claimLag>>

\* EmbassyTimeDriver::schedule_wake: the queue keeps the earlier expiry of a
\* waker, and a change of the queue rearms.
ScheduleWake(w, at) ==
  /\ At("app")
  /\ Event
  /\ at < timers[w]
  /\ timers' = [timers EXCEPT ![w] = at]
  /\ MoveTo("read")
  /\ UNCHANGED <<clock, due, generation, armed, current, depth, armedFor, claimLag>>

EnterAt(stage) ==
  /\ depth < MaxDepth
  /\ ~frame[Active].leaving
  /\ Event
  /\ depth' = depth + 1
  /\ frame' = [frame EXCEPT ![depth'] = [IdleFrame EXCEPT !.at = stage]]

\* An interrupt of another device.
Interrupt == EnterAt("app") /\ UNCHANGED <<clock, due, timers, generation, armed, current, armedFor, claimLag>>

\* The timer fires once and is acknowledged.
TimerInterrupt ==
  /\ armed <= clock
  /\ EnterAt("timer")
  /\ armed' = NEVER
  /\ armedFor' = NEVER
  /\ UNCHANGED <<clock, due, timers, generation, current, claimLag>>

\* on_timer_interrupt serves what is due and rearms.
OnTimerInterrupt(d) ==
  /\ At("timer")
  /\ due' = d
  /\ MoveTo("read")
  /\ UNCHANGED <<clock, timers, generation, armed, current, depth, events, armedFor, claimLag>>

\* __hisi_irq_epilogue, with interrupts masked: the outermost one may switch to
\* another thread, whose budget or slice changes the deadline; it always rearms.
Epilogue(t, d) ==
  /\ depth # 0
  /\ At("app")
  /\ depth # 1 => t = current
  /\ t = current => d = due
  /\ current' = t
  /\ due' = d
  /\ frame' = [frame EXCEPT ![depth].at = "read", ![depth].leaving = TRUE]
  /\ UNCHANGED <<clock, timers, generation, armed, depth, events, armedFor, claimLag>>

-----------------------------------------------------------------------------
(* rearm_timer. *)

ReadNow ==
  /\ At("read")
  /\ frame' = [frame EXCEPT ![Active].now = clock, ![Active].lag = 0, ![Active].at = "claim"]
  /\ UNCHANGED <<clock, due, timers, generation, armed, current, depth, events, armedFor, claimLag>>

\* Fault: the ticket is the generation that was found, which others share.
NextGenerationShared == generation

\* claim_timer_rearm_generation; the u64 does not wrap within the bounds.
NextGeneration == generation + 1

\* EmbassyTimeQueue::next_expiration wakes what has expired at a time and
\* forgets it; the remaining ones decide the next expiration.
Expired(now) == {w \in Wakers : timers[w] <= now * TicksPerMs}
NextExpiration(now) == Min({timers[w] : w \in Wakers \ Expired(now)} \cup {NoTimer})

\* Ticks in milliseconds, rounded up.
DelayMs(ticks) == (ticks + TicksPerMs - 1) \div TicksPerMs

\* embassy_next_expiration_locked: the next expiration in milliseconds.
EmbassyDeadline(now) ==
  IF NextExpiration(now) = NoTimer THEN NEVER
  ELSE now + Max({DelayMs(NextExpiration(now) - now * TicksPerMs), 1})

\* The critical section: earliest_deadline, the expired wakers, the ticket.
Claim ==
  /\ At("claim")
  /\ generation' = NextGeneration
  /\ LET f == frame[Active] IN
     /\ frame' = [frame EXCEPT ![Active].ticket = generation',
                               ![Active].deadline = Min({due, EmbassyDeadline(f.now)}),
                               ![Active].at = "program"]
     /\ timers' = [w \in Wakers |-> IF w \in Expired(f.now) THEN NoTimer ELSE timers[w]]
     /\ claimLag' = f.lag
  /\ UNCHANGED <<clock, due, armed, current, depth, events, armedFor>>

\* remaining.max(1).min(max_timer_delay), of a saturating difference.
Delay(remaining) ==
  IF remaining < 1 THEN 1 ELSE IF remaining > MaxDelay THEN MaxDelay ELSE remaining

\* arm_timer takes a delay, which the hardware counts from this moment.
Program ==
  /\ At("program")
  /\ LET f == frame[Active] IN
     /\ armed' = IF f.deadline = NEVER THEN NEVER ELSE clock + Delay(f.deadline - f.now)
     /\ armedFor' = f.deadline
  /\ MoveTo("check")
  /\ UNCHANGED <<clock, due, timers, generation, current, depth, events, claimLag>>

Return ==
  /\ frame' = [frame EXCEPT ![Active] = IdleFrame]
  /\ depth' = IF frame[Active].leaving THEN depth - 1 ELSE depth

\* Fault: the clock is read once, before the loop.
CheckTicketKeepsNow ==
  /\ At("check")
  /\ IF frame[Active].ticket = generation THEN Return
     ELSE MoveTo("claim") /\ UNCHANGED depth
  /\ UNCHANGED <<clock, due, timers, generation, armed, current, events, armedFor, claimLag>>

\* Fault: a stale ticket is checked again instead of being replaced.
CheckTicketAgain ==
  /\ At("check")
  /\ IF frame[Active].ticket = generation THEN Return
     ELSE UNCHANGED <<frame, depth>>
  /\ UNCHANGED <<clock, due, timers, generation, armed, current, events, armedFor, claimLag>>

CheckTicket ==
  /\ At("check")
  /\ IF frame[Active].ticket = generation THEN Return
     ELSE MoveTo("read") /\ UNCHANGED depth
  /\ UNCHANGED <<clock, due, timers, generation, armed, current, events, armedFor, claimLag>>

RearmTimer == ReadNow \/ Claim \/ Program \/ CheckTicket

Next ==
  \/ Tick \/ Compute \/ Interrupt \/ TimerInterrupt \/ RearmTimer
  \/ \E d \in Deadlines : \/ Operation(d) \/ WakeSleepers(d) \/ OnTimerInterrupt(d)
                          \/ \E t \in Threads : Epilogue(t, d)
  \/ \E t \in Threads : Epilogue(t, due)
  \/ \E w \in Wakers, at \in 0..MaxTime * TicksPerMs : ScheduleWake(w, at)

Spec == Init /\ [][Next]_vars

\* The hart executes rearm_timer and interrupt handlers to their end.
Fairness ==
  /\ WF_vars(RearmTimer)
  /\ WF_vars(\E d \in Deadlines : OnTimerInterrupt(d))
  /\ WF_vars(\E t \in Threads, d \in Deadlines \cup {due} : Epilogue(t, d))

FairSpec == Spec /\ Fairness

-----------------------------------------------------------------------------
(* Properties. *)

Times == 0..NEVER

\* Every variable keeps its type, and the delay given to arm_timer is positive:
\* the timer is never set to the present.
TypeOK ==
  /\ clock \in 0..MaxTime
  /\ due \in Times
  /\ timers \in [Wakers -> 0..NoTimer]
  /\ generation \in Nat
  /\ armed \in Times
  /\ current \in Threads
  /\ depth \in 0..MaxDepth
  /\ frame \in [Contexts -> [at : {"app", "timer", "read", "claim", "program", "check"},
                             now : 0..MaxTime, ticket : Nat, deadline : Times,
                             leaving : BOOLEAN, lag : 0..MaxTime]]
  /\ events \in 0..MaxEvents
  /\ armedFor \in Times
  /\ claimLag \in 0..MaxTime
  /\ At("check") /\ frame[Active].ticket = generation => armed > clock

\* Application code of a thread executes.
Quiescent == depth = 0 /\ At("app")

\* The earliest deadline, in milliseconds, of the scheduler and of Embassy.
Earliest == Min({due} \cup {DelayMs(timers[w]) : w \in Wakers})

\* When application code runs, the hardware was last programmed for the
\* earliest deadline there is, of a task or of an Embassy future, or for an
\* earlier one, whichever contexts were interrupted between computing a
\* deadline and programming it (RTOS-TIMER-003).
NoStaleDeadline == Quiescent => armedFor <= Earliest

\* The timer fires in time, or late by no more than the age that the clock
\* reading had when the ticket was claimed: a rearm_timer suspended for any time
\* after its claim, before it programs the hardware, does not make it late.
LateByClaimLag ==
  Quiescent => armed <= Max({Earliest, clock + 1}) + claimLag

\* It fires at the deadline, or at once if that has passed (RTOS-TIMER-003: "A
\* stale later deadline cannot be the final hardware state").
NeverLate == Quiescent => armed <= due \/ armed <= clock + 1

\* A rearm that others keep invalidating ends once they stop: application code
\* runs again and again.
RearmCompletes == []<>Quiescent
=============================================================================
