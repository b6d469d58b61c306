----------------------------- MODULE PacerClock -----------------------------
(***************************************************************************)
(* The shared pacing clock (src/src/pacer_clock.c) as the presentation     *)
(* threads of one backend drive it through pace(): every thread polls the  *)
(* limit without a lock, then calls frame_pacer_clock_wait, which sleeps   *)
(* to an absolute deadline WHILE IT HOLDS the clock's mutex.  The limit    *)
(* may change, sleeps may be interrupted, and the library destructor may   *)
(* destroy the clock while threads are inside it.                          *)
(***************************************************************************)
EXTENDS Integers, Sequences, FiniteSets

CONSTANTS
    Presenters,   \* threads that call pace()
    Limits,       \* values frame_pacer_limit_poll returns; 0 is "off"
    Second,       \* clock units in a second (10^9 in the code)
    MaxFps,       \* FRAME_PACER_MAX_FPS; FRAME_PACER_MIN_FPS is 1
    ClockMax,     \* UINT64_MAX, where add_intervals saturates
    Nobody,       \* the mutex is free
    MaxNow,       \* bound: the last instant of a behaviour
    MaxChanges,   \* bound: changes of the configured limit
    MaxEintr      \* bound: interruptions of one sleep

\* Every limit in range divides the second into intervals of at least one
\* unit (10^9 / 999 in the code), and no clock reading reaches ClockMax.
ASSUME ClockAssumption ==
    /\ Limits \subseteq Nat
    /\ Second \in Nat /\ MaxFps \in Nat \ {0} /\ MaxFps <= Second
    /\ ClockMax \in Nat /\ MaxNow \in Nat /\ MaxNow < ClockMax
    /\ MaxChanges \in Nat /\ MaxEintr \in Nat
    /\ Nobody \notin Presenters

\* A game has finitely many threads, and one of them presents.
ASSUME PresentersAssumption == IsFiniteSet(Presenters) /\ Presenters # {}

VARIABLES
    now,          \* CLOCK_MONOTONIC
    limit,        \* what a poll of the configuration returns
    changes,      \* how often it has changed
    initialized,  \* clock->initialized
    destroyed,    \* the mutex object is gone
    mutex,        \* its owner, or Nobody
    clock,        \* [started, fps, next] of struct frame_pacer_clock
    pc,           \* per thread: "idle", "entry" or "sleeping"
    fps,          \* per thread: the limit it polled
    decision,     \* per thread: [observed, deadline, eintr]
    recent,       \* history: times of the last (at most 3) frames let through
    start,        \* history: when the limit in force was (re)started
    released,     \* history: frames let through since then
    restarts      \* history: how often a frame restarted the clock

vars == <<now, limit, changes, initialized, destroyed, mutex, clock, pc, fps,
          decision, recent, start, released, restarts>>

Valid(f) == f \in 1..MaxFps

Interval(f) == Second \div f

\* Mutant: the addition is not saturated.
add_intervals_wrapless(value, interval, count) == value + count * interval

\* pacer_clock.c:add_intervals: an addition that sticks at ClockMax.
add_intervals(value, interval, count) ==
    IF count > (ClockMax - value) \div interval
    THEN ClockMax
    ELSE value + count * interval

\* Mutant: the lock is given back before the sleep.
Lock_not_held(p) == /\ (destroyed \/ mutex = Nobody)
                    /\ UNCHANGED mutex

\* pthread_mutex_lock: on a destroyed mutex it fails, the result is ignored
\* and the thread goes on without exclusion.
Lock(p) == \/ destroyed /\ UNCHANGED mutex
           \/ ~destroyed /\ mutex = Nobody /\ mutex' = p

Unlock(p) == mutex' = IF mutex = p THEN Nobody ELSE mutex

\* The mutex is free to be taken and given back within one step.
LockUnlock == /\ (destroyed \/ mutex = Nobody)
              /\ UNCHANGED mutex

\* The last three instants at which frames were let through under one limit.
Push(seq, t) == IF Len(seq) < 3 THEN Append(seq, t) ELSE <<seq[2], seq[3], t>>
----------------------------------------------------------------------------
\* The state after frame_pacer_clock_init; a game can start at any instant.
Init ==
    /\ now = 0
    /\ limit \in Limits
    /\ changes = 0
    /\ initialized = TRUE
    /\ destroyed = FALSE
    /\ mutex = Nobody
    /\ clock = [started |-> FALSE, fps |-> 0, next |-> 0]
    /\ pc = [p \in Presenters |-> "idle"]
    /\ fps = [p \in Presenters |-> 0]
    /\ decision = [p \in Presenters |->
                       [observed |-> 0, deadline |-> 0, eintr |-> 0]]
    /\ recent = <<>>
    /\ start = 0
    /\ released = 0
    /\ restarts = 0

Tick ==
    /\ now < MaxNow
    /\ now' = now + 1
    /\ UNCHANGED <<limit, changes, initialized, destroyed, mutex, clock, pc,
                   fps, decision, recent, start, released, restarts>>

\* The configuration file changes and the next poll sees it.
ChangeLimit ==
    /\ changes < MaxChanges
    /\ limit' \in Limits \ {limit}
    /\ changes' = changes + 1
    /\ UNCHANGED <<now, initialized, destroyed, mutex, clock, pc, fps,
                   decision, recent, start, released, restarts>>

\* pace(): the poll, then the checks at the head of frame_pacer_clock_wait.
\* A clock that is not initialized lets the frame through at once.
Enter(p) ==
    /\ pc[p] = "idle"
    /\ fps' = [fps EXCEPT ![p] = limit]
    /\ pc' = IF initialized THEN [pc EXCEPT ![p] = "entry"] ELSE pc
    /\ decision' = [decision EXCEPT
                        ![p] = [observed |-> 0, deadline |-> 0, eintr |-> 0]]
    /\ UNCHANGED <<now, limit, changes, initialized, destroyed, mutex, clock,
                   recent, start, released, restarts>>

\* A limit out of range: forget the grid and let the frame through.
Off(p) ==
    /\ pc[p] = "entry" /\ ~Valid(fps[p])
    /\ LockUnlock
    /\ clock' = [started |-> FALSE, fps |-> 0, next |-> 0]
    /\ recent' = <<>> /\ start' = 0 /\ released' = 0
    /\ pc' = [pc EXCEPT ![p] = "idle"]
    /\ UNCHANGED <<now, limit, changes, initialized, destroyed, fps,
                   decision, restarts>>

\* Mutant: the limit in force is not recorded.
First_forgets_fps(p) ==
    /\ pc[p] = "entry" /\ Valid(fps[p])
    /\ ~clock.started \/ clock.fps # fps[p]
    /\ LockUnlock
    /\ clock' = [clock EXCEPT !.started = TRUE,
                              !.next = add_intervals(now, Interval(fps[p]), 1)]
    /\ decision' = [decision EXCEPT ![p].observed = now]
    /\ recent' = <<now>> /\ start' = now /\ released' = 1
    /\ restarts' = restarts + 1
    /\ pc' = [pc EXCEPT ![p] = "idle"]
    /\ UNCHANGED <<now, limit, changes, initialized, destroyed, fps>>

\* The first frame under this limit starts the grid and is not delayed.
First(p) ==
    /\ pc[p] = "entry" /\ Valid(fps[p])
    /\ ~clock.started \/ clock.fps # fps[p]
    /\ LockUnlock
    /\ clock' = [started |-> TRUE, fps |-> fps[p],
                 next |-> add_intervals(now, Interval(fps[p]), 1)]
    /\ decision' = [decision EXCEPT ![p].observed = now]
    /\ recent' = <<now>> /\ start' = now /\ released' = 1
    /\ restarts' = restarts + 1
    /\ pc' = [pc EXCEPT ![p] = "idle"]
    /\ UNCHANGED <<now, limit, changes, initialized, destroyed, fps>>

\* Mutant: missed grid points are not skipped.
Upcoming_keeps_missed(next, interval, t) == next

\* Mutant: a frame exactly on its grid point is not taken for a missed one.
Upcoming_off_by_one(next, interval, t) ==
    IF t > next
    THEN add_intervals(next, interval, (t - next) \div interval + 1)
    ELSE next

\* The next grid point that is still ahead of `t'.
Upcoming(next, interval, t) ==
    IF t >= next
    THEN add_intervals(next, interval, (t - next) \div interval + 1)
    ELSE next

\* Any other frame takes the next grid point and goes to sleep with the lock.
Begin(p) ==
    /\ pc[p] = "entry" /\ Valid(fps[p])
    /\ clock.started /\ clock.fps = fps[p]
    /\ Lock(p)
    /\ LET d == Upcoming(clock.next, Interval(fps[p]), now) IN
         /\ decision' = [decision EXCEPT
                             ![p] = [observed |-> now, deadline |-> d,
                                     eintr |-> 0]]
         /\ clock' = [clock EXCEPT
                          !.next = add_intervals(d, Interval(fps[p]), 1)]
    /\ pc' = [pc EXCEPT ![p] = "sleeping"]
    /\ UNCHANGED <<now, limit, changes, initialized, destroyed, fps, recent,
                   start, released, restarts>>

\* Mutant: an interrupted sleep starts again for a whole interval.
Interrupt_relative(p) ==
    /\ pc[p] = "sleeping"
    /\ decision[p].eintr < MaxEintr
    /\ decision' = [decision EXCEPT ![p].eintr = @ + 1,
                                    ![p].deadline = now + Interval(fps[p])]
    /\ UNCHANGED <<now, limit, changes, initialized, destroyed, mutex, clock,
                   pc, fps, recent, start, released, restarts>>

\* clock_nanosleep returns EINTR: the loop sleeps again to the same deadline.
Interrupt(p) ==
    /\ pc[p] = "sleeping"
    /\ decision[p].eintr < MaxEintr
    /\ decision' = [decision EXCEPT ![p].eintr = @ + 1]
    /\ UNCHANGED <<now, limit, changes, initialized, destroyed, mutex, clock,
                   pc, fps, recent, start, released, restarts>>

\* Mutant: an interrupted sleep counts as finished.
Wake_on_interrupt(p) ==
    /\ pc[p] = "sleeping"
    /\ now >= decision[p].deadline \/ decision[p].eintr > 0
    /\ Unlock(p)
    /\ recent' = Push(recent, now)
    /\ released' = released + 1
    /\ pc' = [pc EXCEPT ![p] = "idle"]
    /\ UNCHANGED <<now, limit, changes, initialized, destroyed, clock, fps,
                   decision, start, restarts>>

\* The absolute sleep is over: unlock and let the frame through.
Wake(p) ==
    /\ pc[p] = "sleeping"
    /\ now >= decision[p].deadline
    /\ Unlock(p)
    /\ recent' = Push(recent, now)
    /\ released' = released + 1
    /\ pc' = [pc EXCEPT ![p] = "idle"]
    /\ UNCHANGED <<now, limit, changes, initialized, destroyed, clock, fps,
                   decision, start, restarts>>

\* The library destructor.  Destroying a locked mutex fails (EBUSY, ignored).
Destroy ==
    /\ initialized
    /\ initialized' = FALSE
    /\ destroyed' = (mutex = Nobody)
    /\ UNCHANGED <<now, limit, changes, mutex, clock, pc, fps, decision,
                   recent, start, released, restarts>>

Next ==
    \/ Tick
    \/ ChangeLimit
    \/ Destroy
    \/ \E p \in Presenters :
          \/ Enter(p)
          \/ Off(p)
          \/ First(p)
          \/ Begin(p)
          \/ Interrupt(p)
          \/ Wake(p)

Spec == Init /\ [][Next]_vars

\* Time goes by, and a sleep whose deadline has come ends: signals do not
\* arrive for ever.  Nothing is assumed about who gets the mutex.
Fairness == /\ WF_vars(Tick)
            /\ \A p \in Presenters : WF_vars(Wake(p))

FairSpec == Spec /\ Fairness
----------------------------------------------------------------------------
Clocks == [started : BOOLEAN, fps : 0..MaxFps, next : 0..ClockMax]

Decisions == [observed : 0..MaxNow, deadline : 0..ClockMax, eintr : 0..MaxEintr]

TypeOK ==
    /\ now \in 0..MaxNow
    /\ limit \in Limits
    /\ changes \in 0..MaxChanges
    /\ initialized \in BOOLEAN
    /\ destroyed \in BOOLEAN
    /\ mutex \in Presenters \cup {Nobody}
    /\ clock \in Clocks
    /\ pc \in [Presenters -> {"idle", "entry", "sleeping"}]
    /\ fps \in [Presenters -> Limits \cup {0}]
    /\ decision \in [Presenters -> Decisions]
    /\ recent \in Seq(0..MaxNow) /\ Len(recent) \in 0..3
    /\ start \in 0..MaxNow
    /\ released \in Nat
    /\ restarts \in Nat

\* A limit is in force: pacing is on and the clock has not been torn down.
Pacing == initialized /\ clock.started

\* pacer_clock.c:63-76.  However the threads interleave, stall or oversleep,
\* the frames let through since the limit came into force never exceed the
\* time that has passed since, one frame per interval.
RateBound ==
    Pacing => (released - 1) * Interval(clock.fps) <= now - start

\* pacer_clock.c:63-70.  A stall earns no credit: whatever deadlines were
\* missed, any three consecutive frames under one limit span more than one
\* interval, so at most one frame can be late and the next one close to it.
NoBurst ==
    Pacing /\ Len(recent) = 3 => recent[3] - recent[1] > Interval(clock.fps)

\* pacer_clock.c:72-76.  The thread that sleeps with the mutex wakes at most
\* one interval after it looked at the clock, and never at once: no thread
\* queues behind a deadline further away, whatever limit was set before.
BoundedHold ==
    \A p \in Presenters :
        initialized /\ pc[p] = "sleeping" =>
            /\ decision[p].observed < decision[p].deadline
            /\ decision[p].deadline <=
                   decision[p].observed + Interval(fps[p])

\* frame_pacer_layer.c:101-122.  A limit polled before the mutex was taken
\* may be stale and flip the clock back, but one change of the configuration
\* lets at most one undelayed frame through per flip, and each thread can
\* flip the clock there and back once.
RestartsBounded ==
    restarts <= 1 + changes * (2 * Cardinality(Presenters) - 1)

\* pacer_clock.c:75.  A frame that waits for a deadline is let through:
\* interruptions never make it wait for ever.
SleepEnds ==
    \A p \in Presenters :
        (pc[p] = "sleeping" /\ decision[p].deadline <= MaxNow)
            ~> (pc[p] # "sleeping")

\* The strengthening under which the three safety invariants are inductive.
\* While the clock lives, the mutex really excludes: its owner is the one
\* sleeper, and it sleeps for the limit in force.
Exclusion ==
    initialized =>
        /\ ~destroyed
        /\ \A p \in Presenters : pc[p] = "sleeping" <=> mutex = p
        /\ mutex # Nobody => clock.started /\ fps[mutex] = clock.fps

\* A point `d' of the grid covers the frames let through: it lies beyond the
\* budget of all of them and more than an interval after the last but one.
Covers(d) ==
    LET i == Interval(clock.fps) IN
      \/ d = ClockMax
      \/ /\ start + released * i <= d
         /\ Len(recent) > 1 => recent[Len(recent) - 1] + i < d

Grid ==
    Pacing =>
        /\ Valid(clock.fps) /\ clock.fps \in Limits
        /\ start <= now /\ released >= 1 /\ Len(recent) >= 1
        /\ \A k \in 1..Len(recent) : recent[k] <= now
        /\ mutex = Nobody => /\ clock.next <= now + Interval(clock.fps)
                             /\ Covers(clock.next)
        /\ mutex # Nobody =>
               LET d == decision[mutex] IN
                 /\ d.observed <= now
                 /\ d.observed < d.deadline
                 /\ d.deadline <= d.observed + Interval(clock.fps)
                 /\ recent[Len(recent)] <= d.observed
                 /\ clock.next = add_intervals(d.deadline,
                                               Interval(clock.fps), 1)
                 /\ Covers(d.deadline)

IInv == TypeOK /\ Exclusion /\ Grid /\ RateBound /\ NoBurst

\* The clock implements the rate limiter.
Limiter == INSTANCE RateLimiter WITH
    Intervals <- {Interval(f) : f \in {g \in Limits : Valid(g)}},
    interval  <- IF Pacing THEN Interval(clock.fps) ELSE 0,
    start     <- IF Pacing THEN start ELSE 0,
    released  <- IF Pacing THEN released ELSE 0

\* pacer_clock.c as a whole: mutex, grid and saturation implement the
\* abstract rate limiter, through limit changes and tear-down.
RefinesRateLimiter == Limiter!Spec
=============================================================================
