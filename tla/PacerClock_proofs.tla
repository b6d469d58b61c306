-------------------------- MODULE PacerClock_proofs --------------------------
(***************************************************************************)
(* Proofs about the pacing clock, for every set of presentation threads,   *)
(* every set of limits and every bound.  The inductive invariant says what *)
(* the mutex protects: whoever sleeps owns it, and the next deadline on    *)
(* the grid covers every frame already let through.                        *)
(***************************************************************************)
EXTENDS PacerClock, FiniteSetTheorems, TLAPS

\* Division as the grid uses it: the whole intervals in a stall.
LEMMA DivBounds ==
    ASSUME NEW a \in Nat, NEW b \in Nat \ {0}
    PROVE  /\ a \div b \in Nat
           /\ (a \div b) * b <= a
           /\ a < (a \div b) * b + b
  BY SMT

\* The elements of a sequence over S are in S.
LEMMA ElementOfSeq ==
    ASSUME NEW S, NEW s \in Seq(S), NEW k \in 1..Len(s)
    PROVE  s[k] \in S
  OBVIOUS

\* An interval of a limit in range is a positive number of clock units.
LEMMA IntervalType ==
    ASSUME NEW f, Valid(f)
    PROVE  Interval(f) \in Nat \ {0}
  <1>1. f \in Nat \ {0} /\ f <= Second /\ Second \in Nat
    BY ClockAssumption DEF Valid
  <1>2. Second \div f \in Nat /\ Second < (Second \div f) * f + f
    BY <1>1, DivBounds
  <1>3. Second \div f # 0
    BY <1>1, <1>2
  <1> QED BY <1>2, <1>3 DEF Interval

\* add_intervals adds, or sticks at ClockMax when the sum would pass it.
LEMMA AddIntervals ==
    ASSUME NEW v \in 0..ClockMax, NEW i \in Nat \ {0}, NEW c \in Nat
    PROVE  /\ add_intervals(v, i, c) \in 0..ClockMax
           /\ \/ add_intervals(v, i, c) = v + c * i
              \/ add_intervals(v, i, c) = ClockMax /\ ClockMax < v + c * i
  <1> DEFINE room == ClockMax - v
             q == room \div i
  <1>1. room \in Nat
    BY ClockAssumption
  <1>2. q \in Nat /\ q * i <= room /\ room < q * i + i
    BY <1>1, DivBounds
  <1>3. c * i \in Nat
    OBVIOUS
  <1>4. CASE c > q
    <2>1. (q + 1) * i <= c * i
      BY <1>2, <1>4
    <2>2. (q + 1) * i = q * i + i
      BY <1>2
    <2> QED BY <1>1, <1>2, <1>3, <1>4, <2>1, <2>2, ClockAssumption
            DEF add_intervals
  <1>5. CASE ~(c > q)
    <2>1. c * i <= q * i
      BY <1>2, <1>5
    <2>2. q * i \in Nat
      BY <1>2
    <2> HIDE DEF q
    <2>3. add_intervals(v, i, c) = v + c * i
      BY <1>5 DEF add_intervals, q
    <2> QED BY <1>1, <1>2, <1>3, <2>1, <2>2, <2>3, ClockAssumption
  <1> QED BY <1>4, <1>5

\* One interval on: the common case of AddIntervals.
LEMMA AddOne ==
    ASSUME NEW v \in 0..ClockMax, NEW i \in Nat \ {0}
    PROVE  /\ add_intervals(v, i, 1) \in 0..ClockMax
           /\ \/ add_intervals(v, i, 1) = v + i
              \/ add_intervals(v, i, 1) = ClockMax /\ ClockMax < v + i
  <1>1. 1 * i = i
    OBVIOUS
  <1> QED BY <1>1, AddIntervals

\* The grid point a frame is given lies strictly ahead, at most one interval
\* away, and never before the point the grid had reached.
LEMMA UpcomingAhead ==
    ASSUME NEW n \in 0..ClockMax, NEW i \in Nat \ {0}, NEW t \in 0..MaxNow,
           n <= t + i
    PROVE  /\ Upcoming(n, i, t) \in 0..ClockMax
           /\ t < Upcoming(n, i, t)
           /\ Upcoming(n, i, t) <= t + i
           /\ n <= Upcoming(n, i, t)
  <1> DEFINE q == (t - n) \div i
  <1>1. CASE t >= n
    <2>1. t - n \in Nat
      BY <1>1, ClockAssumption
    <2>2. q \in Nat /\ q * i <= t - n /\ t - n < q * i + i
      BY <2>1, DivBounds
    <2>3. (q + 1) * i = q * i + i /\ q * i \in Nat
      BY <2>2
    <2>4. Upcoming(n, i, t) = add_intervals(n, i, q + 1)
      BY <1>1 DEF Upcoming
    <2>5. q + 1 \in Nat
      BY <2>2
    <2> HIDE DEF q
    <2>6. /\ add_intervals(n, i, q + 1) \in 0..ClockMax
          /\ \/ add_intervals(n, i, q + 1) = n + (q + 1) * i
             \/ /\ add_intervals(n, i, q + 1) = ClockMax
                /\ ClockMax < n + (q + 1) * i
      BY <2>5, AddIntervals
    <2> QED BY <1>1, <2>2, <2>3, <2>4, <2>6, ClockAssumption
  <1>2. CASE ~(t >= n)
    BY <1>2, ClockAssumption DEF Upcoming
  <1> QED BY <1>1, <1>2
-----------------------------------------------------------------------------
\* The initial state satisfies the inductive invariant.
LEMMA InitInv == Init => IInv
  <1> SUFFICES ASSUME Init PROVE IInv
    OBVIOUS
  <1>1. TypeOK
    <2>1. recent \in Seq(0..MaxNow) /\ Len(recent) \in 0..3
      BY DEF Init
    <2>2. decision \in [Presenters -> Decisions] /\ clock \in Clocks
      BY ClockAssumption DEF Init, Decisions, Clocks
    <2>3. /\ now \in 0..MaxNow /\ limit \in Limits /\ changes \in 0..MaxChanges
          /\ start \in 0..MaxNow /\ released \in Nat /\ restarts \in Nat
      BY ClockAssumption DEF Init
    <2>4. /\ fps \in [Presenters -> Limits \cup {0}]
          /\ pc \in [Presenters -> {"idle", "entry", "sleeping"}]
          /\ mutex \in Presenters \cup {Nobody}
      BY DEF Init
    <2>5. initialized \in BOOLEAN /\ destroyed \in BOOLEAN
      BY DEF Init
    <2> QED BY <2>1, <2>2, <2>3, <2>4, <2>5 DEF TypeOK
  <1>2. Exclusion /\ Grid /\ RateBound /\ NoBurst
    BY ClockAssumption DEF Init, Exclusion, Grid, RateBound, NoBurst, Pacing
  <1> QED BY <1>1, <1>2 DEF IInv

\* w is the window s with the time t put at its end: of at most three, and what
\* was last in s comes last but one.
Pushed(S, s, t, w) ==
    /\ w \in Seq(S)
    /\ Len(w) \in 1..3 /\ Len(w) >= 1
    /\ w[Len(w)] = t
    /\ Len(w) > 1 => w[Len(w) - 1] = s[Len(s)]
    /\ Len(w) > 2 => Len(s) > 1
    /\ Len(w) > 1 => Len(s) > 0
    /\ \A k \in 1..Len(w) : w[k] = t \/ \E j \in 1..Len(s) : w[k] = s[j]

LEMMA PushType ==
    ASSUME NEW S, NEW s \in Seq(S), Len(s) \in 0..3, NEW t \in S,
           NEW w, w = Push(s, t)
    PROVE  Pushed(S, s, t, w)
  <1> USE DEF Pushed
  <1>2. CASE Len(s) < 3
    <2>1. w = Append(s, t)
      BY <1>2 DEF Push
    <2> QED BY <1>2, <2>1
  <1>3. CASE ~(Len(s) < 3)
    <2>0. Len(s) = 3
      <3>1. \A n \in 0..3 : ~(n < 3) => n = 3
        OBVIOUS
      <3> QED BY <1>3, <3>1
    <2>1. w = <<s[2], s[3], t>>
      BY <2>0 DEF Push
    <2>2. s[2] \in S /\ s[3] \in S
      BY <2>0
    <2>3. /\ w \in Seq(S) /\ Len(w) = 3
          /\ w[1] = s[2] /\ w[2] = s[3] /\ w[3] = t
      BY <2>1, <2>2
    <2>4. \A k \in 1..3 : w[k] = t \/ \E j \in 1..3 : w[k] = s[j]
      BY <2>3
    <2> QED BY <2>0, <2>3, <2>4
  <1> QED BY <1>2, <1>3

\* The oldest of three frame times was the last but one before.
LEMMA PushOldest ==
    ASSUME NEW S, NEW s \in Seq(S), Len(s) \in 0..3, NEW t \in S,
           NEW w, w = Push(s, t), Len(w) = 3
    PROVE  w[1] = s[Len(s) - 1]
  <1>1. CASE Len(s) < 3
    <2>1. w = Append(s, t)
      BY <1>1 DEF Push
    <2>2. Len(s) = 2
      BY <2>1
    <2> QED BY <2>1, <2>2
  <1>2. CASE ~(Len(s) < 3)
    <2>0. Len(s) = 3
      <3>1. \A n \in 0..3 : ~(n < 3) => n = 3
        OBVIOUS
      <3> QED BY <1>2, <3>1
    <2>1. w = <<s[2], s[3], t>>
      BY <2>0 DEF Push
    <2> QED BY <2>0, <2>1
  <1> QED BY <1>1, <1>2

\* Every step keeps the variables in their types.
LEMMA StepType ==
    ASSUME TypeOK, [Next]_vars
    PROVE  TypeOK'
  <1> USE ClockAssumption
  <1>1. CASE UNCHANGED vars
    BY <1>1 DEF TypeOK, vars
  <1>2. CASE Tick
    BY <1>2 DEF TypeOK, Tick
  <1>3. CASE ChangeLimit
    BY <1>3 DEF TypeOK, ChangeLimit
  <1>4. CASE Destroy
    BY <1>4 DEF TypeOK, Destroy
  <1>5. ASSUME NEW p \in Presenters, Enter(p)
        PROVE  TypeOK'
    BY <1>5 DEF TypeOK, Enter, Decisions
  <1>6. ASSUME NEW p \in Presenters, Off(p)
        PROVE  TypeOK'
    BY <1>6 DEF TypeOK, Off, LockUnlock, Clocks
  <1>7. ASSUME NEW p \in Presenters, First(p)
        PROVE  TypeOK'
    <2>0. Valid(fps[p]) /\ now \in 0..ClockMax
      BY <1>7 DEF First, TypeOK
    <2> DEFINE i == Interval(fps[p])
    <2>5. i \in Nat \ {0}
      BY <2>0, IntervalType
    <2>6. clock' = [started |-> TRUE, fps |-> fps[p], next |-> add_intervals(now, i, 1)]
      BY <1>7 DEF First
    <2> HIDE DEF i
    <2>1. add_intervals(now, i, 1) \in 0..ClockMax
      BY <2>0, <2>5, AddOne
    <2>2. clock' \in Clocks
      BY <2>0, <2>1, <2>6 DEF Clocks, Valid
    <2>3. decision' \in [Presenters -> Decisions]
      BY <1>7 DEF First, TypeOK, Decisions
    <2>4. recent' \in Seq(0..MaxNow) /\ Len(recent') \in 0..3
      BY <1>7 DEF First, TypeOK
    <2> QED BY <1>7, <2>2, <2>3, <2>4 DEF First, LockUnlock, TypeOK
  <1>8. ASSUME NEW p \in Presenters, Begin(p)
        PROVE  TypeOK'
    <2> DEFINE i == Interval(fps[p])
               d == Upcoming(clock.next, i, now)
    <2>1. i \in Nat \ {0}
      BY <1>8, IntervalType DEF Begin
    <2>2. clock.next \in 0..ClockMax /\ now \in 0..MaxNow
      BY DEF TypeOK, Clocks
    <2>3. d \in 0..ClockMax
      <3>1. CASE now >= clock.next
        <4>1. now - clock.next \in Nat
          BY <2>2, <3>1
        <4>2. (now - clock.next) \div i + 1 \in Nat
          BY <2>1, <4>1, DivBounds
        <4> QED BY <2>1, <2>2, <3>1, <4>2, AddIntervals DEF Upcoming
      <3>2. CASE ~(now >= clock.next)
        BY <2>2, <3>2 DEF Upcoming
      <3> QED BY <3>1, <3>2
    <2>4. add_intervals(d, i, 1) \in 0..ClockMax
      BY <2>1, <2>3, AddOne
    <2> HIDE DEF d
    <2>5. clock' \in Clocks
      BY <1>8, <2>4 DEF Begin, d, TypeOK, Clocks
    <2>6. decision' \in [Presenters -> Decisions]
      BY <1>8, <2>2, <2>3 DEF Begin, d, TypeOK, Decisions
    <2> QED BY <1>8, <2>5, <2>6 DEF Begin, Lock, TypeOK
  <1>9. ASSUME NEW p \in Presenters, Interrupt(p)
        PROVE  TypeOK'
    <2>1. decision' \in [Presenters -> Decisions]
      <3>1. decision[p] \in Decisions
        BY DEF TypeOK
      <3>2. [decision[p] EXCEPT !.eintr = @ + 1] \in Decisions
        BY <1>9, <3>1 DEF Interrupt, Decisions
      <3>3. decision' = [decision EXCEPT
                             ![p] = [decision[p] EXCEPT !.eintr = @ + 1]]
        BY <1>9 DEF Interrupt
      <3> QED BY <3>2, <3>3 DEF TypeOK
    <2> QED BY <1>9, <2>1 DEF Interrupt, TypeOK
  <1>10. ASSUME NEW p \in Presenters, Wake(p)
         PROVE  TypeOK'
    <2>1. /\ recent \in Seq(0..MaxNow) /\ Len(recent) \in 0..3
          /\ now \in 0..MaxNow /\ recent' = Push(recent, now)
      BY <1>10 DEF Wake, TypeOK
    <2> DEFINE S == 0..MaxNow
    <2>3. Pushed(S, recent, now, recent')
      <3> HIDE DEF S
      <3>1. /\ recent \in Seq(S) /\ Len(recent) \in 0..3
            /\ now \in S /\ recent' = Push(recent, now)
        BY <2>1 DEF S
      <3> QED BY <3>1, PushType
    <2>2. recent' \in Seq(0..MaxNow) /\ Len(recent') \in 0..3
      BY <2>3 DEF Pushed
    <2> QED BY <1>10, <2>2 DEF Wake, Unlock, TypeOK
  <1> QED
    BY <1>1, <1>2, <1>3, <1>4, <1>5, <1>6, <1>7, <1>8, <1>9, <1>10 DEF Next

\* Every step keeps the mutex exclusive while the clock lives.
LEMMA StepExclusion ==
    ASSUME TypeOK, Exclusion, [Next]_vars
    PROVE  Exclusion'
  <1> USE ClockAssumption DEF Exclusion, TypeOK
  <1>1. CASE UNCHANGED vars
    BY <1>1 DEF vars
  <1>2. CASE Tick
    BY <1>2 DEF Tick
  <1>3. CASE ChangeLimit
    BY <1>3 DEF ChangeLimit
  <1>4. CASE Destroy
    BY <1>4 DEF Destroy
  <1>5. ASSUME NEW p \in Presenters, Enter(p)
        PROVE  Exclusion'
    BY <1>5 DEF Enter
  <1>6. ASSUME NEW p \in Presenters, Off(p)
        PROVE  Exclusion'
    BY <1>6 DEF Off, LockUnlock
  <1>7. ASSUME NEW p \in Presenters, First(p)
        PROVE  Exclusion'
    BY <1>7 DEF First, LockUnlock
  <1>8. ASSUME NEW p \in Presenters, Begin(p)
        PROVE  Exclusion'
    <2> SUFFICES ASSUME initialized'
                 PROVE  /\ ~destroyed'
                        /\ \A q \in Presenters :
                               pc'[q] = "sleeping" <=> mutex' = q
                        /\ mutex' # Nobody =>
                               clock'.started /\ fps'[mutex'] = clock'.fps
      BY DEF Exclusion
    <2>1. ~destroyed /\ mutex = Nobody /\ mutex' = p
      BY <1>8 DEF Begin, Lock
    <2>2. clock'.started /\ clock'.fps = fps[p] /\ fps' = fps
      BY <1>8 DEF Begin, Clocks
    <2>3. \A q \in Presenters : pc'[q] = "sleeping" <=> mutex' = q
      BY <1>8, <2>1 DEF Begin
    <2> QED BY <1>8, <2>1, <2>2, <2>3 DEF Begin
  <1>9. ASSUME NEW p \in Presenters, Interrupt(p)
        PROVE  Exclusion'
    BY <1>9 DEF Interrupt
  <1>10. ASSUME NEW p \in Presenters, Wake(p)
         PROVE  Exclusion'
    BY <1>10 DEF Wake, Unlock
  <1> QED
    BY <1>1, <1>2, <1>3, <1>4, <1>5, <1>6, <1>7, <1>8, <1>9, <1>10 DEF Next

\* The part of the invariant that speaks of deadlines and frames.
Frames == Grid /\ RateBound /\ NoBurst

\* Steps that let no frame through and leave the clock alone keep it.
LEMMA FramesFrame ==
    ASSUME TypeOK, Frames,
           UNCHANGED <<initialized, mutex, clock, recent, start, released>>,
           now' \in Nat, now <= now',
           Pacing /\ mutex # Nobody =>
               /\ decision'[mutex].observed = decision[mutex].observed
               /\ decision'[mutex].deadline = decision[mutex].deadline
    PROVE  Frames'
  <1> USE DEF Frames
  <1> SUFFICES ASSUME Pacing PROVE Frames'
    BY DEF Grid, RateBound, NoBurst, Pacing
  <1>0. Pacing' /\ clock'.fps = clock.fps
    BY DEF Pacing
  <1> DEFINE i == Interval(clock.fps)
  <1>1. i \in Nat \ {0} /\ now \in Nat /\ start \in Nat /\ released \in Nat
    BY IntervalType DEF Grid, TypeOK
  <1>2. NoBurst'
    BY <1>0 DEF NoBurst
  <1>3. RateBound'
    <2>1. (released - 1) * i \in Int
      BY <1>1
    <2> QED BY <1>0, <1>1, <2>1 DEF RateBound
  <1>4. Grid'
    <2>1. \A k \in 1..Len(recent) : recent[k] <= now'
      <3> SUFFICES ASSUME NEW k \in 1..Len(recent) PROVE recent[k] <= now'
        OBVIOUS
      <3>0. recent \in Seq(0..MaxNow)
        BY DEF TypeOK
      <3>1. recent[k] \in 0..MaxNow
        BY <3>0, ElementOfSeq
      <3> QED BY <1>1, <3>1 DEF Grid
    <2>2. clock.next \in Nat
      BY ClockAssumption DEF TypeOK, Clocks
    <2>3. /\ Valid(clock'.fps) /\ clock'.fps \in Limits
          /\ start' <= now' /\ released' >= 1 /\ Len(recent') >= 1
      BY <1>1 DEF Grid
    <2>4. CASE mutex = Nobody
      <3>1. clock'.next <= now' + Interval(clock'.fps)
        BY <1>0, <1>1, <2>2, <2>4 DEF Grid
      <3>2. Covers(clock.next)'
        BY <2>4 DEF Grid, Covers
      <3> QED BY <2>1, <2>3, <2>4, <3>1, <3>2 DEF Grid
    <2>5. CASE mutex # Nobody
      <3> DEFINE d == decision[mutex]
      <3>1. d'.observed = d.observed /\ d'.deadline = d.deadline
        BY <2>5
      <3>2. d.observed \in Nat /\ d.observed <= now
        BY <2>5 DEF Grid, TypeOK, Decisions
      <3>3. /\ d'.observed <= now'
            /\ d'.observed < d'.deadline
            /\ d'.deadline <= d'.observed + Interval(clock'.fps)
            /\ recent'[Len(recent')] <= d'.observed
            /\ clock'.next = add_intervals(d'.deadline, Interval(clock'.fps), 1)
        BY <1>1, <2>5, <3>1, <3>2 DEF Grid
      <3>4. Covers(d.deadline)
        BY <2>5 DEF Grid
      <3> HIDE DEF d
      <3>5. Covers(d.deadline)'
        BY <3>1, <3>4 DEF Covers
      <3> QED BY <2>1, <2>3, <2>5, <3>3, <3>5 DEF Grid, d
    <2> QED BY <2>4, <2>5
  <1> QED BY <1>2, <1>3, <1>4

\* The first frame of a limit opens a new grid.
LEMMA FirstFrames ==
    ASSUME TypeOK, Exclusion, NEW p \in Presenters, First(p)
    PROVE  Frames'
  <1> USE DEF Frames
  <1> SUFFICES ASSUME Pacing' PROVE Frames'
    BY DEF Grid, RateBound, NoBurst, Pacing
  <1> DEFINE i == Interval(fps[p])
             n == add_intervals(now, i, 1)
  <1>1. i \in Nat \ {0} /\ now \in Nat /\ now \in 0..ClockMax /\ now < ClockMax
    BY IntervalType, ClockAssumption DEF First, TypeOK
  <1>2. /\ n \in 0..ClockMax
        /\ n = now + i \/ (n = ClockMax /\ ClockMax < now + i)
    BY <1>1, AddOne
  <1>3. mutex' = Nobody /\ ~destroyed
    BY DEF First, LockUnlock, Exclusion, Pacing
  <1>4. clock'.fps = fps[p] /\ clock'.next = n
    BY DEF First
  <1>5. recent' = <<now>> /\ start' = now /\ released' = 1 /\ now' = now
    BY DEF First
  <1> HIDE DEF n, i
  <1>6. Valid(fps[p]) /\ fps[p] \in Limits
    BY DEF First, TypeOK, Valid
  <1>7. Interval(clock'.fps) = i
    BY <1>4 DEF i
  <1>8. Len(recent') = 1 /\ \A k \in 1..Len(recent') : recent'[k] <= now'
    BY <1>1, <1>5
  <1>9. Covers(clock.next)'
    <2>1. 1 * i = i
      BY <1>1
    <2> QED BY <1>1, <1>2, <1>4, <1>5, <1>7, <1>8, <2>1 DEF Covers
  <1>10. Grid'
    BY <1>1, <1>2, <1>3, <1>4, <1>5, <1>6, <1>7, <1>8, <1>9, ClockAssumption
       DEF Grid
  <1>11. RateBound'
    <2>1. (1 - 1) * i = 0
      BY <1>1
    <2> QED BY <1>1, <1>5, <1>7, <2>1 DEF RateBound
  <1>12. NoBurst'
    BY <1>8 DEF NoBurst
  <1> QED BY <1>10, <1>11, <1>12

\* A frame that is given a deadline leaves the grid one interval beyond it.
LEMMA BeginFrames ==
    ASSUME TypeOK, Exclusion, Frames, NEW p \in Presenters, Begin(p)
    PROVE  Frames'
  <1> USE DEF Frames
  <1> SUFFICES ASSUME Pacing' PROVE Frames'
    BY DEF Grid, RateBound, NoBurst, Pacing
  <1> DEFINE i == Interval(clock.fps)
             d == Upcoming(clock.next, i, now)
  <1>0. Pacing /\ fps[p] = clock.fps
    BY DEF Begin, Pacing
  <1>1. ~destroyed /\ mutex = Nobody /\ mutex' = p /\ p # Nobody
    BY <1>0, ClockAssumption DEF Begin, Lock, Exclusion, Pacing
  <1>2. /\ i \in Nat \ {0} /\ now \in 0..MaxNow
        /\ clock.next \in 0..ClockMax /\ clock.next <= now + i
    BY <1>0, <1>1, IntervalType DEF Grid, TypeOK, Clocks
  <1>3. d \in 0..ClockMax /\ now < d /\ d <= now + i /\ clock.next <= d
    BY <1>2, UpcomingAhead
  <1>4. clock'.fps = clock.fps /\ clock'.next = add_intervals(d, i, 1)
    BY <1>0 DEF Begin, TypeOK, Clocks
  <1>5. decision'[p].observed = now /\ decision'[p].deadline = d
    BY <1>0 DEF Begin, TypeOK
  <1>6. UNCHANGED <<recent, start, released, now>>
    BY DEF Begin
  <1> HIDE DEF d
  <1>7. Interval(clock'.fps) = i
    BY <1>4
  <1> HIDE DEF i
  <1>8. Covers(clock.next)
    BY <1>0, <1>1 DEF Grid
  <1>9. Covers(decision[mutex].deadline)'
    <2>1. start \in Nat /\ released * i \in Nat
      BY <1>2 DEF TypeOK
    <2>2. CASE clock.next = ClockMax
      <3>1. d = ClockMax
        BY <1>3, <2>2, ClockAssumption
      <3> QED BY <1>1, <1>5, <3>1 DEF Covers
    <2>3. CASE clock.next # ClockMax
      <3>1. start + released * i <= clock.next
        BY <1>8, <2>3 DEF Covers, i
      <3>2. start + released * i <= d
        BY <1>2, <1>3, <2>1, <3>1, ClockAssumption
      <3>3. ASSUME Len(recent) > 1 PROVE recent[Len(recent) - 1] + i < d
        <4>1. recent \in Seq(0..MaxNow) /\ Len(recent) - 1 \in 1..Len(recent)
          BY <3>3 DEF TypeOK
        <4>2. recent[Len(recent) - 1] \in 0..MaxNow
          BY <4>1, ElementOfSeq
        <4>3. recent[Len(recent) - 1] + i < clock.next
          BY <1>8, <2>3, <3>3 DEF Covers, i
        <4> QED BY <1>2, <1>3, <4>2, <4>3, ClockAssumption
      <3> QED BY <1>1, <1>5, <1>6, <1>7, <3>2, <3>3 DEF Covers
    <2> QED BY <2>2, <2>3
  <1>10. recent[Len(recent)] <= now /\ \A k \in 1..Len(recent) : recent[k] <= now
    <2>1. Len(recent) \in 1..Len(recent)
      BY <1>0 DEF Grid, TypeOK
    <2> QED BY <1>0, <2>1 DEF Grid
  <1>11. Grid'
    <2>1. /\ Valid(clock'.fps) /\ clock'.fps \in Limits
          /\ start' <= now' /\ released' >= 1 /\ Len(recent') >= 1
          /\ \A k \in 1..Len(recent') : recent'[k] <= now'
      BY <1>0, <1>4, <1>6, <1>10 DEF Grid
    <2>2. now \in Nat
      BY <1>2, ClockAssumption
    <2> QED BY <1>1, <1>2, <1>3, <1>4, <1>5, <1>6, <1>7, <1>9, <1>10, <2>1, <2>2
            DEF Grid
  <1>12. RateBound' /\ NoBurst'
    BY <1>0, <1>4, <1>6 DEF RateBound, NoBurst
  <1> QED BY <1>11, <1>12

\* A frame let through at or after its deadline keeps budget and spacing.
LEMMA WakeFrames ==
    ASSUME TypeOK, Exclusion, Frames, NEW p \in Presenters, Wake(p)
    PROVE  Frames'
  <1> USE DEF Frames
  <1> SUFFICES ASSUME Pacing' PROVE Frames'
    BY DEF Grid, RateBound, NoBurst, Pacing
  <1> DEFINE i == Interval(clock.fps)
             d == decision[p].deadline
             o == decision[p].observed
             r == recent
  <1>0. Pacing /\ mutex = p /\ p # Nobody /\ mutex' = Nobody
    BY ClockAssumption DEF Wake, Pacing, Exclusion, Unlock
  <1>1. /\ i \in Nat \ {0} /\ now \in 0..MaxNow /\ start \in Nat
        /\ released \in Nat /\ d \in 0..ClockMax /\ o \in 0..MaxNow
    BY <1>0, IntervalType DEF Grid, TypeOK, Decisions
  <1>2. /\ d <= now /\ o < d /\ d <= o + i /\ start <= now /\ released >= 1
        /\ r[Len(r)] <= o /\ Len(r) >= 1 /\ Covers(d)
        /\ clock.next = add_intervals(d, i, 1)
        /\ \A k \in 1..Len(r) : r[k] <= now
    BY <1>0 DEF Grid, Wake
  <1>3. UNCHANGED <<clock, start, now>> /\ released' = released + 1
    BY DEF Wake
  <1> DEFINE w == Push(r, now)
  <1>w. /\ recent' = w /\ w = Push(r, now)
    BY DEF Wake
  <1>7. r \in Seq(0..MaxNow) /\ Len(r) \in 0..3
    BY DEF TypeOK
  <1> HIDE DEF i, d, o, w, r
  <1>4. d # ClockMax
    BY <1>1, <1>2, ClockAssumption
  <1>5. start + released * i <= d /\ (Len(r) > 1 => r[Len(r) - 1] + i < d)
    BY <1>2, <1>4 DEF Covers, i, r
  <1>6. clock.next = d + i \/ (clock.next = ClockMax /\ ClockMax < d + i)
    BY <1>1, <1>2, AddOne
  <1>8. /\ w \in Seq(0..MaxNow)
        /\ Len(w) \in 1..3 /\ Len(w) >= 1
        /\ w[Len(w)] = now
        /\ Len(w) > 1 => w[Len(w) - 1] = r[Len(r)]
        /\ Len(w) = 3 => w[1] = r[Len(r) - 1]
        /\ Len(w) > 2 => Len(r) > 1
        /\ Len(w) > 1 => Len(r) > 0
        /\ \A k \in 1..Len(w) : w[k] = now \/ \E j \in 1..Len(r) : w[k] = r[j]
    <2> DEFINE S == 0..MaxNow
    <2>1. now \in S /\ r \in Seq(S) /\ Len(r) \in 0..3 /\ w = Push(r, now)
      BY <1>1, <1>7, <1>w
    <2> HIDE DEF S, r, w
    <2>2. Pushed(S, r, now, w)
      BY <2>1, PushType
    <2>3. ASSUME Len(w) = 3 PROVE w[1] = r[Len(r) - 1]
      BY <2>1, <2>3, PushOldest
    <2> QED BY <2>2, <2>3 DEF S, Pushed
  <1>9. r[Len(r)] \in Nat
    <2>1. Len(r) \in 1..Len(r)
      BY <1>2, <1>7
    <2>2. r[Len(r)] \in 0..MaxNow
      BY <1>7, <2>1, ElementOfSeq
    <2> QED BY <2>2, ClockAssumption
  <1>10. released * i \in Nat /\ (released + 1) * i = released * i + i
    BY <1>1
  <1> Interval(clock'.fps) = i
    BY <1>3 DEF i
  <1>11. RateBound'
    <2>1. (released' - 1) * i = released * i
      BY <1>1, <1>3
    <2> QED BY <1>1, <1>2, <1>3, <1>5, <1>10, <2>1, ClockAssumption
            DEF RateBound
  <1>12. NoBurst'
    <2> SUFFICES ASSUME Len(w) = 3
                 PROVE  w[3] - w[1] > i
      BY <1>w DEF NoBurst
    <2>1. w[3] = now /\ w[1] = r[Len(r) - 1] /\ Len(r) > 1
      BY <1>8
    <2>2. r[Len(r) - 1] \in Nat
      <3>1. Len(r) - 1 \in 1..Len(r)
        BY <1>7, <2>1
      <3>2. r[Len(r) - 1] \in 0..MaxNow
        BY <1>7, <3>1, ElementOfSeq
      <3> QED BY <3>2, ClockAssumption
    <2> QED BY <1>1, <1>2, <1>5, <2>1, <2>2, ClockAssumption
  <1>13. Covers(clock.next)'
    <2>1. CASE clock.next = ClockMax
      BY <1>3, <2>1 DEF Covers
    <2>2. CASE clock.next = d + i
      <3>0. \A s, m, x, y \in Nat : s + m <= x => s + (m + y) <= x + y
        OBVIOUS
      <3>3. start \in Nat /\ d \in Nat /\ i \in Nat /\ released * i \in Nat
        BY <1>1, <1>10, ClockAssumption
      <3>1. start' + released' * i <= clock'.next
        BY <1>3, <1>5, <1>10, <2>2, <3>0, <3>3
      <3>4. \A x, y \in Nat : x <= y /\ y < d => x + i < d + i
        BY <3>3
      <3>5. o \in Nat /\ r[Len(r)] <= o /\ o < d
        BY <1>1, <1>2, ClockAssumption
      <3>6. r[Len(r)] + i < d + i
        BY <1>9, <3>4, <3>5
      <3>2. Len(w) > 1 => w[Len(w) - 1] + i < clock'.next
        BY <1>3, <1>8, <2>2, <3>6
      <3> QED BY <1>w, <3>1, <3>2 DEF Covers
    <2> QED BY <1>6, <2>1, <2>2
  <1>14. clock'.next <= now' + i
    BY <1>1, <1>2, <1>3, <1>6, ClockAssumption
  <1>15. \A k \in 1..Len(w) : w[k] <= now'
    <2> SUFFICES ASSUME NEW k \in 1..Len(w) PROVE w[k] <= now'
      OBVIOUS
    <2>1. CASE w[k] = now
      BY <1>1, <1>3, <2>1, ClockAssumption
    <2>2. CASE \E j \in 1..Len(r) : w[k] = r[j]
      BY <1>2, <1>3, <2>2
    <2> QED BY <1>8, <2>1, <2>2
  <1>16. Grid'
    <2>1. /\ Valid(clock'.fps) /\ clock'.fps \in Limits
          /\ start' <= now' /\ released' >= 1 /\ Len(w) >= 1
      <3>1. Valid(clock'.fps) /\ clock'.fps \in Limits
        BY <1>0, <1>3 DEF Grid
      <3> QED BY <1>1, <1>2, <1>3, <1>8, <3>1
    <2> QED BY <1>0, <1>w, <1>13, <1>14, <1>15, <2>1 DEF Grid
  <1> QED BY <1>11, <1>12, <1>16

\* Every step keeps deadlines and frames in order.
LEMMA StepFrames ==
    ASSUME TypeOK, Exclusion, Frames, [Next]_vars
    PROVE  Frames'
  <1>0. now \in Nat /\ now + 1 \in Nat /\ now <= now + 1
    BY ClockAssumption DEF TypeOK
  <1>1. CASE UNCHANGED vars
    BY <1>0, <1>1, FramesFrame DEF vars
  <1>2. CASE Tick
    BY <1>0, <1>2, FramesFrame DEF Tick
  <1>3. CASE ChangeLimit
    BY <1>0, <1>3, FramesFrame DEF ChangeLimit
  <1>4. CASE Destroy
    BY <1>4 DEF Destroy, Frames, Grid, RateBound, NoBurst, Pacing
  <1>5. ASSUME NEW p \in Presenters, Enter(p)
        PROVE  Frames'
    <2>1. Pacing /\ mutex # Nobody => mutex # p /\ mutex \in Presenters
      BY <1>5 DEF Enter, Exclusion, Pacing, TypeOK
    <2>2. Pacing /\ mutex # Nobody => decision'[mutex] = decision[mutex]
      BY <1>5, <2>1 DEF Enter, TypeOK
    <2> QED BY <1>0, <1>5, <2>2, FramesFrame DEF Enter
  <1>6. ASSUME NEW p \in Presenters, Off(p)
        PROVE  Frames'
    BY <1>6 DEF Off, Frames, Grid, RateBound, NoBurst, Pacing
  <1>7. ASSUME NEW p \in Presenters, First(p)
        PROVE  Frames'
    BY <1>7, FirstFrames
  <1>8. ASSUME NEW p \in Presenters, Begin(p)
        PROVE  Frames'
    BY <1>8, BeginFrames
  <1>9. ASSUME NEW p \in Presenters, Interrupt(p)
        PROVE  Frames'
    <2>1. mutex # Nobody =>
              /\ decision'[mutex].observed = decision[mutex].observed
              /\ decision'[mutex].deadline = decision[mutex].deadline
      BY <1>9 DEF Interrupt, TypeOK, Decisions
    <2> QED BY <1>0, <1>9, <2>1, FramesFrame DEF Interrupt
  <1>10. ASSUME NEW p \in Presenters, Wake(p)
         PROVE  Frames'
    BY <1>10, WakeFrames
  <1> QED
    BY <1>1, <1>2, <1>3, <1>4, <1>5, <1>6, <1>7, <1>8, <1>9, <1>10 DEF Next
-----------------------------------------------------------------------------
\* The inductive invariant holds in every reachable state.
THEOREM Inductive == Spec => []IInv
  <1>1. IInv /\ [Next]_vars => IInv'
    BY StepType, StepExclusion, StepFrames DEF IInv, Frames
  <1> QED BY InitInv, <1>1, PTL DEF Spec

\* pacer_clock.c: the variables keep their types; in particular no deadline
\* passes UINT64_MAX, whatever is added to it.
THEOREM TypeCorrect == Spec => []TypeOK
  <1>1. IInv => TypeOK
    BY DEF IInv
  <1> QED BY Inductive, <1>1, PTL

\* pacer_clock.c:63-76: the frame budget is never exceeded, for any number
\* of threads, any limits and any stalls.
THEOREM RateIsBounded == Spec => []RateBound
  <1>1. IInv => RateBound
    BY DEF IInv
  <1> QED BY Inductive, <1>1, PTL

\* pacer_clock.c:63-70: a stall is never followed by a burst.
THEOREM StallsEarnNoCredit == Spec => []NoBurst
  <1>1. IInv => NoBurst
    BY DEF IInv
  <1> QED BY Inductive, <1>1, PTL

\* pacer_clock.c:72-76: the mutex is held for at most one interval at a time.
THEOREM HoldIsBounded == Spec => []BoundedHold
  <1>1. IInv => BoundedHold
    <2> SUFFICES ASSUME IInv, NEW p \in Presenters, initialized,
                        pc[p] = "sleeping"
                 PROVE  /\ decision[p].observed < decision[p].deadline
                        /\ decision[p].deadline <=
                               decision[p].observed + Interval(fps[p])
      BY DEF BoundedHold
    <2>1. mutex = p /\ p # Nobody /\ clock.started /\ fps[p] = clock.fps
      BY ClockAssumption DEF IInv, Exclusion
    <2> QED BY <2>1 DEF IInv, Grid, Pacing
  <1> QED BY Inductive, <1>1, PTL
-----------------------------------------------------------------------------
\* Every step of the clock is a step of the rate limiter, or none.
LEMMA LimiterStep ==
    ASSUME IInv, IInv', [Next]_vars
    PROVE  [Limiter!Next]_(Limiter!vars)
  <1> DEFINE I == IF Pacing THEN Interval(clock.fps) ELSE 0
             B == IF Pacing THEN start ELSE 0
             R == IF Pacing THEN released ELSE 0
  <1> USE DEF IInv
  <1>1. ASSUME UNCHANGED <<now, I, B, R>>
        PROVE  [Limiter!Next]_(Limiter!vars)
    BY <1>1 DEF Limiter!vars
  <1>2. ASSUME now' = now, I' = 0, B' = 0, R' = 0
        PROVE  [Limiter!Next]_(Limiter!vars)
    BY <1>2 DEF Limiter!Next, Limiter!Lift
  <1>3. ASSUME now' = now + 1, UNCHANGED <<I, B, R>>
        PROVE  [Limiter!Next]_(Limiter!vars)
    BY <1>3 DEF Limiter!Next, Limiter!Tick
  <1>4. CASE UNCHANGED vars
    BY <1>1, <1>4 DEF vars, Pacing
  <1>5. CASE Tick
    BY <1>3, <1>5 DEF Tick, Pacing
  <1>6. CASE ChangeLimit
    BY <1>1, <1>6 DEF ChangeLimit, Pacing
  <1>7. CASE Destroy
    BY <1>2, <1>7 DEF Destroy, Pacing
  <1>8. ASSUME NEW p \in Presenters, Enter(p)
        PROVE  [Limiter!Next]_(Limiter!vars)
    BY <1>1, <1>8 DEF Enter, Pacing
  <1>9. ASSUME NEW p \in Presenters, Off(p)
        PROVE  [Limiter!Next]_(Limiter!vars)
    BY <1>2, <1>9 DEF Off, Pacing
  <1>10. ASSUME NEW p \in Presenters, First(p)
         PROVE  [Limiter!Next]_(Limiter!vars)
    <2>1. CASE ~initialized
      BY <1>1, <1>10, <2>1 DEF First, Pacing
    <2>2. CASE initialized
      <3>1. Pacing' /\ now' = now
        BY <1>10, <2>2 DEF First, Pacing
      <3>2. I' = Interval(fps[p]) /\ B' = now /\ R' = 1
        BY <1>10, <3>1 DEF First
      <3>3. fps[p] \in {g \in Limits : Valid(g)}
        BY <1>10 DEF First, TypeOK, Valid
      <3>4. I' \in {Interval(f) : f \in {g \in Limits : Valid(g)}}
        BY <3>2, <3>3
      <3> QED BY <3>1, <3>2, <3>4 DEF Limiter!Next, Limiter!Restart
    <2> QED BY <2>1, <2>2
  <1>11. ASSUME NEW p \in Presenters, Begin(p)
         PROVE  [Limiter!Next]_(Limiter!vars)
    <2>1. clock'.started = clock.started /\ clock'.fps = clock.fps
      BY <1>11 DEF Begin, TypeOK, Clocks
    <2> QED BY <1>1, <1>11, <2>1 DEF Begin, Pacing
  <1>12. ASSUME NEW p \in Presenters, Interrupt(p)
         PROVE  [Limiter!Next]_(Limiter!vars)
    BY <1>1, <1>12 DEF Interrupt, Pacing
  <1>13. ASSUME NEW p \in Presenters, Wake(p)
         PROVE  [Limiter!Next]_(Limiter!vars)
    <2>1. CASE ~Pacing
      BY <1>1, <1>13, <2>1 DEF Wake, Pacing
    <2>2. CASE Pacing
      <3> DEFINE i == Interval(clock.fps)
      <3>1. Pacing' /\ UNCHANGED <<now, clock, start>> /\ released' = released + 1
        BY <1>13, <2>2 DEF Wake, Pacing
      <3>2. I' = I /\ B' = B /\ R' = R + 1 /\ I = i /\ B = start /\ R = released
        BY <2>2, <3>1
      <3>3. i \in Nat \ {0} /\ released \in Nat /\ now \in Int /\ start \in Int
        BY <2>2, IntervalType DEF Grid, TypeOK
      <3>4. (released' - 1) * i <= now - start
        BY <3>1 DEF RateBound
      <3>5. released * i <= now - start
        BY <3>1, <3>3, <3>4
      <3> HIDE DEF i
      <3> QED BY <3>1, <3>2, <3>3, <3>5 DEF Limiter!Next, Limiter!Release
    <2> QED BY <2>1, <2>2
  <1> QED
    BY <1>4, <1>5, <1>6, <1>7, <1>8, <1>9, <1>10, <1>11, <1>12, <1>13 DEF Next

\* pacer_clock.c: mutex, grid, saturation and tear-down together implement
\* the abstract rate limiter.
THEOREM ImplementsRateLimiter == Spec => RefinesRateLimiter
  <1>1. Init => Limiter!Init
    BY ClockAssumption DEF Init, Limiter!Init, Pacing
  <1>2. IInv /\ IInv' /\ [Next]_vars => [Limiter!Next]_(Limiter!vars)
    BY LimiterStep
  <1> QED
    BY <1>1, <1>2, Inductive, PTL DEF Spec, RefinesRateLimiter, Limiter!Spec
-----------------------------------------------------------------------------
\* The pace a limit asks for; the values out of range all mean "none".
Pace(f) == IF Valid(f) THEN f ELSE 0

\* The pace the clock keeps.
Kept == IF clock.started THEN clock.fps ELSE 0

\* Threads about to enter the clock with a pace that is no longer wanted.
Stale == {p \in Presenters : pc[p] = "entry" /\ Pace(fps[p]) # Pace(limit)}

\* How often the clock may still be restarted if the limit does not change
\* again.  A stale thread may move the clock away, and another one back.  If
\* all are stale, one of them has to pass before any can bring the new limit;
\* it restarts nothing when it wants what the clock keeps.
Budget ==
    IF Stale = Presenters
    THEN 2 * Cardinality(Presenters)
           - (IF \A p \in Presenters : Pace(fps[p]) = Kept THEN 1 ELSE 0)
    ELSE 2 * Cardinality(Stale) + (IF Kept = Pace(limit) THEN 0 ELSE 1)

\* The strengthening of RestartsBounded: what was spent and what is left.
RestartInv ==
    /\ clock.started => Valid(clock.fps)
    /\ restarts + Budget <=
           1 + changes * (2 * Cardinality(Presenters) - 1)

\* Sizes of the sets the budget counts.
LEMMA StaleCounts ==
    /\ Cardinality(Presenters) \in Nat \ {0}
    /\ Cardinality(Stale) \in Nat
    /\ Cardinality(Stale) <= Cardinality(Presenters)
    /\ Stale # Presenters => Cardinality(Stale) < Cardinality(Presenters)
    /\ \A p \in Stale : /\ Cardinality(Stale \ {p}) = Cardinality(Stale) - 1
                         /\ Cardinality(Stale) >= 1
  <1>1. Stale \subseteq Presenters
    BY DEF Stale
  <1>2. Cardinality(Presenters) \in Nat /\ Cardinality(Presenters) # 0
    BY PresentersAssumption, FS_CardinalityType, FS_EmptySet
  <1>3. /\ IsFiniteSet(Stale)
        /\ Cardinality(Stale) <= Cardinality(Presenters)
        /\ Cardinality(Stale) = Cardinality(Presenters) => Stale = Presenters
    BY <1>1, PresentersAssumption, FS_Subset
  <1>4. Cardinality(Stale) \in Nat
    BY <1>3, FS_CardinalityType
  <1>5. \A p \in Stale : Cardinality(Stale \ {p}) = Cardinality(Stale) - 1
    BY <1>3, FS_RemoveElement
  <1>6. Stale # {} => Cardinality(Stale) # 0
    BY <1>3, FS_EmptySet
  <1> QED BY <1>2, <1>3, <1>4, <1>5, <1>6

\* What the budget is at least and at most.
LEMMA BudgetRange ==
    /\ Budget \in Nat
    /\ Budget <= 2 * Cardinality(Presenters)
    /\ Budget >= 2 * Cardinality(Stale) - 1
    /\ Stale # Presenters => Budget >= 2 * Cardinality(Stale)
    /\ Kept = Pace(limit) => Budget = 2 * Cardinality(Stale)
  <1> DEFINE n == Cardinality(Presenters)
             s == Cardinality(Stale)
             a == IF \A p \in Presenters : Pace(fps[p]) = Kept THEN 1 ELSE 0
             b == IF Kept = Pace(limit) THEN 0 ELSE 1
  <1>1. /\ n \in Nat \ {0} /\ s \in Nat /\ s <= n
        /\ Stale # Presenters => s < n
    BY StaleCounts
  <1>2. a \in {0, 1} /\ b \in {0, 1} /\ (Kept = Pace(limit) => b = 0)
    OBVIOUS
  <1>3. Stale = Presenters /\ Kept = Pace(limit) => a = 0
    <2> SUFFICES ASSUME Stale = Presenters, Kept = Pace(limit)
                 PROVE  ~ \A p \in Presenters : Pace(fps[p]) = Kept
      OBVIOUS
    <2> PICK p \in Presenters : TRUE
      BY PresentersAssumption
    <2> QED BY DEF Stale
  <1>4. Budget = IF Stale = Presenters THEN 2 * n - a ELSE 2 * s + b
    BY DEF Budget
  <1>5. Stale = Presenters => s = n
    OBVIOUS
  <1> HIDE DEF n, s, a, b
  <1>6. CASE Stale = Presenters
    BY <1>1, <1>2, <1>3, <1>4, <1>5, <1>6 DEF n, s
  <1>7. CASE Stale # Presenters
    BY <1>1, <1>2, <1>4, <1>7 DEF n, s
  <1> QED BY <1>6, <1>7

\* The bounds on the budget that a change of the limit needs, in the state
\* it leads to.
BudgetBounds ==
    /\ Budget \in Nat
    /\ Budget <= 2 * Cardinality(Presenters)
    /\ Stale # Presenters => Budget <= 2 * Cardinality(Presenters) - 1

LEMMA BudgetBounded == BudgetBounds
  <1> DEFINE n == Cardinality(Presenters)
             s == Cardinality(Stale)
             b == IF Kept = Pace(limit) THEN 0 ELSE 1
  <1>1. n \in Nat /\ s \in Nat /\ (Stale # Presenters => s < n)
    BY StaleCounts
  <1>2. Stale # Presenters => Budget = 2 * s + b
    BY DEF Budget
  <1>3. b \in {0, 1}
    OBVIOUS
  <1> HIDE DEF n, s, b
  <1>4. Stale # Presenters => Budget <= 2 * n - 1
    BY <1>1, <1>2, <1>3
  <1> QED BY <1>4, BudgetRange DEF n, BudgetBounds

LEMMA BudgetBoundedNext == BudgetBounds'
  BY BudgetBounded, PTL

\* Steps of a thread that is not stale, and those that do not concern the
\* clock, leave the budget as it is.
LEMMA BudgetFrame ==
    ASSUME Stale' = Stale, Kept' = Kept, Pace(limit)' = Pace(limit),
           Stale = Presenters => fps' = fps
    PROVE  Budget' = Budget
  BY DEF Budget, Pace, Valid

\* A stale thread has passed: its share is given back, and the clock is now
\* possibly at another pace than the one wanted.
LEMMA StalePasses ==
    ASSUME NEW p \in Stale, Stale' = Stale \ {p}
    PROVE  Budget' \in Nat /\ Budget' <= 2 * Cardinality(Stale) - 1
  <1>1. p \in Presenters /\ Stale' # Presenters
    BY DEF Stale
  <1>2. Cardinality(Stale') = Cardinality(Stale) - 1
    BY StaleCounts
  <1>3. Budget' = 2 * Cardinality(Stale')
                    + (IF Kept' = Pace(limit)' THEN 0 ELSE 1)
    BY <1>1 DEF Budget
  <1>4. Cardinality(Stale) \in Nat /\ Cardinality(Stale) >= 1
    BY StaleCounts
  <1> DEFINE s == Cardinality(Stale)
             b == IF Kept' = Pace(limit)' THEN 0 ELSE 1
  <1>5. b \in {0, 1}
    OBVIOUS
  <1>6. Budget' = 2 * (s - 1) + b
    BY <1>2, <1>3
  <1> HIDE DEF s, b
  <1> QED BY <1>4, <1>5, <1>6 DEF s

\* Each change of the limit adds its share to the bound.
LEMMA OneChangeMore ==
    ASSUME NEW c \in Nat, NEW k \in Int
    PROVE  (c + 1) * k = c * k + k
  OBVIOUS

\* What is spent is taken from what is left.
LEMMA Spend ==
    ASSUME NEW r \in Nat, NEW b \in Nat, NEW r2 \in Nat, NEW b2 \in Nat
    PROVE  /\ r2 = r /\ b2 <= b => r2 + b2 <= r + b
           /\ r2 = r + 1 /\ b2 + 1 <= b => r2 + b2 <= r + b
  OBVIOUS

LEMMA Renew ==
    ASSUME NEW r \in Nat, NEW b \in Nat, NEW b2 \in Nat, NEW c \in Int,
           NEW k \in Nat, r + b <= 1 + c, b2 <= b + k
    PROVE  r + b2 <= 1 + (c + k)
  OBVIOUS

LEMMA WithinBound ==
    ASSUME NEW a \in Int, NEW b \in Int, NEW c \in Int, a <= b, b <= 1 + c
    PROVE  a <= 1 + c
  OBVIOUS

\* Every step keeps the account of restarts.
LEMMA StepRestarts ==
    ASSUME TypeOK, RestartInv, [Next]_vars
    PROVE  RestartInv'
  <1> DEFINE n == Cardinality(Presenters)
             s == Cardinality(Stale)
             k == 2 * n - 1
             m == changes * k
  <1>0. /\ n \in Nat \ {0} /\ s \in Nat /\ s <= n
        /\ changes \in Nat /\ restarts \in Nat
    BY StaleCounts DEF TypeOK
  <1>m. k \in Nat /\ k >= 1 /\ k = 2 * n - 1 /\ m \in Int
    BY <1>0
  <1>n. Budget \in Nat
    BY BudgetRange
  <1>r. restarts + Budget <= 1 + m
    BY DEF RestartInv
  <1>v. clock.started => Valid(clock.fps)
    BY DEF RestartInv
  <1>f. ASSUME changes' = changes, restarts' \in Nat, Budget' \in Nat,
               restarts' + Budget' <= restarts + Budget,
               clock'.started => Valid(clock'.fps)
        PROVE  RestartInv'
    <2> HIDE DEF k, m, n
    <2>0. restarts + Budget \in Int /\ restarts' + Budget' \in Int
      BY <1>0, <1>n, <1>f
    <2>1. restarts' + Budget' <= 1 + m
      BY <1>m, <1>r, <1>f, <2>0, WithinBound
    <2>2. Valid(clock.fps)' <=> Valid(clock'.fps)
      BY DEF Valid
    <2> QED BY <1>f, <2>1, <2>2 DEF m, k, n, RestartInv
  <1>s. ASSUME changes' = changes, restarts' = restarts, Stale' = Stale,
               Kept' = Kept, limit' = limit, Stale = Presenters => fps' = fps,
               clock'.started => Valid(clock'.fps)
        PROVE  RestartInv'
    <2>1. Budget' = Budget
      BY <1>s, BudgetFrame DEF Pace, Valid
    <2>2. restarts' + Budget' <= restarts + Budget
      BY <1>0, <1>n, <1>s, <2>1
    <2> QED BY <1>0, <1>n, <1>s, <1>f, <2>1, <2>2
  <1>b. /\ Budget >= 2 * s - 1
        /\ Stale # Presenters => Budget >= 2 * s
        /\ Kept = Pace(limit) => Budget = 2 * s
    BY BudgetRange
  <1> HIDE DEF n, s, k, m
  <1>1. CASE UNCHANGED vars
    BY <1>1, <1>v, <1>s DEF vars, Stale, Kept, Pace, Valid
  <1>2. CASE Tick
    BY <1>2, <1>v, <1>s DEF Tick, Stale, Kept, Pace, Valid
  <1>3. CASE ChangeLimit
    <2>0. UNCHANGED <<clock, pc, fps, restarts>> /\ changes' = changes + 1
      BY <1>3 DEF ChangeLimit
    <2>1. Budget' \in Nat /\ Budget' <= Budget + k
      <3>1. CASE Pace(limit)' = Pace(limit)
        <4>1. Stale' = Stale /\ Kept' = Kept
          BY <2>0, <3>1 DEF Stale, Kept, Pace, Valid
        <4> QED BY <1>m, <1>n, <2>0, <3>1, <4>1, BudgetFrame
      <3>2. CASE Budget >= 1
        <4>1. Budget' \in Nat /\ Budget' <= 2 * n
          BY BudgetBoundedNext DEF BudgetBounds, n
        <4> QED BY <1>0, <1>m, <1>n, <3>2, <4>1
      <3>3. CASE Budget = 0 /\ Pace(limit)' # Pace(limit)
        <4>1. s = 0 /\ Stale # Presenters
          <5>1. Stale = Presenters => s = n
            BY DEF s, n
          <5> QED BY <1>0, <1>b, <3>3, <5>1
        <4>2. Kept = Pace(limit)
          BY <1>0, <3>3, <4>1 DEF Budget, s
        <4>3. Stale = {}
          <5>1. \A p \in Stale : s >= 1
            BY StaleCounts DEF s
          <5> QED BY <4>1, <5>1
        <4>4. Stale' # Presenters => Budget' <= k
          BY <1>m, BudgetBoundedNext DEF BudgetBounds, n
        <4>5. Stale' = Presenters => Budget' = k
          <5> SUFFICES ASSUME Stale' = Presenters
                       PROVE  Budget' = k
            OBVIOUS
          <5>1. \A p \in Presenters : Pace(fps[p]) = Pace(limit)
            BY <2>0, <4>3 DEF Stale
          <5>2. \A p \in Presenters : Pace(fps[p])' = Kept'
            BY <2>0, <4>2, <5>1 DEF Kept, Pace, Valid
          <5> QED BY <1>m, <5>2 DEF Budget, n
        <4>6. Budget' \in Nat
          BY BudgetBoundedNext DEF BudgetBounds
        <4> QED BY <1>m, <3>3, <4>4, <4>5, <4>6
      <3> QED BY <1>n, <3>1, <3>2, <3>3
    <2>2. changes' * k = m + k
      BY <1>0, <1>m, <2>0, OneChangeMore DEF m
    <2>3. restarts' + Budget' <= 1 + changes' * k
      <3>1. restarts + Budget' <= 1 + (m + k)
        BY <1>0, <1>m, <1>n, <1>r, <2>1, Renew
      <3> QED BY <2>0, <2>2, <3>1
    <2>4. clock'.started => Valid(clock.fps)'
      BY <1>v, <2>0 DEF Valid
    <2> QED BY <2>3, <2>4 DEF RestartInv, k, n
  <1>4. CASE Destroy
    BY <1>4, <1>v, <1>s DEF Destroy, Stale, Kept, Pace, Valid
  <1>5. ASSUME NEW p \in Presenters, Enter(p)
        PROVE  RestartInv'
    <2>1. Stale' = Stale
      BY <1>5 DEF Enter, Stale, Pace, Valid, TypeOK
    <2>2. Stale # Presenters
      BY <1>5 DEF Enter, Stale
    <2> QED BY <1>5, <1>v, <1>s, <2>1, <2>2 DEF Enter, Kept
  \* What the three ways through the mutex have in common.
  <1>e. ASSUME NEW p \in Presenters, pc[p] = "entry",
               NEW w \in {"idle", "sleeping"}, pc' = [pc EXCEPT ![p] = w],
               UNCHANGED <<limit, fps>>
        PROVE  /\ Stale' = Stale \ {p}
               /\ p \notin Stale =>
                      Pace(fps[p]) = Pace(limit) /\ Stale # Presenters
    BY <1>e DEF Stale, Pace, Valid, TypeOK
  <1>p. ASSUME NEW p \in Stale, Stale' = Stale \ {p}
        PROVE  Budget' \in Nat /\ Budget' <= 2 * s - 1
    BY <1>p, StalePasses DEF s
  <1>c. ASSUME Stale' = Stale, Stale # Presenters, Kept' = Pace(limit)'
        PROVE  Budget' = 2 * s
    BY <1>0, <1>c DEF Budget, s
  <1>6. ASSUME NEW p \in Presenters, Off(p)
        PROVE  RestartInv'
    <2>0. /\ Stale' = Stale \ {p} /\ restarts' = restarts
          /\ changes' = changes /\ ~clock'.started
          /\ p \notin Stale => Pace(fps[p]) = Pace(limit) /\ Stale # Presenters
      BY <1>6, <1>e DEF Off
    <2>1. Budget' \in Nat /\ Budget' <= Budget
      <3>1. CASE p \in Stale
        BY <1>0, <1>b, <1>p, <1>n, <2>0, <3>1
      <3>2. CASE p \notin Stale
        <4>1. Kept' = Pace(limit)'
          BY <1>6, <2>0, <3>2 DEF Off, Kept, Pace, Valid
        <4>2. Stale' = Stale /\ Stale # Presenters
          BY <2>0, <3>2
        <4>3. Budget' = 2 * s
          BY <1>c, <4>1, <4>2
        <4> QED BY <1>0, <1>b, <4>2, <4>3
      <3> QED BY <3>1, <3>2
    <2>2. restarts' + Budget' <= restarts + Budget
      BY <1>0, <1>n, <2>0, <2>1, Spend
    <2> QED BY <1>0, <1>f, <2>0, <2>1, <2>2
  <1>7. ASSUME NEW p \in Presenters, First(p)
        PROVE  RestartInv'
    <2>0. /\ Stale' = Stale \ {p} /\ restarts' = restarts + 1
          /\ changes' = changes
          /\ clock'.started /\ clock'.fps = fps[p] /\ Valid(fps[p])
          /\ limit' = limit
          /\ p \notin Stale => Pace(fps[p]) = Pace(limit) /\ Stale # Presenters
      BY <1>7, <1>e DEF First
    <2>1. Pace(fps[p]) # Kept
      BY <1>7 DEF First, Pace, Kept, Valid, TypeOK, Clocks
    <2>2. Budget' \in Nat /\ Budget' + 1 <= Budget
      <3>1. CASE p \in Stale
        <4>1. Budget >= 2 * s
          <5>1. CASE Stale = Presenters
            <6>1. Budget = 2 * n /\ s = n
              BY <1>0, <2>1, <5>1 DEF Budget, n, s
            <6> QED BY <1>0, <6>1
          <5>2. CASE Stale # Presenters
            BY <1>b, <5>2
          <5> QED BY <5>1, <5>2
        <4> QED BY <1>0, <1>p, <1>n, <2>0, <3>1, <4>1
      <3>2. CASE p \notin Stale
        <4>1. Kept' = Pace(limit)'
          BY <2>0, <3>2 DEF Kept, Pace, Valid
        <4>2. Stale' = Stale /\ Stale # Presenters
          BY <2>0, <3>2
        <4>3. Budget' = 2 * s
          BY <1>c, <4>1, <4>2
        <4>4. Budget = 2 * s + 1
          BY <2>0, <2>1, <3>2, <4>2 DEF Budget, s
        <4> QED BY <1>0, <4>3, <4>4
      <3> QED BY <3>1, <3>2
    <2>3. restarts' \in Nat
      BY <1>0, <2>0
    <2>4. restarts' + Budget' <= restarts + Budget
      BY <1>0, <1>n, <2>0, <2>2, <2>3, Spend
    <2> QED BY <1>f, <2>0, <2>2, <2>3, <2>4
  <1>8. ASSUME NEW p \in Presenters, Begin(p)
        PROVE  RestartInv'
    <2>0. /\ Stale' = Stale \ {p} /\ restarts' = restarts
          /\ changes' = changes /\ limit' = limit /\ fps' = fps
          /\ p \notin Stale => Stale # Presenters
      BY <1>8, <1>e DEF Begin
    <2>1. clock'.started = clock.started /\ clock'.fps = clock.fps
      BY <1>8 DEF Begin, TypeOK, Clocks
    <2>2. CASE p \notin Stale
      BY <1>s, <1>v, <2>0, <2>1, <2>2 DEF Kept
    <2>3. CASE p \in Stale
      <3>1. Budget' \in Nat /\ Budget' <= 2 * s - 1
        BY <1>p, <2>0, <2>3
      <3>2. Budget' <= Budget
        BY <1>0, <1>b, <1>n, <3>1
      <3>3. restarts' + Budget' <= restarts + Budget
        BY <1>0, <1>n, <2>0, <3>1, <3>2, Spend
      <3> QED BY <1>0, <1>f, <1>v, <2>0, <2>1, <3>1, <3>3
    <2> QED BY <2>2, <2>3
  <1>9. ASSUME NEW p \in Presenters, Interrupt(p)
        PROVE  RestartInv'
    BY <1>9, <1>v, <1>s DEF Interrupt, Stale, Kept, Pace, Valid
  <1>10. ASSUME NEW p \in Presenters, Wake(p)
         PROVE  RestartInv'
    <2>1. Stale' = Stale
      BY <1>10 DEF Wake, Stale, Pace, Valid, TypeOK
    <2> QED BY <1>10, <1>v, <1>s, <2>1 DEF Wake, Kept
  <1> QED
    BY <1>1, <1>2, <1>3, <1>4, <1>5, <1>6, <1>7, <1>8, <1>9, <1>10 DEF Next

\* frame_pacer_layer.c:101-122: polls that are out of date when they reach
\* the clock restart it a bounded number of times for each change of the
\* limit, for any number of threads.
THEOREM FewRestarts == Spec => []RestartsBounded
  <1>1. Init => RestartInv
    <2> SUFFICES ASSUME Init PROVE RestartInv
      OBVIOUS
    <2>1. Stale = {} /\ Stale # Presenters /\ ~clock.started
      BY PresentersAssumption DEF Init, Stale
    <2>2. Cardinality(Stale) = 0
      BY <2>1, FS_EmptySet
    <2>3. Budget \in {0, 1}
      BY <2>1, <2>2 DEF Budget
    <2>4. restarts = 0 /\ changes * (2 * Cardinality(Presenters) - 1) = 0
      BY StaleCounts DEF Init
    <2> QED BY <2>1, <2>3, <2>4 DEF RestartInv
  <1>2. TypeOK /\ RestartInv /\ [Next]_vars => RestartInv'
    BY StepRestarts
  <1>3. TypeOK /\ RestartInv => RestartsBounded
    <2> SUFFICES ASSUME TypeOK, RestartInv PROVE RestartsBounded
      OBVIOUS
    <2> DEFINE m == changes * (2 * Cardinality(Presenters) - 1)
    <2>1. m \in Int /\ restarts \in Nat /\ Budget \in Nat
      BY StaleCounts, BudgetRange DEF TypeOK
    <2>2. restarts + Budget <= 1 + m
      BY DEF RestartInv
    <2> HIDE DEF m
    <2>3. restarts <= 1 + m
      BY <2>1, <2>2
    <2> QED BY <2>3 DEF m, RestartsBounded
  <1> QED BY <1>1, <1>2, <1>3, TypeCorrect, PTL DEF Spec

=============================================================================
