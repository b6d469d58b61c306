------------------------------- MODULE HudFps -------------------------------
(***************************************************************************)
(* The frame counter of the HUD (src/src/hud_fps.c).  A thread whose       *)
(* present was accepted reads the clock and then records the present under *)
(* the tracker's mutex, so that readings may arrive out of order.          *)
(***************************************************************************)
EXTENDS Integers, Sequences

CONSTANTS
    Threads,      \* threads that present
    Second,       \* clock units in a second
    SampleNs,     \* FRAME_PACER_FPS_SAMPLE_NS
    StaleNs,      \* FRAME_PACER_FPS_STALE_NS
    MaxTime,      \* bound: the last instant
    MaxPresents   \* bound: presents in one window

ASSUME FpsAssumption == SampleNs \in Nat /\ StaleNs \in Nat

VARIABLES
    time,       \* CLOCK_MONOTONIC
    accepted,   \* per thread: the reading it has yet to record, or 0
    tracker,    \* [started, valid, start, last, intervals, fps]
    window,     \* history: the presents recorded since sample_start_ns
    complete    \* history: those of the window the last sample was taken over

fvars == <<time, accepted, tracker, window, complete>>

\* frame_pacer_fps_init.
FpsInit ==
    /\ time = 1
    /\ accepted = [t \in Threads |-> 0]
    /\ tracker = [started |-> FALSE, valid |-> FALSE, start |-> 0, last |-> 0,
                  intervals |-> 0, fps |-> 0]
    /\ window = <<>> /\ complete = <<>>

Tick ==
    /\ time < MaxTime
    /\ time' = time + 1
    /\ UNCHANGED <<accepted, tracker, window, complete>>

\* The backend accepted the present; the clock is read without the mutex.
Accepted(t) ==
    /\ accepted[t] = 0 /\ Len(window) < MaxPresents
    /\ accepted' = [accepted EXCEPT ![t] = time]
    /\ UNCHANGED <<time, tracker, window, complete>>

\* Mutant: only a long pause starts over.
Restart_pause(now) == ~tracker.started \/ now - tracker.last > StaleNs

\* A first present, a reading from before the last one, or a long pause.
Restart(now) ==
    \/ ~tracker.started
    \/ now < tracker.last
    \/ now - tracker.last > StaleNs

\* The rate of `n' presents in `elapsed', rounded to the nearest.
Rate(n, elapsed) == (2 * n * Second + elapsed) \div (2 * elapsed)

Restarted(now) ==
    [started |-> TRUE, valid |-> FALSE, start |-> now, last |-> now,
     intervals |-> 0, fps |-> tracker.fps]

\* frame_pacer_fps_record_present.
Record(t) ==
    LET now == accepted[t]
        n == tracker.intervals + 1
        elapsed == now - tracker.start
    IN
    /\ now # 0
    /\ accepted' = [accepted EXCEPT ![t] = 0]
    /\ \/ /\ Restart(now)
          /\ tracker' = Restarted(now)
          /\ window' = <<now>>
          /\ UNCHANGED complete
       \/ /\ ~Restart(now) /\ elapsed < SampleNs
          /\ tracker' = [tracker EXCEPT !.last = now, !.intervals = n]
          /\ window' = Append(window, now)
          /\ UNCHANGED complete
       \/ /\ ~Restart(now) /\ elapsed >= SampleNs
          /\ tracker' = [started |-> TRUE, valid |-> TRUE, start |-> now,
                         last |-> now, intervals |-> 0, fps |-> Rate(n, elapsed)]
          /\ complete' = Append(window, now)
          /\ window' = <<now>>
    /\ UNCHANGED time

FpsNext == Tick \/ \E t \in Threads : Accepted(t) \/ Record(t)

FpsSpec == FpsInit /\ [][FpsNext]_fvars

-----------------------------------------------------------------------------
\* hud_fps.c:21-61.  A rate the HUD may show is the cadence of consecutive
\* presents over at least the sample time, in order and without a pause; it
\* ends where the counting now under way began.
FpsIsCadence ==
    LET n == Len(complete) IN
    tracker.valid =>
        /\ complete[n] - complete[1] >= SampleNs
        /\ \A k \in 1..n - 1 : complete[k + 1] - complete[k] \in 0..StaleNs
        /\ tracker.fps = Rate(n - 1, complete[n] - complete[1])
        /\ window[1] = complete[n]
=============================================================================
