---------------------------- MODULE RateLimiter ----------------------------
(***************************************************************************)
(* What the pacing clock promises to the game, with no mutex, no deadline  *)
(* and no grid: while a limit of one frame per `interval' is in force, the *)
(* frames let through since it came into force never run ahead of the      *)
(* time that has gone by.  An interval of 0 means that no limit is in      *)
(* force, and any frame may pass.                                          *)
(***************************************************************************)
EXTENDS Naturals

CONSTANT Intervals      \* the frame intervals a limit can ask for

VARIABLES now,          \* monotonic time
          interval,     \* 0, or the interval in force
          start,        \* when that interval came into force
          released      \* frames let through since then, the first included

vars == <<now, interval, start, released>>

Init ==
    /\ now \in Nat
    /\ interval = 0
    /\ start = 0
    /\ released = 0

Tick == /\ now' = now + 1
        /\ UNCHANGED <<interval, start, released>>

\* A limit comes into force with the frame that first meets it.
Restart == /\ interval' \in Intervals
           /\ start' = now
           /\ released' = 1
           /\ UNCHANGED now

\* No limit any more (option off, or the backend is unloaded).
Lift == /\ interval' = 0
        /\ start' = 0
        /\ released' = 0
        /\ UNCHANGED now

\* One more frame, and only if the budget since `start' has room for it.
Release == /\ interval # 0
           /\ released * interval <= now - start
           /\ released' = released + 1
           /\ UNCHANGED <<now, interval, start>>

Next == Tick \/ Restart \/ Lift \/ Release

Spec == Init /\ [][Next]_vars
============================================================================
