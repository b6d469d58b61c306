----------------------------- MODULE PacerQueue -----------------------------
(***************************************************************************)
(* The fallback of the Vulkan layer: a game that stops presenting but goes *)
(* on submitting is paced at its submits (pacer_queue.c, the compatibility *)
(* rules of pacer_compatibility.c, and vkQueueSubmit, vkQueueSubmit2,      *)
(* vkQueueSubmit2KHR and vkQueuePresentKHR of frame_pacer_layer.c).        *)
(*                                                                         *)
(* Vulkan makes the game serialise its calls on one queue, so a queue has  *)
(* one call under way at a time; calls on different queues interleave, and *)
(* the clock moves between any two of their steps (pace() sleeps there).   *)
(***************************************************************************)
EXTENDS Naturals, Sequences

CONSTANTS
    Handles,      \* queue handles
    QuietNs,      \* FRAME_PACER_PRESENT_QUIET_NS
    SubmitsMax,   \* UINT64_MAX, where submits_since_present stays
    MaxInstant    \* bound: the last instant

ASSUME QueueAssumption ==
    QuietNs \in Nat /\ SubmitsMax \in Nat /\ MaxInstant \in Nat

VARIABLES
    instant,      \* CLOCK_MONOTONIC
    executable,   \* frame_pacer_limit_executable()
    pacer,        \* per registered queue: struct frame_pacer_queue_state
    call,         \* per queue: the call under way
    shownAt,      \* history: when the driver last accepted a present, or 0
    reports       \* history: what was logged of the queue's fallback

qvars == <<instant, executable, pacer, call, shownAt, reports>>

Absent == [registered |-> FALSE, has |-> FALSE, last |-> 0, submits |-> 0,
           active |-> FALSE]

NoCall == [at |-> "idle", now |-> 0]

\* Executable names as the game's process may spell them; strcasecmp ignores
\* the case.
Names == {"", "game", "nwn2.exe", "NWN2.EXE", "Risk of Rain Returns.exe",
          "risk of rain returns.exe"}

Lower(name) ==
    CASE name = "NWN2.EXE" -> "nwn2.exe"
      [] name = "Risk of Rain Returns.exe" -> "risk of rain returns.exe"
      [] OTHER -> name

rules ==
    {[executable |-> "nwn2.exe", quiet_submit |-> "pace_every"],
     [executable |-> "Risk of Rain Returns.exe", quiet_submit |-> "forward"]}

\* The first rule for this executable; every submit is paced without one.
quiet_submit_policy(name) ==
    LET mine == {r \in rules : Lower(r.executable) = Lower(name)} IN
    IF mine = {} THEN "pace_every" ELSE (CHOOSE r \in mine : TRUE).quiet_submit

QueueInit ==
    /\ instant = 1
    /\ executable \in Names
    /\ pacer = [q \in Handles |-> Absent]
    /\ call = [q \in Handles |-> NoCall]
    /\ shownAt = [q \in Handles |-> 0]
    /\ reports = [q \in Handles |-> <<>>]

Tick ==
    /\ instant < MaxInstant
    /\ instant' = instant + 1
    /\ UNCHANGED <<executable, pacer, call, shownAt, reports>>

\* vkCreateDevice registers its queues with a zeroed state.
Register(q) ==
    /\ ~pacer[q].registered
    /\ pacer' = [pacer EXCEPT ![q] = [Absent EXCEPT !.registered = TRUE]]
    /\ shownAt' = [shownAt EXCEPT ![q] = 0]
    /\ reports' = [reports EXCEPT ![q] = <<>>]
    /\ UNCHANGED <<instant, executable, call>>

\* vkDestroyDevice drops them; no call may use them then.
Unregister(q) ==
    /\ pacer[q].registered /\ call[q] = NoCall
    /\ pacer' = [pacer EXCEPT ![q] = Absent]
    /\ UNCHANGED <<instant, executable, call, shownAt, reports>>

-----------------------------------------------------------------------------
(* Submits.                                                                *)

\* A submit reads the clock before it asks for the lock.
Submit(q) ==
    /\ call[q] = NoCall
    /\ call' = [call EXCEPT ![q] = [at |-> "decide", now |-> instant]]
    /\ UNCHANGED <<instant, executable, pacer, shownAt, reports>>

\* Whether the submit counts: a queue that never presented, and a reading
\* that is not after the last present, are left alone.
Counts(s, now) == s.has /\ now > s.last

Quiet(s, now) == now - s.last > QuietNs

Incremented(n) == IF n < SubmitsMax THEN n + 1 ELSE n

\* The submit that starts the fallback.
Enters(s, now) == Counts(s, now) /\ Quiet(s, now) /\ ~s.active

\* frame_pacer_queue_needs_fallback: the state it leaves.
Submitted(s, now) ==
    IF Counts(s, now)
    THEN [s EXCEPT !.submits = Incremented(@), !.active = @ \/ Quiet(s, now)]
    ELSE s

\* pace_submit_fallback up to its pace(): the policy, the decision under the
\* registry's lock, and the report of a fallback that starts.
Decide(q) ==
    LET s == pacer[q]
        now == call[q].now
        forward == \/ quiet_submit_policy(executable) = "forward"
                   \/ ~s.registered
    IN
    /\ call[q].at = "decide"
    /\ \/ /\ forward
          /\ call' = [call EXCEPT ![q].at = "forward"]
          /\ UNCHANGED <<pacer, reports>>
       \/ /\ ~forward
          /\ pacer' = [pacer EXCEPT ![q] = Submitted(s, now)]
          /\ reports' = IF Enters(s, now)
                        THEN [reports EXCEPT ![q] = Append(@, "entered")]
                        ELSE reports
          /\ call' = [call EXCEPT ![q].at =
                        IF Counts(s, now) /\ Quiet(s, now) THEN "paced"
                                                           ELSE "forward"]
    /\ UNCHANGED <<instant, executable, shownAt>>

\* The submit reaches the driver, or fails for want of a target.
SubmitReturns(q) ==
    /\ call[q].at \in {"forward", "paced"}
    /\ call' = [call EXCEPT ![q] = NoCall]
    /\ UNCHANGED <<instant, executable, pacer, shownAt, reports>>

-----------------------------------------------------------------------------
(* Presents.                                                               *)

\* A queue without a downstream target fails at once.
PresentBegins(q) ==
    /\ call[q] = NoCall /\ pacer[q].registered
    /\ call' = [call EXCEPT ![q] = [at |-> "present", now |-> 0]]
    /\ UNCHANGED <<instant, executable, pacer, shownAt, reports>>

\* pace(), then the driver accepts the present; the clock is read next.
DriverAccepts(q) ==
    /\ call[q].at = "present"
    /\ shownAt' = [shownAt EXCEPT ![q] = instant]
    /\ call' = [call EXCEPT ![q].at = "accepted"]
    /\ UNCHANGED <<instant, executable, pacer, reports>>

\* A present that fails leaves the queue as it is: a fallback goes on.
DriverRefuses(q) ==
    /\ call[q].at = "present"
    /\ call' = [call EXCEPT ![q] = NoCall]
    /\ UNCHANGED <<instant, executable, pacer, shownAt, reports>>

\* Mutant: a present in a fallback does not move the last present.
NotedAt_keeps(s, now) == IF s.active THEN s.last ELSE now

NotedAt(s, now) == now

\* frame_pacer_queue_note_present.
note_present(s) ==
    [s EXCEPT !.has = TRUE, !.submits = 0, !.active = FALSE]

\* The accepted present is noted, and a fallback that ends with it reported.
PresentReturns(q) ==
    LET s == pacer[q] IN
    /\ call[q].at = "accepted"
    /\ pacer' = [pacer EXCEPT ![q] =
                   [note_present(s) EXCEPT !.last = NotedAt(s, instant)]]
    /\ reports' = IF s.active THEN [reports EXCEPT ![q] = Append(@, "ended")]
                              ELSE reports
    /\ call' = [call EXCEPT ![q] = NoCall]
    /\ UNCHANGED <<instant, executable, shownAt>>

QueueNext ==
    \/ Tick
    \/ \E q \in Handles :
          \/ Register(q) \/ Unregister(q)
          \/ Submit(q) \/ Decide(q) \/ SubmitReturns(q)
          \/ PresentBegins(q) \/ DriverAccepts(q) \/ DriverRefuses(q)
          \/ PresentReturns(q)

QueueSpec == QueueInit /\ [][QueueNext]_qvars

-----------------------------------------------------------------------------
\* frame_pacer_layer.c:584-589 and 640-652, docs/troubleshooting.md:123: the
\* log says once when a queue's fallback starts and once when it ends, in
\* turn, and its last word is the state the queue is in.
FallbackReported ==
    \A q \in Handles :
        LET log == reports[q] IN
        pacer[q].registered =>
            /\ \A k \in DOMAIN log :
                  log[k] = IF k % 2 = 1 THEN "entered" ELSE "ended"
            /\ pacer[q].active <=> Len(log) % 2 = 1

\* pacer_queue.c:25-31, pacer_compatibility.c:17: a submit is delayed only on
\* a queue whose last present the driver took more than the quiet time before
\* the submit was made, and never for an executable whose rule forwards.
OnlyQuietSubmitsPaced ==
    \A q \in Handles : call[q].at = "paced" =>
        /\ Lower(executable) # "risk of rain returns.exe"
        /\ shownAt[q] # 0
        /\ call[q].now > shownAt[q] + QuietNs

\* Both: the fallback delays what it should, and the log tells the truth of it.
FallbackSound == FallbackReported /\ OnlyQuietSubmitsPaced
=============================================================================
