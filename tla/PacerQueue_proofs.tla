------------------------- MODULE PacerQueue_proofs -------------------------
(***************************************************************************)
(* The submit fallback, proved for every set of queues, every quiet time   *)
(* and every bound: FallbackSound.                                         *)
(*                                                                         *)
(* What a queue remembers of its last present (pacer[q].last) is read from *)
(* the clock after the driver took it, so it is never before shownAt[q],   *)
(* except between the driver's answer and the note of it, when the call    *)
(* under way is the present itself and no submit can be.                   *)
(***************************************************************************)
EXTENDS PacerQueue, TLAPS

States == [registered : BOOLEAN, has : BOOLEAN, last : Nat, submits : Nat,
           active : BOOLEAN]

Calls == [at : {"idle", "decide", "forward", "paced", "present", "accepted"},
          now : Nat]

QTypeOK ==
    /\ instant \in Nat \ {0}
    /\ executable \in Names
    /\ pacer \in [Handles -> States]
    /\ call \in [Handles -> Calls]
    /\ shownAt \in [Handles -> Nat]
    /\ reports \in [Handles -> Seq({"entered", "ended"})]

\* What the queue believes of its last present, against what the driver did.
Remembered ==
    \A q \in Handles :
        /\ pacer[q].has /\ call[q].at # "accepted" =>
               0 < shownAt[q] /\ shownAt[q] <= pacer[q].last
        /\ call[q].at = "accepted" => 0 < shownAt[q] /\ shownAt[q] <= instant

\* A call that has passed its lookup keeps its queue registered.
InUse ==
    \A q \in Handles :
        call[q].at \in {"paced", "present", "accepted"} => pacer[q].registered

QInv == QTypeOK /\ Remembered /\ InUse /\ FallbackSound

-----------------------------------------------------------------------------
\* What Append does to a sequence.
LEMMA AppendFacts ==
    ASSUME NEW S, NEW s \in Seq(S), NEW e \in S
    PROVE  /\ Append(s, e) \in Seq(S)
           /\ Len(Append(s, e)) = Len(s) + 1
           /\ DOMAIN Append(s, e) = 1..(Len(s) + 1)
           /\ \A k \in 1..Len(s) : Append(s, e)[k] = s[k]
           /\ Append(s, e)[Len(s) + 1] = e
           /\ Len(s) \in Nat /\ DOMAIN s = 1..Len(s)
<1>1. Append(s, e) \in Seq(S) /\ Len(Append(s, e)) = Len(s) + 1
  OBVIOUS
<1>2. Len(s) \in Nat /\ DOMAIN s = 1..Len(s)
  OBVIOUS
<1>3. DOMAIN Append(s, e) = 1..(Len(s) + 1)
  BY <1>1, <1>2
<1>4. \A k \in 1..Len(s) : Append(s, e)[k] = s[k]
  OBVIOUS
<1>5. Append(s, e)[Len(s) + 1] = e
  OBVIOUS
<1> QED BY <1>1, <1>2, <1>3, <1>4, <1>5

\* The executable whose rule forwards is the one whose policy is "forward".
LEMMA PolicyForwards ==
    ASSUME NEW name \in Names, Lower(name) = "risk of rain returns.exe"
    PROVE  quiet_submit_policy(name) = "forward"
<1> DEFINE r1 == [executable |-> "nwn2.exe", quiet_submit |-> "pace_every"]
           r2 == [executable |-> "Risk of Rain Returns.exe",
                  quiet_submit |-> "forward"]
           mine == {r \in rules : Lower(r.executable) = Lower(name)}
<1>1. Lower(r2.executable) = "risk of rain returns.exe"
  BY DEF Lower
<1>2. Lower(r1.executable) = "nwn2.exe"
  BY DEF Lower
<1>3. rules = {r1, r2} /\ r2.quiet_submit = "forward"
  BY DEF rules
<1> HIDE DEF r1, r2
<1>4. mine = {r2}
  BY <1>1, <1>2, <1>3
<1>5. mine # {} /\ (CHOOSE r \in mine : TRUE) = r2
  BY <1>4
<1> QED BY <1>3, <1>5 DEF quiet_submit_policy

\* The log alternates, and its length tells the state.
Told(log, on) ==
    /\ \A k \in DOMAIN log : log[k] = IF k % 2 = 1 THEN "entered" ELSE "ended"
    /\ on <=> Len(log) % 2 = 1

\* A start after an end (or at first), and the reverse.
LEMMA ToldStart ==
    ASSUME NEW log \in Seq({"entered", "ended"}), Told(log, FALSE)
    PROVE  Told(Append(log, "entered"), TRUE)
<1>1. Len(log) % 2 # 1 /\ Len(log) \in Nat
  BY DEF Told
<1>2. (Len(log) + 1) % 2 = 1
  BY <1>1
<1> DEFINE new == Append(log, "entered")
<1>3. /\ DOMAIN new = 1..(Len(log) + 1) /\ Len(new) = Len(log) + 1
      /\ \A k \in 1..Len(log) : new[k] = log[k]
      /\ new[Len(log) + 1] = "entered" /\ DOMAIN log = 1..Len(log)
  BY AppendFacts
<1> HIDE DEF new
<1>4. ASSUME NEW k \in DOMAIN new
      PROVE  new[k] = IF k % 2 = 1 THEN "entered" ELSE "ended"
  BY <1>1, <1>2, <1>3 DEF Told
<1>5. Told(new, TRUE)
  BY <1>2, <1>3, <1>4 DEF Told
<1> QED BY <1>5 DEF new

\* An end after a start.
LEMMA ToldEnd ==
    ASSUME NEW log \in Seq({"entered", "ended"}), Told(log, TRUE)
    PROVE  Told(Append(log, "ended"), FALSE)
<1>1. Len(log) % 2 = 1 /\ Len(log) \in Nat
  BY DEF Told
<1>2. (Len(log) + 1) % 2 # 1
  BY <1>1
<1> DEFINE new == Append(log, "ended")
<1>3. /\ DOMAIN new = 1..(Len(log) + 1) /\ Len(new) = Len(log) + 1
      /\ \A k \in 1..Len(log) : new[k] = log[k]
      /\ new[Len(log) + 1] = "ended" /\ DOMAIN log = 1..Len(log)
  BY AppendFacts
<1> HIDE DEF new
<1>4. ASSUME NEW k \in DOMAIN new
      PROVE  new[k] = IF k % 2 = 1 THEN "entered" ELSE "ended"
  BY <1>1, <1>2, <1>3 DEF Told
<1>5. Told(new, FALSE)
  BY <1>2, <1>3, <1>4 DEF Told
<1> QED BY <1>5 DEF new

-----------------------------------------------------------------------------
\* The invariant holds when no queue is registered.
LEMMA InitInv == QueueInit => QInv
<1> SUFFICES ASSUME QueueInit PROVE QInv
  OBVIOUS
<1>1. QTypeOK
  BY DEF QueueInit, QTypeOK, States, Calls, Absent, NoCall
<1>2. Remembered /\ InUse
  BY DEF QueueInit, Remembered, InUse, Absent, NoCall
<1>3. FallbackSound
  BY DEF QueueInit, FallbackSound, FallbackReported, OnlyQuietSubmitsPaced, Absent,
         NoCall
<1> QED BY <1>1, <1>2, <1>3 DEF QInv

\* What the invariant says of one queue, so that a step of one queue leaves
\* the others alone.
Mine(q) ==
    /\ pacer[q].has /\ call[q].at # "accepted" =>
           0 < shownAt[q] /\ shownAt[q] <= pacer[q].last
    /\ call[q].at = "accepted" => 0 < shownAt[q] /\ shownAt[q] <= instant
    /\ call[q].at \in {"paced", "present", "accepted"} => pacer[q].registered
    /\ pacer[q].registered => Told(reports[q], pacer[q].active)
    /\ call[q].at = "paced" =>
           /\ Lower(executable) # "risk of rain returns.exe"
           /\ shownAt[q] # 0
           /\ call[q].now > shownAt[q] + QuietNs

\* The invariant, queue by queue.
LEMMA InvByQueue == QInv <=> QTypeOK /\ \A q \in Handles : Mine(q)
BY Zenon DEF QInv, Remembered, InUse, FallbackSound, FallbackReported,
   OnlyQuietSubmitsPaced, Mine, Told

-----------------------------------------------------------------------------
\* A step of queue q that leaves what the invariant says of the other queues.
LEMMA OthersKept ==
    ASSUME QInv, QTypeOK', NEW q \in Handles,
           instant' = instant, executable' = executable,
           \A p \in Handles \ {q} :
               /\ pacer'[p] = pacer[p] /\ call'[p] = call[p]
               /\ shownAt'[p] = shownAt[p] /\ reports'[p] = reports[p],
           Mine(q)'
    PROVE  QInv'
<1>1. \A p \in Handles : Mine(p)
  BY InvByQueue
<1>2. ASSUME NEW p \in Handles, p # q
      PROVE  Mine(p)'
  BY <1>1, <1>2, Zenon DEF Mine
<1>3. \A p \in Handles : Mine(p)'
  BY <1>2
<1> QED BY <1>3, Zenon DEF QInv, Remembered, InUse, FallbackSound,
        FallbackReported, OnlyQuietSubmitsPaced, Mine, Told

\* Time only moves away from what was noted.
LEMMA TickKeeps == ASSUME QInv, Tick PROVE QInv'
<1>1. QTypeOK'
  BY DEF QInv, Tick, QTypeOK
<1>2. InUse' /\ FallbackSound'
  BY Zenon DEF QInv, Tick, InUse, FallbackSound, FallbackReported,
               OnlyQuietSubmitsPaced
<1>3. Remembered'
  <2> SUFFICES ASSUME NEW q \in Handles
               PROVE  /\ pacer[q].has /\ call[q].at # "accepted" =>
                             0 < shownAt[q] /\ shownAt[q] <= pacer[q].last
                      /\ call[q].at = "accepted" =>
                             0 < shownAt[q] /\ shownAt[q] <= instant'
    BY Zenon DEF Tick, Remembered
  <2>1. instant \in Nat /\ instant' = instant + 1 /\ shownAt[q] \in Nat
    BY DEF QInv, QTypeOK, Tick
  <2> QED BY <2>1 DEF QInv, Remembered
<1> QED BY <1>1, <1>2, <1>3 DEF QInv

\* vkCreateDevice: a zeroed state and an empty log.
LEMMA RegisterKeeps ==
    ASSUME QInv, NEW q \in Handles, Register(q) PROVE QInv'
<1> USE DEF Register
<1>0. QTypeOK /\ Mine(q)
  BY InvByQueue
<1>1. QTypeOK'
  <2>1. [Absent EXCEPT !.registered = TRUE] \in States
    BY DEF Absent, States
  <2>2. pacer' \in [Handles -> States]
    BY <1>0, <2>1 DEF QTypeOK
  <2>3. reports' \in [Handles -> Seq({"entered", "ended"})]
    BY <1>0 DEF QTypeOK
  <2> QED BY <1>0, <2>2, <2>3 DEF QTypeOK
<1>2. Told(<<>>, FALSE)
  BY DEF Told
<1>3. Mine(q)'
  BY <1>0, <1>2 DEF Mine, Absent, QTypeOK
<1> QED BY <1>0, <1>1, <1>3, OthersKept DEF QTypeOK

\* vkDestroyDevice: no call uses the queue.
LEMMA UnregisterKeeps ==
    ASSUME QInv, NEW q \in Handles, Unregister(q) PROVE QInv'
<1> USE DEF Unregister
<1>0. QTypeOK /\ Mine(q)
  BY InvByQueue
<1>1. QTypeOK'
  BY <1>0 DEF QTypeOK, States, Absent
<1>2. /\ ~pacer'[q].registered /\ ~pacer'[q].has
      /\ call'[q].at = "idle"
  BY <1>0 DEF Absent, NoCall, QTypeOK
<1>3. Mine(q)'
  BY <1>2 DEF Mine
<1> QED BY <1>0, <1>1, <1>3, OthersKept DEF QTypeOK

\* A submit begins: nothing is decided.
LEMMA SubmitKeeps ==
    ASSUME QInv, NEW q \in Handles, Submit(q) PROVE QInv'
<1> USE DEF Submit
<1>0. QTypeOK /\ Mine(q)
  BY InvByQueue
<1>1. QTypeOK'
  BY <1>0 DEF QTypeOK, Calls
<1>2. Mine(q)'
  BY <1>0 DEF Mine, NoCall, QTypeOK
<1> QED BY <1>0, <1>1, <1>2, OthersKept DEF QTypeOK

\* What a submit does to the state of its queue.
LEMMA SubmittedFacts ==
    ASSUME NEW s \in States, NEW now \in Nat
    PROVE  LET u == Submitted(s, now) IN
           /\ u \in States /\ u.registered = s.registered
           /\ u.has = s.has /\ u.last = s.last
           /\ Enters(s, now) => ~s.active /\ u.active
           /\ ~Enters(s, now) => u.active = s.active
<1> DEFINE u == Submitted(s, now)
<1>1. CASE Counts(s, now)
  <2>1. Incremented(s.submits) \in Nat
    BY QueueAssumption DEF Incremented, States
  <2>2. u = [s EXCEPT !.submits = Incremented(s.submits),
                      !.active = s.active \/ Quiet(s, now)]
    BY <1>1 DEF Submitted
  <2>3. CASE Quiet(s, now)
    <3>1. u = [s EXCEPT !.submits = Incremented(s.submits), !.active = TRUE]
      BY <2>2, <2>3
    <3> QED BY <1>1, <2>1, <2>3, <3>1 DEF Enters, States
  <2>4. CASE ~Quiet(s, now)
    <3>1. u = [s EXCEPT !.submits = Incremented(s.submits), !.active = s.active]
      BY <2>2, <2>4 DEF States
    <3> QED BY <2>1, <2>4, <3>1 DEF Enters, States
  <2> QED BY <2>3, <2>4
<1>2. CASE ~Counts(s, now)
  BY <1>2 DEF Submitted, Enters
<1> QED BY <1>1, <1>2

\* The decision: what it reads of the last present is not before what the
\* driver did, and the log gets a start only where there was none.
LEMMA DecideKeeps ==
    ASSUME QInv, NEW q \in Handles, Decide(q) PROVE QInv'
<1> DEFINE s == pacer[q]
           now == call[q].now
           forward == quiet_submit_policy(executable) = "forward" \/ ~s.registered
<1>0. QTypeOK /\ Mine(q) /\ call[q].at = "decide"
  BY InvByQueue DEF Decide
<1>1. s \in States /\ now \in Nat /\ call[q] \in Calls /\ reports[q] \in Seq({"entered", "ended"})
  BY <1>0 DEF QTypeOK, Calls
<1>2. CASE forward /\ call' = [call EXCEPT ![q].at = "forward"]
           /\ UNCHANGED <<instant, executable, pacer, shownAt, reports>>
  <2>1. QTypeOK'
    BY <1>0, <1>2 DEF QTypeOK, Calls
  <2>2. Mine(q)'
    BY <1>0, <1>2 DEF Mine, QTypeOK
  <2> QED BY <1>0, <1>2, <2>1, <2>2, OthersKept DEF QTypeOK
<1>3. CASE /\ ~forward
           /\ pacer' = [pacer EXCEPT ![q] = Submitted(s, now)]
           /\ reports' = IF Enters(s, now)
                         THEN [reports EXCEPT ![q] = Append(@, "entered")]
                         ELSE reports
           /\ call' = [call EXCEPT ![q].at =
                         IF Counts(s, now) /\ Quiet(s, now) THEN "paced"
                                                            ELSE "forward"]
           /\ UNCHANGED <<instant, executable, shownAt>>
  <2> DEFINE u == Submitted(s, now)
  <2>1. /\ u \in States /\ u.registered /\ u.has = s.has /\ u.last = s.last
        /\ Enters(s, now) => ~s.active /\ u.active
        /\ ~Enters(s, now) => u.active = s.active
    BY <1>1, <1>3, SubmittedFacts, Zenon
  <2>2. pacer' \in [Handles -> States] /\ pacer'[q] = u
    BY <1>0, <1>3, <2>1 DEF QTypeOK
  <2>3. /\ reports' \in [Handles -> Seq({"entered", "ended"})]
        /\ \A p \in Handles \ {q} : reports'[p] = reports[p]
        /\ reports'[q] = IF Enters(s, now) THEN Append(reports[q], "entered")
                                           ELSE reports[q]
    BY <1>0, <1>1, <1>3, AppendFacts DEF QTypeOK
  <2>4. /\ call' \in [Handles -> Calls] /\ call'[q].now = now
        /\ call'[q].at = IF Counts(s, now) /\ Quiet(s, now) THEN "paced"
                                                            ELSE "forward"
        /\ \A p \in Handles \ {q} : call'[p] = call[p]
    BY <1>0, <1>1, <1>3 DEF QTypeOK, Calls
  <2>5. QTypeOK'
    BY <1>0, <1>3, <2>2, <2>3, <2>4 DEF QTypeOK
  <2>6. Told(reports[q], s.active) /\ s.registered
    BY <1>0, <1>3 DEF Mine
  <2>7. Told(reports'[q], u.active)
    <3>1. CASE Enters(s, now)
      <4>1. s.active = FALSE /\ u.active = TRUE
        BY <3>1, <1>1, <2>1 DEF States
      <4> QED BY <1>1, <2>3, <2>6, <3>1, <4>1, ToldStart
    <3>2. CASE ~Enters(s, now)
      <4>1. u.active = s.active
        BY <3>2, <2>1
      <4> QED BY <2>3, <2>6, <3>2, <4>1
    <3> QED BY <3>1, <3>2
  <2>8. ASSUME Counts(s, now), Quiet(s, now)
        PROVE  /\ Lower(executable) # "risk of rain returns.exe"
               /\ shownAt[q] # 0 /\ now > shownAt[q] + QuietNs
    <3>1. Lower(executable) # "risk of rain returns.exe"
      BY <1>0, <1>3, PolicyForwards DEF QTypeOK
    <3>2. 0 < shownAt[q] /\ shownAt[q] <= s.last
      BY <1>0, <2>8 DEF Mine, Counts
    <3>3. shownAt[q] \in Nat /\ s.last \in Nat /\ QuietNs \in Nat
      BY <1>0, <1>1, QueueAssumption DEF QTypeOK, States
    <3>4. now > s.last /\ now - s.last > QuietNs
      BY <2>8 DEF Counts, Quiet
    <3> HIDE DEF s, now
    <3>5. shownAt[q] # 0 /\ now > shownAt[q] + QuietNs
      BY <1>1, <3>2, <3>3, <3>4
    <3> QED BY <3>1, <3>5
  <2>9. Mine(q)'
    <3>0. call'[q].at # "accepted"
      BY <2>4
    <3>1. pacer'[q].has /\ call'[q].at # "accepted" =>
              0 < shownAt'[q] /\ shownAt'[q] <= pacer'[q].last
      BY <1>0, <1>3, <2>1, <2>2 DEF Mine
    <3>2. pacer'[q].registered /\ Told(reports'[q], pacer'[q].active)
      BY <2>1, <2>2, <2>7
    <3>3. call'[q].at = "paced" =>
              /\ Lower(executable') # "risk of rain returns.exe"
              /\ shownAt'[q] # 0 /\ call'[q].now > shownAt'[q] + QuietNs
      <4> HIDE DEF s, now
      <4> SUFFICES ASSUME call'[q].at = "paced"
                   PROVE  /\ Lower(executable') # "risk of rain returns.exe"
                          /\ shownAt'[q] # 0
                          /\ call'[q].now > shownAt'[q] + QuietNs
        OBVIOUS
      <4>1. Counts(s, now) /\ Quiet(s, now)
        BY <2>4
      <4> QED BY <1>3, <2>4, <2>8, <4>1, Zenon
    <3> QED BY <3>0, <3>1, <3>2, <3>3 DEF Mine
  <2> QED BY <1>0, <1>3, <2>2, <2>3, <2>4, <2>5, <2>9, OthersKept DEF QTypeOK
<1> QED BY <1>2, <1>3, Zenon DEF Decide

\* A submit ends.
LEMMA SubmitReturnsKeeps ==
    ASSUME QInv, NEW q \in Handles, SubmitReturns(q) PROVE QInv'
<1> USE DEF SubmitReturns
<1>0. QTypeOK /\ Mine(q)
  BY InvByQueue
<1>1. QTypeOK'
  BY <1>0 DEF QTypeOK, Calls, NoCall
<1>2. Mine(q)'
  BY <1>0 DEF Mine, NoCall, QTypeOK
<1> QED BY <1>0, <1>1, <1>2, OthersKept DEF QTypeOK

\* A present begins on a registered queue.
LEMMA PresentKeeps ==
    ASSUME QInv, NEW q \in Handles, PresentBegins(q) PROVE QInv'
<1> USE DEF PresentBegins
<1>0. QTypeOK /\ Mine(q)
  BY InvByQueue
<1>1. QTypeOK'
  BY <1>0 DEF QTypeOK, Calls
<1>2. Mine(q)'
  BY <1>0 DEF Mine, NoCall, QTypeOK
<1> QED BY <1>0, <1>1, <1>2, OthersKept DEF QTypeOK

\* The driver takes the present; the note of it is to come.
LEMMA DriverAcceptsKeeps ==
    ASSUME QInv, NEW q \in Handles, DriverAccepts(q) PROVE QInv'
<1> USE DEF DriverAccepts
<1>0. QTypeOK /\ Mine(q)
  BY InvByQueue
<1>1. QTypeOK'
  BY <1>0 DEF QTypeOK, Calls
<1>2. Mine(q)'
  BY <1>0 DEF Mine, QTypeOK, Calls
<1> QED BY <1>0, <1>1, <1>2, OthersKept DEF QTypeOK

\* The driver refuses the present; nothing is noted.
LEMMA DriverRefusesKeeps ==
    ASSUME QInv, NEW q \in Handles, DriverRefuses(q) PROVE QInv'
<1> USE DEF DriverRefuses
<1>0. QTypeOK /\ Mine(q)
  BY InvByQueue
<1>1. QTypeOK'
  BY <1>0 DEF QTypeOK, Calls, NoCall
<1>2. Mine(q)'
  BY <1>0 DEF Mine, QTypeOK, NoCall
<1> QED BY <1>0, <1>1, <1>2, OthersKept DEF QTypeOK

\* The note of a present: the clock is read after the driver took it, which
\* needs the clock not to have gone back since.
LEMMA PresentReturnsKeeps ==
    ASSUME QInv, NEW q \in Handles, PresentReturns(q) PROVE QInv'
<1> DEFINE s == pacer[q]
           u == [note_present(s) EXCEPT !.last = NotedAt(s, instant)]
<1>0. QTypeOK /\ Mine(q) /\ call[q].at = "accepted"
  BY InvByQueue DEF PresentReturns
<1>1. /\ s \in States /\ s.registered /\ reports[q] \in Seq({"entered", "ended"})
      /\ instant \in Nat /\ 0 < shownAt[q] /\ shownAt[q] <= instant
  BY <1>0 DEF QTypeOK, Mine
<1>2. u \in States /\ u.registered /\ u.last = instant /\ u.active = FALSE
  BY <1>1 DEF note_present, NotedAt, States
<1>3. /\ pacer' \in [Handles -> States] /\ pacer'[q] = u
      /\ call' \in [Handles -> Calls] /\ call'[q].at = "idle"
      /\ \A p \in Handles \ {q} : pacer'[p] = pacer[p] /\ call'[p] = call[p]
  BY <1>0, <1>2 DEF PresentReturns, QTypeOK, Calls, NoCall
<1>4. /\ reports' \in [Handles -> Seq({"entered", "ended"})]
      /\ \A p \in Handles \ {q} : reports'[p] = reports[p]
      /\ reports'[q] = IF s.active THEN Append(reports[q], "ended")
                                   ELSE reports[q]
  BY <1>0, <1>1, AppendFacts DEF PresentReturns, QTypeOK
<1>5. QTypeOK'
  BY <1>0, <1>3, <1>4 DEF PresentReturns, QTypeOK
<1>6. Told(reports'[q], FALSE)
  <2>1. Told(reports[q], s.active) /\ s.active \in BOOLEAN
    BY <1>0, <1>1 DEF Mine, States
  <2>2. CASE s.active = TRUE
    BY <1>1, <1>4, <2>1, <2>2, ToldEnd
  <2>3. CASE s.active = FALSE
    BY <1>4, <2>1, <2>3
  <2> QED BY <2>1, <2>2, <2>3
<1>7. Mine(q)'
  <2> HIDE DEF u
  <2>1. shownAt'[q] = shownAt[q]
    BY DEF PresentReturns
  <2> QED BY <1>1, <1>2, <1>3, <1>6, <2>1 DEF Mine
<1> QED BY <1>0, <1>3, <1>4, <1>5, <1>7, OthersKept DEF PresentReturns, QTypeOK

\* Every step keeps the invariant.
LEMMA StepInv == ASSUME QInv, [QueueNext]_qvars PROVE QInv'
<1>1. CASE UNCHANGED qvars
  BY <1>1 DEF qvars, QInv, QTypeOK, Remembered, InUse, FallbackSound,
              FallbackReported, OnlyQuietSubmitsPaced
<1>2. CASE Tick
  BY <1>2, TickKeeps
<1>3. ASSUME NEW q \in Handles,
             \/ Register(q) \/ Unregister(q)
             \/ Submit(q) \/ Decide(q) \/ SubmitReturns(q)
             \/ PresentBegins(q) \/ DriverAccepts(q) \/ DriverRefuses(q)
             \/ PresentReturns(q)
      PROVE  QInv'
  BY <1>3, RegisterKeeps, UnregisterKeeps, SubmitKeeps, DecideKeeps,
     SubmitReturnsKeeps, PresentKeeps, DriverAcceptsKeeps, DriverRefusesKeeps,
     PresentReturnsKeeps
<1> QED BY <1>1, <1>2, <1>3 DEF QueueNext

\* pacer_queue.c:14-36, frame_pacer_layer.c:571-652: for any number of queues
\* and any quiet time, only submits of a queue whose last present the driver
\* took longer ago than that are delayed, none of an executable whose rule
\* forwards, and the log names each start and each end once, in turn.
THEOREM FallbackIsSound == QueueSpec => []FallbackSound
<1>1. QueueInit => QInv
  BY InitInv
<1>2. QInv /\ [QueueNext]_qvars => QInv'
  BY StepInv
<1>3. QInv => FallbackSound
  BY DEF QInv
<1> QED BY <1>1, <1>2, <1>3, PTL DEF QueueSpec
=============================================================================
