----------------------------- MODULE Hud_proofs -----------------------------
(***************************************************************************)
(* Proofs about the two threads behind the HUD's telemetry.  First the     *)
(* cache with its sampling worker, for any number of drawing threads and   *)
(* any sampling interval that is not longer than a pause; then the client  *)
(* of the NVML helper, for every set of devices, any number of attempts    *)
(* and tries, and every bound; at the end both in one process.             *)
(***************************************************************************)
EXTENDS MCHud, FiniteSetTheorems, TLAPS

Times == Nat \cup {NoTime}

SampleT == [from: Times, to: Times, known: Nat]

CacheT == [initialized: BOOLEAN, request_ns: Times, request_pending: BOOLEAN,
           reset_pending: BOOLEAN, worker_started: BOOLEAN,
           worker_failed: BOOLEAN, stop: BOOLEAN]

JobT == [reset: BOOLEAN, sample: SampleT, known: Nat]

CacheTypeOK ==
    /\ now \in Nat /\ cache \in CacheT /\ snapshot \in SampleT
    /\ baseline \in Times /\ reading \in [Drawers -> Times]
    /\ worker \in {"none", "check", "waiting", "sampling", "publish", "exited"}
    /\ job \in JobT /\ owner \in {"idle", "joining", "done"}
    /\ asked \in Times /\ pause \in Nat /\ requests \in Nat
    /\ inverted \in BOOLEAN

\* What the clock gave out, it had reached; nobody draws once destroy began;
\* a worker exists exactly when one was started.
Ordered ==
    /\ \A d \in Drawers : reading[d] <= now
    /\ owner # "idle" => \A d \in Drawers : reading[d] = NoTime
    /\ pause <= now /\ cache.request_ns <= now
    /\ owner # "done" => (cache.worker_started <=> worker # "none")

\* The last request is the last question, or came before it.
Questioned ==
    owner # "done" => /\ asked = NoTime <=> cache.request_ns = NoTime
                      /\ cache.request_ns <= asked

\* A baseline from before the last pause will be dropped: the reset is
\* pending, or the sample under way has been told.
ResetDue ==
    baseline # NoTime /\ baseline < pause =>
        cache.reset_pending \/ (worker = "sampling" /\ job.reset)

\* ... and so a sample does not reach back across a pause that was known
\* when its request was taken.
JobWithin ==
    /\ worker = "sampling" /\ ~job.reset /\ baseline # NoTime =>
           baseline >= job.known
    /\ job.sample.from # NoTime => job.sample.from >= job.sample.known

UseKnown == snapshot.from # NoTime => snapshot.from >= snapshot.known

PauseInv == ResetDue /\ JobWithin /\ UseKnown

\* Requests are counted by the clock reading they were made with.
SpacedInv ==
    inverted \/ /\ requests <= 1 + now \div SampleNs
                /\ owner # "done" /\ cache.request_ns = NoTime => requests = 0
                /\ owner # "done" /\ cache.request_ns # NoTime =>
                       requests <= 1 + cache.request_ns \div SampleNs

Kept == CacheTypeOK /\ Ordered /\ Questioned
-----------------------------------------------------------------------------
LEMMA TimeFacts == NoTime \in Int /\ NoTime < 0 /\ NoTime \notin Nat /\ 0 \in Nat
BY DEF NoTime

LEMMA ConstTypes == Unavailable \in SampleT /\ NoJob \in JobT
BY DEF Unavailable, SampleT, NoJob, JobT, Times

LEMMA InitKept == Init => Kept
<1> SUFFICES ASSUME Init PROVE Kept
  OBVIOUS
<1>1. cache \in CacheT
  BY DEF Init, CacheT, Times
<1>2. CacheTypeOK
  BY <1>1, ConstTypes DEF Init, CacheTypeOK, Times
<1>3. Ordered
  BY DEF Init, Ordered, NoTime
<1>4. Questioned
  BY DEF Init, Questioned, NoTime
<1> QED BY <1>2, <1>3, <1>4 DEF Kept

\* The structure after a request, with or without a worker.
LEMMA RequestCache ==
    ASSUME cache \in CacheT, NEW t \in Nat, NEW created \in BOOLEAN
    PROVE  LET c == WithWorker(Requested(t), created) IN
           /\ c \in CacheT /\ c.request_ns = t
           /\ c.reset_pending <=> (cache.reset_pending \/ Stale(t))
           /\ c.worker_started <=>
                (cache.worker_started \/ (created /\ ~cache.worker_failed))
           /\ c.worker_started => c.request_pending
<1> DEFINE q == Requested(t)
<1>0. Stale(t) \in BOOLEAN
  BY DEF Stale
<1>1. /\ q \in CacheT /\ q.request_ns = t
      /\ q.reset_pending <=> (cache.reset_pending \/ Stale(t))
      /\ q.worker_started = cache.worker_started
      /\ q.worker_failed = cache.worker_failed /\ q.request_pending
  BY <1>0 DEF Requested, CacheT, Times
<1> HIDE DEF q
<1>2. CASE q.worker_started \/ q.worker_failed
  <2>1. WithWorker(q, created) = q
    BY <1>2 DEF WithWorker
  <2> QED BY <1>1, <1>2, <2>1 DEF q
<1>3. CASE ~q.worker_started /\ ~q.worker_failed /\ created
  <2>1. WithWorker(q, created) = [q EXCEPT !.worker_started = TRUE]
    BY <1>3 DEF WithWorker
  <2>2. LET c == WithWorker(q, created) IN
        /\ c \in CacheT /\ c.request_ns = t /\ c.worker_started
        /\ c.request_pending /\ c.reset_pending = q.reset_pending
    BY <1>1, <1>3, <2>1 DEF CacheT
  <2> QED BY <1>1, <1>3, <2>2 DEF q
<1>4. CASE ~q.worker_started /\ ~q.worker_failed /\ ~created
  <2>1. WithWorker(q, created) = [q EXCEPT !.worker_failed = TRUE,
                                           !.request_pending = FALSE]
    BY <1>4 DEF WithWorker
  <2>2. LET c == WithWorker(q, created) IN
        /\ c \in CacheT /\ c.request_ns = t /\ ~c.worker_started
        /\ c.reset_pending = q.reset_pending
    BY <1>1, <1>4, <2>1 DEF CacheT
  <2> QED BY <1>1, <1>4, <2>2 DEF q
<1> QED BY <1>2, <1>3, <1>4

\* What frame_pacer_hud_metrics_cache_snapshot leaves behind.
LEMMA SnapshotStep ==
    ASSUME Kept, NEW d \in Drawers, Snapshot(d)
    PROVE  /\ reading[d] \in Nat /\ reading[d] <= now /\ owner = "idle"
           /\ asked' = reading[d]
           /\ reading' = [reading EXCEPT ![d] = NoTime]
           /\ cache' \in CacheT /\ cache'.request_ns \in Nat
           /\ cache'.request_ns <= reading[d]
           /\ cache'.worker_started <=> worker' # "none"
           /\ worker' \in {worker, "check"}
           /\ worker \in {"sampling", "publish"} => worker' = worker
           /\ UNCHANGED <<now, snapshot, baseline, job, owner>>
           /\ Due(reading[d]) => /\ cache'.request_ns = reading[d]
                                 /\ cache'.reset_pending <=>
                                      (cache.reset_pending \/ Stale(reading[d]))
                                 /\ cache'.worker_started =>
                                      cache'.request_pending
           /\ cache.worker_started => cache'.worker_started
           /\ ~Due(reading[d]) => UNCHANGED cache
<1> DEFINE t == reading[d]
<1>0. /\ t \in Nat /\ t <= now /\ owner = "idle" /\ cache \in CacheT
      /\ cache.request_ns \in Times
      /\ cache.worker_started <=> worker # "none"
      /\ worker \in {"none", "check", "waiting", "sampling", "publish", "exited"}
  <2>1. t \in Times /\ t # NoTime /\ t <= now
    BY DEF Kept, CacheTypeOK, Ordered, Snapshot
  <2>2. owner = "idle"
    BY <2>1 DEF Kept, Ordered
  <2> QED BY <2>1, <2>2 DEF Times, Kept, CacheTypeOK, CacheT, Ordered
<1>1. /\ asked' = t /\ reading' = [reading EXCEPT ![d] = NoTime]
      /\ UNCHANGED <<now, snapshot, baseline, job, owner>>
  BY DEF Snapshot
<1>2. CASE Due(t)
  <2>1. PICK created \in BOOLEAN : cache' = WithWorker(Requested(t), created)
    BY <1>2 DEF Snapshot
  <2>2. /\ cache' \in CacheT /\ cache'.request_ns = t
        /\ cache'.reset_pending <=> (cache.reset_pending \/ Stale(t))
        /\ cache.worker_started => cache'.worker_started
        /\ cache'.worker_started => cache'.request_pending
    BY <1>0, <2>1, RequestCache
  <2>3. worker' = Woken(cache')
    BY <1>2 DEF Snapshot
  <2> HIDE DEF t
  <2>4. /\ cache'.worker_started <=> worker' # "none"
        /\ worker' \in {worker, "check"}
        /\ worker \in {"sampling", "publish"} => worker' = worker
    BY <1>0, <2>2, <2>3 DEF Woken
  <2>5. cache'.request_ns \in Nat /\ cache'.request_ns <= t
    BY <1>0, <2>2
  <2> QED BY <1>0, <1>1, <1>2, <2>2, <2>4, <2>5 DEF t
<1>3. CASE ~Due(t)
  <2>1. UNCHANGED <<cache, worker>>
    BY <1>3 DEF Snapshot
  <2>2. cache.request_ns # NoTime /\ ~Backwards(t)
    BY <1>3 DEF Due
  <2>3. cache.request_ns \in Nat /\ cache.request_ns <= t
    BY <1>0, <2>2 DEF Backwards, Times
  <2> QED BY <1>0, <1>1, <1>3, <2>1, <2>3
<1> QED BY <1>2, <1>3

LEMMA StepKept == Kept /\ [Next]_cvars => Kept'
<1> SUFFICES ASSUME Kept, [Next]_cvars PROVE Kept'
  OBVIOUS
<1>0. CacheTypeOK /\ Ordered /\ Questioned
  BY DEF Kept
<1>1. CASE Tick
  BY <1>0, <1>1, TimeFacts DEF Tick, Kept, CacheTypeOK, Ordered, Questioned, Times, CacheT
<1>2. ASSUME NEW d \in Drawers, ReadClock(d) PROVE Kept'
  <2>1. CacheTypeOK'
    BY <1>0, <1>2 DEF ReadClock, CacheTypeOK, Times
  <2>2. Ordered' /\ Questioned'
    BY <1>0, <1>2 DEF ReadClock, CacheTypeOK, Ordered, Questioned
  <2> QED BY <2>1, <2>2 DEF Kept
<1>3. ASSUME NEW d \in Drawers, Snapshot(d) PROVE Kept'
  <2> DEFINE t == reading[d]
  <2>1. /\ t \in Nat /\ t <= now /\ owner = "idle" /\ asked' = t
        /\ reading' = [reading EXCEPT ![d] = NoTime]
        /\ cache' \in CacheT /\ cache'.request_ns \in Nat
        /\ cache'.request_ns <= t
        /\ cache'.worker_started <=> worker' # "none"
        /\ worker' \in {worker, "check"}
        /\ UNCHANGED <<now, snapshot, baseline, job, owner>>
    BY <1>3, SnapshotStep
  <2>2. pause' \in {t, pause} /\ requests' \in {requests, requests + 1}
    BY <1>3 DEF Snapshot
  <2>3. inverted' \in BOOLEAN
    BY <1>0, <1>3, Zenon DEF Snapshot, CacheTypeOK
  <2> HIDE DEF t
  <2>4. CacheTypeOK'
    BY <1>0, <2>1, <2>2, <2>3 DEF CacheTypeOK, Times
  <2>5. Ordered'
    <3>1. \A e \in Drawers : reading'[e] \in {reading[e], NoTime}
      BY <1>0, <2>1 DEF CacheTypeOK
    <3>2. \A e \in Drawers : reading'[e] <= now'
      BY <1>0, <2>1, <3>1, TimeFacts DEF Ordered, CacheTypeOK
    <3>3. pause' <= now' /\ cache'.request_ns <= now'
      BY <1>0, <2>1, <2>2 DEF Ordered, CacheTypeOK
    <3> QED BY <2>1, <3>2, <3>3 DEF Ordered
  <2>6. Questioned'
    BY <2>1, TimeFacts DEF Questioned
  <2> QED BY <2>4, <2>5, <2>6 DEF Kept
<1>4. CASE Wait \/ Spurious \/ Exit
  BY <1>0, <1>4 DEF Wait, Spurious, Exit, Kept, CacheTypeOK, Ordered, Questioned
<1>5. CASE Take
  <2>1. cache' \in CacheT /\ cache'.request_ns = cache.request_ns
        /\ cache'.worker_started = cache.worker_started
    BY <1>0, <1>5 DEF Take, CacheTypeOK, CacheT
  <2>2. job' \in JobT
    BY <1>0, <1>5, ConstTypes DEF Take, CacheTypeOK, CacheT, JobT
  <2> QED BY <1>0, <1>5, <2>1, <2>2 DEF Take, Kept, CacheTypeOK, Ordered, Questioned
<1>6. CASE Sample
  <2> DEFINE from == IF job.reset THEN NoTime ELSE baseline
  <2>1. [from |-> from, to |-> now, known |-> job.known] \in SampleT
    BY <1>0 DEF SampleT, Times, CacheTypeOK, JobT
  <2>2. job' \in JobT
    BY <1>0, <1>6, <2>1 DEF Sample, CacheTypeOK, JobT
  <2> QED BY <1>0, <1>6, <2>2 DEF Sample, Kept, CacheTypeOK, Times, Ordered, Questioned
<1>7. CASE Publish
  <2>1. snapshot' \in SampleT /\ job' \in JobT
    BY <1>0, <1>7, ConstTypes DEF Publish, CacheTypeOK, JobT
  <2> QED BY <1>0, <1>7, <2>1 DEF Publish, Kept, CacheTypeOK, Ordered, Questioned
<1>8. CASE Stop
  <2>1. cache' \in CacheT /\ cache'.request_ns = cache.request_ns
        /\ cache'.worker_started = cache.worker_started
    BY <1>0, <1>8 DEF Stop, CacheTypeOK, CacheT
  <2> QED BY <1>0, <1>8, <2>1 DEF Stop, Kept, CacheTypeOK, Ordered, Questioned
<1>9. CASE Free
  <2>1. cache' \in CacheT /\ cache'.request_ns = NoTime
    BY <1>0, <1>9 DEF Free, CacheTypeOK, CacheT, Times
  <2>2. snapshot' \in SampleT /\ baseline' \in Times
    BY <1>9, ConstTypes DEF Free, Times
  <2>3. CacheTypeOK'
    BY <1>0, <1>9, <2>1, <2>2 DEF Free, CacheTypeOK
  <2>4. Ordered' /\ Questioned'
    BY <1>0, <1>9, <2>1, TimeFacts DEF Free, Joined, Ordered, Questioned, CacheTypeOK
  <2> QED BY <2>3, <2>4 DEF Kept
<1>10. CASE UNCHANGED cvars
  BY <1>0, <1>10 DEF cvars, Kept, CacheTypeOK, Ordered, Questioned
<1> QED BY <1>1, <1>2, <1>3, <1>4, <1>5, <1>6, <1>7, <1>8, <1>9, <1>10
        DEF Next, Worker

\* hud_metrics_cache.c: every variable keeps its type, and the order of
\* questions, requests and threads is kept.
THEOREM CacheTypeCorrect == Spec => []Kept
BY InitKept, StepKept, PTL DEF Spec

\* hud_metrics_cache.c:69-88: when the structure is zeroed no worker is left,
\* whether one was started, failed to start, or was never asked for.
THEOREM DestroyLeavesNoWorker == Spec => []NoWorkerAfterDestroy
<1>1. Init => NoWorkerAfterDestroy
  BY DEF Init, NoWorkerAfterDestroy
<1>2. Kept /\ NoWorkerAfterDestroy /\ [Next]_cvars => NoWorkerAfterDestroy'
  <2> SUFFICES ASSUME Kept, NoWorkerAfterDestroy, [Next]_cvars
               PROVE  NoWorkerAfterDestroy'
    OBVIOUS
  <2>1. ASSUME NEW d \in Drawers, Snapshot(d) PROVE NoWorkerAfterDestroy'
    BY <2>1, SnapshotStep DEF NoWorkerAfterDestroy
  <2>2. CASE Free
    BY <2>2 DEF Free, Joined, Kept, Ordered, NoWorkerAfterDestroy
  <2>3. CASE \/ Tick \/ Spurious \/ Worker \/ Stop \/ UNCHANGED cvars
             \/ \E d \in Drawers : ReadClock(d)
    BY <2>3 DEF Tick, Spurious, Worker, Wait, Take, Sample, Publish, Exit, Stop,
       ReadClock, cvars, NoWorkerAfterDestroy
  <2> QED BY <2>1, <2>2, <2>3 DEF Next
<1> QED BY <1>1, <1>2, CacheTypeCorrect, PTL DEF Spec
-----------------------------------------------------------------------------
LEMMA InitPause == Init => PauseInv
BY TimeFacts DEF Init, PauseInv, ResetDue, JobWithin, UseKnown, NoJob, Unavailable

\* A question after a pause finds the request before it stale, and due.
LEMMA PauseResets ==
    ASSUME Kept, NEW d \in Drawers, Snapshot(d), pause' # pause
    PROVE  Due(reading[d]) /\ Stale(reading[d])
<1> DEFINE t == reading[d]
<1>1. t \in Nat /\ owner = "idle" /\ cache.request_ns \in Times /\ asked \in Times
  BY SnapshotStep DEF Kept, CacheTypeOK, CacheT
<1>2. asked # NoTime /\ t - asked >= ResetNs
  BY DEF Snapshot
<1>3. cache.request_ns # NoTime /\ cache.request_ns <= asked
  BY <1>1, <1>2 DEF Kept, Questioned
<1>4. t - cache.request_ns >= ResetNs /\ t - cache.request_ns >= SampleNs
  BY <1>1, <1>2, <1>3, CacheAssumption DEF Times
<1> QED BY <1>3, <1>4 DEF Due, Stale

LEMMA StepPause == Kept /\ PauseInv /\ [Next]_cvars => PauseInv'
<1> SUFFICES ASSUME Kept, PauseInv, [Next]_cvars PROVE PauseInv'
  OBVIOUS
<1>0. CacheTypeOK /\ Ordered /\ ResetDue /\ JobWithin /\ UseKnown
  BY DEF Kept, PauseInv
<1>1. CASE \/ Tick \/ Wait \/ Spurious \/ Exit \/ UNCHANGED cvars
           \/ \E d \in Drawers : ReadClock(d)
  BY <1>0, <1>1 DEF Tick, Wait, Spurious, Exit, ReadClock, cvars, PauseInv, ResetDue,
     JobWithin, UseKnown
<1>2. ASSUME NEW d \in Drawers, Snapshot(d) PROVE PauseInv'
  <2>1. /\ UNCHANGED <<snapshot, baseline, job>>
        /\ worker \in {"sampling", "publish"} => worker' = worker
        /\ worker' \in {worker, "check"}
        /\ cache.reset_pending => cache'.reset_pending
    BY <1>2, SnapshotStep
  <2>2. pause' # pause => cache'.reset_pending
    BY <1>2, PauseResets, SnapshotStep
  <2>3. ResetDue'
    BY <1>0, <2>1, <2>2 DEF ResetDue
  <2>4. JobWithin' /\ UseKnown'
    BY <1>0, <2>1 DEF JobWithin, UseKnown
  <2> QED BY <2>3, <2>4 DEF PauseInv
<1>3. CASE Take
  <2>1. /\ job' = [reset |-> cache.reset_pending, sample |-> Unavailable,
                   known |-> pause]
        /\ worker = "check" /\ worker' = "sampling"
        /\ UNCHANGED <<baseline, pause, snapshot>>
    BY <1>3 DEF Take
  <2>2. /\ job'.reset = cache.reset_pending /\ job'.known = pause
        /\ job'.sample.from = NoTime
    BY <2>1 DEF Unavailable
  <2>3. baseline # NoTime /\ ~cache.reset_pending => baseline >= pause
    <3>1. baseline # NoTime => baseline \in Nat /\ pause \in Nat
      BY <1>0 DEF CacheTypeOK, Times
    <3> QED BY <1>0, <2>1, <3>1 DEF ResetDue
  <2>4. ResetDue'
    <3>1. baseline # NoTime => baseline \in Nat /\ pause \in Nat
      BY <1>0 DEF CacheTypeOK, Times
    <3> QED BY <2>1, <2>2, <2>3, <3>1 DEF ResetDue
  <2>5. JobWithin'
    BY <2>1, <2>2, <2>3 DEF JobWithin
  <2>6. UseKnown'
    BY <1>0, <2>1 DEF UseKnown
  <2> QED BY <2>4, <2>5, <2>6 DEF PauseInv
<1>4. CASE Sample
  <2>1. /\ baseline' = now /\ worker = "sampling" /\ worker' = "publish"
        /\ UNCHANGED <<pause, snapshot>>
        /\ job'.sample.known = job.known
        /\ job'.sample.from = IF job.reset THEN NoTime ELSE baseline
    BY <1>0, <1>4 DEF Sample, CacheTypeOK, JobT
  <2>2. ResetDue'
    BY <1>0, <2>1 DEF ResetDue, Ordered, CacheTypeOK
  <2>3. JobWithin'
    BY <1>0, <2>1 DEF JobWithin
  <2>4. UseKnown'
    BY <1>0, <2>1 DEF UseKnown
  <2> QED BY <2>2, <2>3, <2>4 DEF PauseInv
<1>5. CASE Publish
  <2>1. snapshot' = job.sample /\ job'.sample.from = NoTime /\ worker = "publish"
        /\ worker' = "check" /\ UNCHANGED <<cache, baseline, pause>>
    BY <1>5 DEF Publish, NoJob, Unavailable
  <2> QED BY <1>0, <2>1 DEF PauseInv, ResetDue, JobWithin, UseKnown
<1>6. CASE Stop
  <2>1. /\ cache'.reset_pending = cache.reset_pending
        /\ UNCHANGED <<snapshot, baseline, job, pause>>
        /\ worker' = IF worker = "waiting" THEN "check" ELSE worker
    BY <1>0, <1>6 DEF Stop, CacheTypeOK, CacheT
  <2> QED BY <1>0, <2>1 DEF PauseInv, ResetDue, JobWithin, UseKnown
<1>7. CASE Free
  BY <1>0, <1>7 DEF Free, PauseInv, ResetDue, JobWithin, UseKnown, Unavailable
<1> QED BY <1>1, <1>2, <1>3, <1>4, <1>5, <1>6, <1>7 DEF Next, Worker

\* hud_metrics_cache.c:14,36,133: a use was sampled by a worker, and a reset
\* that a worker will hear of comes with a request.
WorkerHears ==
    /\ worker \notin {"none", "exited"} => cache.worker_started
    /\ baseline # NoTime \/ snapshot.from # NoTime => cache.worker_started
    /\ cache.worker_started /\ cache.reset_pending => cache.request_pending

\* A sample over a pause that ended while it was being taken leaves the
\* pause's reset, which it came too early for, to the next one.
JobOvertaken ==
    job.sample.from # NoTime =>
        /\ worker = "publish" /\ ~job.reset
        /\ job.sample.from >= pause \/ cache.reset_pending

UseReplaced ==
    snapshot.from # NoTime => snapshot.from >= pause \/ FreshOnItsWay

FreshInv == WorkerHears /\ JobOvertaken /\ UseReplaced

LEMMA InitFresh == Init => FreshInv
BY DEF Init, FreshInv, WorkerHears, JobOvertaken, UseReplaced, NoJob, Unavailable

LEMMA StepFresh == Kept /\ ResetDue /\ FreshInv /\ [Next]_cvars => FreshInv'
<1> SUFFICES ASSUME Kept, ResetDue, FreshInv, [Next]_cvars PROVE FreshInv'
  OBVIOUS
<1>0. /\ CacheTypeOK /\ Ordered /\ WorkerHears /\ JobOvertaken /\ UseReplaced
      /\ cache \in CacheT /\ job \in JobT
  BY DEF Kept, FreshInv, CacheTypeOK
<1> USE DEF FreshInv
<1>1. CASE \/ Tick \/ Wait \/ Spurious \/ Exit \/ UNCHANGED cvars
           \/ \E d \in Drawers : ReadClock(d)
  <2>1. /\ UNCHANGED <<cache, snapshot, baseline, job, pause>>
        /\ worker \in {"sampling", "publish"} <=> worker' \in {"sampling", "publish"}
        /\ worker = "publish" => worker' = "publish"
        /\ worker' \notin {"none", "exited"} => worker \notin {"none", "exited"}
    BY <1>1 DEF Tick, Wait, Spurious, Exit, ReadClock, cvars
  <2> QED BY <1>0, <2>1 DEF WorkerHears, JobOvertaken, UseReplaced, FreshOnItsWay
<1>2. ASSUME NEW d \in Drawers, Snapshot(d) PROVE FreshInv'
  <2>1. /\ UNCHANGED <<snapshot, baseline, job>>
        /\ worker \in {"sampling", "publish"} => worker' = worker
        /\ cache'.worker_started <=> worker' # "none"
        /\ cache.worker_started => cache'.worker_started
        /\ cache.reset_pending => cache'.reset_pending
    BY <1>2, SnapshotStep
  <2>2. WorkerHears'
    <3>1. cache'.worker_started /\ cache'.reset_pending => cache'.request_pending
      BY <1>0, <1>2, SnapshotStep DEF WorkerHears
    <3> QED BY <1>0, <2>1, <3>1 DEF WorkerHears
  <2>3. pause' # pause => cache'.reset_pending
    BY <1>2, PauseResets, SnapshotStep
  <2>4. JobOvertaken'
    BY <1>0, <2>1, <2>3 DEF JobOvertaken
  <2>5. UseReplaced'
    <3>1. CASE pause' # pause
      BY <1>0, <2>1, <2>2, <2>3, <3>1 DEF UseReplaced, FreshOnItsWay, WorkerHears
    <3>2. CASE pause' = pause
      BY <1>0, <2>1, <2>2, <3>2 DEF UseReplaced, FreshOnItsWay, WorkerHears
    <3> QED BY <3>1, <3>2
  <2> QED BY <2>2, <2>4, <2>5
<1>3. CASE Take
  <2>1. /\ cache'.worker_started = cache.worker_started
        /\ ~cache'.reset_pending
        /\ job'.reset = cache.reset_pending /\ job'.sample.from = NoTime
        /\ worker = "check" /\ worker' = "sampling"
        /\ UNCHANGED <<baseline, pause, snapshot>>
    BY <1>0, <1>3 DEF Take, CacheT, Unavailable
  <2> QED BY <1>0, <2>1 DEF WorkerHears, JobOvertaken, UseReplaced, FreshOnItsWay
<1>4. CASE Sample
  <2>1. /\ worker = "sampling" /\ worker' = "publish"
        /\ UNCHANGED <<cache, pause, snapshot>>
        /\ job'.reset = job.reset
        /\ job'.sample.from = IF job.reset THEN NoTime ELSE baseline
    BY <1>0, <1>4 DEF Sample, JobT
  <2>2. baseline \in Times /\ pause \in Nat
    BY <1>0 DEF CacheTypeOK
  <2>3. JobOvertaken'
    BY <2>1, <2>2, TimeFacts DEF JobOvertaken, ResetDue, Times
  <2> QED BY <1>0, <2>1, <2>3 DEF WorkerHears, UseReplaced, FreshOnItsWay
<1>5. CASE Publish
  <2>1. snapshot' = job.sample /\ job'.sample.from = NoTime /\ worker = "publish"
        /\ worker' = "check" /\ UNCHANGED <<cache, baseline, pause>>
    BY <1>5 DEF Publish, NoJob, Unavailable
  <2> QED BY <1>0, <2>1 DEF WorkerHears, JobOvertaken, UseReplaced, FreshOnItsWay
<1>6. CASE Stop
  <2>1. /\ cache'.reset_pending = cache.reset_pending
        /\ cache'.request_pending = cache.request_pending
        /\ cache'.worker_started = cache.worker_started
        /\ UNCHANGED <<snapshot, baseline, job, pause>>
        /\ worker' = IF worker = "waiting" THEN "check" ELSE worker
    BY <1>0, <1>6 DEF Stop, CacheT
  <2> QED BY <1>0, <2>1 DEF WorkerHears, JobOvertaken, UseReplaced, FreshOnItsWay
<1>7. CASE Free
  <2>1. /\ ~cache'.reset_pending /\ snapshot'.from = NoTime /\ baseline' = NoTime
        /\ UNCHANGED <<worker, job>>
        /\ worker \in {"none", "exited"}
    BY <1>0, <1>7 DEF Free, CacheT, Unavailable, Joined, Ordered
  <2> QED BY <1>0, <2>1 DEF WorkerHears, JobOvertaken, UseReplaced
<1> QED BY <1>1, <1>2, <1>3, <1>4, <1>5, <1>6, <1>7 DEF Next, Worker

\* hud_metrics_cache.c:20-23 and 106-114: however requests, samples and the
\* drawing threads interleave, a use that is shown was not taken across a
\* pause that had ended when its request was taken; across a later pause it
\* is shown only while the sample that replaces it is on its way.
THEOREM UseWithinPauses == Spec => []NoUseAcrossPause
<1>1. PauseInv /\ FreshInv => NoUseAcrossPause
  BY DEF PauseInv, FreshInv, UseKnown, UseReplaced, NoUseAcrossPause
<1>2. PauseInv => ResetDue
  BY DEF PauseInv
<1> QED BY <1>1, <1>2, InitPause, StepPause, InitFresh, StepFresh,
           CacheTypeCorrect, PTL DEF Spec
-----------------------------------------------------------------------------
\* Integer division, as far as it is needed.
LEMMA DivFacts ==
    ASSUME NEW a \in Nat, NEW b \in Nat \ {0}
    PROVE  /\ a \div b \in Nat
           /\ (a \div b) * b <= a
           /\ a < (a \div b) * b + b
BY Z3

\* A factor's worth more is at least one more when divided.
LEMMA DivGrows ==
    ASSUME NEW a \in Nat, NEW c \in Nat, NEW b \in Nat \ {0}, a <= c
    PROVE  /\ a \div b <= c \div b
           /\ c - a >= b => a \div b + 1 <= c \div b
<1> DEFINE p == a \div b
           q == c \div b
<1>1. p \in Nat /\ p * b <= a
  BY DivFacts
<1>2. q \in Nat /\ c < q * b + b
  BY DivFacts
<1> HIDE DEF p, q
<1>3. ASSUME q < p PROVE FALSE
  <2>1. q + 1 <= p
    BY <1>1, <1>2, <1>3
  <2>2. (q + 1) * b <= p * b
    BY <1>1, <1>2, <2>1
  <2> QED BY <1>1, <1>2, <2>2
<1>4. ASSUME c - a >= b, q < p + 1 PROVE FALSE
  <2>1. q <= p
    BY <1>1, <1>2, <1>4
  <2>2. q * b <= p * b
    BY <1>1, <1>2, <2>1
  <2> QED BY <1>1, <1>2, <1>4, <2>2
<1> QED BY <1>1, <1>2, <1>3, <1>4 DEF p, q

LEMMA StepSpaced == Kept /\ SpacedInv /\ [Next]_cvars => SpacedInv'
<1> SUFFICES ASSUME Kept, SpacedInv, [Next]_cvars, ~inverted' PROVE SpacedInv'
  BY DEF SpacedInv
<1>0. /\ now \in Nat /\ requests \in Nat /\ SampleNs \in Nat \ {0}
      /\ cache.request_ns \in Times
  BY CacheAssumption DEF Kept, CacheTypeOK, CacheT
<1>1. ASSUME NEW d \in Drawers, Snapshot(d) PROVE SpacedInv'
  <2> DEFINE t == reading[d]
  <2>1. /\ t \in Nat /\ t <= now /\ owner = "idle" /\ UNCHANGED <<now, owner>>
        /\ cache'.request_ns \in Nat
        /\ Due(t) => cache'.request_ns = t
        /\ ~Due(t) => UNCHANGED cache
    BY <1>1, SnapshotStep
  <2>2. ~inverted /\ ~Backwards(t)
    BY <1>1 DEF Snapshot
  <2>3. CASE ~Due(t)
    <3>1. UNCHANGED <<cache, requests>>
      BY <1>1, <2>3 DEF Snapshot
    <3> QED BY <2>1, <2>2, <3>1 DEF SpacedInv
  <2>4. CASE Due(t)
    <3>1. requests' = requests + 1
      BY <1>1, <2>4 DEF Snapshot
    <3>2. t \div SampleNs \in Nat /\ now \div SampleNs \in Nat
          /\ t \div SampleNs <= now \div SampleNs
      BY <1>0, <2>1, DivFacts, DivGrows
    <3>3. requests <= t \div SampleNs
      <4>1. CASE cache.request_ns = NoTime
        <5>1. requests = 0
          BY <2>1, <2>2, <4>1 DEF SpacedInv
        <5> QED BY <3>2, <5>1
      <4>2. CASE cache.request_ns # NoTime
        <5>1. cache.request_ns \in Nat /\ cache.request_ns <= t
              /\ t - cache.request_ns >= SampleNs
          BY <1>0, <2>1, <2>2, <2>4, <4>2 DEF Due, Backwards, Times
        <5>2. requests <= 1 + cache.request_ns \div SampleNs
          BY <2>1, <2>2, <4>2 DEF SpacedInv
        <5>3. cache.request_ns \div SampleNs + 1 <= t \div SampleNs
              /\ cache.request_ns \div SampleNs \in Nat
          BY <1>0, <2>1, <5>1, DivGrows, DivFacts
        <5> QED BY <1>0, <3>2, <5>2, <5>3
      <4> QED BY <4>1, <4>2
    <3>4. requests' <= 1 + t \div SampleNs /\ requests' <= 1 + now \div SampleNs
      BY <1>0, <3>1, <3>2, <3>3
    <3>5. cache'.request_ns = t /\ t # NoTime
      BY <2>1, <2>4, TimeFacts
    <3> QED BY <2>1, <3>4, <3>5 DEF SpacedInv
  <2> QED BY <2>3, <2>4
<1>2. CASE Tick
  <2>1. /\ now' = now + 1 /\ UNCHANGED <<cache, owner, requests, inverted>>
    BY <1>2 DEF Tick
  <2>2. /\ now \div SampleNs <= now' \div SampleNs
        /\ now \div SampleNs \in Nat /\ now' \div SampleNs \in Nat
    BY <1>0, <2>1, DivGrows, DivFacts
  <2>3. requests <= 1 + now \div SampleNs
    BY <2>1 DEF SpacedInv
  <2>4. requests' <= 1 + now' \div SampleNs
    BY <1>0, <2>1, <2>2, <2>3
  <2> QED BY <2>1, <2>4 DEF SpacedInv
<1>3. CASE Free
  BY <1>3 DEF Free, SpacedInv
<1>4. CASE Wait \/ Spurious \/ Take \/ Sample \/ Publish \/ Exit \/ Stop
           \/ UNCHANGED cvars \/ \E d \in Drawers : ReadClock(d)
  <2>1. /\ UNCHANGED <<now, requests, inverted>>
        /\ owner' # "done" => owner # "done"
        /\ cache'.request_ns = cache.request_ns
    BY <1>4 DEF Wait, Spurious, Take, Sample, Publish, Exit, Stop, ReadClock, cvars,
       Kept, CacheTypeOK, CacheT
  <2> QED BY <2>1 DEF SpacedInv
<1> QED BY <1>1, <1>2, <1>3, <1>4 DEF Next, Worker

\* hud_metrics_cache.c:109: at most one request per interval and one at the
\* start, as long as clock readings reach the cache in order.
THEOREM RequestRate == Spec => []RequestsSpaced
<1>1. Init => SpacedInv
  <2>1. 0 \div SampleNs \in Nat
    BY CacheAssumption, DivFacts
  <2> QED BY <2>1 DEF Init, SpacedInv
<1>2. SpacedInv => RequestsSpaced
  BY DEF SpacedInv, RequestsSpaced
<1> QED BY <1>1, <1>2, StepSpaced, CacheTypeCorrect, PTL DEF Spec
-----------------------------------------------------------------------------
(***************************************************************************)
(* The NVML client.  The state is split by who may touch it: the mutex     *)
(* keeps owners and the worker in step (Owners), the worker keeps what is  *)
(* published no older than its connection (Alive), and the sequence lock   *)
(* keeps a snapshot together as long as no release interferes (Locked).    *)
(***************************************************************************)

\* manager, published, a message, the worker and a snapshot.
Managers == [active : BOOLEAN, stop : BOOLEAN, references : Nat,
             gpu : Gpus \cup {Nothing}, attempts : Nat,
             socket_fd : Nat \cup {Nothing}]

Values == [gen : Nat, sequence : Nat, available : BOOLEAN, use : Nat,
           temperature : Nat]

Message == [sequence : Nat, available : BOOLEAN, id : Nat]

\* Where the worker has a connection, and where it has none.
Connected == {"set", "loop", "poll", "recv", "publish", "invalidate", "close",
              "terminate"}
Unconnected == {"top", "wait", "blocked", "woke", "unset", "exited"}

\* The steps of a sequence of stores or loads, and who may be reading.
Places == 0..6

Reader == Users \cup {Nothing}

Workers == [pc : Connected \cup Unconnected \cup {"none"}, step : Places,
            message : Message, previous : Nat]

Loaded == [sequence : Nat, available : BOOLEAN, use : Nat, temperature : Nat]

Readers == [user : Reader, step : Places, tries : Nat,
            before : Nat, message : Loaded]

NvmlTypeOK ==
    /\ manager \in Managers /\ published \in Values /\ client \in Workers
    /\ conn \in Nat \cup {Nothing} /\ open \in BOOLEAN
    /\ helper \in {"none", "running", "told", "dead"}
    /\ queue \in Seq(Message)
    /\ user \in [Users -> {"out", "in", "shutdown", "join", "clear"}]
    /\ store \in [Users -> 0..3]
    /\ reader \in Readers
    /\ sent \in Nat /\ dead \in 0..sent /\ floor \in Nat
    /\ overlap \in BOOLEAN
    /\ client.pc = "publish" => client.step \in 1..6
    /\ client.pc = "invalidate" => client.step \in 1..3
    /\ \A u \in Users : user[u] = "clear" => store[u] \in 1..3
    /\ reader.user = Nothing <=> reader.step = 0

Holders == {u \in Users : user[u] = "in"}

\* A user for whom the worker runs.
Using(u) == user[u] \in {"in", "shutdown", "join"}

\* The references are counted, the worker runs as long as someone uses it,
\* and a helper as long as the worker has a connection.  The last release has
\* the client for itself.
Owners ==
    /\ manager.references = Cardinality(Holders)
    /\ manager.active <=> \E u \in Users : Using(u)
    /\ \A u \in Users : user[u] \in {"shutdown", "join"} =>
         manager.stop /\ \A v \in Users \ {u} : ~Using(v)
    /\ client.pc = "none" <=> ~manager.active
    /\ helper # "none" => client.pc \in Connected
    /\ reader.user # Nothing => user[reader.user] = "in"

\* What is shown as available came through the connection that is open.
Alive ==
    /\ \A i \in 1..Len(queue) : queue[i].id > dead
    /\ client.pc = "publish" => client.message.id > dead
    /\ client.pc = "publish" /\ client.step \in 3..4 => published.use > dead
    /\ published.available => published.use > dead
    /\ \/ client.pc \in {"loop", "poll", "recv", "publish"}
       \/ client.pc = "invalidate" /\ client.step \in 1..2
       \/ ~published.available

\* A snapshot that has loaded `available' will load a use, or has loaded one,
\* that is younger than the connections that had ended when it began.
Young ==
    /\ reader.user # Nothing => floor <= dead
    /\ reader.step = 4 /\ reader.message.available => published.use > floor
    /\ reader.step \in {5, 6} /\ reader.message.available =>
         reader.message.use > floor

\* The worker is between the stores that make the generation odd and even.
Writing ==
    \/ client.pc = "publish" /\ client.step \in 2..6
    \/ client.pc = "invalidate" /\ client.step \in 2..3

\* Use and temperature are of one message but for one step of publish.
Paired ==
    IF client.pc = "publish" /\ client.step = 3
    THEN published.use = client.message.id
    ELSE published.use = published.temperature

\* Unless releases have meddled: while a worker runs the generation is odd
\* exactly while it writes, and what a reader has loaded is what is published
\* as long as the generation is the one it began with.
Locked ==
    \/ overlap
    \/ /\ manager.active => (published.gen % 2 = 1 <=> Writing)
       /\ reader.step \in 2..6 =>
            /\ reader.before % 2 = 0 /\ reader.before <= published.gen
            /\ published.gen = reader.before =>
                 /\ reader.step \in {5, 6} =>
                      reader.message.use = published.use
                 /\ reader.step = 6 =>
                      reader.message.temperature = published.temperature

NvmlInv == NvmlTypeOK /\ Owners /\ Alive /\ Young /\ Paired /\ Locked

-----------------------------------------------------------------------------
(* What the stores of the sequence lock do.                                *)

\* The store `i' of publish: the generation around the fields.
LEMMA PublishIs ==
    ASSUME NEW i \in 1..6, NEW m
    PROVE  /\ i \in {1, 6} => Stored(PublishStores[i], m) =
                                [published EXCEPT !.gen = published.gen + 1]
           /\ i = 2 => Stored(PublishStores[i], m) =
                         [published EXCEPT !.use = m.id]
           /\ i = 3 => Stored(PublishStores[i], m) =
                         [published EXCEPT !.temperature = m.id]
           /\ i = 4 => Stored(PublishStores[i], m) =
                         [published EXCEPT !.available = m.available]
           /\ i = 5 => Stored(PublishStores[i], m) =
                         [published EXCEPT !.sequence = m.sequence]
  BY DEF Stored, PublishStores

\* The store `i' of invalidate.
LEMMA InvalidateIs ==
    ASSUME NEW i \in 1..3
    PROVE  /\ i \in {1, 3} => Stored(InvalidateStores[i], NoMessage) =
                                [published EXCEPT !.gen = published.gen + 1]
           /\ i = 2 => Stored(InvalidateStores[i], NoMessage) =
                         [published EXCEPT !.available = FALSE]
  BY DEF Stored, InvalidateStores, NoMessage

LEMMA Parity == \A n \in Nat : /\ n % 2 \in {0, 1}
                               /\ (n + 1) % 2 = 1 <=> n % 2 = 0
  OBVIOUS

LEMMA Lengths == Len(PublishStores) = 6 /\ Len(InvalidateStores) = 3
  BY DEF PublishStores, InvalidateStores

LEMMA NoMessageTyped == NoMessage \in Message /\ NoMessage.available = FALSE
  BY DEF NoMessage, Message

LEMMA NoReaderTyped ==
    /\ NoReader \in Readers /\ NoReader.user = Nothing /\ NoReader.step = 0
    /\ NoReader.message.available = FALSE
  BY DEF NoReader, Readers, Loaded, Places, Reader

\* The records after the assignments of a step.
Pcs == Connected \cup Unconnected \cup {"none"}

LEMMA SetPc ==
    ASSUME NEW w \in Workers, NEW x \in Pcs, NEW z,
           z = [w EXCEPT !.pc = x]
    PROVE  /\ z \in Workers /\ z.pc = x /\ z.step = w.step
           /\ z.message = w.message
  BY DEF Workers, Pcs

LEMMA SetStep ==
    ASSUME NEW w \in Workers, NEW x \in Places, NEW z,
           z = [w EXCEPT !.step = x]
    PROVE  /\ z \in Workers /\ z.pc = w.pc /\ z.step = x
           /\ z.message = w.message
  BY DEF Workers, Pcs

LEMMA SetPcPrevious ==
    ASSUME NEW w \in Workers, NEW x \in Pcs, NEW z,
           z = [w EXCEPT !.pc = x, !.previous = 0]
    PROVE  /\ z \in Workers /\ z.pc = x /\ z.step = w.step
           /\ z.message = w.message
  BY DEF Workers, Pcs

LEMMA SetReferences ==
    ASSUME NEW m \in Managers, NEW x \in Nat, NEW z,
           z = [m EXCEPT !.references = x]
    PROVE  /\ z \in Managers /\ z.active = m.active /\ z.stop = m.stop
           /\ z.references = x
  BY DEF Managers

LEMMA SetAttempts ==
    ASSUME NEW m \in Managers, NEW x \in Nat, NEW z,
           z = [m EXCEPT !.attempts = x]
    PROVE  /\ z \in Managers /\ z.active = m.active /\ z.stop = m.stop
           /\ z.references = m.references
  BY DEF Managers

LEMMA SetSocket ==
    ASSUME NEW m \in Managers, NEW x \in Nat \cup {Nothing}, NEW z,
           z = [m EXCEPT !.socket_fd = x]
    PROVE  /\ z \in Managers /\ z.active = m.active /\ z.stop = m.stop
           /\ z.references = m.references
  BY DEF Managers

LEMMA SetGone ==
    ASSUME NEW m \in Managers, NEW x \in Gpus \cup {Nothing}, NEW z,
           z = [m EXCEPT !.active = FALSE, !.stop = FALSE, !.gpu = x,
               !.attempts = 0]
    PROVE  /\ z \in Managers /\ z.active = FALSE /\ z.stop = FALSE
           /\ z.references = m.references
  BY DEF Managers

LEMMA SetGen ==
    ASSUME NEW p \in Values, NEW x \in Nat, NEW z,
           z = [p EXCEPT !.gen = x]
    PROVE  /\ z \in Values /\ z.gen = x /\ z.sequence = p.sequence
           /\ z.available = p.available /\ z.use = p.use
           /\ z.temperature = p.temperature
  BY DEF Values

LEMMA SetUse ==
    ASSUME NEW p \in Values, NEW x \in Nat, NEW z,
           z = [p EXCEPT !.use = x]
    PROVE  /\ z \in Values /\ z.gen = p.gen /\ z.sequence = p.sequence
           /\ z.available = p.available /\ z.use = x
           /\ z.temperature = p.temperature
  BY DEF Values

LEMMA SetTemperature ==
    ASSUME NEW p \in Values, NEW x \in Nat, NEW z,
           z = [p EXCEPT !.temperature = x]
    PROVE  /\ z \in Values /\ z.gen = p.gen /\ z.sequence = p.sequence
           /\ z.available = p.available /\ z.use = p.use /\ z.temperature = x
  BY DEF Values

LEMMA SetSequence ==
    ASSUME NEW p \in Values, NEW x \in Nat, NEW z,
           z = [p EXCEPT !.sequence = x]
    PROVE  /\ z \in Values /\ z.gen = p.gen /\ z.sequence = x
           /\ z.available = p.available /\ z.use = p.use
           /\ z.temperature = p.temperature
  BY DEF Values

LEMMA SetAvailable ==
    ASSUME NEW p \in Values, NEW x \in BOOLEAN, NEW z,
           z = [p EXCEPT !.available = x]
    PROVE  /\ z \in Values /\ z.gen = p.gen /\ z.sequence = p.sequence
           /\ z.available = x /\ z.use = p.use
           /\ z.temperature = p.temperature
  BY DEF Values

LEMMA SetReset ==
    ASSUME NEW p \in Values, NEW z,
           z = [p EXCEPT !.gen = 0, !.sequence = 0, !.available = FALSE]
    PROVE  /\ z \in Values /\ z.gen = 0 /\ z.sequence = 0
           /\ z.available = FALSE /\ z.use = p.use
           /\ z.temperature = p.temperature
  BY DEF Values


-----------------------------------------------------------------------------
(* What each step does to what the invariants look at.                     *)

\* The components of the state.
LEMMA Typed ==
    ASSUME NvmlTypeOK
    PROVE  /\ manager.active \in BOOLEAN /\ manager.stop \in BOOLEAN
           /\ manager.references \in Nat /\ manager.attempts \in Nat
           /\ published.gen \in Nat /\ published.sequence \in Nat
           /\ published.available \in BOOLEAN /\ published.use \in Nat
           /\ published.temperature \in Nat
           /\ client.pc \in Pcs /\ client.message \in Message
           /\ client.message.sequence \in Nat /\ client.message.id \in Nat
           /\ client.message.available \in BOOLEAN
           /\ reader.user \in Reader /\ reader.step \in 0..6
           /\ reader.tries \in Nat /\ reader.before \in Nat
           /\ reader.message \in Loaded
           /\ reader.message.available \in BOOLEAN
           /\ reader.message.use \in Nat /\ reader.message.temperature \in Nat
  <1>1. manager \in Managers /\ published \in Values
    BY DEF NvmlTypeOK
  <1>2. client \in Workers /\ reader \in Readers
    BY DEF NvmlTypeOK
  <1>3. client.message \in Message /\ client.pc \in Pcs
    BY <1>2 DEF Workers, Pcs
  <1>4. /\ reader.user \in Reader /\ reader.step \in 0..6
        /\ reader.tries \in Nat /\ reader.before \in Nat
        /\ reader.message \in Loaded
    BY <1>2 DEF Readers, Places
  <1>5. /\ client.message.sequence \in Nat /\ client.message.id \in Nat
        /\ client.message.available \in BOOLEAN
    BY <1>3 DEF Message
  <1>6. /\ reader.message.available \in BOOLEAN
        /\ reader.message.use \in Nat /\ reader.message.temperature \in Nat
    BY <1>4 DEF Loaded
  <1>7. /\ manager.active \in BOOLEAN /\ manager.stop \in BOOLEAN
        /\ manager.references \in Nat /\ manager.attempts \in Nat
    BY <1>1 DEF Managers
  <1>8. /\ published.gen \in Nat /\ published.sequence \in Nat
        /\ published.available \in BOOLEAN /\ published.use \in Nat
        /\ published.temperature \in Nat
    BY <1>1 DEF Values
  <1> QED BY <1>3, <1>4, <1>5, <1>6, <1>7, <1>8

\* The reset of a start: the values themselves stay.
Reset ==
    /\ published'.gen = 0 /\ published'.available = FALSE
    /\ published'.use = published.use
    /\ published'.temperature = published.temperature

LEMMA AcquireEffect ==
    ASSUME NvmlTypeOK, NEW u \in Users, NEW g \in Gpus, Acquire(u, g)
    PROVE  /\ manager' \in Managers /\ client' \in Workers
           /\ published' \in Values /\ user[u] = "out"
           /\ UNCHANGED <<conn, open, helper, queue, store, reader, sent, dead,
                          floor, overlap>>
           /\ \/ UNCHANGED <<manager, user, published, client>>
              \/ /\ manager.active /\ ~manager.stop
                 /\ UNCHANGED <<published, client>>
                 /\ manager'.active /\ ~manager'.stop
                 /\ manager'.references = manager.references + 1
                 /\ user' = [user EXCEPT ![u] = "in"]
              \/ /\ ~manager.active /\ Reset
                 /\ manager'.active /\ ~manager'.stop /\ manager'.references = 1
                 /\ client'.pc = "top" /\ client'.step = client.step
                 /\ client'.message = client.message
                 /\ user' = [user EXCEPT ![u] = "in"]
              \/ /\ ~manager.active /\ Reset /\ UNCHANGED <<client, user>>
                 /\ ~manager'.active
                 /\ manager'.references = manager.references
  <1>1. manager \in Managers /\ client \in Workers /\ published \in Values
    BY DEF NvmlTypeOK
  <1>2. CASE manager.active
    <2>1. CASE ~manager.stop /\ manager.gpu = g
      <3>1. manager.references + 1 \in Nat
        BY Typed
      <3>2. manager' = [manager EXCEPT !.references = manager.references + 1]
        BY <1>2, <2>1 DEF Acquire
      <3>3. /\ manager' \in Managers /\ manager'.active = manager.active
            /\ manager'.stop = manager.stop
            /\ manager'.references = manager.references + 1
        BY <1>1, <3>1, <3>2, SetReferences
      <3> QED BY <1>1, <1>2, <2>1, <3>3 DEF Acquire
    <2>2. CASE ~(~manager.stop /\ manager.gpu = g)
      BY <1>1, <1>2, <2>2 DEF Acquire
    <2> QED BY <2>1, <2>2
  <1>3. CASE ~manager.active
    <2>1. /\ UNCHANGED <<conn, open, helper, queue, store, reader, sent, dead,
                         floor, overlap>>
          /\ user[u] = "out"
          /\ published' = [published EXCEPT !.gen = 0, !.sequence = 0,
                                            !.available = FALSE]
      BY <1>3 DEF Acquire
    <2>2. published' \in Values /\ Reset
      BY <1>1, <2>1, SetReset DEF Reset
    <2>3. CASE /\ manager' = [active |-> TRUE, stop |-> FALSE,
                              references |-> 1, gpu |-> g, attempts |-> 0,
                              socket_fd |-> Nothing]
               /\ client' = [client EXCEPT !.pc = "top"]
               /\ user' = [user EXCEPT ![u] = "in"]
      <3>1. /\ manager' \in Managers /\ manager'.active /\ ~manager'.stop
            /\ manager'.references = 1
        BY <2>3 DEF Managers
      <3>2. "top" \in Pcs
        BY DEF Pcs, Unconnected
      <3>3. /\ client' \in Workers /\ client'.pc = "top"
            /\ client'.step = client.step /\ client'.message = client.message
        BY <1>1, <2>3, <3>2, SetPc
      <3> QED BY <1>3, <2>1, <2>2, <2>3, <3>1, <3>3
    <2>4. CASE /\ manager' = [manager EXCEPT !.stop = FALSE, !.gpu = g,
                                             !.attempts = 0,
                                             !.socket_fd = Nothing]
               /\ UNCHANGED <<client, user>>
      <3>1. /\ manager' \in Managers /\ manager'.active = manager.active
            /\ manager'.references = manager.references
        <4>1. g \in Gpus \cup {Nothing} /\ Nothing \in Nat \cup {Nothing}
          OBVIOUS
        <4> QED BY <1>1, <2>4, <4>1 DEF Managers
      <3> QED BY <1>1, <1>3, <2>1, <2>2, <2>4, <3>1
    <2> QED BY <1>3, <2>3, <2>4 DEF Acquire
  <1> QED BY <1>2, <1>3

LEMMA ReleaseEffect ==
    ASSUME NvmlTypeOK, manager.references # 0, NEW u \in Users, Release(u)
    PROVE  /\ manager' \in Managers /\ client' \in Workers /\ user[u] = "in"
           /\ reader.user # u
           /\ UNCHANGED <<published, conn, open, helper, queue, store, reader,
                          sent, dead, floor, overlap>>
           /\ manager'.active = manager.active
           /\ manager'.references = manager.references - 1
           /\ client'.step = client.step /\ client'.message = client.message
           /\ \/ /\ manager.references # 1 /\ UNCHANGED client
                 /\ manager'.stop = manager.stop
                 /\ user' = [user EXCEPT ![u] = "out"]
              \/ /\ manager.references = 1 /\ manager'.stop
                 /\ user' = [user EXCEPT ![u] = "shutdown"]
                 /\ \/ client'.pc = client.pc
                    \/ client.pc = "blocked" /\ client'.pc = "woke"
  <1>1. manager \in Managers /\ client \in Workers
    BY DEF NvmlTypeOK
  <1>2. manager.references - 1 \in Nat
    BY Typed
  <1>3. CASE manager.references # 1
    <2>1. manager' = [manager EXCEPT !.references = manager.references - 1]
      BY <1>3 DEF Release, LastReference
    <2>2. /\ manager' \in Managers /\ manager'.active = manager.active
          /\ manager'.stop = manager.stop
          /\ manager'.references = manager.references - 1
      BY <1>1, <1>2, <2>1, SetReferences
    <2> QED BY <1>1, <1>3, <2>2 DEF Release, LastReference, Holding
  <1>4. CASE manager.references = 1
    <2> PICK n \in Nat : n = manager.references - 1
      BY <1>2
    <2>1. manager' = [manager EXCEPT !.references = n, !.stop = TRUE]
      BY <1>4 DEF Release, LastReference
    <2>2. /\ manager' \in Managers /\ manager'.active = manager.active
          /\ manager'.stop = TRUE /\ manager'.references = n
      BY <1>1, <2>1 DEF Managers
    <2>3. \/ client' = client
          \/ client.pc = "blocked" /\ client' = [client EXCEPT !.pc = "woke"]
      BY <1>4 DEF Release, LastReference
    <2>4. "woke" \in Pcs
      BY DEF Pcs, Unconnected
    <2>5. /\ client' \in Workers
          /\ client'.step = client.step /\ client'.message = client.message
          /\ \/ client'.pc = client.pc
             \/ client.pc = "blocked" /\ client'.pc = "woke"
      BY <1>1, <2>3, <2>4, SetPc
    <2> QED BY <1>4, <2>2, <2>5 DEF Release, LastReference, Holding
  <1> QED BY <1>3, <1>4

LEMMA JoinEffect ==
    ASSUME NvmlTypeOK, NEW u \in Users, Join(u)
    PROVE  /\ manager' \in Managers /\ client' \in Workers
           /\ user[u] = "join" /\ client.pc = "exited"
           /\ user' = [user EXCEPT ![u] = "clear"]
           /\ store' = [store EXCEPT ![u] = 1]
           /\ UNCHANGED <<published, conn, open, helper, queue, reader, sent,
                          dead, floor, overlap>>
           /\ ~manager'.active /\ manager'.references = manager.references
           /\ client'.pc = "none" /\ client'.step = client.step
           /\ client'.message = client.message
  <1>1. manager \in Managers /\ client \in Workers
    BY DEF NvmlTypeOK
  <1>2. "none" \in Pcs /\ Nothing \in Gpus \cup {Nothing}
    BY DEF Pcs
  <1>3. /\ client' = [client EXCEPT !.pc = "none"]
        /\ manager' = [manager EXCEPT !.active = FALSE, !.stop = FALSE,
                                      !.gpu = Nothing, !.attempts = 0]
    BY DEF Join
  <1>4. /\ manager' \in Managers /\ ~manager'.active
        /\ manager'.references = manager.references
    BY <1>1, <1>2, <1>3, SetGone
  <1>5. /\ client' \in Workers /\ client'.pc = "none"
        /\ client'.step = client.step /\ client'.message = client.message
    BY <1>1, <1>2, <1>3, SetPc
  <1> QED BY <1>4, <1>5 DEF Join

LEMMA ClearEffect ==
    ASSUME NvmlTypeOK, NEW u \in Users, Clear(u)
    PROVE  /\ published' \in Values /\ user[u] = "clear" /\ store[u] \in 1..3
           /\ UNCHANGED <<manager, client, conn, open, helper, queue, reader,
                          sent, dead, floor>>
           /\ overlap' = (overlap \/ manager.active)
           /\ published'.use = published.use
           /\ published'.temperature = published.temperature
           /\ published'.available => published.available
           /\ \/ user' = user /\ store' = [store EXCEPT ![u] = store[u] + 1]
                 /\ store[u] < 3
              \/ /\ user' = [user EXCEPT ![u] = "out"]
                 /\ store' = [store EXCEPT ![u] = 0]
  <1>1. published \in Values /\ store[u] \in 1..3
    BY DEF NvmlTypeOK, Clear
  <1> DEFINE i == store[u]
  <1>2. published' = Stored(InvalidateStores[i], NoMessage)
    BY DEF Clear
  <1> HIDE DEF i
  <1>3. i \in 1..3 /\ published.gen + 1 \in Nat
    BY <1>1, Typed DEF i
  <1>4. /\ published' \in Values
        /\ published'.use = published.use
        /\ published'.temperature = published.temperature
        /\ published'.available => published.available
    <2>1. CASE i \in {1, 3}
      <3>1. published' = [published EXCEPT !.gen = published.gen + 1]
        BY <1>2, <1>3, <2>1, InvalidateIs
      <3> QED BY <1>1, <1>3, <3>1, SetGen
    <2>2. CASE i = 2
      <3>1. published' = [published EXCEPT !.available = FALSE]
        BY <1>2, <1>3, <2>2, InvalidateIs
      <3> QED BY <1>1, <3>1, SetAvailable
    <2> QED BY <1>3, <2>1, <2>2
  <1> QED BY <1>1, <1>4, Lengths DEF Clear

LEMMA SnapshotEffect ==
    ASSUME NvmlTypeOK, NEW u \in Users, BeginSnapshot(u)
    PROVE  /\ reader' \in Readers /\ reader'.user = u /\ reader'.step = 1
           /\ reader.user = Nothing /\ user[u] = "in" /\ floor' = dead
           /\ UNCHANGED <<manager, published, client, conn, open, helper,
                          queue, user, store, sent, dead, overlap>>
  <1>1. reader' = [NoReader EXCEPT !.user = u, !.step = 1, !.tries = 1]
    BY DEF BeginSnapshot
  <1>2. reader' = [user |-> u, step |-> 1, tries |-> 1, before |-> 0,
                   message |-> NoReader.message]
    BY <1>1 DEF NoReader
  <1>3. reader' \in Readers /\ reader'.user = u /\ reader'.step = 1
    <2>1. NoReader.message \in Loaded /\ u \in Reader /\ 1 \in Places
      BY DEF NoReader, Loaded, Reader, Places
    <2> QED BY <1>2, <2>1 DEF Readers
  <1> QED BY <1>3, NoReaderTyped DEF BeginSnapshot, Holding

\* The users' side does not move when the worker or a helper does.
Unmoved == UNCHANGED <<user, store, reader, floor, overlap>>

LEMMA IdleEffect ==
    ASSUME NvmlTypeOK, Top \/ WaitUntil \/ TimedOut
    PROVE  /\ client' \in Workers /\ Unmoved
           /\ client.pc \in {"top", "wait", "blocked"}
           /\ client'.pc \in {"exited", "wait", "woke", "blocked"}
           /\ UNCHANGED <<manager, published, conn, open, helper, queue, sent,
                          dead>>
  <1>1. client \in Workers
    BY DEF NvmlTypeOK
  <1>2. \E x \in {"exited", "wait", "woke", "blocked"} :
          client' = [client EXCEPT !.pc = x]
    BY DEF Top, WaitUntil, TimedOut, Goto
  <1>3. PICK x \in {"exited", "wait", "woke", "blocked"} :
          client' = [client EXCEPT !.pc = x]
    BY <1>2
  <1>4. x \in Pcs
    BY DEF Pcs, Unconnected
  <1>5. client' \in Workers /\ client'.pc = x
    BY <1>1, <1>3, <1>4, SetPc
  <1> QED BY <1>5 DEF Top, WaitUntil, TimedOut, At, users, Unmoved

LEMMA SpawnEffect ==
    ASSUME NvmlTypeOK, Spawn
    PROVE  /\ manager' \in Managers /\ client' \in Workers /\ Unmoved
           /\ client.pc = "woke"
           /\ conn' \in Nat \cup {Nothing} /\ open' \in BOOLEAN
           /\ helper' \in {"none", "running", "told", "dead"}
           /\ UNCHANGED <<published, sent, dead>>
           /\ manager'.active = manager.active /\ manager'.stop = manager.stop
           /\ manager'.references = manager.references
           /\ \/ /\ client'.pc \in {"exited", "top"} /\ queue' = queue
                 /\ helper' = helper
              \/ client'.pc = "set" /\ queue' = <<>>
  <1>1. /\ manager \in Managers /\ client \in Workers /\ open \in BOOLEAN
        /\ conn \in Nat \cup {Nothing}
        /\ helper \in {"none", "running", "told", "dead"}
    BY DEF NvmlTypeOK
  <1>2. manager.attempts + 1 \in Nat /\ {"exited", "top", "set"} \subseteq Pcs
    BY Typed DEF Pcs, Unconnected, Connected
  <1>3. CASE manager.stop
    <2>1. client' = [client EXCEPT !.pc = "exited"]
      BY <1>3 DEF Spawn, Goto
    <2>2. client' \in Workers /\ client'.pc = "exited"
      BY <1>1, <1>2, <2>1, SetPc
    <2> QED BY <1>1, <1>3, <2>2 DEF Spawn, At, users, Unmoved
  <1>4. CASE ~manager.stop
    <2>1. manager' = [manager EXCEPT !.attempts = manager.attempts + 1]
      BY <1>4 DEF Spawn
    <2>2. /\ manager' \in Managers /\ manager'.active = manager.active
          /\ manager'.stop = manager.stop
          /\ manager'.references = manager.references
      BY <1>1, <1>2, <2>1, SetAttempts
    <2>3. manager'.attempts \in Nat
      BY <2>2 DEF Managers
    <2>4. CASE Goto("top") /\ UNCHANGED <<conn, open, helper, queue>>
      <3>1. client' \in Workers /\ client'.pc = "top"
        BY <1>1, <1>2, <2>4, SetPc DEF Goto
      <3> QED BY <1>1, <2>2, <2>4, <3>1 DEF Spawn, At, users, Unmoved
    <2>5. CASE /\ client' = [client EXCEPT !.pc = "set", !.previous = 0]
               /\ conn' = manager'.attempts /\ open' = TRUE
               /\ helper' = "running" /\ queue' = <<>>
      <3>1. client' \in Workers /\ client'.pc = "set"
        BY <1>1, <1>2, <2>5, SetPcPrevious
      <3> QED BY <1>1, <2>2, <2>3, <2>5, <3>1 DEF Spawn, At, users, Unmoved
    <2> QED BY <1>4, <2>4, <2>5 DEF Spawn
  <1> QED BY <1>3, <1>4

LEMMA SetLiveEffect ==
    ASSUME NvmlTypeOK, SetLive
    PROVE  /\ manager' \in Managers /\ client' \in Workers /\ Unmoved
           /\ client.pc = "set" /\ client'.pc = "loop"
           /\ UNCHANGED <<published, conn, open, helper, queue, sent, dead>>
           /\ manager'.active = manager.active /\ manager'.stop = manager.stop
           /\ manager'.references = manager.references
  <1>1. /\ manager \in Managers /\ client \in Workers
        /\ conn \in Nat \cup {Nothing} /\ "loop" \in Pcs
    BY DEF NvmlTypeOK, Pcs, Connected
  <1>2. /\ client' = [client EXCEPT !.pc = "loop"]
        /\ manager' = [manager EXCEPT !.socket_fd = conn]
    BY DEF SetLive, Goto
  <1>3. client' \in Workers /\ client'.pc = "loop"
    BY <1>1, <1>2, SetPc
  <1>4. /\ manager' \in Managers /\ manager'.active = manager.active
        /\ manager'.stop = manager.stop
        /\ manager'.references = manager.references
    BY <1>1, <1>2, SetSocket
  <1> QED BY <1>3, <1>4 DEF SetLive, At, users, Unmoved

LEMMA LoopEffect ==
    ASSUME NvmlTypeOK, Loop
    PROVE  /\ client' \in Workers /\ Unmoved /\ client.pc = "loop"
           /\ \/ client'.pc = "invalidate" /\ client'.step = 1
              \/ client'.pc = "poll"
           /\ UNCHANGED <<manager, published, conn, open, helper, queue, sent,
                          dead>>
  <1>1. client \in Workers /\ {"invalidate", "poll"} \subseteq Pcs /\ 1 \in Places
    BY DEF NvmlTypeOK, Pcs, Connected, Places
  <1>2. \/ client' = [client EXCEPT !.pc = "invalidate", !.step = 1]
        \/ client' = [client EXCEPT !.pc = "poll"]
    BY DEF Loop
  <1>3. /\ client' \in Workers
        /\ \/ client'.pc = "invalidate" /\ client'.step = 1
           \/ client'.pc = "poll"
    BY <1>1, <1>2 DEF Workers, Pcs
  <1> QED BY <1>3 DEF Loop, At, users, Unmoved

LEMMA PollEffect ==
    ASSUME NvmlTypeOK, Poll
    PROVE  /\ client' \in Workers /\ Unmoved /\ client.pc = "poll"
           /\ helper' \in {helper, "none"}
           /\ \/ client'.pc = "invalidate" /\ client'.step = 1
              \/ client'.pc \in {"recv", "loop"}
           /\ UNCHANGED <<manager, published, conn, open, queue, sent, dead>>
  <1>1. /\ client \in Workers /\ 1 \in Places
        /\ "invalidate" \in Pcs /\ "recv" \in Pcs /\ "loop" \in Pcs
    BY DEF NvmlTypeOK, Pcs, Connected, Places
  <1>2. \/ client' = [client EXCEPT !.pc = "invalidate", !.step = 1]
        \/ client' = [client EXCEPT !.pc = "recv"]
        \/ client' = [client EXCEPT !.pc = "loop"]
    BY DEF Poll, Goto
  <1>3. /\ client' \in Workers
        /\ \/ client'.pc = "invalidate" /\ client'.step = 1
           \/ client'.pc \in {"recv", "loop"}
    BY <1>1, <1>2 DEF Workers, Pcs
  <1> QED BY <1>3 DEF Poll, At, users, Unmoved

LEMMA RecvEffect ==
    ASSUME NvmlTypeOK, Recv
    PROVE  /\ client' \in Workers /\ Unmoved /\ client.pc = "recv"
           /\ UNCHANGED <<manager, published, conn, open, helper, sent, dead>>
           /\ \/ /\ queue' = queue
                 /\ \/ client'.pc = "invalidate" /\ client'.step = 1
                    \/ client'.pc = "loop"
              \/ /\ queue # <<>> /\ queue' = Tail(queue)
                 /\ \/ client' = client
                    \/ /\ client'.pc = "publish" /\ client'.step = 1
                       /\ client'.message = Head(queue)
  <1>1. /\ client \in Workers /\ queue \in Seq(Message)
        /\ "invalidate" \in Pcs /\ "loop" \in Pcs /\ 1 \in Places
    BY DEF NvmlTypeOK, Pcs, Connected, Places
  <1>2. CASE queue = <<>>
    <2>1. \/ client' = [client EXCEPT !.pc = "invalidate", !.step = 1]
          \/ client' = [client EXCEPT !.pc = "loop"]
      BY <1>2 DEF Recv
    <2>2. /\ client' \in Workers
          /\ \/ client'.pc = "invalidate" /\ client'.step = 1
             \/ client'.pc = "loop"
      BY <1>1, <2>1 DEF Workers, Pcs
    <2> QED BY <1>2, <2>2 DEF Recv, At, users, Unmoved
  <1>3. CASE queue # <<>>
    <2>1. Head(queue) \in Message
      BY <1>1, <1>3
    <2>2. Head(queue).sequence \in Nat
      BY <2>1 DEF Message
    <2>3. \/ client' = client
          \/ client' = [pc |-> "publish", step |-> 1, message |-> Head(queue),
                        previous |-> Head(queue).sequence]
      BY <1>3 DEF Recv
    <2>4. /\ client' \in Workers
          /\ \/ client' = client
             \/ /\ client'.pc = "publish" /\ client'.step = 1
                /\ client'.message = Head(queue)
      BY <1>1, <2>1, <2>2, <2>3 DEF Workers, Connected, Places
    <2> QED BY <1>3, <2>4 DEF Recv, At, users, Unmoved
  <1> QED BY <1>2, <1>3

LEMMA PublishEffect ==
    ASSUME NvmlTypeOK, PublishStep
    PROVE  LET i == client.step IN
           /\ client' \in Workers /\ published' \in Values /\ Unmoved
           /\ client.pc = "publish" /\ i \in 1..6
           /\ UNCHANGED <<manager, conn, open, helper, queue, sent, dead>>
           /\ published'.gen = published.gen + (IF i \in {1, 6} THEN 1 ELSE 0)
           /\ published'.use = IF i = 2 THEN client.message.id ELSE published.use
           /\ published'.temperature =
                IF i = 3 THEN client.message.id ELSE published.temperature
           /\ published'.available =
                IF i = 4 THEN client.message.available ELSE published.available
           /\ \/ /\ i < 6 /\ client'.pc = "publish" /\ client'.step = i + 1
                 /\ client'.message = client.message
              \/ i = 6 /\ client'.pc = "recv"
  <1> DEFINE i == client.step
             m == client.message
  <1>1. /\ client \in Workers /\ published \in Values /\ client.pc = "publish"
        /\ i \in 1..6
    BY DEF NvmlTypeOK, PublishStep, At
  <1>2. /\ published.gen + 1 \in Nat /\ published.gen \in Nat /\ m.id \in Nat
        /\ m.sequence \in Nat /\ m.available \in BOOLEAN
    BY Typed
  <1>3. published' = Stored(PublishStores[i], m)
    BY DEF PublishStep
  <1>4. /\ i < 6 => client' = [client EXCEPT !.step = i + 1]
        /\ i = 6 => client' = [client EXCEPT !.pc = "recv", !.step = 0,
                                             !.message = NoMessage]
    BY <1>1, Lengths DEF PublishStep
  <1>5. /\ client' \in Workers
        /\ \/ /\ i < 6 /\ client'.pc = "publish" /\ client'.step = i + 1
              /\ client'.message = m
           \/ i = 6 /\ client'.pc = "recv"
    <2> HIDE DEF i
    <2>1. CASE i < 6
      <3>1. i + 1 \in Places
        BY <1>1, <2>1 DEF Places
      <3> QED BY <1>1, <1>4, <2>1, <3>1, SetStep
    <2>2. CASE i = 6
      <3>1. "recv" \in Pcs /\ 0 \in Places
        BY DEF Pcs, Connected, Places
      <3> QED BY <1>1, <1>4, <2>2, <3>1, NoMessageTyped DEF Workers, Pcs
    <2> QED BY <1>1, <2>1, <2>2
  <1>6. /\ published' \in Values
        /\ published'.gen = published.gen + (IF i \in {1, 6} THEN 1 ELSE 0)
        /\ published'.use = IF i = 2 THEN m.id ELSE published.use
        /\ published'.temperature =
             IF i = 3 THEN m.id ELSE published.temperature
        /\ published'.available =
             IF i = 4 THEN m.available ELSE published.available
    <2> HIDE DEF i, m
    <2>1. CASE i \in {1, 6}
      <3>1. published' = [published EXCEPT !.gen = published.gen + 1]
        BY <1>1, <1>3, <2>1, PublishIs
      <3> QED BY <1>1, <1>2, <2>1, <3>1, SetGen
    <2>2. CASE i = 2
      <3>1. published' = [published EXCEPT !.use = m.id]
        BY <1>1, <1>3, <2>2, PublishIs
      <3> QED BY <1>1, <1>2, <2>2, <3>1, SetUse
    <2>3. CASE i = 3
      <3>1. published' = [published EXCEPT !.temperature = m.id]
        BY <1>1, <1>3, <2>3, PublishIs
      <3> QED BY <1>1, <1>2, <2>3, <3>1, SetTemperature
    <2>4. CASE i = 4
      <3>1. published' = [published EXCEPT !.available = m.available]
        BY <1>1, <1>3, <2>4, PublishIs
      <3> QED BY <1>1, <1>2, <2>4, <3>1, SetAvailable
    <2>5. CASE i = 5
      <3>1. published' = [published EXCEPT !.sequence = m.sequence]
        BY <1>1, <1>3, <2>5, PublishIs
      <3> QED BY <1>1, <1>2, <2>5, <3>1, SetSequence
    <2> QED BY <1>1, <2>1, <2>2, <2>3, <2>4, <2>5
  <1>7. Unmoved /\ UNCHANGED <<manager, conn, open, helper, queue, sent, dead>>
    BY DEF PublishStep, users, Unmoved
  <1> QED BY <1>1, <1>5, <1>6, <1>7

LEMMA InvalidateEffect ==
    ASSUME NvmlTypeOK, Invalidate
    PROVE  LET i == client.step IN
           /\ client' \in Workers /\ published' \in Values /\ Unmoved
           /\ client.pc = "invalidate" /\ i \in 1..3
           /\ UNCHANGED <<manager, conn, open, helper, queue, sent, dead>>
           /\ published'.gen = published.gen + (IF i \in {1, 3} THEN 1 ELSE 0)
           /\ published'.use = published.use
           /\ published'.temperature = published.temperature
           /\ i = 2 => ~published'.available
           /\ i # 2 => published'.available = published.available
           /\ \/ i < 3 /\ client'.pc = "invalidate" /\ client'.step = i + 1
              \/ i = 3 /\ client'.pc = "close"
  <1> DEFINE i == client.step
  <1>1. /\ client \in Workers /\ published \in Values
        /\ client.pc = "invalidate" /\ i \in 1..3
    BY DEF NvmlTypeOK, Invalidate, At
  <1>2. published.gen + 1 \in Nat /\ published.gen \in Nat
    BY Typed
  <1>3. published' = Stored(InvalidateStores[i], NoMessage)
    BY DEF Invalidate
  <1>4. /\ i < 3 => client' = [client EXCEPT !.step = i + 1]
        /\ i = 3 => client' = [client EXCEPT !.pc = "close", !.step = 0]
    BY <1>1, Lengths DEF Invalidate
  <1>5. /\ client' \in Workers
        /\ \/ i < 3 /\ client'.pc = "invalidate" /\ client'.step = i + 1
           \/ i = 3 /\ client'.pc = "close"
    <2> HIDE DEF i
    <2>1. CASE i < 3
      <3>1. i + 1 \in Places
        BY <1>1, <2>1 DEF Places
      <3> QED BY <1>1, <1>4, <2>1, <3>1, SetStep
    <2>2. CASE i = 3
      <3>1. "close" \in Pcs /\ 0 \in Places
        BY DEF Pcs, Connected, Places
      <3> QED BY <1>1, <1>4, <2>2, <3>1 DEF Workers, Pcs
    <2> QED BY <1>1, <2>1, <2>2
  <1>6. /\ published' \in Values
        /\ published'.gen = published.gen + (IF i \in {1, 3} THEN 1 ELSE 0)
        /\ published'.use = published.use
        /\ published'.temperature = published.temperature
        /\ i = 2 => ~published'.available
        /\ i # 2 => published'.available = published.available
    <2> HIDE DEF i
    <2>1. CASE i \in {1, 3}
      <3>1. published' = [published EXCEPT !.gen = published.gen + 1]
        BY <1>1, <1>3, <2>1, InvalidateIs
      <3> QED BY <1>1, <1>2, <2>1, <3>1, SetGen
    <2>2. CASE i = 2
      <3>1. published' = [published EXCEPT !.available = FALSE]
        BY <1>1, <1>3, <2>2, InvalidateIs
      <3>2. /\ published' \in Values /\ published'.available = FALSE
            /\ published'.gen = published.gen
            /\ published'.use = published.use
            /\ published'.temperature = published.temperature
        BY <1>1, <3>1 DEF Values
      <3> QED BY <1>2, <2>2, <3>2
    <2> QED BY <1>1, <2>1, <2>2
  <1>7. Unmoved /\ UNCHANGED <<manager, conn, open, helper, queue, sent, dead>>
    BY DEF Invalidate, users, Unmoved
  <1> QED BY <1>1, <1>5, <1>6, <1>7

LEMMA CloseEffect ==
    ASSUME NvmlTypeOK, Close
    PROVE  /\ client' \in Workers /\ Unmoved
           /\ client.pc = "close" /\ client'.pc = "terminate"
           /\ open' = FALSE /\ queue' = <<>> /\ dead' = sent
           /\ UNCHANGED <<manager, published, conn, helper, sent>>
  <1>1. client \in Workers /\ "terminate" \in Pcs
    BY DEF NvmlTypeOK, Pcs, Connected
  <1>2. client' = [client EXCEPT !.pc = "terminate"]
    BY DEF Close, Goto
  <1>3. client' \in Workers /\ client'.pc = "terminate"
    BY <1>1, <1>2, SetPc
  <1> QED BY <1>3 DEF Close, At, users, Unmoved

LEMMA TerminateEffect ==
    ASSUME NvmlTypeOK, Terminate
    PROVE  /\ client' \in Workers /\ Unmoved /\ client.pc = "terminate"
           /\ UNCHANGED <<manager, published, conn, open, queue, sent, dead>>
           /\ \/ helper' = "told" /\ UNCHANGED client
              \/ helper' = "none" /\ client'.pc = "unset"
  <1>1. client \in Workers /\ "unset" \in Pcs
    BY DEF NvmlTypeOK, Pcs, Unconnected
  <1>2. \/ helper' = "told" /\ client' = client
        \/ helper' = "none" /\ client' = [client EXCEPT !.pc = "unset"]
    BY DEF Terminate, Goto
  <1>3. /\ client' \in Workers
        /\ \/ helper' = "told" /\ client' = client
           \/ helper' = "none" /\ client'.pc = "unset"
    BY <1>1, <1>2, SetPc
  <1> QED BY <1>3 DEF Terminate, At, users, Unmoved

LEMMA ClearLiveEffect ==
    ASSUME NvmlTypeOK, ClearLive
    PROVE  /\ manager' \in Managers /\ client' \in Workers /\ Unmoved
           /\ client.pc = "unset" /\ client'.pc = "top" /\ conn' = Nothing
           /\ UNCHANGED <<published, open, helper, queue, sent, dead>>
           /\ manager'.active = manager.active /\ manager'.stop = manager.stop
           /\ manager'.references = manager.references
  <1>1. /\ manager \in Managers /\ client \in Workers
        /\ Nothing \in Nat \cup {Nothing} /\ "top" \in Pcs
    BY DEF NvmlTypeOK, Pcs, Unconnected
  <1>2. /\ client' = [client EXCEPT !.pc = "top"]
        /\ manager' = [manager EXCEPT !.socket_fd = Nothing]
    BY DEF ClearLive, Goto
  <1>3. client' \in Workers /\ client'.pc = "top"
    BY <1>1, <1>2, SetPc
  <1>4. /\ manager' \in Managers /\ manager'.active = manager.active
        /\ manager'.stop = manager.stop
        /\ manager'.references = manager.references
    BY <1>1, <1>2, SetSocket
  <1> QED BY <1>3, <1>4 DEF ClearLive, At, users, Unmoved

LEMMA SendEffect ==
    ASSUME NvmlTypeOK, NEW a \in BOOLEAN, NEW d \in BOOLEAN, HelperSend(a, d)
    PROVE  /\ Unmoved /\ sent' = sent + 1 /\ sent' \in Nat
           /\ UNCHANGED <<manager, published, client, conn, open, helper, dead>>
           /\ \/ queue' = queue
              \/ \E m \in Message : m.id = sent' /\ queue' = Append(queue, m)
  <1>1. sent' = sent + 1 /\ sent' \in Nat /\ sent' - dead \in Nat
    BY DEF HelperSend, NvmlTypeOK, users
  <1> DEFINE m == [sequence |-> sent' - dead, available |-> a, id |-> sent']
  <1>2. queue' = queue \/ queue' = Append(queue, m)
    BY DEF HelperSend
  <1>3. m \in Message /\ m.id = sent'
    BY <1>1 DEF Message
  <1> HIDE DEF m
  <1>4. queue' = queue \/ \E n \in Message : n.id = sent' /\ queue' = Append(queue, n)
    BY <1>2, <1>3
  <1> QED BY <1>1, <1>4 DEF HelperSend, users, Unmoved

LEMMA ReadEffect ==
    ASSUME NvmlTypeOK, Read
    PROVE  /\ reader' \in Readers /\ floor' \in Nat
           /\ reader'.user # Nothing => floor' = floor
           /\ UNCHANGED <<manager, published, client, conn, open, helper,
                          queue, user, store, sent, dead, overlap>>
           /\ reader.user \in Users
           /\ \/ reader'.user = Nothing /\ reader'.step = 0
              \/ reader'.user = reader.user /\ reader'.step = 1
              \/ /\ reader.step = 1 /\ published.gen % 2 # 1
                 /\ reader'.user = reader.user /\ reader'.step = 2
                 /\ reader'.before = published.gen
              \/ /\ reader.step \in 2..5
                 /\ reader'.user = reader.user
                 /\ reader'.step = reader.step + 1
                 /\ reader'.before = reader.before
                 /\ reader'.message.available =
                      IF reader.step = 3 THEN published.available
                      ELSE reader.message.available
                 /\ reader'.message.use =
                      IF reader.step = 4 THEN published.use
                      ELSE reader.message.use
                 /\ reader'.message.temperature =
                      IF reader.step = 5 THEN published.temperature
                      ELSE reader.message.temperature
  <1>1. /\ reader.user \in Users /\ reader.user # Nothing
        /\ reader.tries \in Nat /\ reader \in Readers /\ published.gen \in Nat
    BY Typed, NvmlAssumption DEF Read, Reader, NvmlTypeOK
  <1>2. /\ Retried \in Readers
        /\ \/ Retried.user = Nothing /\ Retried.step = 0
           \/ Retried.user = reader.user /\ Retried.step = 1
    <2>1. CASE reader.tries < MaxReads
      <3> PICK n \in Nat : n = reader.tries + 1
        BY <1>1
      <3>1. Retried = [user |-> reader.user, step |-> 1, tries |-> n,
                       before |-> 0, message |-> NoReader.message]
        BY <2>1 DEF Retried, NoReader
      <3>2. NoReader.message \in Loaded /\ 1 \in Places /\ reader.user \in Reader
        BY <1>1 DEF NoReader, Loaded, Places, Reader
      <3> QED BY <3>1, <3>2 DEF Readers
    <2>2. CASE ~(reader.tries < MaxReads)
      BY <2>2, NoReaderTyped DEF Retried
    <2> QED BY <2>1, <2>2
  <1>3. /\ floor' \in Nat /\ (reader'.user # Nothing => floor' = floor)
        /\ UNCHANGED <<manager, published, client, conn, open, helper,
                       queue, user, store, sent, dead, overlap>>
    BY NoReaderTyped DEF Read, NvmlTypeOK
  <1>4. CASE /\ reader.step = 1 /\ published.gen % 2 # 1
             /\ reader' = [reader EXCEPT !.before = published.gen, !.step = 2]
    <2>0. 2 \in Places
      BY DEF Places
    <2>1. /\ reader' \in Readers /\ reader'.user = reader.user
          /\ reader'.step = 2 /\ reader'.before = published.gen
      BY <1>1, <1>4, <2>0 DEF Readers
    <2> QED BY <1>1, <1>3, <1>4, <2>1
  <1>5. CASE /\ reader.step \in 2..5
             /\ reader' = [reader EXCEPT
                    !.step = reader.step + 1,
                    !.message = [reader.message EXCEPT
                        ![Loads[reader.step]] = published[Loads[reader.step]]]]
    <2> PICK n \in Places : n = reader.step + 1
      BY <1>5 DEF Places
    <2> DEFINE m == [reader.message EXCEPT
                       ![Loads[reader.step]] = published[Loads[reader.step]]]
    <2>1. reader.message \in Loaded
      BY Typed
    <2>2. /\ m \in Loaded
          /\ m.available = IF reader.step = 3 THEN published.available
                           ELSE reader.message.available
          /\ m.use = IF reader.step = 4 THEN published.use
                     ELSE reader.message.use
          /\ m.temperature = IF reader.step = 5 THEN published.temperature
                             ELSE reader.message.temperature
      <3>1. CASE reader.step = 2
        <4>1. m = [reader.message EXCEPT !.sequence = published.sequence]
          BY <3>1 DEF Loads
        <4> HIDE DEF m
        <4> QED BY <2>1, <3>1, <4>1, Typed DEF Loaded
      <3>2. CASE reader.step = 3
        <4>1. m = [reader.message EXCEPT !.available = published.available]
          BY <3>2 DEF Loads
        <4> HIDE DEF m
        <4> QED BY <2>1, <3>2, <4>1, Typed DEF Loaded
      <3>3. CASE reader.step = 4
        <4>1. m = [reader.message EXCEPT !.use = published.use]
          BY <3>3 DEF Loads
        <4> HIDE DEF m
        <4> QED BY <2>1, <3>3, <4>1, Typed DEF Loaded
      <3>4. CASE reader.step = 5
        <4>1. m = [reader.message EXCEPT !.temperature = published.temperature]
          BY <3>4 DEF Loads
        <4> HIDE DEF m
        <4> QED BY <2>1, <3>4, <4>1, Typed DEF Loaded
      <3> QED BY <1>5, <3>1, <3>2, <3>3, <3>4
    <2>3. reader' = [reader EXCEPT !.step = n, !.message = m]
      BY <1>5
    <2> HIDE DEF m
    <2>4. /\ reader' \in Readers /\ reader'.user = reader.user
          /\ reader'.step = n /\ reader'.before = reader.before
          /\ reader'.message = m
      BY <1>1, <2>2, <2>3 DEF Readers
    <2> QED BY <1>1, <1>3, <1>5, <2>2, <2>4
  <1>7. \/ reader' = Retried \/ reader' = NoReader
        \/ /\ reader.step = 1 /\ published.gen % 2 # 1
           /\ reader' = [reader EXCEPT !.before = published.gen, !.step = 2]
        \/ /\ reader.step \in 2..5
           /\ reader' = [reader EXCEPT
                  !.step = reader.step + 1,
                  !.message = [reader.message EXCEPT
                      ![Loads[reader.step]] = published[Loads[reader.step]]]]
    BY DEF Read
  <1>6. CASE reader' = Retried \/ reader' = NoReader
    BY <1>1, <1>2, <1>3, <1>6, NoReaderTyped
  <1> QED BY <1>1, <1>3, <1>4, <1>5, <1>6, <1>7

-----------------------------------------------------------------------------
(* The types.                                                              *)

\* Whoever holds a reference is counted.
LEMMA HolderCounted ==
    ASSUME Owners, NEW u \in Users, user[u] = "in"
    PROVE  /\ IsFiniteSet(Holders) /\ Cardinality(Holders) = manager.references
           /\ manager.references \in Nat \ {0}
           /\ manager.references = 1 => Holders = {u}
  <1>1. IsFiniteSet(Holders) /\ u \in Holders
    BY NvmlAssumption, FS_Subset DEF Holders
  <1>2. Cardinality(Holders) = manager.references
    BY DEF Owners
  <1>3. Cardinality(Holders) \in Nat /\ Cardinality(Holders) # 0
    BY <1>1, FS_CardinalityType, FS_EmptySet
  <1>4. Cardinality({u}) = 1
    BY FS_Singleton
  <1>5. ASSUME Cardinality(Holders) = 1 PROVE Holders = {u}
    <2>1. {u} \in SUBSET Holders
      BY <1>1
    <2> QED BY <1>1, <1>4, <1>5, <2>1, FS_Subset
  <1> QED BY <1>1, <1>2, <1>3, <1>5

LEMMA NvmlTypeStep ==
    ASSUME NvmlTypeOK, Owners, [NvmlNext]_nvars
    PROVE  NvmlTypeOK'
  <1>0. CASE UNCHANGED nvars
    BY <1>0 DEF nvars, NvmlTypeOK
  <1>1. ASSUME NEW u \in Users, NEW g \in Gpus, Acquire(u, g)
        PROVE  NvmlTypeOK'
    <2>1. \/ client' = client
          \/ client'.pc = "top"
      BY <1>1, AcquireEffect
    <2>2. \/ user' = user \/ user' = [user EXCEPT ![u] = "in"]
      BY <1>1, AcquireEffect
    <2> QED BY <1>1, <2>1, <2>2, AcquireEffect DEF NvmlTypeOK
  <1>2. ASSUME NEW u \in Users, Release(u)
        PROVE  NvmlTypeOK'
    <2>1. manager.references # 0
      BY <1>2, HolderCounted DEF Release, Holding
    <2>2. client'.pc = client.pc \/ client'.pc = "woke"
      BY <1>2, <2>1, ReleaseEffect
    <2> QED BY <1>2, <2>1, <2>2, ReleaseEffect DEF NvmlTypeOK
  <1>3. ASSUME NEW u \in Users, Shutdown(u)
        PROVE  NvmlTypeOK'
    BY <1>3 DEF Shutdown, NvmlTypeOK
  <1>4. ASSUME NEW u \in Users, Join(u)
        PROVE  NvmlTypeOK'
    BY <1>4, JoinEffect DEF NvmlTypeOK
  <1>5. ASSUME NEW u \in Users, Clear(u)
        PROVE  NvmlTypeOK'
    <2>1. /\ user' \in [Users -> {"out", "in", "shutdown", "join", "clear"}]
          /\ store' \in [Users -> 0..3]
          /\ \A v \in Users : user'[v] = "clear" => store'[v] \in 1..3
      <3>1. /\ store[u] \in 1..3 /\ user[u] = "clear"
            /\ \/ user' = user /\ store' = [store EXCEPT ![u] = store[u] + 1]
                  /\ store[u] < 3
               \/ /\ user' = [user EXCEPT ![u] = "out"]
                  /\ store' = [store EXCEPT ![u] = 0]
        BY <1>5, ClearEffect
      <3>2. /\ user \in [Users -> {"out", "in", "shutdown", "join", "clear"}]
            /\ store \in [Users -> 0..3]
            /\ \A v \in Users : user[v] = "clear" => store[v] \in 1..3
        BY DEF NvmlTypeOK
      <3> QED BY <3>1, <3>2
    <2>2. overlap' \in BOOLEAN
      BY <1>5, ClearEffect, Typed DEF NvmlTypeOK
    <2> QED BY <1>5, <2>1, <2>2, ClearEffect DEF NvmlTypeOK
  <1>6. ASSUME NEW u \in Users, BeginSnapshot(u)
        PROVE  NvmlTypeOK'
    BY <1>6, SnapshotEffect, NvmlAssumption DEF NvmlTypeOK
  <1>7. CASE Top \/ WaitUntil \/ TimedOut
    BY <1>7, IdleEffect DEF Unmoved, NvmlTypeOK
  <1>8. CASE Spawn
    <2>1. queue' \in Seq(Message)
      <3>1. queue' = queue \/ queue' = <<>>
        BY <1>8, SpawnEffect
      <3>2. queue \in Seq(Message)
        BY DEF NvmlTypeOK
      <3>3. <<>> \in Seq(Message)
        OBVIOUS
      <3> QED BY <3>1, <3>2, <3>3
    <2> QED BY <1>8, <2>1, SpawnEffect DEF Unmoved, NvmlTypeOK
  <1>9. CASE SetLive
    BY <1>9, SetLiveEffect DEF Unmoved, NvmlTypeOK
  <1>10. CASE Loop
    BY <1>10, LoopEffect DEF Unmoved, NvmlTypeOK
  <1>11. CASE Poll
    BY <1>11, PollEffect DEF Unmoved, NvmlTypeOK
  <1>12. CASE Recv
    <2>1. queue' \in Seq(Message)
      <3>1. queue \in Seq(Message)
        BY DEF NvmlTypeOK
      <3>2. queue' = queue \/ (queue # <<>> /\ queue' = Tail(queue))
        BY <1>12, RecvEffect
      <3> QED BY <3>1, <3>2
    <2> QED BY <1>12, <2>1, RecvEffect DEF Unmoved, NvmlTypeOK
  <1>13. CASE PublishStep
    BY <1>13, PublishEffect DEF Unmoved, NvmlTypeOK
  <1>14. CASE Invalidate
    BY <1>14, InvalidateEffect DEF Unmoved, NvmlTypeOK
  <1>15. CASE Close
    <2>1. queue' \in Seq(Message)
      <3>1. queue' = <<>>
        BY <1>15, CloseEffect
      <3> QED BY <3>1
    <2>2. dead' \in 0..sent'
      <3>1. dead' = sent /\ sent' = sent
        BY <1>15, CloseEffect
      <3>2. sent \in Nat
        BY DEF NvmlTypeOK
      <3> QED BY <3>1, <3>2
    <2> QED BY <1>15, <2>1, <2>2, CloseEffect DEF Unmoved, NvmlTypeOK
  <1>16. CASE Terminate
    BY <1>16, TerminateEffect DEF Unmoved, NvmlTypeOK
  <1>17. CASE ClearLive
    BY <1>17, ClearLiveEffect DEF Unmoved, NvmlTypeOK
  <1>18. CASE HelperEnds
    BY <1>18 DEF HelperEnds, users, NvmlTypeOK
  <1>19. CASE Read
    <2>1. reader'.user = Nothing <=> reader'.step = 0
      BY <1>19, ReadEffect, NvmlAssumption
    <2> QED BY <1>19, <2>1, ReadEffect DEF NvmlTypeOK
  <1>20. ASSUME NEW a \in BOOLEAN, NEW d \in BOOLEAN, HelperSend(a, d)
         PROVE  NvmlTypeOK'
    <2>1. queue' \in Seq(Message)
      <3>1. queue \in Seq(Message)
        BY DEF NvmlTypeOK
      <3>2. queue' = queue \/ \E m \in Message : queue' = Append(queue, m)
        BY <1>20, SendEffect
      <3> QED BY <3>1, <3>2
    <2> QED BY <1>20, <2>1, SendEffect DEF Unmoved, NvmlTypeOK
  <1> QED
    BY <1>0, <1>1, <1>2, <1>3, <1>4, <1>5, <1>6, <1>7, <1>8, <1>9, <1>10,
       <1>11, <1>12, <1>13, <1>14, <1>15, <1>16, <1>17, <1>18, <1>19, <1>20
       DEF NvmlNext, NvmlWorker, Releaser


-----------------------------------------------------------------------------
(* Who owns what.                                                          *)

LEMMA OwnersStep ==
    ASSUME NvmlTypeOK, Owners, [NvmlNext]_nvars
    PROVE  Owners'
  <1>0. CASE UNCHANGED nvars
    BY <1>0 DEF nvars, Owners, Holders, Using, Connected
  <1>1. ASSUME NEW u \in Users, NEW g \in Gpus, Acquire(u, g)
        PROVE  Owners'
    <2> USE AcquireEffect, <1>1
    <2>1. CASE UNCHANGED <<manager, user, published, client>>
      BY <2>1 DEF Owners, Holders, Using, Connected
    <2>2. CASE /\ manager.active /\ ~manager.stop /\ UNCHANGED client
               /\ manager'.active /\ ~manager'.stop
               /\ manager'.references = manager.references + 1
               /\ user' = [user EXCEPT ![u] = "in"]
      <3>1. Holders' = Holders \cup {u} /\ u \notin Holders
        BY <2>2 DEF Holders, NvmlTypeOK
      <3>2. IsFiniteSet(Holders)
        BY NvmlAssumption, FS_Subset DEF Holders
      <3>3. Cardinality(Holders') = Cardinality(Holders) + 1
        BY <3>1, <3>2, FS_AddElement
      <3> QED BY <2>2, <3>1, <3>3 DEF Owners, Using, NvmlTypeOK, Connected
    <2>3. CASE /\ ~manager.active /\ manager'.active /\ ~manager'.stop
               /\ manager'.references = 1 /\ client'.pc = "top"
               /\ user' = [user EXCEPT ![u] = "in"]
      <3>1. Holders' = {u} /\ helper = "none"
        BY <2>3 DEF Holders, NvmlTypeOK, Owners, Using, Connected
      <3>2. Cardinality(Holders') = 1
        BY <3>1, FS_Singleton
      <3> QED BY <2>3, <3>1, <3>2 DEF Owners, Using, NvmlTypeOK, Connected
    <2>4. CASE /\ ~manager.active /\ UNCHANGED <<client, user>>
               /\ ~manager'.active
               /\ manager'.references = manager.references
      BY <2>4 DEF Owners, Holders, Using, Connected
    <2> QED BY <2>1, <2>2, <2>3, <2>4
  <1>2. ASSUME NEW u \in Users, Release(u)
        PROVE  Owners'
    <2>1. /\ IsFiniteSet(Holders) /\ Cardinality(Holders) = manager.references
          /\ manager.references \in Nat \ {0}
          /\ manager.references = 1 => Holders = {u}
      BY <1>2, HolderCounted DEF Release, Holding
    <2> USE ReleaseEffect, <1>2, <2>1
    <2>2. Holders' = Holders \ {u} /\ u \in Holders
      BY DEF Holders, NvmlTypeOK
    <2>3. Cardinality(Holders') = Cardinality(Holders) - 1
      BY <2>1, <2>2, FS_RemoveElement
    <2>4. CASE manager.references # 1 /\ user' = [user EXCEPT ![u] = "out"]
      <3>1. PICK v \in Users \ {u} : user[v] = "in"
        <4>1. Holders # {u}
          BY <2>4, FS_Singleton
        <4> QED BY <2>2, <4>1 DEF Holders
      <3>2. reader.user # Nothing => user'[reader.user] = "in"
        BY <2>4, Typed DEF Owners, NvmlTypeOK, Reader
      <3>3. \E w \in Users : Using(w)'
        BY <2>4, <3>1 DEF Using, NvmlTypeOK
      <3>4. \A w \in Users : user'[w] \notin {"shutdown", "join"}
        <4>1. user[u] = "in"
          BY <1>2 DEF Release, Holding
        <4>2. \A w \in Users : user[w] \notin {"shutdown", "join"}
          BY <4>1 DEF Owners, Using
        <4>3. user \in [Users -> {"out", "in", "shutdown", "join", "clear"}]
          BY DEF NvmlTypeOK
        <4> QED BY <2>4, <4>2, <4>3
      <3>5. manager.active
        BY DEF Owners, Using
      <3> QED BY <2>3, <2>4, <3>2, <3>3, <3>4, <3>5 DEF Owners
    <2>5. CASE /\ manager.references = 1 /\ manager'.stop
               /\ user' = [user EXCEPT ![u] = "shutdown"]
      <3>1. \A v \in Users \ {u} : ~Using(v)
        BY <2>5 DEF Owners, Using, Holders, NvmlTypeOK
      <3>2. /\ client'.pc = "none" <=> client.pc = "none"
            /\ client.pc \in Connected => client'.pc \in Connected
        BY DEF Connected
      <3> QED
        BY <2>3, <2>5, <3>1, <3>2 DEF Owners, Using, NvmlTypeOK
    <2> QED BY <2>4, <2>5
  <1>3. ASSUME NEW u \in Users, Shutdown(u)
        PROVE  Owners'
    <2>1. /\ UNCHANGED <<manager, client, helper, reader>>
          /\ user' = [user EXCEPT ![u] = "join"] /\ user[u] = "shutdown"
      BY <1>3 DEF Shutdown
    <2>2. Holders' = Holders
      BY <2>1 DEF Holders, NvmlTypeOK
    <2>3. reader.user # Nothing => user'[reader.user] = "in"
      BY <2>1, Typed DEF Owners, NvmlTypeOK, Reader
    <2>4. \A v \in Users : Using(v)' <=> Using(v)
      BY <2>1 DEF Using, NvmlTypeOK
    <2>5. \A v \in Users : user'[v] \in {"shutdown", "join"} <=>
            user[v] \in {"shutdown", "join"}
      BY <2>1 DEF NvmlTypeOK
    <2> QED BY <2>1, <2>2, <2>3, <2>4, <2>5 DEF Owners, Connected
  <1>4. ASSUME NEW u \in Users, Join(u)
        PROVE  Owners'
    <2> USE JoinEffect, <1>4
    <2>1. Holders' = Holders
      BY DEF Holders, NvmlTypeOK
    <2>2. \A v \in Users : ~Using(v)'
      BY DEF Owners, Using, NvmlTypeOK
    <2>3. helper = "none"
      BY DEF Owners, NvmlTypeOK, Connected
    <2>4. reader.user # Nothing => user'[reader.user] = "in"
      BY Typed DEF Owners, NvmlTypeOK, Reader
    <2>5. \A v \in Users : user'[v] \notin {"shutdown", "join"}
      BY <2>2 DEF Using
    <2>6. client'.pc = "none" /\ ~manager'.active
      OBVIOUS
    <2> QED BY <2>1, <2>2, <2>3, <2>4, <2>5, <2>6 DEF Owners
  <1>5. ASSUME NEW u \in Users, Clear(u)
        PROVE  Owners'
    <2> USE ClearEffect, <1>5
    <2>1. Holders' = Holders
      BY DEF Holders, NvmlTypeOK
    <2>2. \A v \in Users : Using(v)' <=> Using(v)
      BY DEF Using, NvmlTypeOK
    <2>3. \A v \in Users : user'[v] \in {"shutdown", "join"} =>
            user[v] \in {"shutdown", "join"}
      BY DEF NvmlTypeOK
    <2>4. reader.user # Nothing => user'[reader.user] = "in"
      BY Typed DEF Owners, NvmlTypeOK, Reader
    <2> QED BY <2>1, <2>2, <2>3, <2>4 DEF Owners, Connected
  <1>6. ASSUME NEW u \in Users, BeginSnapshot(u)
        PROVE  Owners'
    BY <1>6, SnapshotEffect DEF Owners, Holders, Using, Connected
  <1>7. CASE Top \/ WaitUntil \/ TimedOut
    BY <1>7, IdleEffect DEF Unmoved, Owners, Holders, Using, Connected
  <1>8. CASE Spawn
    BY <1>8, SpawnEffect DEF Unmoved, Owners, Holders, Using, Connected
  <1>9. CASE SetLive
    BY <1>9, SetLiveEffect DEF Unmoved, Owners, Holders, Using, Connected
  <1>10. CASE Loop
    BY <1>10, LoopEffect DEF Unmoved, Owners, Holders, Using, Connected
  <1>11. CASE Poll
    BY <1>11, PollEffect DEF Unmoved, Owners, Holders, Using, Connected
  <1>12. CASE Recv
    BY <1>12, RecvEffect DEF Unmoved, Owners, Holders, Using, Connected
  <1>13. CASE PublishStep
    BY <1>13, PublishEffect DEF Unmoved, Owners, Holders, Using, Connected
  <1>14. CASE Invalidate
    BY <1>14, InvalidateEffect DEF Unmoved, Owners, Holders, Using, Connected
  <1>15. CASE Close
    BY <1>15, CloseEffect DEF Unmoved, Owners, Holders, Using, Connected
  <1>16. CASE Terminate
    BY <1>16, TerminateEffect DEF Unmoved, Owners, Holders, Using, Connected
  <1>17. CASE ClearLive
    BY <1>17, ClearLiveEffect DEF Unmoved, Owners, Holders, Using, Connected
  <1>18. CASE HelperEnds
    BY <1>18 DEF HelperEnds, users, Owners, Holders, Using, Connected
  <1>19. CASE Read
    BY <1>19, ReadEffect DEF Owners, Holders, Using, Connected
  <1>20. ASSUME NEW a \in BOOLEAN, NEW d \in BOOLEAN, HelperSend(a, d)
         PROVE  Owners'
    BY <1>20, SendEffect DEF Unmoved, Owners, Holders, Using, Connected
  <1> QED
    BY <1>0, <1>1, <1>2, <1>3, <1>4, <1>5, <1>6, <1>7, <1>8, <1>9, <1>10,
       <1>11, <1>12, <1>13, <1>14, <1>15, <1>16, <1>17, <1>18, <1>19, <1>20
       DEF NvmlNext, NvmlWorker, Releaser


-----------------------------------------------------------------------------
(* No sample outlives its connection.                                      *)

LEMMA AliveStep ==
    ASSUME NvmlTypeOK, Owners, Alive, [NvmlNext]_nvars
    PROVE  Alive'
  <1>0. CASE UNCHANGED nvars
    BY <1>0 DEF nvars, Alive
  <1>1. ASSUME NEW u \in Users, NEW g \in Gpus, Acquire(u, g)
        PROVE  Alive'
    BY <1>1, AcquireEffect DEF Alive, Reset
  <1>2. ASSUME NEW u \in Users, Release(u)
        PROVE  Alive'
    <2>1. manager.references # 0
      BY <1>2, HolderCounted DEF Release, Holding
    <2> QED BY <1>2, <2>1, ReleaseEffect DEF Alive
  <1>3. ASSUME NEW u \in Users, Shutdown(u)
        PROVE  Alive'
    BY <1>3 DEF Shutdown, Alive
  <1>4. ASSUME NEW u \in Users, Join(u)
        PROVE  Alive'
    BY <1>4, JoinEffect DEF Alive
  <1>5. ASSUME NEW u \in Users, Clear(u)
        PROVE  Alive'
    BY <1>5, ClearEffect DEF Alive
  <1>6. ASSUME NEW u \in Users, BeginSnapshot(u)
        PROVE  Alive'
    BY <1>6, SnapshotEffect DEF Alive
  <1>7. CASE Top \/ WaitUntil \/ TimedOut
    BY <1>7, IdleEffect DEF Unmoved, Alive
  <1>8. CASE Spawn
    <2>1. \A i \in 1..Len(queue') : queue'[i].id > dead'
      BY <1>8, SpawnEffect DEF Alive
    <2> QED BY <1>8, <2>1, SpawnEffect DEF Unmoved, Alive
  <1>9. CASE SetLive
    BY <1>9, SetLiveEffect DEF Unmoved, Alive
  <1>10. CASE Loop
    BY <1>10, LoopEffect DEF Unmoved, Alive
  <1>11. CASE Poll
    BY <1>11, PollEffect DEF Unmoved, Alive
  <1>12. CASE Recv
    <2>1. queue \in Seq(Message)
      BY DEF NvmlTypeOK
    <2>2. CASE queue' = queue
      BY <1>12, <2>2, RecvEffect DEF Unmoved, Alive
    <2>3. CASE queue # <<>> /\ queue' = Tail(queue)
      <3>1. \A i \in 1..Len(queue') : queue'[i].id > dead
        BY <2>1, <2>3 DEF Alive
      <3>2. Head(queue).id > dead
        BY <2>1, <2>3 DEF Alive
      <3> QED BY <1>12, <2>3, <3>1, <3>2, RecvEffect DEF Unmoved, Alive
    <2> QED BY <1>12, <2>2, <2>3, RecvEffect
  <1>13. CASE PublishStep
    <2>1. /\ Unmoved /\ UNCHANGED <<queue, dead>> /\ client.pc = "publish"
          /\ client.step \in 1..6
          /\ client'.pc \in {"publish", "recv"}
          /\ client'.pc = "publish" => /\ client'.message = client.message
                                      /\ client'.step = client.step + 1
          /\ client.step = 2 => published'.use = client.message.id
          /\ client.step # 2 => published'.use = published.use
          /\ client.step # 4 => published'.available = published.available
      BY <1>13, PublishEffect
    <2>2. \A i \in 1..Len(queue') : queue'[i].id > dead'
      BY <2>1 DEF Alive
    <2>3. client.message.id > dead
      BY <2>1 DEF Alive
    <2>4. /\ client'.pc = "publish" => client'.message.id > dead'
          /\ client'.pc = "publish" /\ client'.step \in 3..4 =>
               published'.use > dead'
          /\ client'.pc \in {"loop", "poll", "recv", "publish"}
      BY <2>1, <2>3 DEF Alive
    <2>5. published'.available => published'.use > dead'
      <3>1. CASE client.step = 2
        BY <2>1, <2>3, <3>1
      <3>2. CASE client.step = 4
        BY <2>1, <3>2 DEF Alive
      <3>3. CASE client.step \notin {2, 4}
        BY <2>1, <3>3 DEF Alive
      <3> QED BY <3>1, <3>2, <3>3
    <2> QED BY <2>2, <2>4, <2>5 DEF Alive
  <1>14. CASE Invalidate
    BY <1>14, InvalidateEffect DEF Unmoved, Alive
  <1>15. CASE Close
    <2>1. \A i \in 1..Len(queue') : queue'[i].id > dead'
      BY <1>15, CloseEffect
    <2> QED BY <1>15, <2>1, CloseEffect DEF Unmoved, Alive
  <1>16. CASE Terminate
    BY <1>16, TerminateEffect DEF Unmoved, Alive
  <1>17. CASE ClearLive
    BY <1>17, ClearLiveEffect DEF Unmoved, Alive
  <1>18. CASE HelperEnds
    BY <1>18 DEF HelperEnds, users, Alive
  <1>19. CASE Read
    BY <1>19, ReadEffect DEF Alive
  <1>20. ASSUME NEW a \in BOOLEAN, NEW d \in BOOLEAN, HelperSend(a, d)
         PROVE  Alive'
    <2>1. /\ queue \in Seq(Message) /\ sent \in Nat /\ dead \in Nat
          /\ dead <= sent /\ \A i \in 1..Len(queue) : queue[i].id > dead
      BY DEF NvmlTypeOK, Alive
    <2>2. \A i \in 1..Len(queue') : queue'[i].id > dead
      <3>1. CASE queue' = queue
        BY <2>1, <3>1
      <3>2. CASE \E m \in Message : m.id = sent' /\ queue' = Append(queue, m)
        <4>1. PICK m \in Message : m.id = sent' /\ queue' = Append(queue, m)
          BY <3>2
        <4>2. m.id > dead
          BY <1>20, <2>1, <4>1, SendEffect
        <4>3. /\ Len(queue') = Len(queue) + 1 /\ queue'[Len(queue) + 1] = m
              /\ \A i \in 1..Len(queue) : queue'[i] = queue[i]
          BY <2>1, <4>1
        <4> QED BY <2>1, <4>2, <4>3
      <3> QED BY <1>20, <3>1, <3>2, SendEffect
    <2> QED BY <1>20, <2>2, SendEffect DEF Unmoved, Alive
  <1> QED
    BY <1>0, <1>1, <1>2, <1>3, <1>4, <1>5, <1>6, <1>7, <1>8, <1>9, <1>10,
       <1>11, <1>12, <1>13, <1>14, <1>15, <1>16, <1>17, <1>18, <1>19, <1>20
       DEF NvmlNext, NvmlWorker, Releaser


-----------------------------------------------------------------------------
(* What a snapshot has loaded is young enough.                             *)

LEMMA YoungStep ==
    ASSUME NvmlTypeOK, Owners, Alive, Young, [NvmlNext]_nvars
    PROVE  Young'
  <1>0. CASE UNCHANGED nvars
    BY <1>0 DEF nvars, Young
  <1>1. ASSUME NEW u \in Users, NEW g \in Gpus, Acquire(u, g)
        PROVE  Young'
    BY <1>1, AcquireEffect DEF Young, Reset
  <1>2. ASSUME NEW u \in Users, Release(u)
        PROVE  Young'
    <2>1. manager.references # 0
      BY <1>2, HolderCounted DEF Release, Holding
    <2> QED BY <1>2, <2>1, ReleaseEffect DEF Young
  <1>3. ASSUME NEW u \in Users, Shutdown(u)
        PROVE  Young'
    BY <1>3 DEF Shutdown, Young
  <1>4. ASSUME NEW u \in Users, Join(u)
        PROVE  Young'
    BY <1>4, JoinEffect DEF Young
  <1>5. ASSUME NEW u \in Users, Clear(u)
        PROVE  Young'
    BY <1>5, ClearEffect DEF Young
  <1>6. ASSUME NEW u \in Users, BeginSnapshot(u)
        PROVE  Young'
    BY <1>6, SnapshotEffect DEF Young, NvmlTypeOK
  <1>7. CASE Top \/ WaitUntil \/ TimedOut
    BY <1>7, IdleEffect DEF Unmoved, Young
  <1>8. CASE Spawn
    BY <1>8, SpawnEffect DEF Unmoved, Young
  <1>9. CASE SetLive
    BY <1>9, SetLiveEffect DEF Unmoved, Young
  <1>10. CASE Loop
    BY <1>10, LoopEffect DEF Unmoved, Young
  <1>11. CASE Poll
    BY <1>11, PollEffect DEF Unmoved, Young
  <1>12. CASE Recv
    BY <1>12, RecvEffect DEF Unmoved, Young
  <1>13. CASE PublishStep
    <2>1. /\ Unmoved /\ dead' = dead /\ client.pc = "publish"
          /\ client.step = 2 => published'.use = client.message.id
          /\ client.step # 2 => published'.use = published.use
      BY <1>13, PublishEffect
    <2>2. client.message.id > dead
      BY <2>1 DEF Alive
    <2>3. /\ reader.user # Nothing => floor <= dead
          /\ reader.step = 4 => reader.user # Nothing
          /\ floor \in Nat /\ dead \in Nat /\ client.message.id \in Nat
      BY Typed DEF Young, NvmlTypeOK
    <2>4. reader.step = 4 /\ reader.message.available => published'.use > floor
      <3>1. CASE client.step = 2
        BY <2>1, <2>2, <2>3, <3>1
      <3>2. CASE client.step # 2
        BY <2>1, <3>2 DEF Young
      <3> QED BY <3>1, <3>2
    <2> QED BY <2>1, <2>4 DEF Unmoved, Young
  <1>14. CASE Invalidate
    BY <1>14, InvalidateEffect DEF Unmoved, Young
  <1>15. CASE Close
    <2>1. Unmoved /\ dead' = sent /\ UNCHANGED published
      BY <1>15, CloseEffect
    <2>2. floor \in Nat /\ sent \in Nat /\ dead \in Nat /\ dead <= sent
      BY DEF NvmlTypeOK
    <2>3. reader.user # Nothing => floor <= dead'
      BY <2>1, <2>2 DEF Young
    <2> QED BY <2>1, <2>3 DEF Unmoved, Young
  <1>16. CASE Terminate
    BY <1>16, TerminateEffect DEF Unmoved, Young
  <1>17. CASE ClearLive
    BY <1>17, ClearLiveEffect DEF Unmoved, Young
  <1>18. CASE HelperEnds
    BY <1>18 DEF HelperEnds, users, Young
  <1>19. CASE Read
    <2>1. /\ UNCHANGED <<published, dead>> /\ reader.user # Nothing
          /\ reader'.user # Nothing => floor' = floor
          /\ reader'.step = 0 => reader'.user = Nothing
          /\ reader'.user # Nothing => floor' <= dead'
      BY <1>19, ReadEffect, NvmlAssumption DEF Young, NvmlTypeOK
    <2>2. CASE \/ reader'.user = Nothing /\ reader'.step = 0
               \/ reader'.step \in {1, 2}
      BY <2>1, <2>2 DEF Young
    <2>3. CASE /\ reader.step \in 2..5 /\ reader'.user = reader.user
               /\ reader'.step = reader.step + 1
               /\ reader'.message.available =
                    IF reader.step = 3 THEN published.available
                    ELSE reader.message.available
               /\ reader'.message.use =
                    IF reader.step = 4 THEN published.use
                    ELSE reader.message.use
      <3>1. CASE reader.step = 2
        BY <2>1, <2>3, <3>1 DEF Young
      <3>2. CASE reader.step = 3
        <4>1. /\ published.available => published.use > dead
              /\ floor \in Nat /\ dead \in Nat /\ published.use \in Nat
          BY Typed DEF Alive, NvmlTypeOK
        <4>2. published.available => published.use > floor'
          BY <2>1, <2>3, <4>1
        <4> QED BY <2>1, <2>3, <3>2, <4>2 DEF Young
      <3>3. CASE reader.step = 4
        BY <2>1, <2>3, <3>3 DEF Young
      <3>4. CASE reader.step = 5
        BY <2>1, <2>3, <3>4 DEF Young
      <3> QED BY <2>3, <3>1, <3>2, <3>3, <3>4
    <2> QED BY <1>19, <2>2, <2>3, ReadEffect
  <1>20. ASSUME NEW a \in BOOLEAN, NEW d \in BOOLEAN, HelperSend(a, d)
         PROVE  Young'
    BY <1>20, SendEffect DEF Unmoved, Young
  <1> QED
    BY <1>0, <1>1, <1>2, <1>3, <1>4, <1>5, <1>6, <1>7, <1>8, <1>9, <1>10,
       <1>11, <1>12, <1>13, <1>14, <1>15, <1>16, <1>17, <1>18, <1>19, <1>20
       DEF NvmlNext, NvmlWorker, Releaser


-----------------------------------------------------------------------------
(* The sequence lock.                                                      *)

LEMMA PairedStep ==
    ASSUME NvmlTypeOK, Owners, Paired, [NvmlNext]_nvars
    PROVE  Paired'
  <1>0. CASE UNCHANGED nvars
    BY <1>0 DEF nvars, Paired
  <1>1. ASSUME NEW u \in Users, NEW g \in Gpus, Acquire(u, g)
        PROVE  Paired'
    BY <1>1, AcquireEffect DEF Paired, Reset, Owners
  <1>2. ASSUME NEW u \in Users, Release(u)
        PROVE  Paired'
    <2>1. manager.references # 0
      BY <1>2, HolderCounted DEF Release, Holding
    <2> QED BY <1>2, <2>1, ReleaseEffect DEF Paired
  <1>3. ASSUME NEW u \in Users, Shutdown(u)
        PROVE  Paired'
    BY <1>3 DEF Shutdown, Paired
  <1>4. ASSUME NEW u \in Users, Join(u)
        PROVE  Paired'
    BY <1>4, JoinEffect DEF Paired
  <1>5. ASSUME NEW u \in Users, Clear(u)
        PROVE  Paired'
    BY <1>5, ClearEffect DEF Paired
  <1>6. ASSUME NEW u \in Users, BeginSnapshot(u)
        PROVE  Paired'
    BY <1>6, SnapshotEffect DEF Paired
  <1>7. CASE Top \/ WaitUntil \/ TimedOut
    BY <1>7, IdleEffect DEF Unmoved, Paired
  <1>8. CASE Spawn
    BY <1>8, SpawnEffect DEF Unmoved, Paired
  <1>9. CASE SetLive
    BY <1>9, SetLiveEffect DEF Unmoved, Paired
  <1>10. CASE Loop
    BY <1>10, LoopEffect DEF Unmoved, Paired
  <1>11. CASE Poll
    BY <1>11, PollEffect DEF Unmoved, Paired
  <1>12. CASE Recv
    BY <1>12, RecvEffect DEF Unmoved, Paired
  <1>13. CASE PublishStep
    <2> DEFINE m == client.message.id
    <2>1. /\ client.pc = "publish" /\ client.step \in 1..6
          /\ client.step = 2 => /\ published'.use = m /\ client'.step = 3
                               /\ client'.pc = "publish"
                               /\ client'.message = client.message
          /\ client.step # 2 => published'.use = published.use
          /\ client.step = 3 => published'.temperature = m
          /\ client.step # 3 => published'.temperature = published.temperature
          /\ client.step = 3 => ~(client'.pc = "publish" /\ client'.step = 3)
      BY <1>13, PublishEffect
    <2>2. CASE client.step = 2
      BY <2>1, <2>2 DEF Paired
    <2>3. CASE client.step = 3
      BY <2>1, <2>3 DEF Paired
    <2>4. CASE client.step \notin {2, 3}
      <3>1. ~(client'.pc = "publish" /\ client'.step = 3)
        BY <1>13, <2>1, <2>4, PublishEffect
      <3> QED BY <2>1, <2>4, <3>1 DEF Paired
    <2> QED BY <2>2, <2>3, <2>4
  <1>14. CASE Invalidate
    BY <1>14, InvalidateEffect DEF Unmoved, Paired
  <1>15. CASE Close
    BY <1>15, CloseEffect DEF Unmoved, Paired
  <1>16. CASE Terminate
    BY <1>16, TerminateEffect DEF Unmoved, Paired
  <1>17. CASE ClearLive
    BY <1>17, ClearLiveEffect DEF Unmoved, Paired
  <1>18. CASE HelperEnds
    BY <1>18 DEF HelperEnds, users, Paired
  <1>19. CASE Read
    BY <1>19, ReadEffect DEF Paired
  <1>20. ASSUME NEW a \in BOOLEAN, NEW d \in BOOLEAN, HelperSend(a, d)
         PROVE  Paired'
    BY <1>20, SendEffect DEF Unmoved, Paired
  <1> QED
    BY <1>0, <1>1, <1>2, <1>3, <1>4, <1>5, <1>6, <1>7, <1>8, <1>9, <1>10,
       <1>11, <1>12, <1>13, <1>14, <1>15, <1>16, <1>17, <1>18, <1>19, <1>20
       DEF NvmlNext, NvmlWorker, Releaser

\* No snapshot runs while no worker does.
LEMMA ReaderActive ==
    ASSUME NvmlTypeOK, Owners, ~manager.active
    PROVE  reader.user = Nothing /\ reader.step = 0 /\ client.pc = "none"
  BY Typed DEF Owners, Using, NvmlTypeOK, Reader

LEMMA LockedStep ==
    ASSUME NvmlTypeOK, Owners, Locked, [NvmlNext]_nvars
    PROVE  Locked'
  <1>0. CASE UNCHANGED nvars
    BY <1>0 DEF nvars, Locked, Writing
  <1>1. ASSUME NEW u \in Users, NEW g \in Gpus, Acquire(u, g)
        PROVE  Locked'
    <2>1. CASE manager.active
      BY <1>1, <2>1, AcquireEffect DEF Locked, Writing
    <2>2. CASE ~manager.active
      <3>1. /\ reader'.step = 0
            /\ \/ ~manager'.active
               \/ published'.gen = 0 /\ client'.pc = "top"
        BY <1>1, <2>2, AcquireEffect, ReaderActive DEF Reset
      <3>2. 0 % 2 = 0
        OBVIOUS
      <3> QED BY <3>1, <3>2 DEF Locked, Writing
    <2> QED BY <2>1, <2>2
  <1>2. ASSUME NEW u \in Users, Release(u)
        PROVE  Locked'
    <2>1. manager.references # 0
      BY <1>2, HolderCounted DEF Release, Holding
    <2> QED BY <1>2, <2>1, ReleaseEffect DEF Locked, Writing
  <1>3. ASSUME NEW u \in Users, Shutdown(u)
        PROVE  Locked'
    BY <1>3 DEF Shutdown, Locked, Writing
  <1>4. ASSUME NEW u \in Users, Join(u)
        PROVE  Locked'
    BY <1>4, JoinEffect DEF Locked, Writing
  <1>5. ASSUME NEW u \in Users, Clear(u)
        PROVE  Locked'
    <2>1. CASE manager.active
      BY <1>5, <2>1, ClearEffect DEF Locked, NvmlTypeOK
    <2>2. CASE ~manager.active
      BY <1>5, <2>2, ClearEffect, ReaderActive DEF Locked, NvmlTypeOK
    <2> QED BY <2>1, <2>2
  <1>6. ASSUME NEW u \in Users, BeginSnapshot(u)
        PROVE  Locked'
    BY <1>6, SnapshotEffect DEF Locked, Writing
  <1>7. CASE Top \/ WaitUntil \/ TimedOut
    BY <1>7, IdleEffect DEF Unmoved, Locked, Writing
  <1>8. CASE Spawn
    BY <1>8, SpawnEffect DEF Unmoved, Locked, Writing
  <1>9. CASE SetLive
    BY <1>9, SetLiveEffect DEF Unmoved, Locked, Writing
  <1>10. CASE Loop
    BY <1>10, LoopEffect DEF Unmoved, Locked, Writing
  <1>11. CASE Poll
    BY <1>11, PollEffect DEF Unmoved, Locked, Writing
  <1>12. CASE Recv
    BY <1>12, RecvEffect DEF Unmoved, Locked, Writing
  <1>13. CASE PublishStep
    BY <1>13, PublishEffect, Typed, Parity DEF Unmoved, Locked, Writing, Owners
  <1>14. CASE Invalidate
    BY <1>14, InvalidateEffect, Typed, Parity
       DEF Unmoved, Locked, Writing, Owners
  <1>15. CASE Close
    BY <1>15, CloseEffect DEF Unmoved, Locked, Writing
  <1>16. CASE Terminate
    BY <1>16, TerminateEffect DEF Unmoved, Locked, Writing
  <1>17. CASE ClearLive
    BY <1>17, ClearLiveEffect DEF Unmoved, Locked, Writing
  <1>18. CASE HelperEnds
    BY <1>18 DEF HelperEnds, users, Locked, Writing
  <1>19. CASE Read
    BY <1>19, ReadEffect, Typed, Parity DEF Locked, Writing
  <1>20. ASSUME NEW a \in BOOLEAN, NEW d \in BOOLEAN, HelperSend(a, d)
         PROVE  Locked'
    BY <1>20, SendEffect DEF Unmoved, Locked, Writing
  <1> QED
    BY <1>0, <1>1, <1>2, <1>3, <1>4, <1>5, <1>6, <1>7, <1>8, <1>9, <1>10,
       <1>11, <1>12, <1>13, <1>14, <1>15, <1>16, <1>17, <1>18, <1>19, <1>20
       DEF NvmlNext, NvmlWorker, Releaser


LEMMA NvmlInitial == NvmlInit => NvmlInv
  <1> SUFFICES ASSUME NvmlInit PROVE NvmlInv
    OBVIOUS
  <1>1. NvmlTypeOK
    <2>1. manager \in Managers /\ published \in Values
      BY DEF NvmlInit, Managers, Values
    <2>2. client \in Workers
      BY NoMessageTyped DEF NvmlInit, Workers, Places
    <2>3. queue \in Seq(Message) /\ reader \in Readers
      BY NoReaderTyped DEF NvmlInit
    <2>4. /\ user \in [Users -> {"out", "in", "shutdown", "join", "clear"}]
          /\ store \in [Users -> 0..3] /\ \A u \in Users : user[u] # "clear"
      BY DEF NvmlInit
    <2>5. client.pc = "none" /\ reader = NoReader
      BY DEF NvmlInit
    <2>6. dead \in 0..sent /\ sent \in Nat /\ floor \in Nat
      BY DEF NvmlInit
    <2>7. /\ conn \in Nat \cup {Nothing} /\ open \in BOOLEAN /\ helper = "none"
          /\ overlap \in BOOLEAN
      BY DEF NvmlInit
    <2> QED
      BY <2>1, <2>2, <2>3, <2>4, <2>5, <2>6, <2>7, NoReaderTyped DEF NvmlTypeOK
  <1>2. Owners
    <2>1. Holders = {} /\ Cardinality(Holders) = 0
      BY FS_EmptySet DEF NvmlInit, Holders
    <2> QED BY <2>1, NoReaderTyped DEF NvmlInit, Owners, Using, Connected
  <1>3. Alive /\ Young /\ Paired /\ Locked
    BY NoReaderTyped DEF NvmlInit, Alive, Young, Paired, Locked, Writing
  <1> QED BY <1>1, <1>2, <1>3 DEF NvmlInv

LEMMA NvmlStep == NvmlInv /\ [NvmlNext]_nvars => NvmlInv'
  BY NvmlTypeStep, OwnersStep, AliveStep, YoungStep, PairedStep, LockedStep
     DEF NvmlInv

THEOREM NvmlInvariant == NvmlSpec => []NvmlInv
  BY NvmlInitial, NvmlStep, PTL DEF NvmlSpec

-----------------------------------------------------------------------------
LEMMA Coherent == NvmlInv => CoherentAlone
  <1> SUFFICES ASSUME NvmlInv, ~overlap, Returns, reader.message.available
               PROVE  reader.message.use = reader.message.temperature
    BY DEF CoherentAlone, CoherentSnapshot
  <1>1. /\ reader.step = 6 /\ published.gen = reader.before
        /\ published.gen % 2 = 0
    BY DEF Returns, Steady
  <1>2. reader.user \in Users /\ user[reader.user] = "in"
    BY <1>1, Typed DEF NvmlInv, NvmlTypeOK, Owners, Reader
  <1>3. manager.active
    BY <1>2 DEF NvmlInv, Owners, Using
  <1>4. ~Writing
    BY <1>1, <1>3 DEF NvmlInv, Locked
  <1>5. published.use = published.temperature
    BY <1>4 DEF NvmlInv, Paired, Writing
  <1> QED BY <1>1, <1>5 DEF NvmlInv, Locked

\* hud_nvml_client.c:465-493: a snapshot that returns shows one message,
\* however its loads fall between the worker's stores.
THEOREM Snapshots == NvmlSpec => []CoherentAlone
  BY NvmlInvariant, Coherent, PTL

\* hud_nvml_client.c:355: no sample outlives the connection it came through.
THEOREM Lifetimes == NvmlSpec => []NoDeadSample
  <1>1. NvmlInv => NoDeadSample
    BY DEF NvmlInv, Young, NoDeadSample, Returns
  <1> QED BY <1>1, NvmlInvariant, PTL

LEMMA Reaped == NvmlInv => NoHelperLeft
  <1> SUFFICES ASSUME NvmlInv PROVE NoHelperLeft
    OBVIOUS
  <1>1. {u \in Users : Holding(u)} = Holders
    BY DEF Holding, Holders
  <1>2. manager.references = Cardinality({u \in Users : Holding(u)})
    BY <1>1 DEF NvmlInv, Owners
  <1>3. ASSUME \A u \in Users : user[u] \in {"out", "clear"}
        PROVE  client.pc = "none" /\ helper = "none" /\ ~manager.active
    BY <1>3 DEF NvmlInv, Owners, Using, Connected
  <1> QED BY <1>2, <1>3 DEF NoHelperLeft

\* hud_nvml_client.c:433-463: once every user has released, no worker and no
\* helper process is left, and the references are counted all along.
THEOREM HelperReaped == NvmlSpec => []NoHelperLeft
  BY NvmlInvariant, Reaped, PTL

-----------------------------------------------------------------------------
(* Both threads in one process.                                            *)

LEMMA CacheAlone == HudSpec => Spec
  <1>1. HudInit => Init
    BY DEF HudInit
  <1>2. [HudNext]_<<part, cvars, nvars>> => [Next]_cvars
    BY DEF HudNext, cvars
  <1> QED BY <1>1, <1>2, PTL DEF HudSpec, Spec

LEMMA ClientAlone == HudSpec => NvmlSpec
  <1>1. HudInit => NvmlInit
    BY DEF HudInit
  <1>2. [HudNext]_<<part, cvars, nvars>> => [NvmlNext]_nvars
    BY DEF HudNext, nvars
  <1> QED BY <1>1, <1>2, PTL DEF HudSpec, NvmlSpec

\* hud_metrics_cache.c:69-88 and hud_nvml_client.c:433-463: neither destroy
\* nor the last release leaves a thread or a helper process behind.
THEOREM NothingIsLeft == HudSpec => []NothingLeftBehind
  <1>1. NoWorkerAfterDestroy /\ NoHelperLeft => NothingLeftBehind
    BY DEF NothingLeftBehind
  <1> QED
    BY <1>1, CacheAlone, ClientAlone, DestroyLeavesNoWorker, HelperReaped, PTL
=============================================================================
