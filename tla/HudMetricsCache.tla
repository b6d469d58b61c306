--------------------------- MODULE HudMetricsCache ---------------------------
(***************************************************************************)
(* The telemetry cache of the HUD (src/src/hud_metrics_cache.c).  Threads  *)
(* that draw the HUD read the clock, then call                             *)
(* frame_pacer_hud_metrics_cache_snapshot, which copies the last finished  *)
(* sample and, when it is due, asks a worker for the next.  The worker     *)
(* samples without the mutex, so that requests go on arriving while it     *)
(* does.  What a sample computes is in HudMetrics; here a sample is the    *)
(* stretch of time its utilisation is taken over.                          *)
(***************************************************************************)
EXTENDS Integers

CONSTANTS
    Drawers,      \* threads that draw the HUD
    SampleNs,     \* FRAME_PACER_HUD_METRICS_SAMPLE_NS
    ResetNs,      \* FRAME_PACER_HUD_METRICS_RESET_NS
    MaxNow        \* bound: the last instant of a behaviour

\* A pause is longer than the interval between two samples.
ASSUME CacheAssumption ==
    /\ SampleNs \in Nat \ {0} /\ ResetNs \in Nat /\ SampleNs <= ResetNs
    /\ MaxNow \in Nat

VARIABLES
    now,          \* CLOCK_MONOTONIC
    cache,        \* struct frame_pacer_hud_metrics_cache but for the sample
    snapshot,     \* cache->snapshot: [from, to, known]; from = NoTime when the
                  \* utilisation is unavailable, and (history) the pause that
                  \* had ended last when the worker took the request
    baseline,     \* cache->metrics: when its counters were read last
    reading,      \* per drawer: the clock it read, or NoTime when outside
    worker,       \* "none", "check", "waiting", "sampling", "publish", "exited"
    job,          \* the worker's locals: [reset, sample, known]
    owner,        \* the thread in destroy: "idle", "joining", "done"
    asked,        \* history: when a drawer asked last
    pause,        \* history: when the last pause of the HUD ended
    requests,     \* history: requests made
    inverted      \* history: a drawer asked with a reading older than a request

cvars == <<now, cache, snapshot, baseline, reading, worker, job, owner, asked,
           pause, requests, inverted>>

NoTime == -1

Unavailable == [from |-> NoTime, to |-> NoTime, known |-> 0]

NoJob == [reset |-> FALSE, sample |-> Unavailable, known |-> 0]

\* frame_pacer_hud_metrics_cache_init.  request_time_valid is
\* request_ns # NoTime.
Init ==
    /\ now = 0
    /\ cache = [initialized |-> TRUE, request_ns |-> NoTime,
                request_pending |-> FALSE, reset_pending |-> FALSE,
                worker_started |-> FALSE, worker_failed |-> FALSE,
                stop |-> FALSE]
    /\ snapshot = Unavailable
    /\ baseline = NoTime
    /\ reading = [d \in Drawers |-> NoTime]
    /\ worker = "none"
    /\ job = NoJob
    /\ owner = "idle"
    /\ asked = NoTime /\ pause = 0 /\ requests = 0 /\ inverted = FALSE

Tick ==
    /\ now < MaxNow
    /\ now' = now + 1
    /\ UNCHANGED <<cache, snapshot, baseline, reading, worker, job, owner,
                   asked, pause, requests, inverted>>

\* The caller reads the clock before the cache's mutex is taken.
ReadClock(d) ==
    /\ owner = "idle"
    /\ reading[d] = NoTime
    /\ reading' = [reading EXCEPT ![d] = now]
    /\ UNCHANGED <<now, cache, snapshot, baseline, worker, job, owner, asked,
                   pause, requests, inverted>>

Backwards(t) == cache.request_ns # NoTime /\ t < cache.request_ns

\* Mutant: the interval counts from the last finished sample.
Due_by_sample(t) ==
    \/ snapshot.to = NoTime
    \/ Backwards(t)
    \/ t - snapshot.to >= SampleNs

Due(t) ==
    \/ cache.request_ns = NoTime
    \/ Backwards(t)
    \/ t - cache.request_ns >= SampleNs

Stale(t) ==
    /\ cache.request_ns # NoTime
    /\ Backwards(t) \/ t - cache.request_ns >= ResetNs

\* Mutant: a request says whether it needs a reset, and overwrites what an
\* earlier request that is still pending said.
Requested_overwrites(t) ==
    [cache EXCEPT !.request_ns = t, !.request_pending = TRUE,
                  !.reset_pending = Stale(t)]

\* The bookkeeping of a request.
Requested(t) ==
    [cache EXCEPT !.request_ns = t, !.request_pending = TRUE,
                  !.reset_pending = @ \/ Stale(t)]

\* pthread_create on the first request: it fails for good, or not at all.
WithWorker(c, created) ==
    IF c.worker_started \/ c.worker_failed THEN c
    ELSE IF created THEN [c EXCEPT !.worker_started = TRUE]
    ELSE [c EXCEPT !.worker_failed = TRUE, !.request_pending = FALSE]

\* Mutant: only the thread that starts the worker is sure to be heard.
Woken_started(c) == IF worker = "none" /\ c.worker_started THEN "check" ELSE worker

\* pthread_cond_signal, or the start of a new worker.
Woken(c) ==
    IF c.worker_started /\ worker \in {"none", "waiting"} THEN "check" ELSE worker

\* frame_pacer_hud_metrics_cache_snapshot, all under the mutex.
Snapshot(d) ==
    LET t == reading[d] IN
    /\ t # NoTime
    /\ reading' = [reading EXCEPT ![d] = NoTime]
    /\ asked' = t
    /\ pause' = IF asked # NoTime /\ t - asked >= ResetNs THEN t ELSE pause
    /\ inverted' = (inverted \/ Backwards(t))
    /\ \/ /\ Due(t)
          /\ \E created \in BOOLEAN :
                cache' = WithWorker(Requested(t), created)
          /\ worker' = Woken(cache')
          /\ requests' = requests + 1
       \/ /\ ~Due(t)
          /\ UNCHANGED <<cache, worker, requests>>
    /\ UNCHANGED <<now, snapshot, baseline, job, owner>>

\* metrics_worker: nothing to do, so it waits on the condition.
Wait ==
    /\ worker = "check"
    /\ ~cache.request_pending /\ ~cache.stop
    /\ worker' = "waiting"
    /\ UNCHANGED <<now, cache, snapshot, baseline, reading, job, owner, asked,
                   pause, requests, inverted>>

\* A wake-up without a signal.
Spurious ==
    /\ worker = "waiting"
    /\ worker' = "check"
    /\ UNCHANGED <<now, cache, snapshot, baseline, reading, job, owner, asked,
                   pause, requests, inverted>>

\* metrics_worker takes the request and drops the mutex.
Take ==
    /\ worker = "check"
    /\ cache.request_pending /\ ~cache.stop
    /\ cache' = [cache EXCEPT !.request_pending = FALSE, !.reset_pending = FALSE]
    /\ job' = [reset |-> cache.reset_pending, sample |-> Unavailable,
               known |-> pause]
    /\ worker' = "sampling"
    /\ UNCHANGED <<now, snapshot, baseline, reading, owner, asked, pause,
                   requests, inverted>>

\* Without the mutex: reset_utilization when asked to, then metrics_sample,
\* which reads its own clock.
Sample ==
    LET from == IF job.reset THEN NoTime ELSE baseline IN
    /\ worker = "sampling"
    /\ job' = [job EXCEPT !.sample =
                  [from |-> from, to |-> now, known |-> job.known]]
    /\ baseline' = now
    /\ worker' = "publish"
    /\ UNCHANGED <<now, cache, snapshot, reading, owner, asked, pause, requests,
                   inverted>>

\* metrics_worker publishes under the mutex and looks for the next request.
Publish ==
    /\ worker = "publish"
    /\ snapshot' = job.sample /\ job' = NoJob
    /\ worker' = "check"
    /\ UNCHANGED <<now, cache, baseline, reading, owner, asked, pause, requests,
                   inverted>>

\* metrics_worker leaves its loop; a pending request is dropped.
Exit ==
    /\ worker = "check"
    /\ cache.stop
    /\ worker' = "exited"
    /\ UNCHANGED <<now, cache, snapshot, baseline, reading, job, owner, asked,
                   pause, requests, inverted>>

\* Mutant: the worker is not told.
Stop_silent ==
    /\ owner = "idle" /\ \A d \in Drawers : reading[d] = NoTime
    /\ cache' = [cache EXCEPT !.initialized = FALSE, !.stop = TRUE]
    /\ owner' = "joining"
    /\ UNCHANGED <<now, snapshot, baseline, reading, worker, job, asked, pause,
                   requests, inverted>>

\* frame_pacer_hud_metrics_cache_destroy up to the join.  Its callers let no
\* thread draw on the device any more.
Stop ==
    /\ owner = "idle" /\ \A d \in Drawers : reading[d] = NoTime
    /\ cache' = [cache EXCEPT !.initialized = FALSE, !.stop = TRUE]
    /\ worker' = IF worker = "waiting" THEN "check" ELSE worker
    /\ owner' = "joining"
    /\ UNCHANGED <<now, snapshot, baseline, reading, job, asked, pause,
                   requests, inverted>>

\* pthread_join, when there is a worker.
Joined == owner = "joining" /\ (cache.worker_started => worker = "exited")

\* The rest of destroy: the sampler goes, the structure is zeroed.
Free ==
    /\ Joined
    /\ cache' = [cache EXCEPT !.request_ns = NoTime, !.request_pending = FALSE,
                              !.reset_pending = FALSE, !.stop = FALSE,
                              !.worker_started = FALSE, !.worker_failed = FALSE]
    /\ snapshot' = Unavailable
    /\ baseline' = NoTime
    /\ owner' = "done"
    /\ UNCHANGED <<now, reading, worker, job, asked, pause, requests, inverted>>

Worker == Wait \/ Take \/ Sample \/ Publish \/ Exit

Next ==
    \/ Tick \/ Spurious \/ Worker \/ Stop \/ Free
    \/ \E d \in Drawers : ReadClock(d) \/ Snapshot(d)

Spec == Init /\ [][Next]_cvars

\* The worker is a thread that is scheduled, and so is the thread in destroy.
Fairness == WF_cvars(Worker) /\ WF_cvars(Free)

-----------------------------------------------------------------------------
\* A sample that starts afresh, without the old counters, is under way: it is
\* asked for, or the worker is about to publish it.
FreshOnItsWay ==
    \/ cache.request_pending /\ cache.reset_pending
    \/ worker \in {"sampling", "publish"} /\ job.reset

\* hud_metrics_cache.c:20-23,106-114.  A utilisation that is shown was not
\* taken over a pause of the HUD that had ended when the worker took the
\* request: the reset a request asked for survives later requests, and those
\* made while a sample is going on.  Over a pause that ended later, between
\* the worker's unlock and its reading of the counters, it may have been
\* taken; then it is shown only until the fresh sample that is already on its
\* way replaces it.  (The same goes for one from before the pause.)
NoUseAcrossPause ==
    snapshot.from # NoTime =>
        /\ snapshot.from >= snapshot.known
        /\ snapshot.from >= pause \/ FreshOnItsWay

\* hud_metrics_cache.c:109.  As long as clock readings reach the cache in
\* order, it asks for at most one sample per interval (and one at the start),
\* however many threads draw and however slowly the worker answers.
RequestsSpaced == inverted \/ requests <= 1 + now \div SampleNs

\* hud_metrics_cache.c:69-88.  When the structure is zeroed and its mutex
\* destroyed, no worker is left that could still use them.
NoWorkerAfterDestroy == owner = "done" => worker \in {"none", "exited"}

\* hud_metrics_cache.c:14,136.  A request is not forgotten: the worker, if one
\* could be started, takes it (or the cache is destroyed), also one made while
\* it was sampling or on its way to wait.
RequestServed ==
    cache.request_pending /\ cache.worker_started
        ~> worker = "sampling" \/ owner # "idle"

\* hud_metrics_cache.c:82.  Destruction ends: the join is not waited for by a
\* worker that nobody wakes.
DestroyEnds == owner = "joining" ~> owner = "done"
=============================================================================
