----------------------------- MODULE HudMetrics -----------------------------
(***************************************************************************)
(* The sampler behind the telemetry cache (src/src/hud_metrics.c and       *)
(* src/src/hud_drm_fdinfo.c).  One thread owns it and samples again and    *)
(* again: the processor, the threads' cgroups and the GPU, through NVML    *)
(* or through the DRM counters of the process.  Threads, DRM clients and   *)
(* engines come and go between samples, counters go backwards, files do    *)
(* not open; what is shown must be a rate between two samples.             *)
(***************************************************************************)
EXTENDS Integers, Sequences, FiniteSets, FiniteSetsExt, SequencesExt

CONSTANTS
    Engines,       \* render, gfx and compute
    Slots,         \* FRAME_PACER_THREAD_CPU_SLOTS_MAX
    MaxClients,    \* FRAME_PACER_DRM_FDINFO_MAX_CLIENTS
    CounterMax,    \* UINT64_MAX
    Micro,         \* nanoseconds in a microsecond
    Interval,      \* THREAD_CPU_ and NVML_RETRY_INTERVAL_NS
    Steps,         \* how much time may pass between two samples
    Observations,  \* sets of what the samples of a behaviour may find
    MaxSamples     \* bound: samples of a behaviour

VARIABLES
    monotonic, \* CLOCK_MONOTONIC
    metrics,   \* struct frame_pacer_metrics: [cpu, slots, thread, drm, gpu]
    inputs,    \* the member of Observations this behaviour draws from
    shown,     \* the sample handed to the cache: [cpu, thread, gpu]
    past,      \* history: what was read since the last reset
    samples    \* history: number of samples

mvars == <<monotonic, metrics, inputs, shown, past, samples>>

NoValue == -1

\* What is required of the parameters: numbers are natural, a sample may take
\* no time but an interval takes some, and the children of a cgroup are a
\* directory's entries, so that no two have the same name.
ASSUME MetricsAssumption ==
    /\ {Slots, MaxClients, CounterMax} \subseteq Nat
    /\ {Micro, Interval} \subseteq Nat \ {0} /\ Steps \subseteq Nat
    /\ \A found \in Observations : \A o \in found :
         /\ o.cpu = [total |-> NoValue, idle |-> NoValue]
            \/ o.cpu \in [total : Nat, idle : Nat]
         /\ o.threads.children \in Seq(Nat \X Nat)
         /\ \A i, j \in DOMAIN o.threads.children :
              o.threads.children[i][1] = o.threads.children[j][1] => i = j
         /\ o.drm.fds \in
              Seq([id : Nat, engines : [Engines -> Nat \cup {NoValue}]])

\* History: nothing was read since the last reset.
NoReadings == [cpu |-> <<>>, threads |-> <<>>, drm |-> <<>>]

\* The empty function: no slot or client in use.
Empty == [x \in {} |-> x]

Put(f, k, v) == [x \in DOMAIN f \cup {k} |-> IF x = k THEN v ELSE f[x]]

NoCpu == [total |-> NoValue, idle |-> NoValue]

NoThread == [sample_ns |-> 0, percent |-> 0, available |-> FALSE]

NoDrm == [started |-> FALSE, at |-> 0, clients |-> Empty]

-----------------------------------------------------------------------------
\* hud_drm_fdinfo.c: the least engine time that rounds to `candidate' percent.
Threshold(elapsed, candidate) ==
    LET numerator == 2 * candidate - 1
    IN  (elapsed \div 200) * numerator
          + ((elapsed % 200) * numerator + 199) \div 200

\* frame_pacer_drm_fdinfo_utilisation for 0 < elapsed: the last candidate of
\* the loop that was reached; thresholds grow, so it is their number.
utilisation(delta, elapsed) ==
    Cardinality({c \in 1..100 : delta >= Threshold(elapsed, c)})

\* frame_pacer_metrics_sample, /proc/stat: [cpu, percent] after reading `o'.
sample_cpu(cpu, o) ==
    IF o = NoCpu THEN [cpu |-> cpu, percent |-> NoValue]
    ELSE LET total == o.total - cpu.total
             idle  == o.idle - cpu.idle
         IN  [cpu |-> o,
              percent |-> IF cpu # NoCpu /\ total > 0 /\ idle >= 0
                          THEN utilisation(total - Min({idle, total}), total)
                          ELSE NoValue]

\* thread_cpu_slot finds the thread's slot or a free one.
HasSlot(slots, tid) == tid \in DOMAIN slots \/ Cardinality(DOMAIN slots) < Slots

\* sample_thread_cpu for one child cgroup `e' = <<tid, usage_usec>>.
sample_child(acc, e, now) ==
    LET tid == e[1]
        old == acc.slots[tid]
        known == tid \in DOMAIN acc.slots /\ now > old.sample_ns
        delta == e[2] - old.usage
        percent == IF delta > CounterMax \div Micro THEN 100
                   ELSE utilisation(delta * Micro, now - old.sample_ns)
    IN  IF ~HasSlot(acc.slots, tid) THEN acc
        ELSE [acc EXCEPT
                !.slots = Put(@, tid, [usage |-> e[2], sample_ns |-> now]),
                !.reset = @ \/ (known /\ delta < 0),
                !.available = @ \/ (known /\ delta >= 0),
                !.peak = IF known /\ delta >= 0 THEN Max({@, percent}) ELSE @]

\* Mutant: slots of threads that were not seen stay.
prune_none(slots, now) == slots

prune_thread_cpu_slots(slots, now) ==
    [t \in {t \in DOMAIN slots : slots[t].sample_ns = now} |-> slots[t]]

\* A pass over the children.  A thread that finds no slot is left out.
thread_pass(m, now, children) ==
    LET acc == FoldLeft(LAMBDA a, e : sample_child(a, e, now),
                        [slots |-> m.slots, reset |-> FALSE,
                         available |-> FALSE, peak |-> 0], children)
        ok == acc.available /\ ~acc.reset
    IN  [m EXCEPT !.slots = prune_thread_cpu_slots(acc.slots, now),
                  !.thread = [sample_ns |-> now, available |-> ok,
                              percent |-> IF ok THEN acc.peak ELSE @.percent]]

\* Is a pass due?  now - thread_cpu_sample_ns wraps when time went backwards.
PassDue(m, now) ==
    \/ m.thread.sample_ns = 0
    \/ now < m.thread.sample_ns
    \/ now - m.thread.sample_ns >= Interval

\* sample_thread_cpu: `o' is the cgroup's children, or <<>> with ok FALSE when
\* the process has no cgroup of ours or it does not open.
sample_thread_cpu(m, now, o) ==
    IF now = 0 THEN m
    ELSE IF ~o.ok THEN [m EXCEPT !.slots = Empty, !.thread = NoThread]
    ELSE IF ~PassDue(m, now) THEN m
    ELSE thread_pass(m, now, o.children)

-----------------------------------------------------------------------------
\* merge_client: descriptors of one client are counted once, each engine with
\* its largest value.
merge_client(clients, d) ==
    LET id == d.id IN
    IF id \in DOMAIN clients
    THEN Put(clients, id,
             [e \in Engines |-> Max({clients[id][e], d.engines[e]})])
    ELSE Put(clients, id, d.engines)

\* The descriptors of a sample, merged.
Merged(fds) == FoldLeft(merge_client, Empty, fds)

\* A mark to measure from: the client and engine were there last time.
Comparable(drm, clients, c, e) ==
    drm.started /\ c \in DOMAIN drm.clients
        /\ clients[c][e] # NoValue /\ drm.clients[c][e] # NoValue

\* Mutant: a counter that went backwards becomes the mark.
HighWater_last(drm, clients, c, e) == clients[c][e]

\* The mark kept for the next sample.
HighWater(drm, clients, c, e) ==
    IF Comparable(drm, clients, c, e)
    THEN Max({clients[c][e], drm.clients[c][e]})
    ELSE clients[c][e]

\* Engine time since the last sample, over all clients.
Delta(drm, clients, e) ==
    MapThenSumSet(LAMBDA c : Max({0, clients[c][e] - drm.clients[c][e]}),
                  {c \in DOMAIN clients : Comparable(drm, clients, c, e)})

\* commit_sample: [drm, percent].  The early returns leave the state alone.
commit_sample(drm, clients, now) ==
    LET busy == {e \in Engines : \E c \in DOMAIN clients :
                                     Comparable(drm, clients, c, e)}
        fails == \/ drm.started /\ now <= drm.at
                 \/ \E e \in busy : Delta(drm, clients, e) > CounterMax
    IN  IF fails THEN [drm |-> drm, percent |-> NoValue]
        ELSE [drm |-> [started |-> TRUE, at |-> now,
                       clients |-> [c \in DOMAIN clients |->
                          [e \in Engines |-> HighWater(drm, clients, c, e)]]],
              percent |-> Max({NoValue} \cup
                 {utilisation(Delta(drm, clients, e), now - drm.at) :
                     e \in busy})]

\* sample_from_root.  Too many clients, or a descriptor that cannot be parsed,
\* make the sample invalid; a directory that does not open ends it at once.
DrmValid(o) == o.ok /\ Cardinality(DOMAIN Merged(o.fds)) <= MaxClients

sample_drm(drm, now, o) ==
    IF DrmValid(o) THEN commit_sample(drm, Merged(o.fds), now)
    ELSE [drm |-> drm, percent |-> NoValue]

-----------------------------------------------------------------------------
\* find_process_gpu: the first NVIDIA node among the descriptors, or else the
\* first node of any vendor.
find_process_gpu(nodes) ==
    LET nvidia == SelectSeq(nodes, LAMBDA n : n \in {"nvidia", "nvidia_nopci"})
    IN  IF nvidia # <<>> THEN Head(nvidia)
        ELSE IF nodes # <<>> THEN Head(nodes) ELSE "none"

\* frame_pacer_nvml_provider_select_process, which fails or finds the device.
Select(gpu, found) ==
    [gpu EXCEPT !.attempts = Min({@ + 1, 3}), !.device = found]

\* refresh_gpu_provider's retry, once per interval while something is missing.
Retry(gpu, now, o) ==
    LET missing == gpu.node = "none" \/ (gpu.started /\ ~gpu.device)
        due == gpu.retry_ns = 0 \/ now - gpu.retry_ns >= Interval
        node == IF gpu.node = "none" THEN find_process_gpu(o.nodes)
                ELSE gpu.node
        g == [gpu EXCEPT !.retry_ns = now, !.node = node]
    IN  IF ~(missing /\ due) THEN gpu
        ELSE IF gpu.started /\ ~gpu.device THEN Select(g, o.found) ELSE g

\* refresh_gpu_provider: the retry, then the helper process where NVML cannot
\* be used directly (`acquired' is the answer of the NVML client).
refresh_gpu_provider(gpu, now, o) ==
    LET g == Retry(gpu, now, o)
        direct == g.started /\ (g.device \/ g.attempts < 3)
    IN  IF g.external \/ g.node # "nvidia" \/ direct THEN g
        ELSE [g EXCEPT !.external = o.acquired]

\* frame_pacer_metrics_sample: does NVML, directly or through the helper,
\* deliver the GPU's use?
NvmlUse(gpu, o) == IF gpu.device \/ gpu.external THEN o.nvml ELSE NoValue

\* frame_pacer_metrics_init, on the worker's first job.
Init ==
    /\ monotonic = 1
    /\ inputs \in Observations
    /\ \E o \in inputs, started \in BOOLEAN :
         LET g == [node |-> find_process_gpu(o.nodes), started |-> started,
                   device |-> FALSE, retry_ns |-> 0, attempts |-> 0,
                   external |-> FALSE]
         IN  metrics = [cpu |-> NoCpu, slots |-> Empty, thread |-> NoThread,
                        drm |-> NoDrm,
                        gpu |-> IF started THEN Select(g, o.found) ELSE g]
    /\ shown = [cpu |-> NoValue, thread |-> NoValue, gpu |-> NoValue,
                source |-> "none"]
    /\ past = NoReadings
    /\ samples = 0

\* frame_pacer_metrics_reset_utilization.
reset_utilization(m) ==
    [m EXCEPT !.cpu = NoCpu, !.slots = Empty, !.thread = NoThread,
              !.drm = NoDrm]

\* The worker's job: reset_utilization if a request asked for it, then
\* frame_pacer_metrics_sample.  `o' is what it finds: whether the clock can be
\* read; the descriptors of /proc and NVML's answers; /proc/stat; the
\* children of the cgroup and their usage; the DRM descriptors.
Sample(reset, step, o) ==
    LET m0 == IF reset THEN reset_utilization(metrics) ELSE metrics
        read == IF reset THEN NoReadings ELSE past
        now == IF o.clock THEN monotonic + step ELSE 0
        gpu == IF now = 0 THEN m0.gpu
               ELSE refresh_gpu_provider(m0.gpu, now, o)
        cpu == sample_cpu(m0.cpu, o.cpu)
        m   == sample_thread_cpu([m0 EXCEPT !.gpu = gpu, !.cpu = cpu.cpu],
                                 now, o.threads)
        nvml == NvmlUse(gpu, o)
        useDrm == nvml = NoValue /\ gpu.node # "none" /\ now # 0
        drm == IF useDrm THEN sample_drm(m.drm, now, o.drm)
               ELSE [drm |-> m.drm, percent |-> NoValue]
        pass == now # 0 /\ o.threads.ok /\ PassDue(m0, now)
    IN
    /\ samples < MaxSamples
    /\ monotonic + step <= CounterMax  \* its nanoseconds fit 64 bits
    /\ samples' = samples + 1
    /\ monotonic' = monotonic + step
    /\ UNCHANGED inputs
    /\ metrics' = [m EXCEPT !.drm = drm.drm]
    /\ shown' = [cpu |-> cpu.percent,
                 thread |-> IF m.thread.available THEN m.thread.percent
                            ELSE NoValue,
                 gpu |-> IF nvml # NoValue THEN nvml ELSE drm.percent,
                 source |-> IF nvml # NoValue THEN "nvml" ELSE "drm"]
    /\ past' = [cpu |-> IF o.cpu = NoCpu THEN read.cpu
                        ELSE Append(read.cpu, o.cpu),
                threads |-> IF now # 0 /\ ~o.threads.ok THEN <<>>
                            ELSE IF pass
                            THEN Append(read.threads,
                                   [at |-> now, children |-> o.threads.children])
                            ELSE read.threads,
                drm |-> IF useDrm /\ drm.drm # m.drm
                        THEN Append(read.drm,
                               [at |-> now, clients |-> Merged(o.drm.fds)])
                        ELSE read.drm]

Next ==
    \E reset \in BOOLEAN, step \in Steps, o \in inputs :
        Sample(reset, step, o)

Spec == Init /\ [][Next]_mvars

-----------------------------------------------------------------------------
\* The reference: percentages by division, from the readings themselves.
Rounded(delta, elapsed) ==
    Min({100, (200 * delta + elapsed) \div (2 * elapsed)})

\* The values client `c' has shown for engine `e' in those of the samples `read'
\* that end with the k-th and in all of which it was there.
Marks(read, k, c, e) ==
    LET there(i) == /\ c \in DOMAIN read[i].clients
                    /\ read[i].clients[c][e] # NoValue
    IN  {NoValue} \cup {read[i].clients[c][e] :
                         i \in {i \in 1..k : \A j \in i..k : there(j)}}

\* What the clients S have used of engine `e' since the k-th sample.
Use(read, k, now, e, S) ==
    MapThenSumSet(LAMBDA c : Max({0, now[c][e] - Max(Marks(read, k, c, e))}), S)

ReferenceGpu(read) ==
    LET n == Len(read)
        now == read[n].clients
        both(e) == {c \in DOMAIN now : now[c][e] # NoValue
                                /\ Max(Marks(read, n - 1, c, e)) # NoValue}
        elapsed == read[n].at - read[n - 1].at
    IN  IF n < 2 THEN NoValue
        ELSE Max({NoValue} \cup
                 {Rounded(Use(read, n - 1, now, e, both(e)), elapsed) :
                     e \in {x \in Engines : both(x) # {}}})

\* hud_drm_fdinfo.c:255-324.  The GPU use shown is the busiest engine's share
\* of the time since the sample before: work is counted once, clients that
\* come, go or share a descriptor add nothing, a counter that goes back and
\* recovers is not counted twice, and a sample that failed changes nothing.
GpuUseIsReference ==
    shown.source = "drm" /\ shown.gpu # NoValue =>
        shown.gpu = ReferenceGpu(past.drm)

\* The threads of a pass, and what a thread had used.
Tids(r) == {e[1] : e \in Range(r.children)}

UsageOf(r, t) == (CHOOSE e \in Range(r.children) : e[1] = t)[2]

IsThreadUse(use, read) ==
    LET n == Len(read)
        both == IF n < 2 THEN {} ELSE Tids(read[n]) \cap Tids(read[n - 1])
        delta(t) == UsageOf(read[n], t) - UsageOf(read[n - 1], t)
        elapsed == read[n].at - read[n - 1].at
        uses == {Rounded(delta(t) * Micro, elapsed) :
                    t \in {t \in both : delta(t) >= 0}}
        few == Cardinality(UNION {Tids(read[i]) : i \in 1..n}) <= Slots
    IN  /\ use \in uses
        /\ few => use = Max(uses) /\ \A t \in both : delta(t) >= 0

\* hud_metrics.c:235-314.  The thread use shown is that of a thread which was
\* there in the last two passes, and while the slots suffice it is that of the
\* busiest; none is shown when a thread's counter went back, since its id was
\* given to another thread.
ThreadUseIsReference ==
    shown.thread # NoValue => IsThreadUse(shown.thread, past.threads)

\* hud_metrics.c:732-750.  The processor's use is the share of the time between
\* the last two readings of /proc/stat that was not idle, and is shown only if
\* both counters moved forward.
CpuUseIsReference ==
    LET n == Len(past.cpu)
        total == past.cpu[n].total - past.cpu[n - 1].total
        idle == past.cpu[n].idle - past.cpu[n - 1].idle
    IN  shown.cpu # NoValue =>
          /\ n >= 2 /\ total > 0 /\ idle >= 0
          /\ shown.cpu = Rounded(Max({0, total - idle}), total)

\* hud_drm_fdinfo.c:217-324, hud_metrics.c:235-314 and 732-750: what is shown
\* are the increases of the counters since the sample before, over the time
\* since then.
UseIsReference ==
    GpuUseIsReference /\ ThreadUseIsReference /\ CpuUseIsReference
=============================================================================
