# A TLA+ model of frame-pacer

frame-pacer limits the frame rate of Vulkan and OpenGL games on Linux, shows a
HUD over them and can cap the CPU time of each game thread.  It runs inside the
game, as a Vulkan layer or a preloaded library, on the threads that present
frames; a worker thread and a small controller process take care of the CPU
caps.  All of it is C (`src/src/*.c`), about 13,000 lines.  This directory
models the parts in which threads, processes and the file system meet, checks
them with TLC and proves what can be proved with TLAPS.

## Inventory

| component | source | state | operations | met from |
|---|---|---|---|---|
| pacing clock | `pacer_clock.c` | mutex, `started`, `fps`, `next_deadline_ns` | init, wait, destroy | every present (and fallback submit) through `pace()` |
| configuration parser | `pacer_limit.c:45-730` | `struct parse_state` | `parse_limit` | `resolve_limit` |
| configuration poll | `pacer_limit.c:732-1085` | mutex, `last_check_ns`, `fps`, quota, HUD flag, `revision`, `effective`, buffer | poll, snapshot, set_reporting_enabled, destroy | `pace()`, the HUD, the reporter |
| executable candidates | `pacer_limit.c:54-316` | list of names | computed once at init | parser |
| report | `effective_config_report.c` | mutex, one `reported` revision per backend | report_if_due | `pace()` when the log is active |
| thread CPU worker | `thread_cpu_quota.c` | request, `confirmed`, `stop`, `owner`, `tids`, `external` | publish, confirmed, destroy, the worker's loop | `pace()`, the HUD, the destructor |
| external protocol | `thread_cpu_external.c`, `thread_cpu_protocol.c` | state, status and lock files, child pid | start, write, confirmed, wait_off, reap | worker |
| native controller | `thread_cpu_quota_controller.c` | cgroup tree, its files | bootstrap, loop, exit | the files only |
| systemd client | `thread_cpu_systemd.c` | a bus connection | start scope, start service | worker, controller |
| Vulkan layer and registry | `frame_pacer_layer.c`, `vulkan_layer_registry.c` | tables of instances, devices, queues | create, destroy, present, submit | the game |
| queue fallback | `pacer_queue.c`, `pacer_compatibility.c` | per-queue counters | note_present, needs_fallback | present, submit |
| Vulkan HUD | `vulkan_layer_hud.c`, `hud_vulkan_*.c`, `hud_swapchain_policy.c` | per-swapchain resources | create, prepare_present, note_present, destroy | the layer |
| OpenGL backend | `gl_pacer_*.c`, `gl_hud_renderer.c` | original functions, per-context renderer | swap, make current, destroy | the game |
| HUD metrics cache | `hud_metrics_cache.c` | mutex, last sample, request and reset flags, worker | snapshot, worker, destroy | the HUD of both backends |
| HUD frame counter | `hud_fps.c` | mutex, window start, last present, count | record_present | swaps and presents |
| HUD metrics | `hud_metrics.c`, `hud_drm_fdinfo.c` | counters of the last sample, thread slots, DRM clients | sample, reset | the cache's worker |
| NVML client, helper | `hud_nvml_*.c` | reference count, socket, sequence-locked values | acquire, release, snapshot, worker | metrics |
| runtime log | `log_retention.c`, `state_directory.c` | descriptor, files in one directory | activate, write, prune, close | every component |

What is hard here: presentation threads call the same code concurrently and
take locks in a fixed order with a sleep inside one of them; hot paths read
atomics that other threads publish one by one; the configuration file changes
under the reader; a worker answers asynchronously and drops its mutex around
every system call; worker and controller talk through two files and may each
fail or be killed; the game starts and ends threads while the worker walks over
them; a helper process dies and is started again while samplers read what it
sent without a lock; drivers hand out a handle again as soon as it is free;
several processes, and two copies of the library in one, share a directory of
logs; the destructor runs while all of this goes on.

What makes each part correct: the clock never lets more frames through than the
limit allows, and delays none by more than an interval; the parser selects what
the file as a whole says; a poll never returns settings older than the poll
interval or mixed from two versions of the file; each configuration is reported
once; a quota is shown as confirmed only when it is in force; nothing stays
limited when the option is off; the Vulkan layer never follows a freed pointer or
takes a reused handle for its predecessor, and a HUD that fails leaves the game's
present as it was; a GL game finds its state and its contexts as it left them; a
utilisation or frame rate on the HUD is one that was measured, by a helper that
lives, and not over a pause of the HUD that the sampler could know of; threads and
processes end when they are told to; a log begins with its header, says when it is
full, and at most ten are kept.

## Modules

**RateLimiter** is what the pacing clock promises: while a limit is in force,
frames released since it came into force do not outrun the time since then.

**PacerClock** is `pacer_clock.c` as `pace()` drives it.  `clock` is
`struct frame_pacer_clock`; `Enter` is the poll and the checks at the head of
`frame_pacer_clock_wait`; `Off`, `First` and `Begin` are its three ways on under
the mutex; a thread in `"sleeping"` holds the mutex (as in the code) until
`Wake`; `Interrupt` is EINTR.  `Destroy` is the destructor, which may run while
threads are inside: destroying a held mutex fails with EBUSY, locking a destroyed
one fails, and the code ignores both, so after `Destroy` there is no exclusion.
`recent`, `start`, `released` and `restarts` are history variables.
`RefinesRateLimiter` maps the clock to RateLimiter (no limit once destroyed).

**ConfigParse** is `parse_limit` as a function from line tokens to the
effective configuration: the order of checks, duplicates, first error, its line,
the choice among matching rules and the defaults after an error.  Splitting a
line into words is abstracted: a token says how the parser classifies the line;
numeric values keep their number because the ranges are what
`parse_fps` and `parse_thread_cpu_quota` decide.

**PacerLimit** is the poll: one step per system call of `resolve_limit` and one
per atomic store of `refresh_limit`, since readers on the hot path see each of
them; `report_if_due` with the reporter's mutex outside the limit's; and the
user, who may write, chmod, remove or replace the file between any two steps.
The file has two halves, read by two `read()` calls, so that a torn read is
possible in the model; `same_file` compares a stamp that every edit changes.
The parser appears as `Parse`: ConfigParse covers it in full.

**VulkanLayer** is the layer's registry, the create and destroy entry points,
and `vkQueuePresentKHR` with the HUD's overlay.  A call is split where it takes
or drops the registry's mutex and at its downstream call: `RemoveDevice`,
`FreeDevice`, `DestroyDevice` are `vkDestroyDevice`; `FindPhysical`,
`CreateDevice`, `AddDevice` or `UndoDevice` are `vkCreateDevice`; `Present`,
`DrawResources`, `FindItem`, `Check`, `Overlay` or `OverlayFails`, `Forward`,
`Presented` are a present.  `driver` is what exists downstream and `held` what
the game may use: the game keeps Vulkan's rules of external synchronization
(no destruction of what another call uses, one call at a time on a queue or a
swapchain) and nothing else orders its threads; it may leave swapchains behind
when it destroys a device.  Handles come back as soon as the driver has
destroyed them, addresses never.  A swapchain's item has one fence for each
image ("reset" when nothing will signal it) and remembers whether the atlas
counts as uploaded (`uploaded`) and was in fact submitted (`atlas`).

**ThreadCpuExternal** is the worker with a native controller: the worker's loop
split where it drops the mutex, the two files, and the controller's loop and
exit.  A file holds nothing, "off" or a quota; both processes replace files by
rename, so no partial content is ever read.  `cap` is the set of quotas in force
in the controller's cgroups.  Writes, spawns, applies and removals may fail and
the controller may be killed, `MaxFaults` times in all.

**ThreadCpuQuota** is the worker with a writable cgroup tree: `reconcile` as
listing, one step per thread managed, pruning, one step per thread verified, and
`cleanup` likewise, while the game starts threads (in the cgroup of their
creator) and ends them.  The kernel's rule that an occupied cgroup cannot be
removed is in `Rmdir`.

**PacerQueue** is the fallback of a queue that stops presenting: the
compatibility rules, the decision under the registry's lock (`Decide`), and a
present as acceptance or refusal by the driver followed by the note of it
(`PresentReturns`).  The clock is read before the lock by a submit, and after
the driver's answer by a present; time passes between any two steps.
VulkanLayer leaves this state of a queue out, since nothing else reads it.

**HudFps** is the frame counter: readings of the clock (`Accepted`) and their
recording under the mutex (`Record`), which may happen in another order.  The
history keeps the presents themselves, the tracker only three numbers.

**HudMetrics** is one sampler: `/proc/stat`, the thread slots, the DRM client
table with its high-water marks, and the choice between NVML and DRM.  A sample
is one action whose inputs are what the files may contain; the percentages are
computed by the code's thresholds, which avoid a multiplication that could
overflow.  The reference definitions compute them by division from the
readings themselves.  `MetricsAssumption` is what the code lets one assume: numbers
are natural, and a directory has no name twice.  The clock stays below `CounterMax`,
since its nanoseconds fit 64 bits.

**HudMetricsCache** is the cache: drawers read the clock and then take the mutex
(`ReadClock`, `Snapshot`); the worker's loop is split where it waits and where it
samples without the mutex; `Stop` and `Free` are destroy before and after the
join.  A sample is the stretch of time its rate is taken over.  Whether it starts
anew is settled when the worker takes the request (`hud_metrics_cache.c:21`), and it
is read later (line 40): over a pause that ends in between a use may be shown, and
`NoUseAcrossPause` says for how long, until the next sample, which is asked for
already, replaces it.

**NvmlClient** is the client: acquisitions and releases split at the mutex, the
join and the final `invalidate`; the worker with its start of the helper,
receive loop, `publish` and teardown; the helper, which may die at any point or
send anything; and a snapshot, one step per load.  Every store of the sequence
lock is a step (`PublishStores`, `Invalidate`).

**LogRetention** is the log of several copies of the library: the header, the
lock file (a record lock, which belongs to a process and not to a copy), the two
passes of `prune_logs`, the publication of the descriptor, and records written
in parts that may fail.  `dir` maps names to inodes, so an unlinked log lives on
in its descriptor.

**GlBackend** is the OpenGL side: the shim's constructor, the table of
downstream functions filled in by the first call, swaps with and without a
drawing, the damage swaps, and the destruction of contexts and displays.  A library
exports some functions and offers others only through its GetProcAddress; the table
is what `frame_pacer_gl_dispatch_init` finds by dlsym in `libGL.so.1`, then in
`libEGL.so.1`, then behind the renderer (`Downstream`), function by function.  `Call`
is how a call of the game finds its function, through the renderer or the shim
alone, and `lost` the last that did not.  What `save_state` reads (`Saved`), what
`restore_state` sets (`Restored`) and what the drawing changes (`Set`) are three
lists, each from its own code.  A
context has an incarnation (`birth`), since a driver reuses handles, and lives
on while it is current.  A drawing (under the renderer's mutex, in the caller's
context) is one step with one branch per stage that may fail.

The `MC*` modules give the instances.  Some put two or more modules into one run:
the *disjoint union* of their state graphs, chosen in the initial state by `part`,
`mode` or `instance`; the variables of the parts that were not chosen keep their
initial values.  Nothing is composed by this and nothing is lost: TLC explores
each graph as it would alone.  Such a module extends its parts, or instantiates
one whose names collide (`Direct` is ThreadCpuQuota in MCThreadCpu, `Log` is
LogRetention in MCGlAndLog), so that run and theorem name the same definitions.
The parts of MCThreadCpu, MCVulkanLayer and MCHud belong to one subsystem;
MCValues and MCGlAndLog collect what has no interaction but the same kind of
property.  Where the modules are about the same state (clock and abstract limiter,
poll and report, worker and controller, registry and HUD) they are composed in one
module. MCConfigParse has the files to enumerate and the parser's reference
definition. `*_proofs` hold the theorems.

## Runs

| run | instance | shows | distinct states |
|---|---|---|---|
| `clock` | 2 threads, limits off, 4 and 6 per 12 units, largest value 7, 6 instants, 2 changes, 1 interruption | `RateBound`, `NoBurst`, `BoundedHold`, `RefinesRateLimiter`, `SleepEnds`; `RestartsBounded`: a stale polled limit flips the clock back at most 2n-1 times per change | 2.2 M |
| `limit` | 2 threads; without a log: every form of the file, every call may fail, 3 instants, interval 2; with a log: 2 backends, 2 instants, interval 1; 1 edit in each | `Fresh`, `NoTornConfig`, `ReportedIsEnforced`, `ReportsFollowRevisions` | 8.2 M |
| `thread_cpu` | external: 2 quotas and one out of range, 4 changes, 2 faults; direct: 3 threads, 3 changes, 2 births or deaths, 1 fault | `ConfirmedForRequest`, `NoOrphanRequest`, `ConfirmedCovers`, `QuietCleanup`, `StopReleases`, `RequestConfirmed` | 1.8 M |
| `values` | all files of up to 4 pieces (17 lines, 8 whole rules); 3 samples; 2 threads and 9 instants of presents; 2 users and 2 messages of the NVML client | `ParseIsReference`, `UseIsReference`, `FpsIsCadence`, `CoherentAlone`, `NoDeadSample` | 2.0 M |
| `hud` | cache: 2 drawers, 5 instants, interval 2, pause 3; NVML: 2 users, 2 starts of the helper, 2 acquisitions | `NoUseAcrossPause`, `RequestsSpaced`, `NothingLeftBehind`, `RequestServed`, `DestroyEnds`, `ReleaseEnds` | 0.8 M |
| `vulkan` | 2 threads, 1 instance, 2 devices of 2 queues, 2 swapchains of 2 images, 5 objects; fallback: 2 queues, 5 instants, all executables | `NoDangling`, `RegistryMatchesDriver`, `FenceWillSignal`, `AtlasUploaded`, `WaitsOnce`, `FallbackSound` | 2.2 M |
| `gl_and_log` | GL: 2 threads, a GLX and an EGL context with equal handles, 2 births, 2 atlases; calls: 4 libraries, two of one name, 1 birth; log: 3 copies in 2 processes, 3 old logs, 2 kept, 2 records, 1 short write | `ContextUntouched`, `NamesOfContext`, `KnownCallsForwarded`, `RetentionSound`, `LogOrdered` | 1.4 M |

Five runs end in a counterexample; each is a place where the code does something
else than the documentation or a test of the repository says:

- `external_disable` (`DisableReleases`): if the option is switched off before
  the controller's first confirmation, the worker sleeps on its condition
  variable with the request still in the state file; the controller applies the
  quota and keeps it.  The test for `q->external` at `thread_cpu_quota.c:686`
  shows that this case was meant to be cleaned up.
- `external_stale` (`ConfirmedIsApplied`): the status file does not say which
  request it answers, so a quota changed and changed back is confirmed at once.
- `quota_disable` (`DisableRemoves`): a cgroup made for a thread that ended, or
  occupied by a thread born after the listing, is not in `q->tids` and keeps the
  root from being removed.
- `nvml_torn` (`CoherentSnapshot`): the last release clears the sequence lock
  after it has dropped the mutex.  A user that acquires in between starts a
  second writer, and a snapshot then mixes two messages.  `CoherentAlone`, in
  `values`, shows that this overlap is the only way to a mixed snapshot.
- `gl_stale` (`NoStaleNames`): a context is destroyed downstream first and its
  HUD resource forgotten afterwards; a new context with the same handle is drawn
  into with the old one's object names.  `NamesOfContext`, in `gl_and_log`,
  shows that outside such a window, and but for a context drawn into after its
  own destruction, the resources are always those of the context at hand.

Smaller differences were seen while modelling and have no run:

- A thread whose clock reading is older than another's refresh reads the file
  again at once (`pacer_limit.c:973` asks for `now_ns >= last_check_ns`), so it is
  not quite "at most once per second".
- A thread born after the listing of the confirming pass runs without a cap while
  the HUD shows one, until the next pass 250 ms later; `ConfirmedCovers` is
  therefore about the threads the pass found.
- The table of downstream GL functions is filled in once
  (`gl_pacer_dispatch.c:141-212`): a library loaded afterwards is not reached, nor
  one of another name, although the calls are said to be forwarded to the real
  libraries (`docs/technical-details.md:12`).  It is filled in by dlsym only, while
  the game's `eglGetProcAddress` gets the renderer's damage swaps whatever the table
  holds (`gl_pacer_interposer.c:435`): with a `libEGL.so.1` that offers these
  extensions without exporting them, they return `EGL_FALSE` and nothing is
  presented, although "each backend fails open" (`docs/technical-details.md:16`).
  The libraries of the tests export all they offer.  And the damage swaps read the
  table before the call that fills it in (`gl_pacer_interposer.c:337`), so as the
  first call of a process they are refused; `tests/test_gl_pacer.c:76` makes other
  calls first.  `KnownCallsForwarded` says that nothing else is lost.
- Two copies of the library in one process each count the bytes they wrote
  themselves, so a log may outgrow the "64 MiB maximum per file" of
  `docs/technical-details.md:159-160`.  `LogOrdered` bounds each copy's count, but
  for a copy that opens such a file.
- A log created between the two passes of another process's prune is not in its
  list of logs to keep and is unlinked; `RetentionSound` allows for that.
- Presents that keep failing are paced, and once the queue counts as quiet its
  submits are paced too (`frame_pacer_layer.c:639`).

### Bounds

Named constants: `MaxNow`, `MaxTime`, `MaxInstant` (instants), `MaxChanges`
(configuration changes), `MaxEintr` (interruptions of a sleep), `MaxEdits` (edits
of the file), `MaxParts` (pieces of a file), `MaxFaults`, `MaxChurn` (threads
started or ended), `MaxObjects`, `MaxBirths` (allocations, contexts),
`MaxSamples`, `MaxPresents`, `MaxAcquires`, `MaxSent` (messages of helpers),
`MaxRecords`, `MaxShort` (writes that are short or fail).

The clock's arithmetic is over a second of 12 units, with two limits whose
intervals (3 and 2) divide no common grid and a largest value of 7, so that
stalls of several intervals, frames exactly on a deadline and saturation all
happen within 6 instants.  Two threads show every interleaving of a critical
section.  Since every edit changes the stamp, one edit between two system calls
is enough to tear a read.  `MaxObjects` = 5 allocations let an instance, a device
and a swapchain be destroyed and made again under the same handles; two births of
a context do the same for OpenGL.  The four libraries are the system's libGL and
libEGL, a libEGL that exports the damage swaps too, and one of another name; they
are linked or loaded in every order, with and without glibc's dlsym and the
renderer.  Two faults in `thread_cpu` cover a fault during
the recovery from one.  Three samples are a baseline, a rate, and a rate after one
that failed; the observations include counters that go back, clients and engines
that come and go, one thread more than there are slots, and values near
`CounterMax`.  Two messages and two acquisitions are what a torn snapshot or a
sample that outlives its helper needs.  The log's limit of 8 units holds a header
of 3 and one record of 3, then the notice of 2 exactly; a log that was full
before, and one that has room only for a part, are among the old ones.  The
fallback's quiet time of 1 within 5 instants leaves room for two starts and ends.
The theorems below have none of these bounds.

Deadlock is checked for the poll and the report, whose two mutexes nest, and for
the Vulkan layer.  The other systems may stop: time ends at its bound, a worker
that was told to stop is done, and a log may be closed.

### Fairness

`clock` assumes that time passes and that a thread whose deadline has come is
woken (`clock_nanosleep` returns; signals do not arrive for ever).  Nothing is
assumed about who gets the mutex.  `thread_cpu` assumes weak fairness of the
worker and of the controller as whole processes: both loops sleep 250 ms and
never block on anything but their condition variable or a bounded wait.  `hud`
assumes that the cache's worker, the NVML worker, the thread in destroy and the
threads in release are scheduled, and that a helper that was sent SIGTERM, or
whose connection is gone, ends: the worker's `waitpid` has no timeout, and the
helper (`hud_nvml_helper.c`) leaves its loop on either.  Faults, kills and the
arrival of messages are never fair.

## Proofs

Every theorem is for all values of the constants that satisfy the named
assumptions; the bounds of the runs are constants like the others.  All of them
have the same shape: an inductive invariant, one lemma per conjunct with one case
per action, and the properties as its consequences.

**PacerClock_proofs** proves `TypeOK`, `RateBound`, `NoBurst`, `BoundedHold`,
`RestartsBounded` and the refinement of RateLimiter, from `ClockAssumption` (no
clock reading reaches `UINT64_MAX`; `MaxFps` does not exceed the units of a second,
so intervals are positive) and `PresentersAssumption` (the threads are finitely
many, for the count of restarts).  `Exclusion`: while the clock lives, its mutex
owner is exactly the one sleeper, and it sleeps for the limit in force, so the grid
cannot move under it.  `Grid`: every deadline handed out `Covers` the frames
released so far, that is, it lies beyond their whole budget and more than an
interval after the last but one.  `Covers` of the next grid point survives both
skipping missed points and saturation, which is where the arithmetic lemmas on
`add_intervals` are needed.  For `RestartsBounded` the invariant is a potential,
`Budget`: a thread whose polled limit is out of date may still move the clock away
from the current limit, and another may then move it back, so each stale thread is
good for two restarts (and when all are stale at a clock that keeps what they want,
the first of them for one).

**PacerLimit_proofs** proves `NoTornConfig`, `Fresh`, `ReportedIsEnforced` and
`ReportsFollowRevisions`, from `LimitAssumption`.  `Locked`: a mutex is held by
exactly the thread in its critical section, reports outside the poll.  `FilesInv`:
no edit gives a stamp twice, so a stamp that still matches vouches for both halves
read (`Vouched`).  `TimeInv`: the time of a check is stored after what it found,
and what it found was read after that time was taken; the hot path, which reads
these words without the mutex, is fresh for that reason.  `EnforcedInv` follows the
stores of a publication one by one (`Storing`); `ReportInv` says that no slot runs
ahead of the revision and that the report a thread has drafted agrees with all
others of its revision.

**ThreadCpu_proofs** is about both ways of enforcing a quota.  With a controller:
`TypeOK`, `ConfirmedForRequest` and `NoOrphanRequest`, from `ExternalAssumption`.
`Answered`: an answer that waits for the mutex is the status last seen; together
with `Settle`'s second look at the request this closes the window in which
`publish` changes it.  `Marked`: whoever may have been written to is marked
external, so that the worker does not leave without a cleanup; `Undisturbed` says
what the mark stands for as long as nothing has failed.  With a writable cgroup
tree: `ConfirmedCovers` and `QuietCleanup`, from `DirectAssumption`.  `Housed`: a
cgroup with a thread in it cannot be removed; `ReadBack`: what the pass at hand has
verified is still so; `InForce`: a confirmation is for the quota of that pass and
no cleanup runs.  `Quietly` describes, label by label, a worker that nothing has
disturbed.

**PacerQueue_proofs** proves `FallbackSound`, from `QueueAssumption`.  The
strengthening is `Remembered`: the time a queue has noted for its last present is
never before the driver took it, except while that present is still on its way
back, when Vulkan's rules allow no submit on the queue; and `InUse`: a queue is
registered as long as a call past its lookup uses it.  `Mine` is the invariant for
one queue, so that a step of one leaves the others' alone.

**Values_proofs** is about what the library computes from what it reads: the
configuration, and the numbers on the HUD.

`ParseIsReference`, from `ParseAssumption`; more generally `ParserIsReference`, for
every file of any length.  The reference speaks of the file as a whole, the parser
has seen k lines of it.  Until an error, its state is `Good`: `Globals` and
`RuleKnown` say which keys those lines have, with their values, in the file and in
the section at hand (`RuleAtHand`), and `Tally` with `BestKnown` which of the
sections that have ended is the best; by `NoFaultTo` no fault of the file shows by
line k.  After an error, `FirstIs`: its fault is the first of the file.  `ReadPasses`
gives the states the parser's fold passes through, `EntryStep`, `SectionStep` and
`Finish` (a rule is judged when the next one begins) make up `LineStep`.

`FpsIsCadence`, from
`FpsAssumption`: `WindowKnown` says that the tracker's three numbers are those of the
presents in the window: its first, its last and their number, in order and without a
gap beyond the stale time.

`UseIsReference`, from `MetricsAssumption`: the sampler keeps counters, slots and
marks, and the invariant `UseInv` says what they are of the readings since the
last reset. `CpuKept`: the last reading.  `DrmKept`: for each client of the last
reading that counted, the largest value of the run of readings that ends there, so
that a counter which goes back and recovers adds nothing.  `ThreadKept`: the slots
are the threads of the last pass with their usage, all of them while there were
few.  The code's loops are folds.  `FoldPasses` gives the values a fold runs
through, from the definition of the fold and by induction over their numbers
(`Induct`, from the least element a set of numbers has), and `SlotsSoFar` and
`UseSoFar` are carried along them: what the slots and the busiest thread are after
each child.  Sums over clients are equal because the summands are (`SumsUp`,
`SumUnique`).  `UtilisationIsRounded` shows that the code's loop over thresholds,
made to avoid an overflow, rounds the quotient to the nearest percent.

**Hud_proofs** is about the two threads behind the telemetry.  For the cache it
proves `NoUseAcrossPause`, `RequestsSpaced` and that destroy leaves no worker, from
`CacheAssumption` (`SampleNs <= ResetNs`, as in `hud_metrics_cache.c`).
`ResetDue`: after a pause, the baseline the sampler still has is going to be
dropped, because the reset is pending or the sample under way was told;
`JobWithin`: so no sample under way reaches across a pause that was over when its
request was taken.  A sample may be overtaken by the end of a later pause
(`JobOvertaken`); then the reset is pending with a request (`WorkerHears`), and what
is shown will be replaced (`UseReplaced`).  `Questioned` ties the time
of the last request to the readings of the drawers.

For the NVML client it proves `CoherentAlone`, `NoDeadSample` and `NoHelperLeft`,
from `NvmlAssumption` (devices are finitely many, descriptors are numbers), and for
both together `NothingLeftBehind`.  `Owners`: the references are the holders, a
worker runs exactly while someone uses it, a helper exists only while the worker
has a connection, and the last release has the client for itself; a snapshot is
therefore never under way while the client is being started or torn down.
`Alive`: what is published as available is younger than the last connection that
ended, also between the stores of a `publish`, and is gone before the connection is
closed; `Young` carries that over to what a snapshot has loaded so far.  `Locked`:
unless a release has stored into what a new worker publishes (`overlap`, the
finding of `nvml_torn`), the generation is odd exactly while the worker writes, so
that a snapshot which finds it unchanged and even has loaded what is published;
`Paired` says that this is one message but between two stores.  Each action has an
*effect lemma* that says what it does to the fields of its records; the invariants
rest on those alone.

**VulkanLayer_proofs** proves `NoDangling`, `RegistryMatchesDriver`,
`FenceWillSignal`, `AtlasUploaded` and `WaitsOnce`, from `LayerAssumption` (handles
of different kinds differ).  The argument is one of ownership.  `Lists` relates the
registry to the handles the game holds.  `Claims` says what a call under way has of
its own: a handle the game does not hold yet or no more, an object it has taken from
the lists and not freed, and what it uses while the game holds it.  `Apart`: two
calls never claim the same.  `Accounted`: no device of the driver's is without an
owner.  With these, whatever a step frees nobody else can reach.  `Overlays` and
`Semaphores` are about the overlay alone and rest on the item being the caller's.

**GlAndLog_proofs** proves for the OpenGL backend `ContextUntouched`,
`NamesOfContext` and `KnownCallsForwarded`, from `GlAssumption` (a library offers
what it exports).  `Restores` shows that what is both saved and restored is all that
a drawing, whole or broken off, changes; `NamesInv`
and `LeakInv` relate the listed resources to the objects in each context and to its
incarnation, up to the destructions under way.  `DownstreamFinds`: the lookups miss
nothing that a library of either name exports; `LostInv` carries this from the
moment the table is filled in, and `Answers` says which calls find nothing then.
For the log it proves
`RetentionSound` and `LogOrdered`, from `LogAssumption`.  `Bounded`: unless few
logs are left already, an activation is under way that will leave few, because it
has yet to scan or keeps few (`NewestAreFew`: of finitely many logs, at most L have
fewer than L that are newer).  A prune can be overtaken by an `open` of its own
process, whose name it then protects in addition; that activation prunes itself
later.  `Held` keeps a log under its name unless another process unlinks it.
`Room`: until a copy is capped it has kept room for the notice, and from then on
what it has said of the notice and what is left of it make up the whole.

Only model-checked: liveness (`SleepEnds`, `StopReleases`, `RequestConfirmed`,
`RequestServed`, `DestroyEnds`, `ReleaseEnds`), since fairness is outside the prover.
Every other property of the passing runs is stated by a theorem.

## Not modelled, and assumptions

- `frame_pacer_limit_destroy` and `frame_pacer_fps_destroy`, and the OpenGL
  libraries' destructors: they free what a concurrent call may be using.
  Destruction is modelled for the clock, the thread CPU worker, the telemetry
  cache and the NVML client.
- That an edit always changes what `same_file` compares: file systems with coarse
  timestamps could break it for edits of equal size within one tick.
- The executable candidates (reads of /proc at start) and the systemd client: the
  former is a constant of ConfigParse, the latter a success or a failure of
  activation, like the search for a writable cgroup root.
- In VulkanLayer: queue families (the HUD's command pool is made for the family of
  the first queue that presents, `vulkan_layer_hud.c:312`), the vertex buffer all
  images of a swapchain share (`vulkan_layer_hud.c:281`), work still on the GPU
  when a swapchain's resources are destroyed (`vulkan_layer_hud.c:88`), null
  arguments and missing loader links (the call fails before it changes anything),
  the lookups of `vkGet*ProcAddr`, and a game that breaks Vulkan's rules.
- In NvmlClient: that the descriptor the last release shuts down
  (`hud_nvml_client.c:453`) may by then be one of the game's; in the model it is
  the worker's or nobody's.  The steps inside a spawn, and the vendor's library.
- In GlBackend: per-draw-buffer masks and blending (`gl_hud_renderer.c:379` saves
  and restores one value for all); which of two libraries a function that is found
  belongs to; what a lookup behind the renderer might find in a program that was
  started with the renderer itself as a preloaded library, instead of the shim,
  which opens it with a scope of its own (`gl_pacer_shim.c:120`); the pacing
  inside a swap, which is PacerClock.
- In HudMetrics: the search for sensors, temperatures and the text of /proc and
  /sys files.
- Drawing, fonts, text layout and Vulkan pipeline creation: straight-line code
  whose only state is handles.
- The installer and the packaging: shell scripts outside the running program.

## Plan

1. VulkanLayer: queue families, the shared vertex buffer and work still on the
   GPU at destruction.
2. The destructors of the poll and of the OpenGL libraries.
