----------------------------- MODULE PacerLimit -----------------------------
(***************************************************************************)
(* The configuration poll (src/src/pacer_limit.c from resolve_limit on)    *)
(* and the effective-configuration report (effective_config_report.c), as  *)
(* the presentation threads of one library run them in pace(), while the   *)
(* user edits, replaces or removes the file at any instant.                *)
(*                                                                         *)
(* A file has two halves, read by two read() calls: one carries the FPS    *)
(* limit and one the thread CPU quota.  0 is a text the parser refuses.    *)
(* Every edit gives the file a new stamp (what same_file compares).        *)
(***************************************************************************)
EXTENDS Integers, Sequences, FiniteSets

CONSTANTS
    Threads,      \* presentation threads
    Backends,     \* report slots: GLX and EGL share one library
    Values,       \* what a half of the file can hold; 0 is malformed
    Forms,        \* kinds of file: "regular", "insecure", "badsize"
    Faults,       \* system calls that may fail: "stat", "open", "read_a"...
    Poll,         \* FRAME_PACER_CONFIG_POLL_NS
    LogEnabled,   \* FRAME_PACER_LOG=1
    Nobody,       \* a mutex is free
    MaxNow,       \* bound: the last instant
    MaxEdits      \* bound: edits of the file

ASSUME LimitAssumption ==
    /\ Values \subseteq Nat /\ Poll \in Nat \ {0} /\ LogEnabled \in BOOLEAN
    /\ Forms \subseteq {"regular", "insecure", "badsize"}
    /\ MaxNow \in Nat /\ MaxEdits \in Nat /\ Nobody \notin Threads

VARIABLES
    now,          \* CLOCK_MONOTONIC
    path,         \* the inode at the path, 0 when the file is missing
    inode,        \* the inodes: [form, a, b, stamp]
    edits,        \* how often the user touched the file
    mutex,        \* owner of limit->mutex
    lastCheck,    \* limit->last_check_ns; 0 is "never"
    fps,          \* limit->fps
    quota,        \* limit->thread_cpu_quota (hud_enabled is stored with it)
    revision,     \* limit->revision
    effective,    \* limit->effective: [status, fps, quota, rev]
    reporting,    \* limit->reporting_enabled
    logInit,      \* presentation_log_once has run
    logActive,    \* the log's descriptor is open
    rmutex,       \* owner of reporter->mutex
    reported,     \* reporter->reported
    pc, loc,      \* per thread: where it is, and its local variables
    fpsAt,        \* history: when the file was read that fps came from
    quotaAt,      \* history: the same for quota
    written,      \* history: the reports written, per backend
    versions      \* history: every state a file ever had

vars == <<now, path, inode, edits, mutex, lastCheck, fps, quota, revision,
          effective, reporting, logInit, logActive, rmutex, reported, pc, loc,
          fpsAt, quotaAt, written, versions>>
world == <<path, inode, edits, versions>>
published == <<lastCheck, fps, quota, revision, effective, fpsAt, quotaAt>>
logState == <<reporting, logInit, logActive>>
reports == <<rmutex, reported, written>>

\* effective_defaults and set_failure: no limit, no quota.
Failure(status) == [status |-> status, fps |-> 0, quota |-> 0]

Usable(v) == v > 0

\* parse_limit, as far as the two halves go.
Parse(a, b) ==
    IF Usable(a) /\ Usable(b)
    THEN [status |-> "valid", fps |-> a, quota |-> b]
    ELSE Failure("malformed")

Unresolved == [status |-> "unreadable", fps |-> 0, quota |-> 0, rev |-> 0]

Idle == [now |-> 0, logging |-> FALSE, backend |-> Nobody,
         expected |-> [ino |-> 0, stamp |-> 0], a |-> 0, b |-> 0,
         result |-> Failure("unreadable"), checkedAt |-> 0,
         rev |-> 0, known |-> 0, snap |-> Unresolved,
         fpsAt |-> 0, quotaAt |-> 0]

Init ==
    /\ now = 1
    /\ \E v, w \in Values :
         /\ inode = <<[form |-> "regular", a |-> v, b |-> w, stamp |-> 0]>>
         /\ versions = {<<1, inode[1]>>}
    /\ path \in {0, 1}
    /\ edits = 0
    /\ mutex = Nobody /\ rmutex = Nobody
    /\ lastCheck = 0 /\ fps = 0 /\ quota = 0 /\ revision = 0
    /\ effective = Unresolved
    /\ reporting = FALSE /\ logInit = FALSE /\ logActive = FALSE
    /\ reported = [b \in Backends |-> 0]
    /\ pc = [t \in Threads |-> "idle"]
    /\ loc = [t \in Threads |-> Idle]
    /\ fpsAt = 0 /\ quotaAt = 0
    /\ written = [b \in Backends |-> <<>>]

Tick == /\ now < MaxNow
        /\ now' = now + 1
        /\ UNCHANGED <<world, published, logState, reports, mutex, pc,
                       loc>>
----------------------------------------------------------------------------
\* The user.  Every change gives the file a new stamp; a replaced or removed
\* file lives on for those who have it open, with another stamp too.
Touch(newPath, files) ==
    /\ edits < MaxEdits
    /\ edits' = edits + 1
    /\ path' = newPath
    /\ inode' = files
    /\ versions' = versions \cup {<<i, files[i]>> : i \in DOMAIN files}
    /\ UNCHANGED <<now, published, logState, reports, mutex, pc, loc>>

Stamped(i) == [inode EXCEPT ![i].stamp = edits + 1]

Write == /\ path # 0
         /\ \E v \in Values :
              \/ Touch(path, [Stamped(path) EXCEPT ![path].a = v])
              \/ Touch(path, [Stamped(path) EXCEPT ![path].b = v])

Chmod == /\ path # 0
         /\ \E f \in Forms \ {inode[path].form} :
              Touch(path, [Stamped(path) EXCEPT ![path].form = f])

Remove == /\ path # 0
          /\ Touch(0, Stamped(path))

Replace ==
    \E v, w \in Values :
        Touch(Len(inode) + 1,
              Append(IF path = 0 THEN inode ELSE Stamped(path),
                     [form |-> "regular", a |-> v, b |-> w,
                      stamp |-> edits + 1]))
----------------------------------------------------------------------------
Goto(t, label) == pc' = [pc EXCEPT ![t] = label]

\* last_check_ns && now >= last_check_ns && now - last_check_ns < POLL
Recent(check, at) == check # 0 /\ at >= check /\ at - check < Poll

\* pace(): the log state and the clock are read before the poll.
Begin(t) ==
    /\ pc[t] = "idle"
    /\ loc' = [loc EXCEPT ![t] = [Idle EXCEPT !.now = now,
                                              !.logging = logActive]]
    /\ Goto(t, "check")
    /\ UNCHANGED <<now, world, published, logState, reports, mutex>>

\* The poll returns a limit read from the file at the instant `at'.
Polled(t, at) ==
    /\ loc' = [loc EXCEPT ![t] = [Idle EXCEPT !.now = loc[t].now,
                                              !.logging = loc[t].logging,
                                              !.fpsAt = at]]
    /\ Goto(t, IF loc[t].logging THEN "due" ELSE "quota")

\* frame_pacer_limit_poll without the mutex: last_check_ns, then fps.
Check(t) ==
    /\ pc[t] = "check"
    /\ Goto(t, IF Recent(lastCheck, loc[t].now) THEN "load" ELSE "refresh")
    /\ UNCHANGED <<now, world, published, logState, reports, mutex,
                   loc>>

Load(t) ==
    /\ pc[t] = "load"
    /\ Polled(t, fpsAt)
    /\ UNCHANGED <<now, world, published, logState, reports, mutex>>

\* refresh_limit: another thread may have checked while this one waited.
Refresh(t) ==
    /\ pc[t] = "refresh" /\ mutex = Nobody
    /\ \/ /\ Recent(lastCheck, loc[t].now)
          /\ Polled(t, fpsAt)
          /\ UNCHANGED mutex
       \/ /\ ~Recent(lastCheck, loc[t].now)
          /\ mutex' = t
          /\ Goto(t, "stat")
          /\ UNCHANGED loc
    /\ UNCHANGED <<now, world, published, logState, reports>>

\* resolve_limit, one system call after the other.
Resolved(t, result) ==
    /\ loc' = [loc EXCEPT ![t].result = result]
    /\ Goto(t, "publish")

\* What lstat says of the path, "regular" when the file is to be read.
StatResult == IF path = 0 THEN "missing"
              ELSE IF inode[path].form = "badsize" THEN "malformed"
              ELSE inode[path].form

Stat(t) ==
    /\ pc[t] = "stat"
    /\ \E seen \in {StatResult} \cup
            (IF "stat" \in Faults THEN {"unreadable"} ELSE {}) :
         /\ loc' = [loc EXCEPT
                      ![t].checkedAt = now,
                      ![t].expected = IF seen = "regular"
                                      THEN [ino |-> path,
                                            stamp |-> inode[path].stamp]
                                      ELSE @,
                      ![t].result = IF seen = "regular" THEN @
                                    ELSE Failure(seen)]
         /\ Goto(t, IF seen = "regular" THEN "open" ELSE "publish")
    /\ UNCHANGED <<now, world, published, logState, reports, mutex>>

\* Mutant: only the identity of the file is compared, not its times.
same_file_identity_only(expected, ino) == ino = expected.ino

\* The stamp stands for the owner, links, mode, size and times.
same_file(expected, ino) ==
    ino = expected.ino /\ inode[ino].stamp = expected.stamp

\* open and the first fstat: what was opened is what lstat described.
\* "changed" is the status UNREADABLE with the reason CHANGED_DURING_READ.
Open(t) ==
    /\ pc[t] = "open"
    /\ IF same_file(loc[t].expected, path)
       THEN Goto(t, "read_a") /\ UNCHANGED loc
       ELSE Resolved(t, Failure("changed"))
    /\ UNCHANGED <<now, world, published, logState, reports, mutex>>

ReadA(t) ==
    /\ pc[t] = "read_a"
    /\ loc' = [loc EXCEPT ![t].a = inode[loc[t].expected.ino].a]
    /\ Goto(t, "read_b")
    /\ UNCHANGED <<now, world, published, logState, reports, mutex>>

ReadB(t) ==
    /\ pc[t] = "read_b"
    /\ loc' = [loc EXCEPT ![t].b = inode[loc[t].expected.ino].b]
    /\ Goto(t, "verify")
    /\ UNCHANGED <<now, world, published, logState, reports, mutex>>

\* The second fstat, close and parse_limit.
Verify(t) ==
    /\ pc[t] = "verify"
    /\ IF same_file(loc[t].expected, loc[t].expected.ino)
       THEN Resolved(t, Parse(loc[t].a, loc[t].b))
       ELSE Resolved(t, Failure("changed"))
    /\ UNCHANGED <<now, world, published, logState, reports, mutex>>

\* Any of the calls fails, or the buffer cannot grow.
IoError(t) ==
    /\ pc[t] \in {"open", "read_a", "read_b", "verify"} \cap Faults
    /\ Resolved(t, Failure("unreadable"))
    /\ UNCHANGED <<now, world, published, logState, reports, mutex>>

same_effective(left, right) ==
    left.status = right.status /\ left.fps = right.fps
        /\ left.quota = right.quota

\* Mutant: the time of the check is published first.
Publish_check_first(t) ==
    /\ pc[t] = "publish"
    /\ LET r == loc[t].result
           rev == IF revision = 0 \/ ~same_effective(effective, r)
                  THEN revision + 1 ELSE revision IN
         /\ loc' = [loc EXCEPT ![t] =
                        [Idle EXCEPT !.now = loc[t].now, !.result = r,
                                     !.logging = loc[t].logging,
                                     !.checkedAt = loc[t].checkedAt,
                                     !.rev = IF reporting THEN rev ELSE 0]]
         /\ effective' = IF reporting
                         THEN [status |-> r.status, fps |-> r.fps,
                               quota |-> r.quota, rev |-> rev]
                         ELSE effective
    /\ lastCheck' = loc[t].now
    /\ Goto(t, "publish_fps")
    /\ UNCHANGED <<now, world, fps, quota, revision, fpsAt, quotaAt,
                   logState, reports, mutex>>

\* The rest of refresh_limit.  Readers without the mutex see each store.
Publish(t) ==
    /\ pc[t] = "publish"
    /\ LET r == loc[t].result
           rev == IF revision = 0 \/ ~same_effective(effective, r)
                  THEN revision + 1 ELSE revision IN
         /\ loc' = [loc EXCEPT ![t] =
                        [Idle EXCEPT !.now = loc[t].now, !.result = r,
                                     !.logging = loc[t].logging,
                                     !.checkedAt = loc[t].checkedAt,
                                     !.rev = IF reporting THEN rev ELSE 0]]
         /\ effective' = IF reporting
                         THEN [status |-> r.status, fps |-> r.fps,
                               quota |-> r.quota, rev |-> rev]
                         ELSE effective
    /\ Goto(t, "publish_fps")
    /\ UNCHANGED <<now, world, lastCheck, fps, quota, revision, fpsAt, quotaAt,
                   logState, reports, mutex>>

PublishFps(t) ==
    /\ pc[t] = "publish_fps"
    /\ fps' = loc[t].result.fps
    /\ fpsAt' = loc[t].checkedAt
    /\ Goto(t, "publish_quota")
    /\ UNCHANGED <<now, world, lastCheck, quota, revision, effective, quotaAt,
                   logState, reports, mutex, loc>>

\* Mutant: the quota is left alone when the file cannot be used.
PublishQuota_only_valid(t) ==
    /\ pc[t] = "publish_quota"
    /\ quota' = IF loc[t].result.status = "valid"
                THEN loc[t].result.quota ELSE quota
    /\ quotaAt' = loc[t].checkedAt
    /\ Goto(t, "publish_revision")
    /\ UNCHANGED <<now, world, lastCheck, fps, revision, effective, fpsAt,
                   logState, reports, mutex, loc>>

PublishQuota(t) ==
    /\ pc[t] = "publish_quota"
    /\ quota' = loc[t].result.quota
    /\ quotaAt' = loc[t].checkedAt
    /\ Goto(t, "publish_revision")
    /\ UNCHANGED <<now, world, lastCheck, fps, revision, effective, fpsAt,
                   logState, reports, mutex, loc>>

PublishRevision(t) ==
    /\ pc[t] = "publish_revision"
    /\ revision' = IF reporting THEN loc[t].rev ELSE revision
    /\ Goto(t, "publish_check")
    /\ UNCHANGED <<now, world, lastCheck, fps, quota, effective, fpsAt,
                   quotaAt, logState, reports, mutex, loc>>

PublishCheck(t) ==
    /\ pc[t] = "publish_check"
    /\ lastCheck' = loc[t].now
    /\ mutex' = Nobody
    /\ Polled(t, loc[t].checkedAt)
    /\ UNCHANGED <<now, world, fps, quota, revision, effective, fpsAt, quotaAt,
                   logState, reports>>
----------------------------------------------------------------------------
\* report_if_due, only in a thread that saw the log active; which slot is
\* the thread's matters only from here on.
Due(t) ==
    /\ pc[t] = "due"
    /\ IF revision # 0
       THEN /\ \E b \in Backends :
                 loc' = [loc EXCEPT ![t].rev = revision, ![t].backend = b]
            /\ Goto(t, "compare")
       ELSE Goto(t, "quota") /\ UNCHANGED loc
    /\ UNCHANGED <<now, world, published, logState, reports, mutex>>

Compare(t) ==
    /\ pc[t] = "compare"
    /\ loc' = [loc EXCEPT ![t].known = reported[loc[t].backend]]
    /\ Goto(t, IF loc[t].rev = reported[loc[t].backend] THEN "quota"
               ELSE "reporter")
    /\ UNCHANGED <<now, world, published, logState, reports, mutex>>

\* Mutant: the slot is not read again under the reporter's mutex.
ReportLock_trusts_first_read(t) ==
    /\ pc[t] = "reporter" /\ rmutex = Nobody
    /\ rmutex' = t
    /\ Goto(t, "snapshot")
    /\ UNCHANGED <<now, world, published, logState, reported, written,
                   mutex, loc>>

ReportLock(t) ==
    /\ pc[t] = "reporter" /\ rmutex = Nobody
    /\ rmutex' = t
    /\ loc' = [loc EXCEPT ![t].known = reported[loc[t].backend]]
    /\ Goto(t, "snapshot")
    /\ UNCHANGED <<now, world, published, logState, reported, written,
                   mutex>>

\* frame_pacer_limit_snapshot takes the limit's mutex inside the reporter's.
Snapshot(t) ==
    /\ pc[t] = "snapshot" /\ mutex = Nobody
    /\ IF effective.rev # 0 /\ effective.rev = revision
            /\ effective.rev # loc[t].known
       THEN /\ loc' = [loc EXCEPT ![t].snap = effective]
            /\ Goto(t, "report")
            /\ UNCHANGED rmutex
       ELSE /\ Goto(t, "quota")
            /\ rmutex' = Nobody
            /\ UNCHANGED loc
    /\ UNCHANGED <<now, world, published, logState, reported, written,
                   mutex>>

Report(t) ==
    /\ pc[t] = "report"
    /\ LET b == loc[t].backend IN
         /\ written' = [written EXCEPT ![b] = Append(@, loc[t].snap)]
         /\ reported' = [reported EXCEPT ![b] = loc[t].snap.rev]
    /\ rmutex' = Nobody
    /\ Goto(t, "quota")
    /\ UNCHANGED <<now, world, published, logState, mutex, loc>>

\* frame_pacer_limit_thread_cpu_quota, after the poll.
LoadQuota(t) ==
    /\ pc[t] = "quota"
    /\ loc' = [loc EXCEPT ![t] = [Idle EXCEPT !.now = loc[t].now,
                                              !.fpsAt = loc[t].fpsAt,
                                              !.quotaAt = quotaAt]]
    /\ Goto(t, "done")
    /\ UNCHANGED <<now, world, published, logState, reports, mutex>>

Return(t) ==
    /\ pc[t] = "done"
    /\ loc' = [loc EXCEPT ![t] = Idle]
    /\ Goto(t, "idle")
    /\ UNCHANGED <<now, world, published, logState, reports, mutex>>

\* init_presentation_log, once: set_reporting_enabled forgets the revision
\* and makes the next poll check the file again.
SetReporting ==
    /\ ~logInit /\ mutex = Nobody
    /\ logInit' = TRUE
    /\ reporting' = LogEnabled
    /\ revision' = 0
    /\ lastCheck' = 0
    /\ UNCHANGED <<now, world, fps, quota, effective, fpsAt, quotaAt,
                   logActive, reports, mutex, pc, loc>>

\* The log opens: then, or before it when a failure was logged.
ActivateLog ==
    /\ LogEnabled /\ ~logActive
    /\ logActive' = TRUE
    /\ UNCHANGED <<now, world, published, reporting, logInit, reports,
                   mutex, pc, loc>>

Thread(t) ==
    \/ Begin(t) \/ Check(t) \/ Load(t) \/ Refresh(t) \/ Stat(t) \/ Open(t)
    \/ ReadA(t) \/ ReadB(t) \/ Verify(t) \/ IoError(t) \/ Publish(t)
    \/ PublishFps(t) \/ PublishQuota(t) \/ PublishRevision(t)
    \/ PublishCheck(t) \/ Due(t) \/ Compare(t) \/ ReportLock(t)
    \/ Snapshot(t) \/ Report(t) \/ LoadQuota(t) \/ Return(t)

Next == \/ Tick \/ Write \/ Chmod \/ Remove \/ Replace
        \/ SetReporting \/ ActivateLog
        \/ \E t \in Threads : Thread(t)

Spec == Init /\ [][Next]_vars
----------------------------------------------------------------------------
\* pacer_limit.c:793-942, docs/technical-details.md:42-45 (partial
\* replacement is rejected).  What is parsed is one state the file really
\* had, regular, owned and private, however the user edits it meanwhile:
\* never one half of one edit and one half of another.
NoTornConfig ==
    \A t \in Threads :
        LET l == loc[t] IN
        pc[t] = "publish" /\ l.result.status \in {"valid", "malformed"}
            /\ l.expected.ino # 0
        => <<l.expected.ino,
             [form |-> "regular", a |-> l.a, b |-> l.b,
              stamp |-> l.expected.stamp]>> \in versions

\* pacer_limit.c:983-994 and 1009-1014.  A poll never hands out settings
\* read from the file more than one poll interval before the call, and
\* neither is the quota read after it: the stores are ordered so that a
\* reader without the mutex that sees the time of a check also sees what
\* that check found.
Fresh ==
    \A t \in Threads :
        /\ pc[t] \in {"due", "compare", "reporter", "snapshot", "report",
                       "quota", "done"} => loc[t].now - loc[t].fpsAt < Poll
        /\ pc[t] = "done" => loc[t].now - loc[t].quotaAt < Poll

\* pacer_limit.c:976-990, docs/technical-details.md:44-48.  Between two
\* refreshes the snapshot that reports show is what is enforced, and a file
\* that cannot be used enforces nothing.
ReportedIsEnforced ==
    mutex = Nobody /\ revision # 0 =>
        /\ effective.rev = revision
        /\ effective.fps = fps /\ effective.quota = quota
        /\ effective.status # "valid" => fps = 0 /\ quota = 0

\* effective_config_report.c:233-256, docs/technical-details.md:50-52.  At
\* most one report per revision and backend, whichever threads race for it,
\* and never an older revision after a newer one.
OneReportPerRevision ==
    \A b \in Backends : \A j, k \in DOMAIN written[b] :
        j < k => written[b][j].rev < written[b][k].rev

\* pacer_limit.c:976-982, docs/technical-details.md:47-50.  A revision names
\* one configuration: two backends that report it show the same one.
RevisionNamesConfig ==
    \A b, c \in Backends :
        \A j \in DOMAIN written[b] : \A k \in DOMAIN written[c] :
            written[b][j].rev = written[c][k].rev =>
                written[b][j] = written[c][k]

\* effective_config_report.c:233-256, pacer_limit.c:976-982: each backend
\* reports a revision once and in order, whichever threads race for it, and
\* backends that report the same revision show the same settings.
ReportsFollowRevisions == OneReportPerRevision /\ RevisionNamesConfig
=============================================================================
