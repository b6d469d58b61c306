--------------------------- MODULE ThreadCpuQuota ---------------------------
(***************************************************************************)
(* Thread CPU control with a writable cgroup file system                   *)
(* (src/src/thread_cpu_quota.c): the worker gives every thread of the game *)
(* a child cgroup of its own while the game starts and ends threads.  A    *)
(* new thread starts in the cgroup of the thread that created it, and a    *)
(* cgroup with a thread or a child in it cannot be removed.                *)
(***************************************************************************)
EXTENDS Integers, FiniteSets

CONSTANTS
    Tids,         \* thread ids; none is used twice
    Main,         \* the main thread, which outlives the worker
    Percents,     \* what publish may be called with
    MaxPercent,   \* 100
    Scope,        \* the delegated scope, where uncontrolled threads are
    MaxChanges,   \* bound: changes of the configured quota
    MaxChurn,     \* bound: threads started and ended
    MaxFaults     \* bound: cgroup operations that fail

\* What the constants have to satisfy.
Parameters ==
    /\ Main \in Tids /\ Scope \notin Tids /\ Percents \subseteq Nat
    /\ MaxPercent \in Nat /\ MaxChanges \in Nat
    /\ MaxChurn \in Nat /\ MaxFaults \in Nat

VARIABLES
    requested,    \* q->requested; 0 when not q->requested_enabled
    confirmed,    \* q->confirmed
    stop,         \* q->stop
    owner,        \* q->owner
    tids,         \* q->tids
    pc, active, wanted,     \* worker()'s locals
    found,        \* what collect() returned
    todo,         \* the entries the current loop has not reached yet
    managed, verified, incomplete,        \* reconcile()'s locals
    alive, used,  \* the game's threads, now and ever
    place,        \* the cgroup of each thread
    root,         \* the threaded root exists
    children,     \* its child cgroups t-<tid>
    cpuMax,       \* their cpu.max; 0 is unlimited
    changes, churn, faults,
    passed        \* history: the threads the last finished pass had found

request == <<requested, confirmed, stop>>
local == <<active, wanted, found, todo, managed, verified, incomplete>>
game == <<alive, used>>
cgroups == <<place, root, children, cpuMax>>
bounds == <<changes, churn, faults>>
vars == <<request, owner, tids, pc, local, game, cgroups, bounds, passed>>

Quotas == {p \in Percents : p \in 1..MaxPercent}

\* The request publish records: anything out of range is "off".
Request(percent) == IF percent \in Quotas THEN percent ELSE 0

Enabled == requested # 0

Init ==
    /\ requested = 0 /\ confirmed = FALSE /\ stop = FALSE
    /\ owner = FALSE /\ tids = {}
    /\ pc = "wait" /\ active = FALSE /\ wanted = 0
    /\ found = {} /\ todo = {} /\ managed = {} /\ verified = {}
    /\ incomplete = FALSE
    /\ alive \in {S \in SUBSET Tids : Main \in S} /\ used = alive
    /\ place = [t \in Tids |-> Scope]
    /\ root = FALSE /\ children = {} /\ cpuMax = [t \in Tids |-> 0]
    /\ changes = 0 /\ churn = 0 /\ faults = 0
    /\ passed = {}
----------------------------------------------------------------------------
\* The game.
Start == \E p \in alive, c \in Tids \ used :
    /\ churn < MaxChurn
    /\ alive' = alive \cup {c} /\ used' = used \cup {c}
    /\ place' = [place EXCEPT ![c] = place[p]]
    /\ churn' = churn + 1
    /\ UNCHANGED <<request, owner, tids, pc, local, root, children, cpuMax,
                   changes, faults, passed>>

End == \E t \in alive \ {Main} :
    /\ churn < MaxChurn
    /\ alive' = alive \ {t} /\ used' = used
    /\ churn' = churn + 1
    /\ UNCHANGED <<request, owner, tids, pc, local, cgroups, changes, faults,
                   passed>>

\* frame_pacer_thread_cpu_quota_publish with another request.
Publish ==
    /\ ~stop /\ changes < MaxChanges
    /\ changes' = changes + 1
    /\ \E p \in Percents \cup {0} :
         requested' = Request(p) /\ requested' # requested
    /\ confirmed' = FALSE
    /\ UNCHANGED <<stop, owner, tids, pc, local, game, cgroups, churn, faults,
                   passed>>

\* frame_pacer_thread_cpu_quota_destroy, up to the join.
Destroy ==
    /\ ~stop
    /\ stop' = TRUE /\ confirmed' = FALSE
    /\ UNCHANGED <<requested, owner, tids, pc, local, game, cgroups, bounds,
                   passed>>
----------------------------------------------------------------------------
Goto(label) == pc' = label

Fault == faults < MaxFaults /\ faults' = faults + 1

Occupied(c) == \E t \in alive : place[t] = c

\* rmdir of a set of children: the ones with a thread in them stay.
Rmdir(S) == children' = {c \in children : c \in S => Occupied(c)}

\* The head of the worker's loop, under the mutex.
Turn ==
    /\ pc = "wait" /\ ~stop
    /\ Enabled \/ active
    /\ wanted' = requested
    /\ Goto(IF ~Enabled THEN "cleanup"
            ELSE IF active THEN "collect" ELSE "activate")
    /\ UNCHANGED <<request, owner, tids, active, found, todo, managed,
                   verified, incomplete, game, cgroups, bounds, passed>>

Stop ==
    /\ pc = "wait" /\ stop
    /\ Goto(IF active \/ owner THEN "cleanup" ELSE "done")
    /\ UNCHANGED <<request, owner, tids, local, game, cgroups, bounds, passed>>

\* activate(): the root must not exist yet; a step that fails is undone.
Activate ==
    /\ pc = "activate"
    /\ \/ /\ ~root
          /\ root' = TRUE /\ owner' = TRUE /\ active' = TRUE
          /\ Goto("collect")
          /\ UNCHANGED <<confirmed, faults>>
       \/ /\ \/ root /\ UNCHANGED faults
             \/ Fault
          /\ confirmed' = FALSE
          /\ Goto("wait")
          /\ UNCHANGED <<root, owner, active>>
    /\ UNCHANGED <<requested, stop, tids, wanted, found, todo, managed,
                   verified, incomplete, game, place, children, cpuMax,
                   changes, churn, passed>>

\* reconcile(): collect the threads...
Collect ==
    /\ pc = "collect"
    /\ found' = alive /\ todo' = alive
    /\ managed' = {} /\ verified' = {} /\ incomplete' = FALSE
    /\ Goto("manage")
    /\ UNCHANGED <<request, owner, tids, active, wanted, game, cgroups, bounds,
                   passed>>

\* ... give each a child cgroup and the ceiling.  The child of a thread that
\* has ended meanwhile is made all the same; any of the operations may fail.
NewChild(t) ==
    /\ children' = children \cup {t}
    /\ cpuMax' = IF t \in children THEN cpuMax ELSE [cpuMax EXCEPT ![t] = 0]

Manage == \E t \in todo :
    /\ pc = "manage"
    /\ todo' = todo \ {t}
    /\ \/ /\ t \in alive
          /\ children' = children \cup {t}
          /\ place' = [place EXCEPT ![t] = t]
          /\ cpuMax' = [cpuMax EXCEPT ![t] = wanted]
          /\ managed' = managed \cup {t}
          /\ UNCHANGED <<incomplete, faults>>
       \/ /\ t \in alive /\ Fault
          /\ \/ UNCHANGED <<children, cpuMax, place>>
             \/ NewChild(t) /\ place' \in {place, [place EXCEPT ![t] = t]}
          /\ incomplete' = TRUE
          /\ UNCHANGED managed
       \/ /\ t \notin alive
          /\ NewChild(t)
          /\ UNCHANGED <<place, managed, incomplete, faults>>
    /\ UNCHANGED <<request, owner, tids, pc, active, wanted, found, verified,
                   game, root, changes, churn, passed>>

\* Known children whose thread was not managed again are removed.
Prune ==
    /\ pc = "manage" /\ todo = {}
    /\ IF managed = {}
       THEN Goto("settle") /\ UNCHANGED <<children, todo>>
       ELSE Rmdir(tids \ managed) /\ todo' = managed /\ Goto("verify")
    /\ UNCHANGED <<request, owner, tids, active, wanted, found, managed,
                   verified, incomplete, game, place, root, cpuMax, bounds,
                   passed>>

\* Read back where each thread is and its ceiling.
Verify == \E t \in todo :
    /\ pc = "verify"
    /\ todo' = todo \ {t}
    /\ LET right == place[t] = t /\ cpuMax[t] = wanted IN
         /\ verified' = IF t \in alive /\ right THEN verified \cup {t}
                        ELSE verified
         /\ incomplete' = (incomplete \/ (t \in alive /\ ~right))
    /\ UNCHANGED <<request, owner, tids, pc, active, wanted, found, managed,
                   game, cgroups, bounds, passed>>

Verified ==
    /\ pc = "verify" /\ todo = {}
    /\ tids' = IF verified = {} THEN tids ELSE verified
    /\ Goto("settle")
    /\ UNCHANGED <<request, owner, local, game, cgroups, bounds, passed>>

\* Mutant: a thread that could not be managed does not count.
Settle_ignores_incomplete ==
    /\ pc = "settle"
    /\ confirmed' = (verified # {} /\ Enabled /\ requested = wanted)
    /\ passed' = found
    /\ Goto("wait")
    /\ UNCHANGED <<requested, stop, owner, tids, local, game, cgroups, bounds>>

\* The result counts only for the request it was made for.
Settle ==
    /\ pc = "settle"
    /\ confirmed' = (/\ verified # {} /\ ~incomplete /\ verified = found
                     /\ Enabled /\ requested = wanted)
    /\ passed' = found
    /\ Goto("wait")
    /\ UNCHANGED <<requested, stop, owner, tids, local, game, cgroups, bounds>>

\* reconcile() gives up before it starts: too many threads, or none read.
Fatal ==
    /\ pc = "collect" /\ Fault
    /\ confirmed' = FALSE
    /\ Goto("cleanup")
    /\ UNCHANGED <<requested, stop, owner, tids, local, game, cgroups, changes,
                   churn, passed>>

\* cleanup(): collect again...
Cleanup ==
    /\ pc = "cleanup"
    /\ todo' = alive \cap tids
    /\ Goto("move")
    /\ UNCHANGED <<request, owner, tids, active, wanted, found, managed,
                   verified, incomplete, game, cgroups, bounds, passed>>

\* Mutant: the threads stay where they are.
Move_nothing == \E t \in todo :
    /\ pc = "move"
    /\ todo' = todo \ {t}
    /\ UNCHANGED <<request, owner, tids, pc, active, wanted, found, managed,
                   verified, incomplete, game, cgroups, bounds, passed>>

\* ... give the known threads back to the scope...
Move == \E t \in todo :
    /\ pc = "move"
    /\ todo' = todo \ {t}
    /\ place' = IF t \in alive /\ place[t] = t
                THEN [place EXCEPT ![t] = Scope] ELSE place
    /\ UNCHANGED <<request, owner, tids, pc, active, wanted, found, managed,
                   verified, incomplete, game, root, children, cpuMax, bounds,
                   passed>>

\* ... and remove the known children and the root, as far as they are empty.
Remove ==
    /\ pc = "move" /\ todo = {}
    /\ IF owner
       THEN /\ Rmdir(tids)
            /\ root' = (root /\ children' # {})
       ELSE UNCHANGED <<children, root>>
    /\ owner' = FALSE /\ tids' = {} /\ active' = FALSE
    /\ Goto("wait")
    /\ UNCHANGED <<request, wanted, found, todo, managed, verified, incomplete,
                   game, place, cpuMax, bounds, passed>>

Worker == Turn \/ Stop \/ Activate \/ Collect \/ Manage \/ Prune \/ Verify
              \/ Verified \/ Settle \/ Fatal \/ Cleanup \/ Move \/ Remove

Next == Start \/ End \/ Publish \/ Destroy \/ Worker

Spec == Init /\ [][Next]_vars
----------------------------------------------------------------------------
\* thread_cpu_quota.c:578-664 and 716-735.  While the quota is confirmed, each
\* thread the confirming pass found and that still runs sits alone among
\* them in its own cgroup with the requested ceiling, through later passes,
\* changed requests, ended threads and failed operations.
ConfirmedCovers ==
    confirmed /\ ~stop =>
        \A t \in passed \cap alive : place[t] = t /\ cpuMax[t] = requested

\* thread_cpu_quota.c:450-500.  If no thread came or went and nothing failed,
\* switching the option off, or the end of the worker, leaves no thread
\* limited and no cgroup behind.
QuietCleanup ==
    churn = 0 /\ faults = 0 /\ pc \in {"wait", "done"} /\ ~active =>
        ~root /\ children = {} /\ \A t \in alive : place[t] = Scope

\* docs/technical-details.md:86-87: owned cgroups are removed when the option
\* is disabled, whatever threads the game starts and ends.
DisableRemoves == pc = "wait" /\ ~active /\ ~stop /\ faults = 0 => ~root
=============================================================================
