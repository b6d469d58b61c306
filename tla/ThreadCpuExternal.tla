-------------------------- MODULE ThreadCpuExternal --------------------------
(***************************************************************************)
(* Thread CPU control through the native controller process: the worker of *)
(* src/src/thread_cpu_quota.c with q->external set, the state and status   *)
(* files of thread_cpu_external.c, and the loop of                         *)
(* thread_cpu_quota_controller.c.  The two processes share nothing but the *)
(* two files; both poll them every 250 ms.                                 *)
(*                                                                         *)
(* A file holds None (it does not exist), 0 ("off") or a quota.  `cap' is  *)
(* the set of quotas in force in the controller's cgroups: a failed apply  *)
(* leaves some threads with the new one.                                   *)
(***************************************************************************)
EXTENDS Integers

CONSTANTS
    Percents,     \* what publish may be called with
    MaxPercent,   \* 100
    None,         \* the file does not exist
    MaxChanges,   \* bound: changes of the configured quota
    MaxFaults     \* bound: failed writes, spawns and applies, and crashes

ASSUME ExternalAssumption ==
    /\ Percents \subseteq Nat /\ MaxPercent \in Nat /\ None \notin Nat
    /\ MaxChanges \in Nat /\ MaxFaults \in Nat

VARIABLES
    requested,    \* q->requested; q->requested_enabled is requested # 0
    confirmed,    \* q->confirmed
    stop,         \* q->stop
    pc, active, wanted, last, answer,     \* the worker's locals
    external,     \* q->external
    child,        \* q->external_pid # 0
    state,        \* the state file: what the worker asks for
    status,       \* the status file: what the controller confirmed
    cpc, cwant, cactive, cconfirmed,      \* the controller's locals
    cap,          \* the quotas in force
    changes, faults,
    seen          \* history: the status the worker read last

workerVars == <<pc, active, wanted, last, answer, external, child, seen>>
controlVars == <<cpc, cwant, cactive, cconfirmed, cap>>
vars == <<requested, confirmed, stop, workerVars, state, status, controlVars,
          changes, faults>>

Quotas == {p \in Percents : p \in 1..MaxPercent}

\* Mutant: the percentage is taken as it comes.
Request_unchecked(percent) == percent

\* The request publish records: anything out of range is "off".
Request(percent) == IF percent \in Quotas THEN percent ELSE 0

Enabled == requested # 0

Init ==
    /\ requested = 0 /\ confirmed = FALSE /\ stop = FALSE
    /\ pc = "wait" /\ active = FALSE /\ wanted = 0 /\ last = 0
    /\ answer = FALSE /\ external = FALSE /\ child = FALSE
    /\ state = None /\ status = None
    /\ cpc = "none" /\ cwant = 0 /\ cactive = FALSE /\ cconfirmed = FALSE
    /\ cap = {}
    /\ changes = 0 /\ faults = 0 /\ seen = None

Fault == faults < MaxFaults /\ faults' = faults + 1
----------------------------------------------------------------------------
\* frame_pacer_thread_cpu_quota_publish, called for every frame: only a
\* different request matters.
Publish ==
    /\ ~stop /\ changes < MaxChanges
    /\ changes' = changes + 1
    /\ \E p \in Percents \cup {0} :
         requested' = Request(p) /\ requested' # requested
    /\ confirmed' = FALSE
    /\ UNCHANGED <<stop, workerVars, state, status, controlVars, faults>>

\* frame_pacer_thread_cpu_quota_destroy, up to the join.
Destroy ==
    /\ ~stop
    /\ stop' = TRUE
    /\ confirmed' = FALSE
    /\ UNCHANGED <<requested, workerVars, state, status, controlVars, changes,
                   faults>>
----------------------------------------------------------------------------
\* The worker: the head of its loop, under the mutex.
Turn ==
    /\ pc = "wait" /\ ~stop
    /\ Enabled \/ active
    /\ wanted' = requested
    /\ pc' = IF ~Enabled THEN "cleanup"
             ELSE IF active THEN "write" ELSE "activate"
    /\ UNCHANGED <<requested, confirmed, stop, active, last, answer, external,
                   child, seen, state, status, controlVars, changes, faults>>

\* Mutant: what an unconfirmed controller was asked for is forgotten.
Stop_forgets_external ==
    /\ pc = "wait" /\ stop
    /\ pc' = IF active THEN "cleanup" ELSE "done"
    /\ UNCHANGED <<requested, confirmed, stop, active, wanted, last, answer,
                   external, child, seen, state, status, controlVars, changes,
                   faults>>

\* The loop is left: clean up whatever may be in place.
Stop ==
    /\ pc = "wait" /\ stop
    /\ pc' = IF active \/ external THEN "cleanup" ELSE "done"
    /\ UNCHANGED <<requested, confirmed, stop, active, wanted, last, answer,
                   external, child, seen, state, status, controlVars, changes,
                   faults>>

\* cleanup(): ask for "off"; the result of the write is ignored.  A start
\* that failed without a child may have left no path to write to.
CleanupWrite ==
    /\ pc = "cleanup"
    /\ \/ state' = 0 /\ UNCHANGED faults
       \/ ~child /\ UNCHANGED <<state, faults>>
       \/ Fault /\ UNCHANGED state
    /\ pc' = "wait_off"
    /\ UNCHANGED <<requested, confirmed, stop, active, wanted, last, answer,
                   external, child, seen, status, controlVars, changes>>

\* A child that has exited is forgotten, with its files.
Reap == IF child /\ cpc = "exited"
        THEN child' = FALSE /\ state' = None /\ status' = None
        ELSE UNCHANGED <<child, state, status>>

\* wait_off gives up after a second, so the worker goes on with or without
\* the answer; then reap, without waiting.
CleanupEnd ==
    /\ pc = "wait_off"
    /\ Reap
    /\ external' = FALSE /\ active' = FALSE
    /\ pc' = "wait"
    /\ UNCHANGED <<requested, confirmed, stop, wanted, last, answer, seen,
                   controlVars, changes, faults>>

\* Mutant: a live child is not asked again.
Activate_keeps_request ==
    /\ pc = "activate"
    /\ IF child /\ cpc # "exited"
       THEN /\ external' = TRUE /\ active' = TRUE /\ pc' = "write"
            /\ UNCHANGED <<child, cpc, status, state, faults>>
       ELSE /\ status' = IF child THEN None ELSE status
            /\ state' = wanted /\ child' = TRUE /\ cpc' = "boot"
            /\ external' = TRUE /\ active' = TRUE /\ pc' = "write"
            /\ UNCHANGED faults
    /\ UNCHANGED <<requested, confirmed, stop, wanted, last, answer, seen,
                   cwant, cactive, cconfirmed, cap, changes>>

\* activate() with a controller of its own: a live child is asked again, an
\* exited one is replaced.  A failed attempt leaves no request behind, except
\* that a failed write leaves what was asked of a live child.
Activate ==
    /\ pc = "activate"
    /\ IF child /\ cpc # "exited"
       THEN /\ external' = TRUE
            /\ \/ /\ state' = wanted /\ active' = TRUE /\ pc' = "write"
                  /\ UNCHANGED faults
               \/ Fault /\ pc' = "inactive" /\ UNCHANGED <<state, active>>
            /\ UNCHANGED <<child, cpc, status>>
       ELSE /\ status' = IF child THEN None ELSE status
            /\ \/ /\ state' = wanted /\ child' = TRUE /\ cpc' = "boot"
                  /\ external' = TRUE /\ active' = TRUE /\ pc' = "write"
                  /\ UNCHANGED faults
               \/ /\ Fault
                  /\ state' \in {None, IF child THEN None ELSE state}
                  /\ child' = FALSE /\ pc' = "inactive"
                  /\ UNCHANGED <<cpc, external, active>>
    /\ UNCHANGED <<requested, confirmed, stop, wanted, last, answer, seen,
                   cwant, cactive, cconfirmed, cap, changes>>

Inactive ==
    /\ pc = "inactive"
    /\ confirmed' = FALSE
    /\ pc' = "wait"
    /\ UNCHANGED <<requested, stop, active, wanted, last, answer, external,
                   child, seen, state, status, controlVars, changes, faults>>

\* A new quota is written once; a failed write is tried again next time.
Write ==
    /\ pc = "write"
    /\ \/ last = wanted /\ UNCHANGED <<state, last, confirmed, faults>>
       \/ /\ last # wanted
          /\ state' = wanted /\ last' = wanted
          /\ UNCHANGED <<confirmed, faults>>
       \/ /\ last # wanted /\ Fault
          /\ confirmed' = FALSE
          /\ UNCHANGED <<state, last>>
    /\ pc' = "confirm"
    /\ UNCHANGED <<requested, stop, active, wanted, answer, external, child,
                   seen, status, controlVars, changes>>

\* The status file is read without the mutex...
Confirm ==
    /\ pc = "confirm"
    /\ answer' = (status = wanted)
    /\ seen' = status
    /\ pc' = "settle"
    /\ UNCHANGED <<requested, confirmed, stop, active, wanted, last, external,
                   child, state, status, controlVars, changes, faults>>

\* Mutant: the request is not compared again.
Settle_trusts_wanted ==
    /\ pc = "settle"
    /\ confirmed' = (answer /\ Enabled)
    /\ active' = answer
    /\ pc' = "wait"
    /\ UNCHANGED <<requested, stop, wanted, last, answer, external, child,
                   seen, state, status, controlVars, changes, faults>>

\* ... and counts only for the request it was read for.
Settle ==
    /\ pc = "settle"
    /\ confirmed' = (answer /\ Enabled /\ requested = wanted)
    /\ active' = answer
    /\ pc' = "wait"
    /\ UNCHANGED <<requested, stop, wanted, last, answer, external, child,
                   seen, state, status, controlVars, changes, faults>>

Worker == Turn \/ Stop \/ CleanupWrite \/ CleanupEnd \/ Activate \/ Inactive
              \/ Write \/ Confirm \/ Settle
----------------------------------------------------------------------------
\* The controller: the scope and the lock, or a failure of either.
Boot ==
    /\ cpc = "boot"
    /\ \/ cpc' = "read" /\ UNCHANGED <<state, faults>>
       \/ Fault /\ cpc' = "exited" /\ state' \in {state, None}
    /\ cactive' = FALSE
    /\ UNCHANGED <<requested, confirmed, stop, workerVars, status, cwant,
                   cconfirmed, cap, changes>>

\* The head of its loop: a missing state file, or a signal, ends it.
Read ==
    /\ cpc = "read"
    /\ \/ /\ state # None
          /\ cwant' = state /\ cpc' = "apply"
          /\ UNCHANGED faults
       \/ /\ \/ state = None /\ UNCHANGED faults
             \/ Fault
          /\ cpc' = "exit" /\ UNCHANGED cwant
    /\ UNCHANGED <<requested, confirmed, stop, workerVars, state, status,
                   cactive, cconfirmed, cap, changes>>

\* remove_tree(), which may leave the cgroups where they are.
RemoveTree ==
    \/ cap' = (IF cactive THEN {} ELSE cap) /\ UNCHANGED faults
    \/ cactive /\ Fault /\ UNCHANGED cap

\* apply() or remove_tree().
Apply ==
    /\ cpc = "apply"
    /\ \/ /\ cwant # 0 /\ cap' = {cwant} /\ cconfirmed' = TRUE
          /\ UNCHANGED faults
       \/ /\ cwant # 0 /\ Fault
          /\ cap' \in {cap, cap \cup {cwant}, {cwant}} /\ cconfirmed' = FALSE
       \/ cwant = 0 /\ RemoveTree /\ cconfirmed' = FALSE
    /\ cactive' = (cwant # 0)
    /\ cpc' = "publish"
    /\ UNCHANGED <<requested, confirmed, stop, workerVars, state, status,
                   cwant, changes>>

\* An unconfirmed quota is published as "off" too; a failure is ignored.
PublishStatus ==
    /\ cpc = "publish"
    /\ \/ status' = (IF cconfirmed THEN cwant ELSE 0) /\ UNCHANGED faults
       \/ Fault /\ UNCHANGED status
    /\ cpc' = "read"
    /\ UNCHANGED <<requested, confirmed, stop, workerVars, state, cwant,
                   cactive, cconfirmed, cap, changes>>

ExitRemove ==
    /\ cpc = "exit"
    /\ RemoveTree
    /\ cpc' = "unlink_status"
    /\ UNCHANGED <<requested, confirmed, stop, workerVars, state, status,
                   cwant, cactive, cconfirmed, changes>>

ExitUnlink ==
    /\ \/ /\ cpc = "unlink_status" /\ status' = None /\ UNCHANGED state
          /\ cpc' = "unlink_state"
       \/ /\ cpc = "unlink_state" /\ state' = None /\ UNCHANGED status
          /\ cpc' = "exited"
    /\ UNCHANGED <<requested, confirmed, stop, workerVars, cwant, cactive,
                   cconfirmed, cap, changes, faults>>

Controller == Boot \/ Read \/ Apply \/ PublishStatus \/ ExitRemove
                  \/ ExitUnlink

\* The controller is killed: cgroups and files stay as they are.
Kill ==
    /\ cpc \notin {"none", "exited"} /\ Fault
    /\ cpc' = "exited"
    /\ UNCHANGED <<requested, confirmed, stop, workerVars, state, status,
                   cwant, cactive, cconfirmed, cap, changes>>

Next == Publish \/ Destroy \/ Worker \/ Controller \/ Kill

Spec == Init /\ [][Next]_vars

\* Both processes are scheduled; each loop turns every 250 ms.
FairSpec == Spec /\ WF_vars(Worker) /\ WF_vars(Controller)
----------------------------------------------------------------------------
Files == Quotas \cup {0, None}

RequestOK ==
    /\ requested \in Quotas \cup {0}
    /\ confirmed \in BOOLEAN /\ stop \in BOOLEAN

WorkerOK ==
    /\ pc \in {"wait", "cleanup", "wait_off", "activate", "inactive", "write",
               "confirm", "settle", "done"}
    /\ active \in BOOLEAN /\ answer \in BOOLEAN
    /\ wanted \in Quotas \cup {0} /\ last \in Quotas \cup {0}
    /\ external \in BOOLEAN /\ child \in BOOLEAN

FilesOK == state \in Files /\ status \in Files /\ seen \in Files

ControllerOK ==
    /\ cpc \in {"none", "boot", "read", "apply", "publish", "exit",
                "unlink_status", "unlink_state", "exited"}
    /\ cwant \in Quotas \cup {0}
    /\ cactive \in BOOLEAN /\ cconfirmed \in BOOLEAN
    /\ cap \subseteq Quotas

BoundsOK == changes \in 0..MaxChanges /\ faults \in 0..MaxFaults

TypeOK == RequestOK /\ WorkerOK /\ FilesOK /\ ControllerOK /\ BoundsOK

\* thread_cpu_quota.c:697-713 and 779-795.  A confirmation counts only for
\* the request it was read for: however publish interleaves with the
\* worker's unlocked read of the status file, the HUD never shows a quota as
\* confirmed that the controller had not confirmed when it was last asked.
\* (While a new answer waits for the mutex, the last one still stands.)
ConfirmedForRequest ==
    confirmed => Enabled /\ (pc # "settle" => seen = requested)

\* The strengthening: an answer that waits for the mutex is the status seen.
Answered == pc = "settle" /\ answer => seen = wanted

IInv == TypeOK /\ ConfirmedForRequest /\ Answered

\* thread_cpu_quota.c:741-742.  Once the worker has gone no request is left
\* behind: the controller is not asked to limit a game that nothing watches.
NoOrphanRequest == pc = "done" /\ faults = 0 => state \notin Quotas

\* thread_cpu_quota.c:741-742, docs/technical-details.md:86-87.  A backend
\* that unloads leaves no thread limited, whatever it was waiting for.
StopReleases == stop /\ faults = 0 ~> (pc = "done" /\ cap = {}) \/ faults > 0

\* thread_cpu_quota.c:665-746.  A request that stays is confirmed in the end,
\* through failed writes, spawns and applies and a killed controller.
RequestConfirmed ==
    \A q \in Quotas :
        requested = q ~> (confirmed /\ requested = q) \/ requested # q \/ stop

\* docs/technical-details.md:86-87: owned cgroups are removed when the option
\* is disabled.
DisableReleases == ~Enabled ~> cap = {} \/ Enabled

\* docs/technical-details.md:89-90: the limit is shown only once every thread
\* has been verified with the requested ceiling.
ConfirmedIsApplied == confirmed /\ ~stop => cap = {requested}
=============================================================================
