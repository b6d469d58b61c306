----------------------------- MODULE MCThreadCpu -----------------------------
(***************************************************************************)
(* Thread CPU control in both its modes, as one run over the disjoint      *)
(* union of their state graphs: with the external controller               *)
(* (ThreadCpuExternal) and with a writable cgroup file system              *)
(* (ThreadCpuQuota).  The variables of the mode that is not running keep   *)
(* their initial values, in which no step that fairness asks for is        *)
(* enabled.                                                                *)
(***************************************************************************)
EXTENDS ThreadCpuExternal

CONSTANTS Tids, Main, Scope, MaxChurn,
          DirectChanges, DirectFaults   \* its bounds MaxChanges, MaxFaults

VARIABLES
    mode,
    dRequested, dConfirmed, dStop, dPc, dActive, dWanted, dChanges, dFaults,
    owner, tids, found, todo, managed, verified, incomplete, alive, used,
    place, root, children, cpuMax, churn, passed

directVars ==
    <<dRequested, dConfirmed, dStop, dPc, dActive, dWanted, dChanges, dFaults,
      owner, tids, found, todo, managed, verified, incomplete, alive, used,
      place, root, children, cpuMax, churn, passed>>

Direct == INSTANCE ThreadCpuQuota
              WITH requested <- dRequested, confirmed <- dConfirmed,
                   stop <- dStop, pc <- dPc, active <- dActive,
                   wanted <- dWanted, changes <- dChanges, faults <- dFaults,
                   MaxChanges <- DirectChanges, MaxFaults <- DirectFaults

ASSUME DirectAssumption == Direct!Parameters

BothInit ==
    /\ Init /\ Direct!Init
    /\ \/ mode = "external" /\ alive = {Main}
       \/ mode = "direct"

BothNext ==
    /\ \/ mode = "external" /\ Next /\ UNCHANGED directVars
       \/ mode = "direct" /\ Direct!Next /\ UNCHANGED vars
    /\ UNCHANGED mode

BothSpec ==
    /\ BothInit /\ [][BothNext]_<<vars, directVars, mode>>
    /\ WF_vars(Worker) /\ WF_vars(Controller)
------------------------------------------------------------------------------
\* thread_cpu_quota.c:714-727 (see ThreadCpuQuota): what is shown as
\* confirmed covers every thread the last pass had found.
ConfirmedCovers == Direct!ConfirmedCovers

\* thread_cpu_quota.c:450-500 (see ThreadCpuQuota): after a cleanup with
\* nothing started, ended or failed meanwhile, nothing is left behind.
QuietCleanup == Direct!QuietCleanup
==============================================================================
