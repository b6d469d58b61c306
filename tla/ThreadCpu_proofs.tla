--------------------------- MODULE ThreadCpu_proofs ---------------------------
(***************************************************************************)
(* Proofs about thread CPU control: with the external controller           *)
(* (ThreadCpuExternal) for all sets of percentages and bounds, and with a  *)
(* writable cgroup file system (ThreadCpuQuota, the instance Direct) for   *)
(* all sets of threads besides.                                            *)
(***************************************************************************)
EXTENDS MCThreadCpu, TLAPS


\* Zero, the quotas and None are told apart.
LEMMA QuotaFacts == /\ Quotas \subseteq Nat /\ 0 \notin Quotas
                    /\ None \notin Nat /\ MaxChanges \in Nat /\ MaxFaults \in Nat
<1>1. Quotas \subseteq Nat
  BY ExternalAssumption DEF Quotas
<1>2. 0 \notin Quotas
  BY ExternalAssumption DEF Quotas
<1>3. None \notin Nat /\ MaxChanges \in Nat /\ MaxFaults \in Nat
  BY ExternalAssumption
<1> QED BY <1>1, <1>2, <1>3

LEMMA InitInv == Init => IInv
<1> SUFFICES ASSUME Init PROVE IInv
  OBVIOUS
<1>1. changes \in 0..MaxChanges /\ faults \in 0..MaxFaults
  BY QuotaFacts DEF Init
<1>2. TypeOK
  BY <1>1, Zenon DEF Init, TypeOK, RequestOK, WorkerOK, FilesOK, ControllerOK,
     BoundsOK, Files
<1>3. ConfirmedForRequest /\ Answered
  BY DEF Init, ConfirmedForRequest, Answered
<1> QED BY <1>2, <1>3 DEF IInv

\* What publish records is in range.
LEMMA RequestType == \A p : Request(p) \in Quotas \cup {0}
BY DEF Request

LEMMA StepType == TypeOK /\ [Next]_vars => TypeOK'
<1> SUFFICES ASSUME TypeOK, [Next]_vars PROVE TypeOK'
  OBVIOUS
<1>0. RequestOK /\ WorkerOK /\ FilesOK /\ ControllerOK /\ BoundsOK
  BY DEF TypeOK
<1>1. CASE Publish
  <2>1. RequestOK'
    BY <1>0, <1>1, RequestType DEF Publish, RequestOK
  <2>2. BoundsOK'
    BY <1>0, <1>1, QuotaFacts DEF Publish, BoundsOK
  <2>3. WorkerOK' /\ FilesOK' /\ ControllerOK'
    BY <1>0, <1>1
       DEF Publish, WorkerOK, FilesOK, ControllerOK, workerVars, controlVars
  <2> QED BY <2>1, <2>2, <2>3 DEF TypeOK
<1>2. CASE Destroy
  <2>1. RequestOK'
    BY <1>0, <1>2 DEF Destroy, RequestOK
  <2>2. WorkerOK' /\ FilesOK' /\ ControllerOK' /\ BoundsOK'
    BY <1>0, <1>2
       DEF Destroy, WorkerOK, FilesOK, ControllerOK, BoundsOK, workerVars, controlVars
  <2> QED BY <2>1, <2>2 DEF TypeOK
<1>3. CASE Turn
  <2>1. WorkerOK'
    BY <1>0, <1>3 DEF Turn, RequestOK, WorkerOK
  <2>2. RequestOK' /\ FilesOK' /\ ControllerOK' /\ BoundsOK'
    BY <1>0, <1>3
       DEF Turn, RequestOK, FilesOK, ControllerOK, BoundsOK, workerVars, controlVars
  <2> QED BY <2>1, <2>2 DEF TypeOK
<1>4. CASE Stop
  <2>1. WorkerOK'
    BY <1>0, <1>4 DEF Stop, RequestOK, WorkerOK
  <2>2. RequestOK' /\ FilesOK' /\ ControllerOK' /\ BoundsOK'
    BY <1>0, <1>4
       DEF Stop, RequestOK, FilesOK, ControllerOK, BoundsOK, workerVars, controlVars
  <2> QED BY <2>1, <2>2 DEF TypeOK
<1>5. CASE CleanupWrite
  <2>1. WorkerOK'
    BY <1>0, <1>5 DEF CleanupWrite, Fault, RequestOK, WorkerOK
  <2>2. FilesOK'
    BY <1>0, <1>5, QuotaFacts
       DEF CleanupWrite, Fault, WorkerOK, FilesOK, ControllerOK, Files, workerVars
  <2>3. BoundsOK'
    BY <1>0, <1>5, QuotaFacts DEF CleanupWrite, Fault, BoundsOK
  <2>4. RequestOK' /\ ControllerOK'
    BY <1>0, <1>5
       DEF CleanupWrite, Fault, RequestOK, ControllerOK, workerVars, controlVars
  <2> QED BY <2>1, <2>2, <2>3, <2>4 DEF TypeOK
<1>6. CASE CleanupEnd
  <2>1. WorkerOK'
    BY <1>0, <1>6 DEF CleanupEnd, Reap, RequestOK, WorkerOK
  <2>2. FilesOK'
    BY <1>0, <1>6, QuotaFacts
       DEF CleanupEnd, Reap, WorkerOK, FilesOK, ControllerOK, Files, workerVars
  <2>3. RequestOK' /\ ControllerOK' /\ BoundsOK'
    BY <1>0, <1>6
       DEF CleanupEnd, Reap, RequestOK, ControllerOK, BoundsOK, workerVars, controlVars
  <2> QED BY <2>1, <2>2, <2>3 DEF TypeOK
<1>7. CASE Activate
  <2>1. WorkerOK'
    BY <1>0, <1>7 DEF Activate, Fault, RequestOK, WorkerOK
  <2>2. FilesOK'
    BY <1>0, <1>7, QuotaFacts
       DEF Activate, Fault, WorkerOK, FilesOK, ControllerOK, Files, workerVars
  <2>3. ControllerOK'
    BY <1>0, <1>7, QuotaFacts DEF Activate, Fault, ControllerOK, FilesOK, Files
  <2>4. BoundsOK'
    BY <1>0, <1>7, QuotaFacts DEF Activate, Fault, BoundsOK
  <2>5. RequestOK'
    BY <1>0, <1>7 DEF Activate, Fault, RequestOK, workerVars, controlVars
  <2> QED BY <2>1, <2>2, <2>3, <2>4, <2>5 DEF TypeOK
<1>8. CASE Inactive
  <2>1. RequestOK'
    BY <1>0, <1>8 DEF Inactive, RequestOK
  <2>2. WorkerOK'
    BY <1>0, <1>8 DEF Inactive, RequestOK, WorkerOK
  <2>3. FilesOK' /\ ControllerOK' /\ BoundsOK'
    BY <1>0, <1>8
       DEF Inactive, FilesOK, ControllerOK, BoundsOK, workerVars, controlVars
  <2> QED BY <2>1, <2>2, <2>3 DEF TypeOK
<1>9. CASE Write
  <2>1. RequestOK'
    BY <1>0, <1>9 DEF Write, Fault, RequestOK
  <2>2. WorkerOK'
    BY <1>0, <1>9 DEF Write, Fault, RequestOK, WorkerOK
  <2>3. FilesOK'
    BY <1>0, <1>9, QuotaFacts
       DEF Write, Fault, WorkerOK, FilesOK, ControllerOK, Files, workerVars
  <2>4. BoundsOK'
    BY <1>0, <1>9, QuotaFacts DEF Write, Fault, BoundsOK
  <2>5. ControllerOK'
    BY <1>0, <1>9 DEF Write, Fault, ControllerOK, workerVars, controlVars
  <2> QED BY <2>1, <2>2, <2>3, <2>4, <2>5 DEF TypeOK
<1>10. CASE Confirm
  <2>1. WorkerOK'
    BY <1>0, <1>10 DEF Confirm, RequestOK, WorkerOK
  <2>2. FilesOK'
    BY <1>0, <1>10, QuotaFacts
       DEF Confirm, WorkerOK, FilesOK, ControllerOK, Files, workerVars
  <2>3. RequestOK' /\ ControllerOK' /\ BoundsOK'
    BY <1>0, <1>10
       DEF Confirm, RequestOK, ControllerOK, BoundsOK, workerVars, controlVars
  <2> QED BY <2>1, <2>2, <2>3 DEF TypeOK
<1>11. CASE Settle
  <2>1. RequestOK'
    BY <1>0, <1>11 DEF Settle, Enabled, RequestOK
  <2>2. WorkerOK'
    BY <1>0, <1>11 DEF Settle, Enabled, RequestOK, WorkerOK
  <2>3. FilesOK' /\ ControllerOK' /\ BoundsOK'
    BY <1>0, <1>11
       DEF Settle, Enabled, FilesOK, ControllerOK, BoundsOK, workerVars, controlVars
  <2> QED BY <2>1, <2>2, <2>3 DEF TypeOK
<1>12. CASE Boot
  <2>1. FilesOK'
    BY <1>0, <1>12, QuotaFacts
       DEF Boot, Fault, WorkerOK, FilesOK, ControllerOK, Files, workerVars
  <2>2. ControllerOK'
    BY <1>0, <1>12, QuotaFacts DEF Boot, Fault, ControllerOK, FilesOK, Files
  <2>3. BoundsOK'
    BY <1>0, <1>12, QuotaFacts DEF Boot, Fault, BoundsOK
  <2>4. RequestOK' /\ WorkerOK'
    BY <1>0, <1>12 DEF Boot, Fault, RequestOK, WorkerOK, workerVars, controlVars
  <2> QED BY <2>1, <2>2, <2>3, <2>4 DEF TypeOK
<1>13. CASE Read
  <2>1. ControllerOK'
    BY <1>0, <1>13, QuotaFacts DEF Read, Fault, ControllerOK, FilesOK, Files
  <2>2. BoundsOK'
    BY <1>0, <1>13, QuotaFacts DEF Read, Fault, BoundsOK
  <2>3. RequestOK' /\ WorkerOK' /\ FilesOK'
    BY <1>0, <1>13
       DEF Read, Fault, RequestOK, WorkerOK, FilesOK, workerVars, controlVars
  <2> QED BY <2>1, <2>2, <2>3 DEF TypeOK
<1>14. CASE Apply
  <2>1. ControllerOK'
    BY <1>0, <1>14, QuotaFacts
       DEF Apply, Fault, RemoveTree, ControllerOK, FilesOK, Files
  <2>2. BoundsOK'
    BY <1>0, <1>14, QuotaFacts DEF Apply, Fault, RemoveTree, BoundsOK
  <2>3. RequestOK' /\ WorkerOK' /\ FilesOK'
    BY <1>0, <1>14
       DEF Apply, Fault, RemoveTree, RequestOK, WorkerOK, FilesOK, workerVars, controlVars
  <2> QED BY <2>1, <2>2, <2>3 DEF TypeOK
<1>15. CASE PublishStatus
  <2>1. FilesOK'
    BY <1>0, <1>15, QuotaFacts
       DEF PublishStatus, Fault, WorkerOK, FilesOK, ControllerOK, Files, workerVars
  <2>2. ControllerOK'
    BY <1>0, <1>15, QuotaFacts
       DEF PublishStatus, Fault, ControllerOK, FilesOK, Files
  <2>3. BoundsOK'
    BY <1>0, <1>15, QuotaFacts DEF PublishStatus, Fault, BoundsOK
  <2>4. RequestOK' /\ WorkerOK'
    BY <1>0, <1>15
       DEF PublishStatus, Fault, RequestOK, WorkerOK, workerVars, controlVars
  <2> QED BY <2>1, <2>2, <2>3, <2>4 DEF TypeOK
<1>16. CASE ExitRemove
  <2>1. ControllerOK'
    BY <1>0, <1>16, QuotaFacts
       DEF ExitRemove, Fault, RemoveTree, ControllerOK, FilesOK, Files
  <2>2. BoundsOK'
    BY <1>0, <1>16, QuotaFacts DEF ExitRemove, Fault, RemoveTree, BoundsOK
  <2>3. RequestOK' /\ WorkerOK' /\ FilesOK'
    BY <1>0, <1>16
       DEF ExitRemove, Fault, RemoveTree, RequestOK, WorkerOK, FilesOK, workerVars, controlVars
  <2> QED BY <2>1, <2>2, <2>3 DEF TypeOK
<1>17. CASE ExitUnlink
  <2>1. FilesOK'
    BY <1>0, <1>17, QuotaFacts
       DEF ExitUnlink, WorkerOK, FilesOK, ControllerOK, Files, workerVars
  <2>2. ControllerOK'
    BY <1>0, <1>17, QuotaFacts DEF ExitUnlink, ControllerOK, FilesOK, Files
  <2>3. RequestOK' /\ WorkerOK' /\ BoundsOK'
    BY <1>0, <1>17
       DEF ExitUnlink, RequestOK, WorkerOK, BoundsOK, workerVars, controlVars
  <2> QED BY <2>1, <2>2, <2>3 DEF TypeOK
<1>18. CASE Kill
  <2>1. ControllerOK'
    BY <1>0, <1>18, QuotaFacts DEF Kill, Fault, ControllerOK, FilesOK, Files
  <2>2. BoundsOK'
    BY <1>0, <1>18, QuotaFacts DEF Kill, Fault, BoundsOK
  <2>3. RequestOK' /\ WorkerOK' /\ FilesOK'
    BY <1>0, <1>18
       DEF Kill, Fault, RequestOK, WorkerOK, FilesOK, workerVars, controlVars
  <2> QED BY <2>1, <2>2, <2>3 DEF TypeOK
<1>19. CASE UNCHANGED vars
  BY <1>0, <1>19 DEF vars, workerVars, controlVars, TypeOK, RequestOK, WorkerOK,
     FilesOK, ControllerOK, BoundsOK
<1> QED
  BY <1>1, <1>2, <1>3, <1>4, <1>5, <1>6, <1>7, <1>8, <1>9, <1>10, <1>11, <1>12, <1>13, <1>14, <1>15, <1>16, <1>17, <1>18, <1>19
     DEF Next, Worker, Controller

\* The controller and the environment's kill touch nothing the worker wrote.
LEMMA ControllerFrame ==
    Controller \/ Kill => UNCHANGED <<requested, confirmed, workerVars>>
BY DEF Controller, Boot, Read, Apply, PublishStatus, ExitRemove, ExitUnlink, Kill

LEMMA StepConfirmed ==
    IInv /\ [Next]_vars => ConfirmedForRequest' /\ Answered'
<1> SUFFICES ASSUME IInv, [Next]_vars
             PROVE  ConfirmedForRequest' /\ Answered'
  OBVIOUS
<1> USE DEF IInv, TypeOK, RequestOK, WorkerOK, ConfirmedForRequest, Answered, Enabled
<1>1. CASE Publish
  BY <1>1 DEF Publish, workerVars
<1>2. CASE Destroy
  BY <1>2 DEF Destroy, workerVars
<1>3. CASE Worker
  <2>1. CASE Turn
    BY <2>1 DEF Turn
  <2>2. CASE Stop
    BY <2>2 DEF Stop
  <2>3. CASE CleanupWrite
    BY <2>3 DEF CleanupWrite
  <2>4. CASE CleanupEnd
    BY <2>4 DEF CleanupEnd
  <2>5. CASE Activate
    BY <2>5 DEF Activate
  <2>6. CASE Inactive
    BY <2>6 DEF Inactive
  <2>7. CASE Write
    BY <2>7 DEF Write
  <2>8. CASE Confirm
    BY <2>8 DEF Confirm
  <2>9. CASE Settle
    BY <2>9 DEF Settle
  <2> QED
    BY <1>3, <2>1, <2>2, <2>3, <2>4, <2>5, <2>6, <2>7, <2>8, <2>9 DEF Worker
<1>4. CASE Controller \/ Kill
  BY <1>4, ControllerFrame DEF workerVars
<1>5. CASE UNCHANGED vars
  BY <1>5 DEF vars, workerVars
<1> QED
  BY <1>1, <1>2, <1>3, <1>4, <1>5 DEF Next

\* thread_cpu_quota.c and thread_cpu_quota_controller.c: the strengthened
\* invariant holds in every reachable state.
THEOREM Inductive == Spec => []IInv
<1>1. IInv /\ [Next]_vars => IInv'
  BY StepType, StepConfirmed DEF IInv
<1> QED BY InitInv, <1>1, PTL DEF Spec

\* Every variable keeps its type, for all percentages publish is called with.
THEOREM TypeCorrect == Spec => []TypeOK
BY Inductive, PTL DEF IInv

\* thread_cpu_quota.c:697-713: a confirmation is only ever shown for the
\* request whose status was read.
THEOREM ConfirmationIsForRequest == Spec => []ConfirmedForRequest
BY Inductive, PTL DEF IInv

----------------------------------------------------------------------------
\* What the worker owes the controller.  Whoever is being written to, or may
\* have an answer outstanding, is marked external, so that Stop will not
\* leave before a cleanup; and the mark is gone when the worker is.
Marked ==
    /\ active => external
    /\ pc \in {"write", "confirm", "settle", "cleanup", "wait_off"} => external
    /\ pc = "done" => ~external

\* Without a fault, the controller that the mark stands for still runs and
\* has its state file, and a request stands only while the worker is marked and has
\* not asked for "off".
Undisturbed ==
    faults = 0 =>
        /\ external => child
        /\ child => state # None
        /\ child => cpc \in {"boot", "read", "apply", "publish"}
        /\ ~child => state = None /\ cpc = "none"
        /\ state \in Quotas => external /\ pc # "wait_off"

OInv == TypeOK /\ Marked /\ Undisturbed

LEMMA InitOwed == Init => Marked /\ Undisturbed
BY ExternalAssumption DEF Init, Marked, Undisturbed, Quotas

\* A step that meets a fault ends the promise.
LEMMA FaultCounted == TypeOK /\ Fault => faults' # 0
BY QuotaFacts DEF TypeOK, BoundsOK, Fault

LEMMA StepMarked == OInv /\ [Next]_vars => Marked'
<1> SUFFICES ASSUME OInv, [Next]_vars PROVE Marked'
  OBVIOUS
<1> USE DEF OInv, TypeOK, WorkerOK, Marked
<1>1. CASE Publish \/ Destroy
  BY <1>1 DEF Publish, Destroy, workerVars
<1>2. CASE Worker
  <2>1. CASE Turn \/ Stop
    BY <2>1 DEF Turn, Stop
  <2>2. CASE CleanupWrite \/ CleanupEnd
    BY <2>2 DEF CleanupWrite, CleanupEnd
  <2>3. CASE Activate
    BY <2>3 DEF Activate
  <2>4. CASE Inactive \/ Write \/ Confirm \/ Settle
    BY <2>4 DEF Inactive, Write, Confirm, Settle
  <2> QED BY <1>2, <2>1, <2>2, <2>3, <2>4 DEF Worker
<1>3. CASE Controller \/ Kill
  BY <1>3, ControllerFrame DEF workerVars
<1>4. CASE UNCHANGED vars
  BY <1>4 DEF vars, workerVars
<1> QED BY <1>1, <1>2, <1>3, <1>4 DEF Next

LEMMA StepUndisturbed == OInv /\ [Next]_vars => Undisturbed'
<1> SUFFICES ASSUME OInv, [Next]_vars, faults' = 0 PROVE Undisturbed'
  BY DEF Undisturbed
<1>0. ~Fault
  BY FaultCounted DEF OInv
<1>1. faults = 0
  <2>1. faults \in Nat /\ (faults' = faults \/ faults' = faults + 1)
    BY QuotaFacts DEF OInv, TypeOK, BoundsOK, Next, Worker, Controller, Publish,
       Destroy, Turn, Stop, CleanupWrite, CleanupEnd, Activate, Inactive, Write,
       Confirm, Settle, Boot, Read, Apply, RemoveTree, PublishStatus,
       ExitRemove, ExitUnlink, Kill, Fault, vars
  <2> QED BY <2>1
<1>a. None # 0 /\ None \notin Quotas /\ 0 \notin Quotas
  <2>1. 0 \in Nat
    OBVIOUS
  <2> QED BY <2>1, QuotaFacts, Zenon
<1> USE <1>0, <1>1, <1>a DEF OInv, TypeOK, WorkerOK, Marked, Undisturbed
<1>2. CASE Publish \/ Destroy
  BY <1>2 DEF Publish, Destroy, workerVars, controlVars
<1>3. CASE Worker
  <2>1. CASE Turn \/ Stop
    BY <2>1 DEF Turn, Stop, controlVars
  <2>2. CASE CleanupWrite
    BY <2>2 DEF CleanupWrite, controlVars
  <2>3. CASE CleanupEnd
    BY <2>3 DEF CleanupEnd, Reap, controlVars
  <2>4. CASE Activate
    BY <2>4 DEF Activate
  <2>5. CASE Inactive \/ Confirm \/ Settle
    BY <2>5 DEF Inactive, Confirm, Settle, controlVars
  <2>6. CASE Write
    BY <2>6 DEF Write, controlVars
  <2> QED BY <1>3, <2>1, <2>2, <2>3, <2>4, <2>5, <2>6 DEF Worker
<1>4. CASE Controller
  <2>1. CASE Boot
    BY <2>1 DEF Boot, workerVars
  <2>2. CASE Read
    BY <2>2 DEF Read, workerVars
  <2>3. CASE Apply \/ PublishStatus
    BY <2>3 DEF Apply, PublishStatus, workerVars
  <2>4. CASE ExitRemove \/ ExitUnlink
    BY <2>4 DEF ExitRemove, ExitUnlink, workerVars
  <2> QED BY <1>4, <2>1, <2>2, <2>3, <2>4 DEF Controller
<1>5. CASE Kill
  BY <1>5 DEF Kill
<1>6. CASE UNCHANGED vars
  BY <1>6 DEF vars, workerVars, controlVars
<1> QED BY <1>2, <1>3, <1>4, <1>5, <1>6 DEF Next

\* thread_cpu_quota.c:741-742: as long as nothing fails, a worker that has
\* gone leaves no request behind, for all quotas and interleavings of the
\* two processes.
THEOREM NoRequestLeftBehind == Spec => []NoOrphanRequest
<1>1. Init => OInv
  BY InitInv, InitOwed DEF OInv, IInv
<1>2. OInv /\ [Next]_vars => OInv'
  BY StepType, StepMarked, StepUndisturbed DEF OInv
<1>3. OInv => NoOrphanRequest
  BY DEF OInv, Marked, Undisturbed, NoOrphanRequest
<1> QED BY <1>1, <1>2, <1>3, PTL DEF Spec
-------------------------------------------------------------------------------
(* With a writable cgroup file system. *)

\* The steps of a pass, in which `wanted' is the quota it enforces.
Pass == {"collect", "manage", "verify", "settle"}

DTypeOK ==
    /\ dRequested \in Nat /\ dWanted \in Nat
    /\ dConfirmed \in BOOLEAN /\ dStop \in BOOLEAN /\ owner \in BOOLEAN
    /\ dActive \in BOOLEAN /\ root \in BOOLEAN /\ incomplete \in BOOLEAN
    /\ dPc \in {"wait", "activate", "cleanup", "move", "done"} \cup Pass
    /\ Main \in alive /\ alive \subseteq used /\ used \subseteq Tids
    /\ tids \subseteq used /\ found \subseteq used /\ todo \subseteq used
    /\ managed \subseteq used /\ verified \subseteq used
    /\ passed \subseteq used /\ children \subseteq used
    /\ place \in [Tids -> Tids \cup {Scope}]
    /\ cpuMax \in [Tids -> Nat]
    /\ dChanges \in Nat /\ churn \in Nat /\ dFaults \in Nat

\* Whoever runs in a child cgroup keeps it from being removed.
Housed == \A t \in alive : place[t] # Scope => place[t] \in children

\* What the pass at hand has read back.
ReadBack ==
    /\ dPc = "manage" => verified = {}
    /\ dPc \in {"verify", "settle"} =>
         \A t \in verified \cap alive :
              place[t] = t /\ cpuMax[t] = dWanted

\* A confirmation is for the quota of the pass at hand, and no cleanup runs.
InForce ==
    dConfirmed /\ ~dStop =>
        /\ Direct!Enabled /\ dPc \notin {"cleanup", "move"}
        /\ dPc \in Pass \cup {"activate"} => dWanted = dRequested

CoverInv == DTypeOK /\ Housed /\ ReadBack /\ InForce /\ ConfirmedCovers

\* Where a worker is that nothing has disturbed, and what it has made by then.
Quietly ==
    /\ owner = dActive /\ root = dActive
    /\ dPc \notin {"wait", "activate", "done"} => dActive
    /\ dPc \in {"activate", "done"} => ~dActive
    /\ children \subseteq alive
    /\ \A t \in alive : place[t] \in {Scope, t}
    /\ ~dActive => children = {} /\ \A t \in alive : place[t] = Scope
    /\ dActive /\ dPc \in {"wait", "cleanup", "move", "settle"} => tids = alive
    /\ dPc \in {"manage", "verify"} => found = alive /\ todo \subseteq alive
    /\ dPc = "manage" => managed = alive \ todo /\ verified = {}
    /\ dPc = "verify" => managed = alive /\ verified = alive \ todo
    /\ dPc \in {"manage", "verify"} =>
         \A t \in managed : place[t] = t /\ cpuMax[t] = dWanted
    /\ dPc = "move" => \A t \in alive \ todo : place[t] = Scope

\* A quiet run is one in which no thread came or went and nothing failed.
QuietInv == churn = 0 /\ dFaults = 0 => Quietly


\* The initial state has the types.
LEMMA InitTypes == Direct!Init => DTypeOK
  <1> SUFFICES ASSUME Direct!Init PROVE DTypeOK
    OBVIOUS
  <1>1. place \in [Tids -> Tids \cup {Scope}] /\ cpuMax \in [Tids -> Nat]
    BY DEF Direct!Init
  <1>2. /\ Main \in alive /\ alive \subseteq used /\ used \subseteq Tids
        /\ tids \subseteq used /\ found \subseteq used /\ todo \subseteq used
        /\ managed \subseteq used /\ verified \subseteq used
        /\ passed \subseteq used /\ children \subseteq used
    BY DEF Direct!Init
  <1> QED BY <1>1, <1>2 DEF Direct!Init, DTypeOK, Pass

\* Every step keeps the types.
LEMMA DirectTypeStep ==
    ASSUME DTypeOK, [Direct!Next]_(Direct!vars)
    PROVE  DTypeOK'
  <1> USE DirectAssumption
      DEF Direct!Parameters, Direct!request, Direct!local, Direct!game,
          Direct!cgroups, Direct!bounds,
          DTypeOK, Pass
  <1>0. CASE UNCHANGED Direct!vars
    BY <1>0 DEF Direct!vars
  <1>1. CASE Direct!Start
    BY <1>1 DEF Direct!Start
  <1>2. CASE Direct!End
    BY <1>2 DEF Direct!End
  <1>3. CASE Direct!Publish
    <2>1. \A q : Direct!Request(q) \in Nat
      BY DirectAssumption DEF Direct!Request, Direct!Quotas
    <2>2. dChanges' \in Nat /\ dRequested' \in Nat /\ dConfirmed' = FALSE
      BY <1>3, <2>1 DEF Direct!Publish
    <2>3. UNCHANGED <<dStop, owner, tids, dPc, Direct!local, Direct!game,
                      Direct!cgroups, churn, dFaults, passed>>
      BY <1>3 DEF Direct!Publish
    <2> QED BY <2>2, <2>3
  <1>4. CASE Direct!Destroy
    BY <1>4 DEF Direct!Destroy
  <1>5. CASE Direct!Turn
    BY <1>5 DEF Direct!Turn, Direct!Goto, Direct!Enabled
  <1>6. CASE Direct!Stop
    BY <1>6 DEF Direct!Stop, Direct!Goto
  <1>7. CASE Direct!Activate
    <2>1. /\ root' \in BOOLEAN /\ owner' \in BOOLEAN /\ dActive' \in BOOLEAN
          /\ dConfirmed' \in BOOLEAN
      BY <1>7 DEF Direct!Activate
    <2>2. dFaults' \in Nat /\ dPc' \in {"wait", "collect"}
      BY <1>7 DEF Direct!Activate, Direct!Fault, Direct!Goto
    <2>3. UNCHANGED <<dRequested, dStop, tids, dWanted, found, todo, managed,
                      verified, incomplete, Direct!game, place, children,
                      cpuMax, dChanges, churn, passed>>
      BY <1>7 DEF Direct!Activate
    <2> QED BY <2>1, <2>2, <2>3
  <1>8. CASE Direct!Collect
    BY <1>8 DEF Direct!Collect, Direct!Goto
  <1>9. CASE Direct!Manage
    <2> PICK t \in todo : Direct!Manage!(t)
      BY <1>9 DEF Direct!Manage
    <2>0. t \in Tids /\ t \in used
      OBVIOUS
    <2>1. UNCHANGED <<Direct!request, owner, tids, dPc, dActive, dWanted,
                      found, verified, Direct!game, root, dChanges, churn,
                      passed>>
      OBVIOUS
    <2>2. /\ todo' \subseteq used /\ managed' \subseteq used
          /\ children' \subseteq used
      BY <2>0 DEF Direct!NewChild
    <2>3. place' \in [Tids -> Tids \cup {Scope}]
      BY <2>0 DEF DTypeOK
    <2>4. cpuMax' \in [Tids -> Nat]
      BY <2>0 DEF Direct!NewChild
    <2>5. dFaults' \in Nat
      BY DEF Direct!Fault
    <2>6. incomplete' \in BOOLEAN
      OBVIOUS
    <2> QED BY <2>1, <2>2, <2>3, <2>4, <2>5, <2>6
  <1>10. CASE Direct!Prune
    BY <1>10 DEF Direct!Prune, Direct!Goto, Direct!Rmdir, Direct!Occupied
  <1>11. CASE Direct!Verify
    BY <1>11 DEF Direct!Verify
  <1>12. CASE Direct!Verified
    BY <1>12 DEF Direct!Verified, Direct!Goto
  <1>13. CASE Direct!Settle
    BY <1>13 DEF Direct!Settle, Direct!Goto, Direct!Enabled
  <1>14. CASE Direct!Fatal
    <2>1. dConfirmed' = FALSE /\ dPc' = "cleanup" /\ dFaults' \in Nat
      BY <1>14 DEF Direct!Fatal, Direct!Goto, Direct!Fault
    <2>2. UNCHANGED <<dRequested, dStop, owner, tids, Direct!local,
                      Direct!game, Direct!cgroups, dChanges, churn, passed>>
      BY <1>14 DEF Direct!Fatal
    <2> QED BY <2>1, <2>2
  <1>15. CASE Direct!Cleanup
    BY <1>15 DEF Direct!Cleanup, Direct!Goto
  <1>16. CASE Direct!Move
    BY <1>16 DEF Direct!Move
  <1>17. CASE Direct!Remove
    BY <1>17 DEF Direct!Remove, Direct!Goto, Direct!Rmdir, Direct!Occupied
  <1> QED
    BY <1>0, <1>1, <1>2, <1>3, <1>4, <1>5, <1>6, <1>7, <1>8,
       <1>9, <1>10, <1>11, <1>12, <1>13, <1>14, <1>15, <1>16, <1>17
    DEF Direct!Next, Direct!Worker

\* An occupied cgroup stays.
LEMMA HousedStep ==
    ASSUME DTypeOK, Housed, [Direct!Next]_(Direct!vars)
    PROVE  Housed'
  <1> USE DirectAssumption
      DEF Direct!Parameters, Direct!request, Direct!local, Direct!game,
          Direct!cgroups, Direct!bounds,
          DTypeOK, Housed
  <1>0. CASE UNCHANGED Direct!vars
    BY <1>0 DEF Direct!vars
  <1>1. CASE Direct!Start
    BY <1>1 DEF Direct!Start
  <1>2. CASE Direct!End
    BY <1>2 DEF Direct!End
  <1>3. CASE Direct!Publish
    BY <1>3 DEF Direct!Publish, Direct!Request, Direct!Quotas
  <1>4. CASE Direct!Destroy
    BY <1>4 DEF Direct!Destroy
  <1>5. CASE Direct!Turn
    BY <1>5 DEF Direct!Turn, Direct!Goto, Direct!Enabled
  <1>6. CASE Direct!Stop
    BY <1>6 DEF Direct!Stop, Direct!Goto
  <1>7. CASE Direct!Activate
    BY <1>7 DEF Direct!Activate, Direct!Goto, Direct!Fault
  <1>8. CASE Direct!Collect
    BY <1>8 DEF Direct!Collect, Direct!Goto
  <1>9. CASE Direct!Manage
    BY <1>9 DEF Direct!Manage, Direct!NewChild, Direct!Fault
  <1>10. CASE Direct!Prune
    BY <1>10 DEF Direct!Prune, Direct!Goto, Direct!Rmdir, Direct!Occupied
  <1>11. CASE Direct!Verify
    BY <1>11 DEF Direct!Verify
  <1>12. CASE Direct!Verified
    BY <1>12 DEF Direct!Verified, Direct!Goto
  <1>13. CASE Direct!Settle
    BY <1>13 DEF Direct!Settle, Direct!Goto, Direct!Enabled
  <1>14. CASE Direct!Fatal
    BY <1>14 DEF Direct!Fatal, Direct!Goto, Direct!Fault
  <1>15. CASE Direct!Cleanup
    BY <1>15 DEF Direct!Cleanup, Direct!Goto
  <1>16. CASE Direct!Move
    BY <1>16 DEF Direct!Move
  <1>17. CASE Direct!Remove
    BY <1>17 DEF Direct!Remove, Direct!Goto, Direct!Rmdir, Direct!Occupied
  <1> QED
    BY <1>0, <1>1, <1>2, <1>3, <1>4, <1>5, <1>6, <1>7, <1>8,
       <1>9, <1>10, <1>11, <1>12, <1>13, <1>14, <1>15, <1>16, <1>17
    DEF Direct!Next, Direct!Worker

\* What was read back stays true until the pass is over.
LEMMA ReadBackStep ==
    ASSUME DTypeOK, ReadBack, [Direct!Next]_(Direct!vars)
    PROVE  ReadBack'
  <1> USE DirectAssumption
      DEF Direct!Parameters, Direct!request, Direct!local, Direct!game,
          Direct!cgroups, Direct!bounds,
          DTypeOK, ReadBack
  <1>0. CASE UNCHANGED Direct!vars
    BY <1>0 DEF Direct!vars
  <1>1. CASE Direct!Start
    BY <1>1 DEF Direct!Start
  <1>2. CASE Direct!End
    BY <1>2 DEF Direct!End
  <1>3. CASE Direct!Publish
    BY <1>3 DEF Direct!Publish, Direct!Request, Direct!Quotas
  <1>4. CASE Direct!Destroy
    BY <1>4 DEF Direct!Destroy
  <1>5. CASE Direct!Turn
    BY <1>5 DEF Direct!Turn, Direct!Goto, Direct!Enabled
  <1>6. CASE Direct!Stop
    BY <1>6 DEF Direct!Stop, Direct!Goto
  <1>7. CASE Direct!Activate
    BY <1>7 DEF Direct!Activate, Direct!Goto, Direct!Fault
  <1>8. CASE Direct!Collect
    BY <1>8 DEF Direct!Collect, Direct!Goto
  <1>9. CASE Direct!Manage
    BY <1>9 DEF Direct!Manage, Direct!NewChild, Direct!Fault
  <1>10. CASE Direct!Prune
    BY <1>10 DEF Direct!Prune, Direct!Goto, Direct!Rmdir, Direct!Occupied
  <1>11. CASE Direct!Verify
    BY <1>11 DEF Direct!Verify
  <1>12. CASE Direct!Verified
    BY <1>12 DEF Direct!Verified, Direct!Goto
  <1>13. CASE Direct!Settle
    BY <1>13 DEF Direct!Settle, Direct!Goto, Direct!Enabled
  <1>14. CASE Direct!Fatal
    BY <1>14 DEF Direct!Fatal, Direct!Goto, Direct!Fault
  <1>15. CASE Direct!Cleanup
    BY <1>15 DEF Direct!Cleanup, Direct!Goto
  <1>16. CASE Direct!Move
    BY <1>16 DEF Direct!Move
  <1>17. CASE Direct!Remove
    BY <1>17 DEF Direct!Remove, Direct!Goto, Direct!Rmdir, Direct!Occupied
  <1> QED
    BY <1>0, <1>1, <1>2, <1>3, <1>4, <1>5, <1>6, <1>7, <1>8,
       <1>9, <1>10, <1>11, <1>12, <1>13, <1>14, <1>15, <1>16, <1>17
    DEF Direct!Next, Direct!Worker

\* A confirmation is withdrawn before the request or the worker moves on.
LEMMA InForceStep ==
    ASSUME DTypeOK, InForce, [Direct!Next]_(Direct!vars)
    PROVE  InForce'
  <1> USE DirectAssumption
      DEF Direct!Parameters, Direct!request, Direct!local, Direct!game,
          Direct!cgroups, Direct!bounds, Direct!Enabled,
          DTypeOK, InForce, Pass
  <1>0. CASE UNCHANGED Direct!vars
    BY <1>0 DEF Direct!vars
  <1>1. CASE Direct!Start
    BY <1>1 DEF Direct!Start
  <1>2. CASE Direct!End
    BY <1>2 DEF Direct!End
  <1>3. CASE Direct!Publish
    BY <1>3 DEF Direct!Publish, Direct!Request, Direct!Quotas
  <1>4. CASE Direct!Destroy
    BY <1>4 DEF Direct!Destroy
  <1>5. CASE Direct!Turn
    BY <1>5 DEF Direct!Turn, Direct!Goto
  <1>6. CASE Direct!Stop
    BY <1>6 DEF Direct!Stop, Direct!Goto
  <1>7. CASE Direct!Activate
    <2>1. CASE ~root /\ root' = TRUE /\ owner' = TRUE /\ dActive' = TRUE
               /\ dPc' = "collect" /\ UNCHANGED <<dConfirmed, dFaults>>
      BY <1>7, <2>1 DEF Direct!Activate
    <2>2. CASE /\ dConfirmed' = FALSE /\ dPc' = "wait"
               /\ root \/ dFaults' = dFaults + 1
               /\ UNCHANGED <<root, owner, dActive>>
      BY <1>7, <2>2 DEF Direct!Activate, Direct!Fault
    <2> QED BY <1>7, <2>1, <2>2 DEF Direct!Activate, Direct!Goto, Direct!Fault
  <1>8. CASE Direct!Collect
    BY <1>8 DEF Direct!Collect, Direct!Goto
  <1>9. CASE Direct!Manage
    BY <1>9 DEF Direct!Manage, Direct!NewChild, Direct!Fault
  <1>10. CASE Direct!Prune
    BY <1>10 DEF Direct!Prune, Direct!Goto, Direct!Rmdir, Direct!Occupied
  <1>11. CASE Direct!Verify
    BY <1>11 DEF Direct!Verify
  <1>12. CASE Direct!Verified
    BY <1>12 DEF Direct!Verified, Direct!Goto
  <1>13. CASE Direct!Settle
    BY <1>13 DEF Direct!Settle, Direct!Goto
  <1>14. CASE Direct!Fatal
    BY <1>14 DEF Direct!Fatal, Direct!Goto, Direct!Fault
  <1>15. CASE Direct!Cleanup
    BY <1>15 DEF Direct!Cleanup, Direct!Goto
  <1>16. CASE Direct!Move
    BY <1>16 DEF Direct!Move
  <1>17. CASE Direct!Remove
    BY <1>17 DEF Direct!Remove, Direct!Goto, Direct!Rmdir, Direct!Occupied
  <1> QED
    BY <1>0, <1>1, <1>2, <1>3, <1>4, <1>5, <1>6, <1>7, <1>8,
       <1>9, <1>10, <1>11, <1>12, <1>13, <1>14, <1>15, <1>16, <1>17
    DEF Direct!Next, Direct!Worker

\* A confirmed quota stays in force.
LEMMA CoversStep ==
    ASSUME CoverInv, [Direct!Next]_(Direct!vars)
    PROVE  ConfirmedCovers'
  <1> USE DirectAssumption
      DEF Direct!Parameters, Direct!request, Direct!local, Direct!game,
          Direct!cgroups, Direct!bounds,
          CoverInv, DTypeOK, Housed, ReadBack, InForce, ConfirmedCovers,
          Direct!ConfirmedCovers, Pass
  <1>0. CASE UNCHANGED Direct!vars
    BY <1>0 DEF Direct!vars
  <1>1. CASE Direct!Start
    BY <1>1 DEF Direct!Start
  <1>2. CASE Direct!End
    BY <1>2 DEF Direct!End
  <1>3. CASE Direct!Publish
    BY <1>3 DEF Direct!Publish, Direct!Request, Direct!Quotas
  <1>4. CASE Direct!Destroy
    BY <1>4 DEF Direct!Destroy
  <1>5. CASE Direct!Turn
    BY <1>5 DEF Direct!Turn, Direct!Goto, Direct!Enabled
  <1>6. CASE Direct!Stop
    BY <1>6 DEF Direct!Stop, Direct!Goto
  <1>7. CASE Direct!Activate
    BY <1>7 DEF Direct!Activate, Direct!Goto, Direct!Fault
  <1>8. CASE Direct!Collect
    BY <1>8 DEF Direct!Collect, Direct!Goto
  <1>9. CASE Direct!Manage
    BY <1>9 DEF Direct!Manage, Direct!NewChild, Direct!Fault
  <1>10. CASE Direct!Prune
    BY <1>10 DEF Direct!Prune, Direct!Goto, Direct!Rmdir, Direct!Occupied
  <1>11. CASE Direct!Verify
    BY <1>11 DEF Direct!Verify
  <1>12. CASE Direct!Verified
    BY <1>12 DEF Direct!Verified, Direct!Goto
  <1>13. CASE Direct!Settle
    BY <1>13 DEF Direct!Settle, Direct!Goto, Direct!Enabled
  <1>14. CASE Direct!Fatal
    BY <1>14 DEF Direct!Fatal, Direct!Goto, Direct!Fault
  <1>15. CASE Direct!Cleanup
    BY <1>15 DEF Direct!Cleanup, Direct!Goto
  <1>16. CASE Direct!Move
    BY <1>16 DEF Direct!Move
  <1>17. CASE Direct!Remove
    BY <1>17 DEF Direct!Remove, Direct!Goto, Direct!Rmdir, Direct!Occupied
  <1> QED
    BY <1>0, <1>1, <1>2, <1>3, <1>4, <1>5, <1>6, <1>7, <1>8,
       <1>9, <1>10, <1>11, <1>12, <1>13, <1>14, <1>15, <1>16, <1>17
    DEF Direct!Next, Direct!Worker

\* Without a disturbance each phase finds what the one before it left.
LEMMA QuietStep ==
    ASSUME DTypeOK, QuietInv, [Direct!Next]_(Direct!vars)
    PROVE  QuietInv'
  <1> USE DirectAssumption
      DEF Direct!Parameters, Direct!request, Direct!local, Direct!game,
          Direct!cgroups, Direct!bounds,
          DTypeOK, QuietInv, Quietly, Pass
  <1>0. CASE UNCHANGED Direct!vars
    BY <1>0 DEF Direct!vars
  <1>1. CASE Direct!Start
    BY <1>1 DEF Direct!Start
  <1>2. CASE Direct!End
    BY <1>2 DEF Direct!End
  <1>3. CASE Direct!Publish
    BY <1>3 DEF Direct!Publish, Direct!Request, Direct!Quotas
  <1>4. CASE Direct!Destroy
    BY <1>4 DEF Direct!Destroy
  <1>5. CASE Direct!Turn
    BY <1>5 DEF Direct!Turn, Direct!Goto, Direct!Enabled
  <1>6. CASE Direct!Stop
    BY <1>6 DEF Direct!Stop, Direct!Goto
  <1>7. CASE Direct!Activate
    <2>1. CASE ~root /\ root' = TRUE /\ owner' = TRUE /\ dActive' = TRUE
               /\ dPc' = "collect" /\ UNCHANGED <<dConfirmed, dFaults>>
      BY <1>7, <2>1 DEF Direct!Activate
    <2>2. CASE /\ dConfirmed' = FALSE /\ dPc' = "wait"
               /\ root \/ dFaults' = dFaults + 1
               /\ UNCHANGED <<root, owner, dActive>>
      BY <1>7, <2>2 DEF Direct!Activate, Direct!Fault
    <2> QED BY <1>7, <2>1, <2>2 DEF Direct!Activate, Direct!Goto, Direct!Fault
  <1>8. CASE Direct!Collect
    BY <1>8 DEF Direct!Collect, Direct!Goto
  <1>9. CASE Direct!Manage
    BY <1>9 DEF Direct!Manage, Direct!NewChild, Direct!Fault
  <1>10. CASE Direct!Prune
    <2> SUFFICES ASSUME churn = 0, dFaults = 0
                 PROVE  Quietly'
      BY <1>10 DEF Direct!Prune
    <2>1. /\ Quietly /\ dPc = "manage" /\ todo = {} /\ managed = alive
          /\ managed # {}
      BY <1>10 DEF Direct!Prune
    <2>2. /\ children' \subseteq children /\ todo' = managed /\ dPc' = "verify"
          /\ UNCHANGED <<Direct!request, owner, tids, dActive, dWanted, found,
                          managed, verified, incomplete, Direct!game, place,
                          root, cpuMax>>
      BY <1>10, <2>1 DEF Direct!Prune, Direct!Goto, Direct!Rmdir
    <2> QED BY <2>1, <2>2
  <1>11. CASE Direct!Verify
    BY <1>11 DEF Direct!Verify
  <1>12. CASE Direct!Verified
    BY <1>12 DEF Direct!Verified, Direct!Goto
  <1>13. CASE Direct!Settle
    BY <1>13 DEF Direct!Settle, Direct!Goto, Direct!Enabled
  <1>14. CASE Direct!Fatal
    BY <1>14 DEF Direct!Fatal, Direct!Goto, Direct!Fault
  <1>15. CASE Direct!Cleanup
    BY <1>15 DEF Direct!Cleanup, Direct!Goto
  <1>16. CASE Direct!Move
    BY <1>16 DEF Direct!Move
  <1>17. CASE Direct!Remove
    <2> SUFFICES ASSUME churn = 0, dFaults = 0
                 PROVE  Quietly'
      BY <1>17 DEF Direct!Remove
    <2>1. /\ Quietly /\ dPc = "move" /\ todo = {} /\ tids = alive /\ owner
          /\ \A t \in alive : place[t] = Scope
      BY <1>17 DEF Direct!Remove
    <2>2. children' = {}
      BY <1>17, <2>1 DEF Direct!Remove, Direct!Rmdir, Direct!Occupied
    <2>3. /\ root' = FALSE /\ owner' = FALSE /\ dActive' = FALSE
          /\ dPc' = "wait"
          /\ UNCHANGED <<Direct!game, place>>
      BY <1>17, <2>1, <2>2 DEF Direct!Remove, Direct!Goto
    <2> QED BY <2>1, <2>2, <2>3
  <1> QED
    BY <1>0, <1>1, <1>2, <1>3, <1>4, <1>5, <1>6, <1>7, <1>8,
       <1>9, <1>10, <1>11, <1>12, <1>13, <1>14, <1>15, <1>16, <1>17
    DEF Direct!Next, Direct!Worker

\* thread_cpu_quota.c:578-664 and 716-735: for any number of threads, a
\* confirmed quota is in force for every thread the pass found, however the
\* game starts and ends threads meanwhile.
THEOREM ConfirmationCovers == Direct!Spec => []ConfirmedCovers
  <1>1. Direct!Init => CoverInv
    <2> SUFFICES ASSUME Direct!Init PROVE CoverInv
      OBVIOUS
    <2>1. DTypeOK
      BY InitTypes
    <2>2. Housed
      BY DirectAssumption DEF Direct!Init, Housed, Direct!Parameters
    <2>3. ReadBack /\ InForce /\ ConfirmedCovers
      BY DEF Direct!Init, ReadBack, InForce, ConfirmedCovers,
             Direct!ConfirmedCovers
    <2> QED BY <2>1, <2>2, <2>3 DEF CoverInv
  <1>2. CoverInv /\ [Direct!Next]_(Direct!vars) => CoverInv'
    BY DirectTypeStep, HousedStep, ReadBackStep, InForceStep, CoversStep
    DEF CoverInv
  <1>3. CoverInv => ConfirmedCovers
    BY DEF CoverInv
  <1> QED BY <1>1, <1>2, <1>3, PTL DEF Direct!Spec

\* thread_cpu_quota.c:450-500: for any number of threads, a cleanup that
\* nothing disturbs leaves no thread limited and no cgroup behind.
THEOREM CleanupIsComplete == Direct!Spec => []QuietCleanup
  <1>1. Direct!Init => DTypeOK /\ QuietInv
    <2>1. Direct!Init => QuietInv
      BY DirectAssumption DEF Direct!Init, Direct!Parameters, QuietInv, Quietly
    <2> QED BY <2>1, InitTypes
  <1>2. DTypeOK /\ QuietInv /\ [Direct!Next]_(Direct!vars)
            => (DTypeOK /\ QuietInv)'
    BY DirectTypeStep, QuietStep
  <1>3. QuietInv => QuietCleanup
    BY DEF QuietInv, Quietly, QuietCleanup, Direct!QuietCleanup
  <1> QED BY <1>1, <1>2, <1>3, PTL DEF Direct!Spec
===============================================================================
