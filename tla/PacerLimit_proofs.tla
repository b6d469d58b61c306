-------------------------- MODULE PacerLimit_proofs --------------------------
(***************************************************************************)
(* Proofs about PacerLimit, for any number of presentation threads, report *)
(* slots, settings and edits, any poll interval, and any set of system     *)
(* calls that may fail.                                                    *)
(***************************************************************************)
EXTENDS PacerLimit, TLAPS

\* The labels at which a thread holds limit->mutex, and reporter->mutex.
Reading == {"open", "read_a", "read_b", "verify"}
Publishing == {"publish_fps", "publish_quota", "publish_revision",
               "publish_check"}
Critical == {"stat", "publish"} \cup Reading \cup Publishing
Reporting == {"snapshot", "report"}
HasBackend == {"compare", "reporter"} \cup Reporting
PolledAt == {"due", "quota", "done"} \cup HasBackend
Labels == {"idle", "check", "load", "refresh"} \cup Critical \cup PolledAt

Kinds == {"regular", "insecure", "badsize"}
Statuses == {"valid", "missing", "malformed", "unreadable", "changed"} \cup Kinds

FileT == [form: Kinds, a: Nat, b: Nat, stamp: Nat]
ResultT == [status: Statuses, fps: Nat, quota: Nat]
SnapT == [status: Statuses, fps: Nat, quota: Nat, rev: Nat]
LocT == [now: Nat, logging: BOOLEAN, backend: Backends \cup {Nobody},
         expected: [ino: Nat, stamp: Nat], a: Nat, b: Nat, result: ResultT,
         checkedAt: Nat, rev: Nat, known: Nat, snap: SnapT, fpsAt: Nat,
         quotaAt: Nat]

WorldOK == /\ inode \in Seq(FileT) /\ path \in 0..Len(inode) /\ edits \in Nat
           /\ now \in Nat

SharedOK == /\ lastCheck \in Nat /\ fps \in Nat /\ quota \in Nat
            /\ revision \in Nat /\ effective \in SnapT
            /\ fpsAt \in Nat /\ quotaAt \in Nat
            /\ reporting \in BOOLEAN /\ logInit \in BOOLEAN
            /\ logActive \in BOOLEAN
            /\ reported \in [Backends -> Nat]
            /\ written \in [Backends -> Seq(SnapT)]

ThreadsOK == /\ pc \in [Threads -> Labels]
             /\ loc \in [Threads -> LocT]
             /\ \A t \in Threads :
                  /\ pc[t] \in HasBackend => loc[t].backend \in Backends
                  /\ pc[t] \in Reading => loc[t].expected.ino \in DOMAIN inode

LimitTypeOK == WorldOK /\ SharedOK /\ ThreadsOK

\* Both mutexes are held exactly by the threads in their critical sections.
Locked == \A t \in Threads : /\ pc[t] \in Critical <=> mutex = t
                             /\ pc[t] \in Reporting <=> rmutex = t
-----------------------------------------------------------------------------
\* What a thread does, it does to its own program counter and locals.
LEMMA IdleType == Idle \in LocT
<1>1. Unresolved \in SnapT /\ Failure("unreadable") \in ResultT
  BY DEF Unresolved, SnapT, Failure, ResultT, Statuses, Kinds
<1> QED BY <1>1, Zenon DEF Idle, LocT

LEMMA FailureType == \A s \in Statuses : Failure(s) \in ResultT
BY DEF Failure, ResultT, Statuses

LEMMA ParseType == \A a, b \in Nat : Parse(a, b) \in ResultT
BY FailureType DEF Parse, ResultT, Statuses

LEMMA InitType == Init => LimitTypeOK /\ Locked
<1> SUFFICES ASSUME Init PROVE LimitTypeOK /\ Locked
  OBVIOUS
<1>1. WorldOK
  <2>1. PICK v, w \in Values :
             inode = <<[form |-> "regular", a |-> v, b |-> w, stamp |-> 0]>>
    BY DEF Init
  <2>2. [form |-> "regular", a |-> v, b |-> w, stamp |-> 0] \in FileT
    BY LimitAssumption DEF FileT, Kinds
  <2>3. inode \in Seq(FileT) /\ Len(inode) = 1
    BY <2>1, <2>2
  <2> QED BY <2>3 DEF Init, WorldOK
<1>2. SharedOK
  <2>1. Unresolved \in SnapT
    BY DEF Unresolved, SnapT, Statuses
  <2>2. <<>> \in Seq(SnapT)
    OBVIOUS
  <2> QED BY <2>1, <2>2 DEF Init, SharedOK
<1>3. ThreadsOK
  BY IdleType DEF Init, ThreadsOK, Labels, HasBackend, Reporting, Reading, Reading
<1>4. Locked
  BY LimitAssumption DEF Init, Locked, Critical, Reading, Publishing, Reporting
<1> QED BY <1>1, <1>2, <1>3, <1>4 DEF LimitTypeOK

\* Locals keep their type when a field is given a value of its own type.
LEMMA FieldType ==
    ASSUME NEW l \in LocT
    PROVE  /\ \A v \in Nat : /\ [l EXCEPT !.now = v] \in LocT
                             /\ [l EXCEPT !.a = v] \in LocT
                             /\ [l EXCEPT !.b = v] \in LocT
                             /\ [l EXCEPT !.checkedAt = v] \in LocT
                             /\ [l EXCEPT !.rev = v] \in LocT
                             /\ [l EXCEPT !.known = v] \in LocT
                             /\ [l EXCEPT !.fpsAt = v] \in LocT
                             /\ [l EXCEPT !.quotaAt = v] \in LocT
           /\ \A v \in BOOLEAN : [l EXCEPT !.logging = v] \in LocT
           /\ \A v \in Backends : [l EXCEPT !.backend = v] \in LocT
           /\ \A v \in [ino: Nat, stamp: Nat] : [l EXCEPT !.expected = v] \in LocT
           /\ \A v \in ResultT : [l EXCEPT !.result = v] \in LocT
           /\ \A v \in SnapT : [l EXCEPT !.snap = v] \in LocT
BY DEF LocT

\* What the path or an open descriptor names is a file.
LEMMA FileType ==
    ASSUME WorldOK, NEW i \in DOMAIN inode
    PROVE  /\ inode[i] \in FileT /\ i \in 1..Len(inode)
           /\ inode[i].form \in Kinds /\ inode[i].a \in Nat
           /\ inode[i].b \in Nat /\ inode[i].stamp \in Nat
<1>1. inode[i] \in FileT /\ i \in 1..Len(inode)
  BY DEF WorldOK
<1> QED BY <1>1 DEF FileT

\* A step of a thread moves that thread, and only its own locals.
LEMMA ThreadStep ==
    ASSUME LimitTypeOK, NEW t \in Threads, Thread(t)
    PROVE  /\ pc'[t] \in Labels /\ loc'[t] \in LocT
           /\ pc' = [pc EXCEPT ![t] = pc'[t]]
           /\ loc' = [loc EXCEPT ![t] = loc'[t]]
           /\ pc'[t] \in HasBackend => loc'[t].backend \in Backends
           /\ pc'[t] \in Reading => loc'[t].expected.ino \in DOMAIN inode
<1>0. /\ loc[t] \in LocT /\ loc \in [Threads -> LocT] /\ pc[t] \in Labels
      /\ pc[t] \in HasBackend => loc[t].backend \in Backends
      /\ pc[t] \in Reading => loc[t].expected.ino \in DOMAIN inode
      /\ pc \in [Threads -> Labels]
  BY DEF LimitTypeOK, ThreadsOK
<1>a. ASSUME NEW r \in ResultT, Resolved(t, r)
      PROVE  /\ pc'[t] = "publish" /\ loc'[t] \in LocT
             /\ pc' = [pc EXCEPT ![t] = pc'[t]]
             /\ loc' = [loc EXCEPT ![t] = loc'[t]]
  BY <1>0, <1>a, FieldType DEF Resolved, Goto
<1> USE DEF Goto, Labels, Critical, Reading, Publishing, PolledAt, HasBackend, Reporting
<1>1. CASE Begin(t)
  BY <1>0, <1>1, IdleType DEF Begin, LocT, LimitTypeOK, SharedOK, WorldOK
<1>2. CASE Check(t)
  BY <1>0, <1>2, IdleType DEF Check, LocT, LimitTypeOK, SharedOK, WorldOK
<1>3. CASE Load(t)
  BY <1>0, <1>3, IdleType DEF Load, Polled, LocT, LimitTypeOK, SharedOK, WorldOK
<1>4. CASE Refresh(t)
  <2>1. CASE Polled(t, fpsAt)
    BY <1>0, <2>1, IdleType DEF Polled, LocT, LimitTypeOK, SharedOK
  <2>2. CASE Goto(t, "stat") /\ UNCHANGED loc
    BY <1>0, <2>2
  <2> QED BY <1>4, <2>1, <2>2 DEF Refresh
<1>5. CASE Stat(t)
  <2>1. PICK seen \in {StatResult, "unreadable"} :
             /\ loc' = [loc EXCEPT
                          ![t].checkedAt = now,
                          ![t].expected = IF seen = "regular"
                                          THEN [ino |-> path,
                                                stamp |-> inode[path].stamp]
                                          ELSE @,
                          ![t].result = IF seen = "regular" THEN @
                                        ELSE Failure(seen)]
             /\ pc' = [pc EXCEPT ![t] = IF seen = "regular" THEN "open"
                                        ELSE "publish"]
    BY <1>5 DEF Stat
  <2>2. now \in Nat /\ path \in 0..Len(inode) /\ inode \in Seq(FileT)
    BY DEF LimitTypeOK, WorldOK
  <2>3. CASE seen = "regular"
    <3>1. path \in DOMAIN inode
      BY <2>2, <2>3 DEF StatResult
    <3>2. inode[path].stamp \in Nat /\ path \in Nat
      BY <3>1, FileType DEF LimitTypeOK
    <3>3. [ino |-> path, stamp |-> inode[path].stamp] \in [ino: Nat, stamp: Nat]
      BY <3>2
    <3>4. loc'[t] = [[loc[t] EXCEPT !.checkedAt = now] EXCEPT
                        !.expected = [ino |-> path, stamp |-> inode[path].stamp]]
      BY <1>0, <2>1, <2>3 DEF LocT
    <3>5. [loc[t] EXCEPT !.checkedAt = now] \in LocT
      BY <1>0, <2>2, FieldType
    <3>6. loc'[t] \in LocT
      BY <3>3, <3>4, <3>5, FieldType
    <3>7. loc'[t].expected.ino = path
      BY <3>4, <3>5 DEF LocT
    <3> QED BY <1>0, <2>1, <2>3, <3>1, <3>6, <3>7
  <2>4. CASE seen # "regular"
    <3>1. Failure(seen) \in ResultT
      <4>1. CASE path = 0 \/ seen = "unreadable"
        BY <4>1, FailureType DEF StatResult, Statuses
      <4>2. CASE path # 0 /\ seen = StatResult
        <5>1. inode[path].form \in Kinds
          BY <2>2, <4>2, FileType DEF LimitTypeOK
        <5> QED BY <4>2, <5>1, FailureType DEF StatResult, Statuses, Kinds
      <4> QED BY <4>1, <4>2
    <3>2. loc'[t] = [[loc[t] EXCEPT !.checkedAt = now] EXCEPT !.result = Failure(seen)]
      BY <1>0, <2>1, <2>4 DEF LocT
    <3>3. [loc[t] EXCEPT !.checkedAt = now] \in LocT
      BY <1>0, <2>2, FieldType
    <3>4. loc'[t] \in LocT
      BY <3>1, <3>2, <3>3, FieldType
    <3> QED BY <1>0, <2>1, <2>4, <3>4
  <2> QED BY <2>3, <2>4
<1>6. CASE Open(t)
  <2>1. CASE Goto(t, "read_a") /\ UNCHANGED loc
    BY <1>0, <1>6, <2>1 DEF Open
  <2>2. CASE Resolved(t, Failure("changed"))
    <3>1. Failure("changed") \in ResultT
      BY FailureType DEF Statuses
    <3> QED BY <1>a, <2>2, <3>1
  <2> QED BY <1>6, <2>1, <2>2 DEF Open
<1>7. CASE ReadA(t)
  <2>1. inode[loc[t].expected.ino].a \in Nat
    BY <1>0, <1>7, FileType DEF ReadA, LimitTypeOK
  <2>2. loc'[t] \in LocT
    BY <1>0, <1>7, <2>1, FieldType DEF ReadA
  <2>3. loc'[t].expected = loc[t].expected
    BY <1>0, <1>7 DEF ReadA, LocT
  <2> QED BY <1>0, <1>7, <2>2, <2>3 DEF ReadA
<1>8. CASE ReadB(t)
  <2>1. inode[loc[t].expected.ino].b \in Nat
    BY <1>0, <1>8, FileType DEF ReadB, LimitTypeOK
  <2>2. loc'[t] \in LocT
    BY <1>0, <1>8, <2>1, FieldType DEF ReadB
  <2>3. loc'[t].expected = loc[t].expected
    BY <1>0, <1>8 DEF ReadB, LocT
  <2> QED BY <1>0, <1>8, <2>2, <2>3 DEF ReadB
<1>9. CASE Verify(t)
  <2>1. Parse(loc[t].a, loc[t].b) \in ResultT
    BY <1>0, ParseType DEF LocT
  <2>2. Failure("changed") \in ResultT
    BY FailureType DEF Statuses
  <2> QED BY <1>a, <1>9, <2>1, <2>2 DEF Verify
<1>10. CASE IoError(t)
  <2>1. Failure("unreadable") \in ResultT
    BY FailureType DEF Statuses
  <2> QED BY <1>a, <1>10, <2>1 DEF IoError
<1>11. CASE Publish(t)
  <2> DEFINE r == loc[t].result
             rev == IF revision = 0 \/ ~same_effective(effective, r)
                    THEN revision + 1 ELSE revision
             rv == IF reporting THEN rev ELSE 0
  <2>1. r \in ResultT /\ rv \in Nat /\ loc[t].now \in Nat
        /\ loc[t].logging \in BOOLEAN /\ loc[t].checkedAt \in Nat
    BY <1>0 DEF LimitTypeOK, SharedOK, LocT
  <2>2. loc' = [loc EXCEPT ![t] =
                   [Idle EXCEPT !.now = loc[t].now, !.result = r,
                                !.logging = loc[t].logging,
                                !.checkedAt = loc[t].checkedAt,
                                !.rev = rv]]
        /\ pc' = [pc EXCEPT ![t] = "publish_fps"]
    BY <1>11 DEF Publish
  <2> HIDE DEF r, rv, rev
  <2>3. loc'[t] \in LocT
    BY <1>0, <2>1, <2>2, IdleType DEF LocT
  <2> QED BY <1>0, <2>2, <2>3
<1>12. CASE PublishFps(t)
  BY <1>0, <1>12, IdleType DEF PublishFps, LocT, LimitTypeOK, SharedOK, WorldOK
<1>13. CASE PublishQuota(t)
  BY <1>0, <1>13, IdleType DEF PublishQuota, LocT, LimitTypeOK, SharedOK, WorldOK
<1>14. CASE PublishRevision(t)
  BY <1>0, <1>14, IdleType DEF PublishRevision, LocT, LimitTypeOK, SharedOK, WorldOK
<1>15. CASE PublishCheck(t)
  BY <1>0, <1>15, IdleType DEF PublishCheck, Polled, LocT, LimitTypeOK, SharedOK, WorldOK
<1>16. CASE Due(t)
  <2>1. CASE pc' = [pc EXCEPT ![t] = "quota"] /\ UNCHANGED loc
    BY <1>0, <2>1
  <2>2. CASE revision # 0
    <3>1. PICK b \in Backends :
               loc' = [loc EXCEPT ![t].rev = revision, ![t].backend = b]
      BY <1>16, <2>2 DEF Due
    <3>2. revision \in Nat
      BY DEF LimitTypeOK, SharedOK
    <3>3. loc'[t] \in LocT /\ loc'[t].backend = b
      BY <1>0, <3>1, <3>2 DEF LocT
    <3> QED BY <1>0, <1>16, <2>2, <3>1, <3>3 DEF Due
  <2> QED BY <1>16, <2>1, <2>2 DEF Due
<1>17. CASE Compare(t)
  BY <1>0, <1>17, IdleType DEF Compare, LocT, LimitTypeOK, SharedOK, WorldOK
<1>18. CASE ReportLock(t)
  BY <1>0, <1>18, IdleType DEF ReportLock, LocT, LimitTypeOK, SharedOK, WorldOK
<1>19. CASE Snapshot(t)
  <2>1. CASE UNCHANGED loc /\ pc' = [pc EXCEPT ![t] = "quota"]
    BY <1>0, <2>1
  <2>2. CASE /\ loc' = [loc EXCEPT ![t].snap = effective]
             /\ pc' = [pc EXCEPT ![t] = "report"]
    <3>1. loc'[t] \in LocT
      BY <1>0, <2>2, FieldType DEF LimitTypeOK, SharedOK
    <3>2. loc'[t].backend = loc[t].backend
      BY <1>0, <2>2 DEF LocT
    <3> QED BY <1>0, <1>19, <2>2, <3>1, <3>2 DEF Snapshot
  <2> QED BY <1>19, <2>1, <2>2 DEF Snapshot
<1>20. CASE Report(t)
  BY <1>0, <1>20, IdleType DEF Report, LocT, LimitTypeOK, SharedOK, WorldOK
<1>21. CASE LoadQuota(t)
  BY <1>0, <1>21, IdleType DEF LoadQuota, LocT, LimitTypeOK, SharedOK, WorldOK
<1>22. CASE Return(t)
  BY <1>0, <1>22, IdleType DEF Return, LocT, LimitTypeOK, SharedOK, WorldOK
<1> QED BY <1>1, <1>2, <1>3, <1>4, <1>5, <1>6, <1>7, <1>8, <1>9, <1>10, <1>11, <1>12, <1>13, <1>14, <1>15, <1>16, <1>17, <1>18, <1>19, <1>20, <1>21, <1>22 DEF Thread

\* An edit of a file gives it a new stamp and leaves the others alone.
LEMMA TouchOne ==
    ASSUME WorldOK, NEW i \in DOMAIN inode, NEW f \in FileT,
           f.stamp = edits + 1, NEW newPath \in {0, i},
           Touch(newPath, [inode EXCEPT ![i] = f])
    PROVE  /\ WorldOK' /\ Len(inode') >= Len(inode)
           /\ \A j \in DOMAIN inode' :
                \/ j \in DOMAIN inode /\ inode'[j] = inode[j]
                \/ inode'[j].stamp = edits + 1
           /\ edits' = edits + 1
           /\ versions' = versions \cup {<<j, inode'[j]>> : j \in DOMAIN inode'}
           /\ UNCHANGED <<now, published, logState, reports, mutex, pc, loc>>
<1>1. /\ inode' \in Seq(FileT) /\ Len(inode') = Len(inode)
      /\ DOMAIN inode' = DOMAIN inode
  BY FileType DEF Touch, WorldOK
<1>2. WorldOK'
  BY <1>1, FileType DEF Touch, WorldOK
<1>3. \A j \in DOMAIN inode' : \/ inode'[j] = inode[j]
                               \/ inode'[j].stamp = edits + 1
  BY <1>1 DEF Touch, WorldOK
<1> QED BY <1>1, <1>2, <1>3 DEF Touch, WorldOK

\* Whatever the user does, a changed or new file carries a new stamp.
LEMMA UserStep ==
    ASSUME WorldOK, Write \/ Chmod \/ Remove \/ Replace
    PROVE  /\ WorldOK' /\ Len(inode') >= Len(inode)
           /\ \A i \in DOMAIN inode' :
                \/ i \in DOMAIN inode /\ inode'[i] = inode[i]
                \/ inode'[i].stamp = edits + 1
           /\ edits' = edits + 1
           /\ versions' = versions \cup {<<i, inode'[i]>> : i \in DOMAIN inode'}
           /\ UNCHANGED <<now, published, logState, reports, mutex, pc, loc>>
<1>0. path # 0 => path \in DOMAIN inode
  BY DEF WorldOK
<1>a. edits + 1 \in Nat
  BY DEF WorldOK
<1>1. CASE Write
  <2> DEFINE fa(v) == [[inode[path] EXCEPT !.stamp = edits + 1] EXCEPT !.a = v]
             fb(v) == [[inode[path] EXCEPT !.stamp = edits + 1] EXCEPT !.b = v]
  <2>1. PICK v \in Values :
             \/ Touch(path, [Stamped(path) EXCEPT ![path].a = v])
             \/ Touch(path, [Stamped(path) EXCEPT ![path].b = v])
    BY <1>1 DEF Write
  <2>2. path \in DOMAIN inode /\ inode[path] \in FileT /\ v \in Nat
    BY <1>0, <1>1, FileType, LimitAssumption DEF Write
  <2>3. fa(v) \in FileT /\ fb(v) \in FileT
        /\ fa(v).stamp = edits + 1 /\ fb(v).stamp = edits + 1
    BY <1>a, <2>2 DEF FileT
  <2>4. /\ [Stamped(path) EXCEPT ![path].a = v] = [inode EXCEPT ![path] = fa(v)]
        /\ [Stamped(path) EXCEPT ![path].b = v] = [inode EXCEPT ![path] = fb(v)]
    BY <2>2 DEF Stamped, WorldOK
  <2> HIDE DEF fa, fb
  <2> QED BY <2>1, <2>2, <2>3, <2>4, TouchOne
<1>2. CASE Chmod
  <2> DEFINE ff(k) == [[inode[path] EXCEPT !.stamp = edits + 1] EXCEPT !.form = k]
  <2>1. PICK k \in Forms : Touch(path, [Stamped(path) EXCEPT ![path].form = k])
    BY <1>2 DEF Chmod
  <2>2. path \in DOMAIN inode /\ inode[path] \in FileT /\ k \in Kinds
    BY <1>0, <1>2, FileType, LimitAssumption DEF Chmod, Kinds
  <2>3. ff(k) \in FileT /\ ff(k).stamp = edits + 1
    BY <1>a, <2>2 DEF FileT
  <2>4. [Stamped(path) EXCEPT ![path].form = k] = [inode EXCEPT ![path] = ff(k)]
    BY <2>2 DEF Stamped, WorldOK
  <2> HIDE DEF ff
  <2> QED BY <2>1, <2>2, <2>3, <2>4, TouchOne
<1>3. CASE Remove
  <2> DEFINE f == [inode[path] EXCEPT !.stamp = edits + 1]
  <2>1. path \in DOMAIN inode /\ inode[path] \in FileT
    BY <1>0, <1>3, FileType DEF Remove
  <2>2. f \in FileT /\ f.stamp = edits + 1
    BY <1>a, <2>1 DEF FileT
  <2>3. Stamped(path) = [inode EXCEPT ![path] = f]
    BY DEF Stamped
  <2> HIDE DEF f
  <2> QED BY <1>3, <2>1, <2>2, <2>3, TouchOne DEF Remove
<1>4. CASE Replace
  <2> DEFINE new(v, w) == [form |-> "regular", a |-> v, b |-> w, stamp |-> edits + 1]
             old == IF path = 0 THEN inode ELSE Stamped(path)
  <2>1. PICK v, w \in Values : Touch(Len(inode) + 1, Append(old, new(v, w)))
    BY <1>4 DEF Replace
  <2>2. new(v, w) \in FileT /\ new(v, w).stamp = edits + 1
    BY <1>a, LimitAssumption DEF FileT, Kinds
  <2>3. /\ old \in Seq(FileT) /\ Len(old) = Len(inode)
        /\ \A i \in 1..Len(inode) : old[i] = inode[i] \/ old[i].stamp = edits + 1
    <3>1. CASE path = 0
      BY <3>1 DEF WorldOK
    <3>2. CASE path # 0
      <4> DEFINE f == [inode[path] EXCEPT !.stamp = edits + 1]
      <4>1. path \in DOMAIN inode /\ inode[path] \in FileT
        BY <1>0, <3>2, FileType
      <4>2. f \in FileT /\ f.stamp = edits + 1
        BY <1>a, <4>1 DEF FileT
      <4>3. old = [inode EXCEPT ![path] = f]
        BY <3>2 DEF Stamped
      <4> HIDE DEF f, old
      <4> QED BY <4>1, <4>2, <4>3 DEF WorldOK
    <3> QED BY <3>1, <3>2
  <2> HIDE DEF new, old
  <2>4. Len(inode) \in Nat
    BY DEF WorldOK
  <2>5. /\ inode' = Append(old, new(v, w)) /\ edits' = edits + 1
        /\ path' = Len(inode) + 1 /\ UNCHANGED now
        /\ versions' = versions \cup {<<i, inode'[i]>> : i \in DOMAIN inode'}
        /\ UNCHANGED <<now, published, logState, reports, mutex, pc, loc>>
    BY <2>1 DEF Touch
  <2>6. /\ inode' \in Seq(FileT) /\ Len(inode') = Len(inode) + 1
        /\ \A i \in 1..Len(inode') :
              IF i <= Len(inode) THEN inode'[i] = old[i] ELSE inode'[i] = new(v, w)
    BY <2>2, <2>3, <2>4, <2>5
  <2>7. WorldOK'
    BY <1>a, <2>4, <2>5, <2>6 DEF WorldOK
  <2>8. \A i \in DOMAIN inode' : \/ i \in DOMAIN inode /\ inode'[i] = inode[i]
                                 \/ inode'[i].stamp = edits + 1
    BY <2>2, <2>3, <2>4, <2>6 DEF WorldOK
  <2> QED BY <2>4, <2>5, <2>6, <2>7, <2>8
<1> QED BY <1>1, <1>2, <1>3, <1>4

\* No thread touches the file, the clock or the log.
LEMMA ThreadFrame ==
    ASSUME NEW t \in Threads, Thread(t)
    PROVE  UNCHANGED <<now, world, logState>>
<1>1. CASE Begin(t)
  BY <1>1 DEF Begin
<1>2. CASE Check(t)
  BY <1>2 DEF Check
<1>3. CASE Load(t)
  BY <1>3 DEF Load
<1>4. CASE Refresh(t)
  BY <1>4 DEF Refresh
<1>5. CASE Stat(t)
  BY <1>5 DEF Stat
<1>6. CASE Open(t)
  BY <1>6 DEF Open
<1>7. CASE ReadA(t)
  BY <1>7 DEF ReadA
<1>8. CASE ReadB(t)
  BY <1>8 DEF ReadB
<1>9. CASE Verify(t)
  BY <1>9 DEF Verify
<1>10. CASE IoError(t)
  BY <1>10 DEF IoError
<1>11. CASE Publish(t)
  BY <1>11 DEF Publish
<1>12. CASE PublishFps(t)
  BY <1>12 DEF PublishFps
<1>13. CASE PublishQuota(t)
  BY <1>13 DEF PublishQuota
<1>14. CASE PublishRevision(t)
  BY <1>14 DEF PublishRevision
<1>15. CASE PublishCheck(t)
  BY <1>15 DEF PublishCheck
<1>16. CASE Due(t)
  BY <1>16 DEF Due
<1>17. CASE Compare(t)
  BY <1>17 DEF Compare
<1>18. CASE ReportLock(t)
  BY <1>18 DEF ReportLock
<1>19. CASE Snapshot(t)
  BY <1>19 DEF Snapshot
<1>20. CASE Report(t)
  BY <1>20 DEF Report
<1>21. CASE LoadQuota(t)
  BY <1>21 DEF LoadQuota
<1>22. CASE Return(t)
  BY <1>22 DEF Return
<1> QED BY <1>1, <1>2, <1>3, <1>4, <1>5, <1>6, <1>7, <1>8, <1>9, <1>10, <1>11, <1>12, <1>13, <1>14, <1>15, <1>16, <1>17, <1>18, <1>19, <1>20, <1>21, <1>22 DEF Thread

\* The published settings change only in the five stores of a refresh.
LEMMA QuietStep ==
    ASSUME NEW t \in Threads, Thread(t), pc[t] \notin {"publish"} \cup Publishing
    PROVE  UNCHANGED published
<1> USE DEF Publishing
<1>1. CASE Begin(t)
  BY <1>1 DEF Begin
<1>2. CASE Check(t)
  BY <1>2 DEF Check
<1>3. CASE Load(t)
  BY <1>3 DEF Load
<1>4. CASE Refresh(t)
  BY <1>4 DEF Refresh
<1>5. CASE Stat(t)
  BY <1>5 DEF Stat
<1>6. CASE Open(t)
  BY <1>6 DEF Open
<1>7. CASE ReadA(t)
  BY <1>7 DEF ReadA
<1>8. CASE ReadB(t)
  BY <1>8 DEF ReadB
<1>9. CASE Verify(t)
  BY <1>9 DEF Verify
<1>10. CASE IoError(t)
  BY <1>10 DEF IoError
<1>11. CASE Publish(t)
  BY <1>11 DEF Publish
<1>12. CASE PublishFps(t)
  BY <1>12 DEF PublishFps
<1>13. CASE PublishQuota(t)
  BY <1>13 DEF PublishQuota
<1>14. CASE PublishRevision(t)
  BY <1>14 DEF PublishRevision
<1>15. CASE PublishCheck(t)
  BY <1>15 DEF PublishCheck
<1>16. CASE Due(t)
  BY <1>16 DEF Due
<1>17. CASE Compare(t)
  BY <1>17 DEF Compare
<1>18. CASE ReportLock(t)
  BY <1>18 DEF ReportLock
<1>19. CASE Snapshot(t)
  BY <1>19 DEF Snapshot
<1>20. CASE Report(t)
  BY <1>20 DEF Report
<1>21. CASE LoadQuota(t)
  BY <1>21 DEF LoadQuota
<1>22. CASE Return(t)
  BY <1>22 DEF Return
<1> QED BY <1>1, <1>2, <1>3, <1>4, <1>5, <1>6, <1>7, <1>8, <1>9, <1>10, <1>11, <1>12, <1>13, <1>14, <1>15, <1>16, <1>17, <1>18, <1>19, <1>20, <1>21, <1>22 DEF Thread

\* ... and what was reported only when a report is written.
LEMMA UnreportedStep ==
    ASSUME NEW t \in Threads, Thread(t), pc[t] # "report"
    PROVE  UNCHANGED <<reported, written>>
<1>1. CASE Begin(t)
  BY <1>1 DEF Begin, reports
<1>2. CASE Check(t)
  BY <1>2 DEF Check, reports
<1>3. CASE Load(t)
  BY <1>3 DEF Load, reports
<1>4. CASE Refresh(t)
  BY <1>4 DEF Refresh, reports
<1>5. CASE Stat(t)
  BY <1>5 DEF Stat, reports
<1>6. CASE Open(t)
  BY <1>6 DEF Open, reports
<1>7. CASE ReadA(t)
  BY <1>7 DEF ReadA, reports
<1>8. CASE ReadB(t)
  BY <1>8 DEF ReadB, reports
<1>9. CASE Verify(t)
  BY <1>9 DEF Verify, reports
<1>10. CASE IoError(t)
  BY <1>10 DEF IoError, reports
<1>11. CASE Publish(t)
  BY <1>11 DEF Publish, reports
<1>12. CASE PublishFps(t)
  BY <1>12 DEF PublishFps, reports
<1>13. CASE PublishQuota(t)
  BY <1>13 DEF PublishQuota, reports
<1>14. CASE PublishRevision(t)
  BY <1>14 DEF PublishRevision, reports
<1>15. CASE PublishCheck(t)
  BY <1>15 DEF PublishCheck, reports
<1>16. CASE Due(t)
  BY <1>16 DEF Due, reports
<1>17. CASE Compare(t)
  BY <1>17 DEF Compare, reports
<1>18. CASE ReportLock(t)
  BY <1>18 DEF ReportLock, reports
<1>19. CASE Snapshot(t)
  BY <1>19 DEF Snapshot, reports
<1>20. CASE Report(t)
  BY <1>20 DEF Report, reports
<1>21. CASE LoadQuota(t)
  BY <1>21 DEF LoadQuota, reports
<1>22. CASE Return(t)
  BY <1>22 DEF Return, reports
<1> QED BY <1>1, <1>2, <1>3, <1>4, <1>5, <1>6, <1>7, <1>8, <1>9, <1>10, <1>11, <1>12, <1>13, <1>14, <1>15, <1>16, <1>17, <1>18, <1>19, <1>20, <1>21, <1>22 DEF Thread

\* Each mutex is taken when free and given up by its owner.
LEMMA LockStep ==
    ASSUME LimitTypeOK, Locked, NEW t \in Threads, Thread(t)
    PROVE  /\ \/ UNCHANGED mutex /\ (pc[t] \in Critical <=> pc'[t] \in Critical)
              \/ mutex = Nobody /\ mutex' = t /\ pc'[t] \in Critical
              \/ mutex = t /\ mutex' = Nobody /\ pc'[t] \notin Critical
           /\ \/ UNCHANGED rmutex /\ (pc[t] \in Reporting <=> pc'[t] \in Reporting)
              \/ rmutex = Nobody /\ rmutex' = t /\ pc'[t] \in Reporting
              \/ rmutex = t /\ rmutex' = Nobody /\ pc'[t] \notin Reporting
<1>0. /\ pc[t] \in Critical <=> mutex = t
      /\ pc[t] \in Reporting <=> rmutex = t
      /\ pc \in [Threads -> Labels]
  BY DEF Locked, LimitTypeOK, ThreadsOK
<1> USE DEF Goto, Critical, Reading, Publishing, Reporting, reports
<1>1. CASE Begin(t)
  BY <1>0, <1>1 DEF Begin
<1>2. CASE Check(t)
  BY <1>0, <1>2 DEF Check
<1>3. CASE Load(t)
  BY <1>0, <1>3 DEF Load, Polled
<1>4. CASE Refresh(t)
  BY <1>0, <1>4 DEF Refresh, Polled
<1>5. CASE Stat(t)
  BY <1>0, <1>5 DEF Stat
<1>6. CASE Open(t)
  BY <1>0, <1>6 DEF Open, Resolved
<1>7. CASE ReadA(t)
  BY <1>0, <1>7 DEF ReadA
<1>8. CASE ReadB(t)
  BY <1>0, <1>8 DEF ReadB
<1>9. CASE Verify(t)
  BY <1>0, <1>9 DEF Verify, Resolved
<1>10. CASE IoError(t)
  BY <1>0, <1>10 DEF IoError, Resolved
<1>11. CASE Publish(t)
  BY <1>0, <1>11 DEF Publish
<1>12. CASE PublishFps(t)
  BY <1>0, <1>12 DEF PublishFps
<1>13. CASE PublishQuota(t)
  BY <1>0, <1>13 DEF PublishQuota
<1>14. CASE PublishRevision(t)
  BY <1>0, <1>14 DEF PublishRevision
<1>15. CASE PublishCheck(t)
  BY <1>0, <1>15 DEF PublishCheck, Polled
<1>16. CASE Due(t)
  BY <1>0, <1>16 DEF Due
<1>17. CASE Compare(t)
  BY <1>0, <1>17 DEF Compare
<1>18. CASE ReportLock(t)
  BY <1>0, <1>18 DEF ReportLock
<1>19. CASE Snapshot(t)
  BY <1>0, <1>19 DEF Snapshot
<1>20. CASE Report(t)
  BY <1>0, <1>20 DEF Report
<1>21. CASE LoadQuota(t)
  BY <1>0, <1>21 DEF LoadQuota
<1>22. CASE Return(t)
  BY <1>0, <1>22 DEF Return
<1> QED BY <1>1, <1>2, <1>3, <1>4, <1>5, <1>6, <1>7, <1>8, <1>9, <1>10, <1>11, <1>12, <1>13, <1>14, <1>15, <1>16, <1>17, <1>18, <1>19, <1>20, <1>21, <1>22 DEF Thread

\* Published settings and reports keep their types.
LEMMA SharedStep ==
    ASSUME LimitTypeOK, NEW t \in Threads, Thread(t)
    PROVE  SharedOK'
<1>0. SharedOK /\ loc[t] \in LocT /\ pc[t] \in Labels /\ UNCHANGED logState
  BY ThreadFrame DEF LimitTypeOK, ThreadsOK
<1>1. loc[t].result \in ResultT /\ loc[t].snap \in SnapT /\ loc[t].rev \in Nat
      /\ loc[t].checkedAt \in Nat /\ loc[t].now \in Nat
  BY <1>0 DEF LocT
<1>2. loc[t].result.fps \in Nat /\ loc[t].result.quota \in Nat
      /\ loc[t].result.status \in Statuses
  BY <1>1 DEF ResultT
<1>3. pc[t] # "report" => UNCHANGED <<reported, written>>
  BY UnreportedStep
<1>4. pc[t] \notin {"publish"} \cup Publishing => UNCHANGED published
  BY QuietStep
<1>5. CASE Publish(t)
  <2> DEFINE r == loc[t].result
             rev == IF revision = 0 \/ ~same_effective(effective, r)
                    THEN revision + 1 ELSE revision
  <2>1. effective' = IF reporting THEN [status |-> r.status, fps |-> r.fps,
                                        quota |-> r.quota, rev |-> rev]
                     ELSE effective
    BY <1>5 DEF Publish
  <2>2. rev \in Nat
    BY <1>0 DEF SharedOK
  <2> HIDE DEF rev
  <2>3. effective' \in SnapT
    BY <1>0, <1>2, <2>1, <2>2 DEF SnapT, SharedOK
  <2> QED BY <1>0, <1>3, <1>5, <2>3 DEF Publish, SharedOK, logState
<1>6. CASE PublishFps(t) \/ PublishQuota(t) \/ PublishRevision(t) \/ PublishCheck(t)
  BY <1>0, <1>1, <1>2, <1>3, <1>6 DEF PublishFps, PublishQuota, PublishRevision,
     PublishCheck, SharedOK, logState
<1>7. CASE Report(t)
  <2>1. loc[t].backend \in Backends
    BY <1>7 DEF Report, LimitTypeOK, ThreadsOK, HasBackend, Reporting
  <2>2. loc[t].snap.rev \in Nat
    BY <1>1 DEF SnapT
  <2>3. reported' \in [Backends -> Nat]
    BY <1>0, <1>7, <2>1, <2>2 DEF Report, SharedOK
  <2>4. Append(written[loc[t].backend], loc[t].snap) \in Seq(SnapT)
    BY <1>0, <1>1, <2>1 DEF SharedOK
  <2>5. written' \in [Backends -> Seq(SnapT)]
    BY <1>0, <1>7, <2>4 DEF Report, SharedOK
  <2> QED BY <1>0, <1>7, <2>3, <2>5 DEF Report, SharedOK, logState, published
<1>8. CASE UNCHANGED <<published, reported, written>>
  BY <1>0, <1>8 DEF SharedOK, logState, published
<1>9. \/ Publish(t) \/ Report(t) \/ UNCHANGED <<published, reported, written>>
      \/ PublishFps(t) \/ PublishQuota(t) \/ PublishRevision(t) \/ PublishCheck(t)
  BY <1>3, <1>4 DEF Thread, Publishing, Begin, Check, Load, Refresh, Stat, Open,
     ReadA, ReadB, Verify, IoError, Due, Compare, ReportLock, Snapshot,
     LoadQuota, Return, Reading
<1> QED BY <1>5, <1>6, <1>7, <1>8, <1>9

LEMMA StepType == LimitTypeOK /\ [Next]_vars => LimitTypeOK'
<1> SUFFICES ASSUME LimitTypeOK, [Next]_vars PROVE LimitTypeOK'
  OBVIOUS
<1>0. WorldOK /\ SharedOK /\ ThreadsOK
  BY DEF LimitTypeOK
<1>1. ASSUME NEW t \in Threads, Thread(t) PROVE LimitTypeOK'
  <2>1. WorldOK'
    BY <1>0, <1>1, ThreadFrame DEF WorldOK, world
  <2>2. UNCHANGED inode
    BY <1>1, ThreadFrame DEF world
  <2>3. ThreadsOK'
    BY <1>0, <1>1, <2>2, ThreadStep DEF ThreadsOK
  <2> QED BY <1>1, <2>1, <2>3, SharedStep DEF LimitTypeOK
<1>2. CASE Write \/ Chmod \/ Remove \/ Replace
  <2>1. /\ WorldOK' /\ Len(inode') >= Len(inode)
        /\ UNCHANGED <<published, logState, reports, pc, loc>>
    BY <1>0, <1>2, UserStep
  <2>2. SharedOK'
    BY <1>0, <2>1 DEF SharedOK, published, logState, reports
  <2>3. DOMAIN inode \subseteq DOMAIN inode'
    BY <1>0, <2>1 DEF WorldOK
  <2>4. ThreadsOK'
    BY <1>0, <2>1, <2>3 DEF ThreadsOK
  <2> QED BY <2>1, <2>2, <2>4 DEF LimitTypeOK
<1>3. CASE Tick
  BY <1>0, <1>3 DEF Tick, LimitTypeOK, WorldOK, SharedOK, ThreadsOK, world, published,
     logState, reports
<1>4. CASE SetReporting \/ ActivateLog
  <2>1. /\ UNCHANGED <<now, world, fps, quota, effective, fpsAt, quotaAt, reports,
                       pc, loc>>
        /\ lastCheck' \in {0, lastCheck} /\ revision' \in {0, revision}
        /\ reporting' \in {LogEnabled, reporting}
        /\ logInit' \in {TRUE, logInit} /\ logActive' \in {TRUE, logActive}
    BY <1>4, Zenon DEF SetReporting, ActivateLog, published
  <2>2. lastCheck' \in Nat /\ revision' \in Nat
    BY <1>0, <2>1 DEF SharedOK
  <2>3. reporting' \in BOOLEAN /\ logInit' \in BOOLEAN /\ logActive' \in BOOLEAN
    BY <1>0, <2>1, LimitAssumption, Zenon DEF SharedOK
  <2>4. SharedOK'
    BY <1>0, <2>1, <2>2, <2>3 DEF SharedOK, reports
  <2> QED BY <1>0, <2>1, <2>4 DEF LimitTypeOK, WorldOK, ThreadsOK, world
<1>5. CASE UNCHANGED vars
  BY <1>0, <1>5 DEF vars, LimitTypeOK, WorldOK, SharedOK, ThreadsOK
<1> QED BY <1>1, <1>2, <1>3, <1>4, <1>5 DEF Next

\* Steps of the user, the clock and the log leave the threads alone.
LEMMA OutsideFrame ==
    ASSUME LimitTypeOK, \/ Tick \/ SetReporting \/ ActivateLog \/ UNCHANGED vars
                        \/ Write \/ Chmod \/ Remove \/ Replace
    PROVE  UNCHANGED <<pc, loc, mutex, reports, fps, quota, effective, fpsAt,
                       quotaAt>>
<1>1. CASE Write \/ Chmod \/ Remove \/ Replace
  BY <1>1, UserStep DEF published, LimitTypeOK
<1>2. CASE Tick \/ SetReporting \/ ActivateLog \/ UNCHANGED vars
  BY <1>2 DEF Tick, SetReporting, ActivateLog, vars, published, reports
<1> QED BY <1>1, <1>2

LEMMA StepLocked == LimitTypeOK /\ Locked /\ [Next]_vars => Locked'
<1> SUFFICES ASSUME LimitTypeOK, Locked, [Next]_vars PROVE Locked'
  OBVIOUS
<1>1. ASSUME NEW t \in Threads, Thread(t) PROVE Locked'
  <2>1. \A u \in Threads \ {t} : pc'[u] = pc[u]
    BY <1>1, ThreadStep DEF LimitTypeOK, ThreadsOK
  <2> QED BY <1>1, <2>1, LockStep, LimitAssumption DEF Locked
<1>2. CASE \/ Tick \/ SetReporting \/ ActivateLog \/ UNCHANGED vars
           \/ Write \/ Chmod \/ Remove \/ Replace
  BY <1>2, OutsideFrame DEF Locked, reports
<1> QED BY <1>1, <1>2 DEF Next

Base == LimitTypeOK /\ Locked

LEMMA StepBase == Base /\ [Next]_vars => Base'
BY StepType, StepLocked DEF Base

\* pacer_limit.c and effective_config_report.c: every variable keeps its
\* type and each mutex excludes the threads it should.
THEOREM LimitTypeCorrect == Spec => []Base
BY InitType, StepBase, PTL DEF Spec, Base

-----------------------------------------------------------------------------
\* What is read is one state of the file.  Until the file is opened nothing
\* is expected of it; while it is read, a stamp that still matches vouches
\* for everything read so far, because no edit gives a stamp twice.
Early == {"idle", "check", "load", "refresh", "stat"}

Untorn(t) ==
    LET l == loc[t] IN
    pc[t] = "publish" /\ l.result.status \in {"valid", "malformed"}
        /\ l.expected.ino # 0
    => <<l.expected.ino, [form |-> "regular", a |-> l.a, b |-> l.b,
                          stamp |-> l.expected.stamp]>> \in versions

Vouched(t) ==
    LET l == loc[t]
        f == inode[loc[t].expected.ino] IN
    pc[t] \in Reading =>
        /\ l.expected.stamp <= edits
        /\ f.stamp = l.expected.stamp =>
             /\ f.form = "regular"
             /\ pc[t] \in {"read_b", "verify"} => f.a = l.a
             /\ pc[t] = "verify" => f.b = l.b

FilesInv == /\ \A i \in DOMAIN inode : /\ inode[i].stamp <= edits
                                      /\ <<i, inode[i]>> \in versions
            /\ \A t \in Threads : /\ pc[t] \in Early => loc[t].expected.ino = 0
                                 /\ Vouched(t)
                                 /\ Untorn(t)

LEMMA InitFiles == Init => FilesInv
<1> SUFFICES ASSUME Init PROVE FilesInv
  OBVIOUS
<1>1. \A t \in Threads : pc[t] = "idle" /\ loc[t].expected.ino = 0
  BY DEF Init, Idle
<1>2. PICK v, w \in Values :
           /\ inode = <<[form |-> "regular", a |-> v, b |-> w, stamp |-> 0]>>
           /\ versions = {<<1, inode[1]>>}
  BY DEF Init
<1>3. DOMAIN inode = {1} /\ inode[1].stamp = 0 /\ edits = 0
  BY <1>2 DEF Init
<1> QED BY <1>1, <1>2, <1>3 DEF FilesInv, Vouched, Untorn, Reading

\* The thread that moves keeps its part.
LEMMA ReaderStep ==
    ASSUME Base, FilesInv, NEW t \in Threads, Thread(t)
    PROVE  /\ pc'[t] \in Early => loc'[t].expected.ino = 0
           /\ Vouched(t)' /\ Untorn(t)'
<1>0. /\ loc[t] \in LocT /\ loc \in [Threads -> LocT] /\ pc \in [Threads -> Labels]
      /\ pc[t] \in Early => loc[t].expected.ino = 0
      /\ pc[t] \in Reading => loc[t].expected.ino \in DOMAIN inode
      /\ Vouched(t) /\ WorldOK
  BY DEF Base, LimitTypeOK, ThreadsOK, FilesInv
<1>a. UNCHANGED <<inode, edits, versions>>
  BY ThreadFrame DEF world
<1> USE DEF Goto, Vouched
<1>1. CASE Begin(t)
  BY <1>0, <1>1 DEF Begin, Early, Reading, Untorn, Idle
<1>2. CASE Check(t)
  BY <1>0, <1>2 DEF Check, Early, Reading, Untorn
<1>3. CASE Load(t)
  BY <1>0, <1>3 DEF Load, Polled, Early, Reading, Untorn
<1>4. CASE Refresh(t)
  BY <1>0, <1>4 DEF Refresh, Polled, Early, Reading, Untorn
<1>5. CASE Stat(t)
  <2>0. loc[t].expected.ino = 0
    BY <1>0, <1>5 DEF Stat, Early
  <2>1. CASE pc'[t] = "publish"
    <3>1. loc'[t].expected = loc[t].expected
      BY <1>0, <1>5, <2>1 DEF Stat, LocT
    <3> QED BY <2>0, <2>1, <3>1 DEF Early, Reading, Untorn
  <2>2. CASE pc'[t] = "open"
    <3>1. /\ loc'[t].expected = [ino |-> path, stamp |-> inode[path].stamp]
          /\ path # 0 /\ inode[path].form = "regular"
      BY <1>0, <1>5, <2>2 DEF Stat, LocT, StatResult
    <3>2. path \in DOMAIN inode
      BY <1>0, <3>1 DEF WorldOK
    <3>3. inode[path].stamp <= edits
      BY <3>2 DEF FilesInv
    <3> QED BY <1>a, <2>2, <3>1, <3>3 DEF Early, Reading, Untorn
  <2> QED BY <1>0, <1>5, <2>1, <2>2 DEF Stat
<1>6. CASE Open(t)
  <2>1. loc'[t].expected = loc[t].expected
    BY <1>0, <1>6 DEF Open, Resolved, LocT
  <2>2. CASE pc'[t] = "read_a"
    BY <1>0, <1>a, <1>6, <2>1, <2>2 DEF Open, Early, Reading, Untorn
  <2>3. CASE pc'[t] = "publish" /\ loc'[t].result = Failure("changed")
    BY <2>3 DEF Failure, Early, Reading, Untorn
  <2> QED BY <1>0, <1>6, <2>2, <2>3 DEF Open, Resolved, LocT
<1>7. CASE ReadA(t)
  <2>1. loc'[t].expected = loc[t].expected /\ pc'[t] = "read_b"
        /\ loc'[t].a = inode[loc[t].expected.ino].a
    BY <1>0, <1>7 DEF ReadA, LocT
  <2> QED BY <1>0, <1>a, <1>7, <2>1 DEF ReadA, Early, Reading, Untorn
<1>8. CASE ReadB(t)
  <2>1. loc'[t].expected = loc[t].expected /\ pc'[t] = "verify"
        /\ loc'[t].a = loc[t].a /\ loc'[t].b = inode[loc[t].expected.ino].b
    BY <1>0, <1>8 DEF ReadB, LocT
  <2> QED BY <1>0, <1>a, <1>8, <2>1 DEF ReadB, Early, Reading, Untorn
<1>9. CASE Verify(t)
  <2>1. /\ loc'[t].expected = loc[t].expected /\ pc'[t] = "publish"
        /\ loc'[t].a = loc[t].a /\ loc'[t].b = loc[t].b
    BY <1>0, <1>9 DEF Verify, Resolved, LocT
  <2>2. CASE same_file(loc[t].expected, loc[t].expected.ino)
    <3> DEFINE e == loc[t].expected
    <3>1. inode[e.ino].stamp = e.stamp /\ e.ino \in DOMAIN inode
      BY <1>0, <1>9, <2>2 DEF same_file, Verify, Reading
    <3>2. inode[e.ino].form = "regular" /\ inode[e.ino].a = loc[t].a
          /\ inode[e.ino].b = loc[t].b
      BY <1>0, <1>9, <3>1 DEF Verify, Reading
    <3>3. inode[e.ino] \in FileT
      BY <1>0, <3>1, FileType
    <3>4. inode[e.ino] = [form |-> "regular", a |-> loc[t].a, b |-> loc[t].b,
                          stamp |-> e.stamp]
      BY <3>1, <3>2, <3>3 DEF FileT
    <3>5. <<e.ino, inode[e.ino]>> \in versions
      BY <3>1 DEF FilesInv
    <3> QED BY <1>a, <2>1, <3>4, <3>5 DEF Early, Reading, Untorn
  <2>3. CASE ~same_file(loc[t].expected, loc[t].expected.ino)
    <3>1. loc'[t].result = Failure("changed")
      BY <1>0, <1>9, <2>3 DEF Verify, Resolved, LocT
    <3> QED BY <2>1, <3>1 DEF Failure, Early, Reading, Untorn
  <2> QED BY <2>2, <2>3
<1>10. CASE IoError(t)
  <2>1. pc'[t] = "publish" /\ loc'[t].result = Failure("unreadable")
    BY <1>0, <1>10 DEF IoError, Resolved, LocT
  <2> QED BY <2>1 DEF Failure, Early, Reading, Untorn
<1>11. CASE Publish(t)
  BY <1>0, <1>11 DEF Publish, Polled, Early, Reading, Untorn
<1>12. CASE PublishFps(t)
  BY <1>0, <1>12 DEF PublishFps, Polled, Early, Reading, Untorn
<1>13. CASE PublishQuota(t)
  BY <1>0, <1>13 DEF PublishQuota, Polled, Early, Reading, Untorn
<1>14. CASE PublishRevision(t)
  BY <1>0, <1>14 DEF PublishRevision, Polled, Early, Reading, Untorn
<1>15. CASE PublishCheck(t)
  BY <1>0, <1>15 DEF PublishCheck, Polled, Early, Reading, Untorn
<1>16. CASE Due(t)
  BY <1>0, <1>16 DEF Due, Polled, Early, Reading, Untorn
<1>17. CASE Compare(t)
  BY <1>0, <1>17 DEF Compare, Polled, Early, Reading, Untorn
<1>18. CASE ReportLock(t)
  BY <1>0, <1>18 DEF ReportLock, Polled, Early, Reading, Untorn
<1>19. CASE Snapshot(t)
  BY <1>0, <1>19 DEF Snapshot, Polled, Early, Reading, Untorn
<1>20. CASE Report(t)
  BY <1>0, <1>20 DEF Report, Polled, Early, Reading, Untorn
<1>21. CASE LoadQuota(t)
  BY <1>0, <1>21 DEF LoadQuota, Polled, Early, Reading, Untorn
<1>22. CASE Return(t)
  BY <1>0, <1>22 DEF Return, Early, Reading, Untorn, Idle
<1> QED BY <1>1, <1>2, <1>3, <1>4, <1>5, <1>6, <1>7, <1>8, <1>9, <1>10, <1>11, <1>12, <1>13, <1>14, <1>15, <1>16, <1>17, <1>18, <1>19, <1>20, <1>21, <1>22 DEF Thread

LEMMA StepFiles == Base /\ FilesInv /\ [Next]_vars => FilesInv'
<1> SUFFICES ASSUME Base, FilesInv, [Next]_vars PROVE FilesInv'
  OBVIOUS
<1>1. ASSUME NEW t \in Threads, Thread(t) PROVE FilesInv'
  <2>1. UNCHANGED <<inode, edits, versions>>
    BY <1>1, ThreadFrame DEF world
  <2>2. \A u \in Threads \ {t} : pc'[u] = pc[u] /\ loc'[u] = loc[u]
    BY <1>1, ThreadStep DEF Base, LimitTypeOK, ThreadsOK
  <2>3. \A u \in Threads \ {t} : /\ pc'[u] \in Early => loc'[u].expected.ino = 0
                                 /\ Vouched(u)' /\ Untorn(u)'
    BY <2>1, <2>2 DEF FilesInv, Vouched, Untorn
  <2> QED BY <1>1, <2>1, <2>3, ReaderStep DEF FilesInv
<1>2. CASE Write \/ Chmod \/ Remove \/ Replace
  <2>0. WorldOK /\ edits \in Nat
    BY DEF Base, LimitTypeOK, WorldOK
  <2>1. /\ \A i \in DOMAIN inode' :
             \/ i \in DOMAIN inode /\ inode'[i] = inode[i]
             \/ inode'[i].stamp = edits + 1
        /\ edits' = edits + 1
        /\ versions' = versions \cup {<<i, inode'[i]>> : i \in DOMAIN inode'}
        /\ UNCHANGED <<pc, loc>>
        /\ WorldOK' /\ Len(inode') >= Len(inode)
    BY <1>2, <2>0, UserStep
  <2>2. DOMAIN inode \subseteq DOMAIN inode'
    BY <2>0, <2>1 DEF WorldOK
  <2>3. \A i \in DOMAIN inode : inode[i].stamp <= edits /\ inode[i].stamp \in Nat
    BY <2>0, FileType DEF FilesInv
  <2>4. \A i \in DOMAIN inode' : inode'[i].stamp <= edits'
    BY <2>0, <2>1, <2>3
  <2>5. \A i \in DOMAIN inode' : <<i, inode'[i]>> \in versions'
    BY <2>1
  <2>6. ASSUME NEW u \in Threads PROVE Vouched(u)' /\ Untorn(u)'
    <3>1. Untorn(u)'
      BY <2>1 DEF FilesInv, Untorn
    <3>2. Vouched(u)'
      <4> SUFFICES ASSUME pc[u] \in Reading PROVE Vouched(u)'
        BY <2>1 DEF Vouched
      <4> DEFINE j == loc[u].expected.ino
                 st == loc[u].expected.stamp
      <4>1. j \in DOMAIN inode /\ loc[u] \in LocT
        BY DEF Base, LimitTypeOK, ThreadsOK
      <4>2. st \in Nat /\ st <= edits /\ Vouched(u)
        BY <4>1 DEF LocT, FilesInv, Vouched
      <4>3. inode'[j] = inode[j] \/ inode'[j].stamp = edits + 1
        BY <2>1, <2>2, <4>1
      <4>4. edits + 1 # st /\ st <= edits'
        BY <2>0, <2>1, <4>2
      <4> QED BY <2>1, <4>2, <4>3, <4>4 DEF Vouched
    <3> QED BY <3>1, <3>2
  <2> QED BY <2>1, <2>4, <2>5, <2>6 DEF FilesInv
<1>3. CASE Tick \/ SetReporting \/ ActivateLog \/ UNCHANGED vars
  <2>1. UNCHANGED <<inode, edits, versions, pc, loc>>
    BY <1>3 DEF Tick, SetReporting, ActivateLog, vars, world
  <2> QED BY <2>1 DEF FilesInv, Vouched, Untorn
<1> QED BY <1>1, <1>2, <1>3 DEF Next

\* pacer_limit.c:793-942: whatever the user does to the file between any two
\* system calls, and whichever call fails, what is parsed is one state the
\* file really had.
THEOREM ParsedIsOneState == Spec => []NoTornConfig
<1>1. Init => Base /\ FilesInv
  BY InitType, InitFiles DEF Base
<1>2. (Base /\ FilesInv) /\ [Next]_vars => (Base /\ FilesInv)'
  BY StepBase, StepFiles
<1>3. Base /\ FilesInv => NoTornConfig
  BY DEF FilesInv, Untorn, NoTornConfig
<1> QED BY <1>1, <1>2, <1>3, PTL DEF Spec

-----------------------------------------------------------------------------
\* Settings are as fresh as the last check.  The time of a check is stored
\* after what it found, and what it found was read after that time was taken.
Checked == Reading \cup {"publish"} \cup Publishing

OnTime(t) ==
    LET l == loc[t] IN
    /\ l.now <= now
    /\ pc[t] \in Checked => /\ l.now <= l.checkedAt /\ l.checkedAt <= now
                            /\ fpsAt <= l.checkedAt /\ quotaAt <= l.checkedAt
    /\ pc[t] \in Publishing \ {"publish_fps"} => fpsAt = l.checkedAt
    /\ pc[t] \in {"publish_revision", "publish_check"} => quotaAt = l.checkedAt
    /\ pc[t] = "load" => l.now - fpsAt < Poll
    /\ pc[t] \in {"load"} \cup (PolledAt \ {"done"}) => l.now - quotaAt < Poll
    /\ pc[t] \in PolledAt => l.now - l.fpsAt < Poll
    /\ pc[t] = "done" => l.now - l.quotaAt < Poll

CheckedLast == /\ lastCheck <= fpsAt /\ lastCheck <= quotaAt
               /\ fpsAt <= now /\ quotaAt <= now

TimeInv == CheckedLast /\ \A t \in Threads : OnTime(t)

LEMMA InitTime == Init => TimeInv
<1> SUFFICES ASSUME Init PROVE TimeInv
  OBVIOUS
<1>1. \A t \in Threads : pc[t] = "idle" /\ loc[t].now = 0
  BY DEF Init, Idle
<1> QED BY <1>1 DEF Init, TimeInv, OnTime, CheckedLast, Checked, Reading, Publishing,
           PolledAt, HasBackend, Reporting

\* A store moves the time of the settings forward.
LEMMA StoreForward ==
    ASSUME Base, TimeInv, NEW t \in Threads, Thread(t)
    PROVE  /\ CheckedLast' /\ fpsAt <= fpsAt' /\ quotaAt <= quotaAt'
           /\ pc[t] \notin Publishing => UNCHANGED <<fpsAt, quotaAt, lastCheck>>
<1>0. /\ loc[t] \in LocT /\ CheckedLast /\ OnTime(t)
      /\ now \in Nat /\ lastCheck \in Nat /\ fpsAt \in Nat /\ quotaAt \in Nat
      /\ UNCHANGED now
  BY ThreadFrame DEF Base, LimitTypeOK, ThreadsOK, WorldOK, SharedOK, TimeInv
<1>1. loc[t].now \in Nat /\ loc[t].checkedAt \in Nat
  BY <1>0 DEF LocT
<1>2. CASE pc[t] \notin {"publish"} \cup Publishing
  BY <1>0, <1>2, QuietStep DEF published, CheckedLast
<1>3. CASE pc[t] \in {"publish"} \cup Publishing
  <2>1. Publish(t) \/ PublishFps(t) \/ PublishQuota(t) \/ PublishRevision(t)
        \/ PublishCheck(t)
    BY <1>3 DEF Thread, Publishing, Begin, Check, Load, Refresh, Stat, Open,
     ReadA, ReadB, Verify, IoError, Due, Compare, ReportLock, Snapshot, Report,
     LoadQuota, Return
  <2> QED BY <1>0, <1>1, <2>1 DEF Publish, PublishFps, PublishQuota, PublishRevision,
             PublishCheck, CheckedLast, OnTime, Checked, Publishing
<1> QED BY <1>2, <1>3

\* The thread that moves keeps its own times in order.
LEMMA OnTimeStep ==
    ASSUME Base, TimeInv, NEW t \in Threads, Thread(t)
    PROVE  OnTime(t)'
<1>0. /\ loc[t] \in LocT /\ loc \in [Threads -> LocT] /\ pc \in [Threads -> Labels]
      /\ UNCHANGED now
      /\ OnTime(t) /\ CheckedLast
  BY ThreadFrame DEF Base, LimitTypeOK, ThreadsOK, TimeInv
<1>a. /\ now \in Nat /\ lastCheck \in Nat /\ fpsAt \in Nat /\ quotaAt \in Nat
      /\ Poll \in Nat
  BY LimitAssumption DEF Base, LimitTypeOK, WorldOK, SharedOK
<1>b. /\ loc[t].now \in Nat /\ loc[t].checkedAt \in Nat /\ loc[t].fpsAt \in Nat
      /\ pc[t] \notin Publishing => UNCHANGED <<fpsAt, quotaAt, lastCheck>>
  BY <1>0, StoreForward DEF LocT
<1> USE DEF Goto, OnTime, CheckedLast, Checked, Reading, Publishing, PolledAt,
            HasBackend, Reporting
<1>1. CASE Begin(t)
  BY <1>0, <1>a, <1>b, <1>1 DEF Begin, Idle
<1>2. CASE Check(t)
  BY <1>0, <1>a, <1>b, <1>2, IdleType, LimitAssumption DEF Check, Polled, Recent, LocT
<1>3. CASE Load(t)
  BY <1>0, <1>a, <1>b, <1>3, IdleType, LimitAssumption DEF Load, Polled, Recent, LocT
<1>4. CASE Refresh(t)
  <2>1. CASE Recent(lastCheck, loc[t].now) /\ Polled(t, fpsAt)
    <3>1. loc'[t].now = loc[t].now /\ loc'[t].fpsAt = fpsAt
      BY <1>0, <2>1, IdleType DEF Polled, LocT
    <3>2. pc'[t] \in {"due", "quota"}
      BY <1>0, <2>1 DEF Polled
    <3> QED BY <1>0, <1>a, <1>b, <1>4, <2>1, <3>1, <3>2 DEF Refresh, Recent
  <2>2. CASE UNCHANGED loc /\ pc'[t] = "stat"
    BY <1>0, <1>a, <1>b, <1>4, <2>2 DEF Refresh
  <2> QED BY <1>0, <1>4, <2>1, <2>2 DEF Refresh
<1>5. CASE Stat(t)
  <2>1. loc'[t].now = loc[t].now /\ loc'[t].checkedAt = now
    BY <1>0, <1>5 DEF Stat, LocT
  <2>2. pc'[t] \in {"open", "publish"}
    BY <1>0, <1>5 DEF Stat
  <2> QED BY <1>0, <1>a, <1>b, <1>5, <2>1, <2>2 DEF Stat
<1>6. CASE Open(t)
  <2>1. loc'[t].now = loc[t].now /\ loc'[t].checkedAt = loc[t].checkedAt
    BY <1>0, <1>6 DEF Open, Resolved, LocT
  <2>2. pc'[t] \in {"read_a", "publish"}
    BY <1>0, <1>6 DEF Open, Resolved
  <2> QED BY <1>0, <1>a, <1>b, <1>6, <2>1, <2>2 DEF Open
<1>7. CASE ReadA(t)
  <2>1. loc'[t].now = loc[t].now /\ loc'[t].checkedAt = loc[t].checkedAt
        /\ loc'[t].fpsAt = loc[t].fpsAt
    BY <1>0, <1>7 DEF ReadA, LocT
  <2> QED BY <1>0, <1>a, <1>b, <1>7, <2>1 DEF ReadA
<1>8. CASE ReadB(t)
  <2>1. loc'[t].now = loc[t].now /\ loc'[t].checkedAt = loc[t].checkedAt
        /\ loc'[t].fpsAt = loc[t].fpsAt
    BY <1>0, <1>8 DEF ReadB, LocT
  <2> QED BY <1>0, <1>a, <1>b, <1>8, <2>1 DEF ReadB
<1>9. CASE Verify(t)
  <2>1. loc'[t].now = loc[t].now /\ loc'[t].checkedAt = loc[t].checkedAt
    BY <1>0, <1>9 DEF Verify, Resolved, LocT
  <2>2. pc'[t] \in {"read_a", "publish"}
    BY <1>0, <1>9 DEF Verify, Resolved
  <2> QED BY <1>0, <1>a, <1>b, <1>9, <2>1, <2>2 DEF Verify
<1>10. CASE IoError(t)
  <2>1. loc'[t].now = loc[t].now /\ loc'[t].checkedAt = loc[t].checkedAt
    BY <1>0, <1>10 DEF IoError, Resolved, LocT
  <2>2. pc'[t] \in {"read_a", "publish"}
    BY <1>0, <1>10 DEF IoError, Resolved
  <2> QED BY <1>0, <1>a, <1>b, <1>10, <2>1, <2>2 DEF IoError
<1>11. CASE Publish(t)
  <2>1. loc'[t].now = loc[t].now /\ loc'[t].checkedAt = loc[t].checkedAt
    BY <1>0, <1>11, IdleType DEF Publish, LocT
  <2> QED BY <1>0, <1>a, <1>b, <1>11, <2>1 DEF Publish
<1>12. CASE PublishFps(t)
  <2>1. loc'[t].now = loc[t].now /\ loc'[t].checkedAt = loc[t].checkedAt
        /\ loc'[t].fpsAt = loc[t].fpsAt
    BY <1>0, <1>12 DEF PublishFps, LocT
  <2> QED BY <1>0, <1>a, <1>b, <1>12, <2>1 DEF PublishFps
<1>13. CASE PublishQuota(t)
  <2>1. loc'[t].now = loc[t].now /\ loc'[t].checkedAt = loc[t].checkedAt
        /\ loc'[t].fpsAt = loc[t].fpsAt
    BY <1>0, <1>13 DEF PublishQuota, LocT
  <2> QED BY <1>0, <1>a, <1>b, <1>13, <2>1 DEF PublishQuota
<1>14. CASE PublishRevision(t)
  <2>1. loc'[t].now = loc[t].now /\ loc'[t].checkedAt = loc[t].checkedAt
        /\ loc'[t].fpsAt = loc[t].fpsAt
    BY <1>0, <1>14 DEF PublishRevision, LocT
  <2> QED BY <1>0, <1>a, <1>b, <1>14, <2>1 DEF PublishRevision
<1>15. CASE PublishCheck(t)
  <2>1. loc'[t].now = loc[t].now /\ loc'[t].fpsAt = loc[t].checkedAt
    BY <1>0, <1>15, IdleType DEF PublishCheck, Polled, LocT
  <2>2. pc'[t] \in {"due", "quota"}
    BY <1>0, <1>15 DEF PublishCheck, Polled
  <2> QED BY <1>0, <1>a, <1>b, <1>15, <2>1, <2>2, LimitAssumption DEF PublishCheck
<1>16. CASE Due(t)
  <2>1. loc'[t].now = loc[t].now /\ loc'[t].checkedAt = loc[t].checkedAt
        /\ loc'[t].fpsAt = loc[t].fpsAt
    BY <1>0, <1>16 DEF Due, LocT
  <2> QED BY <1>0, <1>a, <1>b, <1>16, <2>1 DEF Due
<1>17. CASE Compare(t)
  <2>1. loc'[t].now = loc[t].now /\ loc'[t].checkedAt = loc[t].checkedAt
        /\ loc'[t].fpsAt = loc[t].fpsAt
    BY <1>0, <1>17 DEF Compare, LocT
  <2> QED BY <1>0, <1>a, <1>b, <1>17, <2>1 DEF Compare
<1>18. CASE ReportLock(t)
  <2>1. loc'[t].now = loc[t].now /\ loc'[t].checkedAt = loc[t].checkedAt
        /\ loc'[t].fpsAt = loc[t].fpsAt
    BY <1>0, <1>18 DEF ReportLock, LocT
  <2> QED BY <1>0, <1>a, <1>b, <1>18, <2>1 DEF ReportLock
<1>19. CASE Snapshot(t)
  <2>1. loc'[t].now = loc[t].now /\ loc'[t].checkedAt = loc[t].checkedAt
        /\ loc'[t].fpsAt = loc[t].fpsAt
    BY <1>0, <1>19 DEF Snapshot, LocT
  <2> QED BY <1>0, <1>a, <1>b, <1>19, <2>1 DEF Snapshot
<1>20. CASE Report(t)
  <2>1. loc'[t].now = loc[t].now /\ loc'[t].checkedAt = loc[t].checkedAt
        /\ loc'[t].fpsAt = loc[t].fpsAt
    BY <1>0, <1>20 DEF Report, LocT
  <2> QED BY <1>0, <1>a, <1>b, <1>20, <2>1 DEF Report
<1>21. CASE LoadQuota(t)
  <2>1. loc'[t].now = loc[t].now /\ loc'[t].fpsAt = loc[t].fpsAt
        /\ loc'[t].quotaAt = quotaAt
    BY <1>0, <1>21, IdleType DEF LoadQuota, LocT
  <2> QED BY <1>0, <1>a, <1>b, <1>21, <2>1 DEF LoadQuota
<1>22. CASE Return(t)
  BY <1>0, <1>a, <1>b, <1>22 DEF Return, Idle
<1> QED BY <1>1, <1>2, <1>3, <1>4, <1>5, <1>6, <1>7, <1>8, <1>9, <1>10, <1>11, <1>12, <1>13, <1>14, <1>15, <1>16, <1>17, <1>18, <1>19, <1>20, <1>21, <1>22 DEF Thread

LEMMA StepTime == Base /\ TimeInv /\ [Next]_vars => TimeInv'
<1> SUFFICES ASSUME Base, TimeInv, [Next]_vars PROVE TimeInv'
  OBVIOUS
<1>0. /\ now \in Nat /\ lastCheck \in Nat /\ fpsAt \in Nat /\ quotaAt \in Nat
      /\ Poll \in Nat
      /\ \A u \in Threads : /\ loc[u].now \in Nat /\ loc[u].checkedAt \in Nat
                            /\ loc[u].fpsAt \in Nat /\ loc[u].quotaAt \in Nat
  BY LimitAssumption DEF Base, LimitTypeOK, WorldOK, SharedOK, ThreadsOK, LocT
<1>1. ASSUME NEW t \in Threads, Thread(t) PROVE TimeInv'
  <2>1. /\ CheckedLast' /\ fpsAt <= fpsAt' /\ quotaAt <= quotaAt'
        /\ pc[t] \notin Publishing => UNCHANGED <<fpsAt, quotaAt, lastCheck>>
        /\ UNCHANGED now
    BY <1>1, StoreForward, ThreadFrame
  <2>2. fpsAt' \in Nat /\ quotaAt' \in Nat
    BY <1>1, SharedStep DEF Base, SharedOK
  <2>3. ASSUME NEW u \in Threads \ {t} PROVE OnTime(u)'
    <3>1. pc'[u] = pc[u] /\ loc'[u] = loc[u]
      BY <1>1, ThreadStep DEF Base, LimitTypeOK, ThreadsOK
    <3>2. OnTime(u)
      BY DEF TimeInv
    <3>3. CASE pc[u] \in Checked
      <4>1. pc[t] \notin Publishing
        BY <3>3 DEF Base, Locked, Critical, Checked
      <4> QED BY <2>1, <3>1, <3>2, <4>1 DEF OnTime
    <3>4. CASE pc[u] \notin Checked
      <4>1. pc[u] \notin Publishing
        BY <3>4 DEF Checked
      <4> QED BY <1>0, <2>1, <2>2, <3>1, <3>2, <3>4, <4>1 DEF OnTime, Publishing
    <3> QED BY <3>3, <3>4
  <2> QED BY <1>1, <2>1, <2>3, OnTimeStep DEF TimeInv
<1>2. CASE Tick
  BY <1>0, <1>2 DEF Tick, TimeInv, OnTime, CheckedLast, published
<1>3. CASE Write \/ Chmod \/ Remove \/ Replace
  <2>1. UNCHANGED <<now, published, pc, loc>>
    BY <1>3, UserStep DEF Base, LimitTypeOK
  <2> QED BY <2>1 DEF TimeInv, OnTime, CheckedLast, published
<1>4. CASE SetReporting \/ ActivateLog \/ UNCHANGED vars
  <2>1. UNCHANGED <<now, fpsAt, quotaAt, pc, loc>> /\ lastCheck' \in {0, lastCheck}
    BY <1>4 DEF SetReporting, ActivateLog, vars, published
  <2> QED BY <1>0, <2>1 DEF TimeInv, OnTime, CheckedLast
<1> QED BY <1>1, <1>2, <1>3, <1>4 DEF Next

\* pacer_limit.c:983-994 and 1009-1014: no poll hands out settings that were
\* read more than one interval before it, with the mutex or without.
THEOREM PollIsFresh == Spec => []Fresh
<1>1. Init => Base /\ TimeInv
  BY InitType, InitTime DEF Base
<1>2. (Base /\ TimeInv) /\ [Next]_vars => (Base /\ TimeInv)'
  BY StepBase, StepTime
<1>3. Base /\ TimeInv => Fresh
  BY DEF TimeInv, OnTime, PolledAt, HasBackend, Reporting, Fresh
<1> QED BY <1>1, <1>2, <1>3, PTL DEF Spec

-----------------------------------------------------------------------------
\* What is reported is what is enforced.  While one thread publishes, the
\* stores it has made already agree with its result.
Next_rev(t) == IF revision = 0 \/ ~same_effective(effective, loc[t].result)
               THEN revision + 1 ELSE revision

Storing(t) ==
    LET r == loc[t].result IN
    /\ pc[t] \in {"publish"} \cup Publishing =>
         (r.status # "valid" => r.fps = 0 /\ r.quota = 0)
    /\ pc[t] \in Publishing /\ reporting =>
         /\ effective.rev = loc[t].rev /\ effective.status = r.status
         /\ effective.fps = r.fps /\ effective.quota = r.quota
         /\ loc[t].rev # 0 /\ loc[t].rev \in {revision, revision + 1}
    /\ pc[t] \in Publishing \ {"publish_fps"} => fps = r.fps
    /\ pc[t] \in {"publish_revision", "publish_check"} => quota = r.quota
    /\ pc[t] = "publish_check" /\ reporting => revision = loc[t].rev

\* Between publications.
Agreed == /\ effective.rev = revision
          /\ effective.fps = fps /\ effective.quota = quota
          /\ effective.status # "valid" => fps = 0 /\ quota = 0

Silent == /\ ~reporting => revision = 0 /\ effective.rev = 0
          /\ ~logInit => ~reporting

EnforcedInv ==
    /\ Silent
    /\ \A t \in Threads : Storing(t)
    /\ revision # 0 /\ (\A t \in Threads : pc[t] \notin Publishing) => Agreed

LEMMA InitEnforced == Init => EnforcedInv
BY DEF Init, EnforcedInv, Silent, Storing, Agreed, Publishing, Unresolved

\* Between two stores of a refresh the other threads publish nothing.
LEMMA OnePublisher ==
    ASSUME Base, NEW t \in Threads, NEW u \in Threads, u # t, pc[t] \in Critical
    PROVE  pc[u] \notin Critical
BY DEF Base, Locked

\* The thread that moves keeps its part.
LEMMA StoringStep ==
    ASSUME Base, EnforcedInv, NEW t \in Threads, Thread(t)
    PROVE  Storing(t)'
<1>0. /\ loc[t] \in LocT /\ loc \in [Threads -> LocT] /\ pc \in [Threads -> Labels]
      /\ Storing(t) /\ WorldOK
  BY DEF Base, LimitTypeOK, ThreadsOK, EnforcedInv
<1>a. revision \in Nat
  BY DEF Base, LimitTypeOK, SharedOK
<1>b. UNCHANGED reporting
  BY ThreadFrame DEF logState
<1> USE DEF Goto, Storing, Publishing
<1>1. CASE Begin(t)
  BY <1>0, <1>1 DEF Begin, Polled
<1>2. CASE Check(t)
  BY <1>0, <1>2 DEF Check, Polled
<1>3. CASE Load(t)
  BY <1>0, <1>3 DEF Load, Polled
<1>4. CASE Refresh(t)
  BY <1>0, <1>4 DEF Refresh, Polled
<1>5. CASE Stat(t)
  <2>1. CASE pc'[t] = "publish"
    <3>1. \E st : st # "valid" /\ loc'[t].result = Failure(st)
      <4>1. PICK st \in {StatResult, "unreadable"} : loc'[t].result = Failure(st)
        BY <1>0, <1>5, <2>1 DEF Stat, LocT
      <4>2. path = 0 \/ inode[path].form \in Kinds
        <5>1. path = 0 \/ path \in DOMAIN inode
          BY <1>0 DEF WorldOK
        <5> QED BY <1>0, <5>1, FileType
      <4>3. st # "valid"
        BY <4>1, <4>2 DEF StatResult, Kinds
      <4> QED BY <4>1, <4>3
    <3> QED BY <2>1, <3>1 DEF Failure
  <2>2. CASE pc'[t] = "open"
    BY <2>2
  <2> QED BY <1>0, <1>5, <2>1, <2>2 DEF Stat
<1>6. CASE Open(t)
  <2>1. CASE pc'[t] = "publish"
    <3>1. \E st : st # "valid" /\ loc'[t].result = Failure(st)
      BY <1>0, <1>6, <2>1 DEF Open, Resolved, LocT
    <3> QED BY <2>1, <3>1 DEF Failure
  <2>2. CASE pc'[t] = "read_a"
    BY <2>2
  <2> QED BY <1>0, <1>6, <2>1, <2>2 DEF Open, Resolved
<1>7. CASE ReadA(t)
  BY <1>0, <1>7 DEF ReadA, Polled
<1>8. CASE ReadB(t)
  BY <1>0, <1>8 DEF ReadB, Polled
<1>9. CASE Verify(t)
  <2>1. pc'[t] = "publish" /\ loc'[t].result \in {Parse(loc[t].a, loc[t].b), Failure("changed")}
    BY <1>0, <1>9 DEF Verify, Resolved, LocT
  <2> QED BY <2>1 DEF Parse, Failure
<1>10. CASE IoError(t)
  <2>1. CASE pc'[t] = "publish"
    <3>1. \E st : st # "valid" /\ loc'[t].result = Failure(st)
      BY <1>0, <1>10, <2>1 DEF IoError, Resolved, LocT
    <3> QED BY <2>1, <3>1 DEF Failure
  <2>2. CASE pc'[t] = "read_a"
    BY <2>2
  <2> QED BY <1>0, <1>10, <2>1, <2>2 DEF IoError, Resolved
<1>11. CASE Publish(t)
  <2>1. /\ pc'[t] = "publish_fps" /\ loc'[t].result = loc[t].result
        /\ loc'[t].rev = IF reporting THEN Next_rev(t) ELSE 0
    BY <1>0, <1>11, IdleType DEF Publish, LocT, Next_rev
  <2>2. effective' = IF reporting
                     THEN [status |-> loc[t].result.status, fps |-> loc[t].result.fps,
                           quota |-> loc[t].result.quota, rev |-> Next_rev(t)]
                     ELSE effective
    BY <1>11 DEF Publish, Next_rev
  <2>3. Next_rev(t) \in {revision, revision + 1} /\ Next_rev(t) # 0
    BY <1>a DEF Next_rev
  <2>4. UNCHANGED <<revision, reporting>>
    BY <1>b, <1>11 DEF Publish
  <2>5. reporting => /\ effective'.rev = Next_rev(t)
                     /\ effective'.status = loc[t].result.status
                     /\ effective'.fps = loc[t].result.fps
                     /\ effective'.quota = loc[t].result.quota
    BY <2>2
  <2>6. loc[t].result.status # "valid"
            => loc[t].result.fps = 0 /\ loc[t].result.quota = 0
    BY <1>0, <1>11 DEF Publish
  <2> QED BY <2>1, <2>3, <2>4, <2>5, <2>6
<1>12. CASE PublishFps(t)
  BY <1>0, <1>b, <1>12 DEF PublishFps
<1>13. CASE PublishQuota(t)
  BY <1>0, <1>b, <1>13 DEF PublishQuota
<1>14. CASE PublishRevision(t)
  BY <1>0, <1>b, <1>14 DEF PublishRevision
<1>15. CASE PublishCheck(t)
  BY <1>0, <1>15 DEF PublishCheck, Polled
<1>16. CASE Due(t)
  BY <1>0, <1>16 DEF Due, Polled
<1>17. CASE Compare(t)
  BY <1>0, <1>17 DEF Compare, Polled
<1>18. CASE ReportLock(t)
  BY <1>0, <1>18 DEF ReportLock, Polled
<1>19. CASE Snapshot(t)
  BY <1>0, <1>19 DEF Snapshot, Polled
<1>20. CASE Report(t)
  BY <1>0, <1>20 DEF Report, Polled
<1>21. CASE LoadQuota(t)
  BY <1>0, <1>21 DEF LoadQuota, Polled
<1>22. CASE Return(t)
  BY <1>0, <1>22 DEF Return, Polled
<1> QED BY <1>1, <1>2, <1>3, <1>4, <1>5, <1>6, <1>7, <1>8, <1>9, <1>10, <1>11, <1>12, <1>13, <1>14, <1>15, <1>16, <1>17, <1>18, <1>19, <1>20, <1>21, <1>22 DEF Thread

LEMMA StepEnforced == Base /\ EnforcedInv /\ [Next]_vars => EnforcedInv'
<1> SUFFICES ASSUME Base, EnforcedInv, [Next]_vars PROVE EnforcedInv'
  OBVIOUS
<1>0. Silent /\ effective \in SnapT /\ revision \in Nat
  BY DEF EnforcedInv, Base, LimitTypeOK, SharedOK
<1>1. ASSUME NEW t \in Threads, Thread(t) PROVE EnforcedInv'
  <2>0. UNCHANGED logState
    BY <1>1, ThreadFrame
  <2>1. pc[t] \notin {"publish"} \cup Publishing => UNCHANGED published
    BY <1>1, QuietStep
  <2>2. \A u \in Threads \ {t} : pc'[u] = pc[u] /\ loc'[u] = loc[u]
    BY <1>1, ThreadStep DEF Base, LimitTypeOK, ThreadsOK
  <2>3. Silent'
    <3>1. CASE UNCHANGED published
      BY <1>0, <2>0, <3>1 DEF Silent, published, logState
    <3>2. CASE pc[t] \in {"publish"} \cup Publishing
      <4>1. /\ effective' = effective \/ reporting
            /\ revision' = revision \/ reporting
        BY <1>1, <3>2, Zenon DEF Thread, Publishing, Begin, Check, Load, Refresh, Stat,
           Open, ReadA, ReadB, Verify, IoError, Due, Compare, ReportLock, Snapshot,
           Report, LoadQuota, Return, Publish, PublishFps, PublishQuota,
           PublishRevision, PublishCheck
      <4> QED BY <1>0, <2>0, <4>1 DEF Silent, logState
    <3> QED BY <2>1, <3>1, <3>2
  <2>4. ASSUME NEW u \in Threads \ {t} PROVE Storing(u)'
    <3>1. Storing(u)
      BY DEF EnforcedInv
    <3>2. CASE pc[u] \in {"publish"} \cup Publishing
      <4>1. pc[t] \notin {"publish"} \cup Publishing
        BY <3>2, OnePublisher DEF Critical
      <4> QED BY <2>0, <2>1, <2>2, <3>1, <4>1 DEF Storing, published, logState
    <3>3. CASE pc[u] \notin {"publish"} \cup Publishing
      BY <2>2, <3>3 DEF Storing, Publishing
    <3> QED BY <3>2, <3>3
  <2>5. ASSUME revision' # 0, \A u \in Threads : pc'[u] \notin Publishing
        PROVE  Agreed'
    <3>1. \A u \in Threads \ {t} : pc[u] \notin Publishing
      BY <2>2, <2>5
    <3>2. CASE pc[t] \in Publishing
      <4>1. PublishCheck(t)
        BY <1>1, <2>5, <3>2 DEF Thread, Publishing, Begin, Check, Load, Refresh, Stat,
           Open, ReadA, ReadB, Verify, IoError, Due, Compare, ReportLock, Snapshot,
           Report, LoadQuota, Return, Publish, PublishFps, PublishQuota,
           PublishRevision, Goto, Base, LimitTypeOK, ThreadsOK
      <4>2. /\ UNCHANGED <<revision, effective, fps, quota>> /\ Storing(t)
            /\ pc[t] = "publish_check"
        BY <4>1 DEF PublishCheck, EnforcedInv
      <4>3. reporting
        BY <1>0, <2>5, <4>2 DEF Silent
      <4> QED BY <4>2, <4>3 DEF Storing, Agreed, Publishing
    <3>3. CASE pc[t] = "publish"
      <4>1. pc'[t] = "publish_fps"
        BY <1>1, <3>3 DEF Thread, Begin, Check, Load, Refresh, Stat,
           Open, ReadA, ReadB, Verify, IoError, Due, Compare, ReportLock, Snapshot,
           Report, LoadQuota, Return, Publish, PublishFps, PublishQuota,
           PublishRevision, PublishCheck, Goto, Base, LimitTypeOK, ThreadsOK
      <4> QED BY <2>5, <4>1 DEF Publishing
    <3>4. CASE pc[t] \notin {"publish"} \cup Publishing
      BY <2>1, <2>5, <3>1, <3>4 DEF EnforcedInv, Agreed, published
    <3> QED BY <3>2, <3>3, <3>4
  <2> QED BY <1>1, <2>3, <2>4, <2>5, StoringStep DEF EnforcedInv
<1>2. CASE SetReporting
  <2>1. \A u \in Threads : pc[u] \notin Critical
    BY <1>2, LimitAssumption DEF SetReporting, Base, Locked
  <2>2. \A u \in Threads : pc[u] \notin {"publish"} \cup Publishing
    BY <2>1 DEF Critical
  <2>3. Silent'
    BY <1>0, <1>2 DEF SetReporting, Silent
  <2>4. \A u \in Threads : Storing(u)'
    BY <1>2, <2>2 DEF SetReporting, Storing, Publishing
  <2> QED BY <1>2, <2>3, <2>4 DEF SetReporting, EnforcedInv
<1>3. CASE \/ Tick \/ ActivateLog \/ UNCHANGED vars
           \/ Write \/ Chmod \/ Remove \/ Replace
  <2>1. UNCHANGED <<pc, loc, published, reporting, logInit>>
    <3>1. CASE Write \/ Chmod \/ Remove \/ Replace
      BY <3>1, UserStep DEF Base, LimitTypeOK, logState
    <3> QED BY <1>3, <3>1 DEF Tick, ActivateLog, vars, published, logState
  <2> QED BY <2>1 DEF EnforcedInv, Silent, Storing, Agreed, published
<1> QED BY <1>1, <1>2, <1>3 DEF Next

\* pacer_limit.c:976-990: whenever no refresh is under way, the snapshot that
\* carries the current revision is what is enforced.
THEOREM SnapshotIsEnforced == Spec => []ReportedIsEnforced
<1>1. Init => Base /\ EnforcedInv
  BY InitType, InitEnforced DEF Base
<1>2. (Base /\ EnforcedInv) /\ [Next]_vars => (Base /\ EnforcedInv)'
  BY StepBase, StepEnforced
<1>3. Base /\ EnforcedInv => ReportedIsEnforced
  BY LimitAssumption DEF Base, Locked, EnforcedInv, Agreed, Critical, ReportedIsEnforced
<1> QED BY <1>1, <1>2, <1>3, PTL DEF Spec

-----------------------------------------------------------------------------
\* Reports follow revisions.  A slot never runs ahead of the revision, and a
\* report about to be written is newer than any in its slot and says what
\* every other report of its revision says.
Slots == \A b \in Backends :
            /\ reported[b] <= revision
            /\ \A j \in DOMAIN written[b] : written[b][j].rev <= reported[b]

Current == \A b \in Backends : \A j \in DOMAIN written[b] :
              written[b][j].rev = effective.rev => written[b][j] = effective

Drafted(t) ==
    LET s == loc[t].snap IN
    /\ pc[t] = "snapshot" => loc[t].known = reported[loc[t].backend]
    /\ pc[t] = "report" =>
         /\ reported[loc[t].backend] < s.rev /\ s.rev <= revision
         /\ s.rev = effective.rev => s = effective
         /\ \A b \in Backends : \A j \in DOMAIN written[b] :
               written[b][j].rev = s.rev => written[b][j] = s

ReportInv == /\ Slots /\ Current
             /\ \A t \in Threads : Drafted(t)
             /\ OneReportPerRevision /\ RevisionNamesConfig

LEMMA InitReports == Init => ReportInv
<1> SUFFICES ASSUME Init PROVE ReportInv
  OBVIOUS
<1>1. \A b \in Backends : reported[b] = 0 /\ DOMAIN written[b] = {}
  BY DEF Init
<1>2. revision = 0 /\ \A t \in Threads : pc[t] = "idle"
  BY DEF Init
<1> QED BY <1>1, <1>2 DEF ReportInv, Slots, Current, Drafted, OneReportPerRevision,
           RevisionNamesConfig

\* Numbers and records the reports are made of.
LEMMA ReportTypes ==
    ASSUME Base
    PROVE  /\ revision \in Nat /\ effective \in SnapT /\ effective.rev \in Nat
           /\ \A b \in Backends :
                /\ reported[b] \in Nat /\ written[b] \in Seq(SnapT)
                /\ \A j \in DOMAIN written[b] : /\ written[b][j] \in SnapT
                                                /\ written[b][j].rev \in Nat
           /\ \A t \in Threads : loc[t].snap \in SnapT /\ loc[t].snap.rev \in Nat
<1>1. /\ revision \in Nat /\ effective \in SnapT
      /\ \A b \in Backends : reported[b] \in Nat /\ written[b] \in Seq(SnapT)
  BY DEF Base, LimitTypeOK, SharedOK
<1>2. \A b \in Backends : \A j \in DOMAIN written[b] : written[b][j] \in SnapT
  BY <1>1
<1>3. \A t \in Threads : loc[t].snap \in SnapT
  BY DEF Base, LimitTypeOK, ThreadsOK, LocT
<1> QED BY <1>1, <1>2, <1>3 DEF SnapT

\* A publication keeps what is reported apart from what comes next: either
\* the revision is new, or nothing has changed.
LEMMA PublishedAnew ==
    ASSUME Base, EnforcedInv, NEW t \in Threads, Thread(t)
    PROVE  /\ revision <= revision'
           /\ effective' = effective \/ effective'.rev = revision + 1
<1>0. revision \in Nat /\ effective \in SnapT /\ loc[t] \in LocT /\ Storing(t)
  BY ReportTypes DEF Base, LimitTypeOK, ThreadsOK, EnforcedInv
<1>1. CASE pc[t] \notin {"publish"} \cup Publishing
  BY <1>0, <1>1, QuietStep DEF published
<1>2. CASE Publish(t)
  <2> DEFINE r == loc[t].result
  <2>1. /\ UNCHANGED revision
        /\ effective' = IF reporting
                        THEN [status |-> r.status, fps |-> r.fps,
                              quota |-> r.quota, rev |-> Next_rev(t)]
                        ELSE effective
    BY <1>2 DEF Publish, Next_rev
  <2>2. CASE ~reporting
    BY <1>0, <2>1, <2>2
  <2>3. CASE reporting /\ Next_rev(t) = revision + 1
    BY <1>0, <2>1, <2>3
  <2>4. CASE reporting /\ Next_rev(t) # revision + 1
    <3>1. revision # 0 /\ same_effective(effective, r) /\ Next_rev(t) = revision
      BY <2>4 DEF Next_rev
    <3>2. \A u \in Threads : pc[u] \notin Publishing
      <4>1. pc[t] \in Critical /\ pc[t] \notin Publishing
        BY <1>2 DEF Publish, Critical, Publishing
      <4> QED BY <4>1, OnePublisher DEF Critical
    <3>3. effective.rev = revision
      BY <3>1, <3>2 DEF EnforcedInv, Agreed
    <3>4. effective' = [status |-> effective.status, fps |-> effective.fps,
                        quota |-> effective.quota, rev |-> effective.rev]
      BY <2>1, <2>4, <3>1, <3>3 DEF same_effective
    <3>5. effective' = effective
      BY <1>0, <3>4 DEF SnapT
    <3> QED BY <1>0, <2>1, <3>5
  <2> QED BY <2>2, <2>3, <2>4
<1>3. CASE PublishRevision(t)
  BY <1>0, <1>3 DEF PublishRevision, Storing, Publishing
<1>4. CASE PublishFps(t) \/ PublishQuota(t) \/ PublishCheck(t)
  BY <1>0, <1>4 DEF PublishFps, PublishQuota, PublishCheck
<1>5. CASE pc[t] \in {"publish"} \cup Publishing
  BY <1>2, <1>3, <1>4, <1>5 DEF Thread, Publishing, Begin, Check, Load, Refresh, Stat,
     Open, ReadA, ReadB, Verify, IoError, Due, Compare, ReportLock, Snapshot,
     Report, LoadQuota, Return
<1> QED BY <1>1, <1>5

\* As long as no report is written, the drafts of the threads that do not
\* move stay good.
LEMMA DraftKept ==
    ASSUME Base, Base', Slots, NEW u \in Threads, Drafted(u),
           UNCHANGED <<reported, written>>, pc'[u] = pc[u], loc'[u] = loc[u],
           revision <= revision',
           effective' = effective \/ effective'.rev = revision + 1
    PROVE  Drafted(u)'
<1>1. /\ revision \in Nat /\ revision' \in Nat /\ loc[u].snap.rev \in Nat
      /\ effective'.rev \in Nat
  BY ReportTypes DEF Base, LimitTypeOK, SharedOK, SnapT
<1>2. CASE pc[u] = "report"
  <2>1. loc[u].snap.rev <= revision' /\ loc[u].snap.rev # revision + 1
    BY <1>1, <1>2 DEF Drafted
  <2> QED BY <1>2, <2>1 DEF Drafted
<1>3. CASE pc[u] # "report"
  BY <1>3 DEF Drafted
<1> QED BY <1>2, <1>3

\* ... and so do the slots and the reports.
LEMMA SlotsKept ==
    ASSUME Base, Base', Slots, Current, OneReportPerRevision, RevisionNamesConfig,
           UNCHANGED <<reported, written>>, revision <= revision',
           effective' = effective \/ effective'.rev = revision + 1
    PROVE  Slots' /\ Current' /\ OneReportPerRevision' /\ RevisionNamesConfig'
<1>1. /\ revision \in Nat /\ revision' \in Nat
      /\ \A b \in Backends :
           /\ reported[b] \in Nat
           /\ \A j \in DOMAIN written[b] : written[b][j].rev \in Nat
  BY ReportTypes DEF Base, LimitTypeOK, SharedOK
<1>2. Slots'
  BY <1>1 DEF Slots
<1>3. \A b \in Backends : \A j \in DOMAIN written[b] :
          written[b][j].rev # revision + 1
  BY <1>1 DEF Slots
<1>4. Current'
  BY <1>3 DEF Current
<1> QED BY <1>2, <1>4 DEF OneReportPerRevision, RevisionNamesConfig

LEMMA StepReports == Base /\ EnforcedInv /\ ReportInv /\ [Next]_vars => ReportInv'
<1> SUFFICES ASSUME Base, EnforcedInv, ReportInv, [Next]_vars PROVE ReportInv'
  OBVIOUS
<1>0. Base' /\ Slots /\ Current /\ OneReportPerRevision /\ RevisionNamesConfig
  BY StepBase DEF ReportInv
<1>1. ASSUME NEW t \in Threads, Thread(t) PROVE ReportInv'
  <2>0. /\ revision <= revision'
        /\ effective' = effective \/ effective'.rev = revision + 1
    BY <1>1, PublishedAnew
  <2>1. \A u \in Threads \ {t} : pc'[u] = pc[u] /\ loc'[u] = loc[u]
    BY <1>1, ThreadStep DEF Base, LimitTypeOK, ThreadsOK
  <2>2. /\ pc[t] \in Labels /\ pc \in [Threads -> Labels] /\ Drafted(t)
        /\ loc[t] \in LocT /\ loc \in [Threads -> LocT]
        /\ pc[t] \in HasBackend => loc[t].backend \in Backends
    BY DEF Base, LimitTypeOK, ThreadsOK, ReportInv
  <2>3. CASE ReportLock(t)
    <3>1. UNCHANGED <<reported, written>> /\ pc'[t] = "snapshot"
      BY <2>2, <2>3 DEF ReportLock, Goto
    <3>2. /\ loc'[t].known = reported[loc[t].backend]
          /\ loc'[t].backend = loc[t].backend
      BY <2>2, <2>3 DEF ReportLock, LocT
    <3>3. Drafted(t)'
      BY <3>1, <3>2 DEF Drafted
    <3>4. \A u \in Threads \ {t} : Drafted(u)'
      BY <1>0, <2>0, <2>1, <3>1, DraftKept DEF ReportInv
    <3> QED BY <1>0, <2>0, <3>1, <3>3, <3>4, SlotsKept DEF ReportInv
  <2>4. CASE Snapshot(t)
    <3>1. UNCHANGED <<reported, written, revision, effective>>
      BY <2>4 DEF Snapshot, published
    <3>2. Drafted(t)'
      <4>1. CASE pc'[t] = "quota"
        BY <4>1 DEF Drafted
      <4>2. CASE pc'[t] # "quota"
        <5>1. /\ effective.rev = revision /\ effective.rev # loc[t].known
              /\ loc' = [loc EXCEPT ![t].snap = effective] /\ pc'[t] = "report"
              /\ pc[t] = "snapshot"
          BY <2>2, <2>4, <4>2 DEF Snapshot, Goto
        <5>2. loc'[t].snap = effective /\ loc'[t].backend = loc[t].backend
          BY <2>2, <5>1 DEF LocT
        <5>3. loc[t].backend \in Backends /\ loc[t].known = reported[loc[t].backend]
          BY <2>2, <5>1 DEF HasBackend, Reporting, Drafted
        <5>4. reported[loc[t].backend] < effective.rev
          BY <1>0, <5>1, <5>3, ReportTypes DEF Slots
        <5>5. effective.rev <= revision'
          BY <3>1, <5>1, ReportTypes
        <5> QED BY <1>0, <3>1, <5>1, <5>2, <5>4, <5>5 DEF Drafted, Current
      <4> QED BY <4>1, <4>2
    <3>3. \A u \in Threads \ {t} : Drafted(u)'
      BY <1>0, <2>0, <2>1, <3>1, DraftKept DEF ReportInv
    <3> QED BY <1>0, <2>0, <3>1, <3>2, <3>3, SlotsKept DEF ReportInv
  <2>5. CASE Report(t)
    <3> DEFINE b0 == loc[t].backend
               s0 == loc[t].snap
               n == Len(written[b0]) + 1
    <3>1. b0 \in Backends /\ pc[t] = "report" /\ s0 \in SnapT /\ s0.rev \in Nat
      BY <2>2, <2>5, ReportTypes DEF Report, HasBackend, Reporting
    <3>2. /\ reported[b0] < s0.rev /\ s0.rev <= revision
          /\ s0.rev = effective.rev => s0 = effective
          /\ \A b \in Backends : \A j \in DOMAIN written[b] :
               written[b][j].rev = s0.rev => written[b][j] = s0
      BY <2>2, <3>1 DEF Drafted
    <3>3. /\ UNCHANGED <<revision, effective, loc>>
          /\ written' = [written EXCEPT ![b0] = Append(@, s0)]
          /\ reported' = [reported EXCEPT ![b0] = s0.rev]
          /\ pc' = [pc EXCEPT ![t] = "quota"]
      BY <2>5 DEF Report, published, Goto
    <3>4. /\ \A b \in Backends \ {b0} : written'[b] = written[b] /\ reported'[b] = reported[b]
          /\ written'[b0] = Append(written[b0], s0) /\ reported'[b0] = s0.rev
      BY <3>1, <3>3 DEF Base, LimitTypeOK, SharedOK
    <3>5. /\ n \in Nat /\ DOMAIN written'[b0] = DOMAIN written[b0] \cup {n}
          /\ written'[b0][n] = s0
          /\ \A j \in DOMAIN written[b0] : j < n /\ j \in Nat /\ written'[b0][j] = written[b0][j]
      <4> DEFINE s == written[b0]
      <4>1. s \in Seq(SnapT) /\ s0 \in SnapT
        BY <3>1, ReportTypes
      <4>2. written'[b0] = Append(s, s0)
        BY <3>4
      <4> HIDE DEF s0, s
      <4>3. /\ Len(s) \in Nat /\ Append(s, s0) \in Seq(SnapT)
            /\ Len(Append(s, s0)) = Len(s) + 1
            /\ Append(s, s0)[Len(s) + 1] = s0
            /\ \A j \in 1..Len(s) : Append(s, s0)[j] = s[j]
        BY <4>1
      <4>4. DOMAIN s = 1..Len(s) /\ DOMAIN Append(s, s0) = 1..(Len(s) + 1)
        BY <4>1, <4>3
      <4> QED BY <4>2, <4>3, <4>4 DEF s
    <3> HIDE DEF b0, s0, n
    <3>6. \A b \in Backends : \A j \in DOMAIN written'[b] :
             \/ b = b0 /\ j = n /\ written'[b][j] = s0
             \/ j \in DOMAIN written[b] /\ written'[b][j] = written[b][j]
      BY <3>4, <3>5
    <3>7. Slots'
      <4>1. \A j \in DOMAIN written[b0] : written[b0][j].rev <= s0.rev
        BY <1>0, <3>1, <3>2, ReportTypes DEF Slots
      <4>2. ASSUME NEW b \in Backends, b # b0
            PROVE  /\ reported'[b] <= revision'
                   /\ \A j \in DOMAIN written'[b] : written'[b][j].rev <= reported'[b]
        BY <1>0, <3>3, <3>4, <4>2 DEF Slots
      <4>3. \A j \in DOMAIN written'[b0] : written'[b0][j].rev <= s0.rev
        BY <3>1, <3>5, <4>1
      <4> QED BY <3>1, <3>2, <3>3, <3>4, <4>2, <4>3 DEF Slots
    <3>8. Current'
      BY <1>0, <3>2, <3>3, <3>6 DEF Current
    <3>9. RevisionNamesConfig'
      <4> SUFFICES ASSUME NEW b \in Backends, NEW c \in Backends,
                          NEW j \in DOMAIN written'[b], NEW k \in DOMAIN written'[c],
                          written'[b][j].rev = written'[c][k].rev
                   PROVE  written'[b][j] = written'[c][k]
        BY DEF RevisionNamesConfig
      <4>1. CASE written'[b][j] = s0 /\ written'[c][k] = s0
        BY <4>1
      <4>2. CASE written'[b][j] = s0 /\ k \in DOMAIN written[c] /\ written'[c][k] = written[c][k]
        BY <3>2, <4>2
      <4>3. CASE written'[c][k] = s0 /\ j \in DOMAIN written[b] /\ written'[b][j] = written[b][j]
        BY <3>2, <4>3
      <4>4. CASE /\ k \in DOMAIN written[c] /\ written'[c][k] = written[c][k]
                 /\ j \in DOMAIN written[b] /\ written'[b][j] = written[b][j]
        BY <1>0, <4>4 DEF RevisionNamesConfig
      <4> QED BY <3>6, <4>1, <4>2, <4>3, <4>4
    <3>10. OneReportPerRevision'
      <4>1. ASSUME NEW b \in Backends, b # b0, NEW j \in DOMAIN written'[b],
                   NEW k \in DOMAIN written'[b], j < k
            PROVE  written'[b][j].rev < written'[b][k].rev
        BY <1>0, <3>4, <4>1 DEF OneReportPerRevision
      <4>2. ASSUME NEW j \in DOMAIN written'[b0], NEW k \in DOMAIN written'[b0], j < k
            PROVE  written'[b0][j].rev < written'[b0][k].rev
        <5>1. j \in DOMAIN written[b0]
          BY <3>5, <4>2
        <5>2. CASE k \in DOMAIN written[b0]
          BY <1>0, <3>1, <3>5, <4>2, <5>1, <5>2 DEF OneReportPerRevision
        <5>3. CASE k = n
          <6>1. written[b0][j].rev <= reported[b0] /\ written[b0][j].rev \in Nat
                /\ reported[b0] \in Nat
            BY <1>0, <3>1, <5>1, ReportTypes DEF Slots
          <6> QED BY <3>1, <3>2, <3>5, <5>1, <5>3, <6>1
        <5> QED BY <3>5, <5>2, <5>3
      <4> QED BY <4>1, <4>2 DEF OneReportPerRevision
    <3>11. \A u \in Threads : Drafted(u)'
      <4>1. \A u \in Threads \ {t} : pc'[u] \notin Reporting
        BY <2>1, <3>1 DEF Base, Locked, Reporting
      <4>2. pc'[t] \notin Reporting
        BY <2>2, <3>3 DEF Reporting
      <4> QED BY <4>1, <4>2 DEF Drafted, Reporting
    <3> QED BY <3>7, <3>8, <3>9, <3>10, <3>11 DEF ReportInv
  <2>6. CASE ~ReportLock(t) /\ ~Snapshot(t) /\ ~Report(t)
    <3>1. UNCHANGED <<reported, written>> /\ pc'[t] \notin Reporting
      <4>1. pc[t] # "report"
        BY <1>1, <2>6 DEF Thread, Begin, Check, Load, Refresh, Stat, Open, ReadA,
           ReadB, Verify, IoError, Publish, PublishFps, PublishQuota,
           PublishRevision, PublishCheck, Due, Compare, LoadQuota, Return
      <4>2. pc'[t] \notin Reporting
        BY <1>1, <2>2, <2>6 DEF Thread, Begin, Check, Load, Refresh, Stat, Open, ReadA,
           ReadB, Verify, IoError, Publish, PublishFps, PublishQuota,
           PublishRevision, PublishCheck, Due, Compare, LoadQuota, Return,
           Polled, Resolved, Goto, Reporting
      <4> QED BY <1>1, <4>1, <4>2, UnreportedStep
    <3>2. Drafted(t)'
      BY <3>1 DEF Drafted, Reporting
    <3>3. \A u \in Threads \ {t} : Drafted(u)'
      BY <1>0, <2>0, <2>1, <3>1, DraftKept DEF ReportInv
    <3> QED BY <1>0, <2>0, <3>1, <3>2, <3>3, SlotsKept DEF ReportInv
  <2> QED BY <2>3, <2>4, <2>5, <2>6
<1>2. CASE \/ Tick \/ SetReporting \/ ActivateLog \/ UNCHANGED vars
           \/ Write \/ Chmod \/ Remove \/ Replace
  <2>1. UNCHANGED <<pc, loc, reported, written, effective>>
    BY <1>2, OutsideFrame DEF Base, reports
  <2>2. UNCHANGED revision
    <3>1. CASE SetReporting
      BY <3>1 DEF SetReporting, EnforcedInv, Silent
    <3>2. CASE Write \/ Chmod \/ Remove \/ Replace
      BY <3>2, UserStep DEF Base, LimitTypeOK, published
    <3>3. CASE Tick \/ ActivateLog \/ UNCHANGED vars
      BY <3>3 DEF Tick, ActivateLog, vars, published
    <3> QED BY <1>2, <3>1, <3>2, <3>3
  <2> QED BY <2>1, <2>2 DEF ReportInv, Slots, Current, Drafted, OneReportPerRevision,
             RevisionNamesConfig
<1> QED BY <1>1, <1>2 DEF Next

\* effective_config_report.c:233-256, pacer_limit.c:976-982: each backend
\* reports a revision once and in order, and all of them the same settings.
THEOREM ReportsInOrder == Spec => []ReportsFollowRevisions
<1>1. Init => Base /\ EnforcedInv /\ ReportInv
  BY InitType, InitEnforced, InitReports DEF Base
<1>2. (Base /\ EnforcedInv /\ ReportInv) /\ [Next]_vars
          => (Base /\ EnforcedInv /\ ReportInv)'
  BY StepBase, StepEnforced, StepReports
<1>3. Base /\ EnforcedInv /\ ReportInv => ReportsFollowRevisions
  BY DEF ReportInv, ReportsFollowRevisions
<1> QED BY <1>1, <1>2, <1>3, PTL DEF Spec
=============================================================================
