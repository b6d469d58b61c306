---------------------------- MODULE LogRetention ----------------------------
(***************************************************************************)
(* The diagnostic log (log_retention.c, state_directory.c).  Every copy of *)
(* the library opens <prefix><pid>.log on its first event, writes a header,*)
(* prunes old logs under a lock file and only then publishes the descrip-  *)
(* tor.  Wine may load a second copy of the library into a process: it has *)
(* its own struct and the same file.                                       *)
(*                                                                         *)
(* The directory maps names (process ids) to inodes; a descriptor keeps    *)
(* its inode when the name is unlinked.  Record locks belong to a process. *)
(* A record is its length, the cap message is as long as CapLen.           *)
(***************************************************************************)
EXTENDS Naturals, FiniteSets, Sequences

CONSTANTS
    Copies,       \* copies of the library, over all processes
    Pid,          \* [Copies -> process id]
    Old,          \* logs of earlier processes: [name -> size], oldest first
    Retention,    \* FRAME_PACER_LOG_RETENTION
    Limit,        \* FRAME_PACER_LOG_LIMIT
    CapLen,       \* length of the cap message
    Lengths,      \* lengths of other records
    MaxRecords,   \* bound: records after the headers
    MaxShort      \* bound: writes that are short or fail

VARIABLES
    dir,          \* the names in the directory: [name -> inode]
    inode,        \* the inodes: sequence of [size, time]
    clock,        \* the time stamp of the last write
    owner,        \* the process that holds the lock file, or 0
    log,          \* per copy: struct frame_pacer_runtime_log and open()'s fd
    act,          \* per copy: where its activation is
    kept,         \* per copy: `retained' of its prune_logs
    record,       \* per copy: what is left of the record being written
    records, short,
    began,        \* history: the kind of the first record of each copy
    said,         \* history: how much of the cap message each copy wrote
    dropped,      \* history: the copies that threw a record away
    failed,       \* history: the copies one of whose writes failed
    removed,      \* history: pairs <<process that pruned, name>>
    unpruned      \* history: some activation could not prune, or gave up
                  \* a file it had made

\* What the constants may be: FRAME_PACER_LOG_LIMIT and the retention are
\* positive constants of log_retention.c, and no record is empty.
Parameters ==
    /\ Pid \in [Copies -> Nat \ {0}]
    /\ Old \in Seq([name : Nat, size : Nat])
    /\ Retention \in Nat \ {0} /\ Limit \in Nat /\ CapLen \in Nat \ {0}
    /\ Lengths \subseteq Nat \ {0}
    /\ MaxRecords \in Nat /\ MaxShort \in Nat

lvars == <<dir, inode, clock, owner, log, act, kept, record, records, short,
           began, said, dropped, failed, removed, unpruned>>

Pids == {Pid[c] : c \in Copies}

None == [kind |-> "none", left |-> 0]

Init ==
    /\ inode = [k \in 1..Len(Old) |->
                  [size |-> Old[k].size, time |-> k]]
    /\ dir = [n \in {Old[k].name : k \in 1..Len(Old)} |->
                CHOOSE k \in 1..Len(Old) : Old[k].name = n]
    /\ clock = Len(Old)
    /\ owner = 0
    /\ log = [c \in Copies |-> [fd |-> 0, file |-> 0, bytes |-> 0,
                                capped |-> FALSE, first |-> 0]]
    /\ act = [c \in Copies |-> "start"]
    /\ kept = [c \in Copies |-> {}]
    /\ record = [c \in Copies |-> None]
    /\ records = 0 /\ short = 0
    /\ began = [c \in Copies |-> "none"]
    /\ said = [c \in Copies |-> 0]
    /\ dropped = {} /\ failed = {} /\ removed = {} /\ unpruned = FALSE

-----------------------------------------------------------------------------
(* Writing a record: write_locked.                                         *)

Least(a, b) == IF a < b THEN a ELSE b

\* Mutant: the record is written when it just fits, with no room for the cap.
Fits_exactly(bytes, remaining) == bytes <= remaining

\* The record is written only when the cap message still fits after it.
Fits(bytes, remaining) == bytes <= remaining /\ CapLen <= remaining - bytes

\* What write_locked does with a record of this length: what it will write,
\* and log->capped.
Prepared(l, kind, bytes) ==
    LET remaining == Limit - l.bytes IN
    IF l.capped \/ l.bytes >= Limit
    THEN [out |-> None, capped |-> TRUE, drops |-> TRUE]
    ELSE IF Fits(bytes, remaining)
    THEN [out |-> [kind |-> kind, left |-> bytes], capped |-> FALSE,
          drops |-> FALSE]
    ELSE [out |-> [kind |-> "cap", left |-> Least(CapLen, remaining)],
          capped |-> TRUE, drops |-> TRUE]

Prepare(c, l, kind, bytes) ==
    LET p == Prepared(l, kind, bytes) IN
    /\ record' = [record EXCEPT ![c] = p.out]
    /\ log' = [log EXCEPT ![c] = [l EXCEPT !.capped = p.capped]]
    /\ dropped' = IF p.drops THEN dropped \cup {c} ELSE dropped

\* One write(): O_APPEND puts all it takes at the end of the file.
WritePart(c, n) ==
    LET file == log[c].file
        left == record[c].left IN
    /\ left > 0 /\ n \in 1..left
    /\ n = left \/ short < MaxShort
    /\ short' = IF n = left THEN short ELSE short + 1
    /\ clock' = clock + 1
    /\ inode' = [inode EXCEPT ![file] =
                   [size |-> @.size + n, time |-> clock + 1]]
    /\ began' = [began EXCEPT ![c] = IF @ = "none" THEN record[c].kind ELSE @]
    /\ said' = [said EXCEPT ![c] = IF record[c].kind = "cap" THEN @ + n ELSE @]
    /\ log' = [log EXCEPT ![c].bytes = @ + n]
    /\ record' = [record EXCEPT ![c] =
                    IF n = left THEN None ELSE [@ EXCEPT !.left = left - n]]
    /\ UNCHANGED <<dir, owner, act, kept, records, dropped, failed, removed,
                   unpruned>>

\* Any other error than EINTR gives the rest of the record up.
WriteFails(c) ==
    /\ record[c].left > 0 /\ short < MaxShort
    /\ short' = short + 1
    /\ record' = [record EXCEPT ![c] = None]
    /\ failed' = failed \cup {c}
    /\ UNCHANGED <<dir, inode, clock, owner, log, act, kept, records, began,
                   said, dropped, removed, unpruned>>

-----------------------------------------------------------------------------
(* Activation: frame_pacer_runtime_log_activate, holding log->mutex.       *)

Exists(name) == name \in DOMAIN dir

\* open() with O_CREAT makes the file that is not there.
Creates(name) ==
    /\ ~Exists(name)
    /\ clock' = clock + 1
    /\ dir' = [n \in DOMAIN dir \cup {name} |->
                 IF n = name THEN Len(inode) + 1 ELSE dir[n]]
    /\ inode' = Append(inode, [size |-> 0, time |-> clock + 1])

\* open() with O_CREAT and fstat.
Open(c) ==
    LET name == Pid[c]
        file == IF Exists(name) THEN dir[name] ELSE Len(inode) + 1
        size == IF Exists(name) THEN inode[file].size ELSE 0
    IN
    /\ act[c] = "start"
    /\ act' = [act EXCEPT ![c] = "opened"]
    /\ \/ /\ Exists(name)
          /\ UNCHANGED <<dir, inode, clock>>
       \/ Creates(name)
    /\ log' = [log EXCEPT ![c] = [fd |-> 0, file |-> file, bytes |-> size,
                                  capped |-> size >= Limit, first |-> size]]
    /\ UNCHANGED <<owner, kept, record, records, short, began, said, dropped,
                   failed, removed, unpruned>>

\* The startup message.
Header(c, length) ==
    /\ act[c] = "opened" /\ record[c] = None
    /\ Prepare(c, log[c], "header", length)
    /\ act' = [act EXCEPT ![c] = "header"]
    /\ UNCHANGED <<dir, inode, clock, owner, kept, records, short, began, said,
                   failed, removed, unpruned>>

\* The state directory, or the file, is not usable: nothing is logged.  The
\* once-control of the caller does not try again.  A file that open() made
\* before fstat or fchmod failed stays, and no prune comes after it.
OpenFails(c) ==
    /\ act[c] = "start" /\ short < MaxShort
    /\ short' = short + 1
    /\ act' = [act EXCEPT ![c] = "off"]
    /\ \/ UNCHANGED <<dir, inode, clock, unpruned>>
       \/ Creates(Pid[c]) /\ unpruned' = TRUE
    /\ UNCHANGED <<owner, log, kept, record, records, began, said, dropped,
                   failed, removed>>

\* fcntl(F_SETLKW): waits for another process, not for one's own.
Lock(c) ==
    /\ act[c] = "header" /\ record[c] = None
    /\ owner \in {0, Pid[c]}
    /\ owner' = Pid[c]
    /\ act' = [act EXCEPT ![c] = "scan"]
    /\ UNCHANGED <<dir, inode, clock, log, kept, record, records, short, began,
                   said, dropped, failed, removed, unpruned>>

\* The directory or its lock file cannot be opened: no pruning.
LockFails(c) ==
    /\ act[c] = "header" /\ record[c] = None /\ short < MaxShort
    /\ short' = short + 1
    /\ unpruned' = TRUE
    /\ act' = [act EXCEPT ![c] = "pruned"]
    /\ UNCHANGED <<dir, inode, clock, owner, log, kept, record, records, began,
                   said, dropped, failed, removed>>

\* newer_than: by modification time, then by name.
newer_than(a, b) ==
    \/ inode[dir[a]].time > inode[dir[b]].time
    \/ inode[dir[a]].time = inode[dir[b]].time /\ a > b

\* The newest logs that stay beside the protected one.
retention_limit(name) == IF Exists(name) THEN Retention - 1 ELSE Retention

\* The first pass over the directory.
Scan(c) ==
    LET others == DOMAIN dir \ {Pid[c]} IN
    /\ act[c] = "scan"
    /\ kept' = [kept EXCEPT ![c] =
                  {n \in others : Cardinality({o \in others : newer_than(o, n)})
                                    < retention_limit(Pid[c])}]
    /\ act' = [act EXCEPT ![c] = "remove"]
    /\ UNCHANGED <<dir, inode, clock, owner, log, record, records, short,
                   began, said, dropped, failed, removed, unpruned>>

\* Mutant: only the logs of the first pass are protected.
Victims_unprotected(c) == DOMAIN dir \ kept[c]

Victims(c) == DOMAIN dir \ (kept[c] \cup {Pid[c]})

\* The second pass unlinks what it finds now and did not keep; then the lock
\* is given up.  Closing the lock file drops the lock of the whole process.
Remove(c) ==
    /\ act[c] = "remove"
    /\ dir' = [n \in DOMAIN dir \ Victims(c) |-> dir[n]]
    /\ removed' = removed \cup {<<Pid[c], n>> : n \in Victims(c)}
    /\ kept' = [kept EXCEPT ![c] = {}]
    /\ owner' = IF owner = Pid[c] THEN 0 ELSE owner
    /\ act' = [act EXCEPT ![c] = "pruned"]
    /\ UNCHANGED <<inode, clock, log, record, records, short, began, said,
                   dropped, failed, unpruned>>

\* The descriptor becomes visible to the other threads.
Publish(c) ==
    /\ act[c] = "pruned"
    /\ log' = [log EXCEPT ![c].fd = log[c].file]
    /\ act' = [act EXCEPT ![c] = "on"]
    /\ UNCHANGED <<dir, inode, clock, owner, kept, record, records, short,
                   began, said, dropped, failed, removed, unpruned>>

-----------------------------------------------------------------------------
\* What vwrite asks before it takes the mutex, which nobody holds then.
Visible(c) == log[c].fd # 0 /\ record[c] = None

\* frame_pacer_runtime_log_vwrite by some thread.
Write(c, length) ==
    /\ Visible(c) /\ records < MaxRecords
    /\ records' = records + 1
    /\ \/ /\ log[c].capped
          /\ UNCHANGED <<log, record, dropped>>
       \/ /\ ~log[c].capped
          /\ Prepare(c, log[c], "event", length)
    /\ UNCHANGED <<dir, inode, clock, owner, act, kept, short, began, said,
                   failed, removed, unpruned>>

\* frame_pacer_runtime_log_close, in the library's destructor.
Close(c) ==
    /\ log[c].fd # 0 /\ record[c] = None /\ act[c] = "on"
    /\ log' = [log EXCEPT ![c].fd = 0]
    /\ act' = [act EXCEPT ![c] = "off"]
    /\ UNCHANGED <<dir, inode, clock, owner, kept, record, records, short,
                   began, said, dropped, failed, removed, unpruned>>

Next ==
    \E c \in Copies :
       \/ \E n \in Lengths : Header(c, n) \/ Write(c, n)
       \/ \E n \in 1..Limit : WritePart(c, n)
       \/ WriteFails(c) \/ Open(c) \/ OpenFails(c)
       \/ Lock(c) \/ LockFails(c) \/ Scan(c) \/ Remove(c) \/ Publish(c)
       \/ Close(c)

Spec == Init /\ [][Next]_lvars

-----------------------------------------------------------------------------
Settled == \A c \in Copies : act[c] \in {"start", "on", "off"}

\* log_retention.c:84-161, docs/technical-details.md:159: however the
\* activations of several processes interleave, at most `Retention' logs are
\* left when none is under way, each could prune, and none gave up a file it
\* had made.
AtMostRetained ==
    Settled /\ ~unpruned /\ (\E c \in Copies : act[c] = "on") =>
        Cardinality(DOMAIN dir) <= Retention

\* log_retention.c:113-156.  The descriptor a copy has published is that of the
\* file under its process's name, also when two copies of one process prune
\* side by side (their record locks do not exclude each other) and when the
\* name was taken by a log of an earlier process; only the prune of another
\* process can have unlinked it.
OwnLogKept ==
    \A c \in Copies :
        \/ log[c].fd = 0
        \/ Exists(Pid[c]) /\ dir[Pid[c]] = log[c].fd
        \/ \E p \in Pids \ {Pid[c]} : <<p, Pid[c]>> \in removed

\* log_retention.c:258-281, docs/technical-details.md:60-62: the first thing a
\* copy writes to its file is its header (or that the file is full).
HeaderFirst ==
    \A c \in Copies \ failed : began[c] \in {"none", "header", "cap"}

\* log_retention.c:195-200: a copy that threw a record away for the limit has
\* said so in full, unless the file it opened had no room for that or a write
\* failed; and no copy writes past the limit by its own count, unless several
\* copies of an earlier activation had made the file larger than that.
CapAnnounced ==
    \A c \in Copies :
        /\ log[c].first <= Limit => log[c].bytes <= Limit
        /\ /\ c \in dropped \ failed
           /\ record[c] = None
           /\ log[c].first + CapLen <= Limit
           => said[c] = CapLen
=============================================================================
