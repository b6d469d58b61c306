----------------------------- MODULE MCGlAndLog -----------------------------
(***************************************************************************)
(* In one run, over the disjoint union of three state graphs: the OpenGL   *)
(* backend with two threads and two contexts, of a program that is linked  *)
(* with the system's libraries and whose calls are found ("gl"); the calls *)
(* that find or do not find their functions, as libraries are loaded in    *)
(* any order, with one context and the HUD switched off ("calls"); and the *)
(* runtime log of two processes, one of which holds two copies of the      *)
(* library ("log").  The threads are interchangeable.                      *)
(***************************************************************************)
EXTENDS GlBackend, Sequences, TLC

CONSTANTS Copies, Pid, Old, Retention, Limit, CapLen, Lengths, MaxRecords,
          MaxShort

VARIABLES
    part,
    dir, inode, clock, owner, log, act, kept, record, records, short, began,
    said, dropped, failed, removed, unpruned

logVars == <<dir, inode, clock, owner, log, act, kept, record, records, short,
             began, said, dropped, failed, removed, unpruned>>

\* A GLX and an EGL context whose handles happen to be the same number.
Contexts == {[api |-> "glx", display |-> "x", context |-> 1],
             [api |-> "egl", display |-> "d", context |-> 1]}

ExportedEgl == EglFunctions \ {<<"egl", "damage">>}

\* The system's libraries; an EGL that also exports the damage swaps, which
\* are an extension; and one that a game brings along.
LibGL == [soname |-> "libGL.so.1", exports |-> Functions \ EglFunctions,
          offers |-> Functions \ EglFunctions]
LibEGL == [soname |-> "libEGL.so.1", exports |-> ExportedEgl,
           offers |-> EglFunctions]
VendorEGL == [soname |-> "libEGL.so.1", exports |-> EglFunctions,
              offers |-> EglFunctions]
GameEGL == [soname |-> "libEGL.so", exports |-> EglFunctions,
            offers |-> EglFunctions]

System == {LibGL, LibEGL}
Various == {LibGL, LibEGL, VendorEGL, GameEGL}

\* Copies 1 and 2 are in one process; logs are named after processes.
PidOf == (1 :> 10) @@ (2 :> 10) @@ (3 :> 11)

\* One of the old logs bears the name of a process that starts.
OldLogs == <<[name |-> 7, size |-> 1], [name |-> 11, size |-> 4],
             [name |-> 9, size |-> 2]>>

Log == INSTANCE LogRetention

ASSUME LogAssumption == Log!Parameters

BothInit == /\ Init /\ Log!Init
            /\ \/ part = "gl" /\ libc /\ loaded = System
               \/ part = "calls"
               \/ part = "log" /\ ~libc /\ loaded = {}

BothNext == /\ \/ part = "gl" /\ Next /\ UNCHANGED <<lost, logVars>>
               \/ /\ part = "calls" /\ Next
                  /\ births' <= 1 /\ SkipHud /\ UNCHANGED logVars
               \/ part = "log" /\ Log!Next /\ UNCHANGED gvars
            /\ UNCHANGED part

BothSpec == BothInit /\ [][BothNext]_<<part, gvars, logVars>>

Symmetry == Permutations(Threads)
-----------------------------------------------------------------------------
\* log_retention.c:84-161 (see LogRetention): pruning leaves at most so many
\* logs, and never takes the one a process has just published.
RetentionSound == Log!AtMostRetained /\ Log!OwnLogKept

\* log_retention.c:195-200 and 258-281 (see LogRetention): the header comes
\* before any record, and a record is thrown away only after the notice.
LogOrdered == Log!HeaderFirst /\ Log!CapAnnounced
=============================================================================
