---------------------------- MODULE MCPacerLimit ----------------------------
(***************************************************************************)
(* Two instances of PacerLimit in one run, the disjoint union of their     *)
(* state graphs: a library without a log whose file is edited into every   *)
(* form and whose system calls fail ("polls"), and one with a log and two  *)
(* report slots, which polls at every instant ("reports").  The threads    *)
(* are interchangeable.                                                    *)
(***************************************************************************)
EXTENDS PacerLimit, TLC

VARIABLE instance

Reports == INSTANCE PacerLimit
               WITH LogEnabled <- TRUE, Values <- {1, 2},
                    Forms <- {"regular"}, Faults <- {},
                    Poll <- 1, MaxNow <- 2

BothInit == \/ instance = "polls" /\ Init
            \/ instance = "reports" /\ Reports!Init

BothNext == /\ \/ instance = "polls" /\ Next
               \/ instance = "reports" /\ Reports!Next
            /\ UNCHANGED instance

BothSpec == BothInit /\ [][BothNext]_<<vars, instance>>

Symmetry == Permutations(Threads)
=============================================================================
