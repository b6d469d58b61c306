---------------------------- MODULE MCPacerClock ----------------------------
(* Small instances of PacerClock for TLC. *)
EXTENDS PacerClock, TLC

Symmetry == Permutations(Presenters)
=============================================================================
