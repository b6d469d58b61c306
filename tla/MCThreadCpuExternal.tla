------------------------ MODULE MCThreadCpuExternal ------------------------
(* Instances of ThreadCpuExternal for TLC. *)
EXTENDS ThreadCpuExternal
=============================================================================
