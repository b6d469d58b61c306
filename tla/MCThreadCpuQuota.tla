-------------------------- MODULE MCThreadCpuQuota --------------------------
(* Instances of ThreadCpuQuota for TLC.  Threads but Main are alike. *)
EXTENDS ThreadCpuQuota, TLC

Symmetry == Permutations(Tids \ {Main})
=============================================================================
