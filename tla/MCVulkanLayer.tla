---------------------------- MODULE MCVulkanLayer ----------------------------
(***************************************************************************)
(* The Vulkan layer in one run over the disjoint union of two state        *)
(* graphs: the life of its objects and presents with an overlay ("layer"), *)
(* and the pacing of submissions on queues that present rarely, which      *)
(* needs a clock ("fallback", PacerQueue).  Handles of a kind are alike.   *)
(***************************************************************************)
EXTENDS VulkanLayer, PacerQueue, TLC

VARIABLE part

BothInit == /\ Init /\ QueueInit
            /\ \/ part = "layer" /\ executable = ""
               \/ part = "fallback"

BothNext == /\ \/ part = "layer" /\ Next /\ UNCHANGED qvars
               \/ part = "fallback" /\ QueueNext /\ UNCHANGED vars
            /\ UNCHANGED part

BothSpec == BothInit /\ [][BothNext]_<<vars, qvars, part>>

Symmetry ==
    Permutations(Threads) \cup Permutations(Devices) \cup Permutations(Images)
        \cup Permutations(Swapchains) \cup Permutations(Queues)
==============================================================================
