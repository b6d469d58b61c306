------------------------------- MODULE MCHud -------------------------------
(***************************************************************************)
(* The two threads behind the HUD's telemetry in one run, over the         *)
(* disjoint union of their state graphs: the cache with its sampling       *)
(* worker ("cache") and the client of the NVML helper ("nvml").  The       *)
(* variables of the other keep their initial values, in which no step that *)
(* fairness asks for is enabled.                                           *)
(***************************************************************************)
EXTENDS HudMetricsCache, NvmlClient

VARIABLE part

HudInit == /\ Init /\ NvmlInit
           /\ part \in {"cache", "nvml"}

HudNext == /\ \/ part = "cache" /\ Next /\ UNCHANGED nvars
              \/ part = "nvml" /\ NvmlNext /\ UNCHANGED cvars
           /\ UNCHANGED part

HudSpec == HudInit /\ [][HudNext]_<<part, cvars, nvars>>

HudFairSpec == HudSpec /\ Fairness /\ NvmlFairness
----------------------------------------------------------------------------
\* hud_metrics_cache.c:69-88 and hud_nvml_client.c:433-463: once destroy or
\* the last release has returned, neither a sampling thread nor a helper
\* process is left.
NothingLeftBehind == NoWorkerAfterDestroy /\ NoHelperLeft
============================================================================
