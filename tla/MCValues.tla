------------------------------ MODULE MCValues ------------------------------
(***************************************************************************)
(* What the library computes from what it reads, in one run over the       *)
(* disjoint union of four state graphs: the configuration parser against   *)
(* its reference (MCConfigParse), the utilisations of the HUD              *)
(* (HudMetrics), its frame counter (HudFps) and the values that arrive     *)
(* from the NVML helper (NvmlClient).                                      *)
(***************************************************************************)
EXTENDS MCConfigParse, HudMetrics, HudFps, NvmlClient

VARIABLE part

parseVars == <<file, parts>>
-----------------------------------------------------------------------------
\* What a sample may find.  Every behaviour varies one of the sources.
Base == [clock |-> TRUE, nodes |-> <<"other">>, found |-> FALSE,
         acquired |-> FALSE, nvml |-> NoValue,
         cpu |-> [total |-> NoValue, idle |-> NoValue],
         threads |-> [ok |-> FALSE, children |-> <<>>],
         drm |-> [ok |-> TRUE, fds |-> <<[id |-> 1, engines |-> [e \in Engines |-> 1]]>>]]

CpuObs ==
    {[Base EXCEPT !.cpu = [total |-> p[1], idle |-> p[2]]] :
        p \in {<<3, 1>>, <<6, 3>>, <<6, 9>>, <<7, 0>>, <<206, 101>>}}

ThreadObs ==
    {[Base EXCEPT !.threads = [ok |-> TRUE, children |-> c]] :
        c \in {<<>>, <<<<3, 1>>, <<1, 1>>>>}
              \cup {<<<<t, u>>>> : t \in {1, 2}, u \in {0, 1, 400}}
              \cup {<<<<t, 1>>, <<3 - t, u>>>> : t \in {1, 2}, u \in {0, 1, 400}}}

Fd(i, r, g) ==
    [id |-> i, engines |-> [e \in Engines |-> IF e = "render" THEN r ELSE g]]

DrmObs ==
    {[Base EXCEPT !.drm = [ok |-> FALSE, fds |-> <<>>]]} \cup
    {[Base EXCEPT !.drm = [ok |-> TRUE, fds |-> f]] :
        f \in {<<>>, <<Fd(1, 1, 200), Fd(1, 2, 3)>>,
               <<Fd(1, 0, NoValue), Fd(2, 1, 0)>>,
               <<Fd(1, 400, 0), Fd(2, 400, 100)>>, <<Fd(1, 3, 0)>>,
               <<Fd(2, NoValue, 7)>>,
               <<Fd(1, 3, 0), Fd(2, 0, 0), Fd(3, 9, 9)>>}}

GpuObs ==
    {[Base EXCEPT !.nodes = <<>>], [Base EXCEPT !.clock = FALSE]} \cup
    {[Base EXCEPT !.nodes = n, !.found = f, !.acquired = a, !.nvml = v] :
        n \in {<<"other", "nvidia">>, <<"nvidia_nopci">>}, f \in BOOLEAN,
        a \in BOOLEAN, v \in {NoValue, 42}}
-----------------------------------------------------------------------------
MetricsObs == {CpuObs, ThreadObs, DrmObs, GpuObs}

AllInit ==
    /\ FileInit /\ Init /\ FpsInit /\ NvmlInit
    /\ part \in {"parse", "metrics", "fps", "nvml"}
    /\ part # "metrics" => inputs = CpuObs /\ metrics.gpu.started

AllNext ==
    /\ \/ part = "parse" /\ Grow /\ UNCHANGED <<mvars, fvars, nvars>>
       \/ part = "metrics" /\ Next
              /\ UNCHANGED <<parseVars, fvars, nvars>>
       \/ part = "fps" /\ FpsNext
              /\ UNCHANGED <<parseVars, mvars, nvars>>
       \/ part = "nvml" /\ NvmlNext
              /\ UNCHANGED <<parseVars, mvars, fvars>>
    /\ UNCHANGED part

AllSpec ==
    AllInit /\ [][AllNext]_<<part, parseVars, mvars, fvars, nvars>>
=============================================================================
