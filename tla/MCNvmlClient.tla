---------------------------- MODULE MCNvmlClient ----------------------------
(* Two devices whose samplers come and go, each with one snapshot try. *)
EXTENDS NvmlClient
=============================================================================
