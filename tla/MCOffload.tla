----------------------------- MODULE MCOffload -----------------------------
(* Module Offload for TLC. *)
EXTENDS Offload

CONSTANTS c1, c2
=============================================================================
