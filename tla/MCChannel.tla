----------------------------- MODULE MCChannel -----------------------------
(* Module Channel for TLC: the handles are model values. *)
EXTENDS Channel

CONSTANTS s1, s2
=============================================================================
