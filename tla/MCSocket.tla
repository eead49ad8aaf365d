------------------------------ MODULE MCSocket ------------------------------
(* Module Socket for TLC: two slab entries, tokens with one bit for the source. *)
EXTENDS Socket, TLC
=============================================================================
