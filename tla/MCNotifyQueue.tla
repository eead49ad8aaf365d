--------------------------- MODULE MCNotifyQueue ---------------------------
(* Module NotifyQueue for TLC. *)
EXTENDS NotifyQueue, TLC

CONSTANTS r1, r2, n1, n2
=============================================================================
