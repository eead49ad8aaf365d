---------------------------- MODULE MCYieldLock ----------------------------
(* Module YieldLock for TLC. *)
EXTENDS YieldLock, TLC

CONSTANTS c1, c2, n1, t0

\* Both coroutines share a thread.
OneThread == (c1 :> t0) @@ (c2 :> t0)
=============================================================================
