--------------------------- MODULE MCEventSource ---------------------------
(* Module EventSource for TLC. *)
EXTENDS EventSource, TLC

CONSTANTS a, b

\* Coroutines are interchangeable: only the safety runs use this.
Symmetry == Permutations(Coroutine)

NoSelect == {}

\* Two sockets and the timer, in different orders.
SocketsOrTimer == {<<a, b>>, <<b, Timer>>, <<Timer, a, b>>}

SocketAndTimer == {<<a, Timer>>}
=============================================================================
