----------------------------- MODULE MCRuntime -----------------------------
(* Module Runtime for TLC. *)
EXTENDS Runtime, TLC

\* Coroutines other than the first one are interchangeable: only the safety
\* runs use this.
Symmetry == Permutations(Coroutine \ {Main})
=============================================================================
