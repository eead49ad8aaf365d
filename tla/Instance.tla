------------------------------ MODULE Instance ------------------------------
(***************************************************************************)
(* What a mioco instance promises, whatever its threads, schedulers and    *)
(* notify queues do: coroutines are spawned by coroutines, each ends once, *)
(* join() waits for an end that has happened, and start() returns when     *)
(* nobody is left.                                                         *)
(***************************************************************************)
CONSTANTS Coroutine, Main, None

VARIABLES
  born,      \* coroutines that have been spawned
  ended,     \* coroutines that have returned, panicked or been killed
  joining,   \* the coroutine that each one is in join() for, or None
  returned   \* start() has returned

vars == <<born, ended, joining, returned>>

Alive == born \ ended

Init ==
  /\ born = {}
  /\ ended = {}
  /\ joining = [c \in Coroutine |-> None]
  /\ returned = FALSE

Start ==
  /\ born = {}
  /\ born' = {Main}
  /\ UNCHANGED <<ended, joining, returned>>

Spawn(c) ==
  /\ Alive # {} /\ c \notin born
  /\ born' = born \cup {c}
  /\ UNCHANGED <<ended, joining, returned>>

End(c) ==
  /\ c \in Alive
  /\ ended' = ended \cup {c}
  /\ UNCHANGED <<born, joining, returned>>

\* A coroutine joins another one that may have ended or not,
Join(c, d) ==
  /\ c \in Alive /\ d \in born /\ joining[c] = None
  /\ joining' = [joining EXCEPT ![c] = d]
  /\ UNCHANGED <<born, ended, returned>>

\* and goes on when it has.
Joined(c) ==
  /\ c \in Alive /\ joining[c] \in ended
  /\ joining' = [joining EXCEPT ![c] = None]
  /\ UNCHANGED <<born, ended, returned>>

Return ==
  /\ born # {} /\ Alive = {}
  /\ returned' = TRUE
  /\ UNCHANGED <<born, ended, joining>>

Next ==
  \/ Start
  \/ \E c \in Coroutine : Spawn(c) \/ End(c) \/ Joined(c) \/ \E d \in Coroutine : Join(c, d)
  \/ Return

Spec == Init /\ [][Next]_vars
=============================================================================
