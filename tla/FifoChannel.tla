---------------------------- MODULE FifoChannel ----------------------------
(***************************************************************************)
(* What sync::mpsc promises its users: messages come out in the order in   *)
(* which they went in, recv() fails only when the channel is empty and     *)
(* every sender is gone, and a receiver that keeps receiving is never left *)
(* waiting on a non-empty or closed channel.  Nothing here mentions        *)
(* counters, tokens or event loops: module Channel implements this.        *)
(***************************************************************************)
EXTENDS Sequences

CONSTANT Message

VARIABLES
  buf,    \* messages sent and not yet received
  out,    \* messages received, oldest first
  open,   \* is there a sender left?
  rx      \* the receiver: "open", "closed" (recv() failed) or "dropped"

vars == <<buf, out, open, rx>>

Init ==
  /\ buf = <<>>
  /\ out = <<>>
  /\ open = TRUE
  /\ rx = "open"

Put(m) ==
  /\ open = TRUE
  /\ rx = "open"
  /\ buf' = Append(buf, m)
  /\ UNCHANGED <<out, open, rx>>

Take ==
  /\ rx = "open"
  /\ buf # <<>>
  /\ out' = Append(out, Head(buf))
  /\ buf' = Tail(buf)
  /\ UNCHANGED <<open, rx>>

\* The last sender goes away.
Close ==
  /\ open = TRUE
  /\ open' = FALSE
  /\ UNCHANGED <<buf, out, rx>>

\* recv() reports the disconnection, after the last message.
Hangup ==
  /\ rx = "open"
  /\ open = FALSE
  /\ buf = <<>>
  /\ rx' = "closed"
  /\ UNCHANGED <<buf, out, open>>

\* The receiver goes away and the messages with it.
Drop ==
  /\ rx = "open"
  /\ rx' = "dropped"
  /\ buf' = <<>>
  /\ UNCHANGED <<out, open>>

Next ==
  \/ \E m \in Message : Put(m)
  \/ Take
  \/ Close
  \/ Hangup
  \/ Drop

Safety == Init /\ [][Next]_vars

Spec == Safety /\ WF_vars(Take) /\ WF_vars(Hangup)
=============================================================================
