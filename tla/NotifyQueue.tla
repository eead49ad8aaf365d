---------------------------- MODULE NotifyQueue ----------------------------
(***************************************************************************)
(* The bounded notify queue of an event loop: sender_retry (src/mod.rs)    *)
(* under the spin lock of a channel, as maybe_notify_receiver calls it,    *)
(* and the register and deregister that need that lock (src/sync/mpsc.rs). *)
(*                                                                         *)
(* Every receiver is a coroutine of the one event loop, with a channel of  *)
(* its own; senders are native threads and the receivers themselves.       *)
(* Module Channel has the order of send and fetch_add, which is one step   *)
(* here.  mio's notify queue and the spin lock are external.               *)
(***************************************************************************)
EXTENDS Integers, Sequences, FiniteSets

CONSTANTS
  Receiver, Native,
  Cap,        \* EventLoopConfig::notify_capacity
  MaxRetry,   \* 20000 in the program
  MaxSends,   \* bound: sends
  None

Sender == Receiver \cup Native

ASSUME QueueAssumption ==
  /\ IsFiniteSet(Receiver) /\ None \notin Sender /\ Receiver \cap Native = {}
  /\ Cap \in Nat \ {0} /\ MaxRetry \in Nat /\ MaxSends \in Nat

VARIABLES
  counter,    \* ArcCounter of each channel
  token,      \* ChannelShared::token is Some
  lock,       \* holder of the spin lock of each channel, or None
  queue,      \* notify queue: Message::ChannelMsg
  running,    \* the coroutine that the event loop is in, or None
  ready,      \* HandlerShared::ready
  pc,         \* where a thread or coroutine is
  to,         \* channel of the send in progress, or None
  tries,      \* counter of sender_retry
  sends,      \* sends so far
  unsent      \* channels whose notification died with a sender

channelVars == <<counter, token, lock>>
senderVars == <<to, tries, sends, unsent>>
vars == <<channelVars, senderVars, queue, running, ready, pc>>

Init ==
  /\ counter = [r \in Receiver |-> 0]
  /\ token = [r \in Receiver |-> FALSE]
  /\ lock = [r \in Receiver |-> None]
  /\ queue = <<>>
  /\ running = None
  /\ ready \in {q \in [1 .. Cardinality(Receiver) -> Receiver] :
                  \A i, j \in DOMAIN q : q[i] = q[j] => i = j}
  /\ pc = [s \in Sender |-> "user"]
  /\ to = [s \in Sender |-> None]
  /\ tries = [s \in Sender |-> 0]
  /\ sends = 0
  /\ unsent = {}

-----------------------------------------------------------------------------
(* Sending *)

\* A native thread runs by itself, a coroutine while the event loop is in it.
Runs(s) == s \in Native \/ running = s

Goto(s, where) == pc' = [pc EXCEPT ![s] = where]

\* Sender::send, up to maybe_notify_receiver.  Without the receiver it fails first.
Send(s, r) ==
  /\ Runs(s) /\ pc[s] = "user" /\ pc[r] # "gone" /\ sends < MaxSends
  /\ sends' = sends + 1
  /\ counter' = [counter EXCEPT ![r] = @ + 1]
  /\ IF counter[r] = 0
       THEN Goto(s, "lock") /\ to' = [to EXCEPT ![s] = r]
       ELSE UNCHANGED <<pc, to>>
  /\ UNCHANGED <<token, lock, queue, running, ready, tries, unsent>>

\* maybe_notify_receiver: no token, nothing to do.
Lock(s) ==
  /\ Runs(s) /\ pc[s] = "lock" /\ lock[to[s]] = None
  /\ IF token[to[s]]
       THEN /\ lock' = [lock EXCEPT ![to[s]] = s]
            /\ Goto(s, "retry")
            /\ UNCHANGED to
       ELSE /\ Goto(s, "user")
            /\ to' = [to EXCEPT ![s] = None]
            /\ UNCHANGED lock
  /\ UNCHANGED <<counter, token, queue, running, ready, tries, sends, unsent>>

\* The guard is dropped at the end of maybe_notify_receiver, by a panic too.
Return(s, where) ==
  /\ Goto(s, where)
  /\ lock' = [lock EXCEPT ![to[s]] = None]
  /\ to' = [to EXCEPT ![s] = None]
  /\ tries' = [tries EXCEPT ![s] = 0]

\* sender_retry: Ok
Accepted(s) ==
  /\ Runs(s) /\ pc[s] = "retry" /\ Len(queue) < Cap
  /\ queue' = Append(queue, to[s])
  /\ Return(s, "user")
  /\ UNCHANGED <<counter, token, running, ready, sends, unsent>>

GiveUpOnFull(s) ==
  /\ Runs(s) /\ pc[s] = "retry" /\ Len(queue) = Cap
  /\ Return(s, "user")
  /\ UNCHANGED <<counter, token, queue, running, ready, sends, unsent>>

RetryForEver(s) ==
  /\ Runs(s) /\ pc[s] = "retry" /\ Len(queue) = Cap
  /\ UNCHANGED vars

FullSleeps(s) ==
  /\ Runs(s) /\ pc[s] = "retry" /\ Len(queue) = Cap
  /\ running' = IF s \in Receiver THEN None ELSE running
  /\ UNCHANGED <<channelVars, senderVars, queue, ready, pc>>

\* sender_retry: Full, and again.  After MaxRetry a panic ends the thread or the
\* coroutine, and the event loop goes on.
Full(s) ==
  /\ Runs(s) /\ pc[s] = "retry" /\ Len(queue) = Cap
  /\ IF tries[s] < MaxRetry
       THEN /\ tries' = [tries EXCEPT ![s] = @ + 1]
            /\ UNCHANGED <<pc, lock, to, running, unsent>>
       ELSE /\ Return(s, "gone")
            /\ unsent' = unsent \cup {to[s]}
            /\ running' = IF s \in Receiver THEN None ELSE running
  /\ UNCHANGED <<counter, token, queue, ready, sends>>

-----------------------------------------------------------------------------
(* Receiving *)

TryRecv(r) ==
  /\ running = r /\ pc[r] = "user"
  /\ IF counter[r] > 0
       THEN counter' = [counter EXCEPT ![r] = @ - 1] /\ UNCHANGED pc
       ELSE Goto(r, "register") /\ UNCHANGED counter
  /\ UNCHANGED <<token, lock, senderVars, queue, running, ready>>

\* ReceiverCore::register on the event loop, which spins for the lock; a message
\* that is there already makes the coroutine ready at once.
Register(r) ==
  /\ running = r /\ pc[r] = "register" /\ lock[r] = None
  /\ running' = None
  /\ IF counter[r] = 0
       THEN Goto(r, "blocked") /\ token' = [token EXCEPT ![r] = TRUE] /\ UNCHANGED ready
       ELSE Goto(r, "user") /\ ready' = Append(ready, r) /\ UNCHANGED token
  /\ UNCHANGED <<counter, lock, senderVars, queue>>

\* deliver_to_scheduler
Resume ==
  /\ running = None /\ ready # <<>>
  /\ running' = Head(ready)
  /\ ready' = Tail(ready)
  /\ UNCHANGED <<channelVars, senderVars, queue, pc>>

\* Handler::notify and event: only a blocked coroutine is unblocked.
Notify ==
  /\ running = None /\ ready = <<>> /\ queue # <<>>
  /\ queue' = Tail(queue)
  /\ IF pc[Head(queue)] = "blocked"
       THEN Goto(Head(queue), "deregister") /\ running' = Head(queue)
       ELSE UNCHANGED <<pc, running>>
  /\ UNCHANGED <<channelVars, senderVars, ready>>

\* ReceiverCore::deregister on the event loop, which spins for the lock.
Deregister(r) ==
  /\ running = r /\ pc[r] = "deregister" /\ lock[r] = None
  /\ token' = [token EXCEPT ![r] = FALSE]
  /\ Goto(r, "user")
  /\ UNCHANGED <<counter, lock, senderVars, queue, running, ready>>

\* The rest of a send() that has begun.
Notifying(s) == Lock(s) \/ Accepted(s) \/ Full(s)

Receiving == \E r \in Receiver : TryRecv(r) \/ Register(r) \/ Deregister(r)

\* What the event loop's thread does.
Loop == Resume \/ Notify \/ Receiving \/ \E r \in Receiver : Notifying(r)

Next ==
  \/ Loop
  \/ \E s \in Native : Notifying(s)
  \/ \E s \in Sender, r \in Receiver : Send(s, r)

Spec == Init /\ [][Next]_vars

\* Every thread runs, and one that spins for a lock gets it when it is free often
\* enough.  Nobody has to send.
Fairness == SF_vars(Loop) /\ \A s \in Native : SF_vars(Notifying(s))

FairSpec == Spec /\ Fairness

-----------------------------------------------------------------------------
TypeOK ==
  /\ counter \in [Receiver -> Nat]
  /\ token \in [Receiver -> BOOLEAN]
  /\ lock \in [Receiver -> Sender \cup {None}]
  /\ queue \in Seq(Receiver) /\ Len(queue) <= Cap
  /\ running \in Receiver \cup {None}
  /\ ready \in Seq(Receiver)
  /\ pc \in [Sender -> {"user", "lock", "retry", "register", "blocked", "deregister", "gone"}]
  /\ to \in [Sender -> Receiver \cup {None}]
  /\ tries \in [Sender -> 0 .. MaxRetry]
  /\ sends \in 0 .. MaxSends
  /\ unsent \subseteq Receiver

\* "take care of retrying on recoverable errors" (sender_retry): a full queue
\* delays the wake-up of a receiver and loses it only together with its sender.
WakeupDelayedOnly ==
  \A r \in Receiver : pc[r] = "blocked" /\ counter[r] > 0 =>
    \/ r \in {queue[i] : i \in DOMAIN queue}
    \/ \E s \in Sender : to[s] = r
    \/ r \in unsent

\* The event loop never spins, in register, deregister or a send of one of its
\* coroutines, for a lock that another coroutine of the same loop holds: that one
\* could not go on to release it.  It is why sender_retry, which is called with
\* the lock held, waits in std::thread::yield_now and not in a call of mioco's.
NoSelfDeadlock ==
  \A r, x \in Receiver :
    (pc[r] = "lock" /\ to[r] = x) \/ (pc[r] \in {"register", "deregister"} /\ r = x)
      => lock[x] \in Native \cup {None}

\* A sender that spins on a full queue holds the lock that the event loop may be
\* spinning for, and only the event loop empties the queue: "process hangs".
\* Neither spins for ever.
SpinEnds ==
  /\ \A s \in Sender : pc[s] = "retry" ~> pc[s] # "retry"
  /\ \A r \in Receiver : pc[r] \in {"register", "deregister"}
                           ~> pc[r] \notin {"register", "deregister"}
=============================================================================
