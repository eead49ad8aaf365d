------------------------------ MODULE Channel ------------------------------
(***************************************************************************)
(* The channels of src/sync/mpsc.rs: any number of senders, each on a      *)
(* thread of its own, and one receiver that blocks a coroutine.            *)
(*                                                                         *)
(* A send is three separate memory operations (push on the std queue,      *)
(* fetch_add on the shared counter, notify under the spin lock when the    *)
(* counter was zero), a receive is two (pop, fetch_sub), and parking the   *)
(* receiver is one critical section that reads the counter.  Each of these *)
(* is one action here, so that they interleave as the threads of the       *)
(* program do.  Every access to the token is made under the spin lock, and *)
(* the only unlocked variable a critical section reads is the counter, so  *)
(* a critical section is one step, taken when it reads the counter.        *)
(***************************************************************************)
EXTENDS Integers, Sequences, FiniteSets

CONSTANTS
  Senders,     \* the Sender (SyncSender) handles that may ever exist
  Bound,       \* sync_channel(Bound); for channel(), more than is ever sent
  MaxSends,    \* bound: messages sent through one handle
  MaxNative,   \* bound: messages received outside of a coroutine
  CounterMod   \* values of the AtomicUsize counter: 2^64 in the program

ASSUME SendersAssumption == IsFiniteSet(Senders) /\ Senders # {}

ASSUME BoundAssumption ==
  /\ Bound \in Nat \ {0}
  /\ MaxSends \in Nat
  /\ MaxNative \in Nat

\* The counter is wide enough to tell all messages and handles apart.
ASSUME WidthAssumption ==
  /\ CounterMod \in Nat
  /\ Bound + MaxNative + 2 < CounterMod
  /\ Cardinality(Senders) < CounterMod

VARIABLES
  queue,     \* the std::sync::mpsc queue; a message is named by its sender
  received,  \* history: what the receiver got, oldest first
  counter,   \* SenderShared::counter and ReceiverCore::counter
  token,     \* ChannelShared::token.is_some()
  inbox,     \* ChannelMsg(token) messages the receiver's event loop has queued
  spc,       \* where each sender is in send() or in drop()
  sent,      \* messages sent through each handle
  rpc,       \* where the receiver is in recv()
  native     \* history: messages received by recv() outside of a coroutine

vars == <<queue, received, counter, token, inbox, spc, sent, rpc, native>>

SenderStep == {"unborn", "idle", "pushed", "notify",
               "dropAdd", "dropNotify", "dropStd", "gone"}

ReceiverStep == {"native", "try", "got", "block", "blocked",
                 "closed", "dropped", "killed"}

\* Handles that still hold the Arc<SenderShared>.
Holders == {s \in Senders : spc[s] \in {"idle", "pushed", "notify"}}

\* Handles whose std::sync::mpsc::Sender has not been dropped.
StdSenders == {s \in Senders : spc[s] \notin {"unborn", "gone"}}

\* The std::sync::mpsc::Receiver exists.
RxAlive == rpc \notin {"dropped", "killed"}

(***************************************************************************)
(* The counter wraps: fetch_sub on zero leaves the largest usize.          *)
(***************************************************************************)
Inc(n) == IF n = CounterMod - 1 THEN 0 ELSE n + 1

DecSigned(n) == n - 1

Dec(n) == IF n = 0 THEN CounterMod - 1 ELSE n - 1

Init ==
  /\ queue = <<>>
  /\ received = <<>>
  /\ counter = 0
  /\ token = FALSE
  /\ inbox = 0
  /\ \E first \in Senders :
       spc = [s \in Senders |-> IF s = first THEN "idle" ELSE "unborn"]
  /\ sent = [s \in Senders |-> 0]
  /\ rpc \in {"native", "try"}
  /\ native = 0

-----------------------------------------------------------------------------
(* Sender::send, SyncSender::send *)

\* The push: std send(), or try_send() retried with yield_now() while the
\* bounded queue is full.  With the receiver gone send() returns Err and
\* nothing changes.
Send(s) ==
  /\ spc[s] = "idle"
  /\ sent[s] < MaxSends
  /\ RxAlive
  /\ Len(queue) < Bound
  /\ queue' = Append(queue, s)
  /\ sent' = [sent EXCEPT ![s] = @ + 1]
  /\ spc' = [spc EXCEPT ![s] = "pushed"]
  /\ UNCHANGED <<received, counter, token, inbox, rpc, native>>

\* counter.fetch_add(1): only the thread that finds zero goes on to notify.
FetchAdd(s) ==
  /\ \/ /\ spc[s] = "pushed"
        /\ spc' = [spc EXCEPT ![s] = IF counter = 0 THEN "notify" ELSE "idle"]
     \/ /\ spc[s] = "dropAdd"
        /\ spc' = [spc EXCEPT ![s] = IF counter = 0 THEN "dropNotify" ELSE "dropStd"]
  /\ counter' = Inc(counter)
  /\ UNCHANGED <<queue, received, token, inbox, sent, rpc, native>>

\* maybe_notify_receiver(), under the spin lock.
MaybeNotify(s) ==
  /\ \/ /\ spc[s] = "notify"
        /\ spc' = [spc EXCEPT ![s] = "idle"]
     \/ /\ spc[s] = "dropNotify"
        /\ spc' = [spc EXCEPT ![s] = "dropStd"]
  /\ inbox' = IF token THEN inbox + 1 ELSE inbox
  /\ UNCHANGED <<queue, received, counter, token, sent, rpc, native>>

Clone(s, t) ==
  /\ spc[s] = "idle"
  /\ spc[t] = "unborn"
  /\ spc' = [spc EXCEPT ![t] = "idle"]
  /\ UNCHANGED <<queue, received, counter, token, inbox, sent, rpc, native>>

-----------------------------------------------------------------------------
(* Dropping a handle: its fields go in order, first the Arc<SenderShared>  *)
(* (whose last owner runs SenderShared::drop), then the std sender.        *)

DropArc(s) ==
  /\ spc[s] = "idle"
  /\ spc' = [spc EXCEPT ![s] = IF Holders = {s} THEN "dropAdd" ELSE "dropStd"]
  /\ UNCHANGED <<queue, received, counter, token, inbox, sent, rpc, native>>

DropStd(s) ==
  /\ spc[s] = "dropStd"
  /\ spc' = [spc EXCEPT ![s] = "gone"]
  /\ UNCHANGED <<queue, received, counter, token, inbox, sent, rpc, native>>

-----------------------------------------------------------------------------
(* Receiver::recv *)

TryRecvOk ==
  /\ rpc = "try"
  /\ queue # <<>>
  /\ received' = Append(received, Head(queue))
  /\ queue' = Tail(queue)
  /\ rpc' = "got"
  /\ UNCHANGED <<counter, token, inbox, spc, sent, native>>

FetchSubForgotten ==
  /\ rpc = "got"
  /\ rpc' = "try"
  /\ UNCHANGED <<queue, received, counter, token, inbox, spc, sent, native>>

FetchSub ==
  /\ rpc = "got"
  /\ counter' = Dec(counter)
  /\ rpc' = "try"
  /\ UNCHANGED <<queue, received, token, inbox, spc, sent, native>>

\* Empty: block_on() jumps out of the coroutine.
TryRecvEmpty ==
  /\ rpc = "try"
  /\ queue = <<>>
  /\ StdSenders # {}
  /\ rpc' = "block"
  /\ UNCHANGED <<queue, received, counter, token, inbox, spc, sent, native>>

DisconnectedEarly ==
  /\ rpc \in {"try", "native"}
  /\ Holders = {}
  /\ rpc' = "closed"
  /\ UNCHANGED <<queue, received, counter, token, inbox, spc, sent, native>>

\* Disconnected: recv() returns Err, inside or outside of a coroutine.
TryRecvDisconnected ==
  /\ rpc \in {"try", "native"}
  /\ queue = <<>>
  /\ StdSenders = {}
  /\ rpc' = "closed"
  /\ UNCHANGED <<queue, received, counter, token, inbox, spc, sent, native>>

RegisterUnchecked ==
  /\ rpc = "block"
  /\ rpc' = "blocked"
  /\ token' = TRUE
  /\ UNCHANGED <<queue, received, counter, inbox, spc, sent, native>>

\* ReceiverCore::register, under the spin lock: publish the token and park,
\* unless the counter says there is something to receive.  In that case the
\* coroutine is unblocked on the spot (register_all), which deregisters it.
Register ==
  /\ rpc = "block"
  /\ IF counter # 0
       THEN rpc' = "try" /\ token' = FALSE
       ELSE rpc' = "blocked" /\ token' = TRUE
  /\ UNCHANGED <<queue, received, counter, inbox, spc, sent, native>>

WakeStillRegistered ==
  /\ rpc = "blocked"
  /\ inbox > 0
  /\ inbox' = inbox - 1
  /\ rpc' = "try"
  /\ UNCHANGED <<queue, received, counter, token, spc, sent, native>>

\* The event loop delivers a ChannelMsg to the parked coroutine:
\* Coroutine::unblock deregisters the receiver and recv() tries again.
Wake ==
  /\ rpc = "blocked"
  /\ inbox > 0
  /\ inbox' = inbox - 1
  /\ token' = FALSE
  /\ rpc' = "try"
  /\ UNCHANGED <<queue, received, counter, spc, sent, native>>

\* A ChannelMsg for a coroutine that is not parked on this channel.
IgnoreEvent ==
  /\ rpc # "blocked"
  /\ inbox > 0
  /\ inbox' = inbox - 1
  /\ UNCHANGED <<queue, received, counter, token, spc, sent, rpc, native>>

\* recv() outside of a coroutine goes straight to the std receiver.
RecvNative ==
  /\ rpc = "native"
  /\ native < MaxNative
  /\ queue # <<>>
  /\ received' = Append(received, Head(queue))
  /\ queue' = Tail(queue)
  /\ native' = native + 1
  /\ UNCHANGED <<counter, token, inbox, spc, sent, rpc>>

\* The receiver is moved into a coroutine.
MoveIn ==
  /\ rpc = "native"
  /\ rpc' = "try"
  /\ UNCHANGED <<queue, received, counter, token, inbox, spc, sent, native>>

\* The owner of the receiver lets it go between two calls of recv().
DropReceiver ==
  /\ rpc \in {"try", "native"}
  /\ rpc' = "dropped"
  /\ queue' = <<>>
  /\ UNCHANGED <<received, counter, token, inbox, spc, sent, native>>

\* The parked coroutine is killed: its stack unwinds and drops the receiver,
\* blocked_on is cleared without deregistering, so the token stays behind.
KillReceiver ==
  /\ rpc = "blocked"
  /\ rpc' = "killed"
  /\ queue' = <<>>
  /\ UNCHANGED <<received, counter, token, inbox, spc, sent, native>>

-----------------------------------------------------------------------------
Receive ==
  \/ TryRecvOk
  \/ FetchSub
  \/ TryRecvEmpty
  \/ TryRecvDisconnected
  \/ Register
  \/ Wake
  \/ RecvNative
  \/ MoveIn

SendProgress(s) == FetchAdd(s) \/ MaybeNotify(s) \/ DropStd(s)

Next ==
  \/ \E s \in Senders : Send(s)
  \/ \E s \in Senders : SendProgress(s)
  \/ \E s, t \in Senders : Clone(s, t)
  \/ \E s \in Senders : DropArc(s)
  \/ Receive
  \/ IgnoreEvent
  \/ DropReceiver
  \/ KillReceiver

Spec == Init /\ [][Next]_vars

\* Threads run: a send() or drop() under way is finished, the event loop
\* handles its messages, and the receiver keeps calling recv().  Nobody has
\* to send, clone, drop or kill.
Fairness ==
  /\ \A s \in Senders : WF_vars(SendProgress(s))
  /\ WF_vars(Receive)

FairSpec == Spec /\ Fairness

-----------------------------------------------------------------------------
TypeOK ==
  /\ queue \in Seq(Senders)
  /\ Len(queue) <= Bound
  /\ received \in Seq(Senders)
  /\ counter \in 0 .. CounterMod - 1
  /\ token \in BOOLEAN
  /\ inbox \in Nat
  /\ spc \in [Senders -> SenderStep]
  /\ sent \in [Senders -> 0 .. MaxSends]
  /\ rpc \in ReceiverStep
  /\ native \in 0 .. MaxNative

\* Handles between the push and the fetch_add of a send().
Adding == {s \in Senders : spc[s] = "pushed"}

\* Is the increment of SenderShared::drop in the counter?
DropCounted == Holders = {} /\ \A s \in Senders : spc[s] # "dropAdd"

\* What the counter would be if it could not wrap: it lags behind the queue by
\* the sends that have not counted yet, and is ahead of it by a message popped
\* and not yet subtracted, by those received outside of a coroutine (which
\* never are) and by the mark of the last sender's drop.
Outstanding ==
  Len(queue) + native
    + (IF rpc = "got" THEN 1 ELSE 0)
    + (IF DropCounted THEN 1 ELSE 0)
    - Cardinality(Adding)

Wrap(n) == IF n < 0 THEN n + CounterMod ELSE n

\* The shared counter and the queue never drift apart, whatever the order of
\* the senders' fetch_add and the receiver's fetch_sub, wrap-around included
\* (try_recv's comment: "it is possible for _prev_counter to be zero").
CounterBalance == RxAlive => counter = Wrap(Outstanding)

\* A sender that is past its push or its drop and has not notified yet.
SenderBusy == \E s \in Senders : spc[s] \in {"pushed", "notify", "dropAdd", "dropNotify"}

\* No lost wake-up: a coroutine parked in recv() on a channel that has a
\* message, or has lost its last sender, has a ChannelMsg on its way unless a
\* sender is still on its way to send one.
NoLostWakeup ==
  rpc = "blocked" /\ (queue # <<>> \/ StdSenders = {}) /\ ~SenderBusy => inbox > 0

\* recv()'s debug_assert!(self.empty_shared_token()): a coroutine that runs
\* again after block_on() is registered nowhere, so that no sender notifies a
\* token of a coroutine that is not waiting.
ResumedWithoutToken == rpc \in {"native", "try", "got", "block"} => ~token

\* "Will block coroutine if no elements are available" (recv's doc comment):
\* with nobody in the middle of a send or a drop, a receiver that finds the
\* channel empty ends up parked instead of polling its event loop to a halt.
\* Not so once a message was received outside of a coroutine: RecvNative leaves
\* the counter above zero for good, and Register never parks again.
Quiet == \A s \in Senders : spc[s] \in {"unborn", "idle"}

ParksWhenEmpty ==
  (rpc = "block" /\ queue = <<>> /\ Quiet /\ native = 0)
    ~> (rpc \notin {"block", "try"} \/ queue # <<>> \/ ~Quiet)

\* The channel implements the FIFO channel of module FifoChannel: order,
\* disconnection after the last message, and, under fairness, no receiver left
\* waiting on a non-empty or disconnected channel.
Abs == INSTANCE FifoChannel WITH
  Message <- Senders,
  buf <- queue,
  out <- received,
  open <- (StdSenders # {}),
  rx <- CASE rpc \in {"dropped", "killed"} -> "dropped"
          [] rpc = "closed" -> "closed"
          [] OTHER -> "open"

ImplementsFifo == Abs!Spec
=============================================================================
