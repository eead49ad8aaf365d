------------------------------ MODULE Offload ------------------------------
(***************************************************************************)
(* offload() (src/mod.rs): a coroutine hands a closure to a scoped OS      *)
(* thread, waits on its sync_channel until the closure has returned and    *)
(* then joins the thread.  The closure borrows from the coroutine's stack. *)
(*                                                                         *)
(* The coroutines share one event-loop thread, which is module Runtime in  *)
(* short; it also kills them when it shuts down.  Of the channel (module   *)
(* Channel) the call uses one message: the send is push, fetch_add and     *)
(* notification, the receive is pop and fetch_sub, and the receiver parks  *)
(* after another look at the counter.                                      *)
(* The scoped thread is external: joining it, or dropping its JoinGuard,   *)
(* blocks the thread that does it and not just the coroutine.              *)
(***************************************************************************)
EXTENDS Integers, Sequences, FiniteSets

CONSTANTS
  Coroutine,
  MaxOps,     \* bound: offloads and yields of one coroutine
  None

ASSUME OffloadAssumption ==
  IsFiniteSet(Coroutine) /\ None \notin Coroutine /\ MaxOps \in Nat

VARIABLES
  pc,         \* where the coroutine is, see Where
  worker,     \* where the scoped thread of its call is, see Work
  msgs,       \* messages in its sync_channel
  counter,    \* the counter of the channel; -1 is the wrapped zero
  token,      \* coroutines whose receiver is registered
  inbox,      \* ChannelMsg messages queued at the event loop
  cur,        \* TL_CURRENT_COROUTINE, or None
  queue,      \* coroutines that are ready
  shutting,   \* Handler::is_shutting_down
  ops

vars == <<pc, worker, msgs, counter, token, inbox, cur, queue, shutting, ops>>

(***************************************************************************)
(*   idle    in user code                                                  *)
(*   recv    in offload, about to try_recv                                 *)
(*   got     in offload, has the message, before fetch_sub                 *)
(*   block   in offload, has found nothing, about to register              *)
(*   parked  in offload, blocked on the channel                            *)
(*   join    in join.join(); the event-loop thread waits                   *)
(*   unwind  killed in offload: the JoinGuard is dropped; it waits too     *)
(*   gone    finished                                                      *)
(***************************************************************************)
Where == {"idle", "recv", "got", "block", "parked", "join", "unwind", "gone"}

\* The stack frame of offload, which the closure may borrow from, exists.
InCall == {"recv", "got", "block", "parked", "join", "unwind"}

\* none; run (in the closure); send, count, notify (in sender.send); ended; panicked
Work == {"none", "run", "send", "count", "notify", "ended", "panicked"}

NoRepeats(q) == \A i, j \in DOMAIN q : q[i] = q[j] => i = j

Init ==
  /\ pc = [c \in Coroutine |-> "idle"]
  /\ worker = [c \in Coroutine |-> "none"]
  /\ msgs = [c \in Coroutine |-> 0]
  /\ counter = [c \in Coroutine |-> 0]
  /\ token = {}
  /\ inbox = <<>>
  /\ cur = None
  /\ queue \in {q \in [1 .. Cardinality(Coroutine) -> Coroutine] : NoRepeats(q)}
  /\ shutting = FALSE
  /\ ops = [c \in Coroutine |-> 0]

-----------------------------------------------------------------------------
(* The coroutine *)

At(c, where) == cur = c /\ pc[c] = where

Op(c) == ops[c] < MaxOps /\ ops' = [ops EXCEPT ![c] = @ + 1]

\* offload up to rx.recv(): the sync_channel is made on the first call and kept,
\* the thread gets a clone of its sender.
Call(c) ==
  /\ At(c, "idle")
  /\ Op(c)
  /\ worker' = [worker EXCEPT ![c] = "run"]
  /\ pc' = [pc EXCEPT ![c] = "recv"]
  /\ UNCHANGED <<msgs, counter, token, inbox, cur, queue, shutting>>

TryRecvOk(c) ==
  /\ At(c, "recv")
  /\ msgs[c] > 0
  /\ msgs' = [msgs EXCEPT ![c] = @ - 1]
  /\ pc' = [pc EXCEPT ![c] = "got"]
  /\ UNCHANGED <<worker, counter, token, inbox, cur, queue, shutting, ops>>

FetchSub(c) ==
  /\ At(c, "got")
  /\ counter' = [counter EXCEPT ![c] = @ - 1]
  /\ pc' = [pc EXCEPT ![c] = "join"]
  /\ UNCHANGED <<worker, msgs, token, inbox, cur, queue, shutting, ops>>

RecvNative(c) ==
  /\ At(c, "recv")
  /\ msgs[c] = 0
  /\ UNCHANGED vars

\* Empty: block_on jumps out.  Never Disconnected: the coroutine itself has the
\* sender that was cloned.
TryRecvEmpty(c) ==
  /\ At(c, "recv")
  /\ msgs[c] = 0
  /\ pc' = [pc EXCEPT ![c] = "block"]
  /\ UNCHANGED <<worker, msgs, counter, token, inbox, cur, queue, shutting, ops>>

RegisterUnchecked(c) ==
  /\ At(c, "block")
  /\ pc' = [pc EXCEPT ![c] = "parked"]
  /\ token' = token \cup {c}
  /\ cur' = None
  /\ UNCHANGED <<worker, msgs, counter, inbox, queue, shutting, ops>>

\* after_resume, ReceiverCore::register under the spin lock: if the counter says
\* that there is something, the coroutine is ready again.
Register(c) ==
  /\ At(c, "block")
  /\ IF counter[c] # 0
       THEN /\ pc' = [pc EXCEPT ![c] = "recv"]
            /\ queue' = Append(queue, c)
            /\ token' = token \ {c}
       ELSE /\ pc' = [pc EXCEPT ![c] = "parked"]
            /\ token' = token \cup {c}
            /\ queue' = queue
  /\ cur' = None
  /\ UNCHANGED <<worker, msgs, counter, inbox, shutting, ops>>

\* join.join()
Return(c) ==
  /\ At(c, "join")
  /\ worker[c] = "ended"
  /\ worker' = [worker EXCEPT ![c] = "none"]
  /\ pc' = [pc EXCEPT ![c] = "idle"]
  /\ UNCHANGED <<msgs, counter, token, inbox, cur, queue, shutting, ops>>

Yield(c) ==
  /\ At(c, "idle")
  /\ Op(c)
  /\ queue' = Append(queue, c)
  /\ cur' = None
  /\ UNCHANGED <<pc, worker, msgs, counter, token, inbox, shutting>>

Finish(c) ==
  /\ At(c, "idle")
  /\ pc' = [pc EXCEPT ![c] = "gone"]
  /\ cur' = None
  /\ UNCHANGED <<worker, msgs, counter, token, inbox, queue, shutting, ops>>

-----------------------------------------------------------------------------
(* The scoped thread *)

\* The closure ends, by return or by panic; a panic drops the clone of the sender.
ClosureEnds(c) ==
  /\ worker[c] = "run"
  /\ \E w \in {"send", "panicked"} : worker' = [worker EXCEPT ![c] = w]
  /\ UNCHANGED <<pc, msgs, counter, token, inbox, cur, queue, shutting, ops>>

\* sender.send(()).unwrap(): the receiver is in the coroutine, and that cannot be
\* gone while its JoinGuard is there.
Push(c) ==
  /\ worker[c] = "send"
  /\ msgs' = [msgs EXCEPT ![c] = @ + 1]
  /\ worker' = [worker EXCEPT ![c] = "count"]
  /\ UNCHANGED <<pc, counter, token, inbox, cur, queue, shutting, ops>>

\* Only a thread that finds zero goes on to notify.
FetchAdd(c) ==
  /\ worker[c] = "count"
  /\ counter' = [counter EXCEPT ![c] = @ + 1]
  /\ worker' = [worker EXCEPT ![c] = IF counter[c] = 0 THEN "notify" ELSE "ended"]
  /\ UNCHANGED <<pc, msgs, token, inbox, cur, queue, shutting, ops>>

NotifyNobody(c) ==
  /\ worker[c] = "notify"
  /\ worker' = [worker EXCEPT ![c] = "ended"]
  /\ UNCHANGED <<pc, msgs, counter, token, inbox, cur, queue, shutting, ops>>

\* maybe_notify_receiver, under the spin lock
Notify(c) ==
  /\ worker[c] = "notify"
  /\ inbox' = IF c \in token THEN Append(inbox, c) ELSE inbox
  /\ worker' = [worker EXCEPT ![c] = "ended"]
  /\ UNCHANGED <<pc, msgs, counter, token, cur, queue, shutting, ops>>

-----------------------------------------------------------------------------
(* The event-loop thread *)

Resume ==
  /\ cur = None
  /\ ~shutting
  /\ queue # <<>>
  /\ cur' = Head(queue)
  /\ queue' = Tail(queue)
  /\ UNCHANGED <<pc, worker, msgs, counter, token, inbox, shutting, ops>>

\* Handler::ready of a parked coroutine, for its ChannelMsg or for a stale event:
\* deregister, and try again.
Wakes(c) ==
  /\ pc' = [pc EXCEPT ![c] = "recv"]
  /\ token' = token \ {c}
  /\ cur' = c

OnChannelMsg ==
  /\ cur = None
  /\ inbox # <<>>
  /\ inbox' = Tail(inbox)
  /\ IF pc[Head(inbox)] = "parked" /\ ~shutting
       THEN Wakes(Head(inbox))
       ELSE UNCHANGED <<pc, token, cur>>
  /\ UNCHANGED <<worker, msgs, counter, queue, shutting, ops>>

StaleEvent(c) ==
  /\ cur = None
  /\ ~shutting
  /\ pc[c] = "parked"
  /\ Wakes(c)
  /\ UNCHANGED <<worker, msgs, counter, inbox, queue, shutting, ops>>

Shutdown ==
  /\ cur = None
  /\ ~shutting
  /\ shutting' = TRUE
  /\ UNCHANGED <<pc, worker, msgs, counter, token, inbox, cur, queue, ops>>

KillDetaches(c) ==
  /\ shutting
  /\ cur = None
  /\ pc[c] # "gone"
  /\ pc' = [pc EXCEPT ![c] = "gone"]
  /\ UNCHANGED <<worker, msgs, counter, token, inbox, cur, queue, shutting, ops>>

KillIdleOnly(c) ==
  /\ shutting
  /\ cur = None
  /\ pc[c] = "idle"
  /\ pc' = [pc EXCEPT ![c] = "gone"]
  /\ UNCHANGED <<worker, msgs, counter, token, inbox, cur, queue, shutting, ops>>

\* shutdown_one_coroutine: one that is in offload drops its JoinGuard first.
Kill(c) ==
  /\ shutting
  /\ cur = None
  /\ pc[c] # "gone"
  /\ IF pc[c] \in InCall
       THEN pc' = [pc EXCEPT ![c] = "unwind"] /\ cur' = c
       ELSE pc' = [pc EXCEPT ![c] = "gone"] /\ cur' = None
  /\ UNCHANGED <<worker, msgs, counter, token, inbox, queue, shutting, ops>>

Unwound(c) ==
  /\ At(c, "unwind")
  /\ worker[c] \in {"ended", "panicked"}
  /\ worker' = [worker EXCEPT ![c] = "none"]
  /\ pc' = [pc EXCEPT ![c] = "gone"]
  /\ cur' = None
  /\ UNCHANGED <<msgs, counter, token, inbox, queue, shutting, ops>>

-----------------------------------------------------------------------------
LoopStep ==
  \E c \in Coroutine :
    \/ Call(c) \/ TryRecvOk(c) \/ FetchSub(c) \/ TryRecvEmpty(c) \/ Register(c)
    \/ Return(c) \/ Yield(c) \/ Finish(c)
    \/ Kill(c) \/ Unwound(c)

SendStep(c) == Push(c) \/ FetchAdd(c) \/ Notify(c)

Done == (\A c \in Coroutine : pc[c] = "gone") /\ UNCHANGED vars

Next ==
  \/ LoopStep
  \/ Resume
  \/ OnChannelMsg
  \/ \E c \in Coroutine : ClosureEnds(c) \/ SendStep(c) \/ StaleEvent(c)
  \/ Shutdown
  \/ Done

Spec == Init /\ [][Next]_vars

\* Threads run, and every round of the event loop handles the messages that are
\* queued and ticks.  A closure may go on for ever.
Fairness ==
  /\ WF_vars(LoopStep)
  /\ SF_vars(Resume)
  /\ SF_vars(OnChannelMsg)
  /\ \A c \in Coroutine : WF_vars(SendStep(c))

FairSpec == Spec /\ Fairness

-----------------------------------------------------------------------------
TypeOK ==
  /\ pc \in [Coroutine -> Where]
  /\ worker \in [Coroutine -> Work]
  /\ msgs \in [Coroutine -> Nat]
  /\ counter \in [Coroutine -> Int]
  /\ token \subseteq Coroutine
  /\ inbox \in Seq(Coroutine)
  /\ cur \in Coroutine \cup {None}
  /\ queue \in Seq(Coroutine)
  /\ shutting \in BOOLEAN
  /\ ops \in [Coroutine -> 0 .. MaxOps]

\* "find some wise people to confirm if this is sound" (offload): the scoped thread
\* is there only while the stack frame its closure borrows from is, whatever
\* becomes of the coroutine.  "without blocking cooperative coroutine scheduling":
\* and by the time offload joins its thread, which stops the event loop, the
\* closure has returned.  A message left in the channel by an earlier call would
\* break this.
ThreadMatchesCall ==
  \A c \in Coroutine :
    /\ worker[c] # "none" => pc[c] \in InCall
    /\ pc[c] = "join" => worker[c] \in {"count", "notify", "ended"}

\* The others run meanwhile, even if the closure never ends.
OthersRun == \A c \in Coroutine :
  (\E i \in DOMAIN queue : queue[i] = c) ~> (cur = c \/ shutting)

\* offload rests on one notification per call, sent by a thread that nothing keeps
\* in step with the coroutine.  While a coroutine is parked in offload, the thread
\* of a closure that has returned is going to notify and finds the token, or has
\* done so and the ChannelMsg waits at the event loop, however the push, the count
\* and the notification interleave with pop, parking and stale events.
WakeupUnderway ==
  ~shutting => \A c \in Coroutine : pc[c] = "parked" =>
    CASE worker[c] \in {"send", "count"} -> c \in token /\ counter[c] = 0
      [] worker[c] = "notify" -> c \in token
      [] worker[c] = "ended" -> \E i \in DOMAIN inbox : inbox[i] = c
      [] OTHER -> worker[c] \in {"run", "panicked"}

\* A closure that has returned brings its coroutine back, also when it returns
\* before the coroutine has parked, or after a stale event.
OffloadReturns == \A c \in Coroutine :
  worker[c] = "send" ~> (pc[c] \in {"idle", "gone"} \/ shutting)

\* "All existing coroutines will be forced in to panic, and their stack unwind"
\* (shutdown): only a closure that is still running delays this, one that has
\* panicked and never sends does not.
ShutdownWaitsForClosures ==
  shutting ~> \/ \A c \in Coroutine : pc[c] = "gone"
              \/ \E c \in Coroutine : At(c, "unwind") /\ worker[c] = "run"
=============================================================================
