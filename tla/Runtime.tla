------------------------------ MODULE Runtime ------------------------------
(***************************************************************************)
(* One mioco instance: Mioco::run, the event-loop threads with their       *)
(* Handler (src/thread.rs), the coroutines with their CoroutineControls    *)
(* (src/coroutine.rs, src/mod.rs) and the default FifoScheduler.           *)
(*                                                                         *)
(* Threads share the notify queues of the event loops, the coroutine       *)
(* count, mioco_started and the scheduler's thread counter.  An action is  *)
(* what one thread does between two accesses to these: everything else is  *)
(* local to the thread.  A broadcast is one send per action.               *)
(*                                                                         *)
(* The exit channel of a coroutine is module Channel in short: a status or *)
(* a disconnection that is there or not, and the token of a parked joiner. *)
(***************************************************************************)
EXTENDS Integers, Sequences, FiniteSets

CONSTANTS
  Coroutine,    \* the coroutines that may ever be spawned
  Main,         \* the one Mioco::start is called with
  N,            \* Config::thread_num
  MaxOps,       \* bound: times a coroutine yields or blocks
  CatchPanics,  \* coroutine::Config::catch_panics
  Joins,        \* do coroutines join the ones they have spawned?
  Starts,       \* earlier calls of start() on the same Mioco
  None

ASSUME CoroutineAssumption == IsFiniteSet(Coroutine) /\ Main \in Coroutine /\ None \notin Coroutine

ASSUME BoundAssumption == N \in Nat \ {0} /\ MaxOps \in Nat /\ Starts \in Nat

ASSUME FlagAssumption == CatchPanics \in BOOLEAN /\ Joins \in BOOLEAN

Thread == 0 .. N - 1

ASSUME ThreadAssumption == None \notin Thread

ASSUME TokenAssumption == None \notin [co : Coroutine, thread : Thread]

VARIABLES
  \* coroutines
  state,      \* Coroutine::state ("unborn" before spawn)
  killed,     \* coroutines with Coroutine::killed set
  home,       \* the thread whose slab holds the coroutine, or None
  children,   \* Coroutine::children_to_start
  parent,     \* who holds the coroutine's JoinHandle, or None
  waits,      \* the coroutine it is in JoinHandle::join() for, or None
  token,      \* the joiner parked on its exit channel, [co, thread], or None
  exited,     \* coroutines whose exit_sender has sent or is gone
  stopping,   \* coroutines in the loop of shutdown()
  ops,        \* yields and blocks so far
  \* threads
  phase,      \* where the thread is, see Phase
  cur,        \* TL_CURRENT_COROUTINE, or None
  spawned,    \* HandlerShared::spawned
  ready,      \* HandlerShared::ready, with CoroutineControl::is_yielding
  delayed,    \* FifoSchedulerThread::delayed
  tickLeft,   \* resumes left in FifoSchedulerThread::tick
  shutting,   \* threads with Handler::is_shutting_down
  todo,       \* sends left of a broadcast
  schedId,    \* FifoSchedulerThread::thread_id
  schedI,     \* FifoSchedulerThread::thread_i
  \* shared
  inbox,      \* notify queues of the event loops
  num,        \* HandlerThreadShared::coroutines_num
  started,    \* HandlerThreadShared::mioco_started
  schedNum    \* FifoScheduler::thread_num

coVars == <<state, killed, home, children, parent, waits, token, exited, stopping, ops>>
threadVars == <<phase, cur, spawned, ready, delayed, tickLeft, shutting, todo, schedId, schedI>>
sharedVars == <<inbox, num, started, schedNum>>
vars == <<coVars, threadVars, sharedVars>>

(***************************************************************************)
(* Where a thread is:                                                      *)
(*   new      the OS thread has not called spawn_thread yet                *)
(*   waiting  before wait_for_start_all                                    *)
(*   spawned, ready   deliver_to_scheduler, about to look at that queue    *)
(*   tick     in FifoSchedulerThread::tick                                 *)
(*   kill     in Handler::shutdown                                         *)
(*   poll     in EventLoop::run, between two callbacks                     *)
(*   last     the same after EventLoop::shutdown                           *)
(*   exited   thread_loop has returned and the event loop is closed        *)
(*   unwind   a panic drops the Handler and the scheduler's controls       *)
(*   panicked the thread is gone with its event loop                       *)
(*   aborted  a panic on the stack of a coroutine, but outside of the      *)
(*            catch_unwind of coroutine_main_fn: with nowhere to unwind to *)
(*            it takes the process with it                                 *)
(* A thread with a current coroutine runs that coroutine and is in its     *)
(* phase again after the coroutine has jumped out.                         *)
(***************************************************************************)
Phase == {"new", "waiting", "spawned", "ready", "tick", "kill", "poll", "last",
          "exited", "unwind", "panicked", "aborted"}

\* There is no event loop to send to, and nothing that the thread could do.
Closed(t) == phase[t] \in {"exited", "panicked", "aborted"}

\* The process is gone.
Aborted == \E t \in Thread : phase[t] = "aborted"

\* Mioco::run has joined the other threads, whose panics it ignores, and start()
\* returns.
Returned == phase[0] = "exited" /\ \A t \in Thread : phase[t] \in {"exited", "panicked"}

Migration(c) == [type |-> "Migration", co |-> c]
ChannelMsg(c) == [type |-> "ChannelMsg", co |-> c]
Shutdown == [type |-> "Shutdown", co |-> None]
Terminate == [type |-> "Terminate", co |-> None]
PropagatePanic == [type |-> "PropagatePanic", co |-> None]

\* The scheduler is part of the Config and counts the threads of every start().
Init ==
  /\ state = [c \in Coroutine |-> "unborn"]
  /\ killed = {}
  /\ home = [c \in Coroutine |-> None]
  /\ children = [c \in Coroutine |-> <<>>]
  /\ parent = [c \in Coroutine |-> None]
  /\ waits = [c \in Coroutine |-> None]
  /\ token = [c \in Coroutine |-> None]
  /\ exited = {}
  /\ stopping = {}
  /\ ops = [c \in Coroutine |-> 0]
  /\ phase = [t \in Thread |-> IF t = 0 THEN "waiting" ELSE "new"]
  /\ cur = [t \in Thread |-> None]
  /\ spawned = [t \in Thread |-> <<>>]
  /\ ready = [t \in Thread |-> <<>>]
  /\ delayed = [t \in Thread |-> <<>>]
  /\ tickLeft = [t \in Thread |-> 0]
  /\ shutting = {}
  /\ todo = [t \in Thread |-> <<>>]
  /\ schedId = [t \in Thread |-> IF t = 0 THEN Starts * N ELSE 0]
  /\ schedI = schedId
  /\ inbox = [t \in Thread |-> <<>>]
  /\ num = 0
  /\ started = FALSE
  /\ schedNum = Starts * N + 1

-----------------------------------------------------------------------------
(* Pieces of the handlers *)

\* coroutine::jump_in on behalf of thread t, which goes on in phase ph.
JumpIn(t, c, ph) ==
  /\ cur' = [cur EXCEPT ![t] = c]
  /\ phase' = [phase EXCEPT ![t] = ph]

\* Coroutine::unblock: deregister_all takes the token back.
Unblock(c) ==
  /\ state' = [state EXCEPT ![c] = "Ready"]
  /\ token' = IF waits[c] = None THEN token ELSE [token EXCEPT ![waits[c]] = None]

StartChildrenForgotten(t, c) ==
  /\ spawned' = spawned
  /\ children' = [children EXCEPT ![c] = <<>>]

\* Coroutine::start_children, on the way out of coroutine c.
StartChildren(t, c) ==
  /\ spawned' = [spawned EXCEPT ![t] = @ \o children[c]]
  /\ children' = [children EXCEPT ![c] = <<>>]

Control(c, y) == [co |-> c, yielding |-> y]

\* sender_retry by thread t, which goes on in phase ph.  A send to a closed event
\* loop panics: on the stack of a coroutine that has ended, or with a control in
\* the message whose drop kills a coroutine that has no Handler.
SendTo(t, u, m, ph) ==
  IF Closed(u)
    THEN /\ phase' = [phase EXCEPT ![t] = "aborted"]
         /\ inbox' = inbox
    ELSE /\ inbox' = [inbox EXCEPT ![u] = Append(@, m)]
         /\ phase' = [phase EXCEPT ![t] = ph]

BroadcastShort(m) == [i \in 1 .. N - 1 |-> [to |-> i - 1, msg |-> m]]

\* One send to every thread.
Broadcast(m) == [i \in 1 .. N |-> [to |-> i - 1, msg |-> m]]

\* A thread that is running no coroutine and is in phase ph.
At(t, ph) == phase[t] = ph /\ cur[t] = None

-----------------------------------------------------------------------------
(* Starting: Mioco::run, Mioco::thread_loop *)

\* Scheduler::spawn_thread on a thread of its own: ids go to whoever comes first.
SpawnThread(t) ==
  /\ phase[t] = "new"
  /\ schedId' = [schedId EXCEPT ![t] = schedNum]
  /\ schedI' = [schedI EXCEPT ![t] = schedNum]
  /\ schedNum' = schedNum + 1
  /\ phase' = [phase EXCEPT ![t] = "waiting"]
  /\ UNCHANGED <<coVars, cur, spawned, ready, delayed, tickLeft, shutting, todo,
                 inbox, num, started>>

\* The first thread spawns the first coroutine, signals the start and ticks.
StartMain ==
  /\ phase[0] = "waiting"
  /\ state' = [state EXCEPT ![Main] = "Ready"]
  /\ home' = [home EXCEPT ![Main] = 0]
  /\ num' = num + 1
  /\ started' = TRUE
  /\ spawned' = [spawned EXCEPT ![0] = Append(@, Main)]
  /\ phase' = [phase EXCEPT ![0] = "spawned"]
  /\ UNCHANGED <<killed, children, parent, waits, token, exited, stopping, ops, cur, ready, delayed,
                 tickLeft, shutting, todo, schedId, schedI, inbox, schedNum>>

\* The other threads wait for it; their first tick has nothing to deliver.
StartOther(t) ==
  /\ t # 0
  /\ phase[t] = "waiting"
  /\ started
  /\ phase' = [phase EXCEPT ![t] = "poll"]
  /\ UNCHANGED <<coVars, cur, spawned, ready, delayed, tickLeft, shutting, todo, schedId,
                 schedI, sharedVars>>

-----------------------------------------------------------------------------
(* Handler::deliver_to_scheduler and the FifoScheduler: one spawned, one    *)
(* ready control in turn, until both queues are empty.                      *)

NextIUnchecked(t) == schedI[t] + 1

\* FifoSchedulerThread::thread_next_i
ThreadNextI(t) == IF schedI[t] + 1 >= schedNum THEN 0 ELSE schedI[t] + 1

SpawnedTurn(t) ==
  /\ At(t, "spawned") \/ (At(t, "ready") /\ ready[t] = <<>>)
  /\ spawned[t] # <<>>

\* FifoSchedulerThread::spawned, when it is this thread's turn to run the child.
SpawnedResume(t) ==
  /\ SpawnedTurn(t)
  /\ schedI[t] = schedId[t]
  /\ JumpIn(t, Head(spawned[t]), "ready")
  /\ spawned' = [spawned EXCEPT ![t] = Tail(@)]
  /\ schedI' = [schedI EXCEPT ![t] = ThreadNextI(t)]
  /\ UNCHANGED <<coVars, ready, delayed, tickLeft, shutting, todo, schedId, sharedVars>>

\* ... and when it is another's: CoroutineControl::migrate takes the coroutine
\* out of the slab and into the notify queue of thread thread_i.  There is no
\* sender to a thread that does not exist: the panic is the thread's own.
SpawnedMigrate(t) ==
  /\ SpawnedTurn(t)
  /\ schedI[t] # schedId[t]
  /\ home' = [home EXCEPT ![Head(spawned[t])] = None]
  /\ IF schedI[t] \in Thread
       THEN SendTo(t, schedI[t], Migration(Head(spawned[t])), "ready")
       ELSE phase' = [phase EXCEPT ![t] = "unwind"] /\ inbox' = inbox
  /\ spawned' = [spawned EXCEPT ![t] = Tail(@)]
  /\ schedI' = [schedI EXCEPT ![t] = ThreadNextI(t)]
  /\ UNCHANGED <<state, killed, children, parent, waits, token, exited, stopping, ops, cur, ready,
                 delayed, tickLeft, shutting, todo, schedId, num, started, schedNum>>

ReadyTurn(t) ==
  /\ At(t, "ready") \/ (At(t, "spawned") /\ spawned[t] = <<>>)
  /\ ready[t] # <<>>

\* FifoSchedulerThread::ready
ReadyDelay(t) ==
  /\ ReadyTurn(t)
  /\ Head(ready[t]).yielding
  /\ delayed' = [delayed EXCEPT ![t] = Append(@, Head(ready[t]).co)]
  /\ ready' = [ready EXCEPT ![t] = Tail(@)]
  /\ phase' = [phase EXCEPT ![t] = "spawned"]
  /\ UNCHANGED <<coVars, cur, spawned, tickLeft, shutting, todo, schedId, schedI, sharedVars>>

ReadyResume(t) ==
  /\ ReadyTurn(t)
  /\ ~Head(ready[t]).yielding
  /\ JumpIn(t, Head(ready[t]).co, "spawned")
  /\ ready' = [ready EXCEPT ![t] = Tail(@)]
  /\ UNCHANGED <<coVars, spawned, delayed, tickLeft, shutting, todo, schedId, schedI, sharedVars>>

Delivered(t) ==
  /\ At(t, "spawned") \/ At(t, "ready")
  /\ spawned[t] = <<>>
  /\ ready[t] = <<>>
  /\ phase' = [phase EXCEPT ![t] = "poll"]
  /\ UNCHANGED <<coVars, cur, spawned, ready, delayed, tickLeft, shutting, todo, schedId,
                 schedI, sharedVars>>

Deliver(t) ==
  \/ SpawnedResume(t)
  \/ SpawnedMigrate(t)
  \/ ReadyDelay(t)
  \/ ReadyResume(t)
  \/ Delivered(t)

-----------------------------------------------------------------------------
(* What a coroutine may do while it runs *)

\* Coroutine c runs its own code on thread t.
Running(t, c) ==
  /\ cur[t] = c
  /\ state[c] # "Finished"
  /\ todo[t] = <<>>
  /\ ~Closed(t)

\* ... and is not just unwinding, looping in shutdown() or waiting in join().
Free(t, c) ==
  /\ Running(t, c)
  /\ c \notin killed
  /\ c \notin stopping
  /\ waits[c] = None

\* mioco::spawn: Coroutine::spawn and spawn_child
Spawn(t, c, d) ==
  /\ Free(t, c)
  /\ state[d] = "unborn"
  /\ d # Main
  /\ state' = [state EXCEPT ![d] = "Ready"]
  /\ home' = [home EXCEPT ![d] = t]
  /\ parent' = [parent EXCEPT ![d] = c]
  /\ num' = num + 1
  /\ children' = [children EXCEPT ![c] = Append(@, d)]
  /\ UNCHANGED <<killed, waits, token, exited, stopping, ops, threadVars, inbox, started,
                 schedNum>>

\* yield_now, and after_resume: back through the ready queue, marked yielding.
Yield(t, c) ==
  /\ \/ Free(t, c) /\ ops[c] < MaxOps /\ ops' = [ops EXCEPT ![c] = @ + 1]
     \/ Running(t, c) /\ c \in stopping \ killed /\ ops' = ops
  /\ StartChildren(t, c)
  /\ ready' = [ready EXCEPT ![t] = Append(@, Control(c, TRUE))]
  /\ cur' = [cur EXCEPT ![t] = None]
  /\ UNCHANGED <<state, killed, home, parent, waits, token, exited, stopping, phase, delayed,
                 tickLeft, shutting, todo, schedId, schedI, sharedVars>>

\* block_on or select_wait on some event source, and after_resume.
Block(t, c) ==
  /\ Free(t, c)
  /\ ops[c] < MaxOps
  /\ ops' = [ops EXCEPT ![c] = @ + 1]
  /\ StartChildren(t, c)
  /\ \/ state' = [state EXCEPT ![c] = "Blocked"] /\ ready' = ready
     \/ \* register() finds it ready
        state' = state /\ ready' = [ready EXCEPT ![t] = Append(@, Control(c, FALSE))]
  /\ cur' = [cur EXCEPT ![t] = None]
  /\ UNCHANGED <<killed, home, parent, waits, token, exited, stopping, phase, delayed,
                 tickLeft, shutting, todo, schedId, schedI, sharedVars>>

\* JoinHandle::join of a coroutine that has not exited: park on its exit channel.
Join(t, c, d) ==
  /\ Joins
  /\ Running(t, c)
  /\ c \notin killed \cup stopping
  /\ waits[c] = d \/ (waits[c] = None /\ parent[d] = c)
  /\ d \notin exited
  /\ waits' = [waits EXCEPT ![c] = d]
  /\ token' = [token EXCEPT ![d] = [co |-> c, thread |-> t]]
  /\ state' = [state EXCEPT ![c] = "Blocked"]
  /\ StartChildren(t, c)
  /\ cur' = [cur EXCEPT ![t] = None]
  /\ UNCHANGED <<killed, home, parent, exited, stopping, ops, phase, ready, delayed, tickLeft,
                 shutting, todo, schedId, schedI, sharedVars>>

JoinReturnWoken(t, c) ==
  /\ Running(t, c)
  /\ c \notin killed
  /\ waits[c] # None
  /\ waits' = [waits EXCEPT ![c] = None]
  /\ UNCHANGED <<state, killed, home, children, parent, token, exited, stopping, ops,
                 threadVars, sharedVars>>

\* recv() of the exit channel returns the status, or that there is none.
JoinReturn(t, c) ==
  /\ Running(t, c)
  /\ c \notin killed
  /\ waits[c] # None
  /\ waits[c] \in exited
  /\ waits' = [waits EXCEPT ![c] = None]
  /\ UNCHANGED <<state, killed, home, children, parent, token, exited, stopping, ops,
                 threadVars, sharedVars>>

\* shutdown(): one Shutdown for every thread, then yield for ever.
CallShutdown(t, c) ==
  /\ Free(t, c)
  /\ stopping' = stopping \cup {c}
  /\ todo' = [todo EXCEPT ![t] = Broadcast(Shutdown)]
  /\ UNCHANGED <<state, killed, home, children, parent, waits, token, exited, ops, phase, cur,
                 spawned, ready, delayed, tickLeft, shutting, schedId, schedI, sharedVars>>

\* shutdown() of c has come to a closed event loop: sender_retry panics in user code.
ShutdownPanics(t, c) ==
  /\ cur[t] = c
  /\ state[c] # "Finished"
  /\ ~Closed(t)
  /\ todo[t] # <<>>
  /\ Closed(Head(todo[t]).to)

\* The next send of broadcast_shutdown, broadcast_terminate or PropagatePanic.
SendNext(t) ==
  /\ todo[t] # <<>>
  /\ ~Closed(t)
  /\ state[cur[t]] = "Finished" \/ ~Closed(Head(todo[t]).to)
  /\ SendTo(t, Head(todo[t]).to, Head(todo[t]).msg, phase[t])
  /\ todo' = [todo EXCEPT ![t] = Tail(@)]
  /\ UNCHANGED <<coVars, cur, spawned, ready, delayed, tickLeft, shutting, schedId, schedI, num,
                 started, schedNum>>

LastTwo == num <= 2

\* coroutines_dec: was this the last one?
LastOne == num = 1

\* The end of coroutine_main_fn, by return (ok) or by panic: out of the slab,
\* coroutines_dec, and the broadcasts that follow from it.  A panic that is not
\* caught is sent to the own thread.
Finish(t, c, ok) ==
  /\ \/ Free(t, c)
     \/ Running(t, c) /\ c \in killed /\ ~ok
     \/ ShutdownPanics(t, c) /\ ~ok
  /\ state' = [state EXCEPT ![c] = "Finished"]
  /\ home' = [home EXCEPT ![c] = None]
  /\ num' = num - 1
  /\ todo' = [todo EXCEPT ![t] =
       (IF LastOne THEN Broadcast(Terminate) ELSE <<>>)
         \o (IF ok \/ CatchPanics THEN <<>> ELSE <<[to |-> t, msg |-> PropagatePanic]>>)]
  /\ UNCHANGED <<killed, children, parent, waits, token, exited, stopping, ops, phase, cur,
                 spawned, ready, delayed, tickLeft, shutting, schedId, schedI, inbox, started,
                 schedNum>>

ExitUnnoticed(t, c) == UNCHANGED <<inbox, phase>>

\* exit_sender sends the status or is just dropped; either notifies the token it
\* finds.
NotifyJoiner(t, c) ==
  IF token[c] = None
    THEN UNCHANGED <<inbox, phase>>
    ELSE SendTo(t, token[c].thread, ChannelMsg(token[c].co), phase[t])

\* ... and the last jump out, with after_resume.  (After a kill there is none,
\* and no children to start.)
ExitSend(t, c) ==
  /\ cur[t] = c
  /\ state[c] = "Finished"
  /\ todo[t] = <<>>
  /\ ~Closed(t)
  /\ exited' = exited \cup {c}
  /\ NotifyJoiner(t, c)
  /\ StartChildren(t, c)
  /\ cur' = [cur EXCEPT ![t] = None]
  /\ UNCHANGED <<state, killed, home, parent, waits, token, stopping, ops, ready, delayed,
                 tickLeft, shutting, todo, schedId, schedI, num, started, schedNum>>

-----------------------------------------------------------------------------
(* The callbacks of the event loop *)

\* Handler::ready for an event source of c: real, spurious, or addressed to a
\* coroutine that had c's slab slot before.
Event(t, c) ==
  /\ At(t, "poll")
  /\ home[c] = t
  /\ state[c] = "Blocked"
  /\ Unblock(c)
  /\ JumpIn(t, c, "spawned")
  /\ UNCHANGED <<killed, home, children, parent, waits, exited, stopping, ops, spawned, ready,
                 delayed, tickLeft, shutting, todo, schedId, schedI, sharedVars>>

\* Handler::notify takes the next message.
Receives(t, type) ==
  /\ At(t, "poll") \/ At(t, "last")
  /\ inbox[t] # <<>>
  /\ Head(inbox[t]).type = type
  /\ inbox' = [inbox EXCEPT ![t] = Tail(@)]

WakesAnyState(t, c) == home[c] = t

\* CoroutineSlabHandle::event is for a coroutine that is here and blocked.
Wakes(t, c) == home[c] = t /\ state[c] = "Blocked"

OnChannelMsg(t) ==
  /\ Receives(t, "ChannelMsg")
  /\ LET c == Head(inbox[t]).co
     IN IF Wakes(t, c)
          THEN Unblock(c) /\ JumpIn(t, c, "spawned")
          ELSE UNCHANGED <<state, token, cur, phase>>
  /\ UNCHANGED <<killed, home, children, parent, waits, exited, stopping, ops, spawned, ready,
                 delayed, tickLeft, shutting, todo, schedId, schedI, num, started, schedNum>>

NeverKillOnArrival(t) == FALSE

KillOnArrival(t) == t \in shutting

\* reattach_to, then resume, or kill when this thread is shutting down.
OnMigration(t) ==
  /\ Receives(t, "Migration")
  /\ LET c == Head(inbox[t]).co
     IN /\ home' = [home EXCEPT ![c] = t]
        /\ IF KillOnArrival(t)
             THEN killed' = killed \cup {c} /\ JumpIn(t, c, "poll")
             ELSE killed' = killed /\ JumpIn(t, c, "spawned")
  /\ UNCHANGED <<state, children, parent, waits, token, exited, stopping, ops, spawned, ready,
                 delayed, tickLeft, shutting, todo, schedId, schedI, num, started, schedNum>>

\* Handler::shutdown
OnShutdown(t) ==
  /\ Receives(t, "Shutdown")
  /\ shutting' = shutting \cup {t}
  /\ phase' = [phase EXCEPT ![t] = "kill"]
  /\ UNCHANGED <<coVars, cur, spawned, ready, delayed, tickLeft, todo, schedId, schedI, num,
                 started, schedNum>>

\* shutdown_one_coroutine: the control made for it is dropped, which kills it.
\* Slab order is left open.
KillNext(t, c) ==
  /\ At(t, "kill")
  /\ home[c] = t
  /\ killed' = killed \cup {c}
  /\ JumpIn(t, c, "kill")
  /\ UNCHANGED <<state, home, children, parent, waits, token, exited, stopping, ops, spawned,
                 ready, delayed, tickLeft, shutting, todo, schedId, schedI, sharedVars>>

KillDone(t) ==
  /\ At(t, "kill")
  /\ \A c \in Coroutine : home[c] # t
  /\ phase' = [phase EXCEPT ![t] = "poll"]
  /\ UNCHANGED <<coVars, cur, spawned, ready, delayed, tickLeft, shutting, todo, schedId,
                 schedI, sharedVars>>

\* EventLoop::shutdown: the messages of this batch are still handled.
OnTerminate(t) ==
  /\ Receives(t, "Terminate")
  /\ phase' = [phase EXCEPT ![t] = "last"]
  /\ UNCHANGED <<coVars, cur, spawned, ready, delayed, tickLeft, shutting, todo, schedId,
                 schedI, num, started, schedNum>>

\* The loop ends.  A PropagatePanic comes from the thread itself and is in the
\* batch of the Terminate, so it has been handled.
Exit(t) ==
  /\ At(t, "last")
  /\ \A i \in DOMAIN inbox[t] : inbox[t][i] # PropagatePanic
  /\ phase' = [phase EXCEPT ![t] = "exited"]
  /\ UNCHANGED <<coVars, cur, spawned, ready, delayed, tickLeft, shutting, todo, schedId,
                 schedI, sharedVars>>

\* resume_unwind out of thread_loop: the scheduler is dropped and with it its
\* delayed controls, one kill each.
OnPropagatePanic(t) ==
  /\ Receives(t, "PropagatePanic")
  /\ phase' = [phase EXCEPT ![t] = "unwind"]
  /\ UNCHANGED <<coVars, cur, spawned, ready, delayed, tickLeft, shutting, todo, schedId,
                 schedI, num, started, schedNum>>

Unwind(t) ==
  /\ At(t, "unwind")
  /\ IF delayed[t] = <<>>
       THEN phase' = [phase EXCEPT ![t] = "panicked"] /\ UNCHANGED <<killed, cur, delayed>>
       ELSE /\ delayed' = [delayed EXCEPT ![t] = Tail(@)]
            /\ IF state[Head(delayed[t])] = "Finished"
                 THEN UNCHANGED <<killed, cur, phase>>
                 ELSE /\ killed' = killed \cup {Head(delayed[t])}
                      /\ JumpIn(t, Head(delayed[t]), "unwind")
  /\ UNCHANGED <<state, home, children, parent, waits, token, exited, stopping, ops, spawned,
                 ready, tickLeft, shutting, todo, schedId, schedI, sharedVars>>

-----------------------------------------------------------------------------
(* Handler::tick with the controls that were delayed before it *)

Tick(t) ==
  /\ At(t, "poll")
  /\ t \notin shutting
  /\ delayed[t] # <<>>
  /\ tickLeft' = [tickLeft EXCEPT ![t] = Len(delayed[t])]
  /\ phase' = [phase EXCEPT ![t] = "tick"]
  /\ UNCHANGED <<coVars, cur, spawned, ready, delayed, shutting, todo, schedId, schedI,
                 sharedVars>>

TickResume(t) ==
  /\ At(t, "tick")
  /\ tickLeft[t] > 0
  /\ tickLeft' = [tickLeft EXCEPT ![t] = @ - 1]
  /\ JumpIn(t, Head(delayed[t]), "tick")
  /\ delayed' = [delayed EXCEPT ![t] = Tail(@)]
  /\ UNCHANGED <<coVars, spawned, ready, shutting, todo, schedId, schedI, sharedVars>>

TickDone(t) ==
  /\ At(t, "tick")
  /\ tickLeft[t] = 0
  /\ phase' = [phase EXCEPT ![t] = "spawned"]
  /\ UNCHANGED <<coVars, cur, spawned, ready, delayed, tickLeft, shutting, todo, schedId,
                 schedI, sharedVars>>

-----------------------------------------------------------------------------
\* User code.  It may do any of this, and goes on until it blocks or ends.
Run(t) ==
  \E c \in Coroutine :
    \/ \E d \in Coroutine : Spawn(t, c, d) \/ Join(t, c, d)
    \/ Yield(t, c)
    \/ Block(t, c)
    \/ JoinReturn(t, c)
    \/ CallShutdown(t, c)
    \/ \E ok \in BOOLEAN : Finish(t, c, ok)
    \/ ExitSend(t, c)

Notify(t) ==
  \/ OnChannelMsg(t)
  \/ OnMigration(t)
  \/ OnShutdown(t)
  \/ OnTerminate(t)
  \/ OnPropagatePanic(t)

\* What a thread does without anything arriving from outside.
Step(t) ==
  \/ SpawnThread(t)
  \/ t = 0 /\ StartMain
  \/ StartOther(t)
  \/ Deliver(t)
  \/ Run(t)
  \/ SendNext(t)
  \/ \E c \in Coroutine : KillNext(t, c)
  \/ KillDone(t)
  \/ Exit(t)
  \/ Unwind(t)
  \/ TickResume(t)
  \/ TickDone(t)

\* Every thread is gone, or the process.
Done == (Aborted \/ \A t \in Thread : Closed(t)) /\ UNCHANGED vars

Next ==
  \/ ~Aborted /\ \E t \in Thread : Step(t) \/ Notify(t) \/ Tick(t)
  \/ ~Aborted /\ \E t \in Thread, c \in Coroutine : Event(t, c)
  \/ Done

Spec == Init /\ [][Next]_vars

\* Threads run, each round of an event loop handles the messages that are in its
\* notify queue and then ticks (with delayed coroutines the scheduler's timeout
\* makes sure there is a round).  No event source has to become ready.
Fairness ==
  \A t \in Thread : /\ WF_vars(~Aborted /\ Step(t))
                    /\ SF_vars(~Aborted /\ Notify(t))
                    /\ SF_vars(~Aborted /\ Tick(t))

FairSpec == Spec /\ Fairness

-----------------------------------------------------------------------------
Message ==
  [type : {"Migration", "ChannelMsg"}, co : Coroutine]
    \cup {Shutdown, Terminate, PropagatePanic}

TypeOK ==
  /\ state \in [Coroutine -> {"unborn", "Ready", "Blocked", "Finished"}]
  /\ killed \subseteq Coroutine
  /\ home \in [Coroutine -> Thread \cup {None}]
  /\ children \in [Coroutine -> Seq(Coroutine)]
  /\ parent \in [Coroutine -> Coroutine \cup {None}]
  /\ waits \in [Coroutine -> Coroutine \cup {None}]
  /\ token \in [Coroutine -> [co : Coroutine, thread : Thread] \cup {None}]
  /\ exited \subseteq Coroutine
  /\ stopping \subseteq Coroutine
  /\ ops \in [Coroutine -> 0 .. MaxOps]
  /\ phase \in [Thread -> Phase]
  /\ cur \in [Thread -> Coroutine \cup {None}]
  /\ spawned \in [Thread -> Seq(Coroutine)]
  /\ ready \in [Thread -> Seq([co : Coroutine, yielding : BOOLEAN])]
  /\ delayed \in [Thread -> Seq(Coroutine)]
  /\ tickLeft \in [Thread -> Nat]
  /\ shutting \subseteq Thread
  /\ todo \in [Thread -> Seq([to : Thread, msg : Message])]
  /\ schedId \in [Thread -> Nat]
  /\ schedI \in [Thread -> Nat]
  /\ inbox \in [Thread -> Seq(Message)]
  /\ num \in Nat
  /\ started \in BOOLEAN
  /\ schedNum \in Nat

\* The threads a FifoSchedulerThread is going to migrate to exist (migrate():
\* "Will panic if thread_id is not valid").
MigrateTargetsExist ==
  \A t \in Thread : schedI[t] # schedId[t] => schedI[t] \in Thread

Live(c) == state[c] \notin {"unborn", "Finished"}

IsRunning(c) == \E t \in Thread : cur[t] = c

\* Thread t has been told to end its event loop.
Terminated(t) ==
  \/ phase[t] \in {"last", "exited"}
  \/ \E i \in DOMAIN inbox[t] : inbox[t][i] = Terminate

\* The debug_assert of Handler::notify and the promise of Mioco::start ("Will
\* block until mioco is finished - there are no more coroutines to run"): from
\* the moment the first thread is told to end, nobody is alive in any slab, on
\* the way between two threads or about to be spawned.
TerminateMeansDone ==
  (\E t \in Thread : Terminated(t)) => num = 0 /\ \A c \in Coroutine : ~Live(c)

\* The places that hold a CoroutineControl for c, or its Rc before it has one.
Controls(c) ==
  (UNION {{<<"children", d, i>> : i \in {j \in DOMAIN children[d] : children[d][j] = c}} :
            d \in Coroutine})
  \cup (UNION {
    {<<"spawned", t, i>> : i \in {j \in DOMAIN spawned[t] : spawned[t][j] = c}}
      \cup {<<"ready", t, i>> : i \in {j \in DOMAIN ready[t] : ready[t][j].co = c}}
      \cup {<<"delayed", t, i>> : i \in {j \in DOMAIN delayed[t] : delayed[t][j] = c}}
      \cup {<<"inbox", t, i>> : i \in {j \in DOMAIN inbox[t] : inbox[t][j] = Migration(c)}} :
    t \in Thread})

\* resume()'s debug_assert!(state().is_ready()) and the rule that a control is
\* handled exactly once: a coroutine that can run is running on one thread or
\* owned by one control, never both, never twice, never neither; a blocked one
\* is owned by nobody but the slab of its thread.
OneControl ==
  \A c \in Coroutine \ killed :
    /\ state[c] = "Ready" =>
         Cardinality(Controls(c)) + Cardinality({t \in Thread : cur[t] = c}) = 1
    /\ state[c] = "Blocked" =>
         Controls(c) = {} /\ ~IsRunning(c) /\ home[c] # None

\* A thread that is shutting down resumes nobody except to kill, whatever was
\* delayed, in flight or notified when the Shutdown arrived.
NothingRunsAfterShutdown ==
  [][\A t \in shutting : cur'[t] \in {None, cur[t]} \cup killed']_vars

\* The instance as seen from outside.
Promise == INSTANCE Instance WITH
  born <- {c \in Coroutine : state[c] # "unborn"},
  ended <- {c \in Coroutine : state[c] = "Finished"},
  joining <- waits,
  returned <- Returned

\* Mioco::start "Will block until mioco is finished - there are no more coroutines
\* to run", and JoinHandle::join returns only what a coroutine that has ended has
\* left: the threads with their queues do no more than Instance allows.
ImplementsInstance == Promise!Spec

\* "All existing coroutines will be forced in to panic, and their stack unwind"
\* (shutdown's doc comment): every thread ends as it should and start() returns,
\* whoever is blocked, delayed or migrating.  The exception is the abort that
\* NoSendToClosedLoop is about, and AbortsForKilledJoiner says when it comes.
ShutdownEnds == stopping # {} ~> Returned \/ Aborted

\* With the last coroutine gone every thread ends, also one that was slow to
\* start, with the same exception.
LastOneEnds == started /\ num = 0 ~> Returned \/ Aborted

\* broadcast_terminate leaves out no thread, whatever else the threads are doing at
\* the end: with no coroutine left each thread has ended, has its Terminate, or is
\* still in the list of the thread that broadcasts, whose event loop is there.
EveryoneTold ==
  started /\ num = 0 /\ ~Aborted =>
    \A u \in Thread :
      \/ Terminated(u)
      \/ \E t \in Thread : /\ ~Closed(t)
                           /\ \E i \in DOMAIN todo[t] : todo[t][i] = [to |-> u, msg |-> Terminate]

\* sender_retry panics for one reason only: the exit channel of the coroutine that
\* ends still has the token of a joiner that was killed.  No broadcast, migration or
\* notification of a joiner that waits meets a closed event loop.
AbortsForKilledJoiner ==
  Aborted => \E c \in exited : token[c] # None /\ token[c].co \in killed

\* A coroutine that is ready (spawned, migrating, woken, or back from
\* yield_now) gets to run.
ReadyRuns ==
  \A c \in Coroutine : state[c] = "Ready" ~> (IsRunning(c) \/ state[c] = "Finished")

\* No wake-up of a join() is lost, whichever of the ends of the child, its messages
\* and the spurious events of the parent come first: while a coroutine is parked
\* in join(), the exit channel of a child that has not exited has the token to find
\* it with, and for a child that has exited the ChannelMsg is on its way to the
\* thread the parent is on.
JoinNotified ==
  \A c \in Coroutine \ killed :
    state[c] = "Blocked" /\ waits[c] # None =>
      IF waits[c] \in exited
        THEN \E i \in DOMAIN inbox[home[c]] : inbox[home[c]][i] = ChannelMsg(c)
        ELSE token[waits[c]] = [co |-> c, thread |-> home[c]]

\* join() returns once the coroutine has exited, unless the joiner is killed.
JoinWakes ==
  \A c \in Coroutine : waits[c] \in exited ~> (waits[c] = None \/ state[c] = "Finished")

\* sender_retry's panic!("Closed channel on sender.send().") is for a case that
\* does not occur: nobody sends to the event loop of a thread that has exited.
NoSendToClosedLoop == ~Aborted

\* "If false any panic inside coroutine will panic the whole mioco instance"
\* (set_catch_panics): at least the thread that Mioco::start was called on goes, or
\* the process.
PanicIsGlobal ==
  (\E t \in Thread : \E i \in DOMAIN inbox[t] : inbox[t][i] = PropagatePanic)
    ~> phase[0] = "panicked" \/ Aborted
=============================================================================
