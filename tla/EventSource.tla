---------------------------- MODULE EventSource ----------------------------
(***************************************************************************)
(* Waiting: block_on and select! (src/evented.rs, src/mod.rs), timers      *)
(* (src/timer.rs), register_all and unblock (src/coroutine.rs), on one     *)
(* event loop.                                                             *)
(*                                                                         *)
(* Every coroutine has a Timer and some other event sources (sockets),     *)
(* which it selects on or reads in any order.  mio is external: its poll   *)
(* hands out events in batches, its timer knows a timeout by slot and tick *)
(* and uses a slot again as soon as it is free.                            *)
(***************************************************************************)
EXTENDS Integers, Sequences, FiniteSets, Functions

CONSTANTS
  Coroutine,
  Io,         \* the event sources of a coroutine apart from its timer
  Timer,
  Selects,    \* the lists of sources that a select! may name
  MaxOps,     \* bound: selects and reads of one coroutine
  MaxDelay,   \* bound: argument of set_timeout
  MaxTime,    \* bound: the clock
  TickLen,    \* clock units per tick of mio's timer
  None

Source == Io \cup {Timer}

ASSUME SourceAssumption ==
  /\ IsFiniteSet(Coroutine) /\ IsFiniteSet(Io) /\ Timer \notin Io
  /\ None \notin Coroutine \cup Source \cup [slot : Nat, tick : Nat]
                   \cup [tick : Nat, co : Coroutine, id : Nat]

\* A select! names a source once: a second registration of it would fail.
ASSUME SelectsAssumption ==
  \A srcs \in Selects : /\ srcs \in Seq(Source) /\ srcs # <<>>
                        /\ \A i, j \in DOMAIN srcs : srcs[i] = srcs[j] => i = j

ASSUME ClockAssumption ==
  /\ MaxOps \in Nat /\ MaxDelay \in Nat /\ MaxTime \in Nat
  /\ TickLen \in Nat \ {0} /\ MaxTime % TickLen = 0

\* As many as can be in use at a time.
Slot == 1 .. Cardinality(Coroutine)

VARIABLES
  now,        \* Instant::now()
  deadline,   \* TimerCore::timeout
  handle,     \* TimerCore::mio_timeout, [slot, tick] or None
  timeouts,   \* mio's timer: slot -> [tick, co, id] or None
  registered, \* mio's poll: the id in the token of each source, or None
  batch,      \* events of this poll that are not delivered yet: the parts of the
              \* token, co and id, and as history src, the source that is ready,
              \* or None once co has begun to wait for something else
  ids,        \* EventSourceCommon::id
  blockedOn,  \* Coroutine::blocked_on
  lastEvent,  \* Coroutine::last_event: [id, src], src as in batch
  running,    \* TL_CURRENT_COROUTINE, or None
  ready,      \* HandlerShared::ready
  pc,         \* where the coroutine is, or goes on when it is resumed
  arms,       \* the sources of its select!, one for each arm, or <<>>
  arm,        \* the arm of it that is compared next
  ret,        \* the Event that select_wait() returned, a copy of lastEvent
  ran,        \* history: arms of its select! that have run for this event
  reading,    \* the source of its read(), or None
  ops         \* selects and reads so far

loopVars == <<timeouts, registered, batch>>
sourceVars == <<deadline, handle, ids>>
selectVars == <<arms, arm, ret, ran>>
coVars == <<blockedOn, lastEvent, pc, selectVars, reading, ops>>
vars == <<now, loopVars, sourceVars, coVars, running, ready>>

\* last_event of a new coroutine
NoEvent == [id |-> 0, src |-> None]

Init ==
  /\ now = 0
  /\ deadline = [c \in Coroutine |-> 0]
  /\ handle = [c \in Coroutine |-> None]
  /\ timeouts = [s \in Slot |-> None]
  /\ registered = [c \in Coroutine |-> [s \in Io |-> None]]
  /\ batch = {}
  /\ ids = [c \in Coroutine |-> [s \in Source |-> None]]
  /\ blockedOn = [c \in Coroutine |-> <<>>]
  /\ lastEvent = [c \in Coroutine |-> NoEvent]
  /\ running = None
  /\ ready \in {q \in [Slot -> Coroutine] : \A i, j \in Slot : q[i] = q[j] => i = j}
  /\ pc = [c \in Coroutine |-> "user"]
  /\ arms = [c \in Coroutine |-> <<>>]
  /\ arm = [c \in Coroutine |-> 1]
  /\ ret = [c \in Coroutine |-> NoEvent]
  /\ ran = [c \in Coroutine |-> {}]
  /\ reading = [c \in Coroutine |-> None]
  /\ ops = [c \in Coroutine |-> 0]

\* The index in blocked_on at which a source was pushed.
IndexOf(s, q) == (CHOOSE i \in DOMAIN q : q[i] = s) - 1

-----------------------------------------------------------------------------
(* mio's timer (external) *)

\* The first tick that is not before time d.
TickOf(d) == (d + TickLen - 1) \div TickLen

\* clear_timeout removes whatever has the slot and the tick of the handle.
Cleared(h) ==
  [s \in Slot |-> IF /\ h # None /\ timeouts[s] # None
                     /\ s = h.slot /\ timeouts[s].tick = h.tick
                    THEN None ELSE timeouts[s]]

-----------------------------------------------------------------------------
(* Registration *)

TimerDueLate(c) == deadline[c] < now

\* TimerCore::register finds that the time has passed.
TimerDue(c) == deadline[c] <= now

TimerUnset(c, id) == UNCHANGED <<timeouts, handle>>

\* TimerCore::register, when it has not.
TimerRegister(c, id) ==
  \E slot \in {s \in Slot : timeouts[s] = None} :
    /\ timeouts' = [timeouts EXCEPT ![slot] =
                     [tick |-> TickOf(deadline[c]), co |-> c, id |-> id]]
    /\ handle' = [handle EXCEPT ![c] = [slot |-> slot, tick |-> TickOf(deadline[c])]]

\* block_on, or select_add for each and select_wait: push the sources, jump out,
\* and register all of them (after_resume, register_all).
Register(c, srcs) ==
  /\ blockedOn' = [blockedOn EXCEPT ![c] = srcs]
  /\ registered' = [registered EXCEPT ![c] =
       [s \in Io |-> IF s \in Range(srcs) THEN IndexOf(s, srcs) ELSE @[s]]]
  /\ IF Timer \in Range(srcs)
       THEN TimerRegister(c, IndexOf(Timer, srcs))
       ELSE UNCHANGED <<timeouts, handle>>
  /\ UNCHANGED <<lastEvent, ready>>

\* A timer that is due sets no timeout and unblocks the coroutine on the spot.
\* deregister_all clears the timeout that its mio_timeout still names.
SelfWake(c, srcs) ==
  /\ timeouts' = Cleared(handle[c])
  /\ lastEvent' = [lastEvent EXCEPT ![c] = [id |-> IndexOf(Timer, srcs), src |-> Timer]]
  /\ ready' = Append(ready, c)
  /\ UNCHANGED <<handle, blockedOn, registered>>

\* The events of earlier waits that are still to come (history).
Outdate(c) ==
  batch' = {[co |-> t.co, id |-> t.id, src |-> IF t.co = c THEN None ELSE t.src] : t \in batch}

BlockKeepsIds(c, srcs) ==
  /\ running' = None
  /\ Outdate(c)
  /\ ids' = [ids EXCEPT ![c] =
       [s \in Source |-> IF s \in Range(srcs) /\ @[s] = None THEN IndexOf(s, srcs) ELSE @[s]]]
  /\ IF Timer \in Range(srcs) /\ TimerDue(c) THEN SelfWake(c, srcs) ELSE Register(c, srcs)

Block(c, srcs) ==
  /\ running' = None
  /\ Outdate(c)
  /\ ids' = [ids EXCEPT ![c] =
       [s \in Source |-> IF s \in Range(srcs) THEN IndexOf(s, srcs) ELSE @[s]]]
  /\ IF Timer \in Range(srcs) /\ TimerDue(c) THEN SelfWake(c, srcs) ELSE Register(c, srcs)

DeregisterNothing(c) == registered' = registered

\* Coroutine::unblock: deregister_all.
DeregisterIo(c) ==
  registered' = [registered EXCEPT ![c] =
    [s \in Io |-> IF s \in Range(blockedOn[c]) THEN None ELSE @[s]]]

TimerKept(c) == timeouts

TimerDeregistered(c) ==
  IF Timer \in Range(blockedOn[c]) THEN Cleared(handle[c]) ELSE timeouts

\* CoroutineSlabHandle::event and FifoSchedulerThread::ready
Event(c, event) ==
  IF blockedOn[c] = <<>>
    THEN UNCHANGED <<registered, blockedOn, lastEvent, running>>
    ELSE /\ DeregisterIo(c)
         /\ blockedOn' = [blockedOn EXCEPT ![c] = <<>>]
         /\ lastEvent' = [lastEvent EXCEPT ![c] = event]
         /\ running' = c

-----------------------------------------------------------------------------
(* What a coroutine does while it runs *)

At(c, where) == running = c /\ pc[c] = where

\* A new operation, with or without a set_timeout before it.
Begin(c) ==
  /\ At(c, "user")
  /\ ops[c] < MaxOps
  /\ ops' = [ops EXCEPT ![c] = @ + 1]
  /\ \E d \in {deadline[c]} \cup {now + n : n \in 0 .. MaxDelay} :
       d <= MaxTime /\ deadline' = [deadline EXCEPT ![c] = d]

\* The time between set_timeout and the registration is in pc "select".
Select(c, srcs) ==
  /\ Begin(c)
  /\ arms' = [arms EXCEPT ![c] = srcs]
  /\ pc' = [pc EXCEPT ![c] = "select"]
  /\ UNCHANGED <<now, loopVars, handle, ids, blockedOn, lastEvent, arm, ret, ran, reading,
                 running, ready>>

SelectWait(c) ==
  /\ At(c, "select")
  /\ Block(c, arms[c])
  /\ pc' = [pc EXCEPT ![c] = "wait"]
  /\ UNCHANGED <<now, deadline, selectVars, reading, ops>>

\* select_wait returns a copy of last_event.
SelectReturns(c) ==
  /\ At(c, "wait")
  /\ ret' = [ret EXCEPT ![c] = lastEvent[c]]
  /\ pc' = [pc EXCEPT ![c] = "arms"]
  /\ UNCHANGED <<now, loopVars, sourceVars, blockedOn, lastEvent, arms, arm, ran, reading, ops,
                 running, ready>>

\* The code of an arm reads sources, those of the select! included, or is done.
ArmCode(c) ==
  \/ /\ pc' = [pc EXCEPT ![c] = "arms"]
     /\ reading' = [reading EXCEPT ![c] = None]
     /\ ops' = ops
  \/ /\ ops[c] < MaxOps
     /\ ops' = [ops EXCEPT ![c] = @ + 1]
     /\ pc' = [pc EXCEPT ![c] = "try"]
     /\ \E s \in Source : reading' = [reading EXCEPT ![c] = s]

\* One arm: if $ret.id() == $rx.id() { $code }
Arm(c) ==
  /\ At(c, "arms")
  /\ arm[c] \in DOMAIN arms[c]
  /\ arm' = [arm EXCEPT ![c] = @ + 1]
  /\ IF ids[c][arms[c][arm[c]]] = ret[c].id
       THEN ran' = [ran EXCEPT ![c] = @ \cup {arms[c][arm[c]]}] /\ ArmCode(c)
       ELSE UNCHANGED <<ran, pc, reading, ops>>
  /\ UNCHANGED <<now, loopVars, sourceVars, blockedOn, lastEvent, arms, ret, running, ready>>

SelectDone(c) ==
  /\ At(c, "arms")
  /\ arm[c] \notin DOMAIN arms[c]
  /\ pc' = [pc EXCEPT ![c] = "user"]
  /\ arms' = [arms EXCEPT ![c] = <<>>]
  /\ arm' = [arm EXCEPT ![c] = 1]
  /\ ret' = [ret EXCEPT ![c] = NoEvent]
  /\ ran' = [ran EXCEPT ![c] = {}]
  /\ UNCHANGED <<now, loopVars, sourceVars, blockedOn, lastEvent, reading, ops, running, ready>>

\* Timer::read, io::Read::read and the like: try, block_on, try again.
Read(c, s) ==
  /\ Begin(c)
  /\ reading' = [reading EXCEPT ![c] = s]
  /\ pc' = [pc EXCEPT ![c] = "try"]
  /\ UNCHANGED <<now, loopVars, handle, ids, blockedOn, lastEvent, selectVars, running, ready>>

\* A socket may have something or not, the timer is done or not.
TryRead(c) ==
  /\ At(c, "try")
  /\ \/ /\ reading[c] = Timer => TimerDue(c)
        /\ IF arms[c] = <<>>
             THEN /\ pc' = [pc EXCEPT ![c] = "user"]
                  /\ reading' = [reading EXCEPT ![c] = None]
                  /\ ops' = ops
             ELSE ArmCode(c)
     \/ /\ reading[c] = Timer => ~TimerDue(c)
        /\ pc' = [pc EXCEPT ![c] = "block"]
        /\ UNCHANGED <<reading, ops>>
  /\ UNCHANGED <<now, loopVars, sourceVars, blockedOn, lastEvent, selectVars, running, ready>>

BlockOn(c) ==
  /\ At(c, "block")
  /\ Block(c, <<reading[c]>>)
  /\ pc' = [pc EXCEPT ![c] = "try"]
  /\ UNCHANGED <<now, deadline, selectVars, reading, ops>>

Finish(c) ==
  /\ At(c, "user")
  /\ pc' = [pc EXCEPT ![c] = "gone"]
  /\ running' = None
  /\ UNCHANGED <<now, loopVars, sourceVars, blockedOn, lastEvent, selectVars, reading, ops, ready>>

Run(c) ==
  \/ \E srcs \in Selects : Select(c, srcs)
  \/ SelectWait(c)
  \/ SelectReturns(c)
  \/ Arm(c)
  \/ SelectDone(c)
  \/ \E s \in Source : Read(c, s)
  \/ TryRead(c)
  \/ BlockOn(c)
  \/ Finish(c)

-----------------------------------------------------------------------------
(* The event loop *)

\* deliver_to_scheduler
Resume ==
  /\ running = None
  /\ ready # <<>>
  /\ running' = Head(ready)
  /\ ready' = Tail(ready)
  /\ UNCHANGED <<now, loopVars, sourceVars, coVars>>

Idle == running = None /\ ready = <<>>

Registered == {t \in [co : Coroutine, src : Io] : registered[t.co][t.src] # None}

\* Some of the registered sources have become ready.
Poll ==
  /\ Idle
  /\ batch = {}
  /\ \E hot \in SUBSET Registered \ {{}} :
       batch' = {[co |-> t.co, id |-> registered[t.co][t.src], src |-> t.src] : t \in hot}
  /\ UNCHANGED <<now, timeouts, registered, sourceVars, coVars, running, ready>>

\* Handler::ready
Deliver ==
  /\ Idle
  /\ \E t \in batch :
       /\ batch' = batch \ {t}
       /\ timeouts' = TimerDeregistered(t.co)
       /\ Event(t.co, [id |-> t.id, src |-> t.src])
  /\ UNCHANGED <<now, sourceVars, pc, selectVars, reading, ops, ready>>

\* Handler::timeout, after the events of the batch.  The timeout is gone from
\* mio's timer before it is delivered, so clearing it again does nothing.
Fire ==
  /\ Idle
  /\ batch = {}
  /\ \E slot \in Slot :
       /\ timeouts[slot] # None
       /\ timeouts[slot].tick * TickLen <= now
       /\ timeouts' = [timeouts EXCEPT ![slot] = None]
       /\ Event(timeouts[slot].co, [id |-> timeouts[slot].id, src |-> Timer])
  /\ UNCHANGED <<now, batch, sourceVars, pc, selectVars, reading, ops, ready>>

Clock ==
  /\ now < MaxTime
  /\ now' = now + 1
  /\ UNCHANGED <<loopVars, sourceVars, coVars, running, ready>>

\* What the thread does by itself.
Step == Resume \/ Deliver \/ \E c \in Coroutine : Run(c)

\* Every coroutine has ended.
Done == (\A c \in Coroutine : pc[c] = "gone") /\ UNCHANGED vars

Next == Step \/ Poll \/ Fire \/ Clock \/ Done

Spec == Init /\ [][Next]_vars

\* Time passes, the thread runs, and every round of the event loop handles the
\* timeouts that are due after its events.  No socket has to become ready.
Fairness == WF_vars(Clock) /\ WF_vars(Step) /\ SF_vars(Fire)

FairSpec == Spec /\ Fairness

-----------------------------------------------------------------------------
Id == 0 .. Cardinality(Source) - 1

TypeOK ==
  /\ now \in 0 .. MaxTime
  /\ deadline \in [Coroutine -> 0 .. MaxTime]
  /\ handle \in [Coroutine -> [slot : Slot, tick : Nat] \cup {None}]
  /\ timeouts \in [Slot -> [tick : Nat, co : Coroutine, id : Id] \cup {None}]
  /\ registered \in [Coroutine -> [Io -> Id \cup {None}]]
  /\ batch \subseteq [co : Coroutine, id : Id, src : Io \cup {None}]
  /\ ids \in [Coroutine -> [Source -> Id \cup {None}]]
  /\ blockedOn \in [Coroutine -> Seq(Source)]
  /\ lastEvent \in [Coroutine -> [id : Id, src : Source \cup {None}]]
  /\ running \in Coroutine \cup {None}
  /\ ready \in Seq(Coroutine)
  /\ pc \in [Coroutine -> {"user", "select", "wait", "arms", "try", "block", "gone"}]
  /\ arms \in [Coroutine -> Seq(Source)]
  /\ arm \in [Coroutine -> Nat \ {0}]
  /\ ret \in [Coroutine -> [id : Id, src : Source \cup {None}]]
  /\ ran \in [Coroutine -> SUBSET Source]
  /\ reading \in [Coroutine -> Source \cup {None}]
  /\ ops \in [Coroutine -> 0 .. MaxOps]

\* The .expect("register failed") and .expect("deregister failed") of
\* EventSourceTrait: mio has exactly the sources that a blocked coroutine waits
\* for, whatever woke it up before and in which order, each under the id of its
\* place in blocked_on.
RegisteredIffBlocked ==
  \A c \in Coroutine, s \in Io :
    registered[c][s] =
      IF s \in Range(blockedOn[c]) THEN IndexOf(s, blockedOn[c]) ELSE None

\* Timeouts do not pile up in mio's timer, whose size is fixed (register panics
\* with "Could not create mio::Timeout"): each belongs to a coroutine that is
\* blocked on its timer and can clear it.
NoTimeoutLeaks ==
  \A slot \in Slot : timeouts[slot] # None =>
    LET c == timeouts[slot].co
    IN /\ Timer \in Range(blockedOn[c])
       /\ handle[c] = [slot |-> slot, tick |-> timeouts[slot].tick]

\* As long as a coroutine is blocked on its timer, mio's timer has a timeout with
\* its token for its deadline: whatever register() of other timers makes of the
\* slot, and what they clear by a mio_timeout that is out of date.  (This holds
\* as long as a select! is for one source: see SleepEnds in run timeout_lost.)
SleepersArmed ==
  \A c \in Coroutine : Timer \in Range(blockedOn[c]) =>
    \E slot \in Slot : timeouts[slot] =
      [tick |-> TickOf(deadline[c]), co |-> c, id |-> IndexOf(Timer, blockedOn[c])]

\* "Read a timer to block on it until it is done" (Timer::read), "Block execution
\* for a given time" (sleep): a coroutine does not wait on its timer for ever.
SleepEnds ==
  \A c \in Coroutine : Timer \in Range(blockedOn[c]) ~> Timer \notin Range(blockedOn[c])

\* EventSourceId is "used to distinguish event source returned by `select!`", but
\* is not much to go by: sources get it from their place in whatever their
\* coroutine waits for last.  Still a source that has become ready while a select!
\* waits for it has its arm run, before any other, and alone if it is not the
\* first of the select!.  For the first, a later arm runs too if an arm before it
\* has waited for its source, which then has the id 0 (a defect, and the only
\* way).  Nothing is said of an event that is left from an earlier wait: it has the
\* id of a place in another list, and runs the arm of that place or none.
RightArm ==
  \A c \in Coroutine : ret[c].src # None =>
    LET own == IndexOf(ret[c].src, arms[c]) + 1
    IN /\ arm[c] > own \/ ran[c] # {} => ret[c].src \in ran[c]
       /\ \A s \in ran[c] \ {ret[c].src} : own = 1 /\ ids[c][s] = 0
=============================================================================
