---------------------------- MODULE RuntimeProof ----------------------------
(***************************************************************************)
(* Proofs about module Runtime, for any number of threads and coroutines:  *)
(* the coroutine count, the scheduler's thread ids, the end of the         *)
(* instance and what a thread may do after a Shutdown.                     *)
(***************************************************************************)
EXTENDS Runtime, FiniteSetTheorems, SequenceTheorems, TLAPS

-----------------------------------------------------------------------------
(* The inductive invariant *)

Born == {c \in Coroutine : state[c] # "unborn"}

\* Messages that name nobody outside of S.
MessageOf(S) ==
  [type : {"Migration", "ChannelMsg"}, co : S] \cup {Shutdown, Terminate, PropagatePanic}

\* Threads, queues, slabs and handles name nobody outside of S.
RefersTo(S) ==
  /\ cur \in [Thread -> S \cup {None}]
  /\ spawned \in [Thread -> Seq(S)]
  /\ ready \in [Thread -> Seq([co : S, yielding : BOOLEAN])]
  /\ delayed \in [Thread -> Seq(S)]
  /\ inbox \in [Thread -> Seq(MessageOf(S))]
  /\ todo \in [Thread -> Seq([to : Thread, msg : MessageOf(S)])]
  /\ children \in [Coroutine -> Seq(S)]
  /\ token \in [Coroutine -> [co : S, thread : Thread] \cup {None}]
  /\ \A c \in Coroutine : home[c] # None => c \in S
  /\ \A c \in Coroutine : parent[c] # None => c \in S

\* Nobody is named before it is spawned, ...
RefersToBorn == RefersTo(Born)

\* ... and who has exited has ended before.
ExitedEnded == \A c \in exited : state[c] = "Finished"

\* coroutines_inc and coroutines_dec count.
Counted == num = Cardinality({c \in Coroutine : Live(c)})

\* Before the first thread has spawned the first coroutine there is none, and a
\* thread that has not started has nobody to run and nothing to send.
Starting ==
  /\ phase[0] # "new"
  /\ phase[0] = "waiting" => Born = {}
  /\ phase[0] # "waiting" => Main \in Born
  /\ \A t \in Thread : phase[t] \in {"new", "waiting"} => cur[t] = None /\ todo[t] = <<>>

\* tick() pops no more controls than there are.
TickBound == \A t \in Thread : phase[t] = "tick" => tickLeft[t] <= Len(delayed[t])

\* Thread ids are handed out one by one.
IdsCounted ==
  /\ schedNum + Cardinality({t \in Thread : phase[t] = "new"}) = Starts * N + N
  /\ \A t \in Thread : schedI[t] < schedNum

\* Somebody has been told to terminate, or is going to be.
Terminating ==
  \E t \in Thread : \/ Terminated(t)
                    \/ \E i \in DOMAIN todo[t] : todo[t][i].msg = Terminate

TerminatingMeansDone == Terminating => num = 0 /\ phase[0] # "waiting"

\* A thread that is shutting down is past its queues, runs only who is killed and,
\* once it has killed them all, has nobody else in its slab that could wake up.
ShutDown ==
  \A t \in shutting :
    /\ phase[t] \in {"kill", "poll", "last", "exited", "unwind", "panicked", "aborted"}
    /\ cur[t] \in killed \cup {None}
    /\ phase[t] \notin {"kill", "panicked", "aborted"} =>
         \A c \in Coroutine : home[c] = t => c = cur[t] \/ state[c] = "Finished"

\* The first start() of a Mioco that catches panics: a thread goes only when there
\* is nobody left, by a send to an event loop that has been terminated.
NoPanics ==
  CatchPanics /\ Starts = 0 =>
    \A t \in Thread :
      /\ phase[t] \notin {"unwind", "panicked"}
      /\ phase[t] = "aborted" => num = 0 /\ phase[0] # "waiting"
      /\ \A i \in DOMAIN inbox[t] : inbox[t][i] # PropagatePanic
      /\ \A i \in DOMAIN todo[t] : todo[t][i].msg # PropagatePanic

IInv ==
  /\ TypeOK
  /\ RefersToBorn
  /\ ExitedEnded
  /\ Counted
  /\ Starting
  /\ TickBound
  /\ IdsCounted
  /\ TerminatingMeansDone
  /\ ShutDown
  /\ NoPanics

-----------------------------------------------------------------------------
(* Who is named where *)

\* RefersTo(S) in the next state.
NextRefersTo(S) ==
  /\ cur' \in [Thread -> S \cup {None}]
  /\ spawned' \in [Thread -> Seq(S)]
  /\ ready' \in [Thread -> Seq([co : S, yielding : BOOLEAN])]
  /\ delayed' \in [Thread -> Seq(S)]
  /\ inbox' \in [Thread -> Seq(MessageOf(S))]
  /\ todo' \in [Thread -> Seq([to : Thread, msg : MessageOf(S)])]
  /\ children' \in [Coroutine -> Seq(S)]
  /\ token' \in [Coroutine -> [co : S, thread : Thread] \cup {None}]
  /\ \A c \in Coroutine : home'[c] # None => c \in S
  /\ \A c \in Coroutine : parent'[c] # None => c \in S

\* The first of a queue, and what is left of it.
LEMMA Popped ==
  ASSUME NEW S, NEW q \in Seq(S), q # <<>>
  PROVE  Head(q) \in S /\ Tail(q) \in Seq(S)
BY HeadTailProperties

\* The queues of all threads, with one element more, one less, or one queue replaced.
LEMMA Pushed ==
  ASSUME NEW D, NEW S, NEW f \in [D -> Seq(S)], NEW d \in D, NEW x \in S
  PROVE  [f EXCEPT ![d] = Append(@, x)] \in [D -> Seq(S)]
BY AppendProperties

\* One queue of many is shorter, ...
LEMMA Shifted ==
  ASSUME NEW D, NEW S, NEW f \in [D -> Seq(S)], NEW d \in D, f[d] # <<>>
  PROVE  [f EXCEPT ![d] = Tail(@)] \in [D -> Seq(S)] /\ Head(f[d]) \in S
<1>1. Head(f[d]) \in S /\ Tail(f[d]) \in Seq(S)
  BY HeadTailProperties
<1>. QED
  BY <1>1

\* ... or another one.
LEMMA Replaced ==
  ASSUME NEW D, NEW S, NEW f \in [D -> Seq(S)], NEW d \in D, NEW q \in Seq(S)
  PROVE  [f EXCEPT ![d] = q] \in [D -> Seq(S)]
OBVIOUS

\* No element and one element.
LEMMA ShortSeqs == ASSUME NEW S, NEW x \in S PROVE <<>> \in Seq(S) /\ <<x>> \in Seq(S)
OBVIOUS

\* A send changes the inbox of the receiver and the phase of the sender.
LEMMA SendToFacts ==
  ASSUME NEW S, inbox \in [Thread -> Seq(MessageOf(S))], phase \in [Thread -> Phase],
         NEW t \in Thread, NEW u \in Thread, NEW m \in MessageOf(S), NEW ph \in Phase, SendTo(t, u, m, ph)
  PROVE  /\ inbox' \in [Thread -> Seq(MessageOf(S))]
         /\ phase' \in [Thread -> Phase]
         /\ phase'[t] \in {ph, "aborted"}
         /\ \A v \in Thread : v # t => phase'[v] = phase[v]
<1>1. CASE Closed(u)
  BY <1>1 DEF SendTo, Phase
<1>2. CASE ~Closed(u)
  <2>1. inbox' = [inbox EXCEPT ![u] = Append(@, m)] /\ phase' = [phase EXCEPT ![t] = ph]
    BY <1>2 DEF SendTo
  <2>2. inbox' \in [Thread -> Seq(MessageOf(S))]
    BY <2>1, <1>2, Pushed
  <2>. QED
    BY <2>1, <2>2
<1>. QED
  BY <1>1, <1>2

\* broadcast_shutdown, broadcast_terminate
LEMMA BroadcastFacts ==
  ASSUME NEW S, NEW m \in MessageOf(S)
  PROVE  Broadcast(m) \in Seq([to : Thread, msg : MessageOf(S)])
<1>1. N \in Nat
  BY BoundAssumption
<1>. DEFINE R == [to : Thread, msg : MessageOf(S)]
<1>2. Broadcast(m) \in [1 .. N -> R]
  BY <1>1 DEF Broadcast, Thread
<1>. HIDE DEF R
<1>3. Broadcast(m) \in Seq(R)
  BY <1>1, <1>2, SeqDef
<1>. QED
  BY <1>3 DEF R

\* What start_children does on the way out.
LEMMA StartChildrenFacts ==
  ASSUME NEW S, spawned \in [Thread -> Seq(S)], children \in [Coroutine -> Seq(S)],
         NEW t \in Thread, NEW c \in Coroutine, StartChildren(t, c)
  PROVE  spawned' \in [Thread -> Seq(S)] /\ children' \in [Coroutine -> Seq(S)]
<1>1. spawned[t] \o children[c] \in Seq(S) /\ <<>> \in Seq(S)
  BY ConcatProperties
<1>. QED
  BY <1>1 DEF StartChildren

\* A coroutine that runs names only those that were named, or that it spawns.
LEMMA RunRefers ==
  ASSUME TypeOK, NEW S \in SUBSET Coroutine, RefersTo(S),
         \A c \in Coroutine : state[c] = "unborn" /\ state'[c] # "unborn" => c \in S,
         NEW t \in Thread, Run(t)
  PROVE  NextRefersTo(S)
<1>. PICK c \in Coroutine :
        \/ \E d \in Coroutine : Spawn(t, c, d) \/ Join(t, c, d)
        \/ Yield(t, c)
        \/ Block(t, c)
        \/ JoinReturn(t, c)
        \/ CallShutdown(t, c)
        \/ \E ok \in BOOLEAN : Finish(t, c, ok)
        \/ ExitSend(t, c)
  BY DEF Run
<1>1. ASSUME NEW d \in Coroutine, Spawn(t, c, d) PROVE NextRefersTo(S)
  <2>1. /\ home' = [home EXCEPT ![d] = t] /\ parent' = [parent EXCEPT ![d] = c]
        /\ children' = [children EXCEPT ![c] = Append(@, d)]
        /\ UNCHANGED <<cur, spawned, ready, delayed, inbox, todo, token>>
    BY <1>1 DEF Spawn, threadVars
  <2>2. d \in S
    BY <1>1 DEF Spawn, TypeOK
  <2>3. children' \in [Coroutine -> Seq(S)]
    BY <2>1, <2>2, Pushed DEF RefersTo
  <2>. QED
    BY <2>1, <2>2, <2>3 DEF RefersTo, NextRefersTo, TypeOK
<1>2. ASSUME NEW d \in Coroutine, Join(t, c, d) PROVE NextRefersTo(S)
  <2>1. /\ token' = [token EXCEPT ![d] = [co |-> c, thread |-> t]]
        /\ cur' = [cur EXCEPT ![t] = None] /\ StartChildren(t, c) /\ cur[t] = c
        /\ UNCHANGED <<home, parent, ready, delayed, inbox, todo>>
    BY <1>2 DEF Join, Running, sharedVars
  <2>2. c \in S
    BY <2>1, CoroutineAssumption DEF RefersTo
  <2>3. spawned' \in [Thread -> Seq(S)] /\ children' \in [Coroutine -> Seq(S)]
    BY <2>1, StartChildrenFacts DEF RefersTo
  <2>. QED
    BY <2>1, <2>2, <2>3 DEF RefersTo, NextRefersTo
<1>3. CASE Yield(t, c)
  <2>1. /\ ready' = [ready EXCEPT ![t] = Append(@, Control(c, TRUE))]
        /\ cur' = [cur EXCEPT ![t] = None] /\ StartChildren(t, c) /\ cur[t] = c
        /\ UNCHANGED <<home, parent, token, delayed, inbox, todo>>
    BY <1>3 DEF Yield, Free, Running, sharedVars
  <2>2. c \in S
    BY <2>1, CoroutineAssumption DEF RefersTo
  <2>3. spawned' \in [Thread -> Seq(S)] /\ children' \in [Coroutine -> Seq(S)]
    BY <2>1, StartChildrenFacts DEF RefersTo
  <2>4. Control(c, TRUE) \in [co : S, yielding : BOOLEAN]
    BY <2>2 DEF Control
  <2>5. ready' \in [Thread -> Seq([co : S, yielding : BOOLEAN])]
    <3>. DEFINE R == [co : S, yielding : BOOLEAN]
    <3>1. ready \in [Thread -> Seq(R)] /\ Control(c, TRUE) \in R
      BY <2>4 DEF RefersTo
    <3>. HIDE DEF R
    <3>2. ready' \in [Thread -> Seq(R)]
      BY <3>1, <2>1, Pushed
    <3>. QED
      BY <3>2 DEF R
  <2>. QED
    BY <2>1, <2>3, <2>5 DEF RefersTo, NextRefersTo
<1>4. CASE Block(t, c)
  <2>1. /\ ready' = ready \/ ready' = [ready EXCEPT ![t] = Append(@, Control(c, FALSE))]
        /\ cur' = [cur EXCEPT ![t] = None] /\ StartChildren(t, c) /\ cur[t] = c
        /\ UNCHANGED <<home, parent, token, delayed, inbox, todo>>
    BY <1>4 DEF Block, Free, Running, sharedVars
  <2>2. c \in S
    BY <2>1, CoroutineAssumption DEF RefersTo
  <2>3. spawned' \in [Thread -> Seq(S)] /\ children' \in [Coroutine -> Seq(S)]
    BY <2>1, StartChildrenFacts DEF RefersTo
  <2>4. Control(c, FALSE) \in [co : S, yielding : BOOLEAN]
    BY <2>2 DEF Control
  <2>5. ready' \in [Thread -> Seq([co : S, yielding : BOOLEAN])]
    <3>. DEFINE R == [co : S, yielding : BOOLEAN]
    <3>1. ready \in [Thread -> Seq(R)] /\ Control(c, FALSE) \in R
      BY <2>4 DEF RefersTo
    <3>. HIDE DEF R
    <3>2. [ready EXCEPT ![t] = Append(@, Control(c, FALSE))] \in [Thread -> Seq(R)]
      BY <3>1, Pushed
    <3>3. ready' \in [Thread -> Seq(R)]
      BY <3>1, <3>2, <2>1
    <3>. QED
      BY <3>3 DEF R
  <2>. QED
    BY <2>1, <2>3, <2>5 DEF RefersTo, NextRefersTo
<1>5. CASE JoinReturn(t, c)
  BY <1>5 DEF JoinReturn, threadVars, sharedVars, RefersTo, NextRefersTo
<1>6. CASE CallShutdown(t, c)
  <2>1. /\ todo' = [todo EXCEPT ![t] = Broadcast(Shutdown)]
        /\ UNCHANGED <<home, parent, children, token, cur, spawned, ready, delayed, inbox>>
    BY <1>6 DEF CallShutdown, sharedVars
  <2>2. Broadcast(Shutdown) \in Seq([to : Thread, msg : MessageOf(S)])
    BY BroadcastFacts DEF MessageOf
  <2>. QED
    BY <2>1, <2>2 DEF RefersTo, NextRefersTo
<1>7. ASSUME NEW ok \in BOOLEAN, Finish(t, c, ok) PROVE NextRefersTo(S)
  <2>. DEFINE end == IF LastOne THEN Broadcast(Terminate) ELSE <<>>
              panic == IF ok \/ CatchPanics THEN <<>> ELSE <<[to |-> t, msg |-> PropagatePanic]>>
  <2>1. /\ todo' = [todo EXCEPT ![t] = end \o panic] /\ home' = [home EXCEPT ![c] = None]
        /\ UNCHANGED <<parent, children, token, cur, spawned, ready, delayed, inbox>>
    BY <1>7 DEF Finish
  <2>. DEFINE R == [to : Thread, msg : MessageOf(S)]
  <2>a. Terminate \in MessageOf(S) /\ [to |-> t, msg |-> PropagatePanic] \in R
    BY DEF MessageOf
  <2>b. Broadcast(Terminate) \in Seq(R)
    BY <2>a, BroadcastFacts
  <2>. HIDE DEF R
  <2>c. <<>> \in Seq(R) /\ <<[to |-> t, msg |-> PropagatePanic]>> \in Seq(R)
    BY <2>a, ShortSeqs
  <2>2. end \in Seq(R) /\ panic \in Seq(R)
    BY <2>b, <2>c
  <2>. HIDE DEF end, panic
  <2>3. end \o panic \in Seq(R)
    BY <2>2, ConcatProperties
  <2>4. todo' \in [Thread -> Seq(R)]
    BY <2>1, <2>3 DEF RefersTo, R
  <2>. QED
    BY <2>1, <2>4 DEF RefersTo, NextRefersTo, TypeOK, R
<1>8. CASE ExitSend(t, c)
  <2>1. /\ NotifyJoiner(t, c) /\ StartChildren(t, c) /\ cur' = [cur EXCEPT ![t] = None]
        /\ UNCHANGED <<home, parent, token, ready, delayed, todo>>
    BY <1>8 DEF ExitSend
  <2>2. spawned' \in [Thread -> Seq(S)] /\ children' \in [Coroutine -> Seq(S)]
    BY <2>1, StartChildrenFacts DEF RefersTo
  <2>3. inbox' \in [Thread -> Seq(MessageOf(S))]
    <3>1. CASE token[c] = None
      BY <3>1, <2>1 DEF NotifyJoiner, RefersTo
    <3>2. CASE token[c] # None
      <4>1. token[c].thread \in Thread /\ ChannelMsg(token[c].co) \in MessageOf(S) /\ phase[t] \in Phase
        BY <3>2 DEF RefersTo, ChannelMsg, MessageOf, TypeOK
      <4>. QED
        BY <4>1, <3>2, <2>1, SendToFacts DEF NotifyJoiner, RefersTo, TypeOK
    <3>. QED
      BY <3>1, <3>2
  <2>. QED
    BY <2>1, <2>2, <2>3 DEF RefersTo, NextRefersTo
<1>. QED
  BY <1>1, <1>2, <1>3, <1>4, <1>5, <1>6, <1>7, <1>8

\* A thread names only those that were named, or the first coroutine.
LEMMA ThreadRefers ==
  ASSUME TypeOK, NEW S \in SUBSET Coroutine, RefersTo(S),
         \A c \in Coroutine : state[c] = "unborn" /\ state'[c] # "unborn" => c \in S,
         NEW t \in Thread,
         \/ SpawnThread(t) \/ (t = 0 /\ StartMain) \/ StartOther(t) \/ Deliver(t)
         \/ SendNext(t) \/ (\E c \in Coroutine : KillNext(t, c)) \/ KillDone(t)
         \/ Exit(t) \/ Unwind(t) \/ TickResume(t) \/ TickDone(t) \/ Tick(t),
         phase[0] = "waiting" => state[Main] = "unborn",
         TickBound
  PROVE  NextRefersTo(S)
<1>1. CASE SpawnThread(t) \/ StartOther(t) \/ Delivered(t) \/ KillDone(t) \/ Exit(t)
           \/ TickDone(t) \/ Tick(t)
  <2>1. UNCHANGED <<cur, spawned, ready, delayed, inbox, todo, children, token, home, parent>>
    BY <1>1 DEF SpawnThread, StartOther, Delivered, KillDone, Exit, TickDone, Tick,
                coVars, sharedVars
  <2>. QED
    BY <2>1 DEF RefersTo, NextRefersTo
<1>2. CASE StartMain
  <2>1. /\ home' = [home EXCEPT ![Main] = 0] /\ spawned' = [spawned EXCEPT ![0] = Append(@, Main)]
        /\ UNCHANGED <<cur, ready, delayed, inbox, todo, children, token, parent>>
    BY <1>2 DEF StartMain
  <2>2. Main \in S
    BY <1>2, CoroutineAssumption DEF StartMain, TypeOK
  <2>3. 0 \in Thread
    BY BoundAssumption DEF Thread
  <2>4. spawned' \in [Thread -> Seq(S)]
    BY <2>1, <2>2, <2>3, Pushed DEF RefersTo
  <2>. QED
    BY <2>1, <2>2, <2>4 DEF RefersTo, NextRefersTo, TypeOK
<1>3. CASE SpawnedResume(t)
  <2>1. /\ spawned[t] # <<>> /\ cur' = [cur EXCEPT ![t] = Head(spawned[t])]
        /\ spawned' = [spawned EXCEPT ![t] = Tail(@)]
        /\ UNCHANGED <<ready, delayed, inbox, todo, children, token, home, parent>>
    BY <1>3 DEF SpawnedResume, SpawnedTurn, JumpIn, coVars, sharedVars
  <2>2. spawned' \in [Thread -> Seq(S)] /\ Head(spawned[t]) \in S
    BY <2>1, Shifted DEF RefersTo
  <2>. QED
    BY <2>1, <2>2 DEF RefersTo, NextRefersTo
<1>4. CASE SpawnedMigrate(t)
  <2>1. /\ spawned[t] # <<>> /\ home' = [home EXCEPT ![Head(spawned[t])] = None]
        /\ spawned' = [spawned EXCEPT ![t] = Tail(@)]
        /\ inbox' = inbox \/ (/\ schedI[t] \in Thread
                             /\ SendTo(t, schedI[t], Migration(Head(spawned[t])), "ready"))
        /\ UNCHANGED <<cur, ready, delayed, todo, children, token, parent>>
    BY <1>4 DEF SpawnedMigrate, SpawnedTurn
  <2>2. spawned' \in [Thread -> Seq(S)] /\ Head(spawned[t]) \in S
    BY <2>1, Shifted DEF RefersTo
  <2>3. Migration(Head(spawned[t])) \in MessageOf(S) /\ "ready" \in Phase
    BY <2>2 DEF Migration, MessageOf, Phase
  <2>4. inbox' \in [Thread -> Seq(MessageOf(S))]
    <3>1. CASE inbox' = inbox
      BY <3>1 DEF RefersTo
    <3>. QED
      BY <2>1, <2>3, <3>1, SendToFacts DEF RefersTo, TypeOK
  <2>. QED
    BY <2>1, <2>2, <2>4 DEF RefersTo, NextRefersTo, TypeOK
<1>5. CASE ReadyDelay(t) \/ ReadyResume(t)
  <2>. DEFINE R == [co : S, yielding : BOOLEAN]
  <2>1. /\ ready[t] # <<>> /\ ready' = [ready EXCEPT ![t] = Tail(@)]
        /\ UNCHANGED <<spawned, inbox, todo, children, token, home, parent>>
    BY <1>5 DEF ReadyDelay, ReadyResume, ReadyTurn, coVars, sharedVars
  <2>2. ready \in [Thread -> Seq(R)]
    BY DEF RefersTo
  <2>. HIDE DEF R
  <2>3. ready' \in [Thread -> Seq(R)] /\ Head(ready[t]) \in R
    BY <2>1, <2>2, Shifted
  <2>4. Head(ready[t]).co \in S
    BY <2>3 DEF R
  <2>5. \/ delayed' = [delayed EXCEPT ![t] = Append(@, Head(ready[t]).co)] /\ cur' = cur
        \/ delayed' = delayed /\ cur' = [cur EXCEPT ![t] = Head(ready[t]).co]
    BY <1>5 DEF ReadyDelay, ReadyResume, JumpIn
  <2>6. delayed \in [Thread -> Seq(S)] /\ cur \in [Thread -> S \cup {None}]
    BY DEF RefersTo
  <2>7. [delayed EXCEPT ![t] = Append(@, Head(ready[t]).co)] \in [Thread -> Seq(S)]
    BY <2>4, <2>6, Pushed
  <2>8. [cur EXCEPT ![t] = Head(ready[t]).co] \in [Thread -> S \cup {None}]
    BY <2>4, <2>6
  <2>9. delayed' \in [Thread -> Seq(S)] /\ cur' \in [Thread -> S \cup {None}]
    BY <2>5, <2>6, <2>7, <2>8
  <2>. QED
    BY <2>1, <2>3, <2>9 DEF RefersTo, NextRefersTo, R
<1>6. CASE SendNext(t)
  <2>. DEFINE R == [to : Thread, msg : MessageOf(S)]
  <2>1. /\ todo[t] # <<>> /\ todo' = [todo EXCEPT ![t] = Tail(@)]
        /\ SendTo(t, Head(todo[t]).to, Head(todo[t]).msg, phase[t])
        /\ UNCHANGED <<cur, spawned, ready, delayed, children, token, home, parent>>
    BY <1>6 DEF SendNext, coVars
  <2>2. todo \in [Thread -> Seq(R)]
    BY DEF RefersTo
  <2>. HIDE DEF R
  <2>3. todo' \in [Thread -> Seq(R)] /\ Head(todo[t]) \in R
    BY <2>1, <2>2, Shifted
  <2>4. Head(todo[t]).to \in Thread /\ Head(todo[t]).msg \in MessageOf(S) /\ phase[t] \in Phase
    BY <2>3 DEF R, TypeOK
  <2>5. inbox' \in [Thread -> Seq(MessageOf(S))]
    BY <2>1, <2>4, SendToFacts DEF RefersTo, TypeOK
  <2>. QED
    BY <2>1, <2>3, <2>5 DEF RefersTo, NextRefersTo, R
<1>7. ASSUME NEW c \in Coroutine, KillNext(t, c) PROVE NextRefersTo(S)
  <2>1. /\ home[c] = t /\ cur' = [cur EXCEPT ![t] = c]
        /\ UNCHANGED <<spawned, ready, delayed, inbox, todo, children, token, home, parent>>
    BY <1>7 DEF KillNext, JumpIn, sharedVars
  <2>2. c \in S
    BY <2>1, ThreadAssumption DEF RefersTo
  <2>. QED
    BY <2>1, <2>2 DEF RefersTo, NextRefersTo
<1>8. CASE Unwind(t) \/ TickResume(t)
  <2>1. UNCHANGED <<spawned, ready, inbox, todo, children, token, home, parent>>
    BY <1>8 DEF Unwind, TickResume, coVars, sharedVars
  <2>2. delayed \in [Thread -> Seq(S)] /\ cur \in [Thread -> S \cup {None}]
    BY DEF RefersTo
  <2>3. CASE UNCHANGED <<cur, delayed>>
    BY <2>1, <2>3 DEF RefersTo, NextRefersTo
  <2>4. CASE /\ delayed[t] # <<>> /\ delayed' = [delayed EXCEPT ![t] = Tail(@)]
             /\ cur' = cur \/ cur' = [cur EXCEPT ![t] = Head(delayed[t])]
    <3>1. delayed' \in [Thread -> Seq(S)] /\ Head(delayed[t]) \in S
      BY <2>2, <2>4, Shifted
    <3>2. cur' \in [Thread -> S \cup {None}]
      BY <3>1, <2>2, <2>4
    <3>. QED
      BY <2>1, <3>1, <3>2 DEF RefersTo, NextRefersTo
  <2>5. CASE Unwind(t)
    BY <2>3, <2>4, <2>5 DEF Unwind, JumpIn
  <2>6. CASE TickResume(t)
    <3>1. tickLeft[t] \in Nat /\ tickLeft[t] > 0 /\ tickLeft[t] <= Len(delayed[t])
      BY <2>6 DEF TickResume, At, TickBound, TypeOK
    <3>2. delayed[t] # <<>>
      BY <3>1
    <3>. QED
      BY <3>2, <2>4, <2>6 DEF TickResume, JumpIn
  <2>. QED
    BY <1>8, <2>5, <2>6
<1>. QED
  BY <1>1, <1>2, <1>3, <1>4, <1>5, <1>6, <1>7, <1>8 DEF Deliver

\* Handler::notify takes the first message.
LEMMA ReceivesFacts ==
  ASSUME NEW S, inbox \in [Thread -> Seq(MessageOf(S))], NEW t \in Thread, NEW type,
         Receives(t, type)
  PROVE  /\ inbox' \in [Thread -> Seq(MessageOf(S))]
         /\ Head(inbox[t]) \in MessageOf(S) /\ Head(inbox[t]).type = type
         /\ type \in {"Migration", "ChannelMsg"} => Head(inbox[t]).co \in S
         /\ cur[t] = None /\ phase[t] \in {"poll", "last"}
<1>1. inbox[t] # <<>> /\ inbox' = [inbox EXCEPT ![t] = Tail(@)] /\ Head(inbox[t]).type = type
  BY DEF Receives
<1>2. inbox' \in [Thread -> Seq(MessageOf(S))] /\ Head(inbox[t]) \in MessageOf(S)
  BY <1>1, Shifted
<1>3. type \in {"Migration", "ChannelMsg"} => Head(inbox[t]).co \in S
  BY <1>1, <1>2 DEF MessageOf, Shutdown, Terminate, PropagatePanic
<1>4. cur[t] = None /\ phase[t] \in {"poll", "last"}
  BY DEF Receives, At
<1>. QED
  BY <1>1, <1>2, <1>3, <1>4

\* The callbacks of the event loop name only those that were named.
LEMMA CallbackRefers ==
  ASSUME TypeOK, NEW S \in SUBSET Coroutine, RefersTo(S), NEW t \in Thread,
         Notify(t) \/ \E c \in Coroutine : Event(t, c)
  PROVE  NextRefersTo(S)
<1>1. ASSUME NEW c \in Coroutine, Event(t, c) PROVE NextRefersTo(S)
  <2>1. /\ home[c] = t /\ cur' = [cur EXCEPT ![t] = c] /\ Unblock(c)
        /\ UNCHANGED <<spawned, ready, delayed, inbox, todo, children, home, parent>>
    BY <1>1 DEF Event, JumpIn, sharedVars
  <2>2. c \in S
    BY <2>1, ThreadAssumption DEF RefersTo
  <2>3. token' \in [Coroutine -> [co : S, thread : Thread] \cup {None}]
    BY <2>1 DEF Unblock, RefersTo
  <2>. QED
    BY <2>1, <2>2, <2>3 DEF RefersTo, NextRefersTo
<1>2. CASE OnChannelMsg(t)
  <2>1. /\ Receives(t, "ChannelMsg")
        /\ UNCHANGED <<spawned, ready, delayed, todo, children, home, parent>>
        /\ \/ UNCHANGED <<cur, token>>
           \/ Unblock(Head(inbox[t]).co) /\ cur' = [cur EXCEPT ![t] = Head(inbox[t]).co]
    BY <1>2 DEF OnChannelMsg, JumpIn
  <2>2. inbox' \in [Thread -> Seq(MessageOf(S))] /\ Head(inbox[t]).co \in S
    BY <2>1, ReceivesFacts DEF RefersTo
  <2>3. token' \in [Coroutine -> [co : S, thread : Thread] \cup {None}]
    BY <2>1 DEF Unblock, RefersTo
  <2>4. cur' \in [Thread -> S \cup {None}]
    BY <2>1, <2>2 DEF RefersTo
  <2>. QED
    BY <2>1, <2>2, <2>3, <2>4 DEF RefersTo, NextRefersTo
<1>3. CASE OnMigration(t)
  <2>. DEFINE c == Head(inbox[t]).co
  <2>1. /\ Receives(t, "Migration") /\ home' = [home EXCEPT ![c] = t]
        /\ cur' = [cur EXCEPT ![t] = c]
        /\ UNCHANGED <<spawned, ready, delayed, todo, children, token, parent>>
    BY <1>3 DEF OnMigration, JumpIn
  <2>2. inbox' \in [Thread -> Seq(MessageOf(S))] /\ c \in S
    BY <2>1, ReceivesFacts DEF RefersTo
  <2>. HIDE DEF c
  <2>. QED
    BY <2>1, <2>2 DEF RefersTo, NextRefersTo, TypeOK
<1>4. CASE OnShutdown(t) \/ OnTerminate(t) \/ OnPropagatePanic(t)
  <2>1. /\ \E type \in {"Shutdown", "Terminate", "PropagatePanic"} : Receives(t, type)
        /\ UNCHANGED <<cur, spawned, ready, delayed, todo, children, token, home, parent>>
    BY <1>4 DEF OnShutdown, OnTerminate, OnPropagatePanic, coVars
  <2>2. inbox' \in [Thread -> Seq(MessageOf(S))]
    BY <2>1, ReceivesFacts DEF RefersTo
  <2>. QED
    BY <2>1, <2>2 DEF RefersTo, NextRefersTo
<1>. QED
  BY <1>1, <1>2, <1>3, <1>4 DEF Notify

\* Together: every step names only those that were named or that are spawned in it.
LEMMA NextRefers ==
  ASSUME TypeOK, Starting, TickBound, NEW S \in SUBSET Coroutine, RefersTo(S),
         \A c \in Coroutine : state[c] = "unborn" /\ state'[c] # "unborn" => c \in S,
         Next
  PROVE  NextRefersTo(S)
<1>1. phase[0] = "waiting" => state[Main] = "unborn"
  BY CoroutineAssumption DEF Starting, Born
<1>2. ASSUME NEW t \in Thread, Step(t) \/ Tick(t) PROVE NextRefersTo(S)
  <2>1. CASE Run(t)
    BY <2>1, RunRefers
  <2>2. CASE ~Run(t)
    <3>1. \/ SpawnThread(t) \/ (t = 0 /\ StartMain) \/ StartOther(t) \/ Deliver(t)
          \/ SendNext(t) \/ (\E c \in Coroutine : KillNext(t, c)) \/ KillDone(t)
          \/ Exit(t) \/ Unwind(t) \/ TickResume(t) \/ TickDone(t) \/ Tick(t)
      BY <1>2, <2>2 DEF Step
    <3>. QED
      BY <1>1, <3>1, ThreadRefers
  <2>. QED
    BY <2>1, <2>2
<1>3. CASE Done
  BY <1>3 DEF Done, vars, coVars, threadVars, sharedVars, RefersTo, NextRefersTo
<1>. QED
  BY <1>2, <1>3, CallbackRefers DEF Next

\* More coroutines may be named.
LEMMA RefersMore ==
  ASSUME NEW S, NEW T, S \subseteq T, RefersTo(S)
  PROVE  RefersTo(T)
<1>1. MessageOf(S) \subseteq MessageOf(T)
  BY DEF MessageOf
<1>2. Seq(S) \subseteq Seq(T)
  BY SeqMonotonic
<1>3. Seq(MessageOf(S)) \subseteq Seq(MessageOf(T))
  BY <1>1, SeqMonotonic
<1>. DEFINE ControlOf(U) == [co : U, yielding : BOOLEAN]
            SendOf(U) == [to : Thread, msg : MessageOf(U)]
<1>4. ControlOf(S) \subseteq ControlOf(T) /\ SendOf(S) \subseteq SendOf(T)
  BY <1>1
<1>5. Seq(ControlOf(S)) \subseteq Seq(ControlOf(T)) /\ Seq(SendOf(S)) \subseteq Seq(SendOf(T))
  BY <1>4, SeqMonotonic
<1>6. ready \in [Thread -> Seq(ControlOf(S))] /\ todo \in [Thread -> Seq(SendOf(S))]
  BY DEF RefersTo
<1>. HIDE DEF ControlOf, SendOf
<1>7. ready \in [Thread -> Seq(ControlOf(T))] /\ todo \in [Thread -> Seq(SendOf(T))]
  BY <1>5, <1>6
<1>8. /\ spawned \in [Thread -> Seq(T)] /\ delayed \in [Thread -> Seq(T)]
      /\ children \in [Coroutine -> Seq(T)] /\ inbox \in [Thread -> Seq(MessageOf(T))]
  BY <1>2, <1>3 DEF RefersTo
<1>9. /\ cur \in [Thread -> T \cup {None}]
      /\ token \in [Coroutine -> [co : T, thread : Thread] \cup {None}]
      /\ \A c \in Coroutine : home[c] # None => c \in T
      /\ \A c \in Coroutine : parent[c] # None => c \in T
  BY DEF RefersTo
<1>. QED
  BY <1>7, <1>8, <1>9 DEF RefersTo, ControlOf, SendOf

-----------------------------------------------------------------------------
(* Births and ends *)

\* One coroutine is spawned, by one that is alive or as the first, and counted, ...
Birth == /\ StartMain \/ \E t \in Thread, c, d \in Coroutine : Spawn(t, c, d) /\ Live(c)
         /\ \E d \in Coroutine : /\ state[d] = "unborn"
                                 /\ state' = [state EXCEPT ![d] = "Ready"]
                                 /\ num' = num + 1

\* ... one that is alive ends, ...
End == \E c \in Coroutine : /\ Live(c)
                            /\ \E t \in Thread, ok \in BOOLEAN : Finish(t, c, ok)
                            /\ state' = [state EXCEPT ![c] = "Finished"]
                            /\ num' = num - 1

\* ... or nobody is spawned and nobody ends.
NoChange ==
  /\ num' = num
  /\ state' \in [Coroutine -> {"unborn", "Ready", "Blocked", "Finished"}]
  /\ \A c \in Coroutine : /\ state'[c] = "unborn" <=> state[c] = "unborn"
                          /\ state'[c] = "Finished" <=> state[c] = "Finished"

\* Who runs and has not ended is alive.
LEMMA CurrentLives ==
  ASSUME TypeOK, RefersToBorn, NEW t \in Thread, NEW c \in Coroutine, cur[t] = c
  PROVE  state[c] # "unborn" /\ (state[c] # "Finished" => Live(c))
BY CoroutineAssumption DEF RefersToBorn, RefersTo, Born, Live

\* A woken coroutine was alive before.
LEMMA UnblockNoChange ==
  ASSUME TypeOK, NEW c \in Coroutine, state[c] = "Blocked", Unblock(c), num' = num
  PROVE  NoChange
BY DEF Unblock, NoChange, TypeOK

\* The steps of a coroutine.
LEMMA RunChanges ==
  ASSUME TypeOK, RefersToBorn, NEW t \in Thread, Run(t)
  PROVE  Birth \/ End \/ NoChange
<1>. PICK c \in Coroutine :
        \/ \E d \in Coroutine : Spawn(t, c, d) \/ Join(t, c, d)
        \/ Yield(t, c)
        \/ Block(t, c)
        \/ JoinReturn(t, c)
        \/ CallShutdown(t, c)
        \/ \E ok \in BOOLEAN : Finish(t, c, ok)
        \/ ExitSend(t, c)
  BY DEF Run
<1>1. ASSUME NEW d \in Coroutine, Spawn(t, c, d) PROVE Birth
  <2>1. Live(c)
    BY <1>1, CurrentLives DEF Spawn, Free, Running
  <2>. QED
    BY <1>1, <2>1 DEF Spawn, Birth
<1>2. ASSUME NEW d \in Coroutine, Join(t, c, d) PROVE NoChange
  <2>1. cur[t] = c /\ state[c] # "Finished" /\ num' = num
        /\ state' = [state EXCEPT ![c] = "Blocked"]
    BY <1>2 DEF Join, Running, sharedVars
  <2>2. state[c] # "unborn"
    BY <2>1, CurrentLives
  <2>. QED
    BY <2>1, <2>2 DEF NoChange, TypeOK
<1>3. CASE Yield(t, c) \/ JoinReturn(t, c) \/ CallShutdown(t, c) \/ ExitSend(t, c)
  <2>1. state' = state /\ num' = num
    BY <1>3 DEF Yield, JoinReturn, CallShutdown, ExitSend, sharedVars
  <2>. QED
    BY <2>1 DEF NoChange, TypeOK
<1>4. CASE Block(t, c)
  <2>1. /\ cur[t] = c /\ state[c] # "Finished" /\ num' = num
        /\ state' = state \/ state' = [state EXCEPT ![c] = "Blocked"]
    BY <1>4 DEF Block, Free, Running, sharedVars
  <2>2. state[c] # "unborn"
    BY <2>1, CurrentLives
  <2>. QED
    BY <2>1, <2>2 DEF NoChange, TypeOK
<1>5. ASSUME NEW ok \in BOOLEAN, Finish(t, c, ok) PROVE End
  <2>1. /\ cur[t] = c /\ state[c] # "Finished" /\ num' = num - 1
        /\ state' = [state EXCEPT ![c] = "Finished"]
    BY <1>5 DEF Finish, ShutdownPanics, Free, Running
  <2>2. Live(c)
    BY <2>1, CurrentLives
  <2>. QED
    BY <1>5, <2>1, <2>2 DEF End
<1>. QED
  BY <1>1, <1>2, <1>3, <1>4, <1>5

\* Every step is a birth, an end, or leaves who is alive alone.
LEMMA NextChanges ==
  ASSUME TypeOK, RefersToBorn, Starting, Next
  PROVE  Birth \/ End \/ NoChange
<1>1. CASE \E t \in Thread : Run(t)
  BY <1>1, RunChanges
<1>2. CASE StartMain
  <2>1. state[Main] = "unborn"
    BY <1>2, CoroutineAssumption DEF StartMain, Starting, Born
  <2>. QED
    BY <1>2, <2>1, CoroutineAssumption DEF StartMain, Birth
<1>3. ASSUME NEW t \in Thread, NEW c \in Coroutine, Event(t, c) PROVE NoChange
  BY <1>3, UnblockNoChange DEF Event, sharedVars
<1>4. ASSUME NEW t \in Thread, OnChannelMsg(t) PROVE NoChange
  <2>. DEFINE c == Head(inbox[t]).co
  <2>1. /\ Receives(t, "ChannelMsg") /\ num' = num
        /\ state' = state \/ (Unblock(c) /\ state[c] = "Blocked")
    BY <1>4 DEF OnChannelMsg, Wakes
  <2>2. c \in Coroutine
    <3>1. c \in Born
      BY <2>1, ReceivesFacts DEF RefersToBorn, RefersTo
    <3>. QED
      BY <3>1 DEF Born
  <2>. HIDE DEF c
  <2>3. CASE state' = state
    BY <2>1, <2>3 DEF NoChange, TypeOK
  <2>. QED
    BY <2>1, <2>2, <2>3, UnblockNoChange
<1>5. ASSUME NEW t \in Thread,
             \/ SpawnThread(t) \/ StartOther(t) \/ Deliver(t) \/ SendNext(t)
             \/ (\E c \in Coroutine : KillNext(t, c)) \/ KillDone(t) \/ Exit(t) \/ Unwind(t)
             \/ TickResume(t) \/ TickDone(t) \/ Tick(t)
             \/ OnMigration(t) \/ OnShutdown(t) \/ OnTerminate(t) \/ OnPropagatePanic(t)
      PROVE  NoChange
  <2>1. state' = state /\ num' = num
    BY <1>5 DEF SpawnThread, StartOther, Deliver, SpawnedResume, SpawnedMigrate, ReadyDelay,
                ReadyResume, Delivered, SendNext, KillNext, KillDone, Exit, Unwind, TickResume,
                TickDone, Tick, OnMigration, OnShutdown, OnTerminate, OnPropagatePanic,
                coVars, sharedVars
  <2>. QED
    BY <2>1 DEF NoChange, TypeOK
<1>6. CASE Done
  BY <1>6 DEF Done, vars, coVars, sharedVars, NoChange, TypeOK
<1>. QED
  BY <1>1, <1>2, <1>3, <1>4, <1>5, <1>6 DEF Next, Step, Notify

\* Nobody becomes unborn again, or comes back to life.
LEMMA BornStays ==
  ASSUME TypeOK, Birth \/ End \/ NoChange
  PROVE  /\ state' \in [Coroutine -> {"unborn", "Ready", "Blocked", "Finished"}]
         /\ \A c \in Coroutine : state[c] # "unborn" => state'[c] # "unborn"
         /\ \A c \in Coroutine : state[c] = "Finished" => state'[c] = "Finished"
<1>1. CASE Birth
  BY <1>1 DEF Birth, TypeOK
<1>2. CASE End
  BY <1>2 DEF End, Live, TypeOK
<1>3. CASE NoChange
  BY <1>3 DEF NoChange, TypeOK
<1>. QED
  BY <1>1, <1>2, <1>3

\* coroutines_num is the number of those that are alive, and no less than 0.
LEMMA CountedStep ==
  ASSUME TypeOK, Counted, Birth \/ End \/ NoChange
  PROVE  Counted' /\ num' \in Nat
<1>. DEFINE L == {c \in Coroutine : Live(c)}
            M == {c \in Coroutine : state'[c] \notin {"unborn", "Finished"}}
<1>1. IsFiniteSet(L) /\ IsFiniteSet(M)
  BY CoroutineAssumption, FS_Subset
<1>2. Counted' <=> num' = Cardinality(M)
  BY DEF Counted, Live
<1>3. num = Cardinality(L) /\ num \in Nat
  BY <1>1, FS_CardinalityType DEF Counted
<1>4. CASE Birth
  <2>1. PICK d \in Coroutine : /\ state[d] = "unborn" /\ num' = num + 1
                               /\ state' = [state EXCEPT ![d] = "Ready"]
    BY <1>4 DEF Birth
  <2>2. d \notin L /\ M = L \cup {d}
    BY <2>1 DEF Live, TypeOK
  <2>. HIDE DEF L, M
  <2>3. Cardinality(M) = Cardinality(L) + 1
    BY <2>2, <1>1, FS_AddElement
  <2>. QED
    BY <2>1, <2>3, <1>2, <1>3
<1>5. CASE End
  <2>1. PICK c \in Coroutine : /\ Live(c) /\ num' = num - 1
                               /\ state' = [state EXCEPT ![c] = "Finished"]
    BY <1>5 DEF End
  <2>2. c \in L /\ M = L \ {c}
    BY <2>1 DEF Live, TypeOK
  <2>. HIDE DEF L, M
  <2>3. Cardinality(M) = Cardinality(L) - 1
    BY <2>2, <1>1, FS_RemoveElement
  <2>4. Cardinality(M) \in Nat
    BY <1>1, FS_CardinalityType
  <2>. QED
    BY <2>1, <2>3, <2>4, <1>2, <1>3
<1>6. CASE NoChange
  <2>1. M = L /\ num' = num
    BY <1>6 DEF NoChange, Live
  <2>. QED
    BY <2>1, <1>2, <1>3
<1>. QED
  BY <1>4, <1>5, <1>6

\* coroutines_num is 0 exactly when nobody is alive.
LEMMA ZeroMeansNobody ==
  ASSUME Counted
  PROVE  num = 0 <=> \A c \in Coroutine : ~Live(c)
<1>. DEFINE L == {c \in Coroutine : Live(c)}
<1>1. IsFiniteSet(L)
  BY CoroutineAssumption, FS_Subset
<1>2. Cardinality(L) = 0 <=> L = {}
  BY <1>1, FS_EmptySet
<1>. QED
  BY <1>2 DEF Counted

-----------------------------------------------------------------------------
(* The phases of a thread *)

\* A thread that is there moves on.
Moves(t, ph) ==
  /\ phase[t] \notin {"new", "exited", "panicked", "aborted"}
  /\ ph \in Phase \ {"new", "waiting"}
  /\ phase' = [phase EXCEPT ![t] = ph]

\* A step moves one thread at most.
PhaseStep ==
  \/ phase' = phase
  \/ \E t \in Thread : SpawnThread(t)
  \/ \E t \in Thread, ph \in Phase : Moves(t, ph)

\* Who runs or sends has started.
LEMMA BusyStarted ==
  ASSUME TypeOK, Starting, NEW t \in Thread, cur[t] # None \/ todo[t] # <<>>
  PROVE  phase[t] \in Phase \ {"new", "waiting"}
BY DEF TypeOK, Starting

\* A send moves the phase of the sender only.
LEMMA SendToMoves ==
  ASSUME NEW t \in Thread, phase[t] \notin {"new", "exited", "panicked", "aborted"},
         NEW u, NEW m, NEW ph \in Phase \ {"new", "waiting"}, SendTo(t, u, m, ph)
  PROVE  \E p \in Phase : Moves(t, p)
<1>1. "aborted" \in Phase \ {"new", "waiting"}
  BY DEF Phase
<1>2. phase' = [phase EXCEPT ![t] = "aborted"] \/ phase' = [phase EXCEPT ![t] = ph]
  BY DEF SendTo
<1>. QED
  BY <1>1, <1>2 DEF Moves

\* Every step moves the phase of one thread at most, and along the life of a thread.
LEMMA NextPhase ==
  ASSUME TypeOK, Starting, Next
  PROVE  PhaseStep
<1>. USE DEF PhaseStep
<1>1. ASSUME NEW t \in Thread, Run(t) PROVE PhaseStep
  <2>. PICK c \in Coroutine :
          \/ \E d \in Coroutine : Spawn(t, c, d) \/ Join(t, c, d)
          \/ Yield(t, c)
          \/ Block(t, c)
          \/ JoinReturn(t, c)
          \/ CallShutdown(t, c)
          \/ \E ok \in BOOLEAN : Finish(t, c, ok)
          \/ ExitSend(t, c)
    BY <1>1 DEF Run
  <2>1. CASE ~ExitSend(t, c)
    <3>1. phase' = phase
      BY <2>1 DEF Spawn, Join, Yield, Block, JoinReturn, CallShutdown, Finish, threadVars
    <3>. QED
      BY <3>1
  <2>2. CASE ExitSend(t, c) /\ token[c] # None
    <3>1. cur[t] # None /\ ~Closed(t) /\ SendTo(t, token[c].thread, ChannelMsg(token[c].co), phase[t])
      BY <2>2, CoroutineAssumption DEF ExitSend, NotifyJoiner
    <3>2. phase[t] \in Phase \ {"new", "waiting"} /\ phase[t] \notin {"new", "exited", "panicked", "aborted"}
      BY <3>1, BusyStarted DEF Closed
    <3>. QED
      BY <3>1, <3>2, SendToMoves
  <2>3. CASE ExitSend(t, c) /\ token[c] = None
    BY <2>3 DEF ExitSend, NotifyJoiner
  <2>. QED
    BY <2>1, <2>2, <2>3
<1>2. CASE StartMain
  <2>1. 0 \in Thread /\ Moves(0, "spawned")
    BY <1>2, BoundAssumption DEF StartMain, Moves, Phase, Thread
  <2>. QED
    BY <2>1 DEF Phase
<1>3. ASSUME NEW t \in Thread, SendNext(t) PROVE PhaseStep
  <2>1. phase[t] \in Phase \ {"new", "waiting"} /\ phase[t] \notin {"new", "exited", "panicked", "aborted"}
    BY <1>3, BusyStarted DEF SendNext, Closed
  <2>. QED
    BY <1>3, <2>1, SendToMoves DEF SendNext
<1>4. ASSUME NEW t \in Thread, SpawnedMigrate(t) PROVE PhaseStep
  <2>1. /\ phase[t] \notin {"new", "exited", "panicked", "aborted"}
        /\ {"ready", "unwind"} \subseteq Phase \ {"new", "waiting"}
    BY <1>4 DEF SpawnedMigrate, SpawnedTurn, At, Phase
  <2>2. CASE schedI[t] \in Thread
    BY <1>4, <2>1, <2>2, SendToMoves DEF SpawnedMigrate
  <2>3. CASE schedI[t] \notin Thread
    BY <1>4, <2>1, <2>3 DEF SpawnedMigrate, Moves
  <2>. QED
    BY <2>2, <2>3
<1>5. ASSUME NEW t \in Thread,
             \/ StartOther(t) \/ SpawnedResume(t) \/ ReadyDelay(t) \/ ReadyResume(t) \/ Delivered(t)
             \/ KillDone(t) \/ Exit(t) \/ Tick(t) \/ TickResume(t) \/ TickDone(t) \/ Unwind(t)
             \/ \E c \in Coroutine : KillNext(t, c) \/ Event(t, c)
      PROVE  PhaseStep
  <2>1. phase' = phase \/ \E ph \in Phase : Moves(t, ph)
    BY <1>5 DEF StartOther, SpawnedResume, SpawnedTurn, ReadyDelay, ReadyResume, ReadyTurn,
                Delivered, KillDone, Exit, Tick, TickResume, TickDone, Unwind, KillNext, Event,
                JumpIn, At, Moves, Phase
  <2>. QED
    BY <2>1
<1>6. ASSUME NEW t \in Thread, Notify(t) PROVE PhaseStep
  <2>1. phase[t] \in {"poll", "last"}
    BY <1>6 DEF Notify, OnChannelMsg, OnMigration, OnShutdown, OnTerminate, OnPropagatePanic,
                Receives, At
  <2>2. phase' = phase \/ \E ph \in {"spawned", "poll", "kill", "last", "unwind"} :
                            phase' = [phase EXCEPT ![t] = ph]
    BY <1>6 DEF Notify, OnChannelMsg, OnMigration, OnShutdown, OnTerminate, OnPropagatePanic,
                JumpIn
  <2>3. \A ph \in {"spawned", "poll", "kill", "last", "unwind"} :
          phase' = [phase EXCEPT ![t] = ph] => ph \in Phase /\ Moves(t, ph)
    BY <2>1 DEF Moves, Phase
  <2>. QED
    BY <2>2, <2>3
<1>7. CASE Done
  BY <1>7 DEF Done, vars, threadVars
<1>. QED
  BY <1>1, <1>2, <1>3, <1>4, <1>5, <1>6, <1>7 DEF Next, Step, Deliver

\* What follows for the types and for those that have ended.
LEMMA PhaseFacts ==
  ASSUME TypeOK, PhaseStep
  PROVE  /\ phase' \in [Thread -> Phase]
         /\ \A t \in Thread : Closed(t) => phase'[t] = phase[t]
         /\ \A t \in Thread : phase'[t] = "waiting" => phase[t] \in {"new", "waiting"}
         /\ \A t \in Thread : phase'[t] = "new" => phase[t] = "new"
<1>1. CASE phase' = phase
  BY <1>1 DEF TypeOK
<1>2. ASSUME NEW t \in Thread, SpawnThread(t)
      PROVE  phase[t] = "new" /\ phase' = [phase EXCEPT ![t] = "waiting"]
  BY <1>2 DEF SpawnThread
<1>3. ASSUME NEW t \in Thread, NEW ph \in Phase, Moves(t, ph)
      PROVE  /\ phase[t] \notin {"new", "exited", "panicked", "aborted"} /\ ph \notin {"new", "waiting"}
             /\ phase' = [phase EXCEPT ![t] = ph]
  BY <1>3 DEF Moves
<1>4. ASSUME NEW t \in Thread, NEW ph \in Phase, phase' = [phase EXCEPT ![t] = ph],
             \/ phase[t] = "new" /\ ph = "waiting"
             \/ phase[t] \notin {"new", "exited", "panicked", "aborted"} /\ ph \notin {"new", "waiting"}
      PROVE  /\ phase' \in [Thread -> Phase]
             /\ \A u \in Thread : Closed(u) => phase'[u] = phase[u]
             /\ \A u \in Thread : phase'[u] = "waiting" => phase[u] \in {"new", "waiting"}
             /\ \A u \in Thread : phase'[u] = "new" => phase[u] = "new"
  <2>1. /\ phase'[t] = ph /\ \A u \in Thread : u # t => phase'[u] = phase[u]
        /\ phase' \in [Thread -> Phase]
    BY <1>4 DEF TypeOK
  <2>. QED
    BY <1>4, <2>1 DEF Closed
<1>5. "waiting" \in Phase
  BY DEF Phase
<1>. QED
  BY <1>1, <1>2, <1>3, <1>4, <1>5 DEF PhaseStep

-----------------------------------------------------------------------------
(* The other types *)

PlainTypes ==
  /\ killed \subseteq Coroutine
  /\ home \in [Coroutine -> Thread \cup {None}]
  /\ parent \in [Coroutine -> Coroutine \cup {None}]
  /\ waits \in [Coroutine -> Coroutine \cup {None}]
  /\ exited \subseteq Coroutine
  /\ stopping \subseteq Coroutine
  /\ ops \in [Coroutine -> 0 .. MaxOps]
  /\ tickLeft \in [Thread -> Nat]
  /\ shutting \subseteq Thread
  /\ schedId \in [Thread -> Nat]
  /\ schedI \in [Thread -> Nat]
  /\ started \in BOOLEAN
  /\ schedNum \in Nat

\* TypeOK in the parts that are proved one by one.
LEMMA TypeParts ==
  TypeOK <=> /\ PlainTypes /\ RefersTo(Coroutine)
             /\ state \in [Coroutine -> {"unborn", "Ready", "Blocked", "Finished"}]
             /\ phase \in [Thread -> Phase] /\ num \in Nat
BY DEF TypeOK, PlainTypes, RefersTo, MessageOf, Message

\* Types of the plain state through the steps of coroutines, ...
LEMMA RunTypes ==
  ASSUME TypeOK, NEW t \in Thread, Run(t)
  PROVE  PlainTypes'
<1>. PICK c \in Coroutine :
        \/ \E d \in Coroutine : Spawn(t, c, d) \/ Join(t, c, d)
        \/ Yield(t, c)
        \/ Block(t, c)
        \/ JoinReturn(t, c)
        \/ CallShutdown(t, c)
        \/ \E ok \in BOOLEAN : Finish(t, c, ok)
        \/ ExitSend(t, c)
  BY DEF Run
<1>1. UNCHANGED <<killed, tickLeft, shutting, schedId, schedI, started, schedNum>>
  BY DEF Spawn, Join, Yield, Block, JoinReturn, CallShutdown, Finish, ExitSend,
         threadVars, sharedVars
<1>2. /\ home' \in [Coroutine -> Thread \cup {None}]
      /\ parent' \in [Coroutine -> Coroutine \cup {None}]
  <2>1. ASSUME NEW d \in Coroutine, Spawn(t, c, d)
        PROVE  home' = [home EXCEPT ![d] = t] /\ parent' = [parent EXCEPT ![d] = c]
    BY <2>1 DEF Spawn
  <2>2. ASSUME NEW d \in Coroutine, Join(t, c, d) PROVE home' = home /\ parent' = parent
    BY <2>2 DEF Join
  <2>3. ASSUME NEW ok \in BOOLEAN, Finish(t, c, ok)
        PROVE  home' = [home EXCEPT ![c] = None] /\ parent' = parent
    BY <2>3 DEF Finish
  <2>4. CASE Yield(t, c) \/ Block(t, c) \/ JoinReturn(t, c) \/ CallShutdown(t, c) \/ ExitSend(t, c)
    <3>1. home' = home /\ parent' = parent
      BY <2>4 DEF Yield, Block, JoinReturn, CallShutdown, ExitSend
    <3>. QED
      BY <3>1 DEF TypeOK
  <2>5. \A d \in Coroutine : /\ [home EXCEPT ![d] = t] \in [Coroutine -> Thread \cup {None}]
                              /\ [home EXCEPT ![d] = None] \in [Coroutine -> Thread \cup {None}]
                              /\ [parent EXCEPT ![d] = c] \in [Coroutine -> Coroutine \cup {None}]
    BY DEF TypeOK
  <2>6. home \in [Coroutine -> Thread \cup {None}] /\ parent \in [Coroutine -> Coroutine \cup {None}]
    BY DEF TypeOK
  <2>7. ASSUME NEW d \in Coroutine, Spawn(t, c, d) \/ Join(t, c, d)
        PROVE  /\ home' \in [Coroutine -> Thread \cup {None}]
               /\ parent' \in [Coroutine -> Coroutine \cup {None}]
    BY <2>1, <2>2, <2>5, <2>6, <2>7
  <2>8. ASSUME NEW ok \in BOOLEAN, Finish(t, c, ok)
        PROVE  /\ home' \in [Coroutine -> Thread \cup {None}]
               /\ parent' \in [Coroutine -> Coroutine \cup {None}]
    BY <2>3, <2>5, <2>6, <2>8
  <2>. QED
    BY <2>4, <2>7, <2>8
<1>3. waits' \in [Coroutine -> Coroutine \cup {None}]
  <2>1. \/ waits' = waits
        \/ waits' = [waits EXCEPT ![c] = None]
        \/ \E d \in Coroutine : waits' = [waits EXCEPT ![c] = d]
    BY DEF Spawn, Join, Yield, Block, JoinReturn, CallShutdown, Finish, ExitSend
  <2>2. \A d \in Coroutine \cup {None} :
          [waits EXCEPT ![c] = d] \in [Coroutine -> Coroutine \cup {None}]
    BY DEF TypeOK
  <2>3. waits \in [Coroutine -> Coroutine \cup {None}]
    BY DEF TypeOK
  <2>. QED
    BY <2>1, <2>2, <2>3
<1>4. exited' \subseteq Coroutine /\ stopping' \subseteq Coroutine
  BY DEF Spawn, Join, Yield, Block, JoinReturn, CallShutdown, Finish, ExitSend, TypeOK
<1>5. ops' \in [Coroutine -> 0 .. MaxOps]
  <2>1. ops' = ops \/ (ops[c] < MaxOps /\ ops' = [ops EXCEPT ![c] = @ + 1])
    BY DEF Spawn, Join, Yield, Block, JoinReturn, CallShutdown, Finish, ExitSend
  <2>2. ops \in [Coroutine -> 0 .. MaxOps] /\ MaxOps \in Nat
    BY BoundAssumption DEF TypeOK
  <2>3. ops[c] < MaxOps => ops[c] + 1 \in 0 .. MaxOps
    BY <2>2
  <2>4. ops[c] < MaxOps => [ops EXCEPT ![c] = @ + 1] \in [Coroutine -> 0 .. MaxOps]
    BY <2>2, <2>3
  <2>. QED
    BY <2>1, <2>2, <2>4
<1>. QED
  BY <1>1, <1>2, <1>3, <1>4, <1>5 DEF TypeOK, PlainTypes

\* ... of threads on their own, ...
LEMMA ThreadTypes ==
  ASSUME TypeOK, NEW t \in Thread,
         \/ SpawnThread(t) \/ (t = 0 /\ StartMain) \/ StartOther(t) \/ Deliver(t)
         \/ SendNext(t) \/ (\E c \in Coroutine : KillNext(t, c)) \/ KillDone(t)
         \/ Exit(t) \/ Unwind(t) \/ TickResume(t) \/ TickDone(t) \/ Tick(t)
  PROVE  PlainTypes'
<1>1. CASE \/ StartOther(t) \/ ReadyDelay(t) \/ ReadyResume(t) \/ Delivered(t) \/ SendNext(t)
           \/ KillDone(t) \/ Exit(t) \/ TickDone(t)
  <2>1. /\ UNCHANGED <<killed, home, parent, waits, exited, stopping, ops>>
        /\ UNCHANGED <<tickLeft, shutting, schedId, schedI, started, schedNum>>
    BY <1>1 DEF StartOther, ReadyDelay, ReadyResume, Delivered, SendNext, KillDone, Exit, TickDone,
                coVars, sharedVars
  <2>. QED
    BY <2>1 DEF TypeOK, PlainTypes
<1>2. CASE SpawnThread(t)
  BY <1>2 DEF SpawnThread, coVars, TypeOK, PlainTypes
<1>3. CASE StartMain
  <2>1. 0 \in Thread
    BY BoundAssumption DEF Thread
  <2>. QED
    BY <1>3, <2>1 DEF StartMain, TypeOK, PlainTypes
<1>4. CASE SpawnedResume(t) \/ SpawnedMigrate(t)
  <2>1. /\ UNCHANGED <<killed, parent, waits, exited, stopping, ops>>
        /\ UNCHANGED <<tickLeft, shutting, schedId, started, schedNum>>
        /\ home' = home \/ home' = [home EXCEPT ![Head(spawned[t])] = None]
        /\ schedI' = [schedI EXCEPT ![t] = ThreadNextI(t)]
    BY <1>4 DEF SpawnedResume, SpawnedMigrate, coVars, sharedVars
  <2>2. schedI \in [Thread -> Nat] /\ ThreadNextI(t) \in Nat
    BY DEF ThreadNextI, TypeOK
  <2>3. schedI' \in [Thread -> Nat]
    BY <2>1, <2>2
  <2>. QED
    BY <2>1, <2>3 DEF TypeOK, PlainTypes
<1>5. ASSUME NEW c \in Coroutine, KillNext(t, c) PROVE PlainTypes'
  BY <1>5 DEF KillNext, sharedVars, TypeOK, PlainTypes
<1>6. CASE Unwind(t)
  <2>1. /\ UNCHANGED <<home, parent, waits, exited, stopping, ops>>
        /\ UNCHANGED <<tickLeft, shutting, schedId, schedI, started, schedNum>>
        /\ killed' = killed \/ (delayed[t] # <<>> /\ killed' = killed \cup {Head(delayed[t])})
    BY <1>6 DEF Unwind, sharedVars
  <2>2. delayed[t] # <<>> => Head(delayed[t]) \in Coroutine
    BY Popped DEF TypeOK
  <2>. QED
    BY <2>1, <2>2 DEF TypeOK, PlainTypes
<1>7. CASE TickResume(t) \/ Tick(t)
  <2>1. /\ UNCHANGED <<killed, home, parent, waits, exited, stopping, ops>>
        /\ UNCHANGED <<shutting, schedId, schedI, started, schedNum>>
        /\ \/ tickLeft[t] > 0 /\ tickLeft' = [tickLeft EXCEPT ![t] = @ - 1]
           \/ tickLeft' = [tickLeft EXCEPT ![t] = Len(delayed[t])]
    BY <1>7 DEF TickResume, Tick, coVars, sharedVars
  <2>2. tickLeft \in [Thread -> Nat] /\ delayed[t] \in Seq(Coroutine)
    BY DEF TypeOK
  <2>a. Len(delayed[t]) \in Nat
    BY <2>2, LenProperties
  <2>b. tickLeft[t] > 0 => tickLeft[t] - 1 \in Nat
    BY <2>2
  <2>3. tickLeft' \in [Thread -> Nat]
    BY <2>1, <2>2, <2>a, <2>b
  <2>. QED
    BY <2>1, <2>3 DEF TypeOK, PlainTypes
<1>. QED
  BY <1>1, <1>2, <1>3, <1>4, <1>5, <1>6, <1>7 DEF Deliver

\* ... of the callbacks, ...
LEMMA CallbackTypes ==
  ASSUME TypeOK, NEW t \in Thread, Notify(t) \/ \E c \in Coroutine : Event(t, c)
  PROVE  PlainTypes'
<1>1. CASE OnChannelMsg(t) \/ OnTerminate(t) \/ OnPropagatePanic(t)
           \/ \E c \in Coroutine : Event(t, c)
  <2>1. /\ UNCHANGED <<killed, home, parent, waits, exited, stopping, ops>>
        /\ UNCHANGED <<tickLeft, shutting, schedId, schedI, started, schedNum>>
    BY <1>1 DEF OnChannelMsg, OnTerminate, OnPropagatePanic, Event, coVars, sharedVars
  <2>. QED
    BY <2>1 DEF TypeOK, PlainTypes
<1>2. CASE OnMigration(t)
  <2>. DEFINE c == Head(inbox[t]).co
  <2>1. /\ Receives(t, "Migration") /\ home' = [home EXCEPT ![c] = t]
        /\ killed' = killed \/ killed' = killed \cup {c}
        /\ UNCHANGED <<parent, waits, exited, stopping, ops>>
        /\ UNCHANGED <<tickLeft, shutting, schedId, schedI, started, schedNum>>
    BY <1>2 DEF OnMigration
  <2>2. c \in Coroutine
    <3>1. inbox \in [Thread -> Seq(MessageOf(Coroutine))]
      BY TypeParts DEF RefersTo
    <3>. QED
      BY <2>1, <3>1, ReceivesFacts
  <2>. HIDE DEF c
  <2>. QED
    BY <2>1, <2>2 DEF TypeOK, PlainTypes
<1>3. CASE OnShutdown(t)
  BY <1>3 DEF OnShutdown, coVars, TypeOK, PlainTypes
<1>. QED
  BY <1>1, <1>2, <1>3 DEF Notify

\* ... and of all.
LEMMA NextTypes ==
  ASSUME TypeOK, Next
  PROVE  PlainTypes'
<1>1. ASSUME NEW t \in Thread, Step(t) \/ Tick(t) PROVE PlainTypes'
  <2>1. CASE Run(t)
    BY <2>1, RunTypes
  <2>2. CASE ~Run(t)
    <3>1. \/ SpawnThread(t) \/ (t = 0 /\ StartMain) \/ StartOther(t) \/ Deliver(t)
          \/ SendNext(t) \/ (\E c \in Coroutine : KillNext(t, c)) \/ KillDone(t)
          \/ Exit(t) \/ Unwind(t) \/ TickResume(t) \/ TickDone(t) \/ Tick(t)
      BY <1>1, <2>2 DEF Step
    <3>. QED
      BY <3>1, ThreadTypes
  <2>. QED
    BY <2>1, <2>2
<1>2. CASE Done
  BY <1>2 DEF Done, vars, coVars, threadVars, sharedVars, TypeOK, PlainTypes
<1>. QED
  BY <1>1, <1>2, CallbackTypes DEF Next

-----------------------------------------------------------------------------
(* One thread at a time *)

\* What thread t may do in one step.
Acting(t) == Step(t) \/ Notify(t) \/ Tick(t) \/ \E c \in Coroutine : Event(t, c)

\* What user code leaves alone, and that it is a coroutine's.
LEMMA RunFacts ==
  ASSUME NEW t \in Thread, Run(t)
  PROVE  /\ \E c \in Coroutine :
              /\ cur[t] = c
              /\ exited' = exited \/ (state[c] = "Finished" /\ exited' = exited \cup {c})
         /\ UNCHANGED <<killed, shutting, schedNum, schedI>>
<1>. PICK c \in Coroutine :
       \/ \E d \in Coroutine : Spawn(t, c, d) \/ Join(t, c, d)
       \/ Yield(t, c) \/ Block(t, c) \/ JoinReturn(t, c) \/ CallShutdown(t, c)
       \/ \E ok \in BOOLEAN : Finish(t, c, ok)
       \/ ExitSend(t, c)
  BY DEF Run
<1>1. CASE \E d \in Coroutine : Spawn(t, c, d)
  BY <1>1 DEF Spawn, Free, Running, threadVars
<1>2. CASE \E d \in Coroutine : Join(t, c, d)
  BY <1>2 DEF Join, Running, sharedVars
<1>3. CASE Yield(t, c)
  BY <1>3 DEF Yield, Free, Running, sharedVars
<1>4. CASE Block(t, c)
  BY <1>4 DEF Block, Free, Running, sharedVars
<1>5. CASE JoinReturn(t, c)
  BY <1>5 DEF JoinReturn, Running, threadVars, sharedVars
<1>6. CASE CallShutdown(t, c)
  BY <1>6 DEF CallShutdown, Free, Running, sharedVars
<1>7. CASE \E ok \in BOOLEAN : Finish(t, c, ok)
  BY <1>7 DEF Finish, ShutdownPanics, Free, Running
<1>8. CASE ExitSend(t, c)
  BY <1>8 DEF ExitSend
<1>. QED
  BY <1>1, <1>2, <1>3, <1>4, <1>5, <1>6, <1>7, <1>8

\* A step changes what belongs to one thread only.
Untouched(u) ==
  /\ phase'[u] = phase[u] /\ cur'[u] = cur[u] /\ delayed'[u] = delayed[u]
  /\ tickLeft'[u] = tickLeft[u] /\ todo'[u] = todo[u] /\ schedI'[u] = schedI[u]
  /\ u \in shutting' <=> u \in shutting

\* Coroutines leave the other threads alone, ...
LEMMA RunLocal ==
  ASSUME TypeOK, NEW t \in Thread, Run(t), NEW u \in Thread \ {t}
  PROVE  Untouched(u)
<1>. PICK c \in Coroutine :
        \/ \E d \in Coroutine : Spawn(t, c, d) \/ Join(t, c, d)
        \/ Yield(t, c)
        \/ Block(t, c)
        \/ JoinReturn(t, c)
        \/ CallShutdown(t, c)
        \/ \E ok \in BOOLEAN : Finish(t, c, ok)
        \/ ExitSend(t, c)
  BY DEF Run
<1>1. UNCHANGED <<delayed, tickLeft, schedI, shutting>>
  BY DEF Spawn, Join, Yield, Block, JoinReturn, CallShutdown, Finish, ExitSend, threadVars
<1>2. phase'[u] = phase[u]
  <2>1. CASE ExitSend(t, c) /\ token[c] # None
    BY <2>1 DEF ExitSend, NotifyJoiner, SendTo, TypeOK
  <2>2. CASE ~(ExitSend(t, c) /\ token[c] # None)
    <3>1. phase' = phase
      BY <2>2 DEF Spawn, Join, Yield, Block, JoinReturn, CallShutdown, Finish, ExitSend,
                  NotifyJoiner, threadVars
    <3>. QED
      BY <3>1
  <2>. QED
    BY <2>1, <2>2
<1>3. cur'[u] = cur[u]
  <2>1. cur' = cur \/ cur' = [cur EXCEPT ![t] = None]
    BY DEF Spawn, Join, Yield, Block, JoinReturn, CallShutdown, Finish, ExitSend, threadVars
  <2>. QED
    BY <2>1 DEF TypeOK
<1>4. todo'[u] = todo[u]
  <2>1. todo' = todo \/ \E q : todo' = [todo EXCEPT ![t] = q]
    BY DEF Spawn, Join, Yield, Block, JoinReturn, CallShutdown, Finish, ExitSend, threadVars
  <2>. QED
    BY <2>1 DEF TypeOK
<1>. QED
  BY <1>1, <1>2, <1>3, <1>4 DEF Untouched

\* ... and so do threads, apart from their messages.
LEMMA ActingLocal ==
  ASSUME TypeOK, NEW t \in Thread, Acting(t), NEW u \in Thread \ {t}
  PROVE  Untouched(u)
<1>1. CASE SpawnThread(t) \/ (t = 0 /\ StartMain) \/ StartOther(t)
  <2>1. UNCHANGED <<cur, delayed, tickLeft, shutting, todo>>
    BY <1>1 DEF SpawnThread, StartMain, StartOther
  <2>2. \E ph : phase' = [phase EXCEPT ![t] = ph]
    BY <1>1 DEF SpawnThread, StartMain, StartOther
  <2>3. schedI' = schedI \/ \E i : schedI' = [schedI EXCEPT ![t] = i]
    BY <1>1 DEF SpawnThread, StartMain, StartOther
  <2>4. phase \in [Thread -> Phase] /\ schedI \in [Thread -> Nat]
    BY DEF TypeOK
  <2>. QED
    BY <2>1, <2>2, <2>3, <2>4 DEF Untouched
<1>2. CASE SpawnedResume(t) \/ SpawnedMigrate(t)
  <2>1. UNCHANGED <<delayed, tickLeft, shutting, todo>>
    BY <1>2 DEF SpawnedResume, SpawnedMigrate
  <2>2. CASE SpawnedResume(t)
    BY <2>1, <2>2 DEF SpawnedResume, JumpIn, TypeOK, Untouched
  <2>3. CASE SpawnedMigrate(t)
    <3>1. cur' = cur /\ schedI'[u] = schedI[u]
      BY <2>3 DEF SpawnedMigrate, TypeOK
    <3>2. \E ph : phase' = [phase EXCEPT ![t] = ph]
      BY <2>3 DEF SpawnedMigrate, SendTo
    <3>3. phase'[u] = phase[u]
      BY <3>2 DEF TypeOK
    <3>. QED
      BY <2>1, <3>1, <3>3 DEF Untouched
  <2>. QED
    BY <1>2, <2>2, <2>3
<1>3. CASE ReadyDelay(t) \/ ReadyResume(t) \/ Delivered(t)
  BY <1>3 DEF ReadyDelay, ReadyResume, Delivered, JumpIn, Untouched, TypeOK
<1>4. CASE SendNext(t)
  BY <1>4 DEF SendNext, SendTo, Untouched, TypeOK
<1>5. CASE (\E c \in Coroutine : KillNext(t, c)) \/ KillDone(t) \/ Exit(t)
  BY <1>5 DEF KillNext, KillDone, Exit, JumpIn, Untouched, TypeOK
<1>6. CASE Unwind(t)
  BY <1>6 DEF Unwind, JumpIn, Untouched, TypeOK
<1>7. CASE TickResume(t) \/ TickDone(t) \/ Tick(t)
  BY <1>7 DEF TickResume, TickDone, Tick, JumpIn, Untouched, TypeOK
<1>8. CASE \E c \in Coroutine : Event(t, c)
  BY <1>8 DEF Event, JumpIn, Untouched, TypeOK
<1>9. CASE OnChannelMsg(t) \/ OnMigration(t)
  <2>1. UNCHANGED <<delayed, tickLeft, shutting, todo, schedI>>
    BY <1>9 DEF OnChannelMsg, OnMigration
  <2>2. \/ UNCHANGED <<phase, cur>>
        \/ \E c, ph : cur' = [cur EXCEPT ![t] = c] /\ phase' = [phase EXCEPT ![t] = ph]
    BY <1>9 DEF OnChannelMsg, OnMigration, JumpIn
  <2>. QED
    BY <2>1, <2>2 DEF Untouched, TypeOK
<1>10. CASE OnShutdown(t) \/ OnTerminate(t) \/ OnPropagatePanic(t)
  BY <1>10 DEF OnShutdown, OnTerminate, OnPropagatePanic, Untouched, TypeOK
<1>. QED
  BY <1>1, <1>2, <1>3, <1>4, <1>5, <1>6, <1>7, <1>8, <1>9, <1>10, RunLocal
     DEF Acting, Step, Deliver, Notify

\* Somebody acts or nothing happens.
LEMMA NextActing ==
  ASSUME Next
  PROVE  (\E t \in Thread : Acting(t)) \/ UNCHANGED vars
BY DEF Next, Acting, Done

-----------------------------------------------------------------------------
(* Starting, ticks, thread ids and exits *)

\* A thread that has not started can do nothing else.
LEMMA NewcomerActs ==
  ASSUME Starting, NEW t \in Thread, phase[t] \in {"new", "waiting"}, Acting(t)
  PROVE  SpawnThread(t) \/ (t = 0 /\ StartMain) \/ StartOther(t)
<1>1. cur[t] = None /\ todo[t] = <<>>
  BY DEF Starting
<1>2. ~Run(t)
  BY <1>1, RunFacts, CoroutineAssumption
<1>3. ~Deliver(t) /\ ~SendNext(t) /\ ~(\E c \in Coroutine : KillNext(t, c)) /\ ~KillDone(t)
  BY <1>1 DEF Deliver, SpawnedResume, SpawnedMigrate, ReadyDelay, ReadyResume, Delivered,
     SpawnedTurn, ReadyTurn, SendNext, KillNext, KillDone, At
<1>4. ~Exit(t) /\ ~Unwind(t) /\ ~TickResume(t) /\ ~TickDone(t) /\ ~Tick(t)
  BY DEF Exit, Unwind, TickResume, TickDone, Tick, At
<1>5. ~Notify(t) /\ ~(\E c \in Coroutine : Event(t, c))
  BY DEF Notify, OnChannelMsg, OnMigration, OnShutdown, OnTerminate, OnPropagatePanic, Receives,
     Event, At
<1>. QED
  BY <1>2, <1>3, <1>4, <1>5 DEF Acting, Step

\* The first coroutine is there before anything else happens.
LEMMA StartingStep ==
  ASSUME TypeOK, RefersToBorn, Starting, Counted, Next
  PROVE  Starting'
<1>. DEFINE B == {c \in Coroutine : state'[c] # "unborn"}
<1>1. Birth \/ End \/ NoChange
  BY NextChanges
<1>2. PhaseStep
  BY NextPhase
<1>3. 0 \in Thread /\ Main \in Coroutine
  BY BoundAssumption, CoroutineAssumption DEF Thread
<1>4. phase'[0] # "new"
  BY <1>2, <1>3, PhaseFacts DEF Starting
<1>5. phase'[0] = "waiting" => B = {}
  <2>. SUFFICES ASSUME phase'[0] = "waiting" PROVE B = {}
    OBVIOUS
  <2>1. phase[0] = "waiting"
    BY <1>2, <1>3, PhaseFacts DEF Starting
  <2>2. Born = {} /\ ~StartMain
    BY <2>1, <1>3 DEF Starting, StartMain, TypeOK
  <2>3. \A c \in Coroutine : state[c] = "unborn" /\ ~Live(c)
    BY <2>2 DEF Born, Live
  <2>4. NoChange
    BY <1>1, <2>2, <2>3 DEF Birth, End
  <2>. QED
    BY <2>3, <2>4 DEF NoChange
<1>6. phase'[0] # "waiting" => Main \in B
  <2>. SUFFICES ASSUME phase'[0] # "waiting" PROVE Main \in B
    OBVIOUS
  <2>1. CASE phase[0] # "waiting"
    BY <1>1, <1>3, <2>1, BornStays DEF Starting, Born
  <2>2. CASE phase[0] = "waiting"
    <3>1. PICK t \in Thread : Acting(t)
      BY <2>2, NextActing DEF vars, threadVars
    <3>2. t = 0
      BY <2>2, <3>1, <1>3, ActingLocal DEF Untouched
    <3>3. StartMain
      BY <2>2, <3>1, <3>2, NewcomerActs DEF SpawnThread, StartOther
    <3>. QED
      BY <3>3, <1>3 DEF StartMain, TypeOK
  <2>. QED
    BY <2>1, <2>2
<1>7. ASSUME NEW u \in Thread, phase'[u] \in {"new", "waiting"}
      PROVE  cur'[u] = None /\ todo'[u] = <<>>
  <2>1. phase[u] \in {"new", "waiting"}
    BY <1>2, <1>7, PhaseFacts
  <2>2. cur[u] = None /\ todo[u] = <<>>
    BY <2>1 DEF Starting
  <2>3. CASE UNCHANGED vars
    BY <2>2, <2>3 DEF vars, threadVars
  <2>4. ASSUME NEW t \in Thread, Acting(t) PROVE cur'[u] = cur[u] /\ todo'[u] = todo[u]
    <3>1. CASE u # t
      BY <2>4, <3>1, ActingLocal DEF Untouched
    <3>2. CASE u = t
      BY <2>1, <2>4, <3>2, NewcomerActs DEF SpawnThread, StartMain, StartOther
    <3>. QED
      BY <3>1, <3>2
  <2>. QED
    BY <2>2, <2>3, <2>4, NextActing
<1>. QED
  BY <1>4, <1>5, <1>6, <1>7 DEF Starting, Born

\* tick() pops one delayed control for each resume that is left.
LEMMA TickBoundStep ==
  ASSUME TypeOK, Starting, TickBound, Next
  PROVE  TickBound'
<1>. SUFFICES ASSUME NEW u \in Thread, phase'[u] = "tick" PROVE tickLeft'[u] <= Len(delayed'[u])
  BY DEF TickBound
<1>1. CASE phase[u] = "tick" /\ UNCHANGED <<tickLeft[u], delayed[u]>>
  BY <1>1 DEF TickBound
<1>2. CASE UNCHANGED vars
  BY <1>1, <1>2 DEF vars, threadVars
<1>3. ASSUME NEW t \in Thread, t # u, Acting(t) PROVE tickLeft'[u] <= Len(delayed'[u])
  BY <1>1, <1>3, ActingLocal DEF Untouched
<1>4. CASE Tick(u)
  <2>1. tickLeft'[u] = Len(delayed[u]) /\ delayed' = delayed
    BY <1>4 DEF Tick, TypeOK
  <2>2. Len(delayed[u]) \in Nat
    BY LenProperties DEF TypeOK
  <2>. QED
    BY <2>1, <2>2
<1>5. CASE TickResume(u)
  <2>1. /\ tickLeft[u] > 0 /\ tickLeft'[u] = tickLeft[u] - 1 /\ delayed'[u] = Tail(delayed[u])
        /\ tickLeft[u] \in Nat /\ delayed[u] \in Seq(Coroutine) /\ tickLeft[u] <= Len(delayed[u])
    BY <1>5 DEF TickResume, TickBound, TypeOK, At
  <2>2. delayed[u] # <<>>
    BY <2>1
  <2>3. Len(Tail(delayed[u])) = Len(delayed[u]) - 1 /\ Len(delayed[u]) \in Nat
    BY <2>1, <2>2, HeadTailProperties, LenProperties
  <2>. QED
    BY <2>1, <2>3
<1>6. CASE Run(u)
  <2>1. PICK c \in Coroutine :
          \/ \E d \in Coroutine : Spawn(u, c, d) \/ Join(u, c, d)
          \/ Yield(u, c)
          \/ Block(u, c)
          \/ JoinReturn(u, c)
          \/ CallShutdown(u, c)
          \/ \E ok \in BOOLEAN : Finish(u, c, ok)
          \/ ExitSend(u, c)
    BY <1>6 DEF Run
  <2>2. UNCHANGED <<delayed, tickLeft>>
    BY <2>1 DEF Spawn, Join, Yield, Block, JoinReturn, CallShutdown, Finish, ExitSend, threadVars
  <2>3. phase[u] = "tick"
    BY <2>1 DEF Spawn, Join, Yield, Block, JoinReturn, CallShutdown, Finish, ExitSend, threadVars,
                NotifyJoiner, SendTo, TypeOK
  <2>. QED
    BY <2>2, <2>3, <1>1
<1>7. CASE SendNext(u)
  BY <1>1, <1>7 DEF SendNext, SendTo, TypeOK
<1>8. ~SpawnThread(u) /\ ~(u = 0 /\ StartMain) /\ ~StartOther(u) /\ ~Deliver(u)
  <2>1. ~SpawnThread(u) /\ ~(u = 0 /\ StartMain) /\ ~StartOther(u)
    BY DEF SpawnThread, StartMain, StartOther, TypeOK
  <2>2. ~SpawnedResume(u) /\ ~ReadyDelay(u) /\ ~ReadyResume(u) /\ ~Delivered(u)
    BY DEF SpawnedResume, ReadyDelay, ReadyResume, Delivered, JumpIn, TypeOK
  <2>3. ~SpawnedMigrate(u)
    <3>1. SUFFICES ASSUME SpawnedMigrate(u) PROVE FALSE
      OBVIOUS
    <3>2. \E ph \in {"ready", "aborted", "unwind"} : phase' = [phase EXCEPT ![u] = ph]
      BY <3>1 DEF SpawnedMigrate, SendTo
    <3>. QED
      BY <3>2 DEF TypeOK
  <2>. QED
    BY <2>1, <2>2, <2>3 DEF Deliver
<1>9. ~(\E c \in Coroutine : KillNext(u, c)) /\ ~KillDone(u) /\ ~Exit(u) /\ ~TickDone(u)
  BY DEF KillNext, KillDone, Exit, TickDone, JumpIn, TypeOK
<1>10. ~Unwind(u) /\ ~(\E c \in Coroutine : Event(u, c))
  BY DEF Unwind, Event, JumpIn, TypeOK, At
<1>11. ~Notify(u)
  <2>1. ~OnShutdown(u) /\ ~OnTerminate(u) /\ ~OnPropagatePanic(u)
    BY DEF OnShutdown, OnTerminate, OnPropagatePanic, TypeOK
  <2>2. ~OnMigration(u)
    BY DEF OnMigration, JumpIn, TypeOK
  <2>3. ASSUME OnChannelMsg(u) PROVE FALSE
    <3>1. phase' = phase \/ phase' = [phase EXCEPT ![u] = "spawned"]
      BY <2>3 DEF OnChannelMsg, JumpIn
    <3>2. phase[u] \in {"poll", "last"}
      BY <2>3 DEF OnChannelMsg, Receives, At
    <3>. QED
      BY <3>1, <3>2 DEF TypeOK
  <2>. QED
    BY <2>1, <2>2, <2>3 DEF Notify
<1>. QED
  BY <1>2, <1>3, <1>4, <1>5, <1>6, <1>7, <1>8, <1>9, <1>10, <1>11, NextActing DEF Acting, Step

\* spawn_thread hands out the next id, thread_next_i stays below the last one.
LEMMA IdsCountedStep ==
  ASSUME TypeOK, Starting, IdsCounted, Next
  PROVE  IdsCounted'
<1>. DEFINE A == {t \in Thread : phase[t] = "new"}
            B == {t \in Thread : phase'[t] = "new"}
<1>1. IsFiniteSet(A)
  <2>1. 0 \in Int /\ N - 1 \in Int
    BY BoundAssumption
  <2>2. IsFiniteSet(Thread)
    BY <2>1, FS_Interval DEF Thread
  <2>. QED
    BY <2>2, FS_Subset
<1>2. Cardinality(A) \in Nat
  BY <1>1, FS_CardinalityType
<1>3. /\ schedNum + Cardinality(A) = Starts * N + N /\ schedNum \in Nat
      /\ schedI \in [Thread -> Nat] /\ \A t \in Thread : schedI[t] < schedNum
  BY DEF IdsCounted, TypeOK
<1>4. ASSUME NEW t \in Thread, SpawnThread(t) PROVE IdsCounted'
  <2>1. /\ phase[t] = "new" /\ phase' = [phase EXCEPT ![t] = "waiting"]
        /\ schedNum' = schedNum + 1 /\ schedI' = [schedI EXCEPT ![t] = schedNum]
    BY <1>4 DEF SpawnThread
  <2>2. t \in A /\ B = A \ {t}
    BY <2>1 DEF TypeOK
  <2>3. \A u \in Thread : schedI'[u] < schedNum'
    BY <2>1, <1>3
  <2>. HIDE DEF A, B
  <2>4. Cardinality(B) = Cardinality(A) - 1
    BY <2>2, <1>1, FS_RemoveElement
  <2>5. schedNum' + Cardinality(B) = schedNum + Cardinality(A)
    BY <2>1, <2>4, <1>2, <1>3
  <2>. QED
    BY <2>3, <2>5, <1>3 DEF IdsCounted, B
<1>5. ASSUME ~(\E t \in Thread : SpawnThread(t)) PROVE IdsCounted'
  <2>1. PhaseStep
    BY NextPhase
  <2>2. A = B
    <3>1. B \subseteq A
      BY <2>1, PhaseFacts
    <3>2. ASSUME NEW t \in Thread, phase[t] = "new" PROVE phase'[t] = "new"
      BY <2>1, <3>2, <1>5 DEF PhaseStep, Moves, TypeOK
    <3>. QED
      BY <3>1, <3>2
  <2>3. /\ schedNum' = schedNum
        /\ schedI' = schedI \/ \E t \in Thread : schedI' = [schedI EXCEPT ![t] = ThreadNextI(t)]
    <3>1. CASE UNCHANGED vars
      BY <3>1 DEF vars, threadVars, sharedVars
    <3>2. ASSUME NEW t \in Thread, Run(t) PROVE UNCHANGED <<schedNum, schedI>>
      BY <3>2, RunFacts
    <3>3. ASSUME NEW t \in Thread, Deliver(t)
          PROVE  /\ schedNum' = schedNum
                 /\ schedI' = schedI \/ schedI' = [schedI EXCEPT ![t] = ThreadNextI(t)]
      BY <3>3 DEF Deliver, SpawnedResume, SpawnedMigrate, ReadyDelay, ReadyResume, Delivered,
                  sharedVars
    <3>4. ASSUME NEW t \in Thread, Notify(t) \/ \E c \in Coroutine : Event(t, c)
          PROVE  UNCHANGED <<schedNum, schedI>>
      BY <3>4 DEF Notify, OnChannelMsg, OnMigration, OnShutdown, OnTerminate, OnPropagatePanic,
                  Event, sharedVars
    <3>5. ASSUME NEW t \in Thread,
                 \/ (t = 0 /\ StartMain) \/ StartOther(t) \/ SendNext(t)
                 \/ (\E c \in Coroutine : KillNext(t, c)) \/ KillDone(t) \/ Exit(t) \/ Unwind(t)
                 \/ TickResume(t) \/ TickDone(t) \/ Tick(t)
          PROVE  UNCHANGED <<schedNum, schedI>>
      BY <3>5 DEF StartMain, StartOther, SendNext, KillNext, KillDone, Exit, Unwind, TickResume,
                  TickDone, Tick, sharedVars
    <3>. QED
      BY <1>5, <3>1, <3>2, <3>3, <3>4, <3>5, NextActing DEF Acting, Step
  <2>4. \A t \in Thread : ThreadNextI(t) < schedNum
    BY <1>3 DEF ThreadNextI
  <2>5. \A u \in Thread : schedI'[u] < schedNum'
    BY <2>3, <2>4, <1>3
  <2>. HIDE DEF A, B
  <2>6. schedNum' + Cardinality(B) = Starts * N + N
    BY <2>2, <2>3, <1>3
  <2>. QED
    BY <2>5, <2>6 DEF IdsCounted, B
<1>. QED
  BY <1>4, <1>5

\* Only the last jump out of a coroutine that has ended drops its exit_sender.
LEMMA ExitedEndedStep ==
  ASSUME TypeOK, RefersToBorn, Starting, ExitedEnded, Next
  PROVE  ExitedEnded'
<1>1. \A c \in Coroutine : state[c] = "Finished" => state'[c] = "Finished"
  BY NextChanges, BornStays
<1>2. \/ exited' = exited
      \/ \E c \in Coroutine : state[c] = "Finished" /\ exited' = exited \cup {c}
  <2>1. CASE UNCHANGED vars
    BY <2>1 DEF vars, coVars
  <2>2. ASSUME NEW t \in Thread, Run(t)
        PROVE  \/ exited' = exited
               \/ \E c \in Coroutine : state[c] = "Finished" /\ exited' = exited \cup {c}
    BY <2>2, RunFacts
  <2>3. ASSUME NEW t \in Thread, Deliver(t) PROVE exited' = exited
    BY <2>3 DEF Deliver, SpawnedResume, SpawnedMigrate, ReadyDelay, ReadyResume, Delivered, coVars
  <2>4. ASSUME NEW t \in Thread, Notify(t) \/ \E c \in Coroutine : Event(t, c)
        PROVE  exited' = exited
    BY <2>4 DEF Notify, OnChannelMsg, OnMigration, OnShutdown, OnTerminate, OnPropagatePanic,
                Event, coVars
  <2>5. ASSUME NEW t \in Thread,
               \/ SpawnThread(t) \/ (t = 0 /\ StartMain) \/ StartOther(t) \/ SendNext(t)
               \/ (\E c \in Coroutine : KillNext(t, c)) \/ KillDone(t) \/ Exit(t) \/ Unwind(t)
               \/ TickResume(t) \/ TickDone(t) \/ Tick(t)
        PROVE  exited' = exited
    BY <2>5 DEF SpawnThread, StartMain, StartOther, SendNext, KillNext, KillDone, Exit, Unwind,
                TickResume, TickDone, Tick, coVars
  <2>. QED
    BY <2>1, <2>2, <2>3, <2>4, <2>5, NextActing DEF Acting, Step
<1>. QED
  BY <1>1, <1>2 DEF ExitedEnded, TypeOK

-----------------------------------------------------------------------------
(* Messages that end an event loop *)

\* Somebody has or is about to send message m.
InInbox(m) == \E t \in Thread : \E i \in DOMAIN inbox[t] : inbox[t][i] = m
InTodo(m) == \E t \in Thread : \E i \in DOMAIN todo[t] : todo[t][i].msg = m

\* What is in a queue after an append, after a pop, and in two queues together.
LEMMA QueueElements ==
  ASSUME NEW S, NEW q \in Seq(S)
  PROVE  /\ \A x \in S : \A i \in DOMAIN Append(q, x) :
              Append(q, x)[i] = x \/ \E j \in DOMAIN q : Append(q, x)[i] = q[j]
         /\ q # <<>> => /\ \A i \in DOMAIN Tail(q) : \E j \in DOMAIN q : Tail(q)[i] = q[j]
                        /\ \E j \in DOMAIN q : Head(q) = q[j]
<1>1. Len(q) \in Nat /\ DOMAIN q = 1 .. Len(q)
  BY LenProperties
<1>2. ASSUME NEW x \in S, NEW i \in DOMAIN Append(q, x)
      PROVE  Append(q, x)[i] = x \/ \E j \in DOMAIN q : Append(q, x)[i] = q[j]
  <2>1. /\ Append(q, x) \in Seq(S) /\ Len(Append(q, x)) = Len(q) + 1
        /\ \A k \in 1 .. Len(q) : Append(q, x)[k] = q[k]
        /\ Append(q, x)[Len(q) + 1] = x
    BY AppendProperties
  <2>2. i \in 1 .. Len(q) + 1
    BY <2>1, <1>2, LenProperties
  <2>. QED
    BY <1>1, <2>1, <2>2
<1>3. ASSUME q # <<>>, NEW i \in DOMAIN Tail(q) PROVE \E j \in DOMAIN q : Tail(q)[i] = q[j]
  <2>1. /\ Tail(q) \in Seq(S) /\ Len(Tail(q)) = Len(q) - 1
        /\ \A k \in 1 .. Len(Tail(q)) : Tail(q)[k] = q[k + 1]
    BY <1>3, HeadTailProperties
  <2>2. i \in 1 .. Len(q) - 1
    BY <2>1, <1>3, LenProperties
  <2>3. i + 1 \in DOMAIN q /\ Tail(q)[i] = q[i + 1]
    BY <1>1, <2>1, <2>2
  <2>. QED
    BY <2>3
<1>4. ASSUME q # <<>> PROVE \E j \in DOMAIN q : Head(q) = q[j]
  <2>1. Len(q) # 0
    BY <1>4, EmptySeq
  <2>2. 1 \in DOMAIN q /\ Head(q) = q[1]
    BY <1>1, <2>1
  <2>. QED
    BY <2>2
<1>. QED
  BY <1>2, <1>3, <1>4

\* The message of a send is in the receiver's inbox afterwards, nothing else is new.
LEMMA SendToInbox ==
  ASSUME inbox \in [Thread -> Seq(Message)], NEW t, NEW u \in Thread, NEW x \in Message, NEW ph,
         SendTo(t, u, x, ph), NEW m, InInbox(m)'
  PROVE  InInbox(m) \/ m = x
<1>1. CASE inbox' = inbox
  BY <1>1 DEF InInbox
<1>2. CASE inbox' = [inbox EXCEPT ![u] = Append(@, x)]
  <2>1. PICK v \in Thread : \E i \in DOMAIN (inbox'[v]) : inbox'[v][i] = m
    BY DEF InInbox
  <2>2. CASE v # u
    <3>1. inbox'[v] = inbox[v]
      BY <1>2, <2>2
    <3>. QED
      BY <2>1, <3>1 DEF InInbox
  <2>3. CASE v = u
    <3>1. inbox'[u] = Append(inbox[u], x) /\ inbox[u] \in Seq(Message)
      BY <1>2
    <3>2. PICK i \in DOMAIN Append(inbox[u], x) : Append(inbox[u], x)[i] = m
      BY <2>1, <2>3, <3>1
    <3>3. m = x \/ \E j \in DOMAIN inbox[u] : m = inbox[u][j]
      BY <3>1, <3>2, QueueElements
    <3>. QED
      BY <3>3, <1>2 DEF InInbox
  <2>. QED
    BY <2>2, <2>3
<1>. QED
  BY <1>1, <1>2 DEF SendTo

\* Handler::notify takes a message that was there, and no other is new.
LEMMA ReceivesInbox ==
  ASSUME inbox \in [Thread -> Seq(Message)], NEW t \in Thread, NEW type, Receives(t, type)
  PROVE  /\ \A m : InInbox(m)' => InInbox(m)
         /\ InInbox(Head(inbox[t]))
<1>1. inbox[t] # <<>> /\ inbox' = [inbox EXCEPT ![t] = Tail(@)] /\ inbox[t] \in Seq(Message)
  BY DEF Receives
<1>2. InInbox(Head(inbox[t]))
  <2>1. \E j \in DOMAIN inbox[t] : Head(inbox[t]) = inbox[t][j]
    BY <1>1, QueueElements
  <2>. QED
    BY <2>1 DEF InInbox
<1>3. ASSUME NEW m, InInbox(m)' PROVE InInbox(m)
  <2>1. PICK v \in Thread : \E i \in DOMAIN (inbox'[v]) : inbox'[v][i] = m
    BY <1>3 DEF InInbox
  <2>2. CASE v # t
    <3>1. inbox'[v] = inbox[v]
      BY <1>1, <2>2
    <3>. QED
      BY <2>1, <3>1 DEF InInbox
  <2>3. CASE v = t
    <3>1. inbox'[t] = Tail(inbox[t])
      BY <1>1
    <3>2. PICK i \in DOMAIN Tail(inbox[t]) : Tail(inbox[t])[i] = m
      BY <2>1, <2>3, <3>1
    <3>3. \E j \in DOMAIN inbox[t] : m = inbox[t][j]
      BY <1>1, <3>2, QueueElements
    <3>. QED
      BY <3>3 DEF InInbox
  <2>. QED
    BY <2>2, <2>3
<1>. QED
  BY <1>2, <1>3

\* A Terminate or a PropagatePanic in a notify queue has been sent as such.
LEMMA InboxStep ==
  ASSUME TypeOK, Next, NEW m \in {Terminate, PropagatePanic}, InInbox(m)'
  PROVE  InInbox(m) \/ InTodo(m)
<1>1. inbox \in [Thread -> Seq(Message)] /\ m \in Message
  BY DEF TypeOK, Message
<1>2. m.type \notin {"Migration", "ChannelMsg"}
  BY DEF Terminate, PropagatePanic
<1>3. CASE inbox' = inbox
  BY <1>3 DEF InInbox
<1>4. ASSUME NEW t \in Thread, SpawnedMigrate(t) PROVE InInbox(m)
  <2>1. /\ spawned[t] # <<>>
        /\ inbox' = inbox \/ (/\ schedI[t] \in Thread
                             /\ SendTo(t, schedI[t], Migration(Head(spawned[t])), "ready"))
    BY <1>4 DEF SpawnedMigrate, SpawnedTurn
  <2>2. Migration(Head(spawned[t])) \in Message /\ Migration(Head(spawned[t])).type = "Migration"
    BY <2>1, Popped DEF TypeOK, Migration, Message
  <2>3. CASE inbox' = inbox
    BY <2>3 DEF InInbox
  <2>. QED
    BY <2>1, <2>2, <2>3, <1>1, <1>2, SendToInbox
<1>5. ASSUME NEW t \in Thread, NEW c \in Coroutine, ExitSend(t, c) PROVE InInbox(m)
  <2>1. CASE token[c] = None
    BY <1>5, <2>1, <1>3 DEF ExitSend, NotifyJoiner, InInbox
  <2>2. CASE token[c] # None
    <3>1. SendTo(t, token[c].thread, ChannelMsg(token[c].co), phase[t])
      BY <1>5, <2>2 DEF ExitSend, NotifyJoiner
    <3>2. /\ ChannelMsg(token[c].co) \in Message /\ ChannelMsg(token[c].co).type = "ChannelMsg"
          /\ token[c].thread \in Thread
      BY <2>2 DEF TypeOK, ChannelMsg, Message
    <3>. QED
      BY <3>1, <3>2, <1>1, <1>2, SendToInbox
  <2>. QED
    BY <2>1, <2>2
<1>6. ASSUME NEW t \in Thread, SendNext(t) PROVE InInbox(m) \/ InTodo(m)
  <2>. DEFINE R == [to : Thread, msg : Message]
  <2>1. todo[t] # <<>> /\ SendTo(t, Head(todo[t]).to, Head(todo[t]).msg, phase[t])
    BY <1>6 DEF SendNext
  <2>2. todo[t] \in Seq(R)
    BY DEF TypeOK
  <2>. HIDE DEF R
  <2>3. Head(todo[t]) \in R /\ \E j \in DOMAIN todo[t] : Head(todo[t]) = todo[t][j]
    BY <2>1, <2>2, Popped, QueueElements
  <2>4. Head(todo[t]).msg \in Message /\ Head(todo[t]).to \in Thread
    BY <2>3 DEF R
  <2>5. InInbox(m) \/ m = Head(todo[t]).msg
    BY <2>1, <2>4, <1>1, SendToInbox
  <2>. QED
    BY <2>3, <2>5 DEF InTodo
<1>7. ASSUME NEW t \in Thread, Notify(t) PROVE InInbox(m)
  <2>1. \E type : Receives(t, type)
    BY <1>7 DEF Notify, OnChannelMsg, OnMigration, OnShutdown, OnTerminate, OnPropagatePanic
  <2>. QED
    BY <2>1, <1>1, ReceivesInbox
<1>8. ASSUME NEW t \in Thread, NEW c \in Coroutine,
             \/ \E d \in Coroutine : Spawn(t, c, d) \/ Join(t, c, d)
             \/ Yield(t, c) \/ Block(t, c) \/ JoinReturn(t, c) \/ CallShutdown(t, c)
             \/ \E ok \in BOOLEAN : Finish(t, c, ok)
             \/ KillNext(t, c) \/ Event(t, c)
      PROVE  inbox' = inbox
  BY <1>8 DEF Spawn, Join, Yield, Block, JoinReturn, CallShutdown, Finish, KillNext, Event,
              sharedVars
<1>9. ASSUME NEW t \in Thread,
             \/ SpawnThread(t) \/ (t = 0 /\ StartMain) \/ StartOther(t) \/ SpawnedResume(t)
             \/ ReadyDelay(t) \/ ReadyResume(t) \/ Delivered(t) \/ KillDone(t) \/ Exit(t)
             \/ Unwind(t) \/ TickResume(t) \/ TickDone(t) \/ Tick(t)
      PROVE  inbox' = inbox
  BY <1>9 DEF SpawnThread, StartMain, StartOther, SpawnedResume, ReadyDelay, ReadyResume,
              Delivered, KillDone, Exit, Unwind, TickResume, TickDone, Tick, sharedVars
<1>10. CASE UNCHANGED vars
  BY <1>10, <1>3 DEF vars, sharedVars
<1>11. ASSUME NEW t \in Thread, Run(t) PROVE InInbox(m)
  BY <1>3, <1>5, <1>8, <1>11 DEF Run, InInbox
<1>. QED
  BY <1>3, <1>4, <1>6, <1>7, <1>8, <1>9, <1>10, <1>11, NextActing DEF Acting, Step, Deliver

\* The elements of two queues in a row.
LEMMA ConcatElements ==
  ASSUME NEW S, NEW p \in Seq(S), NEW q \in Seq(S), NEW i \in DOMAIN (p \o q)
  PROVE  (\E j \in DOMAIN p : (p \o q)[i] = p[j]) \/ (\E j \in DOMAIN q : (p \o q)[i] = q[j])
<1>1. /\ Len(p) \in Nat /\ DOMAIN p = 1 .. Len(p)
      /\ Len(q) \in Nat /\ DOMAIN q = 1 .. Len(q)
  BY LenProperties
<1>2. /\ p \o q \in Seq(S) /\ Len(p \o q) = Len(p) + Len(q)
      /\ \A k \in 1 .. Len(p) + Len(q) :
           (p \o q)[k] = IF k <= Len(p) THEN p[k] ELSE q[k - Len(p)]
  BY ConcatProperties
<1>3. i \in 1 .. Len(p) + Len(q)
  BY <1>2, LenProperties
<1>4. CASE i <= Len(p)
  <2>1. i \in DOMAIN p /\ (p \o q)[i] = p[i]
    BY <1>1, <1>2, <1>3, <1>4
  <2>. QED
    BY <2>1
<1>5. CASE ~(i <= Len(p))
  <2>1. i - Len(p) \in DOMAIN q /\ (p \o q)[i] = q[i - Len(p)]
    BY <1>1, <1>2, <1>3, <1>5
  <2>. QED
    BY <2>1
<1>. QED
  BY <1>4, <1>5

\* What one coroutine's end leaves to be sent.
LEMMA FinishTodo ==
  ASSUME TypeOK, NEW t \in Thread, NEW c \in Coroutine, NEW ok \in BOOLEAN, Finish(t, c, ok),
         NEW i \in DOMAIN (todo'[t])
  PROVE  \/ todo'[t][i].msg = Terminate /\ LastOne
         \/ todo'[t][i].msg = PropagatePanic /\ ~CatchPanics
<1>. DEFINE R == [to : Thread, msg : Message]
            end == IF LastOne THEN Broadcast(Terminate) ELSE <<>>
            panic == IF ok \/ CatchPanics THEN <<>> ELSE <<[to |-> t, msg |-> PropagatePanic]>>
<1>1. todo'[t] = end \o panic
  BY DEF Finish, TypeOK
<1>2. Broadcast(Terminate) \in Seq(R)
  <2>1. Terminate \in MessageOf(Coroutine) /\ MessageOf(Coroutine) = Message
    BY DEF MessageOf, Message
  <2>. QED
    BY <2>1, BroadcastFacts
<1>3. [to |-> t, msg |-> PropagatePanic] \in R
  BY DEF Message
<1>4. \A j \in DOMAIN Broadcast(Terminate) : Broadcast(Terminate)[j].msg = Terminate
  BY DEF Broadcast
<1>5. \A j \in DOMAIN end : end[j].msg = Terminate /\ LastOne
  BY <1>4
<1>6. \A j \in DOMAIN panic : panic[j].msg = PropagatePanic /\ ~CatchPanics
  OBVIOUS
<1>. HIDE DEF R
<1>7. end \in Seq(R) /\ panic \in Seq(R)
  BY <1>2, <1>3, ShortSeqs
<1>. HIDE DEF end, panic
<1>8. i \in DOMAIN (end \o panic) /\ todo'[t][i] = (end \o panic)[i]
  BY <1>1
<1>9. (\E j \in DOMAIN end : todo'[t][i] = end[j]) \/ (\E j \in DOMAIN panic : todo'[t][i] = panic[j])
  BY <1>7, <1>8, ConcatElements
<1>. QED
  BY <1>5, <1>6, <1>9

\* Besides a Shutdown, only the end of a coroutine makes a thread send something.
LEMMA TodoStep ==
  ASSUME TypeOK, Next, NEW m, m # Shutdown, InTodo(m)'
  PROVE  \/ InTodo(m)
         \/ /\ \E t \in Thread, c \in Coroutine : \E ok \in BOOLEAN : Finish(t, c, ok)
            /\ (m = Terminate /\ LastOne) \/ (m = PropagatePanic /\ ~CatchPanics)
<1>1. PICK u \in Thread : \E i \in DOMAIN (todo'[u]) : todo'[u][i].msg = m
  BY DEF InTodo
<1>2. CASE todo' = todo
  BY <1>1, <1>2 DEF InTodo
<1>3. CASE UNCHANGED vars
  BY <1>2, <1>3 DEF vars, threadVars
<1>4. ASSUME NEW t \in Thread, t # u, Acting(t) PROVE InTodo(m)
  <2>1. todo'[u] = todo[u]
    BY <1>4, ActingLocal DEF Untouched
  <2>. QED
    BY <1>1, <2>1 DEF InTodo
<1>5. CASE SendNext(u)
  <2>. DEFINE R == [to : Thread, msg : Message]
  <2>1. todo[u] # <<>> /\ todo'[u] = Tail(todo[u]) /\ todo[u] \in Seq(R)
    BY <1>5 DEF SendNext, TypeOK
  <2>. HIDE DEF R
  <2>2. PICK i \in DOMAIN Tail(todo[u]) : Tail(todo[u])[i].msg = m
    BY <1>1, <2>1
  <2>3. \E j \in DOMAIN todo[u] : Tail(todo[u])[i] = todo[u][j]
    BY <2>1, <2>2, QueueElements
  <2>. QED
    BY <2>2, <2>3 DEF InTodo
<1>6. ASSUME NEW c \in Coroutine, CallShutdown(u, c) PROVE FALSE
  <2>1. todo'[u] = Broadcast(Shutdown)
    BY <1>6 DEF CallShutdown, TypeOK
  <2>2. \A i \in DOMAIN Broadcast(Shutdown) : Broadcast(Shutdown)[i].msg = Shutdown
    BY DEF Broadcast
  <2>. QED
    BY <1>1, <2>1, <2>2
<1>7. ASSUME NEW c \in Coroutine, NEW ok \in BOOLEAN, Finish(u, c, ok)
      PROVE  (m = Terminate /\ LastOne) \/ (m = PropagatePanic /\ ~CatchPanics)
  BY <1>1, <1>7, FinishTodo
<1>8. ASSUME NEW c \in Coroutine,
             \/ \E d \in Coroutine : Spawn(u, c, d) \/ Join(u, c, d)
             \/ Yield(u, c) \/ Block(u, c) \/ JoinReturn(u, c) \/ ExitSend(u, c)
             \/ KillNext(u, c) \/ Event(u, c)
      PROVE  todo' = todo
  BY <1>8 DEF Spawn, Join, Yield, Block, JoinReturn, ExitSend, KillNext, Event, threadVars
<1>9. ASSUME \/ SpawnThread(u) \/ (u = 0 /\ StartMain) \/ StartOther(u) \/ Deliver(u)
             \/ KillDone(u) \/ Exit(u) \/ Unwind(u) \/ TickResume(u) \/ TickDone(u) \/ Tick(u)
      PROVE  todo' = todo
  BY <1>9 DEF SpawnThread, StartMain, StartOther, Deliver, SpawnedResume, SpawnedMigrate,
              ReadyDelay, ReadyResume, Delivered, KillDone, Exit, Unwind, TickResume, TickDone, Tick
<1>10. ASSUME Notify(u) PROVE todo' = todo
  BY <1>10 DEF Notify, OnChannelMsg, OnMigration, OnShutdown, OnTerminate, OnPropagatePanic
<1>11. CASE Run(u)
  BY <1>2, <1>6, <1>7, <1>8, <1>11 DEF Run
<1>. QED
  BY <1>2, <1>3, <1>4, <1>5, <1>8, <1>9, <1>10, <1>11, NextActing DEF Acting, Step

\* The message of EventLoop::shutdown.
LEMMA TerminateFirst ==
  ASSUME TypeOK, NEW u \in Thread, OnTerminate(u)
  PROVE  /\ inbox[u] # <<>> /\ Head(inbox[u]) = Terminate /\ inbox'[u] = Tail(inbox[u])
         /\ InInbox(Terminate)
<1>1. Receives(u, "Terminate") /\ inbox \in [Thread -> Seq(MessageOf(Coroutine))]
  BY TypeParts DEF OnTerminate, RefersTo
<1>2. Head(inbox[u]) \in MessageOf(Coroutine) /\ Head(inbox[u]).type = "Terminate"
  BY <1>1, ReceivesFacts
<1>3. Head(inbox[u]) = Terminate
  BY <1>2 DEF MessageOf, Shutdown, Terminate, PropagatePanic
<1>4. inbox[u] # <<>> /\ inbox'[u] = Tail(inbox[u])
  BY <1>1 DEF Receives
<1>. QED
  BY <1>1, <1>3, <1>4, ReceivesInbox DEF TypeOK

\* An event loop ends after a Terminate only.
LEMMA LastPhase ==
  ASSUME TypeOK, Next, NEW u \in Thread, phase'[u] \in {"last", "exited"}
  PROVE  phase[u] \in {"last", "exited"} \/ OnTerminate(u)
<1>1. CASE phase'[u] = phase[u]
  BY <1>1
<1>2. CASE UNCHANGED vars
  BY <1>2 DEF vars, threadVars
<1>3. ASSUME NEW t \in Thread, t # u, Acting(t) PROVE phase'[u] = phase[u]
  BY <1>3, ActingLocal DEF Untouched
<1>5. CASE Exit(u)
  BY <1>5 DEF Exit, At
<1>6. CASE Run(u)
  <2>1. PICK c \in Coroutine :
          \/ \E d \in Coroutine : Spawn(u, c, d) \/ Join(u, c, d)
          \/ Yield(u, c)
          \/ Block(u, c)
          \/ JoinReturn(u, c)
          \/ CallShutdown(u, c)
          \/ \E ok \in BOOLEAN : Finish(u, c, ok)
          \/ ExitSend(u, c)
    BY <1>6 DEF Run
  <2>. QED
    BY <2>1 DEF Spawn, Join, Yield, Block, JoinReturn, CallShutdown, Finish, ExitSend, threadVars,
                NotifyJoiner, SendTo, TypeOK
<1>7. CASE SendNext(u)
  BY <1>7 DEF SendNext, SendTo, TypeOK
<1>8. ~SpawnThread(u) /\ ~(u = 0 /\ StartMain) /\ ~StartOther(u)
  BY DEF SpawnThread, StartMain, StartOther, TypeOK
<1>9. ~SpawnedResume(u) /\ ~ReadyDelay(u) /\ ~ReadyResume(u) /\ ~Delivered(u)
  BY DEF SpawnedResume, ReadyDelay, ReadyResume, Delivered, JumpIn, TypeOK
<1>10. ~SpawnedMigrate(u)
  <2>1. SpawnedMigrate(u) => \/ phase' = [phase EXCEPT ![u] = "ready"]
                             \/ phase' = [phase EXCEPT ![u] = "unwind"]
                             \/ phase' = [phase EXCEPT ![u] = "aborted"]
    BY DEF SpawnedMigrate, SendTo
  <2>. QED
    BY <2>1 DEF TypeOK
<1>11. ~(\E c \in Coroutine : KillNext(u, c)) /\ ~KillDone(u) /\ ~TickResume(u) /\ ~TickDone(u)
       /\ ~Tick(u)
  BY DEF KillNext, KillDone, TickResume, TickDone, Tick, JumpIn, TypeOK
<1>12. ~Unwind(u) /\ ~(\E c \in Coroutine : Event(u, c))
  BY DEF Unwind, Event, JumpIn, TypeOK, At
<1>13. ~OnMigration(u) /\ ~OnShutdown(u) /\ ~OnPropagatePanic(u)
  BY DEF OnMigration, OnShutdown, OnPropagatePanic, JumpIn, TypeOK
<1>14. CASE OnChannelMsg(u)
  <2>1. phase' = phase \/ phase' = [phase EXCEPT ![u] = "spawned"]
    BY <1>14 DEF OnChannelMsg, JumpIn
  <2>. QED
    BY <2>1 DEF TypeOK
<1>. QED
  BY <1>1, <1>2, <1>3, <1>5, <1>6, <1>7, <1>8, <1>9, <1>10, <1>11, <1>12, <1>13, <1>14,
     NextActing DEF Acting, Step, Deliver, Notify

\* Once the first coroutine has been spawned and all have ended, nothing begins again.
LEMMA DoneStays ==
  ASSUME TypeOK, RefersToBorn, Starting, Counted, Next, num = 0, phase[0] # "waiting"
  PROVE  NoChange /\ num' = 0 /\ phase'[0] # "waiting"
<1>1. \A c \in Coroutine : ~Live(c)
  BY ZeroMeansNobody
<1>2. NoChange
  BY <1>1, NextChanges DEF Birth, End, StartMain
<1>3. 0 \in Thread
  BY BoundAssumption DEF Thread
<1>4. phase'[0] # "waiting"
  BY <1>3, NextPhase, PhaseFacts DEF Starting
<1>. QED
  BY <1>2, <1>4 DEF NoChange

\* A Terminate is sent by the last coroutine only, and nobody is born after it.
LEMMA TerminatingStep ==
  ASSUME TypeOK, RefersToBorn, Starting, Counted, TerminatingMeansDone, Next
  PROVE  TerminatingMeansDone'
<1>. SUFFICES ASSUME Terminating' PROVE num' = 0 /\ phase'[0] # "waiting"
  BY DEF TerminatingMeansDone
<1>1. CASE Terminating
  BY <1>1, DoneStays DEF TerminatingMeansDone
<1>2. InInbox(Terminate) \/ InTodo(Terminate) => Terminating
  BY DEF InInbox, InTodo, Terminating, Terminated
<1>3. \/ \E u \in Thread : phase'[u] \in {"last", "exited"}
      \/ InInbox(Terminate)'
      \/ InTodo(Terminate)'
  BY DEF Terminating, Terminated, InInbox, InTodo
<1>4. ASSUME NEW u \in Thread, phase'[u] \in {"last", "exited"} PROVE Terminating
  BY <1>2, <1>4, LastPhase, TerminateFirst DEF Terminating, Terminated
<1>5. CASE InInbox(Terminate)'
  BY <1>1, <1>2, <1>5, InboxStep
<1>6. CASE InTodo(Terminate)'
  <2>1. CASE InTodo(Terminate)
    BY <1>1, <1>2, <2>1
  <2>2. ASSUME NEW t \in Thread, NEW c \in Coroutine, NEW ok \in BOOLEAN, Finish(t, c, ok), LastOne
        PROVE  num' = 0 /\ phase'[0] # "waiting"
    <3>1. num' = 0 /\ phase' = phase /\ cur[t] = c
      BY <2>2 DEF Finish, LastOne, ShutdownPanics, Free, Running
    <3>2. c \in Born
      BY <3>1, CoroutineAssumption DEF RefersToBorn, RefersTo
    <3>. QED
      BY <3>1, <3>2 DEF Starting
  <2>3. Terminate # PropagatePanic /\ Terminate # Shutdown
    BY DEF Terminate, PropagatePanic, Shutdown
  <2>. QED
    BY <1>6, <2>1, <2>2, <2>3, TodoStep
<1>. QED
  BY <1>1, <1>3, <1>4, <1>5, <1>6

\* With the ids of one start() only, every id that has been handed out is a thread.
LEMMA IdsAreThreads ==
  ASSUME TypeOK, IdsCounted, Starts = 0, NEW u \in Nat, u < schedNum
  PROVE  u \in Thread
<1>. DEFINE A == {v \in Thread : phase[v] = "new"}
<1>1. N \in Nat \ {0} /\ schedNum \in Nat
  BY BoundAssumption DEF TypeOK
<1>2. 0 \in Int /\ N - 1 \in Int /\ Starts * N + N = N
  BY <1>1
<1>3. IsFiniteSet(A)
  BY <1>2, FS_Interval, FS_Subset DEF Thread
<1>4. Cardinality(A) \in Nat
  BY <1>3, FS_CardinalityType
<1>5. schedNum + Cardinality(A) = N
  BY <1>2 DEF IdsCounted
<1>. HIDE DEF A
<1>6. schedNum <= N
  BY <1>1, <1>4, <1>5
<1>. QED
  BY <1>1, <1>6 DEF Thread

\* A send fails only where an event loop has ended.
LEMMA FailedSend ==
  ASSUME TypeOK, TerminatingMeansDone, NoPanics, CatchPanics, Starts = 0,
         NEW t \in Thread, NEW u \in Thread, NEW x, NEW ph,
         SendTo(t, u, x, ph), phase'[t] = "aborted", ph # "aborted"
  PROVE  num = 0 /\ phase[0] # "waiting"
<1>1. Closed(u)
  BY DEF SendTo, TypeOK
<1>2. CASE phase[u] = "exited"
  BY <1>2 DEF TerminatingMeansDone, Terminating, Terminated
<1>3. CASE phase[u] # "exited"
  BY <1>1, <1>3 DEF NoPanics, Closed
<1>. QED
  BY <1>2, <1>3

\* Without earlier starts and with catch_panics nothing panics while somebody is alive.
LEMMA NoPanicsStep ==
  ASSUME TypeOK, RefersToBorn, Starting, Counted, IdsCounted, TerminatingMeansDone, NoPanics, Next
  PROVE  NoPanics'
<1>. SUFFICES ASSUME CatchPanics, Starts = 0, NEW u \in Thread
              PROVE  /\ phase'[u] \notin {"unwind", "panicked"}
                     /\ phase'[u] = "aborted" => num' = 0 /\ phase'[0] # "waiting"
                     /\ \A i \in DOMAIN (inbox'[u]) : inbox'[u][i] # PropagatePanic
                     /\ \A i \in DOMAIN (todo'[u]) : todo'[u][i].msg # PropagatePanic
  BY DEF NoPanics
<1>1. ~InInbox(PropagatePanic) /\ ~InTodo(PropagatePanic)
  BY DEF NoPanics, InInbox, InTodo
<1>2. ~(InInbox(PropagatePanic)') /\ ~(InTodo(PropagatePanic)')
  <2>1. PropagatePanic # Terminate /\ PropagatePanic # Shutdown
    BY DEF PropagatePanic, Terminate, Shutdown
  <2>. QED
    BY <1>1, <2>1, InboxStep, TodoStep
<1>3. /\ \A i \in DOMAIN (inbox'[u]) : inbox'[u][i] # PropagatePanic
      /\ \A i \in DOMAIN (todo'[u]) : todo'[u][i].msg # PropagatePanic
  BY <1>2 DEF InInbox, InTodo
<1>4. phase[u] \notin {"unwind", "panicked"}
  BY DEF NoPanics
<1>5. ~OnPropagatePanic(u)
  <2>. SUFFICES ASSUME OnPropagatePanic(u) PROVE FALSE
    OBVIOUS
  <2>1. Receives(u, "PropagatePanic") /\ inbox \in [Thread -> Seq(MessageOf(Coroutine))]
    BY TypeParts DEF OnPropagatePanic, RefersTo
  <2>2. Head(inbox[u]) \in MessageOf(Coroutine) /\ Head(inbox[u]).type = "PropagatePanic"
    BY <2>1, ReceivesFacts
  <2>3. Head(inbox[u]) = PropagatePanic
    BY <2>2 DEF MessageOf, Shutdown, Terminate, PropagatePanic
  <2>. QED
    BY <2>1, <2>3, <1>1, ReceivesInbox DEF TypeOK
<1>6. CASE phase'[u] = phase[u]
  BY <1>3, <1>4, <1>6, DoneStays DEF NoPanics
<1>7. CASE UNCHANGED vars
  BY <1>6, <1>7 DEF vars, threadVars
<1>8. ASSUME NEW t \in Thread, t # u, Acting(t) PROVE phase'[u] = phase[u]
  BY <1>8, ActingLocal DEF Untouched
<1>9. ASSUME NEW v \in Thread, NEW x, NEW ph, SendTo(u, v, x, ph),
             ph \notin {"unwind", "panicked", "aborted"}
      PROVE  /\ phase'[u] \notin {"unwind", "panicked"}
             /\ phase'[u] = "aborted" => num' = 0 /\ phase'[0] # "waiting"
  <2>1. phase'[u] \in {ph, "aborted"}
    BY <1>9 DEF SendTo, TypeOK
  <2>2. CASE phase'[u] = "aborted"
    BY <1>9, <2>2, FailedSend, DoneStays
  <2>. QED
    BY <1>9, <2>1, <2>2
<1>10. CASE SendNext(u)
  <2>. DEFINE R == [to : Thread, msg : Message]
  <2>1. todo[u] # <<>> /\ ~Closed(u) /\ SendTo(u, Head(todo[u]).to, Head(todo[u]).msg, phase[u])
    BY <1>10 DEF SendNext
  <2>2. todo[u] \in Seq(R)
    BY DEF TypeOK
  <2>. HIDE DEF R
  <2>3. Head(todo[u]) \in R
    BY <2>1, <2>2, Popped
  <2>4. Head(todo[u]).to \in Thread
    BY <2>3 DEF R
  <2>. QED
    BY <2>1, <2>4, <1>3, <1>4, <1>9 DEF Closed
<1>11. CASE SpawnedMigrate(u)
  <2>1. schedI[u] \in Nat /\ schedI[u] < schedNum
    BY DEF TypeOK, IdsCounted
  <2>a. schedI[u] \in Thread
    BY <2>1, IdsAreThreads
  <2>2. SendTo(u, schedI[u], Migration(Head(spawned[u])), "ready")
    BY <1>11, <2>a DEF SpawnedMigrate
  <2>. QED
    BY <2>a, <2>2, <1>3, <1>9
<1>12. CASE Run(u)
  <2>1. PICK c \in Coroutine :
          \/ \E d \in Coroutine : Spawn(u, c, d) \/ Join(u, c, d)
          \/ Yield(u, c)
          \/ Block(u, c)
          \/ JoinReturn(u, c)
          \/ CallShutdown(u, c)
          \/ \E ok \in BOOLEAN : Finish(u, c, ok)
          \/ ExitSend(u, c)
    BY <1>12 DEF Run
  <2>2. CASE ExitSend(u, c) /\ token[c] # None
    <3>1. ~Closed(u) /\ SendTo(u, token[c].thread, ChannelMsg(token[c].co), phase[u])
      BY <2>2 DEF ExitSend, NotifyJoiner
    <3>2. token[c].thread \in Thread
      BY <2>2 DEF TypeOK
    <3>. QED
      BY <3>1, <3>2, <1>3, <1>4, <1>9 DEF Closed
  <2>3. CASE ~(ExitSend(u, c) /\ token[c] # None)
    <3>1. phase' = phase
      BY <2>1, <2>3 DEF Spawn, Join, Yield, Block, JoinReturn, CallShutdown, Finish, ExitSend,
                        NotifyJoiner, threadVars
    <3>. QED
      BY <3>1, <1>6
  <2>. QED
    BY <2>2, <2>3
<1>13. CASE /\ phase'[u] \notin {"unwind", "panicked", "aborted"}
  BY <1>3, <1>13
<1>14. ASSUME SpawnThread(u) \/ (u = 0 /\ StartMain) \/ StartOther(u)
       PROVE  phase'[u] \notin {"unwind", "panicked", "aborted"}
  BY <1>14 DEF SpawnThread, StartMain, StartOther, TypeOK
<1>15. ASSUME SpawnedResume(u) \/ ReadyDelay(u) \/ ReadyResume(u) \/ Delivered(u)
       PROVE  phase'[u] \notin {"unwind", "panicked", "aborted"}
  BY <1>15 DEF SpawnedResume, ReadyDelay, ReadyResume, Delivered, JumpIn, TypeOK
<1>16. ASSUME \/ \E c \in Coroutine : KillNext(u, c) \/ Event(u, c)
              \/ KillDone(u) \/ Exit(u) \/ TickResume(u) \/ TickDone(u) \/ Tick(u)
       PROVE  phase'[u] \notin {"unwind", "panicked", "aborted"}
  BY <1>16 DEF KillNext, Event, KillDone, Exit, TickResume, TickDone, Tick, JumpIn, TypeOK
<1>17. ~Unwind(u)
  BY <1>4 DEF Unwind, At
<1>18. ASSUME OnMigration(u) \/ OnShutdown(u) \/ OnTerminate(u)
       PROVE  phase'[u] \notin {"unwind", "panicked", "aborted"}
  BY <1>18 DEF OnMigration, OnShutdown, OnTerminate, JumpIn, TypeOK
<1>19. ASSUME OnChannelMsg(u) PROVE phase'[u] \notin {"unwind", "panicked", "aborted"}
  <2>1. phase' = phase \/ phase' = [phase EXCEPT ![u] = "spawned"]
    BY <1>19 DEF OnChannelMsg, JumpIn
  <2>2. phase[u] \in {"poll", "last"}
    BY <1>19 DEF OnChannelMsg, Receives, At
  <2>. QED
    BY <2>1, <2>2 DEF TypeOK
<1>20. ASSUME \/ SpawnThread(u) \/ (u = 0 /\ StartMain) \/ StartOther(u)
              \/ SpawnedResume(u) \/ ReadyDelay(u) \/ ReadyResume(u) \/ Delivered(u)
              \/ (\E c \in Coroutine : KillNext(u, c)) \/ (\E c \in Coroutine : Event(u, c))
              \/ KillDone(u) \/ Exit(u) \/ TickResume(u) \/ TickDone(u) \/ Tick(u) \/ Notify(u)
       PROVE  phase'[u] \notin {"unwind", "panicked", "aborted"}
  BY <1>5, <1>14, <1>15, <1>16, <1>18, <1>19, <1>20 DEF Notify
<1>21. ASSUME Acting(u)
       PROVE  \/ Run(u) \/ SendNext(u) \/ SpawnedMigrate(u)
              \/ phase'[u] \notin {"unwind", "panicked", "aborted"}
  BY <1>17, <1>20, <1>21 DEF Acting, Step, Deliver
<1>. QED
  BY <1>6, <1>7, <1>8, <1>10, <1>11, <1>12, <1>13, <1>21, NextActing

-----------------------------------------------------------------------------
(* After a Shutdown *)

\* Nobody is killed less, and no thread stops shutting down.
LEMMA Grows ==
  ASSUME Next
  PROVE  killed \subseteq killed' /\ shutting \subseteq shutting'
<1>1. CASE UNCHANGED vars
  BY <1>1 DEF vars, coVars, threadVars
<1>2. ASSUME NEW t \in Thread, Run(t) PROVE UNCHANGED <<killed, shutting>>
  BY <1>2, RunFacts
<1>3. ASSUME NEW t \in Thread, Deliver(t) PROVE UNCHANGED <<killed, shutting>>
  BY <1>3 DEF Deliver, SpawnedResume, SpawnedMigrate, ReadyDelay, ReadyResume, Delivered, coVars
<1>4. ASSUME NEW t \in Thread, Notify(t) PROVE killed \subseteq killed' /\ shutting \subseteq shutting'
  BY <1>4 DEF Notify, OnChannelMsg, OnMigration, OnShutdown, OnTerminate, OnPropagatePanic, coVars
<1>5. ASSUME NEW t \in Thread,
             \/ SpawnThread(t) \/ (t = 0 /\ StartMain) \/ StartOther(t) \/ SendNext(t)
             \/ (\E c \in Coroutine : KillNext(t, c) \/ Event(t, c)) \/ KillDone(t) \/ Exit(t)
             \/ Unwind(t) \/ TickResume(t) \/ TickDone(t) \/ Tick(t)
      PROVE  killed \subseteq killed' /\ shutting \subseteq shutting'
  BY <1>5 DEF SpawnThread, StartMain, StartOther, SendNext, KillNext, Event, KillDone, Exit, Unwind,
              TickResume, TickDone, Tick, coVars
<1>. QED
  BY <1>1, <1>2, <1>3, <1>4, <1>5, NextActing DEF Acting, Step

\* A coroutine comes into the slab of the thread that acts, or of none.
LEMMA HomeStep ==
  ASSUME TypeOK, NEW t \in Thread, Acting(t), NEW u \in Thread \ {t}, NEW c \in Coroutine, home'[c] = u
  PROVE  home[c] = u
<1>1. CASE home' = home
  BY <1>1
<1>2. ASSUME NEW d, home' = [home EXCEPT ![d] = t] \/ home' = [home EXCEPT ![d] = None]
      PROVE  home[c] = u
  BY <1>2, ThreadAssumption DEF TypeOK
<1>3. ASSUME NEW d \in Coroutine,
             \/ \E e \in Coroutine : Spawn(t, d, e) \/ Join(t, d, e)
             \/ Yield(t, d) \/ Block(t, d) \/ JoinReturn(t, d) \/ CallShutdown(t, d)
             \/ \E ok \in BOOLEAN : Finish(t, d, ok)
             \/ ExitSend(t, d) \/ KillNext(t, d) \/ Event(t, d)
      PROVE  home[c] = u
  <2>1. ASSUME NEW e \in Coroutine, Spawn(t, d, e) PROVE home[c] = u
    BY <2>1, <1>2 DEF Spawn
  <2>2. ASSUME NEW ok \in BOOLEAN, Finish(t, d, ok) PROVE home[c] = u
    BY <2>2, <1>2 DEF Finish
  <2>3. ASSUME \/ \E e \in Coroutine : Join(t, d, e)
               \/ Yield(t, d) \/ Block(t, d) \/ JoinReturn(t, d) \/ CallShutdown(t, d)
               \/ ExitSend(t, d) \/ KillNext(t, d) \/ Event(t, d)
        PROVE  home' = home
    BY <2>3 DEF Join, Yield, Block, JoinReturn, CallShutdown, ExitSend, KillNext, Event
  <2>. QED
    BY <1>1, <1>3, <2>1, <2>2, <2>3
<1>4. ASSUME (t = 0 /\ StartMain) \/ SpawnedMigrate(t) \/ OnMigration(t) PROVE home[c] = u
  BY <1>2, <1>4 DEF StartMain, SpawnedMigrate, OnMigration
<1>5. ASSUME \/ SpawnThread(t) \/ StartOther(t) \/ SpawnedResume(t) \/ ReadyDelay(t)
             \/ ReadyResume(t) \/ Delivered(t) \/ SendNext(t) \/ KillDone(t) \/ Exit(t)
             \/ Unwind(t) \/ TickResume(t) \/ TickDone(t) \/ Tick(t)
             \/ OnChannelMsg(t) \/ OnShutdown(t) \/ OnTerminate(t) \/ OnPropagatePanic(t)
      PROVE  home' = home
  BY <1>5 DEF SpawnThread, StartOther, SpawnedResume, ReadyDelay, ReadyResume, Delivered, SendNext,
              KillDone, Exit, Unwind, TickResume, TickDone, Tick, OnChannelMsg, OnShutdown,
              OnTerminate, OnPropagatePanic, coVars
<1>. QED
  BY <1>1, <1>3, <1>4, <1>5 DEF Acting, Step, Run, Deliver, Notify

\* The same for thread u in the next state, in parts.
ShutDownAt(u) ==
  /\ phase[u] \in {"kill", "poll", "last", "exited", "unwind", "panicked", "aborted"}
  /\ cur[u] \in killed \cup {None}
  /\ phase[u] \notin {"kill", "panicked", "aborted"} =>
       \A c \in Coroutine : home[c] = u => c = cur[u] \/ state[c] = "Finished"

\* A thread that shuts down and whose coroutine is not allowed to go on: what is left.
LEMMA ShutDownRun ==
  ASSUME TypeOK, NEW u \in Thread, ShutDownAt(u), Run(u),
         \A c \in Coroutine : state[c] = "Finished" => state'[c] = "Finished"
  PROVE  ShutDownAt(u)'
<1>1. PICK c \in Coroutine :
        \/ \E d \in Coroutine : Spawn(u, c, d) \/ Join(u, c, d)
        \/ Yield(u, c)
        \/ Block(u, c)
        \/ JoinReturn(u, c)
        \/ CallShutdown(u, c)
        \/ \E ok \in BOOLEAN : Finish(u, c, ok)
        \/ ExitSend(u, c)
  BY DEF Run
<1>2. cur[u] = c
  BY <1>1 DEF Spawn, Join, Yield, Block, JoinReturn, CallShutdown, Finish, ExitSend,
         ShutdownPanics, Free, Running
<1>3. c \in killed
  BY <1>2, CoroutineAssumption DEF ShutDownAt
<1>4. (\E ok \in BOOLEAN : Finish(u, c, ok)) \/ ExitSend(u, c)
  BY <1>1, <1>3 DEF Spawn, Join, Yield, Block, JoinReturn, CallShutdown, Free
<1>5. ASSUME NEW ok \in BOOLEAN, Finish(u, c, ok) PROVE ShutDownAt(u)'
  <2>1. UNCHANGED <<phase, cur, killed>> /\ home' = [home EXCEPT ![c] = None]
    BY <1>5 DEF Finish
  <2>2. \A d \in Coroutine : home'[d] = u => home[d] = u
    BY <2>1, ThreadAssumption DEF TypeOK
  <2>. QED
    BY <2>1, <2>2 DEF ShutDownAt
<1>6. CASE ExitSend(u, c)
  <2>1. /\ UNCHANGED <<killed, home, state>> /\ cur'[u] = None /\ state[c] = "Finished"
    BY <1>6 DEF ExitSend, TypeOK
  <2>2. phase'[u] \in {phase[u], "aborted"}
    BY <1>6 DEF ExitSend, NotifyJoiner, SendTo, TypeOK
  <2>. QED
    BY <2>1, <2>2, <1>2 DEF ShutDownAt
<1>. QED
  BY <1>4, <1>5, <1>6

\* What a thread that is shutting down may do.
LEMMA ShutDownActs ==
  ASSUME TypeOK, NEW u \in Thread, ShutDownAt(u), u \in shutting, Acting(u),
         \A c \in Coroutine : state[c] = "Finished" => state'[c] = "Finished"
  PROVE  ShutDownAt(u)'
<1>1. CASE Run(u)
  BY <1>1, ShutDownRun
<1>2. CASE SendNext(u)
  <2>1. UNCHANGED <<cur, killed, home, state>>
    BY <1>2 DEF SendNext, coVars
  <2>2. phase'[u] \in {phase[u], "aborted"}
    BY <1>2 DEF SendNext, SendTo, TypeOK
  <2>. QED
    BY <2>1, <2>2 DEF ShutDownAt
<1>3. ~SpawnThread(u) /\ ~(u = 0 /\ StartMain) /\ ~StartOther(u) /\ ~TickResume(u) /\ ~TickDone(u)
      /\ ~Tick(u)
  BY DEF SpawnThread, StartMain, StartOther, TickResume, TickDone, Tick, At, ShutDownAt
<1>4. ~Deliver(u)
  BY DEF Deliver, SpawnedResume, SpawnedMigrate, ReadyDelay, ReadyResume, Delivered, SpawnedTurn,
         ReadyTurn, At, ShutDownAt
<1>5. ASSUME NEW c \in Coroutine, KillNext(u, c) PROVE ShutDownAt(u)'
  BY <1>5 DEF KillNext, JumpIn, ShutDownAt, TypeOK
<1>6. CASE KillDone(u)
  <2>1. UNCHANGED <<cur, killed, home, state>> /\ phase'[u] = "poll" /\ \A c \in Coroutine : home[c] # u
    BY <1>6 DEF KillDone, coVars, TypeOK
  <2>. QED
    BY <2>1 DEF ShutDownAt
<1>7. CASE Exit(u)
  <2>1. UNCHANGED <<cur, killed, home, state>> /\ phase'[u] = "exited" /\ phase[u] = "last"
    BY <1>7 DEF Exit, coVars, TypeOK, At
  <2>. QED
    BY <2>1 DEF ShutDownAt
<1>8. CASE Unwind(u)
  <2>1. /\ UNCHANGED <<home, state>> /\ phase[u] = "unwind" /\ cur[u] = None
        /\ phase'[u] \in {"unwind", "panicked"}
    BY <1>8 DEF Unwind, JumpIn, At, TypeOK
  <2>2. cur' = cur \/ \E d \in killed' : cur' = [cur EXCEPT ![u] = d]
    BY <1>8 DEF Unwind, JumpIn
  <2>3. killed \subseteq killed'
    BY <1>8 DEF Unwind
  <2>4. cur'[u] \in killed' \cup {None}
    BY <2>1, <2>2 DEF TypeOK
  <2>5. \A c \in Coroutine : home[c] = u => state[c] = "Finished"
    BY <2>1, CoroutineAssumption DEF ShutDownAt
  <2>. QED
    BY <2>1, <2>4, <2>5 DEF ShutDownAt
<1>9. ASSUME At(u, "poll") \/ At(u, "last")
      PROVE  \A c \in Coroutine : home[c] = u => state[c] = "Finished"
  BY <1>9, CoroutineAssumption DEF ShutDownAt, At
<1>10. ASSUME NEW c \in Coroutine, Event(u, c) PROVE FALSE
  BY <1>9, <1>10 DEF Event
<1>11. CASE OnShutdown(u) \/ OnTerminate(u) \/ OnPropagatePanic(u)
  <2>1. /\ UNCHANGED <<cur, killed, home, state>>
        /\ At(u, "poll") \/ At(u, "last")
        /\ phase'[u] \in {"kill", "last", "unwind"}
    BY <1>11 DEF OnShutdown, OnTerminate, OnPropagatePanic, Receives, coVars, TypeOK
  <2>. QED
    BY <2>1, <1>9 DEF ShutDownAt
<1>12. CASE OnChannelMsg(u)
  <2>. DEFINE c == Head(inbox[u]).co
  <2>1. /\ Receives(u, "ChannelMsg") /\ UNCHANGED <<killed, home>>
        /\ UNCHANGED <<state, cur, phase>> \/ Wakes(u, c)
    BY <1>12 DEF OnChannelMsg
  <2>2. c \in Coroutine
    BY <2>1, ReceivesFacts, TypeParts DEF RefersTo
  <2>. HIDE DEF c
  <2>3. ~Wakes(u, c)
    BY <2>1, <2>2, <1>9 DEF Wakes, Receives
  <2>. QED
    BY <2>1, <2>3 DEF ShutDownAt
<1>13. CASE OnMigration(u)
  <2>. DEFINE c == Head(inbox[u]).co
  <2>1. /\ Receives(u, "Migration") /\ home' = [home EXCEPT ![c] = u] /\ state' = state
        /\ killed' = killed \cup {c} /\ cur'[u] = c /\ phase'[u] = "poll"
    BY <1>13 DEF OnMigration, KillOnArrival, JumpIn, TypeOK
  <2>2. \A d \in Coroutine : home[d] = u => state[d] = "Finished"
    BY <2>1, <1>9 DEF Receives
  <2>. HIDE DEF c
  <2>3. \A d \in Coroutine : home'[d] = u => d = c \/ home[d] = u
    BY <2>1 DEF TypeOK
  <2>. QED
    BY <2>1, <2>2, <2>3 DEF ShutDownAt
<1>. QED
  BY <1>1, <1>2, <1>3, <1>4, <1>5, <1>6, <1>7, <1>8, <1>10, <1>11, <1>12, <1>13
     DEF Acting, Step, Notify

\* It stays so, whatever the other threads do.
LEMMA ShutDownStep ==
  ASSUME TypeOK, RefersToBorn, Starting, ShutDown, Next
  PROVE  ShutDown'
<1>1. \A c \in Coroutine : state[c] = "Finished" => state'[c] = "Finished"
  BY NextChanges, BornStays
<1>2. killed \subseteq killed'
  BY Grows
<1>3. \A t \in shutting : ShutDownAt(t)
  BY DEF ShutDown, ShutDownAt
<1>4. ASSUME NEW u \in shutting' PROVE ShutDownAt(u)'
  <2>1. u \in Thread
    BY <1>4, NextTypes DEF PlainTypes
  <2>2. CASE UNCHANGED vars
    BY <1>3, <1>4, <2>2 DEF vars, coVars, threadVars, ShutDownAt
  <2>3. ASSUME NEW t \in Thread, t # u, Acting(t) PROVE ShutDownAt(u)'
    <3>1. ShutDownAt(u) /\ phase'[u] = phase[u] /\ cur'[u] = cur[u]
      BY <1>3, <1>4, <2>1, <2>3, ActingLocal DEF Untouched
    <3>2. \A c \in Coroutine : home'[c] = u => home[c] = u
      BY <2>1, <2>3, HomeStep
    <3>. QED
      BY <3>1, <3>2, <1>1, <1>2 DEF ShutDownAt
  <2>4. CASE Acting(u) /\ u \in shutting
    BY <1>1, <1>3, <2>1, <2>4, ShutDownActs
  <2>5. CASE Acting(u) /\ u \notin shutting
    <3>1. OnShutdown(u)
      <4>. SUFFICES ASSUME ~OnShutdown(u) PROVE shutting' = shutting
        BY <1>4, <2>5
      <4>1. CASE Run(u)
        BY <2>1, <4>1, RunFacts
      <4>2. CASE Deliver(u)
        BY <4>2 DEF Deliver, SpawnedResume, SpawnedMigrate, ReadyDelay, ReadyResume, Delivered
      <4>3. CASE SpawnThread(u) \/ StartMain \/ StartOther(u) \/ SendNext(u)
        BY <4>3 DEF SpawnThread, StartMain, StartOther, SendNext
      <4>4. CASE (\E c \in Coroutine : KillNext(u, c)) \/ KillDone(u) \/ Exit(u) \/ Unwind(u)
        BY <4>4 DEF KillNext, KillDone, Exit, Unwind
      <4>5. CASE TickResume(u) \/ TickDone(u) \/ Tick(u) \/ \E c \in Coroutine : Event(u, c)
        BY <4>5 DEF TickResume, TickDone, Tick, Event
      <4>6. CASE OnChannelMsg(u) \/ OnMigration(u) \/ OnTerminate(u) \/ OnPropagatePanic(u)
        BY <4>6 DEF OnChannelMsg, OnMigration, OnTerminate, OnPropagatePanic
      <4>. QED
        BY <2>5, <4>1, <4>2, <4>3, <4>4, <4>5, <4>6 DEF Acting, Step, Notify
    <3>. QED
      BY <3>1, <2>1 DEF OnShutdown, Receives, At, ShutDownAt, coVars, TypeOK
  <2>. QED
    BY <2>1, <2>2, <2>3, <2>4, <2>5, NextActing
<1>. QED
  BY <1>4 DEF ShutDown, ShutDownAt

-----------------------------------------------------------------------------
(* The invariant *)

\* Nobody has been spawned, one thread has its id, and all queues are empty.
LEMMA InitIInv ==
  ASSUME Init
  PROVE  IInv
<1>1. 0 \in Thread /\ N \in Nat \ {0} /\ Starts \in Nat /\ Main \in Coroutine
  BY BoundAssumption, CoroutineAssumption DEF Thread
<1>2. /\ state = [c \in Coroutine |-> "unborn"] /\ Born = {}
      /\ \A c \in Coroutine : ~Live(c)
  BY DEF Init, Born, Live
<1>3. phase = [t \in Thread |-> IF t = 0 THEN "waiting" ELSE "new"]
  BY DEF Init
<1>4. /\ cur = [t \in Thread |-> None] /\ spawned = [t \in Thread |-> <<>>]
      /\ ready = [t \in Thread |-> <<>>] /\ delayed = [t \in Thread |-> <<>>]
      /\ inbox = [t \in Thread |-> <<>>] /\ todo = [t \in Thread |-> <<>>]
      /\ children = [c \in Coroutine |-> <<>>] /\ token = [c \in Coroutine |-> None]
      /\ home = [c \in Coroutine |-> None] /\ parent = [c \in Coroutine |-> None]
  BY DEF Init
<1>5. ASSUME NEW S PROVE RefersTo(S)
  <2>. DEFINE R == [co : S, yielding : BOOLEAN]
              Q == [to : Thread, msg : MessageOf(S)]
  <2>1. <<>> \in Seq(S) /\ <<>> \in Seq(MessageOf(S))
    OBVIOUS
  <2>. HIDE DEF R, Q
  <2>2. <<>> \in Seq(R) /\ <<>> \in Seq(Q)
    OBVIOUS
  <2>3. ready \in [Thread -> Seq(R)] /\ todo \in [Thread -> Seq(Q)]
    BY <2>2, <1>4
  <2>4. /\ spawned \in [Thread -> Seq(S)] /\ delayed \in [Thread -> Seq(S)]
        /\ inbox \in [Thread -> Seq(MessageOf(S))] /\ children \in [Coroutine -> Seq(S)]
    BY <2>1, <1>4
  <2>5. /\ cur \in [Thread -> S \cup {None}]
        /\ token \in [Coroutine -> [co : S, thread : Thread] \cup {None}]
        /\ \A c \in Coroutine : home[c] # None => c \in S
        /\ \A c \in Coroutine : parent[c] # None => c \in S
    BY <1>4
  <2>. QED
    BY <2>3, <2>4, <2>5 DEF RefersTo, R, Q
<1>6. Starts * N \in Nat
  BY <1>1
<1>7. schedId \in [Thread -> Nat] /\ schedI = schedId /\ schedNum = Starts * N + 1
  BY <1>6 DEF Init
<1>8. TypeOK
  <2>1. PlainTypes
    <3>1. /\ killed = {} /\ exited = {} /\ stopping = {} /\ shutting = {} /\ started = FALSE
          /\ waits = [c \in Coroutine |-> None] /\ ops = [c \in Coroutine |-> 0]
          /\ tickLeft = [t \in Thread |-> 0]
      BY DEF Init
    <3>2. MaxOps \in Nat /\ schedNum \in Nat
      BY <1>6, <1>7, BoundAssumption
    <3>3. ops \in [Coroutine -> 0 .. MaxOps] /\ tickLeft \in [Thread -> Nat]
      BY <3>1, <3>2
    <3>. QED
      BY <1>4, <1>7, <3>1, <3>2, <3>3 DEF PlainTypes
  <2>2. state \in [Coroutine -> {"unborn", "Ready", "Blocked", "Finished"}] /\ num \in Nat
    BY <1>2 DEF Init
  <2>3. phase \in [Thread -> Phase]
    BY <1>3 DEF Phase
  <2>. QED
    BY <2>1, <2>2, <2>3, <1>5, TypeParts
<1>9. RefersToBorn
  BY <1>5 DEF RefersToBorn
<1>10. ExitedEnded
  BY DEF Init, ExitedEnded
<1>11. Counted
  <2>1. {c \in Coroutine : Live(c)} = {}
    BY <1>2
  <2>2. num = 0
    BY DEF Init
  <2>. QED
    BY <2>1, <2>2, FS_EmptySet DEF Counted
<1>12. Starting
  BY <1>1, <1>2, <1>3, <1>4 DEF Starting
<1>13. TickBound
  BY <1>3 DEF TickBound
<1>14. IdsCounted
  <2>1. {t \in Thread : phase[t] = "new"} = 1 .. N - 1
    BY <1>1, <1>3 DEF Thread
  <2>2. Cardinality(1 .. N - 1) = N - 1
    <3>1. 1 \in Int /\ N - 1 \in Int
      BY <1>1
    <3>2. Cardinality(1 .. N - 1) = IF 1 > N - 1 THEN 0 ELSE (N - 1) - 1 + 1
      BY <3>1, FS_Interval
    <3>. QED
      BY <3>2, <1>1
  <2>3. schedNum + Cardinality({t \in Thread : phase[t] = "new"}) = Starts * N + N
    <3>1. schedNum + (N - 1) = Starts * N + N
      BY <1>1, <1>6, <1>7
    <3>. QED
      BY <2>1, <2>2, <3>1
  <2>4. \A t \in Thread : schedI[t] < schedNum
    BY <1>1, <1>6 DEF Init
  <2>. QED
    BY <2>3, <2>4 DEF IdsCounted
<1>15. TerminatingMeansDone
  BY <1>3, <1>4 DEF TerminatingMeansDone, Terminating, Terminated
<1>16. ShutDown
  BY DEF Init, ShutDown
<1>17. NoPanics
  BY <1>3, <1>4 DEF NoPanics
<1>. QED
  BY <1>8, <1>9, <1>10, <1>11, <1>12, <1>13, <1>14, <1>15, <1>16, <1>17 DEF IInv

\* Every step keeps it.
LEMMA StepIInv ==
  ASSUME IInv, [Next]_vars
  PROVE  IInv'
<1>1. CASE UNCHANGED vars
  <2>. USE <1>1 DEF vars, coVars, threadVars, sharedVars
  <2>1. TypeOK'
    BY DEF IInv, TypeOK
  <2>2. RefersToBorn'
    BY DEF IInv, RefersToBorn, RefersTo, Born
  <2>3. ExitedEnded' /\ Starting' /\ TickBound' /\ IdsCounted'
    BY DEF IInv, ExitedEnded, Starting, Born, TickBound, IdsCounted
  <2>4. Counted'
    BY DEF IInv, Counted, Live
  <2>5. TerminatingMeansDone'
    BY DEF IInv, TerminatingMeansDone, Terminating, Terminated
  <2>6. ShutDown' /\ NoPanics'
    BY DEF IInv, ShutDown, NoPanics
  <2>. QED
    BY <2>1, <2>2, <2>3, <2>4, <2>5, <2>6 DEF IInv
<1>2. CASE Next
  <2>. USE <1>2
  <2>1. /\ TypeOK /\ RefersToBorn /\ ExitedEnded /\ Counted /\ Starting /\ TickBound
        /\ IdsCounted /\ TerminatingMeansDone /\ ShutDown /\ NoPanics
    BY DEF IInv
  <2>2. Birth \/ End \/ NoChange
    BY <2>1, NextChanges
  <2>3. Counted' /\ num' \in Nat
    BY <2>1, <2>2, CountedStep
  <2>4. TypeOK'
    <3>1. PlainTypes'
      BY <2>1, NextTypes
    <3>2. state' \in [Coroutine -> {"unborn", "Ready", "Blocked", "Finished"}]
      BY <2>1, <2>2, BornStays
    <3>3. phase' \in [Thread -> Phase]
      BY <2>1, NextPhase, PhaseFacts
    <3>4. RefersTo(Coroutine)
      BY <2>1, TypeParts
    <3>5. NextRefersTo(Coroutine)
      BY <2>1, <3>4, NextRefers
    <3>6. RefersTo(Coroutine)'
      BY <3>5 DEF NextRefersTo, RefersTo
    <3>. QED
      BY <2>3, <3>1, <3>2, <3>3, <3>6, TypeParts DEF TypeOK, PlainTypes, RefersTo, MessageOf, Message
  <2>5. RefersToBorn'
    <3>. DEFINE S == {c \in Coroutine : state'[c] # "unborn"}
    <3>1. Born \subseteq S
      BY <2>1, <2>2, BornStays DEF Born
    <3>2. RefersTo(S)
      BY <2>1, <3>1, RefersMore DEF RefersToBorn
    <3>3. S \in SUBSET Coroutine
      OBVIOUS
    <3>4. \A c \in Coroutine : state[c] = "unborn" /\ state'[c] # "unborn" => c \in S
      OBVIOUS
    <3>. HIDE DEF S
    <3>5. NextRefersTo(S)
      BY <2>1, <3>2, <3>3, <3>4, NextRefers
    <3>6. S = Born'
      BY DEF S, Born
    <3>. QED
      BY <3>5, <3>6 DEF NextRefersTo, RefersToBorn, RefersTo
  <2>6. ExitedEnded'
    BY <2>1, ExitedEndedStep
  <2>7. Starting' /\ TickBound'
    BY <2>1, StartingStep, TickBoundStep
  <2>8. IdsCounted'
    BY <2>1, IdsCountedStep
  <2>9. TerminatingMeansDone' /\ NoPanics'
    BY <2>1, TerminatingStep, NoPanicsStep
  <2>10. ShutDown'
    BY <2>1, ShutDownStep
  <2>. QED
    BY <2>3, <2>4, <2>5, <2>6, <2>7, <2>8, <2>9, <2>10 DEF IInv
<1>. QED
  BY <1>1, <1>2

\* The invariant holds in every reachable state of the instance, for any number of
\* threads, coroutines and earlier starts, with and without catch_panics.
THEOREM InvariantHolds == Spec => []IInv
BY InitIInv, StepIInv, PTL DEF Spec

\* Types.
THEOREM TypeCorrect == Spec => []TypeOK
<1>1. IInv => TypeOK
  BY DEF IInv
<1>. QED
  BY <1>1, InvariantHolds, PTL

\* broadcast_terminate: when the first thread is told to end its event loop there is
\* no coroutine left and none can come, in any slab or notify queue (the
\* debug_assert of Handler::notify).
THEOREM TerminateIsLast == Spec => []TerminateMeansDone
<1>1. IInv => TerminateMeansDone
  BY ZeroMeansNobody DEF IInv, TerminateMeansDone, TerminatingMeansDone, Terminating
<1>. QED
  BY <1>1, InvariantHolds, PTL

\* On the first start() of a Mioco, FifoSchedulerThread::spawned migrates only to
\* threads that exist, in whatever order the threads took their ids.
THEOREM MigrationsArrive == ASSUME Starts = 0 PROVE Spec => []MigrateTargetsExist
<1>1. IInv => MigrateTargetsExist
  <2>. SUFFICES ASSUME IInv, NEW t \in Thread PROVE schedI[t] \in Thread
    BY DEF MigrateTargetsExist
  <2>1. TypeOK /\ IdsCounted /\ schedI[t] \in Nat /\ schedI[t] < schedNum
    BY DEF IInv, TypeOK, IdsCounted
  <2>. QED
    BY <2>1, IdsAreThreads
<1>. QED
  BY <1>1, InvariantHolds, PTL

\* Handler::shutdown: a thread that is shutting down resumes nobody except to kill.
THEOREM ShutdownOnlyKills == Spec => NothingRunsAfterShutdown
<1>. DEFINE A == \A t \in shutting : cur'[t] \in {None, cur[t]} \cup killed'
<1>1. IInv /\ IInv' /\ [Next]_vars => [A]_vars
  <2>. SUFFICES ASSUME IInv, IInv', Next, NEW t \in shutting PROVE cur'[t] \in {None} \cup killed'
    OBVIOUS
  <2>1. t \in shutting'
    BY Grows
  <2>. QED
    BY <2>1 DEF IInv, ShutDown
<1>. QED
  BY <1>1, InvariantHolds, PTL DEF Spec, NothingRunsAfterShutdown

-----------------------------------------------------------------------------
(* The instance as seen from outside *)

\* Who is born, who has ended and whether start() has returned, as Promise sees it.
Ended == {c \in Coroutine : state[c] = "Finished"}

\* A thread that is gone stays gone.
LEMMA ReturnedStays ==
  ASSUME TypeOK, Starting, Next, Returned
  PROVE  Returned'
<1>1. 0 \in Thread
  BY BoundAssumption DEF Thread
<1>2. \A t \in Thread : Closed(t) => phase'[t] = phase[t]
  BY NextPhase, PhaseFacts
<1>3. \A t \in Thread : phase'[t] = phase[t]
  BY <1>2 DEF Returned, Closed
<1>. QED
  BY <1>1, <1>3 DEF Returned

\* join() is entered and left in Join and JoinReturn only.
LEMMA WaitsStep ==
  ASSUME Next,
         ~(\E t \in Thread, c, d \in Coroutine : Join(t, c, d)),
         ~(\E t \in Thread, c \in Coroutine : JoinReturn(t, c))
  PROVE  waits' = waits
<1>1. CASE UNCHANGED vars
  BY <1>1 DEF vars, coVars
<1>2. ASSUME NEW t \in Thread, Run(t) PROVE waits' = waits
  BY <1>2 DEF Run, Spawn, Yield, Block, CallShutdown, Finish, ExitSend
<1>3. ASSUME NEW t \in Thread, Deliver(t) PROVE waits' = waits
  BY <1>3 DEF Deliver, SpawnedResume, SpawnedMigrate, ReadyDelay, ReadyResume, Delivered, coVars
<1>4. ASSUME NEW t \in Thread, Notify(t) \/ \E c \in Coroutine : Event(t, c) PROVE waits' = waits
  BY <1>4 DEF Notify, OnChannelMsg, OnMigration, OnShutdown, OnTerminate, OnPropagatePanic, Event,
              coVars
<1>5. ASSUME NEW t \in Thread,
             \/ SpawnThread(t) \/ (t = 0 /\ StartMain) \/ StartOther(t) \/ SendNext(t)
             \/ (\E c \in Coroutine : KillNext(t, c)) \/ KillDone(t) \/ Exit(t) \/ Unwind(t)
             \/ TickResume(t) \/ TickDone(t) \/ Tick(t)
      PROVE  waits' = waits
  BY <1>5 DEF SpawnThread, StartMain, StartOther, SendNext, KillNext, KillDone, Exit, Unwind,
              TickResume, TickDone, Tick, coVars
<1>. QED
  BY <1>1, <1>2, <1>3, <1>4, <1>5, NextActing DEF Acting, Step

\* A step that spawns and ends nobody and does not touch a join: start() may return.
LEMMA QuietStep ==
  ASSUME CatchPanics, Starts = 0, IInv, IInv', Next, NoChange, waits' = waits
  PROVE  [Promise!Next]_(Promise!vars)
<1>1. Born' = Born /\ Ended' = Ended
  BY DEF NoChange, Born, Ended
<1>2. CASE Returned' = Returned
  BY <1>1, <1>2 DEF Promise!vars, Born, Ended, Returned
<1>3. CASE ~Returned /\ Returned'
  <2>1. 0 \in Thread /\ Main \in Coroutine
    BY BoundAssumption, CoroutineAssumption DEF Thread
  <2>2. phase'[0] = "exited"
    BY <1>3 DEF Returned
  <2>3. num' = 0 /\ phase'[0] # "waiting"
    BY <2>1, <2>2 DEF IInv, TerminatingMeansDone, Terminating, Terminated, NoPanics
  <2>4. num = 0 /\ Counted
    BY <2>3 DEF NoChange, IInv
  <2>a. \A c \in Coroutine : state[c] \in {"unborn", "Finished"}
    BY <2>4, ZeroMeansNobody DEF Live
  <2>5. Born \ Ended = {} /\ Born # {}
    BY <1>1, <2>1, <2>3, <2>a DEF IInv, Starting, Born, Ended
  <2>. QED
    BY <1>1, <1>3, <2>5 DEF Promise!Next, Promise!Return, Promise!Alive, Born, Ended, Returned
<1>4. Returned => Returned'
  BY ReturnedStays DEF IInv
<1>5. Returned \in BOOLEAN /\ Returned' \in BOOLEAN
  BY DEF Returned
<1>. QED
  BY <1>2, <1>3, <1>4, <1>5

\* The initial states are initial states of Instance.
LEMMA InitPromise == Init => Promise!Init
<1>. SUFFICES ASSUME Init PROVE Promise!Init
  OBVIOUS
<1>1. 0 \in Thread
  BY BoundAssumption DEF Thread
<1>2. ~Returned
  BY <1>1 DEF Init, Returned, Closed
<1>. QED
  BY <1>2 DEF Init, Promise!Init, Returned

\* Every step is a step of Instance or changes nothing that Instance sees.
LEMMA StepPromise ==
  ASSUME CatchPanics, Starts = 0, IInv, IInv', [Next]_vars
  PROVE  [Promise!Next]_(Promise!vars)
<1>. DEFINE P == [Promise!Next]_(Promise!vars)
<1>a. state \in [Coroutine -> {"unborn", "Ready", "Blocked", "Finished"}]
  BY DEF IInv, TypeOK
<1>1. CASE UNCHANGED vars
  BY <1>1 DEF vars, coVars, threadVars, Promise!vars, Returned
<1>2. CASE Next /\ StartMain
  <2>1. 0 \in Thread /\ Main \in Coroutine
    BY BoundAssumption, CoroutineAssumption DEF Thread
  <2>2. /\ phase[0] = "waiting" /\ state' = [state EXCEPT ![Main] = "Ready"]
        /\ phase'[0] = "spawned" /\ waits' = waits
    BY <1>2, <2>1 DEF StartMain, IInv, TypeOK
  <2>3. Born = {} /\ Born' = {Main} /\ Ended' = Ended
    <3>1. Born = {}
      BY <2>2 DEF IInv, Starting
    <3>2. state[Main] = "unborn"
      BY <3>1, <2>1 DEF Born
    <3>3. \A e \in Coroutine : state'[e] = IF e = Main THEN "Ready" ELSE state[e]
      BY <1>a, <2>2
    <3>. QED
      BY <3>1, <3>2, <3>3, <2>1 DEF Born, Ended
  <2>4. ~Returned /\ ~Returned'
    BY <2>1, <2>2 DEF Returned, Closed
  <2>. QED
    BY <2>2, <2>3, <2>4 DEF Promise!Next, Promise!Start, Born, Ended, Returned
<1>3. ASSUME NEW t \in Thread, NEW c \in Coroutine, NEW d \in Coroutine, Spawn(t, c, d) PROVE P
  <2>1. /\ cur[t] = c /\ state[c] # "Finished" /\ state[d] = "unborn"
        /\ state' = [state EXCEPT ![d] = "Ready"] /\ waits' = waits /\ phase' = phase
    BY <1>3 DEF Spawn, Free, Running, threadVars
  <2>2. c \in Born \ Ended
    BY <2>1, CurrentLives DEF IInv, Born, Ended
  <2>3. d \notin Born /\ Born' = Born \cup {d} /\ Ended' = Ended
    <3>1. \A e \in Coroutine : state'[e] = IF e = d THEN "Ready" ELSE state[e]
      BY <1>a, <2>1
    <3>. QED
      BY <3>1, <2>1 DEF Born, Ended
  <2>4. Returned' = Returned
    BY <2>1 DEF Returned, Closed
  <2>5. Promise!Spawn(d)
    BY <2>1, <2>2, <2>3, <2>4 DEF Promise!Spawn, Promise!Alive, Born, Ended, Returned
  <2>. QED
    BY <2>5 DEF Promise!Next
<1>4. ASSUME NEW t \in Thread, NEW c \in Coroutine, NEW ok \in BOOLEAN, Finish(t, c, ok) PROVE P
  <2>1. /\ cur[t] = c /\ state[c] # "Finished"
        /\ state' = [state EXCEPT ![c] = "Finished"] /\ waits' = waits /\ phase' = phase
    BY <1>4 DEF Finish, ShutdownPanics, Free, Running
  <2>2. c \in Born \ Ended
    BY <2>1, CurrentLives DEF IInv, Born, Ended
  <2>3. Born' = Born /\ Ended' = Ended \cup {c}
    <3>1. \A e \in Coroutine : state'[e] = IF e = c THEN "Finished" ELSE state[e]
      BY <1>a, <2>1
    <3>. QED
      BY <3>1, <2>2 DEF Born, Ended
  <2>4. Returned' = Returned
    BY <2>1 DEF Returned, Closed
  <2>5. Promise!End(c)
    BY <2>1, <2>2, <2>3, <2>4 DEF Promise!End, Promise!Alive, Born, Ended, Returned
  <2>. QED
    BY <2>5 DEF Promise!Next
<1>5. ASSUME NEW t \in Thread, NEW c \in Coroutine, NEW d \in Coroutine, Join(t, c, d) PROVE P
  <2>1. /\ cur[t] = c /\ state[c] # "Finished" /\ waits' = [waits EXCEPT ![c] = d]
        /\ state' = [state EXCEPT ![c] = "Blocked"] /\ phase' = phase
        /\ waits[c] = d \/ (waits[c] = None /\ parent[d] = c)
    BY <1>5 DEF Join, Running
  <2>2. c \in Born \ Ended
    BY <2>1, CurrentLives DEF IInv, Born, Ended
  <2>3. Born' = Born /\ Ended' = Ended
    BY <2>1, <2>2 DEF IInv, TypeOK, Born, Ended
  <2>4. Returned' = Returned
    BY <2>1 DEF Returned, Closed
  <2>5. CASE waits[c] = d
    <3>1. waits' = waits
      BY <2>1, <2>5 DEF IInv, TypeOK
    <3>. QED
      BY <3>1, <2>3, <2>4 DEF Promise!vars, Born, Ended, Returned
  <2>6. CASE waits[c] = None /\ parent[d] = c
    <3>1. d \in Born
      BY <2>6, CoroutineAssumption DEF IInv, RefersToBorn, RefersTo
    <3>2. Promise!Join(c, d)
      BY <3>1, <2>1, <2>2, <2>3, <2>4, <2>6 DEF Promise!Join, Promise!Alive, Born, Ended, Returned
    <3>. QED
      BY <3>2 DEF Promise!Next
  <2>. QED
    BY <2>1, <2>5, <2>6
<1>6. ASSUME NEW t \in Thread, NEW c \in Coroutine, JoinReturn(t, c) PROVE P
  <2>1. /\ cur[t] = c /\ state[c] # "Finished" /\ waits' = [waits EXCEPT ![c] = None]
        /\ waits[c] \in exited /\ state' = state /\ phase' = phase
    BY <1>6 DEF JoinReturn, Running, threadVars
  <2>2. c \in Born \ Ended
    BY <2>1, CurrentLives DEF IInv, Born, Ended
  <2>3. waits[c] \in Ended
    BY <2>1 DEF IInv, TypeOK, ExitedEnded, Ended
  <2>4. Returned' = Returned
    BY <2>1 DEF Returned, Closed
  <2>5. Promise!Joined(c)
    BY <2>1, <2>2, <2>3, <2>4 DEF Promise!Joined, Promise!Alive, Born, Ended, Returned
  <2>. QED
    BY <2>5 DEF Promise!Next
<1>7. CASE /\ Next /\ ~StartMain
           /\ \A t \in Thread, c \in Coroutine :
                /\ \A d \in Coroutine : ~Spawn(t, c, d) /\ ~Join(t, c, d)
                /\ \A ok \in BOOLEAN : ~Finish(t, c, ok)
                /\ ~JoinReturn(t, c)
  <2>1. waits' = waits
    BY <1>7, WaitsStep
  <2>2. NoChange
    BY <1>7, NextChanges DEF IInv, Birth, End
  <2>. QED
    BY <1>7, <2>1, <2>2, QuietStep
<1>. QED
  BY <1>1, <1>2, <1>3, <1>4, <1>5, <1>6, <1>7

\* Mioco::start and JoinHandle::join keep their promises: on the first start() of an
\* instance that catches panics, start() returns only when every coroutine that was
\* ever spawned has ended, and join() only when the joined coroutine has.
THEOREM RuntimeImplementsInstance ==
  ASSUME CatchPanics, Starts = 0 PROVE Spec => ImplementsInstance
BY InitPromise, StepPromise, InvariantHolds, PTL DEF Spec, ImplementsInstance, Promise!Spec
=============================================================================
