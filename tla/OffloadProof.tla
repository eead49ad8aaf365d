---------------------------- MODULE OffloadProof ----------------------------
(***************************************************************************)
(* Proofs about module Offload, for any number of coroutines: the closure  *)
(* never outlives the stack frame it borrows from, offload() joins its     *)
(* thread only when the closure has returned, and its wake-up is not lost. *)
(***************************************************************************)
EXTENDS Offload, FiniteSetTheorems, SequenceTheorems, TLAPS

-----------------------------------------------------------------------------
(* The inductive invariant *)

\* The thread has added its message to the counter.
Counted(c) == worker[c] \in {"notify", "ended"}

\* The channel of an offload carries one message per call: it is there from the
\* push until the coroutine takes it, so that one left over by an earlier call
\* never ends a later one.  The counter is behind: it may go below zero between
\* the two, and is zero again when offload returns.
ChannelMatchesThread ==
  \A c \in Coroutine :
    /\ pc[c] \in {"idle", "gone"} => worker[c] = "none"
    /\ pc[c] = "idle" => msgs[c] = 0 /\ counter[c] = 0
    /\ pc[c] \in {"recv", "block", "parked"} =>
         /\ worker[c] # "none"
         /\ msgs[c] = IF worker[c] = "count" \/ Counted(c) THEN 1 ELSE 0
         /\ counter[c] = IF Counted(c) THEN 1 ELSE 0
    /\ pc[c] = "got" =>
         /\ worker[c] = "count" \/ Counted(c)
         /\ msgs[c] = 0
         /\ counter[c] = IF Counted(c) THEN 1 ELSE 0
    /\ pc[c] = "join" =>
         /\ worker[c] = "count" \/ Counted(c)
         /\ msgs[c] = 0
         /\ counter[c] = IF Counted(c) THEN 0 ELSE -1

IInv == TypeOK /\ ChannelMatchesThread

-----------------------------------------------------------------------------
\* At first no call is under way.
LEMMA InitIInv == Init => IInv
<1>. SUFFICES ASSUME Init PROVE IInv
  OBVIOUS
<1>1. Cardinality(Coroutine) \in Nat
  BY OffloadAssumption, FS_CardinalityType
<1>2. queue \in Seq(Coroutine)
  BY <1>1, SeqDef DEF Init
<1>3. ops \in [Coroutine -> 0 .. MaxOps]
  BY OffloadAssumption DEF Init
<1>4. /\ pc = [c \in Coroutine |-> "idle"] /\ worker = [c \in Coroutine |-> "none"]
      /\ msgs = [c \in Coroutine |-> 0] /\ counter = [c \in Coroutine |-> 0]
      /\ token = {} /\ inbox = <<>> /\ cur = None /\ shutting = FALSE
  BY DEF Init
<1>5. TypeOK
  <2>1. inbox \in Seq(Coroutine)
    BY <1>4, EmptySeq
  <2>2. msgs \in [Coroutine -> Nat] /\ counter \in [Coroutine -> Int]
    BY <1>4
  <2>. QED
    BY <2>1, <2>2, <1>2, <1>3, <1>4 DEF TypeOK, Where, Work
<1>. QED
  BY <1>4, <1>5 DEF IInv, ChannelMatchesThread

\* Every offload and every yield counts, up to MaxOps.
LEMMA OpType ==
  ASSUME TypeOK, NEW c \in Coroutine, Op(c)
  PROVE  ops' \in [Coroutine -> 0 .. MaxOps]
<1>1. MaxOps \in Nat /\ ops \in [Coroutine -> 0 .. MaxOps] /\ ops[c] < MaxOps
  BY OffloadAssumption DEF TypeOK, Op
<1>2. ops[c] + 1 \in 0 .. MaxOps
  BY <1>1
<1>. QED
  BY <1>1, <1>2 DEF Op

\* Every step keeps the invariant, an action at a time.
LEMMA StepIInv == IInv /\ [Next]_vars => IInv'
<1>. SUFFICES ASSUME IInv, [Next]_vars PROVE IInv'
  OBVIOUS
<1>. USE DEF IInv, At, InCall, Counted
<1>1. ASSUME NEW c \in Coroutine, Call(c)
      PROVE  IInv'
  <2>1. TypeOK'
    BY <1>1, OpType DEF Call, TypeOK, Where, Work
  <2>2. ChannelMatchesThread'
    BY <1>1 DEF Call, TypeOK, ChannelMatchesThread
  <2>. QED
    BY <2>1, <2>2
<1>2. ASSUME NEW c \in Coroutine, TryRecvOk(c)
      PROVE  IInv'
  <2>1. msgs[c] = 1 /\ worker[c] \in {"count", "notify", "ended"}
    BY <1>2 DEF TryRecvOk, TypeOK, ChannelMatchesThread
  <2>2. msgs' = [msgs EXCEPT ![c] = 0] /\ pc' = [pc EXCEPT ![c] = "got"]
    BY <1>2, <2>1 DEF TryRecvOk
  <2>3. TypeOK'
    BY <1>2, <2>2 DEF TryRecvOk, TypeOK, Where
  <2>4. ChannelMatchesThread'
    BY <1>2, <2>1, <2>2 DEF TryRecvOk, TypeOK, ChannelMatchesThread
  <2>. QED
    BY <2>3, <2>4
<1>3. ASSUME NEW c \in Coroutine, TryRecvEmpty(c)
      PROVE  IInv'
  BY <1>3 DEF TryRecvEmpty, TypeOK, ChannelMatchesThread, Where
<1>18. ASSUME NEW c \in Coroutine, FetchSub(c)
       PROVE  IInv'
  <2>1. TypeOK'
    BY <1>18 DEF FetchSub, TypeOK, Where
  <2>2. /\ counter'[c] = counter[c] - 1 /\ pc'[c] = "join" /\ pc[c] = "got"
        /\ \A d \in Coroutine : d # c => counter'[d] = counter[d] /\ pc'[d] = pc[d]
        /\ UNCHANGED <<worker, msgs>>
    BY <1>18 DEF FetchSub, TypeOK
  <2>3. ChannelMatchesThread'
    BY <2>2 DEF ChannelMatchesThread
  <2>. QED
    BY <2>1, <2>3
<1>19. ASSUME NEW c \in Coroutine, Register(c)
       PROVE  IInv'
  <2>1. TypeOK'
    <3>1. queue' \in Seq(Coroutine)
      <4>1. queue \in Seq(Coroutine) /\ Append(queue, c) \in Seq(Coroutine)
        BY <1>19 DEF TypeOK
      <4>. QED
        BY <1>19, <4>1 DEF Register
    <3>. QED
      BY <1>19, <3>1 DEF Register, TypeOK, Where
  <2>2. /\ pc'[c] \in {"recv", "parked"} /\ pc[c] = "block"
        /\ \A d \in Coroutine : d # c => pc'[d] = pc[d]
        /\ UNCHANGED <<worker, msgs, counter>>
    BY <1>19 DEF Register, TypeOK
  <2>3. ChannelMatchesThread'
    BY <2>2 DEF ChannelMatchesThread
  <2>. QED
    BY <2>1, <2>3
<1>4. ASSUME NEW c \in Coroutine, Return(c)
      PROVE  IInv'
  BY <1>4 DEF Return, TypeOK, ChannelMatchesThread, Where, Work
<1>5. ASSUME NEW c \in Coroutine, Yield(c)
      PROVE  IInv'
  <2>1. TypeOK'
    BY <1>5, OpType DEF Yield, TypeOK
  <2>. QED
    BY <1>5, <2>1 DEF Yield, ChannelMatchesThread
<1>6. ASSUME NEW c \in Coroutine, Finish(c)
      PROVE  IInv'
  BY <1>6 DEF Finish, TypeOK, ChannelMatchesThread, Where
<1>7. ASSUME NEW c \in Coroutine, ClosureEnds(c)
      PROVE  IInv'
  BY <1>7 DEF ClosureEnds, TypeOK, ChannelMatchesThread, Where, Work
<1>8. ASSUME NEW c \in Coroutine, Push(c)
      PROVE  IInv'
  <2>1. TypeOK'
    BY <1>8 DEF Push, TypeOK, Work
  <2>2. ChannelMatchesThread'
    BY <1>8 DEF Push, TypeOK, ChannelMatchesThread, Where
  <2>. QED
    BY <2>1, <2>2
<1>20. ASSUME NEW c \in Coroutine, FetchAdd(c)
       PROVE  IInv'
  <2>1. TypeOK'
    BY <1>20 DEF FetchAdd, TypeOK, Work
  <2>2. /\ counter'[c] = counter[c] + 1
        /\ worker[c] = "count" /\ worker'[c] \in {"notify", "ended"}
        /\ \A d \in Coroutine : d # c => counter'[d] = counter[d] /\ worker'[d] = worker[d]
        /\ UNCHANGED <<pc, msgs>>
    BY <1>20 DEF FetchAdd, TypeOK
  <2>3. ChannelMatchesThread'
    BY <2>2 DEF ChannelMatchesThread
  <2>. QED
    BY <2>1, <2>3
<1>9. ASSUME NEW c \in Coroutine, Notify(c)
      PROVE  IInv'
  <2>1. TypeOK'
    BY <1>9 DEF Notify, TypeOK, Work
  <2>2. ChannelMatchesThread'
    BY <1>9 DEF Notify, TypeOK, ChannelMatchesThread, Where
  <2>. QED
    BY <2>1, <2>2
<1>10. ASSUME Resume
       PROVE  IInv'
  <2>1. Head(queue) \in Coroutine /\ Tail(queue) \in Seq(Coroutine)
    BY <1>10 DEF Resume, TypeOK
  <2>. QED
    BY <1>10, <2>1 DEF Resume, TypeOK, ChannelMatchesThread
<1>11. ASSUME NEW c \in Coroutine, pc[c] = "parked", Wakes(c),
              inbox' \in Seq(Coroutine), UNCHANGED <<worker, msgs, counter, queue, shutting, ops>>
       PROVE  IInv'
  BY <1>11 DEF Wakes, TypeOK, ChannelMatchesThread, Where
<1>12. ASSUME OnChannelMsg
       PROVE  IInv'
  <2>1. Head(inbox) \in Coroutine /\ inbox' \in Seq(Coroutine)
    BY <1>12 DEF OnChannelMsg, TypeOK
  <2>2. CASE pc[Head(inbox)] = "parked" /\ ~shutting
    BY <1>12, <2>1, <2>2, <1>11 DEF OnChannelMsg
  <2>3. CASE ~ (pc[Head(inbox)] = "parked" /\ ~shutting)
    BY <1>12, <2>1, <2>3 DEF OnChannelMsg, TypeOK, ChannelMatchesThread
  <2>. QED
    BY <2>2, <2>3
<1>13. ASSUME NEW c \in Coroutine, StaleEvent(c)
       PROVE  IInv'
  BY <1>13, <1>11 DEF StaleEvent, TypeOK
<1>14. ASSUME Shutdown
       PROVE  IInv'
  BY <1>14 DEF Shutdown, TypeOK, ChannelMatchesThread
<1>15. ASSUME NEW c \in Coroutine, Kill(c)
       PROVE  IInv'
  <2>1. TypeOK'
    BY <1>15 DEF Kill, TypeOK, Where
  <2>2. UNCHANGED <<worker, msgs, counter>>
    BY <1>15 DEF Kill
  <2>3. /\ \A d \in Coroutine : d # c => pc'[d] = pc[d]
        /\ pc[c] \in InCall => pc'[c] = "unwind"
        /\ pc[c] \notin InCall => pc[c] = "idle" /\ pc'[c] = "gone"
    BY <1>15 DEF Kill, TypeOK, Where, InCall
  <2>4. ChannelMatchesThread'
    BY <2>2, <2>3 DEF ChannelMatchesThread
  <2>. QED
    BY <2>1, <2>4
<1>16. ASSUME NEW c \in Coroutine, Unwound(c)
       PROVE  IInv'
  BY <1>16 DEF Unwound, TypeOK, ChannelMatchesThread, Where, Work
<1>17. ASSUME UNCHANGED vars
       PROVE  IInv'
  BY <1>17 DEF vars, TypeOK, ChannelMatchesThread
<1>. QED
  BY <1>1, <1>2, <1>3, <1>4, <1>5, <1>6, <1>7, <1>8, <1>9, <1>10, <1>12, <1>13,
     <1>14, <1>15, <1>16, <1>17, <1>18, <1>19, <1>20
     DEF Next, LoopStep, SendStep, Done

-----------------------------------------------------------------------------
(* Wake-ups *)

\* A coroutine that is parked is registered: maybe_notify_receiver finds its token,
\* whichever of the two comes first.
ParkedRegistered == \A c \in Coroutine : pc[c] = "parked" => c \in token

\* Once the thread is done with its send, the notification is queued.
Delivered ==
  ~shutting => \A c \in Coroutine : pc[c] = "parked" /\ worker[c] = "ended" =>
    \E i \in DOMAIN inbox : inbox[i] = c

WInv == ParkedRegistered /\ Delivered

\* A step that parks nobody, ends no send, and takes no token or message from
\* somebody who stays parked loses no wake-up.
Harmless ==
  /\ shutting => shutting'
  /\ \A c \in Coroutine : pc'[c] = "parked" =>
       /\ pc[c] = "parked"
       /\ c \in token => c \in token'
       /\ worker'[c] = "ended" => worker[c] = "ended"
       /\ ~shutting' /\ (\E i \in DOMAIN inbox : inbox[i] = c) =>
            \E i \in DOMAIN inbox' : inbox'[i] = c

\* Such a step keeps the invariant.
LEMMA HarmlessKeeps == ASSUME WInv, Harmless PROVE WInv'
<1>1. ParkedRegistered'
  BY DEF WInv, Harmless, ParkedRegistered
<1>2. Delivered'
  <2>. SUFFICES ASSUME ~shutting', NEW c \in Coroutine, pc'[c] = "parked", worker'[c] = "ended"
                PROVE  \E i \in DOMAIN inbox' : inbox'[i] = c
    BY DEF Delivered
  <2>1. ~shutting /\ pc[c] = "parked" /\ worker[c] = "ended"
    BY DEF Harmless
  <2>2. \E i \in DOMAIN inbox : inbox[i] = c
    BY <2>1 DEF WInv, Delivered
  <2>. QED
    BY <2>2 DEF Harmless
<1>. QED
  BY <1>1, <1>2 DEF WInv

\* Every step keeps it: all but the park itself and the notification are harmless.
LEMMA StepWInv == IInv /\ WInv /\ [Next]_vars => WInv'
<1>. SUFFICES ASSUME IInv, WInv, [Next]_vars PROVE WInv'
  OBVIOUS
<1>. USE DEF At
<1>0. TypeOK
  BY DEF IInv
<1>1. ASSUME NEW c \in Coroutine,
             Call(c) \/ TryRecvOk(c) \/ FetchSub(c) \/ TryRecvEmpty(c) \/ Return(c)
               \/ Yield(c) \/ Finish(c) \/ Kill(c) \/ Unwound(c)
      PROVE  WInv'
  <2>1. UNCHANGED <<token, inbox, shutting>>
    BY <1>1 DEF Call, TryRecvOk, FetchSub, TryRecvEmpty, Return, Yield, Finish, Kill, Unwound
  <2>2. \A d \in Coroutine : pc'[d] = "parked" => pc[d] = "parked" /\ d # c
    <3>1. CASE Yield(c)
      BY <1>0, <1>1, <3>1 DEF Yield, TypeOK
    <3>2. CASE ~Yield(c)
      BY <1>0, <1>1, <3>2 DEF Call, TryRecvOk, FetchSub, TryRecvEmpty, Return, Finish, Kill, Unwound, TypeOK
    <3>. QED
      BY <3>1, <3>2
  <2>3. \A d \in Coroutine : d # c => worker'[d] = worker[d]
    BY <1>0, <1>1 DEF Call, TryRecvOk, FetchSub, TryRecvEmpty, Return, Yield, Finish, Kill, Unwound, TypeOK
  <2>4. Harmless
    BY <2>1, <2>2, <2>3 DEF Harmless
  <2>. QED
    BY <2>4, HarmlessKeeps
<1>2. ASSUME NEW c \in Coroutine, Register(c)
      PROVE  WInv'
  <2>1. /\ UNCHANGED <<worker, inbox, shutting>> /\ token \ {c} \subseteq token'
        /\ pc'[c] = "parked" => c \in token' /\ counter[c] = 0
    BY <1>0, <1>2 DEF Register, TypeOK
  <2>2. pc[c] = "block" /\ \A d \in Coroutine : d # c => pc'[d] = pc[d]
    BY <1>0, <1>2 DEF Register, TypeOK
  <2>3. counter[c] = 0 => worker[c] # "ended"
    BY <2>2 DEF IInv, ChannelMatchesThread, Counted
  <2>4. ParkedRegistered'
    BY <2>1, <2>2 DEF WInv, ParkedRegistered
  <2>5. Delivered'
    BY <2>1, <2>2, <2>3 DEF WInv, Delivered
  <2>. QED
    BY <2>4, <2>5 DEF WInv
<1>3. ASSUME NEW c \in Coroutine, ClosureEnds(c) \/ Push(c)
      PROVE  WInv'
  <2>1. UNCHANGED <<pc, token, inbox, shutting>>
    BY <1>3 DEF ClosureEnds, Push
  <2>2. \A d \in Coroutine : worker'[d] = "ended" => worker[d] = "ended"
    BY <1>0, <1>3 DEF ClosureEnds, Push, TypeOK
  <2>3. Harmless
    BY <2>1, <2>2 DEF Harmless
  <2>. QED
    BY <2>3, HarmlessKeeps
<1>9. ASSUME NEW c \in Coroutine, FetchAdd(c)
      PROVE  WInv'
  <2>1. UNCHANGED <<pc, token, inbox, shutting>>
    BY <1>9 DEF FetchAdd
  <2>2. /\ worker[c] = "count" /\ (counter[c] = 0 => worker'[c] = "notify")
        /\ \A d \in Coroutine : d # c => worker'[d] = worker[d]
    BY <1>0, <1>9 DEF FetchAdd, TypeOK
  <2>3. pc[c] = "parked" => counter[c] = 0
    BY <2>2 DEF IInv, ChannelMatchesThread, Counted
  <2>4. Harmless
    BY <2>1, <2>2, <2>3 DEF Harmless
  <2>. QED
    BY <2>4, HarmlessKeeps
<1>4. ASSUME NEW c \in Coroutine, Notify(c)
      PROVE  WInv'
  <2>1. UNCHANGED <<pc, token, shutting>>
    BY <1>4 DEF Notify
  <2>2. \A d \in Coroutine : d # c => worker'[d] = worker[d]
    BY <1>0, <1>4 DEF Notify, TypeOK
  <2>3. inbox \in Seq(Coroutine)
    BY <1>0 DEF TypeOK
  <2>4. \A d \in Coroutine : (\E i \in DOMAIN inbox : inbox[i] = d) =>
                               \E i \in DOMAIN inbox' : inbox'[i] = d
    <3>1. CASE c \in token
      <4>1. inbox' = Append(inbox, c)
        BY <1>4, <3>1 DEF Notify
      <4>. QED
        BY <2>3, <4>1
    <3>2. CASE c \notin token
      BY <1>4, <3>2 DEF Notify
    <3>. QED
      BY <3>1, <3>2
  <2>5. pc[c] = "parked" => \E i \in DOMAIN inbox' : inbox'[i] = c
    <3>. SUFFICES ASSUME pc[c] = "parked" PROVE \E i \in DOMAIN inbox' : inbox'[i] = c
      OBVIOUS
    <3>1. c \in token
      BY DEF WInv, ParkedRegistered
    <3>2. inbox' = Append(inbox, c)
      BY <1>4, <3>1 DEF Notify
    <3>3. Len(inbox) + 1 \in DOMAIN inbox' /\ inbox'[Len(inbox) + 1] = c
      BY <2>3, <3>2
    <3>. QED
      BY <3>3
  <2>6. ParkedRegistered'
    BY <2>1 DEF WInv, ParkedRegistered
  <2>7. Delivered'
    BY <2>1, <2>2, <2>4, <2>5 DEF WInv, Delivered
  <2>. QED
    BY <2>6, <2>7 DEF WInv
<1>5. ASSUME Resume \/ Shutdown
      PROVE  WInv'
  <2>1. UNCHANGED <<pc, worker, token, inbox>> /\ (shutting => shutting')
    BY <1>5 DEF Resume, Shutdown
  <2>2. Harmless
    BY <2>1 DEF Harmless
  <2>. QED
    BY <2>2, HarmlessKeeps
<1>6. ASSUME OnChannelMsg
      PROVE  WInv'
  <2>. DEFINE h == Head(inbox)
  <2>1. h \in Coroutine /\ inbox' = Tail(inbox) /\ UNCHANGED <<worker, shutting>>
    BY <1>0, <1>6 DEF OnChannelMsg, TypeOK
  <2>2. \A d \in Coroutine : d # h /\ (\E i \in DOMAIN inbox : inbox[i] = d) =>
                               \E i \in DOMAIN inbox' : inbox'[i] = d
    <3>. SUFFICES ASSUME NEW d \in Coroutine, d # h, NEW i \in DOMAIN inbox, inbox[i] = d
                  PROVE  \E j \in DOMAIN inbox' : inbox'[j] = d
      OBVIOUS
    <3>1. inbox \in Seq(Coroutine) /\ inbox # <<>>
      BY <1>0, <1>6 DEF OnChannelMsg, TypeOK
    <3>2. i # 1
      BY <3>1
    <3>3. i - 1 \in DOMAIN inbox' /\ inbox'[i - 1] = d
      BY <2>1, <3>1, <3>2
    <3>. QED
      BY <3>3
  <2>3. \A d \in Coroutine : pc'[d] = "parked" =>
          pc[d] = "parked" /\ (d \in token => d \in token') /\ (shutting \/ d # h)
    <3>1. CASE pc[h] = "parked" /\ ~shutting
      <4>1. Wakes(h)
        BY <1>6, <3>1 DEF OnChannelMsg
      <4>. HIDE DEF h
      <4>2. pc'[h] = "recv" /\ (\A d \in Coroutine : d # h => pc'[d] = pc[d])
        BY <1>0, <2>1, <4>1 DEF Wakes, TypeOK
      <4>3. token' = token \ {h}
        BY <4>1 DEF Wakes
      <4>. QED
        BY <4>2, <4>3
    <3>2. CASE ~(pc[h] = "parked" /\ ~shutting)
      <4>1. UNCHANGED <<pc, token>>
        BY <1>6, <3>2 DEF OnChannelMsg
      <4>. HIDE DEF h
      <4>. QED
        BY <3>2, <4>1
    <3>. QED
      BY <3>1, <3>2
  <2>. HIDE DEF h
  <2>4. Harmless
    BY <2>1, <2>2, <2>3 DEF Harmless
  <2>. QED
    BY <2>4, HarmlessKeeps
<1>7. ASSUME NEW c \in Coroutine, StaleEvent(c)
      PROVE  WInv'
  <2>1. pc'[c] = "recv" /\ (\A d \in Coroutine : d # c => pc'[d] = pc[d])
    BY <1>0, <1>7 DEF StaleEvent, Wakes, TypeOK
  <2>2. token' = token \ {c} /\ UNCHANGED <<worker, inbox, shutting>>
    BY <1>7 DEF StaleEvent, Wakes
  <2>3. Harmless
    BY <2>1, <2>2 DEF Harmless
  <2>. QED
    BY <2>3, HarmlessKeeps
<1>8. ASSUME UNCHANGED vars
      PROVE  WInv'
  <2>1. Harmless
    BY <1>8 DEF vars, Harmless
  <2>. QED
    BY <2>1, HarmlessKeeps
<1>. QED
  BY <1>1, <1>2, <1>3, <1>4, <1>5, <1>6, <1>7, <1>8, <1>9
     DEF Next, LoopStep, SendStep, Done

-----------------------------------------------------------------------------
(* The theorems *)

\* The invariant, for any number of coroutines and calls.
THEOREM InvariantHolds == Spec => []IInv
BY InitIInv, StepIInv, PTL DEF Spec

\* Every variable keeps its type: the length of the channel is never negative, so
\* no message is taken that nobody sent.
THEOREM TypeCorrect == Spec => []TypeOK
<1>1. IInv => TypeOK
  BY DEF IInv
<1>. QED
  BY <1>1, InvariantHolds, PTL

\* "find some wise people to confirm if this is sound" (offload): the scoped
\* thread exists only while the frame of offload() does, and the event loop waits
\* in join() only for a closure that has returned.
THEOREM OffloadIsScoped == Spec => []ThreadMatchesCall
<1>1. IInv => ThreadMatchesCall
  BY DEF IInv, TypeOK, ChannelMatchesThread, Counted, ThreadMatchesCall, InCall, Where
<1>. QED
  BY <1>1, InvariantHolds, PTL

\* The safety half of OffloadReturns: a coroutine that is parked in offload() while
\* the closure has returned has its one notification still to come, sent or queued;
\* neither a stale event before it, nor a push before the park, nor one between
\* the empty look at the queue and the second one at the counter costs the wake-up.
THEOREM OffloadersAreWoken == Spec => []WakeupUnderway
<1>1. Init => WInv
  BY DEF Init, WInv, ParkedRegistered, Delivered
<1>2. IInv /\ WInv => WakeupUnderway
  <2>. SUFFICES ASSUME IInv, WInv, ~shutting, NEW c \in Coroutine, pc[c] = "parked"
                PROVE  /\ worker[c] \in {"run", "send", "count", "panicked", "notify", "ended"}
                       /\ c \in token
                       /\ worker[c] \in {"send", "count"} => counter[c] = 0
                       /\ worker[c] = "ended" => \E i \in DOMAIN inbox : inbox[i] = c
    BY DEF WakeupUnderway
  <2>. QED
    BY DEF IInv, TypeOK, Work, WInv, ChannelMatchesThread, Counted, ParkedRegistered,
           Delivered
<1>. QED
  BY <1>1, <1>2, StepWInv, InvariantHolds, PTL DEF Spec

=============================================================================
