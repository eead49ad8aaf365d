---------------------------- MODULE ChannelProof ----------------------------
(* The safety of module Channel for any number of senders, any bound of the *)
(* queue and any width of the counter that can tell the messages apart.     *)
EXTENDS Channel, FiniteSetTheorems, TLAPS

\* The token is published exactly while the receiver is parked; a killed
\* receiver leaves it behind.
TokenInv == token <=> rpc \in {"blocked", "killed"}

\* SenderShared::drop runs once, when no handle holds the Arc any more.
SoleDrop ==
  \A s \in Senders :
    spc[s] = "dropAdd" => /\ Holders = {}
                          /\ \A t \in Senders : spc[t] = "dropAdd" => t = s

Notifying == \E s \in Senders : spc[s] \in {"notify", "dropNotify"}

\* A receiver parks on a balanced counter, from then on only senders move it,
\* and the one that moved it away from zero notifies.
ParkedInv ==
  rpc = "blocked" => /\ Outstanding >= 0
                     /\ Outstanding > 0 => inbox > 0 \/ Notifying

\* recv() fails only when every std sender is gone.
ClosedInv == rpc = "closed" => StdSenders = {}

IInv ==
  /\ TypeOK
  /\ CounterBalance
  /\ TokenInv
  /\ SoleDrop
  /\ ParkedInv
  /\ ClosedInv

-----------------------------------------------------------------------------
(* Lemmas about the operators of module Channel *)

\* The senders between push and fetch_add are finitely many, and fewer than the counter has values.
LEMMA AddingCard ==
  ASSUME TypeOK
  PROVE  /\ IsFiniteSet(Adding)
         /\ Cardinality(Adding) \in Nat
         /\ Cardinality(Adding) < CounterMod
<1>1. Adding \in SUBSET Senders
  BY DEF Adding
<1>2. /\ IsFiniteSet(Adding)
      /\ Cardinality(Adding) <= Cardinality(Senders)
      /\ Cardinality(Senders) \in Nat
  BY <1>1, SendersAssumption, FS_Subset, FS_CardinalityType
<1>3. Cardinality(Adding) \in Nat
  BY <1>2, FS_CardinalityType
<1> QED
  BY <1>2, <1>3, WidthAssumption

\* Outstanding fits the counter: no two of its values wrap to the same one.
InRange ==
  /\ Outstanding \in Int
  /\ -CounterMod < Outstanding
  /\ Outstanding < CounterMod

\* Types alone keep what the counter counts within one turn of the counter.
LEMMA OutstandingRange == TypeOK => InRange
<1> SUFFICES ASSUME TypeOK PROVE InRange
  OBVIOUS
<1>1. Len(queue) \in Nat /\ Len(queue) <= Bound /\ native \in Nat /\ native <= MaxNative
  BY BoundAssumption DEF TypeOK
<1> DEFINE c == Cardinality(Adding)
           g == IF rpc = "got" THEN 1 ELSE 0
           d == IF DropCounted THEN 1 ELSE 0
<1>2. c \in Nat /\ c < CounterMod
  BY AddingCard
<1>3. g \in 0 .. 1 /\ d \in 0 .. 1
  OBVIOUS
<1>4. Outstanding = Len(queue) + native + g + d - c
  BY DEF Outstanding
<1> HIDE DEF c, g, d
<1> QED
  BY <1>1, <1>2, <1>3, <1>4, BoundAssumption, WidthAssumption DEF InRange

\* fetch_add on the wrapped value is the wrapped value of the increment.
LEMMA WrapInc ==
  ASSUME NEW n \in Int, -CounterMod < n, n + 1 < CounterMod
  PROVE  Inc(Wrap(n)) = Wrap(n + 1)
BY WidthAssumption DEF Inc, Wrap

\* ... and fetch_sub, on zero too, that of the decrement.
LEMMA WrapDec ==
  ASSUME NEW n \in Int, -CounterMod < n - 1, n < CounterMod
  PROVE  Dec(Wrap(n)) = Wrap(n - 1)
BY WidthAssumption DEF Dec, Wrap

\* The test "counter is zero" of send(), drop() and register() is not fooled by wrap-around.
LEMMA WrapZero ==
  ASSUME NEW n \in Int, -CounterMod < n, n < CounterMod
  PROVE  Wrap(n) = 0 <=> n = 0
BY WidthAssumption DEF Wrap

-----------------------------------------------------------------------------
(* Type correctness *)

\* channel() and sync_channel() return well-typed channels.
LEMMA TypeInit == Init => TypeOK
<1> SUFFICES ASSUME Init PROVE TypeOK
  OBVIOUS
<1>1. PICK first \in Senders :
        spc = [s \in Senders |-> IF s = first THEN "idle" ELSE "unborn"]
  BY DEF Init
<1>2. spc \in [Senders -> SenderStep]
  BY <1>1 DEF SenderStep
<1>3. counter \in 0 .. CounterMod - 1 /\ native \in 0 .. MaxNative
  BY BoundAssumption, WidthAssumption DEF Init
<1>4. sent \in [Senders -> 0 .. MaxSends]
  BY BoundAssumption DEF Init
<1>5. queue \in Seq(Senders) /\ Len(queue) <= Bound /\ received \in Seq(Senders)
  BY BoundAssumption DEF Init
<1> QED
  BY <1>2, <1>3, <1>4, <1>5 DEF Init, TypeOK, ReceiverStep

\* fetch_add and fetch_sub stay within a machine word.
LEMMA CounterType ==
  ASSUME NEW n \in 0 .. CounterMod - 1
  PROVE  Inc(n) \in 0 .. CounterMod - 1 /\ Dec(n) \in 0 .. CounterMod - 1
BY WidthAssumption DEF Inc, Dec

\* Every step of a sender, the receiver or the event loop keeps the types.
LEMMA TypeStep == TypeOK /\ [Next]_vars => TypeOK'
<1> SUFFICES ASSUME TypeOK, [Next]_vars PROVE TypeOK'
  OBVIOUS
<1> USE BoundAssumption DEF TypeOK, SenderStep, ReceiverStep
<1>1. ASSUME NEW s \in Senders, Send(s) PROVE TypeOK'
  BY <1>1 DEF Send
<1>2. ASSUME NEW s \in Senders, FetchAdd(s) PROVE TypeOK'
  BY <1>2, CounterType DEF FetchAdd
<1>3. ASSUME NEW s \in Senders, MaybeNotify(s) PROVE TypeOK'
  <2>1. inbox' \in Nat
    BY <1>3 DEF MaybeNotify
  <2>2. spc' \in [Senders -> SenderStep]
    BY <1>3 DEF MaybeNotify
  <2> QED
    BY <1>3, <2>1, <2>2 DEF MaybeNotify
<1>4. ASSUME NEW s \in Senders, DropStd(s) PROVE TypeOK'
  BY <1>4 DEF DropStd
<1>5. ASSUME NEW s \in Senders, NEW t \in Senders, Clone(s, t) PROVE TypeOK'
  BY <1>5 DEF Clone
<1>6. ASSUME NEW s \in Senders, DropArc(s) PROVE TypeOK'
  BY <1>6 DEF DropArc
<1>7. CASE TryRecvOk
  BY <1>7 DEF TryRecvOk
<1>8. CASE FetchSub
  BY <1>8, CounterType DEF FetchSub
<1>9. CASE TryRecvEmpty \/ TryRecvDisconnected \/ Register \/ MoveIn
  BY <1>9 DEF TryRecvEmpty, TryRecvDisconnected, Register, MoveIn
<1>10. CASE Wake \/ IgnoreEvent
  <2>1. inbox \in Nat /\ inbox > 0 /\ inbox' = inbox - 1
    BY <1>10 DEF Wake, IgnoreEvent
  <2>2. inbox' \in Nat
    BY <2>1
  <2>3. token' \in BOOLEAN
    BY <1>10, Zenon DEF Wake, IgnoreEvent
  <2>4. rpc' \in ReceiverStep
    BY <1>10 DEF Wake, IgnoreEvent
  <2> QED
    BY <1>10, <2>2, <2>3, <2>4 DEF Wake, IgnoreEvent
<1>11. CASE RecvNative
  BY <1>11 DEF RecvNative
<1>12. CASE DropReceiver \/ KillReceiver
  <2>1. queue' \in Seq(Senders) /\ Len(queue') <= Bound
    <3>1. queue' = <<>>
      BY <1>12 DEF DropReceiver, KillReceiver
    <3> QED
      BY <3>1
  <2> QED
    BY <1>12, <2>1 DEF DropReceiver, KillReceiver
<1>13. CASE UNCHANGED vars
  BY <1>13 DEF vars
<1> QED
  BY <1>1, <1>2, <1>3, <1>4, <1>5, <1>6, <1>7, <1>8, <1>9, <1>10, <1>11, <1>12, <1>13
  DEF Next, Receive, SendProgress

\* Every variable of Channel keeps its type; in particular the queue never
\* outgrows the bound of sync_channel() and the counter stays a machine word.
THEOREM ChannelType == Spec => []TypeOK
<1> QED
  BY TypeInit, TypeStep, PTL DEF Spec

-----------------------------------------------------------------------------
(* How the steps move what the counter has to count *)

\* A push adds a message and a sender that has not counted it: no change on balance.
LEMMA SendKeepsOutstanding ==
  ASSUME TypeOK, NEW s \in Senders, Send(s)
  PROVE  Outstanding' = Outstanding
<1>1. Adding' = Adding \cup {s} /\ s \notin Adding
  BY DEF Send, Adding, TypeOK
<1>2. Cardinality(Adding') = Cardinality(Adding) + 1
  BY <1>1, AddingCard, FS_AddElement
<1>3. DropCounted' = DropCounted
  BY DEF Send, DropCounted, Holders, TypeOK
<1>4. Len(queue') = Len(queue) + 1 /\ Len(queue) \in Nat
  BY DEF Send, TypeOK
<1>5. native \in Nat /\ native' = native /\ rpc' = rpc
  BY BoundAssumption DEF Send, TypeOK
<1> DEFINE c == Cardinality(Adding)
           g == IF rpc = "got" THEN 1 ELSE 0
           d == IF DropCounted THEN 1 ELSE 0
<1>6. Outstanding = Len(queue) + native + g + d - c
  BY DEF Outstanding
<1>7. Outstanding' = (Len(queue) + 1) + native + g + d - (c + 1)
  BY <1>2, <1>3, <1>4, <1>5 DEF Outstanding
<1>8. c \in Nat /\ g \in Nat /\ d \in Nat
  BY AddingCard
<1> HIDE DEF c, g, d
<1> QED
  BY <1>4, <1>5, <1>6, <1>7, <1>8

\* The fetch_add of a send, or of the drop of the last handle, adds one.
LEMMA FetchAddCounts ==
  ASSUME TypeOK, SoleDrop, NEW s \in Senders, FetchAdd(s)
  PROVE  Outstanding' = Outstanding + 1
<1> DEFINE c == Cardinality(Adding)
           g == IF rpc = "got" THEN 1 ELSE 0
           q == Len(queue) + native
<1>1. c \in Nat /\ g \in Nat /\ q \in Nat
  BY AddingCard, BoundAssumption DEF TypeOK
<1>2. q' = q /\ g' = g
  BY DEF FetchAdd
<1>3. CASE spc[s] = "pushed"
  <2>1. spc' = [spc EXCEPT ![s] = IF counter = 0 THEN "notify" ELSE "idle"]
    BY <1>3 DEF FetchAdd
  <2>2. Adding' = Adding \ {s} /\ s \in Adding
    BY <1>3, <2>1 DEF Adding, TypeOK
  <2>3. c' = c - 1
    BY <2>2, AddingCard, FS_RemoveElement
  <2>4. DropCounted' = DropCounted
    BY <1>3, <2>1 DEF DropCounted, Holders, TypeOK
  <2> DEFINE d == IF DropCounted THEN 1 ELSE 0
  <2>5. Outstanding = q + g + d - c /\ Outstanding' = q' + g' + d' - c'
    BY DEF Outstanding
  <2>6. d' = d /\ d \in Nat
    BY <2>4
  <2> HIDE DEF c, g, d, q
  <2> QED
    BY <1>1, <1>2, <2>3, <2>5, <2>6
<1>4. CASE spc[s] = "dropAdd"
  <2>1. spc' = [spc EXCEPT ![s] = IF counter = 0 THEN "dropNotify" ELSE "dropStd"]
    BY <1>4 DEF FetchAdd
  <2>2. Adding' = Adding
    BY <1>4, <2>1 DEF Adding, TypeOK
  <2>3. ~DropCounted
    BY <1>4 DEF DropCounted
  <2>4. DropCounted'
    <3>1. Holders' = {}
      BY <1>4, <2>1 DEF Holders, TypeOK, SoleDrop
    <3>2. \A t \in Senders : spc'[t] # "dropAdd"
      BY <1>4, <2>1 DEF TypeOK, SoleDrop
    <3> QED
      BY <3>1, <3>2 DEF DropCounted
  <2>5. Outstanding = q + g + 0 - c /\ Outstanding' = q' + g' + 1 - c
    BY <2>2, <2>3, <2>4 DEF Outstanding
  <2> HIDE DEF c, g, q
  <2> QED
    BY <1>1, <1>2, <2>5
<1> QED
  BY <1>3, <1>4 DEF FetchAdd

\* The steps of senders that move neither the queue nor the counter.
LEMMA OthersKeepOutstanding ==
  ASSUME TypeOK, SoleDrop, UNCHANGED <<queue, native, rpc>>,
         Adding' = Adding, DropCounted' = DropCounted
  PROVE  Outstanding' = Outstanding
BY DEF Outstanding

\* Notifying the receiver moves nothing that is counted.
LEMMA MaybeNotifyKeeps ==
  ASSUME TypeOK, SoleDrop, NEW s \in Senders, MaybeNotify(s)
  PROVE  Outstanding' = Outstanding
<1>1. Adding' = Adding
  BY DEF MaybeNotify, Adding, TypeOK
<1>2. DropCounted' = DropCounted
  BY DEF MaybeNotify, DropCounted, Holders, TypeOK
<1> QED
  BY <1>1, <1>2, OthersKeepOutstanding DEF MaybeNotify

\* Neither does clone(): the handle it copies holds the Arc already.
LEMMA CloneKeeps ==
  ASSUME TypeOK, SoleDrop, NEW s \in Senders, NEW t \in Senders, Clone(s, t)
  PROVE  Outstanding' = Outstanding
<1>1. Adding' = Adding
  BY DEF Clone, Adding, TypeOK
<1>2. s \in Holders /\ s \in Holders'
  BY DEF Clone, Holders, TypeOK
<1>3. DropCounted' = DropCounted
  BY <1>2 DEF DropCounted
<1> QED
  BY <1>1, <1>3, OthersKeepOutstanding DEF Clone

\* Giving up the Arc does not count yet, also for the last handle.
LEMMA DropArcKeeps ==
  ASSUME TypeOK, SoleDrop, NEW s \in Senders, DropArc(s)
  PROVE  Outstanding' = Outstanding
<1>1. Adding' = Adding
  BY DEF DropArc, Adding, TypeOK
<1>2. s \in Holders
  BY DEF DropArc, Holders
<1>3. ~DropCounted
  BY <1>2 DEF DropCounted
<1>4. ~DropCounted'
  <2>1. CASE Holders = {s}
    BY <2>1 DEF DropArc, DropCounted, TypeOK
  <2>2. CASE Holders # {s}
    <3>1. PICK t \in Holders : t # s
      BY <1>2, <2>2
    <3>2. t \in Holders'
      BY <3>1 DEF DropArc, Holders, TypeOK
    <3> QED
      BY <3>2 DEF DropCounted
  <2> QED
    BY <2>1, <2>2
<1>5. DropCounted' = DropCounted
  BY <1>3, <1>4 DEF DropCounted
<1> QED
  BY <1>1, <1>5, OthersKeepOutstanding DEF DropArc

\* Dropping the std sender comes after the mark has been counted.
LEMMA DropStdKeeps ==
  ASSUME TypeOK, SoleDrop, NEW s \in Senders, DropStd(s)
  PROVE  Outstanding' = Outstanding
<1>1. Adding' = Adding
  BY DEF DropStd, Adding, TypeOK
<1>2. DropCounted' = DropCounted
  BY DEF DropStd, DropCounted, Holders, TypeOK
<1> QED
  BY <1>1, <1>2, OthersKeepOutstanding DEF DropStd

\* What the receiver's steps do: they leave the senders alone.
LEMMA ReceiverOutstanding ==
  ASSUME TypeOK, UNCHANGED spc
  PROVE  /\ TryRecvOk => Outstanding' = Outstanding
         /\ FetchSub => Outstanding' = Outstanding - 1
         /\ RecvNative => Outstanding' = Outstanding
         /\ rpc # "got" /\ rpc' # "got" /\ UNCHANGED <<queue, native>>
              => Outstanding' = Outstanding
<1> DEFINE e == (IF DropCounted THEN 1 ELSE 0) - Cardinality(Adding)
           g == IF rpc = "got" THEN 1 ELSE 0
<1>1. DropCounted' = DropCounted /\ Adding' = Adding
  BY DEF DropCounted, Adding, Holders
<1>2. e \in Int /\ e' = e
  BY <1>1, AddingCard
<1>3. Len(queue) \in Nat /\ native \in Nat
  BY BoundAssumption DEF TypeOK
<1>4. Outstanding = Len(queue) + native + g + e
  <2>1. Cardinality(Adding) \in Nat
    BY AddingCard
  <2> QED
    BY <1>3, <2>1 DEF Outstanding
<1>5. ASSUME Len(queue') \in Nat, native' \in Nat
      PROVE  Outstanding' = Len(queue') + native' + g' + e'
  <2>1. Cardinality(Adding)' \in Nat
    BY <1>1, AddingCard
  <2> QED
    BY <1>5, <2>1 DEF Outstanding
<1> HIDE DEF e
<1>6. ASSUME TryRecvOk PROVE Outstanding' = Outstanding
  <2>1. Len(queue') = Len(queue) - 1 /\ Len(queue') \in Nat
    BY <1>6 DEF TryRecvOk, TypeOK
  <2>2. g = 0 /\ g' = 1 /\ native' = native
    BY <1>6 DEF TryRecvOk
  <2> HIDE DEF g
  <2> QED
    BY <1>2, <1>3, <1>4, <1>5, <2>1, <2>2
<1>7. ASSUME FetchSub PROVE Outstanding' = Outstanding - 1
  BY <1>2, <1>3, <1>4, <1>5, <1>7 DEF FetchSub
<1>8. ASSUME RecvNative PROVE Outstanding' = Outstanding
  <2>1. Len(queue') = Len(queue) - 1 /\ Len(queue') \in Nat
    BY <1>8 DEF RecvNative, TypeOK
  <2>2. g = 0 /\ g' = 0 /\ native' = native + 1
    BY <1>8 DEF RecvNative
  <2> HIDE DEF g
  <2> QED
    BY <1>2, <1>3, <1>4, <1>5, <2>1, <2>2
<1>9. ASSUME rpc # "got", rpc' # "got", UNCHANGED <<queue, native>>
      PROVE  Outstanding' = Outstanding
  BY <1>2, <1>3, <1>4, <1>5, <1>9
<1> QED
  BY <1>6, <1>7, <1>8, <1>9

-----------------------------------------------------------------------------
(* The inductive invariant *)

\* The inductive invariant holds of a new channel.
LEMMA InvInit == Init => IInv
<1> SUFFICES ASSUME Init PROVE IInv
  OBVIOUS
<1>1. TypeOK
  BY TypeInit
<1>2. PICK first \in Senders :
        spc = [s \in Senders |-> IF s = first THEN "idle" ELSE "unborn"]
  BY DEF Init
<1>3. first \in Holders /\ Adding = {}
  BY <1>2 DEF Holders, Adding
<1>4. Outstanding = 0
  <2>1. Cardinality(Adding) = 0
    BY <1>3, FS_EmptySet
  <2>2. ~DropCounted
    BY <1>3 DEF DropCounted
  <2> QED
    BY <2>1, <2>2 DEF Outstanding, Init
<1>5. CounterBalance
  BY <1>4 DEF CounterBalance, Wrap, Init
<1>6. TokenInv /\ ParkedInv /\ ClosedInv
  BY DEF TokenInv, ParkedInv, ClosedInv, Init
<1>7. SoleDrop
  BY <1>2 DEF SoleDrop
<1> QED
  BY <1>1, <1>5, <1>6, <1>7 DEF IInv

\* No second SenderShared::drop: a handle that is gone is never cloned.
LEMMA SoleDropStep == TypeOK /\ SoleDrop /\ [Next]_vars => SoleDrop'
<1> SUFFICES ASSUME TypeOK, SoleDrop, [Next]_vars PROVE SoleDrop'
  OBVIOUS
<1> USE DEF TypeOK, SoleDrop, Holders
<1>1. ASSUME NEW s \in Senders, Send(s) \/ SendProgress(s) PROVE SoleDrop'
  BY <1>1 DEF Send, SendProgress, FetchAdd, MaybeNotify, DropStd
<1>2. ASSUME NEW s \in Senders, NEW t \in Senders, Clone(s, t) PROVE SoleDrop'
  BY <1>2 DEF Clone
<1>3. ASSUME NEW s \in Senders, DropArc(s) PROVE SoleDrop'
  BY <1>3 DEF DropArc
<1>4. CASE UNCHANGED spc
  BY <1>4
<1> QED
  BY <1>1, <1>2, <1>3, <1>4
  DEF Next, Receive, TryRecvOk, FetchSub, TryRecvEmpty, TryRecvDisconnected, Register,
      Wake, RecvNative, MoveIn, IgnoreEvent, DropReceiver, KillReceiver, vars

\* register() publishes the token, unblock() takes it back, nobody else touches it.
LEMMA TokenStep == TypeOK /\ TokenInv /\ [Next]_vars => TokenInv'
<1> SUFFICES ASSUME TypeOK, TokenInv, [Next]_vars PROVE TokenInv'
  OBVIOUS
<1> USE DEF TokenInv
<1>1. CASE UNCHANGED <<token, rpc>>
  BY <1>1
<1>2. CASE /\ rpc \notin {"blocked", "killed"} /\ rpc' \notin {"blocked", "killed"}
           /\ UNCHANGED token
  BY <1>2
<1>3. CASE Register
  BY <1>3 DEF Register
<1>4. CASE Wake \/ KillReceiver
  BY <1>4 DEF Wake, KillReceiver
<1> QED
  BY <1>1, <1>2, <1>3, <1>4
  DEF Next, Send, SendProgress, FetchAdd, MaybeNotify, DropStd, Clone, DropArc,
      Receive, TryRecvOk, FetchSub, TryRecvEmpty, TryRecvDisconnected,
      RecvNative, MoveIn, IgnoreEvent, DropReceiver, vars

\* Once disconnected, a channel stays so.
LEMMA ClosedStep == TypeOK /\ ClosedInv /\ [Next]_vars => ClosedInv'
<1> SUFFICES ASSUME TypeOK, ClosedInv, [Next]_vars, rpc' = "closed" PROVE StdSenders' = {}
  BY DEF ClosedInv
<1> USE DEF TypeOK, ClosedInv, StdSenders
<1>1. ASSUME NEW s \in Senders, Send(s) \/ SendProgress(s) \/ DropArc(s)
      PROVE  StdSenders' = {}
  BY <1>1 DEF Send, SendProgress, FetchAdd, MaybeNotify, DropStd, DropArc
<1>2. ASSUME NEW s \in Senders, NEW t \in Senders, Clone(s, t) PROVE StdSenders' = {}
  BY <1>2 DEF Clone
<1>3. CASE TryRecvDisconnected
  BY <1>3 DEF TryRecvDisconnected
<1>4. CASE UNCHANGED <<spc, rpc>>
  BY <1>4
<1> QED
  BY <1>1, <1>2, <1>3, <1>4
  DEF Next, Receive, TryRecvOk, FetchSub, TryRecvEmpty, Register,
      Wake, RecvNative, MoveIn, IgnoreEvent, DropReceiver, KillReceiver, vars

\* A step that leaves Outstanding and the counter alone.
LEMMA BalanceUnmoved ==
  ASSUME IInv, Outstanding' = Outstanding, counter' = counter, RxAlive' => RxAlive
  PROVE  CounterBalance'
BY DEF IInv, CounterBalance, Wrap

\* Every step keeps the counter in balance.
LEMMA BalanceStep == IInv /\ [Next]_vars => CounterBalance'
<1> SUFFICES ASSUME IInv, [Next]_vars PROVE CounterBalance'
  OBVIOUS
<1>t. TypeOK /\ SoleDrop /\ CounterBalance
  BY DEF IInv
<1>r. InRange /\ InRange'
  <2>1. TypeOK'
    BY <1>t, TypeStep
  <2> QED
    BY <1>t, <2>1, OutstandingRange, PTL
<1>1. ASSUME NEW s \in Senders, Send(s) PROVE CounterBalance'
  BY <1>t, <1>1, SendKeepsOutstanding, BalanceUnmoved DEF Send, RxAlive
<1>2. ASSUME NEW s \in Senders, FetchAdd(s) PROVE CounterBalance'
  <2>1. Outstanding' = Outstanding + 1
    BY <1>t, <1>2, FetchAddCounts
  <2>2. Inc(Wrap(Outstanding)) = Wrap(Outstanding + 1)
    BY <1>r, <2>1, WrapInc DEF InRange
  <2>3. counter' = Inc(counter) /\ RxAlive' = RxAlive
    BY <1>2 DEF FetchAdd, RxAlive
  <2>4. Wrap(Outstanding)' = Wrap(Outstanding')
    BY DEF Wrap
  <2> QED
    BY <1>t, <2>1, <2>2, <2>3, <2>4 DEF CounterBalance
<1>3. ASSUME NEW s \in Senders, MaybeNotify(s) PROVE CounterBalance'
  BY <1>t, <1>3, MaybeNotifyKeeps, BalanceUnmoved DEF MaybeNotify, RxAlive
<1>4. ASSUME NEW s \in Senders, DropStd(s) PROVE CounterBalance'
  BY <1>t, <1>4, DropStdKeeps, BalanceUnmoved DEF DropStd, RxAlive
<1>5. ASSUME NEW s \in Senders, NEW t \in Senders, Clone(s, t) PROVE CounterBalance'
  BY <1>t, <1>5, CloneKeeps, BalanceUnmoved DEF Clone, RxAlive
<1>6. ASSUME NEW s \in Senders, DropArc(s) PROVE CounterBalance'
  BY <1>t, <1>6, DropArcKeeps, BalanceUnmoved DEF DropArc, RxAlive
<1>7. CASE TryRecvOk
  BY <1>t, <1>7, ReceiverOutstanding, BalanceUnmoved DEF TryRecvOk, RxAlive
<1>8. CASE FetchSub
  <2>1. Outstanding' = Outstanding - 1
    BY <1>t, <1>8, ReceiverOutstanding DEF FetchSub
  <2>2. Dec(Wrap(Outstanding)) = Wrap(Outstanding - 1)
    BY <1>r, <2>1, WrapDec DEF InRange
  <2>3. counter' = Dec(counter) /\ RxAlive
    BY <1>8 DEF FetchSub, RxAlive
  <2>4. Wrap(Outstanding)' = Wrap(Outstanding')
    BY DEF Wrap
  <2> QED
    BY <1>t, <2>1, <2>2, <2>3, <2>4 DEF CounterBalance
<1>9. CASE RecvNative
  BY <1>t, <1>9, ReceiverOutstanding, BalanceUnmoved DEF RecvNative, RxAlive
<1>10. CASE TryRecvEmpty \/ TryRecvDisconnected \/ Register \/ Wake \/ MoveIn
  <2>1. /\ rpc # "got" /\ rpc' # "got" /\ UNCHANGED <<queue, native, spc, counter>>
        /\ RxAlive
    BY <1>10 DEF TryRecvEmpty, TryRecvDisconnected, Register, Wake, MoveIn, RxAlive
  <2> QED
    BY <1>t, <2>1, ReceiverOutstanding, BalanceUnmoved
<1>11. CASE IgnoreEvent \/ UNCHANGED vars
  <2>1. UNCHANGED <<queue, native, spc, counter, rpc>>
    BY <1>11 DEF IgnoreEvent, vars
  <2>2. Outstanding' = Outstanding /\ RxAlive' = RxAlive
    BY <2>1 DEF Outstanding, DropCounted, Adding, Holders, RxAlive
  <2> QED
    BY <2>1, <2>2, BalanceUnmoved
<1>12. CASE DropReceiver \/ KillReceiver
  BY <1>12 DEF DropReceiver, KillReceiver, CounterBalance, RxAlive
<1> QED
  BY <1>1, <1>2, <1>3, <1>4, <1>5, <1>6, <1>7, <1>8, <1>9, <1>10, <1>11, <1>12
  DEF Next, Receive, SendProgress

\* A step of somebody else, with the receiver parked as before.
LEMMA ParkedUnmoved ==
  ASSUME IInv, Outstanding' = Outstanding, rpc' = rpc, inbox' = inbox,
         Notifying => Notifying'
  PROVE  ParkedInv'
BY DEF IInv, ParkedInv

\* Every step keeps a parked receiver noticed by somebody.
LEMMA ParkedStep == IInv /\ [Next]_vars => ParkedInv'
<1> SUFFICES ASSUME IInv, [Next]_vars, rpc' = "blocked" PROVE ParkedInv'
  BY DEF ParkedInv
<1>t. TypeOK /\ SoleDrop /\ CounterBalance /\ TokenInv /\ ParkedInv
  BY DEF IInv
<1>r. InRange /\ InRange'
  <2>1. TypeOK'
    BY <1>t, TypeStep
  <2> QED
    BY <1>t, <2>1, OutstandingRange, PTL
<1>1. ASSUME NEW s \in Senders, Send(s) PROVE ParkedInv'
  <2>1. Notifying => Notifying'
    BY <1>t, <1>1 DEF Send, Notifying, TypeOK
  <2> QED
    BY <1>t, <1>1, <2>1, SendKeepsOutstanding, ParkedUnmoved DEF Send
<1>2. ASSUME NEW s \in Senders, FetchAdd(s) PROVE ParkedInv'
  <2>1. Outstanding' = Outstanding + 1
    BY <1>t, <1>2, FetchAddCounts
  <2>2. rpc = "blocked" /\ inbox' = inbox
    BY <1>2 DEF FetchAdd
  <2>3. Outstanding >= 0 /\ counter = Wrap(Outstanding)
    BY <1>t, <2>2 DEF ParkedInv, CounterBalance, RxAlive
  <2>4. CASE counter = 0
    <3>1. spc'[s] \in {"notify", "dropNotify"}
      BY <1>t, <1>2, <2>4 DEF FetchAdd, TypeOK
    <3>2. Notifying'
      BY <3>1 DEF Notifying
    <3> QED
      BY <1>r, <2>1, <2>3, <3>2 DEF ParkedInv, InRange
  <2>5. CASE counter # 0
    <3>1. Outstanding > 0
      BY <1>r, <2>3, <2>5, WrapZero DEF InRange
    <3>2. inbox > 0 \/ Notifying
      BY <1>t, <2>2, <3>1 DEF ParkedInv
    <3>3. Notifying => Notifying'
      BY <1>t, <1>2 DEF FetchAdd, Notifying, TypeOK
    <3> QED
      BY <1>r, <2>1, <2>2, <2>3, <3>2, <3>3 DEF ParkedInv, InRange
  <2> QED
    BY <2>4, <2>5
<1>3. ASSUME NEW s \in Senders, MaybeNotify(s) PROVE ParkedInv'
  <2>1. token /\ inbox \in Nat
    BY <1>t, <1>3 DEF MaybeNotify, TokenInv, TypeOK
  <2>2. inbox' > 0
    BY <1>3, <2>1 DEF MaybeNotify
  <2>3. Outstanding' = Outstanding
    BY <1>t, <1>3, MaybeNotifyKeeps
  <2>4. rpc = "blocked"
    BY <1>3 DEF MaybeNotify
  <2> QED
    BY <1>t, <2>2, <2>3, <2>4 DEF ParkedInv
<1>4. ASSUME NEW s \in Senders, DropStd(s) PROVE ParkedInv'
  <2>1. Notifying => Notifying'
    BY <1>t, <1>4 DEF DropStd, Notifying, TypeOK
  <2> QED
    BY <1>t, <1>4, <2>1, DropStdKeeps, ParkedUnmoved DEF DropStd
<1>5. ASSUME NEW s \in Senders, NEW t \in Senders, Clone(s, t) PROVE ParkedInv'
  <2>1. Notifying => Notifying'
    BY <1>t, <1>5 DEF Clone, Notifying, TypeOK
  <2> QED
    BY <1>t, <1>5, <2>1, CloneKeeps, ParkedUnmoved DEF Clone
<1>6. ASSUME NEW s \in Senders, DropArc(s) PROVE ParkedInv'
  <2>1. Notifying => Notifying'
    BY <1>t, <1>6 DEF DropArc, Notifying, TypeOK
  <2> QED
    BY <1>t, <1>6, <2>1, DropArcKeeps, ParkedUnmoved DEF DropArc
<1>7. CASE Register
  <2>1. rpc = "block" /\ counter = 0 /\ UNCHANGED <<queue, native, spc>>
    BY <1>7 DEF Register
  <2>2. Outstanding = 0
    BY <1>t, <1>r, <2>1, WrapZero DEF CounterBalance, RxAlive, InRange
  <2>3. Outstanding' = Outstanding
    BY <1>t, <2>1, ReceiverOutstanding
  <2> QED
    BY <2>2, <2>3 DEF ParkedInv
<1>8. CASE UNCHANGED vars
  <2>1. UNCHANGED <<Outstanding, rpc, inbox, Notifying>>
    BY <1>8 DEF vars, Outstanding, DropCounted, Adding, Holders, Notifying
  <2> QED
    BY <2>1, ParkedUnmoved
<1> QED
  BY <1>1, <1>2, <1>3, <1>4, <1>5, <1>6, <1>7, <1>8
  DEF Next, Receive, SendProgress, TryRecvOk, FetchSub, TryRecvEmpty, TryRecvDisconnected,
      Wake, RecvNative, MoveIn, IgnoreEvent, DropReceiver, KillReceiver

\* The invariant is inductive.
LEMMA InvStep == IInv /\ [Next]_vars => IInv'
<1> SUFFICES ASSUME IInv, [Next]_vars PROVE IInv'
  OBVIOUS
<1>1. TypeOK' /\ SoleDrop' /\ TokenInv' /\ ClosedInv'
  BY TypeStep, SoleDropStep, TokenStep, ClosedStep DEF IInv
<1> QED
  BY <1>1, BalanceStep, ParkedStep DEF IInv

\* The inductive invariant: the balance of the counter needs SoleDrop to know
\* when the last sender's mark is counted, and the wake-up needs ParkedInv.
THEOREM ChannelInvariant == Spec => []IInv
<1> QED
  BY InvInit, InvStep, PTL DEF Spec

-----------------------------------------------------------------------------
(* What the invariant says of the channel *)

\* fetch_add, fetch_sub and the drop of the last sender keep the counter in
\* step with the queue for as long as there is a receiver.
THEOREM CounterNeverDrifts == Spec => []CounterBalance
<1>1. IInv => CounterBalance
  BY DEF IInv
<1> QED
  BY <1>1, ChannelInvariant, PTL

\* With no sender busy, what a parked receiver waits for has been counted and so notified.
LEMMA InvNoLostWakeup == IInv => NoLostWakeup
<1> SUFFICES ASSUME IInv, rpc = "blocked", queue # <<>> \/ StdSenders = {}, ~SenderBusy
             PROVE  inbox > 0
  BY DEF NoLostWakeup
<1>1. TypeOK /\ ParkedInv
  BY DEF IInv
<1>2. ~Notifying /\ Adding = {} /\ \A s \in Senders : spc[s] # "dropAdd"
  BY DEF SenderBusy, Notifying, Adding
<1>3. Cardinality(Adding) = 0
  BY <1>2, FS_EmptySet
<1>4. Len(queue) \in Nat /\ native \in Nat
  BY <1>1, BoundAssumption DEF TypeOK
<1>5. Outstanding > 0
  <2>1. CASE queue # <<>>
    <3>1. Len(queue) > 0
      BY <1>1, <2>1 DEF TypeOK
    <3> QED
      BY <1>3, <1>4, <3>1 DEF Outstanding
  <2>2. CASE StdSenders = {}
    <3>1. Holders = {}
      BY <2>2 DEF StdSenders, Holders
    <3>2. DropCounted
      BY <1>2, <3>1 DEF DropCounted
    <3> QED
      BY <1>3, <1>4, <3>2 DEF Outstanding
  <2> QED
    BY <2>1, <2>2
<1> QED
  BY <1>1, <1>2, <1>5 DEF ParkedInv

\* No interleaving of push, fetch_add and notify with pop, fetch_sub and
\* register leaves a coroutine parked on a channel that has something for it.
THEOREM ChannelNoLostWakeup == Spec => []NoLostWakeup
<1> QED
  BY InvNoLostWakeup, ChannelInvariant, PTL

\* recv()'s debug_assert!(self.empty_shared_token()) never fails.
THEOREM ChannelResumedWithoutToken == Spec => []ResumedWithoutToken
<1>1. IInv => ResumedWithoutToken
  BY DEF IInv, TokenInv, ResumedWithoutToken
<1> QED
  BY <1>1, ChannelInvariant, PTL

-----------------------------------------------------------------------------
(* The safety half of the refinement of module FifoChannel *)

\* A new channel is a new FIFO channel.
LEMMA RefineInit == Init => Abs!Init
<1> SUFFICES ASSUME Init PROVE Abs!Init
  OBVIOUS
<1>1. PICK first \in Senders :
        spc = [s \in Senders |-> IF s = first THEN "idle" ELSE "unborn"]
  BY DEF Init
<1>2. StdSenders # {}
  BY <1>1 DEF StdSenders
<1> QED
  BY <1>2 DEF Init, Abs!Init

\* Each memory operation is an operation of the FIFO channel or changes nothing there.
LEMMA RefineStep == IInv /\ [Next]_vars => [Abs!Next]_(Abs!vars)
<1> SUFFICES ASSUME IInv, [Next]_vars PROVE [Abs!Next]_(Abs!vars)
  OBVIOUS
<1>t. TypeOK /\ ClosedInv
  BY DEF IInv
<1> USE DEF Abs!vars
<1>1. ASSUME NEW s \in Senders, Send(s) PROVE Abs!Put(s)
  <2>1. s \in StdSenders /\ StdSenders' = StdSenders
    BY <1>t, <1>1 DEF Send, StdSenders, TypeOK
  <2>2. rpc \notin {"dropped", "killed", "closed"}
    BY <1>t, <1>1, <2>1 DEF Send, RxAlive, ClosedInv
  <2> QED
    BY <1>1, <2>1, <2>2 DEF Send, Abs!Put
<1>2. ASSUME NEW s \in Senders, FetchAdd(s) \/ MaybeNotify(s) \/ DropArc(s)
      PROVE  UNCHANGED Abs!vars
  <2>1. StdSenders' = StdSenders
    BY <1>t, <1>2 DEF FetchAdd, MaybeNotify, DropArc, StdSenders, TypeOK
  <2> QED
    BY <1>2, <2>1 DEF FetchAdd, MaybeNotify, DropArc
<1>3. ASSUME NEW s \in Senders, DropStd(s) PROVE Abs!Close \/ UNCHANGED Abs!vars
  <2>1. s \in StdSenders
    BY <1>t, <1>3 DEF DropStd, StdSenders
  <2> QED
    BY <1>3, <2>1 DEF DropStd, Abs!Close
<1>4. ASSUME NEW s \in Senders, NEW t \in Senders, Clone(s, t) PROVE UNCHANGED Abs!vars
  <2>1. StdSenders # {} /\ StdSenders' # {}
    BY <1>t, <1>4 DEF Clone, StdSenders, TypeOK
  <2> QED
    BY <1>4, <2>1 DEF Clone
<1>5. ASSUME UNCHANGED spc PROVE StdSenders' = StdSenders
  BY <1>5 DEF StdSenders
<1>6. CASE TryRecvOk \/ RecvNative
  BY <1>5, <1>6 DEF TryRecvOk, RecvNative, Abs!Next, Abs!Take
<1>7. CASE FetchSub \/ TryRecvEmpty \/ Register \/ Wake \/ MoveIn \/ IgnoreEvent
  <2>1. UNCHANGED Abs!vars
    BY <1>5, <1>7 DEF FetchSub, TryRecvEmpty, Register, Wake, MoveIn, IgnoreEvent
  <2> QED
    BY <2>1
<1>8. CASE TryRecvDisconnected
  BY <1>5, <1>8 DEF TryRecvDisconnected, Abs!Next, Abs!Hangup
<1>9. CASE DropReceiver \/ KillReceiver
  BY <1>5, <1>9 DEF DropReceiver, KillReceiver, Abs!Next, Abs!Drop
<1>10. CASE UNCHANGED vars
  BY <1>5, <1>10 DEF vars
<1> QED
  BY <1>1, <1>2, <1>3, <1>4, <1>6, <1>7, <1>8, <1>9, <1>10
  DEF Next, Receive, SendProgress, Abs!Next

\* Whatever the interleaving, messages come out in the order they went in,
\* none is lost or invented while there is a receiver, and recv() reports a
\* disconnection only after the last message.
THEOREM ChannelIsFifo == Spec => Abs!Safety
<1> QED
  BY RefineInit, RefineStep, ChannelInvariant, PTL DEF Spec, Abs!Safety
=============================================================================
