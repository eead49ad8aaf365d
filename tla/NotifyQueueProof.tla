-------------------------- MODULE NotifyQueueProof --------------------------
(***************************************************************************)
(* Proofs about module NotifyQueue, for any receivers, senders, capacity   *)
(* of the notify queue and number of retries: a full queue delays a        *)
(* wake-up and loses it only together with the sender that gave up, and    *)
(* the event loop never spins for a lock that its own coroutines hold.     *)
(***************************************************************************)
EXTENDS NotifyQueue, FiniteSetTheorems, SequenceTheorems, TLAPS

-----------------------------------------------------------------------------
(* The inductive invariant *)

\* Only a send() in maybe_notify_receiver has a channel to notify.
SendInProgress ==
  \A s \in Sender : to[s] # None <=> pc[s] \in {"lock", "retry"}

\* The token of a receiver is published from register to deregister, which is as
\* long as its coroutine is blocked or is about to deregister: a sender that finds
\* none may leave the receiver alone.
TokenWhileBlocked ==
  \A r \in Receiver : token[r] <=> pc[r] \in {"blocked", "deregister"}

\* The spin lock of a channel is held by a sender in sender_retry, and whoever
\* is there holds the lock of its channel.
SpinLockHeld ==
  \A r \in Receiver, s \in Sender : lock[r] = s <=> pc[s] = "retry" /\ to[s] = r

IInv ==
  /\ TypeOK
  /\ SendInProgress
  /\ TokenWhileBlocked
  /\ SpinLockHeld
  /\ WakeupDelayedOnly

-----------------------------------------------------------------------------
\* Receivers and native threads send, and None is no receiver.
LEMMA SenderFacts ==
  Receiver \subseteq Sender /\ Native \subseteq Sender /\ None \notin Receiver
BY QueueAssumption DEF Sender

\* At first the queue is empty and nobody sends.
LEMMA InitIInv == Init => IInv
<1>. SUFFICES ASSUME Init PROVE IInv
  OBVIOUS
<1>1. Cardinality(Receiver) \in Nat
  BY QueueAssumption, FS_CardinalityType
<1>2. ready \in Seq(Receiver)
  BY <1>1, SeqDef DEF Init
<1>3. /\ counter = [r \in Receiver |-> 0] /\ token = [r \in Receiver |-> FALSE]
      /\ lock = [r \in Receiver |-> None]
      /\ queue = <<>> /\ running = None /\ sends = 0 /\ unsent = {}
      /\ pc = [s \in Sender |-> "user"] /\ to = [s \in Sender |-> None]
      /\ tries = [s \in Sender |-> 0]
  BY DEF Init
<1>4. TypeOK
  BY <1>2, <1>3, QueueAssumption DEF TypeOK
<1>5. SendInProgress /\ TokenWhileBlocked /\ SpinLockHeld /\ WakeupDelayedOnly
  BY <1>3, SenderFacts, QueueAssumption
     DEF SendInProgress, TokenWhileBlocked, SpinLockHeld, WakeupDelayedOnly
<1>. QED
  BY <1>4, <1>5 DEF IInv

\* The end of maybe_notify_receiver, which drops the guard of the spin lock.
LEMMA ReturnFacts ==
  ASSUME IInv, NEW s \in Sender, NEW where \in {"user", "gone"},
         pc[s] = "retry", Return(s, where), UNCHANGED token
  PROVE  /\ to[s] \in Receiver
         /\ pc' \in [Sender -> {"user", "lock", "retry", "register", "blocked", "deregister", "gone"}]
         /\ lock' \in [Receiver -> Sender \cup {None}]
         /\ to' \in [Sender -> Receiver \cup {None}]
         /\ tries' \in [Sender -> 0 .. MaxRetry]
         /\ SendInProgress' /\ TokenWhileBlocked' /\ SpinLockHeld'
         /\ \A r \in Receiver : pc'[r] = "blocked" => pc[r] = "blocked"
         /\ \A x \in Sender : x # s => to'[x] = to[x]
<1>. USE QueueAssumption, SenderFacts DEF IInv, Return, Goto
<1>1. to[s] \in Receiver
  BY DEF TypeOK, SendInProgress
<1>2. /\ pc' \in [Sender -> {"user", "lock", "retry", "register", "blocked", "deregister", "gone"}]
      /\ lock' \in [Receiver -> Sender \cup {None}]
      /\ to' \in [Sender -> Receiver \cup {None}]
      /\ tries' \in [Sender -> 0 .. MaxRetry]
  BY <1>1 DEF TypeOK
<1>3. SendInProgress'
  BY DEF TypeOK, SendInProgress
<1>4. TokenWhileBlocked'
  BY DEF TypeOK, TokenWhileBlocked
<1>5. SpinLockHeld'
  BY <1>1 DEF TypeOK, SpinLockHeld
<1>. QED
  BY <1>1, <1>2, <1>3, <1>4, <1>5 DEF TypeOK

\* A step of a receiver from one place outside of a send to another, neither of
\* which has its token published.
LEMMA PcOnly ==
  ASSUME IInv, NEW r \in Receiver,
         pc[r] \in {"user", "register"},
         NEW where \in {"user", "register"}, pc' = [pc EXCEPT ![r] = where],
         running' \in Receiver \cup {None}, ready' \in Seq(Receiver),
         UNCHANGED <<counter, token, lock, to, tries, sends, unsent, queue>>
  PROVE  IInv'
<1>. USE SenderFacts DEF IInv
<1>1. TypeOK'
  BY DEF TypeOK
<1>2. SendInProgress' /\ TokenWhileBlocked'
  BY DEF TypeOK, SendInProgress, TokenWhileBlocked
<1>3. SpinLockHeld'
  BY DEF TypeOK, SpinLockHeld
<1>4. \A x \in Receiver : pc'[x] = "blocked" => pc[x] = "blocked"
  BY DEF TypeOK
<1>5. WakeupDelayedOnly'
  BY <1>4 DEF WakeupDelayedOnly
<1>. QED
  BY <1>1, <1>2, <1>3, <1>5

\* Every step keeps the invariant, an action at a time.
LEMMA StepIInv == IInv /\ [Next]_vars => IInv'
<1>. SUFFICES ASSUME IInv, [Next]_vars PROVE IInv'
  OBVIOUS
<1>. USE SenderFacts DEF IInv
<1>1. ASSUME NEW s \in Sender, NEW r \in Receiver, Send(s, r)
      PROVE  IInv'
  <2>1. /\ counter' \in [Receiver -> Nat] /\ counter'[r] > 0
        /\ \A x \in Receiver : x # r => counter'[x] = counter[x]
        /\ sends' \in 0 .. MaxSends
    BY <1>1, QueueAssumption DEF Send, TypeOK
  <2>2. UNCHANGED <<token, lock, queue, running, ready, tries, unsent>>
    BY <1>1 DEF Send
  <2>3. CASE counter[r] = 0
    <3>1. /\ pc' = [pc EXCEPT ![s] = "lock"] /\ to' = [to EXCEPT ![s] = r]
          /\ pc[s] = "user"
      BY <1>1, <2>3 DEF Send, Goto
    <3>2. TypeOK'
      BY <2>1, <2>2, <3>1 DEF TypeOK
    <3>3. SendInProgress' /\ TokenWhileBlocked'
      BY <2>2, <3>1 DEF TypeOK, SendInProgress, TokenWhileBlocked
    <3>4. SpinLockHeld'
      BY <2>2, <3>1 DEF TypeOK, SpinLockHeld
    <3>5. to'[s] = r /\ \A x \in Sender : to[x] # None => to'[x] = to[x]
      BY <3>1 DEF TypeOK, SendInProgress
    <3>6. \A x \in Receiver : pc'[x] = "blocked" => pc[x] = "blocked"
      BY <3>1 DEF TypeOK
    <3>7. WakeupDelayedOnly'
      BY <2>1, <2>2, <3>5, <3>6 DEF WakeupDelayedOnly
    <3>. QED
      BY <3>2, <3>3, <3>4, <3>7
  <2>4. CASE counter[r] # 0
    <3>1. UNCHANGED <<pc, to>> /\ counter[r] > 0
      BY <1>1, <2>4 DEF Send, TypeOK
    <3>2. TypeOK'
      BY <2>1, <2>2, <3>1 DEF TypeOK
    <3>3. SendInProgress' /\ TokenWhileBlocked' /\ SpinLockHeld' /\ WakeupDelayedOnly'
      BY <2>1, <2>2, <3>1 DEF SendInProgress, TokenWhileBlocked, SpinLockHeld, WakeupDelayedOnly
    <3>. QED
      BY <3>2, <3>3
  <2>. QED
    BY <2>3, <2>4
<1>2. ASSUME NEW s \in Sender, Lock(s)
      PROVE  IInv'
  <2>1. to[s] \in Receiver /\ pc[s] = "lock" /\ lock[to[s]] = None
    BY <1>2 DEF Lock, TypeOK, SendInProgress
  <2>2. UNCHANGED <<counter, token, queue, running, ready, tries, sends, unsent>>
    BY <1>2 DEF Lock
  <2>3. CASE token[to[s]]
    <3>1. pc' = [pc EXCEPT ![s] = "retry"] /\ lock' = [lock EXCEPT ![to[s]] = s] /\ to' = to
      BY <1>2, <2>3 DEF Lock, Goto
    <3>2. TypeOK'
      BY <2>1, <2>2, <3>1 DEF TypeOK
    <3>3. SendInProgress' /\ TokenWhileBlocked'
      BY <2>1, <2>2, <3>1 DEF TypeOK, SendInProgress, TokenWhileBlocked
    <3>4. SpinLockHeld'
      BY <2>1, <2>2, <3>1, QueueAssumption DEF TypeOK, SpinLockHeld
    <3>5. \A x \in Receiver : pc'[x] = "blocked" => pc[x] = "blocked"
      BY <3>1 DEF TypeOK
    <3>6. WakeupDelayedOnly'
      BY <2>2, <3>1, <3>5 DEF WakeupDelayedOnly
    <3>. QED
      BY <3>2, <3>3, <3>4, <3>6
  <2>4. CASE ~ token[to[s]]
    <3>1. pc' = [pc EXCEPT ![s] = "user"] /\ to' = [to EXCEPT ![s] = None] /\ lock' = lock
      BY <1>2, <2>4 DEF Lock, Goto
    <3>2. TypeOK'
      BY <2>1, <2>2, <3>1 DEF TypeOK
    <3>3. SendInProgress' /\ TokenWhileBlocked'
      BY <2>1, <2>2, <3>1 DEF TypeOK, SendInProgress, TokenWhileBlocked
    <3>4. SpinLockHeld'
      BY <2>1, <3>1 DEF TypeOK, SpinLockHeld
    <3>5. \A x \in Receiver : pc'[x] = "blocked" => pc[x] = "blocked" /\ x # to[s]
      BY <2>1, <2>4, <3>1 DEF TypeOK, TokenWhileBlocked
    <3>6. \A x \in Sender : to'[x] = to[x] \/ x = s
      BY <3>1 DEF TypeOK
    <3>7. WakeupDelayedOnly'
      BY <2>2, <3>5, <3>6 DEF WakeupDelayedOnly
    <3>. QED
      BY <3>2, <3>3, <3>4, <3>7
  <2>. QED
    BY <2>3, <2>4
<1>3. ASSUME NEW s \in Sender, Accepted(s)
      PROVE  IInv'
  <2>1. /\ to[s] \in Receiver
        /\ pc' \in [Sender -> {"user", "lock", "retry", "register", "blocked", "deregister", "gone"}]
        /\ lock' \in [Receiver -> Sender \cup {None}]
        /\ to' \in [Sender -> Receiver \cup {None}]
        /\ tries' \in [Sender -> 0 .. MaxRetry]
        /\ SendInProgress' /\ TokenWhileBlocked' /\ SpinLockHeld'
        /\ \A r \in Receiver : pc'[r] = "blocked" => pc[r] = "blocked"
        /\ \A x \in Sender : x # s => to'[x] = to[x]
    BY <1>3, ReturnFacts DEF Accepted
  <2>2. /\ queue' = Append(queue, to[s]) /\ queue' \in Seq(Receiver)
        /\ Len(queue') <= Cap
        /\ \A i \in DOMAIN queue : i \in DOMAIN queue' /\ queue'[i] = queue[i]
        /\ \E i \in DOMAIN queue' : queue'[i] = to[s]
    <3>1. /\ queue' = Append(queue, to[s]) /\ queue \in Seq(Receiver)
          /\ Len(queue) < Cap /\ Len(queue) \in Nat /\ Cap \in Nat
      BY <1>3, QueueAssumption DEF Accepted, TypeOK
    <3>2. /\ queue' \in Seq(Receiver) /\ Len(queue') = Len(queue) + 1
          /\ \A i \in 1 .. Len(queue) : queue'[i] = queue[i]
          /\ queue'[Len(queue) + 1] = to[s]
      BY <3>1, <2>1, AppendProperties
    <3>3. DOMAIN queue = 1 .. Len(queue) /\ DOMAIN (queue') = 1 .. Len(queue) + 1
      BY <3>1, <3>2
    <3>4. Len(queue) + 1 \in DOMAIN (queue') /\ DOMAIN queue \subseteq DOMAIN (queue')
      BY <3>1, <3>3
    <3>. QED
      BY <3>1, <3>2, <3>3, <3>4
  <2>3. TypeOK'
    BY <1>3, <2>1, <2>2 DEF Accepted, TypeOK
  <2>4. counter' = counter /\ unsent' = unsent
    BY <1>3 DEF Accepted
  <2>5. WakeupDelayedOnly'
    <3>. SUFFICES ASSUME NEW r \in Receiver, pc'[r] = "blocked", counter'[r] > 0
                  PROVE  \/ r \in {queue'[i] : i \in DOMAIN queue'}
                         \/ \E x \in Sender : to'[x] = r
                         \/ r \in unsent'
      BY DEF WakeupDelayedOnly
    <3>1. CASE r = to[s]
      BY <3>1, <2>2
    <3>2. CASE r # to[s]
      <4>1. \/ \E i \in DOMAIN queue : queue[i] = r
            \/ \E x \in Sender : to[x] = r
            \/ r \in unsent
        BY <2>1, <2>4 DEF WakeupDelayedOnly
      <4>. QED
        BY <3>2, <4>1, <2>1, <2>2, <2>4
    <3>. QED
      BY <3>1, <3>2
  <2>. QED
    BY <2>1, <2>3, <2>5
<1>4. ASSUME NEW s \in Sender, Full(s), tries[s] < MaxRetry
      PROVE  IInv'
  <2>1. tries' = [tries EXCEPT ![s] = @ + 1]
    BY <1>4 DEF Full
  <2>2. tries[s] + 1 \in 0 .. MaxRetry
    BY <1>4, QueueAssumption DEF TypeOK
  <2>3. UNCHANGED <<pc, lock, to, running, unsent, counter, token, queue, ready, sends>>
    BY <1>4 DEF Full
  <2>4. TypeOK'
    BY <2>1, <2>2, <2>3 DEF TypeOK
  <2>. QED
    BY <2>3, <2>4 DEF SendInProgress, TokenWhileBlocked, SpinLockHeld, WakeupDelayedOnly
<1>5. ASSUME NEW s \in Sender, Full(s), ~ (tries[s] < MaxRetry)
      PROVE  IInv'
  <2>1. /\ to[s] \in Receiver
        /\ pc' \in [Sender -> {"user", "lock", "retry", "register", "blocked", "deregister", "gone"}]
        /\ lock' \in [Receiver -> Sender \cup {None}]
        /\ to' \in [Sender -> Receiver \cup {None}]
        /\ tries' \in [Sender -> 0 .. MaxRetry]
        /\ SendInProgress' /\ TokenWhileBlocked' /\ SpinLockHeld'
        /\ \A r \in Receiver : pc'[r] = "blocked" => pc[r] = "blocked"
        /\ \A x \in Sender : x # s => to'[x] = to[x]
    BY <1>5, ReturnFacts DEF Full
  <2>2. /\ unsent' = unsent \cup {to[s]} /\ running' \in Receiver \cup {None}
        /\ UNCHANGED <<counter, token, queue, ready, sends>>
    BY <1>5 DEF Full, TypeOK
  <2>3. TypeOK'
    BY <2>1, <2>2 DEF TypeOK
  <2>4. WakeupDelayedOnly'
    BY <2>1, <2>2 DEF WakeupDelayedOnly
  <2>. QED
    BY <2>1, <2>3, <2>4
<1>6. ASSUME NEW r \in Receiver, TryRecv(r)
      PROVE  IInv'
  <2>1. UNCHANGED <<token, lock, to, tries, sends, unsent, queue, running, ready>> /\ pc[r] = "user"
    BY <1>6 DEF TryRecv, senderVars
  <2>2. CASE counter[r] > 0
    <3>1. counter' = [counter EXCEPT ![r] = @ - 1] /\ pc' = pc
      BY <1>6, <2>2 DEF TryRecv
    <3>2. counter[r] - 1 \in Nat
      BY <2>2 DEF TypeOK
    <3>3. TypeOK'
      BY <2>1, <3>1, <3>2 DEF TypeOK
    <3>4. \A x \in Receiver : pc[x] = "blocked" => counter'[x] = counter[x]
      BY <2>1, <3>1 DEF TypeOK
    <3>. QED
      BY <2>1, <3>1, <3>3, <3>4 DEF SendInProgress, TokenWhileBlocked, SpinLockHeld, WakeupDelayedOnly
  <2>3. CASE ~ (counter[r] > 0)
    <3>1. pc' = [pc EXCEPT ![r] = "register"] /\ counter' = counter
      BY <1>6, <2>3 DEF TryRecv, Goto
    <3>2. running' \in Receiver \cup {None} /\ ready' \in Seq(Receiver)
      BY <2>1 DEF TypeOK
    <3>. QED
      BY <2>1, <3>1, <3>2, PcOnly
  <2>. QED
    BY <2>2, <2>3
<1>7. ASSUME NEW r \in Receiver, Register(r)
      PROVE  IInv'
  <2>1. UNCHANGED <<counter, lock, to, tries, sends, unsent, queue>> /\ pc[r] = "register" /\ running' = None
    BY <1>7 DEF Register, senderVars
  <2>2. CASE counter[r] = 0
    <3>1. pc' = [pc EXCEPT ![r] = "blocked"] /\ token' = [token EXCEPT ![r] = TRUE] /\ ready' = ready
      BY <1>7, <2>2 DEF Register, Goto
    <3>2. TypeOK'
      BY <2>1, <3>1 DEF TypeOK
    <3>3. SendInProgress' /\ TokenWhileBlocked'
      BY <2>1, <3>1 DEF TypeOK, SendInProgress, TokenWhileBlocked
    <3>4. SpinLockHeld'
      BY <2>1, <3>1 DEF TypeOK, SpinLockHeld
    <3>5. \A x \in Receiver : pc'[x] = "blocked" => pc[x] = "blocked" \/ x = r
      BY <3>1 DEF TypeOK
    <3>6. WakeupDelayedOnly'
      BY <2>1, <2>2, <3>5 DEF WakeupDelayedOnly
    <3>. QED
      BY <3>2, <3>3, <3>4, <3>6
  <2>3. CASE counter[r] # 0
    <3>1. pc' = [pc EXCEPT ![r] = "user"] /\ ready' = Append(ready, r) /\ token' = token
      BY <1>7, <2>3 DEF Register, Goto
    <3>2. ready' \in Seq(Receiver)
      BY <3>1 DEF TypeOK
    <3>. QED
      BY <2>1, <3>1, <3>2, PcOnly
  <2>. QED
    BY <2>2, <2>3
<1>8. ASSUME Resume
      PROVE  IInv'
  <2>1. Head(ready) \in Receiver /\ Tail(ready) \in Seq(Receiver)
    BY <1>8 DEF Resume, TypeOK
  <2>. QED
    BY <1>8, <2>1 DEF Resume, channelVars, senderVars, TypeOK, SendInProgress,
       TokenWhileBlocked, SpinLockHeld, WakeupDelayedOnly
<1>9. ASSUME Notify
      PROVE  IInv'
  <2>1. /\ Head(queue) \in Receiver
        /\ queue' \in Seq(Receiver) /\ Len(queue') <= Cap
        /\ \A i \in DOMAIN queue : queue[i] = Head(queue) \/ \E j \in DOMAIN queue' : queue'[j] = queue[i]
    <3>1. /\ queue \in Seq(Receiver) /\ Len(queue) >= 1 /\ Len(queue) \in Nat
          /\ queue' = Tail(queue) /\ Len(queue) <= Cap
      BY <1>9 DEF Notify, TypeOK
    <3>2. /\ Head(queue) = queue[1] /\ queue[1] \in Receiver
          /\ Tail(queue) \in Seq(Receiver) /\ Len(Tail(queue)) = Len(queue) - 1
          /\ \A i \in 1 .. Len(queue) - 1 : Tail(queue)[i] = queue[i + 1]
      BY <3>1
    <3>3. ASSUME NEW i \in DOMAIN queue, i # 1
          PROVE  \E j \in DOMAIN (queue') : queue'[j] = queue[i]
      <4>1. i \in 1 .. Len(queue) /\ i - 1 \in 1 .. Len(queue) - 1 /\ (i - 1) + 1 = i
        BY <3>1, <3>3
      <4>2. i - 1 \in DOMAIN Tail(queue) /\ Tail(queue)[i - 1] = queue[i]
        BY <4>1, <3>2
      <4>. QED
        BY <3>1, <4>2
    <3>. QED
      <4>1. /\ Head(queue) \in Receiver
            /\ queue' \in Seq(Receiver) /\ Len(queue') <= Cap
        BY <3>1, <3>2, QueueAssumption
      <4>. QED
        BY <4>1, <3>2, <3>3
  <2>2. UNCHANGED <<counter, token, lock, to, tries, sends, unsent, ready>>
    BY <1>9 DEF Notify, channelVars, senderVars
  <2>3. CASE pc[Head(queue)] = "blocked"
    <3>. DEFINE h == Head(queue)
    <3>1. pc' = [pc EXCEPT ![h] = "deregister"] /\ running' = h /\ h \in Receiver
      BY <1>9, <2>1, <2>3 DEF Notify, Goto
    <3>2. pc[h] = "blocked"
      BY <2>3
    <3>. HIDE DEF h
    <3>3. TypeOK'
      BY <2>1, <2>2, <3>1 DEF TypeOK
    <3>4. SendInProgress' /\ TokenWhileBlocked'
      BY <2>2, <3>1, <3>2 DEF TypeOK, SendInProgress, TokenWhileBlocked
    <3>5. SpinLockHeld'
      BY <2>2, <3>1, <3>2 DEF TypeOK, SpinLockHeld
    <3>6. \A x \in Receiver : pc'[x] = "blocked" => pc[x] = "blocked" /\ x # h
      BY <3>1 DEF TypeOK
    <3>7. WakeupDelayedOnly'
      BY <2>1, <2>2, <3>6 DEF WakeupDelayedOnly, h
    <3>. QED
      BY <3>3, <3>4, <3>5, <3>7
  <2>4. CASE pc[Head(queue)] # "blocked"
    <3>1. UNCHANGED <<pc, running>>
      BY <1>9, <2>4 DEF Notify
    <3>2. TypeOK'
      BY <2>1, <2>2, <3>1 DEF TypeOK
    <3>3. WakeupDelayedOnly'
      BY <2>1, <2>2, <2>4, <3>1 DEF WakeupDelayedOnly
    <3>. QED
      BY <2>2, <3>1, <3>2, <3>3 DEF SendInProgress, TokenWhileBlocked, SpinLockHeld
  <2>. QED
    BY <2>3, <2>4
<1>10. ASSUME NEW r \in Receiver, Deregister(r)
       PROVE  IInv'
  <2>1. TypeOK'
    BY <1>10 DEF Deregister, Goto, senderVars, TypeOK
  <2>2. SendInProgress' /\ TokenWhileBlocked' /\ SpinLockHeld'
    <3>1. /\ pc[r] = "deregister" /\ pc'[r] = "user"
          /\ \A s \in Sender : s # r => pc'[s] = pc[s]
          /\ UNCHANGED <<to, lock>>
      BY <1>10, SenderFacts DEF Deregister, Goto, senderVars, TypeOK
    <3>2. /\ token'[r] = FALSE /\ \A p \in Receiver : p # r => token'[p] = token[p]
      BY <1>10 DEF Deregister, TypeOK
    <3>3. SendInProgress'
      BY <3>1 DEF SendInProgress
    <3>4. TokenWhileBlocked'
      BY <3>1, <3>2, SenderFacts DEF TokenWhileBlocked
    <3>5. SpinLockHeld'
      BY <3>1 DEF SpinLockHeld
    <3>. QED
      BY <3>3, <3>4, <3>5
  <2>3. WakeupDelayedOnly'
    <3>1. \A p \in Receiver : pc'[p] = "blocked" => pc[p] = "blocked"
      BY <1>10, SenderFacts DEF Deregister, Goto, TypeOK
    <3>2. UNCHANGED <<counter, queue, to, unsent>>
      BY <1>10 DEF Deregister, senderVars
    <3>. QED
      BY <3>1, <3>2 DEF WakeupDelayedOnly
  <2>. QED
    BY <2>1, <2>2, <2>3
<1>11. ASSUME UNCHANGED vars
       PROVE  IInv'
  BY <1>11 DEF vars, channelVars, senderVars, TypeOK, SendInProgress,
     TokenWhileBlocked, SpinLockHeld, WakeupDelayedOnly
<1>. QED
  BY <1>1, <1>2, <1>3, <1>4, <1>5, <1>6, <1>7, <1>8, <1>9, <1>10, <1>11
     DEF Next, Loop, Receiving, Notifying

-----------------------------------------------------------------------------
(* Spinning *)

\* A coroutine that sends, registers or deregisters keeps the event loop: it does
\* not jump out with a lock, or on the way to one.
Busy == {"lock", "retry", "register", "deregister"}

KeepsTheLoop == \A r \in Receiver : pc[r] \in Busy => running = r

\* Every step keeps it: the event loop turns to another coroutine only when it is
\* in none, and none is busy then.
LEMMA StepKeepsTheLoop == TypeOK /\ KeepsTheLoop /\ [Next]_vars => KeepsTheLoop'
<1>. SUFFICES ASSUME TypeOK, KeepsTheLoop, [Next]_vars PROVE KeepsTheLoop'
  OBVIOUS
<1>. USE SenderFacts
<1>1. ASSUME NEW s \in Sender, NEW r \in Receiver, Send(s, r)
      PROVE  KeepsTheLoop'
  <2>1. running' = running /\ Runs(s)
    BY <1>1 DEF Send
  <2>2. \A x \in Sender : x # s => pc'[x] = pc[x]
    BY <1>1 DEF Send, Goto, TypeOK
  <2>3. s \in Receiver => running = s
    BY <2>1, QueueAssumption DEF Runs
  <2>. QED
    BY <2>1, <2>2, <2>3 DEF KeepsTheLoop
<1>2. ASSUME NEW s \in Sender, Lock(s) \/ Accepted(s)
      PROVE  KeepsTheLoop'
  <2>1. running' = running /\ Runs(s)
    BY <1>2 DEF Lock, Accepted
  <2>2. \A x \in Sender : x # s => pc'[x] = pc[x]
    BY <1>2 DEF Lock, Accepted, Return, Goto, TypeOK
  <2>3. s \in Receiver => running = s
    BY <2>1, QueueAssumption DEF Runs
  <2>. QED
    BY <2>1, <2>2, <2>3 DEF KeepsTheLoop
<1>3. ASSUME NEW s \in Sender, Full(s)
      PROVE  KeepsTheLoop'
  <2>1. CASE tries[s] < MaxRetry
    BY <1>3, <2>1 DEF Full, KeepsTheLoop
  <2>2. CASE ~(tries[s] < MaxRetry)
    <3>1. /\ pc' = [pc EXCEPT ![s] = "gone"]
          /\ running' = IF s \in Receiver THEN None ELSE running
          /\ Runs(s)
      BY <1>3, <2>2 DEF Full, Return, Goto
    <3>2. pc'[s] = "gone" /\ \A x \in Sender : x # s => pc'[x] = pc[x]
      BY <3>1 DEF TypeOK
    <3>3. s \in Receiver => running = s
      BY <3>1, QueueAssumption DEF Runs
    <3>. QED
      BY <3>1, <3>2, <3>3 DEF KeepsTheLoop, Busy
  <2>. QED
    BY <2>1, <2>2
<1>4. ASSUME NEW r \in Receiver, TryRecv(r) \/ Deregister(r)
      PROVE  KeepsTheLoop'
  <2>1. running = r /\ running' = running
    BY <1>4 DEF TryRecv, Deregister
  <2>2. \A x \in Sender : x # r => pc'[x] = pc[x]
    BY <1>4 DEF TryRecv, Deregister, Goto, TypeOK
  <2>. QED
    BY <2>1, <2>2 DEF KeepsTheLoop
<1>5. ASSUME NEW r \in Receiver, Register(r)
      PROVE  KeepsTheLoop'
  <2>1. running = r
    BY <1>5 DEF Register
  <2>2. pc'[r] \in {"blocked", "user"} /\ \A x \in Sender : x # r => pc'[x] = pc[x]
    BY <1>5 DEF Register, Goto, TypeOK
  <2>. QED
    BY <2>1, <2>2 DEF KeepsTheLoop, Busy
<1>6. ASSUME Resume
      PROVE  KeepsTheLoop'
  <2>1. running = None /\ pc' = pc
    BY <1>6 DEF Resume
  <2>. QED
    BY <2>1 DEF KeepsTheLoop
<1>7. ASSUME Notify
      PROVE  KeepsTheLoop'
  <2>. DEFINE h == Head(queue)
  <2>1. running = None /\ h \in Receiver
    BY <1>7 DEF Notify, TypeOK
  <2>2. \/ pc' = [pc EXCEPT ![h] = "deregister"] /\ running' = h
        \/ UNCHANGED <<pc, running>>
    BY <1>7 DEF Notify, Goto
  <2>. HIDE DEF h
  <2>3. \A x \in Receiver : pc[x] \notin Busy
    BY <2>1 DEF KeepsTheLoop
  <2>. QED
    BY <2>1, <2>2, <2>3 DEF KeepsTheLoop, TypeOK
<1>8. ASSUME UNCHANGED vars
      PROVE  KeepsTheLoop'
  BY <1>8 DEF vars, KeepsTheLoop
<1>. QED
  BY <1>1, <1>2, <1>3, <1>4, <1>5, <1>6, <1>7, <1>8
     DEF Next, Loop, Receiving, Notifying

-----------------------------------------------------------------------------
(* The theorems *)

\* The invariant, for any number of senders and any capacity of mio's notify queue.
THEOREM InvariantHolds == Spec => []IInv
BY InitIInv, StepIInv, PTL DEF Spec

\* Every variable keeps its type; in particular the notify queue stays within
\* its capacity and sender_retry within its number of retries.
THEOREM TypeCorrect == Spec => []TypeOK
<1>1. IInv => TypeOK
  BY DEF IInv
<1>. QED
  BY <1>1, InvariantHolds, PTL

\* "take care of retrying on recoverable errors" (sender_retry): a blocked
\* receiver with messages has a notification queued or under way, unless the
\* sender that had to notify it gave up and died.
THEOREM WakeupsAreDelayedOnly == Spec => []WakeupDelayedOnly
<1>1. IInv => WakeupDelayedOnly
  BY DEF IInv
<1>. QED
  BY <1>1, InvariantHolds, PTL

\* At most one sender of a channel is in sender_retry, and the spin lock that the
\* event loop waits for in register and deregister is free when nobody is: it is
\* never left behind, by a sender that panics either.
THEOREM SpinLockIsReleased == Spec => []SpinLockHeld
<1>1. IInv => SpinLockHeld
  BY DEF IInv
<1>. QED
  BY <1>1, InvariantHolds, PTL

\* The event loop does not deadlock with itself: when it spins for the lock of a
\* channel, the holder is a native thread, which goes on by itself, and not a
\* coroutine of this loop, for any number of both.
THEOREM LoopNeverWaitsForItself == Spec => []NoSelfDeadlock
<1>1. Init => KeepsTheLoop
  BY SenderFacts DEF Init, KeepsTheLoop, Busy
<1>2. IInv /\ KeepsTheLoop => NoSelfDeadlock
  <2>. SUFFICES ASSUME IInv, KeepsTheLoop, NEW r \in Receiver, NEW x \in Receiver,
                       (pc[r] = "lock" /\ to[r] = x)
                         \/ (pc[r] \in {"register", "deregister"} /\ r = x)
                PROVE  lock[x] \in Native \cup {None}
    BY DEF NoSelfDeadlock
  <2>1. running = r /\ pc[r] # "retry"
    BY DEF KeepsTheLoop, Busy
  <2>2. ASSUME lock[x] \in Receiver PROVE FALSE
    <3>1. pc[lock[x]] = "retry"
      BY <2>2, SenderFacts DEF IInv, SpinLockHeld
    <3>2. running = lock[x]
      BY <2>2, <3>1 DEF KeepsTheLoop, Busy
    <3>. QED
      BY <2>1, <3>1, <3>2
  <2>. QED
    BY <2>2 DEF IInv, TypeOK, Sender
<1>3. IInv => TypeOK
  BY DEF IInv
<1>. QED
  BY <1>1, <1>2, <1>3, StepKeepsTheLoop, InvariantHolds, PTL DEF Spec

=============================================================================
