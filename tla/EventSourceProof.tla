-------------------------- MODULE EventSourceProof --------------------------
(***************************************************************************)
(* Proofs about module EventSource, for any coroutines, event sources,     *)
(* lists of sources in a select! and length of mio's ticks: mio has what   *)
(* the blocked coroutines wait for and nothing else, no timeout leaks, and *)
(* an event runs the arm of its own source.                                *)
(***************************************************************************)
EXTENDS EventSource, FiniteSetTheorems, SequenceTheorems, TLAPS

-----------------------------------------------------------------------------
(* The inductive invariant *)

\* A coroutine that runs or is about to is blocked on nothing, and is in one place.
AwakeUnblocked ==
  /\ running # None => blockedOn[running] = <<>>
  /\ \A i \in DOMAIN ready : blockedOn[ready[i]] = <<>> /\ ready[i] # running
  /\ \A i, j \in DOMAIN ready : ready[i] = ready[j] => i = j

\* What a coroutine is in the middle of.
Underway ==
  \A c \in Coroutine :
    /\ pc[c] \in {"try", "block"} => reading[c] \in Source
    /\ pc[c] \in {"select", "wait", "arms"} => arms[c] # <<>>
    /\ pc[c] \in {"user", "gone"} => arms[c] = <<>>
    /\ arms[c] # <<>> => arms[c] \in Selects
    /\ pc[c] \in {"select", "wait"} \/ arms[c] = <<>> => arm[c] = 1 /\ ran[c] = {}

\* Until an arm has run nobody has waited: the arms still have the ids that
\* select_add gave them.  After it, an arm that is to come has its own id or, if
\* it was waited for, 0.
ArmIds ==
  \A c \in Coroutine : arms[c] # <<>> /\ pc[c] # "select" =>
    \A i \in DOMAIN arms[c] : i >= arm[c] =>
      \/ ids[c][arms[c][i]] = i - 1
      \/ ids[c][arms[c][i]] = 0 /\ ran[c] # {}

\* Arms run in their order: those that have run are behind.
ArmOrder ==
  \A c \in Coroutine :
    /\ \A s \in ran[c] : \E i \in DOMAIN arms[c] : i < arm[c] /\ arms[c][i] = s
    /\ pc[c] \in {"try", "block"} /\ arms[c] # <<>> => ran[c] # {}

IInv ==
  /\ TypeOK
  /\ AwakeUnblocked
  /\ Underway
  /\ ArmIds
  /\ ArmOrder
  /\ RegisteredIffBlocked
  /\ NoTimeoutLeaks

-----------------------------------------------------------------------------
(* Lists of sources, ids and ticks *)

\* What block_on and select! wait for: a list of sources without repetition.
List(srcs) ==
  /\ srcs \in Seq(Source) /\ srcs # <<>>
  /\ \A i, j \in DOMAIN srcs : srcs[i] = srcs[j] => i = j

\* The sources of a select! are distinct and there is one at least, ...
LEMMA SelectsAreLists == \A srcs \in Selects : List(srcs)
BY SelectsAssumption DEF List

\* ... and so is the one source of block_on.
LEMMA OneSourceIsList == \A s \in Source : List(<<s>>)
BY DEF List

\* What the assumptions on the constants say, in the form the proofs use.
LEMMA ConstantFacts ==
  /\ Cardinality(Source) \in Nat \ {0} /\ IsFiniteSet(Source)
  /\ Cardinality(Coroutine) \in Nat
  /\ 0 \in Id
  /\ Timer \in Source /\ Io \subseteq Source
  /\ Slot \subseteq Nat
<1>1. IsFiniteSet({Timer})
  BY FS_Singleton
<1>2. IsFiniteSet(Source)
  BY <1>1, SourceAssumption, FS_Union DEF Source
<1>3. Cardinality(Source) \in Nat
  BY <1>2, FS_CardinalityType
<1>4. Cardinality(Source) # 0
  BY <1>2, FS_EmptySet DEF Source
<1>5. Cardinality(Coroutine) \in Nat
  BY SourceAssumption, FS_CardinalityType
<1>. QED
  BY <1>2, <1>3, <1>4, <1>5 DEF Id, Slot, Source

\* The index at which a source was pushed, and that it fits into a token's id.
LEMMA IndexFacts ==
  ASSUME NEW srcs, List(srcs), NEW s \in Range(srcs)
  PROVE  /\ s \in Source
         /\ IndexOf(s, srcs) + 1 \in DOMAIN srcs
         /\ srcs[IndexOf(s, srcs) + 1] = s
         /\ IndexOf(s, srcs) \in Id
<1>. DEFINE i == CHOOSE i \in DOMAIN srcs : srcs[i] = s
<1>1. \E j \in DOMAIN srcs : srcs[j] = s
  BY DEF Range
<1>2. i \in DOMAIN srcs /\ srcs[i] = s
  BY <1>1
<1>3. IndexOf(s, srcs) = i - 1
  BY DEF IndexOf
<1>4. Len(srcs) \in Nat /\ DOMAIN srcs = 1 .. Len(srcs)
  BY DEF List
<1>5. Len(srcs) <= Cardinality(Source)
  <2>0. srcs \in [1 .. Len(srcs) -> Source]
    BY LenProperties DEF List
  <2>. DEFINE D == 1 .. Len(srcs)
  <2>a. \A a, b \in D : srcs[a] = srcs[b] => a = b
    BY <1>4 DEF List
  <2>b. srcs \in [D -> Source]
    BY <2>0
  <2>. HIDE DEF D
  <2>1. srcs \in Injection(D, Source)
    BY <2>a, <2>b DEF Injection, IsInjective
  <2>2. Cardinality(D) <= Cardinality(Source)
    BY <2>1, ConstantFacts, FS_Injection
  <2>3. Len(srcs) # 0 /\ 1 \in Int /\ Len(srcs) \in Int
    BY <1>4 DEF List
  <2>4. Cardinality(1 .. Len(srcs)) = IF 1 > Len(srcs) THEN 0 ELSE Len(srcs) - 1 + 1
    BY <2>3, FS_Interval
  <2>5. Cardinality(1 .. Len(srcs)) = Len(srcs)
    BY <1>4, <2>3, <2>4
  <2>. QED
    BY <2>2, <2>5 DEF D
<1>. HIDE DEF i
<1>. QED
  BY <1>2, <1>3, <1>4, <1>5, ConstantFacts DEF List, Id

\* An arm is found at the place of its source.
LEMMA IndexOfArm ==
  ASSUME NEW srcs, List(srcs), NEW k \in DOMAIN srcs
  PROVE  srcs[k] \in Range(srcs) /\ IndexOf(srcs[k], srcs) = k - 1
<1>1. srcs[k] \in Range(srcs)
  BY DEF Range
<1>2. IndexOf(srcs[k], srcs) + 1 \in DOMAIN srcs /\ srcs[IndexOf(srcs[k], srcs) + 1] = srcs[k]
  BY <1>1, IndexFacts
<1>3. IndexOf(srcs[k], srcs) + 1 = k
  BY <1>2 DEF List
<1>4. k \in Nat /\ IndexOf(srcs[k], srcs) \in Int
  BY <1>1, IndexFacts, ConstantFacts DEF List, Id
<1>. QED
  BY <1>1, <1>3, <1>4

\* A deadline falls on a tick of the timer.
LEMMA TickType == \A d \in Nat : TickOf(d) \in Nat
BY ClockAssumption DEF TickOf

-----------------------------------------------------------------------------
(* Blocking and waking up *)

\* The types of what register and unblock change.
LoopTypes ==
  /\ handle \in [Coroutine -> [slot : Slot, tick : Nat] \cup {None}]
  /\ timeouts \in [Slot -> [tick : Nat, co : Coroutine, id : Id] \cup {None}]
  /\ registered \in [Coroutine -> [Io -> Id \cup {None}]]
  /\ ids \in [Coroutine -> [Source -> Id \cup {None}]]
  /\ blockedOn \in [Coroutine -> Seq(Source)]
  /\ lastEvent \in [Coroutine -> [id : Id, src : Source \cup {None}]]
  /\ running \in Coroutine \cup {None}
  /\ ready \in Seq(Coroutine)

\* Nothing is blocked on no sources.
LEMMA EmptyRange == Range(<<>>) = {}
BY DEF Range

\* A coroutine that is blocked on nothing has no timeout.
LEMMA NoTimeoutOf ==
  ASSUME IInv, NEW c \in Coroutine, Timer \notin Range(blockedOn[c]),
         NEW slot \in Slot, timeouts[slot] # None
  PROVE  timeouts[slot].co # c
BY DEF IInv, NoTimeoutLeaks

\* clear_timeout takes nothing but the timeout of the handle.
LEMMA ClearedFacts ==
  ASSUME TypeOK, NEW h
  PROVE  /\ Cleared(h) \in [Slot -> [tick : Nat, co : Coroutine, id : Id] \cup {None}]
         /\ \A slot \in Slot : Cleared(h)[slot] # None => Cleared(h)[slot] = timeouts[slot]
BY DEF Cleared, TypeOK

\* register_all and what it leaves registered with the loop.
LEMMA RegisterFacts ==
  ASSUME IInv, NEW c \in Coroutine, running = c, NEW srcs, List(srcs),
         Register(c, srcs), running' = None
  PROVE  /\ handle' \in [Coroutine -> [slot : Slot, tick : Nat] \cup {None}]
         /\ timeouts' \in [Slot -> [tick : Nat, co : Coroutine, id : Id] \cup {None}]
         /\ registered' \in [Coroutine -> [Io -> Id \cup {None}]]
         /\ blockedOn' \in [Coroutine -> Seq(Source)]
         /\ lastEvent' = lastEvent /\ ready' = ready
         /\ AwakeUnblocked' /\ RegisteredIffBlocked' /\ NoTimeoutLeaks'
<1>1. blockedOn[c] = <<>> /\ Range(blockedOn[c]) = {}
  BY SourceAssumption, EmptyRange DEF IInv, AwakeUnblocked
<1>2. \A s \in Range(srcs) : IndexOf(s, srcs) \in Id
  BY IndexFacts
<1>3. /\ blockedOn' = [blockedOn EXCEPT ![c] = srcs]
      /\ registered' = [registered EXCEPT ![c] =
           [s \in Io |-> IF s \in Range(srcs) THEN IndexOf(s, srcs) ELSE registered[c][s]]]
      /\ lastEvent' = lastEvent /\ ready' = ready
  BY DEF Register
<1>4. /\ registered' \in [Coroutine -> [Io -> Id \cup {None}]]
      /\ blockedOn' \in [Coroutine -> Seq(Source)]
  BY <1>2, <1>3 DEF IInv, TypeOK, List
<1>5. blockedOn'[c] = srcs /\ \A d \in Coroutine : d # c => blockedOn'[d] = blockedOn[d]
  BY <1>3 DEF IInv, TypeOK
<1>6. AwakeUnblocked'
  <2>1. \A i \in DOMAIN ready : ready[i] \in Coroutine /\ ready[i] # c
    BY DEF IInv, TypeOK, AwakeUnblocked
  <2>. QED
    BY <2>1, <1>3, <1>5, SourceAssumption DEF IInv, AwakeUnblocked
<1>7. RegisteredIffBlocked'
  <2>. SUFFICES ASSUME NEW d \in Coroutine, NEW s \in Io
                PROVE  registered'[d][s] =
                         IF s \in Range(blockedOn'[d]) THEN IndexOf(s, blockedOn'[d]) ELSE None
    BY DEF RegisteredIffBlocked
  <2>1. registered[d][s] = IF s \in Range(blockedOn[d]) THEN IndexOf(s, blockedOn[d]) ELSE None
    BY DEF IInv, RegisteredIffBlocked
  <2>2. CASE d = c
    BY <2>1, <2>2, <1>1, <1>3, <1>5 DEF IInv, TypeOK
  <2>3. CASE d # c
    BY <2>1, <2>3, <1>3, <1>5 DEF IInv, TypeOK
  <2>. QED
    BY <2>2, <2>3
<1>8. CASE Timer \notin Range(srcs)
  <2>1. timeouts' = timeouts /\ handle' = handle
    BY <1>8 DEF Register
  <2>2. NoTimeoutLeaks'
    <3>. SUFFICES ASSUME NEW slot \in Slot, timeouts'[slot] # None
                  PROVE  /\ Timer \in Range(blockedOn'[timeouts'[slot].co])
                         /\ handle'[timeouts'[slot].co] =
                              [slot |-> slot, tick |-> timeouts'[slot].tick]
      BY DEF NoTimeoutLeaks
    <3>1. timeouts[slot].co # c /\ timeouts[slot].co \in Coroutine
      BY <2>1, <1>1, NoTimeoutOf DEF IInv, TypeOK
    <3>. QED
      BY <2>1, <3>1, <1>5 DEF IInv, NoTimeoutLeaks
  <2>. QED
    BY <2>1, <2>2, <1>3, <1>4, <1>6, <1>7 DEF IInv, TypeOK
<1>9. CASE Timer \in Range(srcs)
  <2>. DEFINE id == IndexOf(Timer, srcs)
              tick == TickOf(deadline[c])
  <2>1. PICK new \in Slot : /\ timeouts[new] = None
                            /\ timeouts' = [timeouts EXCEPT ![new] = [tick |-> tick, co |-> c, id |-> id]]
                            /\ handle' = [handle EXCEPT ![c] = [slot |-> new, tick |-> tick]]
    BY <1>9 DEF Register, TimerRegister
  <2>2. id \in Id /\ tick \in Nat
    <3>1. deadline[c] \in Nat
      BY ClockAssumption DEF IInv, TypeOK
    <3>. QED
      BY <3>1, <1>2, <1>9, TickType
  <2>. HIDE DEF id, tick
  <2>3. /\ handle' \in [Coroutine -> [slot : Slot, tick : Nat] \cup {None}]
        /\ timeouts' \in [Slot -> [tick : Nat, co : Coroutine, id : Id] \cup {None}]
    BY <2>1, <2>2 DEF IInv, TypeOK
  <2>4. NoTimeoutLeaks'
    <3>. SUFFICES ASSUME NEW slot \in Slot, timeouts'[slot] # None
                  PROVE  /\ Timer \in Range(blockedOn'[timeouts'[slot].co])
                         /\ handle'[timeouts'[slot].co] =
                              [slot |-> slot, tick |-> timeouts'[slot].tick]
      BY DEF NoTimeoutLeaks
    <3>1. CASE slot = new
      <4>1. timeouts'[slot] = [tick |-> tick, co |-> c, id |-> id]
        BY <3>1, <2>1 DEF IInv, TypeOK
      <4>2. handle'[c] = [slot |-> new, tick |-> tick]
        BY <2>1 DEF IInv, TypeOK
      <4>. QED
        BY <3>1, <4>1, <4>2, <1>5, <1>9
    <3>2. CASE slot # new
      <4>1. timeouts'[slot] = timeouts[slot] /\ timeouts[slot] # None
        BY <3>2, <2>1 DEF IInv, TypeOK
      <4>2. timeouts[slot].co # c /\ timeouts[slot].co \in Coroutine
        BY <4>1, <1>1, NoTimeoutOf DEF IInv, TypeOK
      <4>3. handle'[timeouts[slot].co] = handle[timeouts[slot].co]
        BY <4>2, <2>1 DEF IInv, TypeOK
      <4>. QED
        BY <4>1, <4>2, <4>3, <1>5 DEF IInv, NoTimeoutLeaks
    <3>. QED
      BY <3>1, <3>2
  <2>. QED
    BY <2>3, <2>4, <1>3, <1>4, <1>6, <1>7
<1>. QED
  BY <1>8, <1>9

\* A timer that is due already lets its coroutine go on by way of the ready queue.
LEMMA SelfWakeFacts ==
  ASSUME IInv, NEW c \in Coroutine, running = c, NEW srcs, List(srcs),
         Timer \in Range(srcs), SelfWake(c, srcs), running' = None
  PROVE  /\ handle' \in [Coroutine -> [slot : Slot, tick : Nat] \cup {None}]
         /\ timeouts' \in [Slot -> [tick : Nat, co : Coroutine, id : Id] \cup {None}]
         /\ registered' = registered /\ blockedOn' = blockedOn
         /\ lastEvent' \in [Coroutine -> [id : Id, src : Source \cup {None}]]
         /\ ready' \in Seq(Coroutine)
         /\ AwakeUnblocked' /\ RegisteredIffBlocked' /\ NoTimeoutLeaks'
<1>1. /\ timeouts' = Cleared(handle[c])
      /\ lastEvent' = [lastEvent EXCEPT ![c] = [id |-> IndexOf(Timer, srcs), src |-> Timer]]
      /\ ready' = Append(ready, c)
      /\ UNCHANGED <<handle, blockedOn, registered>>
  BY DEF SelfWake
<1>2. IndexOf(Timer, srcs) \in Id
  BY IndexFacts
<1>3. timeouts' \in [Slot -> [tick : Nat, co : Coroutine, id : Id] \cup {None}]
  BY <1>1, ClearedFacts DEF IInv
<1>4. AwakeUnblocked'
  <2>1. /\ ready \in Seq(Coroutine) /\ Len(ready) \in Nat
        /\ blockedOn[c] = <<>> /\ c # None
        /\ \A i \in DOMAIN ready : ready[i] # c /\ ready[i] # None
    BY SourceAssumption DEF IInv, TypeOK, AwakeUnblocked
  <2>2. /\ DOMAIN ready = 1 .. Len(ready) /\ DOMAIN (ready') = 1 .. Len(ready) + 1
        /\ \A i \in 1 .. Len(ready) : ready'[i] = ready[i]
        /\ ready'[Len(ready) + 1] = c
    BY <1>1, <2>1
  <2>3. \A i \in 1 .. Len(ready) + 1 : i \in 1 .. Len(ready) \/ i = Len(ready) + 1
    BY <2>1
  <2>4. \A i, j \in DOMAIN (ready') : ready'[i] = ready'[j] => i = j
    BY <2>1, <2>2, <2>3 DEF IInv, AwakeUnblocked
  <2>. QED
    BY <1>1, <2>1, <2>2, <2>3, <2>4 DEF IInv, AwakeUnblocked
<1>5. RegisteredIffBlocked'
  BY <1>1 DEF IInv, RegisteredIffBlocked
<1>6. NoTimeoutLeaks'
  <2>1. \A slot \in Slot : timeouts'[slot] # None => timeouts'[slot] = timeouts[slot]
    BY <1>1, ClearedFacts DEF IInv
  <2>. QED
    BY <1>1, <2>1 DEF IInv, NoTimeoutLeaks
<1>7. lastEvent' \in [Coroutine -> [id : Id, src : Source \cup {None}]]
  <2>1. [id |-> IndexOf(Timer, srcs), src |-> Timer] \in [id : Id, src : Source \cup {None}]
    BY <1>2, ConstantFacts
  <2>. QED
    BY <1>1, <2>1 DEF IInv, TypeOK
<1>. QED
  BY <1>1, <1>3, <1>4, <1>5, <1>6, <1>7 DEF IInv, TypeOK

\* What is left of the batch is known to be of an earlier wait.
LEMMA OutdateFacts ==
  ASSUME TypeOK, NEW c \in Coroutine, Outdate(c)
  PROVE  /\ batch' \subseteq [co : Coroutine, id : Id, src : Io \cup {None}]
         /\ \A u \in batch' : \E t \in batch :
              u = [co |-> t.co, id |-> t.id, src |-> IF t.co = c THEN None ELSE t.src]
<1>1. \A t \in batch : t \in [co : Coroutine, id : Id, src : Io \cup {None}]
  BY DEF TypeOK
<1>. QED
  BY <1>1 DEF Outdate

\* block_on and select_wait, with what register_all does after the jump.
LEMMA BlockFacts ==
  ASSUME IInv, NEW c \in Coroutine, running = c, NEW srcs, List(srcs), Block(c, srcs)
  PROVE  /\ LoopTypes'
         /\ AwakeUnblocked' /\ RegisteredIffBlocked' /\ NoTimeoutLeaks'
         /\ \A s \in Source : ids'[c][s] = IF s \in Range(srcs) THEN IndexOf(s, srcs) ELSE ids[c][s]
         /\ \A d \in Coroutine : d # c => ids'[d] = ids[d]
<1>1. /\ running' = None
      /\ ids' = [ids EXCEPT ![c] =
           [s \in Source |-> IF s \in Range(srcs) THEN IndexOf(s, srcs) ELSE ids[c][s]]]
  BY DEF Block
<1>2. \A s \in Range(srcs) : IndexOf(s, srcs) \in Id
  BY IndexFacts
<1>3. /\ ids' \in [Coroutine -> [Source -> Id \cup {None}]]
      /\ \A s \in Source : ids'[c][s] = IF s \in Range(srcs) THEN IndexOf(s, srcs) ELSE ids[c][s]
      /\ \A d \in Coroutine : d # c => ids'[d] = ids[d]
  BY <1>1, <1>2 DEF IInv, TypeOK
<1>4. CASE Timer \in Range(srcs) /\ TimerDue(c)
  <2>1. SelfWake(c, srcs)
    BY <1>4 DEF Block
  <2>. QED
    BY <2>1, <1>1, <1>3, <1>4, SelfWakeFacts DEF LoopTypes, IInv, TypeOK
<1>5. CASE ~ (Timer \in Range(srcs) /\ TimerDue(c))
  <2>1. Register(c, srcs)
    BY <1>5 DEF Block
  <2>. QED
    BY <2>1, <1>1, <1>3, RegisterFacts DEF LoopTypes, IInv, TypeOK
<1>. QED
  BY <1>4, <1>5

\* The timeouts that are left do not belong to coroutine c: so it may be unblocked.
Freed(c) ==
  /\ timeouts' \in [Slot -> [tick : Nat, co : Coroutine, id : Id] \cup {None}]
  /\ \A slot \in Slot : timeouts'[slot] # None =>
       timeouts'[slot] = timeouts[slot] /\ timeouts[slot].co # c

\* CoroutineSlabHandle::event of a coroutine whose timeout is gone.
LEMMA EventFacts ==
  ASSUME IInv, Idle, NEW c \in Coroutine, NEW event \in [id : Id, src : Source \cup {None}],
         Event(c, event), Freed(c),
         UNCHANGED <<handle, ids, ready>>
  PROVE  /\ LoopTypes'
         /\ AwakeUnblocked' /\ RegisteredIffBlocked' /\ NoTimeoutLeaks'
<1>1. CASE blockedOn[c] = <<>>
  <2>1. UNCHANGED <<registered, blockedOn, lastEvent, running>>
    BY <1>1 DEF Event
  <2>2. AwakeUnblocked' /\ RegisteredIffBlocked'
    BY <2>1 DEF IInv, AwakeUnblocked, RegisteredIffBlocked
  <2>3. NoTimeoutLeaks'
    BY <2>1 DEF Freed, IInv, NoTimeoutLeaks
  <2>. QED
    BY <2>1, <2>2, <2>3 DEF Freed, LoopTypes, IInv, TypeOK
<1>2. CASE blockedOn[c] # <<>>
  <2>1. /\ registered' = [registered EXCEPT ![c] =
             [s \in Io |-> IF s \in Range(blockedOn[c]) THEN None ELSE registered[c][s]]]
        /\ blockedOn' = [blockedOn EXCEPT ![c] = <<>>]
        /\ lastEvent' = [lastEvent EXCEPT ![c] = event]
        /\ running' = c
    BY <1>2 DEF Event, DeregisterIo
  <2>2. /\ blockedOn'[c] = <<>> /\ Range(blockedOn'[c]) = {}
        /\ \A d \in Coroutine : d # c => blockedOn'[d] = blockedOn[d]
    BY <2>1, EmptyRange DEF IInv, TypeOK
  <2>3. LoopTypes'
    BY <2>1 DEF Freed, LoopTypes, IInv, TypeOK
  <2>4. AwakeUnblocked'
    BY <2>1, <2>2 DEF Idle, IInv, AwakeUnblocked
  <2>5. RegisteredIffBlocked'
    <3>. SUFFICES ASSUME NEW d \in Coroutine, NEW s \in Io
                  PROVE  registered'[d][s] =
                           IF s \in Range(blockedOn'[d]) THEN IndexOf(s, blockedOn'[d]) ELSE None
      BY DEF RegisteredIffBlocked
    <3>1. registered[d][s] = IF s \in Range(blockedOn[d]) THEN IndexOf(s, blockedOn[d]) ELSE None
      BY DEF IInv, RegisteredIffBlocked
    <3>2. CASE d = c
      BY <3>1, <3>2, <2>1, <2>2 DEF IInv, TypeOK
    <3>3. CASE d # c
      BY <3>1, <3>3, <2>1, <2>2 DEF IInv, TypeOK
    <3>. QED
      BY <3>2, <3>3
  <2>6. NoTimeoutLeaks'
    <3>. SUFFICES ASSUME NEW slot \in Slot, timeouts'[slot] # None
                  PROVE  /\ Timer \in Range(blockedOn'[timeouts'[slot].co])
                         /\ handle'[timeouts'[slot].co] =
                              [slot |-> slot, tick |-> timeouts'[slot].tick]
      BY DEF NoTimeoutLeaks
    <3>1. timeouts'[slot] = timeouts[slot] /\ timeouts[slot].co # c /\ timeouts[slot].co \in Coroutine
      BY DEF Freed, IInv, TypeOK
    <3>. QED
      BY <3>1, <2>2 DEF IInv, NoTimeoutLeaks
  <2>. QED
    BY <2>3, <2>4, <2>5, <2>6
<1>. QED
  BY <1>1, <1>2

\* TimerCore::deregister finds the timeout by its handle.
LEMMA DeregisteredFreed ==
  ASSUME IInv, NEW c \in Coroutine, timeouts' = TimerDeregistered(c)
  PROVE  Freed(c)
<1>1. CASE Timer \notin Range(blockedOn[c])
  BY <1>1, NoTimeoutOf DEF TimerDeregistered, Freed, IInv, TypeOK
<1>2. CASE Timer \in Range(blockedOn[c])
  <2>1. timeouts' = Cleared(handle[c])
    BY <1>2 DEF TimerDeregistered
  <2>2. ASSUME NEW slot \in Slot, timeouts'[slot] # None
        PROVE  timeouts'[slot] = timeouts[slot] /\ timeouts[slot].co # c
    <3>1. timeouts'[slot] = timeouts[slot] /\ timeouts[slot] # None
      BY <2>1, <2>2, ClearedFacts DEF IInv
    <3>2. SUFFICES ASSUME timeouts[slot].co = c PROVE FALSE
      BY <3>1
    <3>3. handle[c] = [slot |-> slot, tick |-> timeouts[slot].tick]
      BY <3>1, <3>2 DEF IInv, NoTimeoutLeaks
    <3>4. handle[c] # None
      <4>1. slot \in Nat /\ timeouts[slot].tick \in Nat
        BY <3>1, ConstantFacts DEF IInv, TypeOK
      <4>. QED
        BY <3>3, <4>1, SourceAssumption
    <3>5. Cleared(handle[c])[slot] = None
      BY <3>1, <3>3, <3>4 DEF Cleared
    <3>. QED
      BY <2>1, <2>2, <3>5
  <2>. QED
    BY <2>1, <2>2, ClearedFacts DEF Freed, IInv
<1>. QED
  BY <1>1, <1>2

\* A timeout that fires has left mio's timer, and its coroutine had no other.
LEMMA FiredFreed ==
  ASSUME IInv, NEW slot \in Slot, timeouts[slot] # None,
         timeouts' = [timeouts EXCEPT ![slot] = None]
  PROVE  Freed(timeouts[slot].co)
<1>. DEFINE c == timeouts[slot].co
<1>1. c \in Coroutine
  BY DEF IInv, TypeOK
<1>2. handle[c] = [slot |-> slot, tick |-> timeouts[slot].tick]
  BY DEF IInv, NoTimeoutLeaks
<1>3. ASSUME NEW other \in Slot, timeouts'[other] # None
      PROVE  timeouts'[other] = timeouts[other] /\ timeouts[other].co # c
  <2>1. other # slot /\ timeouts'[other] = timeouts[other] /\ timeouts[other] # None
    BY <1>3 DEF IInv, TypeOK
  <2>2. timeouts[other].co = c =>
          handle[c] = [slot |-> other, tick |-> timeouts[other].tick]
    BY <2>1 DEF IInv, NoTimeoutLeaks
  <2>. QED
    BY <2>1, <2>2, <1>2
<1>4. timeouts' \in [Slot -> [tick : Nat, co : Coroutine, id : Id] \cup {None}]
  BY DEF IInv, TypeOK
<1>. QED
  BY <1>3, <1>4 DEF Freed

\* A step that leaves registrations and timeouts alone keeps what is said of them.
LEMMA LoopUnchanged ==
  ASSUME IInv, UNCHANGED <<handle, timeouts, registered, ids, blockedOn, lastEvent, running, ready>>
  PROVE  LoopTypes' /\ AwakeUnblocked' /\ RegisteredIffBlocked' /\ NoTimeoutLeaks'
<1>1. LoopTypes'
  BY DEF LoopTypes, IInv, TypeOK
<1>2. AwakeUnblocked'
  BY DEF IInv, AwakeUnblocked
<1>3. RegisteredIffBlocked'
  BY DEF IInv, RegisteredIffBlocked
<1>4. NoTimeoutLeaks'
  BY DEF IInv, NoTimeoutLeaks
<1>. QED
  BY <1>1, <1>2, <1>3, <1>4

-----------------------------------------------------------------------------
(* What a coroutine is in the middle of *)

\* The types that LoopTypes leaves out.
CoTypes ==
  /\ now \in 0 .. MaxTime
  /\ deadline \in [Coroutine -> 0 .. MaxTime]
  /\ batch \subseteq [co : Coroutine, id : Id, src : Io \cup {None}]
  /\ pc \in [Coroutine -> {"user", "select", "wait", "arms", "try", "block", "gone"}]
  /\ arms \in [Coroutine -> Seq(Source)]
  /\ arm \in [Coroutine -> Nat \ {0}]
  /\ ret \in [Coroutine -> [id : Id, src : Source \cup {None}]]
  /\ ran \in [Coroutine -> SUBSET Source]
  /\ reading \in [Coroutine -> Source \cup {None}]
  /\ ops \in [Coroutine -> 0 .. MaxOps]

\* The types, in two halves.
LEMMA AllTypes == TypeOK <=> LoopTypes /\ CoTypes
BY DEF TypeOK, LoopTypes, CoTypes

\* What the invariant says of one coroutine.
CoInv(c) ==
  /\ pc[c] \in {"try", "block"} => reading[c] \in Source
  /\ pc[c] \in {"select", "wait", "arms"} => arms[c] # <<>>
  /\ pc[c] \in {"user", "gone"} => arms[c] = <<>>
  /\ arms[c] # <<>> => arms[c] \in Selects
  /\ pc[c] \in {"select", "wait"} \/ arms[c] = <<>> => arm[c] = 1 /\ ran[c] = {}
  /\ arms[c] # <<>> /\ pc[c] # "select" =>
       \A i \in DOMAIN arms[c] : i >= arm[c] =>
         ids[c][arms[c][i]] = i - 1 \/ (ids[c][arms[c][i]] = 0 /\ ran[c] # {})
  /\ \A s \in ran[c] : \E i \in DOMAIN arms[c] : i < arm[c] /\ arms[c][i] = s
  /\ pc[c] \in {"try", "block"} /\ arms[c] # <<>> => ran[c] # {}

\* The invariant, in the parts that the steps below keep.
LEMMA CoInvSplits ==
  (\A c \in Coroutine : CoInv(c)) <=> Underway /\ ArmIds /\ ArmOrder
BY Zenon DEF CoInv, Underway, ArmIds, ArmOrder

\* A step of coroutine c does not touch what the others are in the middle of.
LEMMA OthersKeep ==
  ASSUME IInv, NEW c \in Coroutine, CoInv(c)',
         \A d \in Coroutine : d # c =>
           /\ pc'[d] = pc[d] /\ arms'[d] = arms[d] /\ arm'[d] = arm[d] /\ ret'[d] = ret[d]
           /\ ran'[d] = ran[d] /\ reading'[d] = reading[d] /\ ids'[d] = ids[d]
  PROVE  (Underway /\ ArmIds /\ ArmOrder)'
<1>1. \A d \in Coroutine : CoInv(d)
  BY CoInvSplits DEF IInv
<1>2. ASSUME NEW d \in Coroutine PROVE CoInv(d)'
  <2>1. CASE d = c
    BY <2>1
  <2>2. CASE d # c
    <3>1. /\ pc'[d] = pc[d] /\ arms'[d] = arms[d] /\ arm'[d] = arm[d] /\ ret'[d] = ret[d]
          /\ ran'[d] = ran[d] /\ reading'[d] = reading[d] /\ ids'[d] = ids[d]
      BY <2>2
    <3>. QED
      BY <1>1, <3>1 DEF CoInv
  <2>. QED
    BY <2>1, <2>2
<1>3. (\A d \in Coroutine : CoInv(d))'
  BY <1>2
<1>. QED
  BY <1>3, Zenon DEF CoInv, Underway, ArmIds, ArmOrder

\* A step of the event loop does not touch what any coroutine is in the middle of.
LEMMA NobodyMoves ==
  ASSUME IInv, UNCHANGED <<pc, arms, arm, ret, ran, reading, ids>>
  PROVE  (Underway /\ ArmIds /\ ArmOrder)'
BY DEF IInv, Underway, ArmIds, ArmOrder

\* A new operation: its number and the timer that it may set.
LEMMA BeginFacts ==
  ASSUME IInv, NEW c \in Coroutine, Begin(c)
  PROVE  /\ running = c /\ pc[c] = "user"
         /\ ops' \in [Coroutine -> 0 .. MaxOps] /\ deadline' \in [Coroutine -> 0 .. MaxTime]
<1>1. PICK d \in {deadline[c]} \cup {now + n : n \in 0 .. MaxDelay} :
        d <= MaxTime /\ deadline' = [deadline EXCEPT ![c] = d]
  BY DEF Begin
<1>2. d \in 0 .. MaxTime
  BY <1>1, ClockAssumption DEF IInv, TypeOK
<1>3. deadline' \in [Coroutine -> 0 .. MaxTime]
  BY <1>1, <1>2 DEF IInv, TypeOK
<1>4. ops[c] \in 0 .. MaxOps /\ ops[c] < MaxOps /\ ops' = [ops EXCEPT ![c] = @ + 1]
  BY DEF Begin, IInv, TypeOK
<1>5. ops[c] + 1 \in 0 .. MaxOps
  BY <1>4, ClockAssumption
<1>6. ops' \in [Coroutine -> 0 .. MaxOps]
  BY <1>4, <1>5 DEF IInv, TypeOK
<1>. QED
  BY <1>3, <1>6 DEF Begin, At

\* The code of an arm that has run: it goes on to a read or to the next arm.
LEMMA ArmCodeFacts ==
  ASSUME IInv, NEW c \in Coroutine, ArmCode(c)
  PROVE  /\ pc' \in [Coroutine -> {"user", "select", "wait", "arms", "try", "block", "gone"}]
         /\ reading' \in [Coroutine -> Source \cup {None}] /\ ops' \in [Coroutine -> 0 .. MaxOps]
         /\ pc'[c] \in {"arms", "try"} /\ (pc'[c] = "try" => reading'[c] \in Source)
         /\ \A d \in Coroutine : d # c => pc'[d] = pc[d] /\ reading'[d] = reading[d]
<1>1. CASE /\ pc' = [pc EXCEPT ![c] = "arms"]
           /\ reading' = [reading EXCEPT ![c] = None]
           /\ ops' = ops
  BY <1>1 DEF IInv, TypeOK
<1>2. CASE /\ ops[c] < MaxOps
           /\ ops' = [ops EXCEPT ![c] = @ + 1]
           /\ pc' = [pc EXCEPT ![c] = "try"]
           /\ \E s \in Source : reading' = [reading EXCEPT ![c] = s]
  <2>1. ops[c] + 1 \in 0 .. MaxOps
    BY <1>2, ClockAssumption DEF IInv, TypeOK
  <2>2. ops' \in [Coroutine -> 0 .. MaxOps]
    BY <1>2, <2>1 DEF IInv, TypeOK
  <2>3. PICK s \in Source : reading' = [reading EXCEPT ![c] = s]
    BY <1>2
  <2>. QED
    BY <1>2, <2>2, <2>3 DEF IInv, TypeOK
<1>. QED
  BY <1>1, <1>2 DEF ArmCode

-----------------------------------------------------------------------------
(* One lemma for each action of a coroutine *)

\* select! is entered: register_all, or an event at once.
LEMMA SelectStep ==
  ASSUME IInv, NEW c \in Coroutine, NEW srcs \in Selects, Select(c, srcs)
  PROVE  IInv'
<1>1. /\ running = c /\ pc[c] = "user"
      /\ ops' \in [Coroutine -> 0 .. MaxOps] /\ deadline' \in [Coroutine -> 0 .. MaxTime]
  BY BeginFacts DEF Select
<1>2. /\ arms' = [arms EXCEPT ![c] = srcs] /\ pc' = [pc EXCEPT ![c] = "select"]
      /\ UNCHANGED <<handle, timeouts, registered, ids, blockedOn, lastEvent, running, ready>>
      /\ UNCHANGED <<now, batch, arm, ret, ran, reading>>
  BY DEF Select, loopVars
<1>3. LoopTypes' /\ AwakeUnblocked' /\ RegisteredIffBlocked' /\ NoTimeoutLeaks'
  BY <1>2, LoopUnchanged
<1>4. List(srcs)
  BY SelectsAreLists
<1>5. CoTypes'
  BY <1>1, <1>2, <1>4 DEF IInv, TypeOK, CoTypes, List
<1>6. arm[c] = 1 /\ ran[c] = {}
  BY <1>1 DEF IInv, Underway
<1>7. /\ pc'[c] = "select" /\ arms'[c] = srcs /\ arm'[c] = 1 /\ ran'[c] = {}
      /\ \A d \in Coroutine : d # c => pc'[d] = pc[d] /\ arms'[d] = arms[d]
  BY <1>2, <1>6 DEF IInv, TypeOK
<1>8. CoInv(c)'
  BY <1>7, <1>4 DEF CoInv, List
<1>9. (Underway /\ ArmIds /\ ArmOrder)'
  BY <1>2, <1>7, <1>8, OthersKeep
<1>10. TypeOK'
  BY <1>3, <1>5 DEF TypeOK, LoopTypes, CoTypes
<1>. QED
  BY <1>3, <1>9, <1>10 DEF IInv

\* select_wait jumps out of the coroutine.
LEMMA SelectWaitStep ==
  ASSUME IInv, NEW c \in Coroutine, SelectWait(c)
  PROVE  IInv'
<1>. DEFINE srcs == arms[c]
<1>1. /\ running = c /\ pc[c] = "select" /\ Block(c, srcs)
      /\ pc' = [pc EXCEPT ![c] = "wait"]
      /\ UNCHANGED <<now, deadline, arms, arm, ret, ran, reading, ops>>
  BY DEF SelectWait, At, selectVars
<1>2. srcs \in Selects /\ srcs # <<>> /\ arm[c] = 1 /\ ran[c] = {}
  BY <1>1 DEF IInv, Underway
<1>3. List(srcs)
  BY <1>2, SelectsAreLists
<1>4. /\ LoopTypes' /\ AwakeUnblocked' /\ RegisteredIffBlocked' /\ NoTimeoutLeaks'
      /\ \A s \in Source : ids'[c][s] = IF s \in Range(srcs) THEN IndexOf(s, srcs) ELSE ids[c][s]
      /\ \A d \in Coroutine : d # c => ids'[d] = ids[d]
  BY <1>1, <1>3, BlockFacts
<1>5. CoTypes'
  BY <1>1, OutdateFacts DEF Block, IInv, TypeOK, CoTypes
<1>6. ASSUME NEW i \in DOMAIN srcs PROVE ids'[c][srcs[i]] = i - 1
  <2>1. srcs[i] \in Range(srcs) /\ IndexOf(srcs[i], srcs) = i - 1
    BY <1>3, <1>6, IndexOfArm
  <2>2. srcs[i] \in Source
    BY <2>1, <1>3, IndexFacts
  <2>. QED
    BY <2>1, <2>2, <1>4
<1>7. /\ pc'[c] = "wait" /\ arms'[c] = srcs /\ arm'[c] = 1 /\ ran'[c] = {}
      /\ \A d \in Coroutine : d # c => pc'[d] = pc[d]
  BY <1>1, <1>2 DEF IInv, TypeOK
<1>. HIDE DEF srcs
<1>8. CoInv(c)'
  BY <1>2, <1>6, <1>7 DEF CoInv
<1>9. (Underway /\ ArmIds /\ ArmOrder)'
  BY <1>1, <1>4, <1>7, <1>8, OthersKeep
<1>10. TypeOK'
  BY <1>4, <1>5 DEF TypeOK, LoopTypes, CoTypes
<1>. QED
  BY <1>4, <1>9, <1>10 DEF IInv

\* select_wait returns a copy of the event.
LEMMA SelectReturnsStep ==
  ASSUME IInv, NEW c \in Coroutine, SelectReturns(c)
  PROVE  IInv'
<1>1. /\ pc[c] = "wait" /\ pc' = [pc EXCEPT ![c] = "arms"]
      /\ ret' = [ret EXCEPT ![c] = lastEvent[c]]
      /\ UNCHANGED <<handle, timeouts, registered, ids, blockedOn, lastEvent, running, ready>>
      /\ UNCHANGED <<now, batch, deadline, arms, arm, ran, reading, ops>>
  BY DEF SelectReturns, At, loopVars, sourceVars
<1>2. LoopTypes' /\ AwakeUnblocked' /\ RegisteredIffBlocked' /\ NoTimeoutLeaks'
  BY <1>1, LoopUnchanged
<1>3. CoTypes'
  BY <1>1 DEF IInv, TypeOK, CoTypes
<1>4. /\ pc'[c] = "arms"
      /\ \A d \in Coroutine : d # c => pc'[d] = pc[d] /\ ret'[d] = ret[d]
  BY <1>1 DEF IInv, TypeOK
<1>5. CoInv(c) /\ ran[c] = {}
  BY <1>1, CoInvSplits DEF IInv, Underway
<1>6. CoInv(c)'
  BY <1>1, <1>4, <1>5 DEF CoInv
<1>7. (Underway /\ ArmIds /\ ArmOrder)'
  BY <1>1, <1>4, <1>6, OthersKeep
<1>8. TypeOK'
  BY <1>2, <1>3 DEF TypeOK, LoopTypes, CoTypes
<1>. QED
  BY <1>2, <1>7, <1>8 DEF IInv

\* The id of the event is compared with one arm.
LEMMA ArmStep ==
  ASSUME IInv, NEW c \in Coroutine, Arm(c)
  PROVE  IInv'
<1>1. /\ pc[c] = "arms" /\ arm[c] \in DOMAIN arms[c]
      /\ arm' = [arm EXCEPT ![c] = arm[c] + 1]
      /\ UNCHANGED <<handle, timeouts, registered, ids, blockedOn, lastEvent, running, ready>>
      /\ UNCHANGED <<now, batch, deadline, arms, ret>>
  BY DEF Arm, At, loopVars, sourceVars
<1>2. LoopTypes' /\ AwakeUnblocked' /\ RegisteredIffBlocked' /\ NoTimeoutLeaks'
  BY <1>1, LoopUnchanged
<1>3. /\ CoInv(c) /\ arms[c] # <<>> /\ arm[c] \in Nat \ {0} /\ arms[c] \in Seq(Source)
      /\ arms[c][arm[c]] \in Source
  BY <1>1, CoInvSplits DEF IInv, Underway, TypeOK
<1>4. /\ arm' \in [Coroutine -> Nat \ {0}] /\ arm'[c] = arm[c] + 1
      /\ \A d \in Coroutine : d # c => arm'[d] = arm[d]
      /\ \A i \in DOMAIN arms[c] : i < arm[c] => i < arm[c] + 1
      /\ \A i \in DOMAIN arms[c] : i >= arm[c] + 1 => i >= arm[c]
      /\ arm[c] < arm[c] + 1
  <2>1. arm \in [Coroutine -> Nat \ {0}]
    BY DEF IInv, TypeOK
  <2>2. arm[c] + 1 \in Nat \ {0} /\ arm[c] < arm[c] + 1
    BY <1>3
  <2>3. \A i \in Nat : (i < arm[c] => i < arm[c] + 1) /\ (i >= arm[c] + 1 => i >= arm[c])
    BY <1>3
  <2>4. DOMAIN arms[c] \subseteq Nat
    BY <1>3, LenProperties
  <2>5. /\ arm' \in [Coroutine -> Nat \ {0}] /\ arm'[c] = arm[c] + 1
        /\ \A d \in Coroutine : d # c => arm'[d] = arm[d]
    BY <2>1, <2>2, <1>1
  <2>. QED
    BY <2>2, <2>3, <2>4, <2>5
<1>5. CASE ids[c][arms[c][arm[c]]] = ret[c].id
  <2>. DEFINE s == arms[c][arm[c]]
  <2>1. ran' = [ran EXCEPT ![c] = ran[c] \cup {s}] /\ ArmCode(c)
    BY <1>5 DEF Arm
  <2>2. /\ pc' \in [Coroutine -> {"user", "select", "wait", "arms", "try", "block", "gone"}]
        /\ reading' \in [Coroutine -> Source \cup {None}] /\ ops' \in [Coroutine -> 0 .. MaxOps]
        /\ pc'[c] \in {"arms", "try"} /\ (pc'[c] = "try" => reading'[c] \in Source)
        /\ \A d \in Coroutine : d # c => pc'[d] = pc[d] /\ reading'[d] = reading[d]
    BY <2>1, ArmCodeFacts
  <2>3. /\ ran' \in [Coroutine -> SUBSET Source] /\ ran'[c] = ran[c] \cup {s}
        /\ \A d \in Coroutine : d # c => ran'[d] = ran[d]
    BY <2>1, <1>3 DEF IInv, TypeOK
  <2>4. CoTypes'
    BY <2>2, <2>3, <1>1, <1>4 DEF IInv, TypeOK, CoTypes
  <2>6. \A r \in ran'[c] : \E i \in DOMAIN arms[c] : i < arm[c] + 1 /\ arms[c][i] = r
    BY <2>3, <1>1, <1>3, <1>4 DEF CoInv
  <2>7. \A i \in DOMAIN arms[c] : i >= arm[c] + 1 =>
          ids[c][arms[c][i]] = i - 1 \/ (ids[c][arms[c][i]] = 0 /\ ran'[c] # {})
    BY <2>3, <1>1, <1>3, <1>4 DEF CoInv
  <2>a. /\ arms'[c] = arms[c] /\ arms[c] # <<>> /\ arms[c] \in Selects
        /\ ids'[c] = ids[c] /\ ret'[c] = ret[c] /\ ran'[c] # {}
    BY <2>3, <1>1, <1>3 DEF CoInv
  <2>b. pc'[c] \notin {"select", "wait", "user", "gone"}
    BY <2>2
  <2>8. CoInv(c)'
    BY <2>2, <2>a, <2>b, <2>6, <2>7, <1>4 DEF CoInv
  <2>9. (Underway /\ ArmIds /\ ArmOrder)'
    BY <2>2, <2>3, <2>8, <1>1, <1>4, OthersKeep
  <2>. QED
    BY <2>4, <2>9, <1>2 DEF IInv, TypeOK, LoopTypes, CoTypes
<1>6. CASE ids[c][arms[c][arm[c]]] # ret[c].id
  <2>1. UNCHANGED <<ran, pc, reading, ops>>
    BY <1>6 DEF Arm
  <2>2. CoTypes'
    BY <2>1, <1>1, <1>4 DEF IInv, TypeOK, CoTypes
  <2>3. \A r \in ran[c] : \E i \in DOMAIN arms[c] : i < arm[c] + 1 /\ arms[c][i] = r
    BY <1>3, <1>4 DEF CoInv
  <2>4. \A i \in DOMAIN arms[c] : i >= arm[c] + 1 =>
          ids[c][arms[c][i]] = i - 1 \/ (ids[c][arms[c][i]] = 0 /\ ran[c] # {})
    BY <1>1, <1>3, <1>4 DEF CoInv
  <2>5. CoInv(c)'
    BY <2>1, <2>3, <2>4, <1>1, <1>3, <1>4 DEF CoInv
  <2>6. (Underway /\ ArmIds /\ ArmOrder)'
    BY <2>1, <2>5, <1>1, <1>4, OthersKeep
  <2>. QED
    BY <2>2, <2>6, <1>2 DEF IInv, TypeOK, LoopTypes, CoTypes
<1>. QED
  BY <1>5, <1>6

\* After the last arm select! is over.
LEMMA SelectDoneStep ==
  ASSUME IInv, NEW c \in Coroutine, SelectDone(c)
  PROVE  IInv'
<1>1. /\ pc' = [pc EXCEPT ![c] = "user"] /\ arms' = [arms EXCEPT ![c] = <<>>]
      /\ arm' = [arm EXCEPT ![c] = 1] /\ ret' = [ret EXCEPT ![c] = NoEvent]
      /\ ran' = [ran EXCEPT ![c] = {}]
      /\ UNCHANGED <<handle, timeouts, registered, ids, blockedOn, lastEvent, running, ready>>
      /\ UNCHANGED <<now, batch, deadline, reading, ops>>
  BY DEF SelectDone, loopVars, sourceVars
<1>2. LoopTypes' /\ AwakeUnblocked' /\ RegisteredIffBlocked' /\ NoTimeoutLeaks'
  BY <1>1, LoopUnchanged
<1>3. CoTypes'
  <2>1. /\ <<>> \in Seq(Source) /\ 1 \in Nat \ {0}
        /\ NoEvent \in [id : Id, src : Source \cup {None}]
    BY ConstantFacts DEF NoEvent
  <2>. QED
    BY <1>1, <2>1 DEF IInv, TypeOK, CoTypes
<1>4. /\ pc'[c] = "user" /\ arms'[c] = <<>> /\ arm'[c] = 1 /\ ran'[c] = {}
      /\ \A d \in Coroutine : d # c =>
           /\ pc'[d] = pc[d] /\ arms'[d] = arms[d] /\ arm'[d] = arm[d]
           /\ ret'[d] = ret[d] /\ ran'[d] = ran[d]
  BY <1>1 DEF IInv, TypeOK
<1>5. CoInv(c)'
  BY <1>4 DEF CoInv
<1>6. (Underway /\ ArmIds /\ ArmOrder)'
  BY <1>1, <1>4, <1>5, OthersKeep
<1>. QED
  BY <1>2, <1>3, <1>6 DEF IInv, TypeOK, LoopTypes, CoTypes

\* A read, accept or recv begins.
LEMMA ReadStep ==
  ASSUME IInv, NEW c \in Coroutine, NEW s \in Source, Read(c, s)
  PROVE  IInv'
<1>1. /\ running = c /\ pc[c] = "user"
      /\ ops' \in [Coroutine -> 0 .. MaxOps] /\ deadline' \in [Coroutine -> 0 .. MaxTime]
  BY BeginFacts DEF Read
<1>2. /\ reading' = [reading EXCEPT ![c] = s] /\ pc' = [pc EXCEPT ![c] = "try"]
      /\ UNCHANGED <<handle, timeouts, registered, ids, blockedOn, lastEvent, running, ready>>
      /\ UNCHANGED <<now, batch, arms, arm, ret, ran>>
  BY DEF Read, loopVars, selectVars
<1>3. LoopTypes' /\ AwakeUnblocked' /\ RegisteredIffBlocked' /\ NoTimeoutLeaks'
  BY <1>2, LoopUnchanged
<1>4. CoTypes'
  BY <1>1, <1>2 DEF IInv, TypeOK, CoTypes
<1>5. CoInv(c) /\ arms[c] = <<>> /\ ran[c] = {}
  BY <1>1, CoInvSplits DEF IInv, Underway
<1>6. /\ pc'[c] = "try" /\ reading'[c] = s
      /\ \A d \in Coroutine : d # c => pc'[d] = pc[d] /\ reading'[d] = reading[d]
  BY <1>2 DEF IInv, TypeOK
<1>7. CoInv(c)'
  BY <1>2, <1>5, <1>6 DEF CoInv
<1>8. (Underway /\ ArmIds /\ ArmOrder)'
  BY <1>2, <1>6, <1>7, OthersKeep
<1>. QED
  BY <1>3, <1>4, <1>8 DEF IInv, TypeOK, LoopTypes, CoTypes

\* One attempt: it succeeds, or it has to wait.
LEMMA TryReadStep ==
  ASSUME IInv, NEW c \in Coroutine, TryRead(c)
  PROVE  IInv'
<1>1. /\ pc[c] = "try"
      /\ UNCHANGED <<handle, timeouts, registered, ids, blockedOn, lastEvent, running, ready>>
      /\ UNCHANGED <<now, batch, deadline, arms, arm, ret, ran>>
  BY DEF TryRead, At, loopVars, sourceVars, selectVars
<1>2. LoopTypes' /\ AwakeUnblocked' /\ RegisteredIffBlocked' /\ NoTimeoutLeaks'
  BY <1>1, LoopUnchanged
<1>3. CoInv(c)
  BY CoInvSplits DEF IInv
<1>4. SUFFICES
        /\ pc' \in [Coroutine -> {"user", "select", "wait", "arms", "try", "block", "gone"}]
        /\ reading' \in [Coroutine -> Source \cup {None}] /\ ops' \in [Coroutine -> 0 .. MaxOps]
        /\ CoInv(c)'
        /\ \A d \in Coroutine : d # c => pc'[d] = pc[d] /\ reading'[d] = reading[d]
  <2>1. CoTypes'
    BY <1>1, <1>4 DEF IInv, TypeOK, CoTypes
  <2>2. (Underway /\ ArmIds /\ ArmOrder)'
    BY <1>1, <1>4, OthersKeep
  <2>. QED
    BY <2>1, <2>2, <1>2 DEF IInv, TypeOK, LoopTypes, CoTypes
<1>5. CASE /\ arms[c] = <<>> /\ pc' = [pc EXCEPT ![c] = "user"]
           /\ reading' = [reading EXCEPT ![c] = None] /\ ops' = ops
  <2>1. /\ pc'[c] = "user"
        /\ \A d \in Coroutine : d # c => pc'[d] = pc[d] /\ reading'[d] = reading[d]
    BY <1>5 DEF IInv, TypeOK
  <2>2. ran[c] = {} /\ arm[c] = 1
    BY <1>3, <1>5 DEF CoInv
  <2>. QED
    BY <2>1, <2>2, <1>1, <1>3, <1>5 DEF IInv, TypeOK, CoInv
<1>6. CASE arms[c] # <<>> /\ ArmCode(c)
  BY <1>1, <1>3, <1>6, ArmCodeFacts DEF CoInv
<1>7. CASE pc' = [pc EXCEPT ![c] = "block"] /\ UNCHANGED <<reading, ops>>
  <2>1. /\ pc'[c] = "block"
        /\ \A d \in Coroutine : d # c => pc'[d] = pc[d] /\ reading'[d] = reading[d]
    BY <1>7 DEF IInv, TypeOK
  <2>2. CoInv(c)'
    BY <2>1, <1>1, <1>3, <1>7 DEF CoInv
  <2>. QED
    BY <2>1, <2>2, <1>7 DEF IInv, TypeOK
<1>. QED
  BY <1>5, <1>6, <1>7 DEF TryRead

\* block_on registers its one source and jumps out.
LEMMA BlockOnStep ==
  ASSUME IInv, NEW c \in Coroutine, BlockOn(c)
  PROVE  IInv'
<1>. DEFINE srcs == <<reading[c]>>
<1>1. /\ running = c /\ pc[c] = "block" /\ Block(c, srcs)
      /\ pc' = [pc EXCEPT ![c] = "try"]
      /\ UNCHANGED <<now, deadline, arms, arm, ret, ran, reading, ops>>
  BY DEF BlockOn, At, selectVars
<1>2. CoInv(c) /\ reading[c] \in Source
  BY <1>1, CoInvSplits DEF IInv, Underway
<1>3. List(srcs)
  BY <1>2, OneSourceIsList
<1>4. /\ LoopTypes' /\ AwakeUnblocked' /\ RegisteredIffBlocked' /\ NoTimeoutLeaks'
      /\ \A s \in Source : ids'[c][s] = IF s \in Range(srcs) THEN IndexOf(s, srcs) ELSE ids[c][s]
      /\ \A d \in Coroutine : d # c => ids'[d] = ids[d]
  BY <1>1, <1>3, BlockFacts
<1>5. CoTypes'
  BY <1>1, OutdateFacts DEF Block, IInv, TypeOK, CoTypes
<1>6. \A s \in Source : ids'[c][s] = ids[c][s] \/ ids'[c][s] = 0
  <2>1. 1 \in DOMAIN srcs /\ srcs[1] = reading[c]
    OBVIOUS
  <2>2. \A s \in Range(srcs) : s = srcs[1]
    BY DEF Range
  <2>3. IndexOf(srcs[1], srcs) = 1 - 1
    BY <2>1, <1>3, IndexOfArm
  <2>. HIDE DEF srcs
  <2>. QED
    BY <2>2, <2>3, <1>4
<1>7. /\ pc'[c] = "try"
      /\ \A d \in Coroutine : d # c => pc'[d] = pc[d]
  BY <1>1 DEF IInv, TypeOK
<1>. HIDE DEF srcs
<1>8. ASSUME arms[c] # <<>>
      PROVE  /\ ran[c] # {}
             /\ \A i \in DOMAIN arms[c] : i >= arm[c] =>
                  ids'[c][arms[c][i]] = i - 1 \/ (ids'[c][arms[c][i]] = 0 /\ ran[c] # {})
  <2>1. \A i \in DOMAIN arms[c] : arms[c][i] \in Source
    BY DEF IInv, TypeOK
  <2>. QED
    BY <2>1, <1>1, <1>2, <1>6, <1>8 DEF CoInv
<1>9. CoInv(c)'
  BY <1>1, <1>2, <1>7, <1>8 DEF CoInv
<1>10. (Underway /\ ArmIds /\ ArmOrder)'
  BY <1>1, <1>4, <1>7, <1>9, OthersKeep
<1>. QED
  BY <1>4, <1>5, <1>10 DEF IInv, TypeOK, LoopTypes, CoTypes

\* The coroutine ends.
LEMMA FinishStep ==
  ASSUME IInv, NEW c \in Coroutine, Finish(c)
  PROVE  IInv'
<1>1. /\ running = c /\ pc[c] = "user" /\ pc' = [pc EXCEPT ![c] = "gone"] /\ running' = None
      /\ UNCHANGED <<handle, timeouts, registered, ids, blockedOn, lastEvent, ready>>
      /\ UNCHANGED <<now, batch, deadline, arms, arm, ret, ran, reading, ops>>
  BY DEF Finish, At, loopVars, sourceVars, selectVars
<1>2. TypeOK'
  BY <1>1 DEF IInv, TypeOK
<1>3. AwakeUnblocked'
  <2>1. \A i \in DOMAIN ready : ready[i] # None
    BY SourceAssumption DEF IInv, TypeOK
  <2>. QED
    BY <2>1, <1>1 DEF IInv, AwakeUnblocked
<1>4. RegisteredIffBlocked' /\ NoTimeoutLeaks'
  BY <1>1 DEF IInv, RegisteredIffBlocked, NoTimeoutLeaks
<1>5. CoInv(c)
  BY CoInvSplits DEF IInv
<1>6. pc'[c] = "gone" /\ \A d \in Coroutine : d # c => pc'[d] = pc[d]
  BY <1>1 DEF IInv, TypeOK
<1>7. CoInv(c)'
  BY <1>1, <1>5, <1>6 DEF CoInv
<1>8. (Underway /\ ArmIds /\ ArmOrder)'
  BY <1>1, <1>6, <1>7, OthersKeep
<1>. QED
  BY <1>2, <1>3, <1>4, <1>8 DEF IInv

-----------------------------------------------------------------------------
(* One lemma for each action of the event loop *)

\* A coroutine that is woken is unblocked: its sources are deregistered.
LEMMA ResumeStep ==
  ASSUME IInv, Resume
  PROVE  IInv'
<1>1. /\ running = None /\ ready # <<>> /\ running' = Head(ready) /\ ready' = Tail(ready)
      /\ UNCHANGED <<handle, timeouts, registered, ids, blockedOn, lastEvent>>
      /\ UNCHANGED <<now, batch, deadline, pc, arms, arm, ret, ran, reading, ops>>
  BY DEF Resume, loopVars, sourceVars, coVars, selectVars
<1>2. /\ ready \in Seq(Coroutine) /\ Len(ready) \in Nat \ {0} /\ DOMAIN ready = 1 .. Len(ready)
      /\ Head(ready) = ready[1] /\ 1 \in DOMAIN ready /\ ready[1] \in Coroutine
      /\ Tail(ready) \in Seq(Coroutine) /\ DOMAIN Tail(ready) = 1 .. Len(ready) - 1
      /\ \A i \in 1 .. Len(ready) - 1 : /\ Tail(ready)[i] = ready[i + 1]
                                       /\ i + 1 \in DOMAIN ready /\ i + 1 # 1
  <2>1. ready \in Seq(Coroutine) /\ ready # <<>>
    BY <1>1 DEF IInv, TypeOK
  <2>2. /\ Len(ready) \in Nat \ {0} /\ DOMAIN ready = 1 .. Len(ready)
        /\ \A i \in 1 .. Len(ready) : ready[i] \in Coroutine
    BY <2>1, LenProperties, EmptySeq
  <2>3. /\ Tail(ready) \in Seq(Coroutine) /\ Len(Tail(ready)) = Len(ready) - 1
        /\ \A i \in 1 .. Len(Tail(ready)) : Tail(ready)[i] = ready[i + 1]
        /\ Head(ready) = ready[1]
    BY <2>1, HeadTailProperties
  <2>4. DOMAIN Tail(ready) = 1 .. Len(ready) - 1
    BY <2>3, LenProperties
  <2>. QED
    BY <2>1, <2>2, <2>3, <2>4
<1>3. TypeOK'
  BY <1>1, <1>2 DEF IInv, TypeOK
<1>4. AwakeUnblocked'
  <2>1. running' = ready[1] /\ blockedOn'[running'] = <<>>
    BY <1>1, <1>2 DEF IInv, AwakeUnblocked
  <2>2. ASSUME NEW i \in DOMAIN (ready')
        PROVE  blockedOn'[ready'[i]] = <<>> /\ ready'[i] # running'
    BY <2>1, <2>2, <1>1, <1>2 DEF IInv, AwakeUnblocked
  <2>3. ASSUME NEW i \in DOMAIN (ready'), NEW j \in DOMAIN (ready'), ready'[i] = ready'[j]
        PROVE  i = j
    <3>1. i \in Nat /\ j \in Nat /\ i + 1 = j + 1
      BY <2>3, <1>1, <1>2 DEF IInv, AwakeUnblocked
    <3>. QED
      BY <3>1
  <2>. QED
    BY <2>1, <2>2, <2>3 DEF AwakeUnblocked
<1>5. RegisteredIffBlocked'
  BY <1>1 DEF IInv, RegisteredIffBlocked
<1>6. NoTimeoutLeaks'
  BY <1>1 DEF IInv, NoTimeoutLeaks
<1>7. (Underway /\ ArmIds /\ ArmOrder)'
  BY <1>1, NobodyMoves
<1>. QED
  BY <1>3, <1>4, <1>5, <1>6, <1>7 DEF IInv

\* mio polls.
LEMMA PollStep ==
  ASSUME IInv, Poll
  PROVE  IInv'
<1>1. /\ UNCHANGED <<handle, timeouts, registered, ids, blockedOn, lastEvent, running, ready>>
      /\ UNCHANGED <<now, deadline, pc, arms, arm, ret, ran, reading, ops>>
  BY DEF Poll, sourceVars, coVars, selectVars
<1>2. batch' \subseteq [co : Coroutine, id : Id, src : Io \cup {None}]
  <2>1. PICK hot \in SUBSET Registered \ {{}} :
          batch' = {[co |-> t.co, id |-> registered[t.co][t.src], src |-> t.src] : t \in hot}
    BY DEF Poll
  <2>2. \A t \in hot : t.co \in Coroutine /\ t.src \in Io /\ registered[t.co][t.src] # None
    BY DEF Registered
  <2>3. \A t \in hot : registered[t.co][t.src] \in Id
    BY <2>2 DEF IInv, TypeOK
  <2>. QED
    BY <2>1, <2>2, <2>3
<1>3. LoopTypes' /\ AwakeUnblocked' /\ RegisteredIffBlocked' /\ NoTimeoutLeaks'
  BY <1>1, LoopUnchanged
<1>4. CoTypes'
  BY <1>1, <1>2 DEF IInv, TypeOK, CoTypes
<1>5. (Underway /\ ArmIds /\ ArmOrder)'
  BY <1>1, NobodyMoves
<1>. QED
  BY <1>3, <1>4, <1>5 DEF IInv, TypeOK, LoopTypes, CoTypes

\* Handler::ready gets an event.
LEMMA DeliverStep ==
  ASSUME IInv, Deliver
  PROVE  IInv'
<1>1. PICK t \in batch : /\ batch' = batch \ {t}
                         /\ timeouts' = TimerDeregistered(t.co)
                         /\ Event(t.co, [id |-> t.id, src |-> t.src])
  BY DEF Deliver
<1>2. /\ Idle
      /\ UNCHANGED <<handle, ids, ready>>
      /\ UNCHANGED <<now, deadline, pc, arms, arm, ret, ran, reading, ops>>
  BY DEF Deliver, sourceVars, selectVars
<1>3. t.co \in Coroutine /\ [id |-> t.id, src |-> t.src] \in [id : Id, src : Source \cup {None}]
  BY ConstantFacts DEF IInv, TypeOK
<1>4. LoopTypes' /\ AwakeUnblocked' /\ RegisteredIffBlocked' /\ NoTimeoutLeaks'
  BY <1>1, <1>2, <1>3, DeregisteredFreed, EventFacts
<1>5. CoTypes'
  BY <1>1, <1>2 DEF IInv, TypeOK, CoTypes
<1>6. (Underway /\ ArmIds /\ ArmOrder)'
  BY <1>2, NobodyMoves
<1>. QED
  BY <1>4, <1>5, <1>6 DEF IInv, TypeOK, LoopTypes, CoTypes

\* A timeout fires.
LEMMA FireStep ==
  ASSUME IInv, Fire
  PROVE  IInv'
<1>1. PICK slot \in Slot : /\ timeouts[slot] # None
                           /\ timeouts' = [timeouts EXCEPT ![slot] = None]
                           /\ Event(timeouts[slot].co, [id |-> timeouts[slot].id, src |-> Timer])
  BY DEF Fire
<1>2. /\ Idle
      /\ UNCHANGED <<handle, ids, ready>>
      /\ UNCHANGED <<now, batch, deadline, pc, arms, arm, ret, ran, reading, ops>>
  BY DEF Fire, sourceVars, selectVars
<1>3. /\ timeouts[slot].co \in Coroutine
      /\ [id |-> timeouts[slot].id, src |-> Timer] \in [id : Id, src : Source \cup {None}]
  BY <1>1, ConstantFacts DEF IInv, TypeOK
<1>4. LoopTypes' /\ AwakeUnblocked' /\ RegisteredIffBlocked' /\ NoTimeoutLeaks'
  BY <1>1, <1>2, <1>3, FiredFreed, EventFacts
<1>5. CoTypes'
  BY <1>2 DEF IInv, TypeOK, CoTypes
<1>6. (Underway /\ ArmIds /\ ArmOrder)'
  BY <1>2, NobodyMoves
<1>. QED
  BY <1>4, <1>5, <1>6 DEF IInv, TypeOK, LoopTypes, CoTypes

\* Time passes.
LEMMA ClockStep ==
  ASSUME IInv, Clock
  PROVE  IInv'
<1>1. /\ now' = now + 1 /\ now < MaxTime
      /\ UNCHANGED <<handle, timeouts, registered, ids, blockedOn, lastEvent, running, ready>>
      /\ UNCHANGED <<batch, deadline, pc, arms, arm, ret, ran, reading, ops>>
  BY DEF Clock, loopVars, sourceVars, coVars, selectVars
<1>2. now' \in 0 .. MaxTime
  BY <1>1, ClockAssumption DEF IInv, TypeOK
<1>3. LoopTypes' /\ AwakeUnblocked' /\ RegisteredIffBlocked' /\ NoTimeoutLeaks'
  BY <1>1, LoopUnchanged
<1>4. CoTypes'
  BY <1>1, <1>2 DEF IInv, TypeOK, CoTypes
<1>5. (Underway /\ ArmIds /\ ArmOrder)'
  BY <1>1, NobodyMoves
<1>. QED
  BY <1>3, <1>4, <1>5 DEF IInv, TypeOK, LoopTypes, CoTypes

-----------------------------------------------------------------------------
(* The theorems *)

\* At first nothing is registered.
LEMMA InitIInv == Init => IInv
<1>. SUFFICES ASSUME Init PROVE IInv
  OBVIOUS
<1>1. TypeOK
  <2>1. /\ <<>> \in Seq(Source) /\ 0 \in 0 .. MaxTime /\ 0 \in 0 .. MaxOps
        /\ NoEvent \in [id : Id, src : Source \cup {None}]
    BY ConstantFacts, ClockAssumption DEF NoEvent
  <2>2. ready \in [1 .. Cardinality(Coroutine) -> Coroutine]
    BY DEF Init, Slot
  <2>3. ready \in Seq(Coroutine)
    BY <2>2, ConstantFacts, SeqDef
  <2>. QED
    BY <2>1, <2>3 DEF Init, TypeOK
<1>2. AwakeUnblocked
  <2>1. ready \in [Slot -> Coroutine] /\ \A i, j \in Slot : ready[i] = ready[j] => i = j
    BY DEF Init
  <2>2. DOMAIN ready = Slot /\ \A i \in DOMAIN ready : ready[i] \in Coroutine
    BY <2>1
  <2>. QED
    BY <2>1, <2>2, SourceAssumption DEF Init, AwakeUnblocked
<1>3. Underway /\ ArmIds /\ ArmOrder
  BY DEF Init, Underway, ArmIds, ArmOrder
<1>4. RegisteredIffBlocked
  BY EmptyRange DEF Init, RegisteredIffBlocked
<1>5. NoTimeoutLeaks
  BY DEF Init, NoTimeoutLeaks
<1>. QED
  BY <1>1, <1>2, <1>3, <1>4, <1>5 DEF IInv

\* Every step keeps the invariant: one lemma above for each.
LEMMA StepIInv == IInv /\ [Next]_vars => IInv'
<1>. SUFFICES ASSUME IInv, [Next]_vars PROVE IInv'
  OBVIOUS
<1>1. ASSUME NEW c \in Coroutine, Run(c) PROVE IInv'
  BY <1>1, SelectStep, SelectWaitStep, SelectReturnsStep, ArmStep, SelectDoneStep,
     ReadStep, TryReadStep, BlockOnStep, FinishStep DEF Run
<1>2. CASE UNCHANGED vars
  <2>1. /\ UNCHANGED <<handle, timeouts, registered, ids, blockedOn, lastEvent, running, ready>>
        /\ UNCHANGED <<now, batch, deadline, pc, arms, arm, ret, ran, reading, ops>>
    BY <1>2 DEF vars, loopVars, sourceVars, coVars, selectVars
  <2>2. CoTypes'
    BY <2>1 DEF IInv, TypeOK, CoTypes
  <2>. QED
    BY <2>1, <2>2, LoopUnchanged, NobodyMoves DEF IInv, TypeOK, LoopTypes, CoTypes
<1>. QED
  BY <1>1, <1>2, ResumeStep, PollStep, DeliverStep, FireStep, ClockStep DEF Next, Step, Done

\* The invariant is inductive.
THEOREM InvariantHolds == Spec => []IInv
BY InitIInv, StepIInv, PTL DEF Spec

\* In every behaviour the variables have their types: among others the id of every
\* event fits, and a running coroutine is one that exists.
THEOREM TypeCorrect == Spec => []TypeOK
<1>1. IInv => TypeOK
  BY DEF IInv
<1>. QED
  BY <1>1, InvariantHolds, PTL

\* register_all and deregister_all never fail: mio knows exactly the sources that
\* the blocked coroutines wait for, under the ids of their places in blocked_on.
THEOREM RegistrationIsExact == Spec => []RegisteredIffBlocked
<1>1. IInv => RegisteredIffBlocked
  BY DEF IInv
<1>. QED
  BY <1>1, InvariantHolds, PTL

\* No timeout outlives its coroutine's wait, whatever wakes it up and however mio
\* uses its slots again.
THEOREM TimeoutsAreCleared == Spec => []NoTimeoutLeaks
<1>1. IInv => NoTimeoutLeaks
  BY DEF IInv
<1>. QED
  BY <1>1, InvariantHolds, PTL

-----------------------------------------------------------------------------
(* The arm of an event *)

\* The event is of one of these sources, which have their ids from their places
\* (or it is left from an earlier wait).
Names(event, srcs) ==
  event.src # None =>
    event.src \in Range(srcs) /\ event.id = IndexOf(event.src, srcs)

\* An event that is still to come, unless it is left from an earlier wait, ...
FreshEvents ==
  \A t \in batch : blockedOn[t.co] # <<>> =>
    Names([id |-> t.id, src |-> t.src], blockedOn[t.co])

\* ... and a timeout have the id that their source has in the present wait.
TimeoutIds ==
  \A slot \in Slot : timeouts[slot] # None =>
    timeouts[slot].id = IndexOf(Timer, blockedOn[timeouts[slot].co])

\* select! waits for its sources and is woken by one of them.
Woken(c) ==
  pc[c] = "wait" =>
    IF blockedOn[c] = <<>> THEN Names(lastEvent[c], arms[c]) ELSE blockedOn[c] = arms[c]

\* What RightArm says of one coroutine.
ArmRight(c) ==
  ret[c].src # None =>
    LET own == IndexOf(ret[c].src, arms[c]) + 1
    IN /\ arm[c] > own \/ ran[c] # {} => ret[c].src \in ran[c]
       /\ \A s \in ran[c] \ {ret[c].src} : own = 1 /\ ids[c][s] = 0

EventInv(c) == Woken(c) /\ Names(ret[c], arms[c]) /\ ArmRight(c)

RInv == FreshEvents /\ TimeoutIds /\ \A c \in Coroutine : EventInv(c)

\* Places are counted from zero.
LEMMA PlaceFacts ==
  ASSUME NEW srcs, List(srcs), NEW event, Names(event, srcs), event.src # None
  PROVE  /\ event.id \in Nat /\ event.id = IndexOf(event.src, srcs)
         /\ event.id + 1 \in DOMAIN srcs /\ srcs[event.id + 1] = event.src
BY IndexFacts, ConstantFacts DEF Names, Id

\* A step that keeps the waits: only coroutine c moves.
LEMMA MoveKeepsRInv ==
  ASSUME RInv, NEW c \in Coroutine, EventInv(c)',
         UNCHANGED <<batch, timeouts, blockedOn, lastEvent>>,
         \A d \in Coroutine : d # c =>
           /\ pc'[d] = pc[d] /\ arms'[d] = arms[d] /\ arm'[d] = arm[d] /\ ret'[d] = ret[d]
           /\ ran'[d] = ran[d] /\ ids'[d] = ids[d]
  PROVE  RInv'
<1>1. FreshEvents' /\ TimeoutIds'
  BY DEF RInv, FreshEvents, TimeoutIds
<1>2. ASSUME NEW d \in Coroutine, d # c PROVE EventInv(d)'
  <2>1. /\ pc'[d] = pc[d] /\ arms'[d] = arms[d] /\ arm'[d] = arm[d] /\ ret'[d] = ret[d]
        /\ ran'[d] = ran[d] /\ ids'[d] = ids[d]
    BY <1>2
  <2>2. EventInv(d)
    BY DEF RInv
  <2>. QED
    BY <2>1, <2>2 DEF EventInv, Woken, ArmRight, Names
<1>. QED
  BY <1>1, <1>2 DEF RInv

\* A step that changes nothing of this.
LEMMA IdleKeepsRInv ==
  ASSUME RInv, UNCHANGED <<batch, timeouts, blockedOn, lastEvent, pc, arms, arm, ret, ran, ids>>
  PROVE  RInv'
<1>1. FreshEvents' /\ TimeoutIds'
  BY DEF RInv, FreshEvents, TimeoutIds
<1>2. \A d \in Coroutine : EventInv(d)'
  BY DEF RInv, EventInv, Woken, ArmRight, Names
<1>. QED
  BY <1>1, <1>2 DEF RInv

\* What a coroutine does without blocking, the arms of its select! apart.
LEMMA RunKeepsRInv ==
  ASSUME IInv, RInv, NEW c \in Coroutine,
         \/ \E srcs \in Selects : Select(c, srcs)
         \/ SelectReturns(c) \/ SelectDone(c) \/ TryRead(c) \/ Finish(c)
         \/ \E s \in Source : Read(c, s)
  PROVE  RInv'
<1>1. EventInv(c)
  BY DEF RInv
<1>2. ASSUME NEW srcs \in Selects, Select(c, srcs) PROVE RInv'
  <2>1. /\ pc[c] = "user" /\ arms' = [arms EXCEPT ![c] = srcs] /\ pc' = [pc EXCEPT ![c] = "select"]
        /\ UNCHANGED <<batch, timeouts, blockedOn, lastEvent, arm, ret, ran, ids>>
    BY <1>2 DEF Select, Begin, At, loopVars
  <2>2. arms[c] = <<>> /\ ret[c].src = None
    BY <2>1, <1>1, EmptyRange DEF IInv, Underway, EventInv, Names
  <2>3. pc'[c] = "select" /\ \A d \in Coroutine : d # c => pc'[d] = pc[d] /\ arms'[d] = arms[d]
    BY <2>1 DEF IInv, TypeOK
  <2>4. EventInv(c)'
    BY <2>1, <2>2, <2>3 DEF EventInv, Woken, ArmRight, Names
  <2>. QED
    BY <2>1, <2>3, <2>4, MoveKeepsRInv
<1>3. CASE SelectReturns(c)
  <2>1. /\ running = c /\ pc[c] = "wait" /\ pc' = [pc EXCEPT ![c] = "arms"]
        /\ ret' = [ret EXCEPT ![c] = lastEvent[c]]
        /\ UNCHANGED <<batch, timeouts, blockedOn, lastEvent, arms, arm, ran, ids>>
    BY <1>3 DEF SelectReturns, At, loopVars, sourceVars
  <2>2. blockedOn[c] = <<>> /\ Names(lastEvent[c], arms[c])
    BY <2>1, <1>1, SourceAssumption DEF IInv, AwakeUnblocked, EventInv, Woken
  <2>3. /\ pc'[c] = "arms" /\ ret'[c] = lastEvent[c]
        /\ \A d \in Coroutine : d # c => pc'[d] = pc[d] /\ ret'[d] = ret[d]
    BY <2>1 DEF IInv, TypeOK
  <2>4. List(arms[c]) /\ arm[c] = 1 /\ ran[c] = {}
    BY <2>1, SelectsAreLists DEF IInv, Underway
  <2>5. ArmRight(c)'
    <3>1. ASSUME ret'[c].src # None
          PROVE  IndexOf(ret'[c].src, arms[c]) \in Nat
      BY <3>1, <2>2, <2>3, <2>4, PlaceFacts
    <3>. QED
      BY <3>1, <2>1, <2>4 DEF ArmRight
  <2>6. EventInv(c)'
    BY <2>1, <2>2, <2>3, <2>5 DEF EventInv, Woken, Names
  <2>. QED
    BY <2>1, <2>3, <2>6, MoveKeepsRInv
<1>4. CASE SelectDone(c)
  <2>1. /\ pc' = [pc EXCEPT ![c] = "user"] /\ arms' = [arms EXCEPT ![c] = <<>>]
        /\ arm' = [arm EXCEPT ![c] = 1] /\ ret' = [ret EXCEPT ![c] = NoEvent]
        /\ ran' = [ran EXCEPT ![c] = {}]
        /\ UNCHANGED <<batch, timeouts, blockedOn, lastEvent, ids>>
    BY <1>4 DEF SelectDone, loopVars, sourceVars
  <2>2. /\ pc'[c] = "user" /\ ret'[c].src = None
        /\ \A d \in Coroutine : d # c =>
             /\ pc'[d] = pc[d] /\ arms'[d] = arms[d] /\ arm'[d] = arm[d]
             /\ ret'[d] = ret[d] /\ ran'[d] = ran[d]
    BY <2>1 DEF IInv, TypeOK, NoEvent
  <2>3. EventInv(c)'
    BY <2>2 DEF EventInv, Woken, ArmRight, Names
  <2>. QED
    BY <2>1, <2>2, <2>3, MoveKeepsRInv
<1>5. CASE TryRead(c) \/ Finish(c) \/ \E s \in Source : Read(c, s)
  <2>1. UNCHANGED <<batch, timeouts, blockedOn, lastEvent, arms, arm, ret, ran, ids>>
    BY <1>5 DEF TryRead, Finish, Read, loopVars, sourceVars, selectVars
  <2>2. pc'[c] # "wait" /\ \A d \in Coroutine : d # c => pc'[d] = pc[d]
    BY <1>5 DEF TryRead, Finish, Read, ArmCode, IInv, TypeOK
  <2>3. EventInv(c)'
    BY <2>1, <2>2, <1>1 DEF EventInv, Woken, ArmRight, Names
  <2>. QED
    BY <2>1, <2>2, <2>3, MoveKeepsRInv
<1>. QED
  BY <1>2, <1>3, <1>4, <1>5

\* The arm of the event's own source is not passed over, and another one is run for
\* no other reason than the id 0.
LEMMA ArmKeepsRInv ==
  ASSUME IInv, RInv, NEW c \in Coroutine, Arm(c)
  PROVE  RInv'
<1>. DEFINE k == arm[c]
            s == arms[c][arm[c]]
<1>1. /\ pc[c] = "arms" /\ k \in DOMAIN arms[c] /\ arm' = [arm EXCEPT ![c] = @ + 1]
      /\ UNCHANGED <<batch, timeouts, blockedOn, lastEvent, arms, ret, ids>>
  BY DEF Arm, At, loopVars, sourceVars
<1>2. EventInv(c) /\ CoInv(c) /\ arms[c] # <<>> /\ List(arms[c])
  BY <1>1, CoInvSplits, SelectsAreLists DEF RInv, IInv, Underway
<1>3. k \in Nat \ {0} /\ arm'[c] = k + 1 /\ \A d \in Coroutine : d # c => arm'[d] = arm[d]
  BY <1>1 DEF IInv, TypeOK
<1>4. /\ pc'[c] # "wait" /\ ran'[c] = IF ids[c][s] = ret[c].id THEN ran[c] \cup {s} ELSE ran[c]
      /\ \A d \in Coroutine : d # c => pc'[d] = pc[d] /\ ran'[d] = ran[d]
  <2>1. CASE ids[c][s] = ret[c].id
    <3>1. ArmCode(c) /\ ran' = [ran EXCEPT ![c] = @ \cup {s}]
      BY <2>1 DEF Arm
    <3>2. pc'[c] \in {"arms", "try"} /\ \A d \in Coroutine : d # c => pc'[d] = pc[d]
      BY <3>1, ArmCodeFacts
    <3>3. ran'[c] = ran[c] \cup {s} /\ \A d \in Coroutine : d # c => ran'[d] = ran[d]
      BY <3>1 DEF IInv, TypeOK
    <3>. QED
      BY <2>1, <3>2, <3>3
  <2>2. CASE ids[c][s] # ret[c].id
    BY <1>1, <2>2 DEF Arm
  <2>. QED
    BY <2>1, <2>2
<1>5. ids[c][s] = k - 1 \/ (ids[c][s] = 0 /\ ran[c] # {})
  BY <1>1, <1>2, <1>3 DEF CoInv
<1>6. ASSUME ret[c].src # None PROVE ArmRight(c)'
  <2>. DEFINE own == ret[c].id + 1
  <2>1. /\ ret[c].id \in Nat /\ ret[c].id = IndexOf(ret[c].src, arms[c])
        /\ arms[c][own] = ret[c].src
    BY <1>2, <1>6, PlaceFacts DEF EventInv
  <2>2. /\ k > own \/ ran[c] # {} => ret[c].src \in ran[c]
        /\ \A r \in ran[c] \ {ret[c].src} : own = 1 /\ ids[c][r] = 0
    BY <2>1, <1>2, <1>6 DEF EventInv, ArmRight
  <2>3. k = own => s = ret[c].src
    BY <2>1
  <2>. HIDE DEF k, s
  <2>4. k + 1 > own \/ ran'[c] # {} => ret[c].src \in ran'[c]
    <3>1. CASE ids[c][s] = ret[c].id
      BY <3>1, <2>1, <2>2, <2>3, <1>3, <1>4, <1>5
    <3>2. CASE ids[c][s] # ret[c].id
      BY <3>2, <2>1, <2>2, <2>3, <1>3, <1>4, <1>5
    <3>. QED
      BY <3>1, <3>2
  <2>5. \A r \in ran'[c] \ {ret[c].src} : own = 1 /\ ids[c][r] = 0
    <3>1. ids[c][s] = ret[c].id => s = ret[c].src \/ (own = 1 /\ ids[c][s] = 0)
      BY <2>1, <2>3, <1>3, <1>5
    <3>. HIDE DEF own
    <3>. QED
      BY <3>1, <2>2, <1>4
  <2>6. own = IndexOf(ret[c].src, arms[c]) + 1 /\ own = IndexOf(ret'[c].src, arms'[c]) + 1
    BY <2>1, <1>1
  <2>. HIDE DEF own
  <2>. QED
    BY <2>4, <2>5, <2>6, <1>1, <1>3 DEF ArmRight
<1>7. EventInv(c)'
  <2>1. ArmRight(c)'
    BY <1>1, <1>6 DEF ArmRight
  <2>. QED
    BY <2>1, <1>1, <1>2, <1>4 DEF EventInv, Woken, Names
<1>. QED
  BY <1>1, <1>3, <1>4, <1>7, MoveKeepsRInv

\* register_all, or a timer that is due: what is left of the batch is out of date.
LEMMA BlockKeepsWaits ==
  ASSUME IInv, RInv, NEW c \in Coroutine, running = c, NEW srcs, List(srcs), Block(c, srcs)
  PROVE  /\ FreshEvents' /\ TimeoutIds'
         /\ \A d \in Coroutine : d # c => blockedOn'[d] = blockedOn[d] /\ lastEvent'[d] = lastEvent[d]
         /\ IF blockedOn'[c] = <<>> THEN Names(lastEvent'[c], srcs) ELSE blockedOn'[c] = srcs
<1>1. blockedOn[c] = <<>> /\ Range(blockedOn[c]) = {}
  BY SourceAssumption, EmptyRange DEF IInv, AwakeUnblocked
<1>2. \/ Timer \in Range(srcs) /\ SelfWake(c, srcs)
      \/ Register(c, srcs)
  BY DEF Block
<1>3. /\ \A d \in Coroutine : d # c => blockedOn'[d] = blockedOn[d] /\ lastEvent'[d] = lastEvent[d]
      /\ IF blockedOn'[c] = <<>> THEN Names(lastEvent'[c], srcs) ELSE blockedOn'[c] = srcs
  <2>1. CASE Timer \in Range(srcs) /\ SelfWake(c, srcs)
    <3>1. /\ blockedOn' = blockedOn
          /\ lastEvent' = [lastEvent EXCEPT ![c] = [id |-> IndexOf(Timer, srcs), src |-> Timer]]
      BY <2>1 DEF SelfWake
    <3>2. /\ lastEvent'[c] = [id |-> IndexOf(Timer, srcs), src |-> Timer]
          /\ \A d \in Coroutine : d # c => lastEvent'[d] = lastEvent[d]
      BY <3>1 DEF IInv, TypeOK
    <3>. QED
      BY <2>1, <3>1, <3>2, <1>1 DEF Names
  <2>2. CASE Register(c, srcs)
    BY <2>2 DEF Register, IInv, TypeOK, List
  <2>. QED
    BY <1>2, <2>1, <2>2
<1>4. FreshEvents'
  <2>. SUFFICES ASSUME NEW u \in batch', blockedOn'[u.co] # <<>>
                PROVE  Names([id |-> u.id, src |-> u.src], blockedOn'[u.co])
    BY DEF FreshEvents, Names
  <2>1. PICK t \in batch :
          u = [co |-> t.co, id |-> t.id, src |-> IF t.co = c THEN None ELSE t.src]
    BY OutdateFacts DEF Block, IInv
  <2>2. t.co \in Coroutine
    BY DEF IInv, TypeOK
  <2>3. CASE t.co = c
    BY <2>1, <2>3 DEF Names
  <2>4. CASE t.co # c
    BY <2>1, <2>2, <2>4, <1>3 DEF RInv, FreshEvents
  <2>. QED
    BY <2>3, <2>4
<1>5. TimeoutIds'
  <2>. SUFFICES ASSUME NEW slot \in Slot, timeouts'[slot] # None
                PROVE  timeouts'[slot].id = IndexOf(Timer, blockedOn'[timeouts'[slot].co])
    BY DEF TimeoutIds
  <2>1. CASE timeouts'[slot] = timeouts[slot]
    <3>1. timeouts[slot].co \in Coroutine /\ timeouts[slot].co # c
      BY <2>1, <1>1, NoTimeoutOf DEF IInv, TypeOK
    <3>. QED
      BY <2>1, <3>1, <1>3 DEF RInv, TimeoutIds
  <2>2. CASE timeouts'[slot] # timeouts[slot]
    <3>1. ~ SelfWake(c, srcs)
      BY <2>2, ClearedFacts DEF SelfWake, IInv
    <3>2. Register(c, srcs) /\ Timer \in Range(srcs)
      BY <2>2, <3>1, <1>2 DEF Register
    <3>3. PICK new \in Slot : timeouts' = [timeouts EXCEPT ![new] =
              [tick |-> TickOf(deadline[c]), co |-> c, id |-> IndexOf(Timer, srcs)]]
      BY <3>2 DEF Register, TimerRegister
    <3>4. timeouts'[slot].co = c /\ timeouts'[slot].id = IndexOf(Timer, srcs)
      BY <2>2, <3>3 DEF IInv, TypeOK
    <3>5. blockedOn'[c] = srcs
      BY <3>2 DEF Register, IInv, TypeOK
    <3>. QED
      BY <3>4, <3>5
  <2>. QED
    BY <2>1, <2>2
<1>. QED
  BY <1>3, <1>4, <1>5

\* select_wait and block_on, in a select! or not.
LEMMA BlockKeepsRInv ==
  ASSUME IInv, RInv, NEW c \in Coroutine, SelectWait(c) \/ BlockOn(c)
  PROVE  RInv'
<1>. DEFINE srcs == IF pc[c] = "select" THEN arms[c] ELSE <<reading[c]>>
<1>1. /\ running = c /\ pc[c] \in {"select", "block"} /\ Block(c, srcs)
      /\ pc' = [pc EXCEPT ![c] = IF pc[c] = "select" THEN "wait" ELSE "try"]
      /\ UNCHANGED <<arms, arm, ret, ran>>
  BY DEF SelectWait, BlockOn, At, selectVars
<1>2. CoInv(c) /\ EventInv(c)
  BY CoInvSplits DEF IInv, RInv
<1>3. List(srcs)
  BY <1>1, <1>2, SelectsAreLists, OneSourceIsList DEF CoInv
<1>4. /\ FreshEvents' /\ TimeoutIds'
      /\ \A d \in Coroutine : d # c => blockedOn'[d] = blockedOn[d] /\ lastEvent'[d] = lastEvent[d]
      /\ IF blockedOn'[c] = <<>> THEN Names(lastEvent'[c], srcs) ELSE blockedOn'[c] = srcs
  BY <1>1, <1>3, BlockKeepsWaits
<1>5. /\ \A s \in Source : ids'[c][s] = IF s \in Range(srcs) THEN IndexOf(s, srcs) ELSE ids[c][s]
      /\ \A d \in Coroutine : d # c => ids'[d] = ids[d]
  BY <1>1, <1>3, BlockFacts
<1>6. /\ pc'[c] = IF pc[c] = "select" THEN "wait" ELSE "try"
      /\ \A d \in Coroutine : d # c => pc'[d] = pc[d]
  BY <1>1 DEF IInv, TypeOK
<1>7. Woken(c)'
  BY <1>1, <1>4, <1>6 DEF Woken, Names
<1>8. ArmRight(c)'
  <2>1. CASE pc[c] = "select"
    <3>1. arm[c] = 1 /\ ran[c] = {} /\ List(arms[c])
      BY <2>1, <1>2, <1>3 DEF CoInv
    <3>2. ret[c].src # None => IndexOf(ret[c].src, arms[c]) \in Nat
      BY <3>1, <1>2, PlaceFacts DEF EventInv
    <3>. QED
      BY <3>1, <3>2, <1>1 DEF ArmRight
  <2>2. CASE pc[c] = "block"
    <3>1. reading[c] \in Source /\ srcs = <<reading[c]>>
      BY <2>2, <1>2 DEF CoInv
    <3>2. 1 \in DOMAIN srcs /\ srcs[1] = reading[c] /\ \A s \in Range(srcs) : s = srcs[1]
      BY <3>1 DEF Range
    <3>3. IndexOf(srcs[1], srcs) = 1 - 1
      BY <3>2, <1>3, IndexOfArm
    <3>4. \A s \in Source : ids[c][s] = 0 => ids'[c][s] = 0
      BY <3>2, <3>3, <1>5
    <3>5. ran[c] \subseteq Source
      BY DEF IInv, TypeOK
    <3>. QED
      BY <3>4, <3>5, <1>1, <1>2 DEF EventInv, ArmRight
  <2>. QED
    BY <1>1, <2>1, <2>2
<1>9. EventInv(c)'
  BY <1>1, <1>2, <1>7, <1>8 DEF EventInv, Names
<1>10. ASSUME NEW d \in Coroutine, d # c PROVE EventInv(d)'
  <2>1. pc'[d] = pc[d] /\ ids'[d] = ids[d] /\ blockedOn'[d] = blockedOn[d] /\ lastEvent'[d] = lastEvent[d]
    BY <1>4, <1>5, <1>6, <1>10
  <2>2. EventInv(d)
    BY DEF RInv
  <2>. QED
    BY <2>1, <2>2, <1>1 DEF EventInv, Woken, ArmRight, Names
<1>. QED
  BY <1>4, <1>9, <1>10 DEF RInv

\* The events that a poll finds are of the waits of the moment.
LEMMA PollKeepsRInv ==
  ASSUME IInv, RInv, Poll
  PROVE  RInv'
<1>1. UNCHANGED <<timeouts, blockedOn, lastEvent, pc, arms, arm, ret, ran, ids>>
  BY DEF Poll, sourceVars, coVars, selectVars
<1>2. PICK hot \in SUBSET Registered :
        batch' = {[co |-> t.co, id |-> registered[t.co][t.src], src |-> t.src] : t \in hot}
  BY DEF Poll
<1>3. FreshEvents'
  <2>. SUFFICES ASSUME NEW u \in batch'
                PROVE  Names([id |-> u.id, src |-> u.src], blockedOn'[u.co])
    BY DEF FreshEvents, Names
  <2>1. PICK t \in hot : u = [co |-> t.co, id |-> registered[t.co][t.src], src |-> t.src]
    BY <1>2
  <2>2. t.co \in Coroutine /\ t.src \in Io /\ registered[t.co][t.src] # None
    BY DEF Registered
  <2>3. t.src \in Range(blockedOn[t.co]) /\ registered[t.co][t.src] = IndexOf(t.src, blockedOn[t.co])
    BY <2>2 DEF IInv, RegisteredIffBlocked
  <2>. QED
    BY <2>1, <2>3, <1>1 DEF Names
<1>4. TimeoutIds' /\ \A d \in Coroutine : EventInv(d)'
  BY <1>1 DEF RInv, TimeoutIds, EventInv, Woken, ArmRight, Names
<1>. QED
  BY <1>3, <1>4 DEF RInv

\* An event that is delivered: the one that ends a wait names a source of it.
LEMMA EventKeepsRInv ==
  ASSUME IInv, RInv, NEW c \in Coroutine, NEW event, Event(c, event), Freed(c),
         blockedOn[c] # <<>> => Names(event, blockedOn[c]),
         batch' \subseteq batch, UNCHANGED <<pc, arms, arm, ret, ran, ids>>
  PROVE  RInv'
<1>1. CASE blockedOn[c] = <<>>
  <2>1. UNCHANGED <<blockedOn, lastEvent>>
    BY <1>1 DEF Event
  <2>2. FreshEvents' /\ TimeoutIds'
    BY <2>1 DEF Freed, RInv, FreshEvents, TimeoutIds
  <2>3. \A d \in Coroutine : EventInv(d)'
    BY <2>1 DEF RInv, EventInv, Woken, ArmRight, Names
  <2>. QED
    BY <2>2, <2>3 DEF RInv
<1>2. CASE blockedOn[c] # <<>>
  <2>1. blockedOn' = [blockedOn EXCEPT ![c] = <<>>] /\ lastEvent' = [lastEvent EXCEPT ![c] = event]
    BY <1>2 DEF Event
  <2>2. /\ blockedOn'[c] = <<>> /\ lastEvent'[c] = event
        /\ \A d \in Coroutine : d # c => blockedOn'[d] = blockedOn[d] /\ lastEvent'[d] = lastEvent[d]
    BY <2>1 DEF IInv, TypeOK
  <2>3. FreshEvents'
    <3>. SUFFICES ASSUME NEW u \in batch', blockedOn'[u.co] # <<>>
                  PROVE  Names([id |-> u.id, src |-> u.src], blockedOn'[u.co])
      BY DEF FreshEvents, Names
    <3>1. u \in batch /\ u.co \in Coroutine /\ u.co # c
      BY <2>2 DEF IInv, TypeOK
    <3>. QED
      BY <3>1, <2>2 DEF RInv, FreshEvents
  <2>4. TimeoutIds'
    <3>. SUFFICES ASSUME NEW slot \in Slot, timeouts'[slot] # None
                  PROVE  timeouts'[slot].id = IndexOf(Timer, blockedOn'[timeouts'[slot].co])
      BY DEF TimeoutIds
    <3>1. /\ timeouts'[slot] = timeouts[slot] /\ timeouts[slot].co # c
          /\ timeouts[slot].co \in Coroutine
      BY DEF Freed, IInv, TypeOK
    <3>. QED
      BY <3>1, <2>2 DEF RInv, TimeoutIds
  <2>5. Woken(c)'
    BY <1>2, <2>2 DEF RInv, EventInv, Woken, Names
  <2>6. ASSUME NEW d \in Coroutine PROVE EventInv(d)'
    <3>1. EventInv(d)
      BY DEF RInv
    <3>2. CASE d = c
      BY <3>1, <3>2, <2>5 DEF EventInv, ArmRight, Names
    <3>3. CASE d # c
      BY <3>1, <3>3, <2>2 DEF EventInv, Woken, ArmRight, Names
    <3>. QED
      BY <3>2, <3>3
  <2>. QED
    BY <2>3, <2>4, <2>6 DEF RInv
<1>. QED
  BY <1>1, <1>2

\* Events of a batch and timeouts.
LEMMA DeliveryKeepsRInv ==
  ASSUME IInv, RInv, Deliver \/ Fire
  PROVE  RInv'
<1>1. UNCHANGED <<pc, arms, arm, ret, ran, ids>>
  BY DEF Deliver, Fire, sourceVars, selectVars
<1>2. CASE Deliver
  <2>1. PICK t \in batch : /\ batch' = batch \ {t}
                           /\ timeouts' = TimerDeregistered(t.co)
                           /\ Event(t.co, [id |-> t.id, src |-> t.src])
    BY <1>2 DEF Deliver
  <2>2. t.co \in Coroutine /\ Freed(t.co)
    BY <2>1, DeregisteredFreed DEF IInv, TypeOK
  <2>3. blockedOn[t.co] # <<>> => Names([id |-> t.id, src |-> t.src], blockedOn[t.co])
    BY DEF RInv, FreshEvents
  <2>4. batch' \subseteq batch
    BY <2>1
  <2>. QED
    BY <2>1, <2>2, <2>3, <2>4, <1>1, EventKeepsRInv
<1>3. CASE Fire
  <2>1. PICK slot \in Slot : /\ timeouts[slot] # None
                             /\ timeouts' = [timeouts EXCEPT ![slot] = None]
                             /\ Event(timeouts[slot].co, [id |-> timeouts[slot].id, src |-> Timer])
    BY <1>3 DEF Fire
  <2>2. timeouts[slot].co \in Coroutine /\ Freed(timeouts[slot].co)
    BY <2>1, FiredFreed DEF IInv, TypeOK
  <2>3. Names([id |-> timeouts[slot].id, src |-> Timer], blockedOn[timeouts[slot].co])
    BY <2>1 DEF RInv, TimeoutIds, IInv, NoTimeoutLeaks, Names
  <2>4. batch' \subseteq batch
    BY <1>3 DEF Fire
  <2>. QED
    BY <2>1, <2>2, <2>3, <2>4, <1>1, EventKeepsRInv
<1>. QED
  BY <1>2, <1>3

\* Every step keeps what is known of the events.
LEMMA StepRInv == IInv /\ RInv /\ [Next]_vars => RInv'
<1>. SUFFICES ASSUME IInv, RInv, [Next]_vars PROVE RInv'
  OBVIOUS
<1>1. CASE Resume \/ Clock \/ UNCHANGED vars
  BY <1>1, IdleKeepsRInv DEF Resume, Clock, vars, loopVars, sourceVars, coVars, selectVars
<1>2. ASSUME NEW c \in Coroutine, Run(c) PROVE RInv'
  BY <1>2, RunKeepsRInv, ArmKeepsRInv, BlockKeepsRInv DEF Run
<1>. QED
  BY <1>1, <1>2, PollKeepsRInv, DeliveryKeepsRInv DEF Next, Step, Done

\* A source that becomes ready while a select! waits for it has its arm run, before
\* any other and, if it is not the first source, alone: for every list of sources,
\* whatever the arms wait for, and whatever is left of the batch for the next wait.
THEOREM EventRunsItsArm == Spec => []RightArm
<1>1. Init => RInv
  BY DEF Init, RInv, FreshEvents, TimeoutIds, EventInv, Woken, ArmRight, Names, NoEvent
<1>2. IInv /\ RInv /\ [Next]_vars => RInv'
  BY StepRInv
<1>3. RInv => RightArm
  BY DEF RInv, EventInv, ArmRight, RightArm
<1>. QED
  BY <1>1, <1>2, <1>3, InvariantHolds, PTL DEF Spec

-----------------------------------------------------------------------------
(* Timeouts while every wait is for one source *)

\* Every select! has one arm (or there is none).
OneSourceSelects == \A srcs \in Selects : \E s \in Source : srcs = <<s>>

SingleWait == \A c \in Coroutine : blockedOn[c] = <<>> \/ \E s \in Source : blockedOn[c] = <<s>>

\* An event of the batch is the only one for its coroutine, which still waits for
\* that source, not for its timer.
EventsForBlocked ==
  \A t \in batch : /\ blockedOn[t.co] # <<>> /\ Timer \notin Range(blockedOn[t.co])
                   /\ \A u \in batch : u.co = t.co => u = t

\* The timeout of c is where its mio_timeout says, for its deadline.
Armed(c) ==
  /\ handle[c] # None
  /\ timeouts[handle[c].slot] = [tick |-> handle[c].tick, co |-> c, id |-> 0]
  /\ handle[c].tick = TickOf(deadline[c])

\* A mio_timeout that is out of date names a tick that has passed, and nothing in
\* mio's timer.
Stale(c) ==
  handle[c] # None =>
    /\ handle[c].tick * TickLen <= now
    /\ timeouts[handle[c].slot] # None => timeouts[handle[c].slot].tick # handle[c].tick

HandlesKnown ==
  \A c \in Coroutine : IF Timer \in Range(blockedOn[c]) THEN Armed(c) ELSE Stale(c)

TInv ==
  /\ SingleWait
  /\ EventsForBlocked
  /\ HandlesKnown

\* A timeout is for the first tick that is not before its time.
LEMMA TickNotBefore == \A d \in Nat : TickOf(d) * TickLen >= d
<1>. SUFFICES ASSUME NEW d \in Nat PROVE TickOf(d) * TickLen >= d
  OBVIOUS
<1>. DEFINE m == d + TickLen - 1
            q == m \div TickLen
            r == m % TickLen
<1>1. TickLen \in Nat /\ TickLen > 0 /\ m \in Nat
  BY ClockAssumption
<1>. HIDE DEF m
<1>2. q \in Nat /\ r \in Nat /\ r < TickLen /\ m = TickLen * q + r
  BY <1>1
<1>. HIDE DEF q, r
<1>3. TickOf(d) = q
  BY DEF TickOf, m, q
<1>4. TickLen * q = q * TickLen
  BY <1>1, <1>2
<1>. QED
  BY <1>1, <1>2, <1>3, <1>4 DEF m

\* A list of one source.
LEMMA OneSourceFacts ==
  ASSUME NEW s \in Source
  PROVE  <<s>> # <<>> /\ Range(<<s>>) = {s} /\ IndexOf(s, <<s>>) = 0
<1>1. <<s>> # <<>> /\ 1 \in DOMAIN <<s>> /\ <<s>>[1] = s /\ DOMAIN <<s>> = {1}
  OBVIOUS
<1>2. Range(<<s>>) = {s}
  BY <1>1 DEF Range
<1>3. IndexOf(s, <<s>>) = 1 - 1
  BY <1>1, OneSourceIsList, IndexOfArm
<1>. QED
  BY <1>1, <1>2, <1>3

\* Registering one source: of a timer, a timeout for a tick that has not passed.
LEMMA BlockKeepsTInv ==
  ASSUME IInv, TInv, NEW c \in Coroutine, running = c, NEW s \in Source, Block(c, <<s>>),
         UNCHANGED <<now, deadline>>
  PROVE  TInv'
<1>1. blockedOn[c] = <<>> /\ Timer \notin Range(blockedOn[c])
  BY SourceAssumption, EmptyRange DEF IInv, AwakeUnblocked
<1>2. <<s>> # <<>> /\ Range(<<s>>) = {s} /\ IndexOf(s, <<s>>) = 0
  BY OneSourceFacts
<1>3. Stale(c)
  BY <1>1 DEF TInv, HandlesKnown
<1>0. batch' = batch
  <2>1. \A t \in batch : t \in [co : Coroutine, id : Id, src : Io \cup {None}] /\ t.co # c
    BY <1>1 DEF TInv, EventsForBlocked, IInv, TypeOK
  <2>2. \A t \in batch : [co |-> t.co, id |-> t.id, src |-> IF t.co = c THEN None ELSE t.src] = t
    BY <2>1
  <2>. QED
    BY <2>2 DEF Block, Outdate
<1>4. CASE s = Timer /\ TimerDue(c)
  <2>1. UNCHANGED <<handle, blockedOn>> /\ timeouts' = Cleared(handle[c])
    BY <1>2, <1>4 DEF Block, SelfWake
  <2>2. timeouts' = timeouts
    <3>1. timeouts = [slot \in Slot |-> timeouts[slot]]
      BY DEF IInv, TypeOK
    <3>2. \A slot \in Slot : Cleared(handle[c])[slot] = timeouts[slot]
      BY <1>3 DEF Stale, Cleared
    <3>3. Cleared(handle[c]) = [slot \in Slot |-> Cleared(handle[c])[slot]]
      BY DEF Cleared
    <3>. QED
      BY <2>1, <3>1, <3>2, <3>3
  <2>3. SingleWait' /\ EventsForBlocked'
    BY <2>1, <1>0 DEF TInv, SingleWait, EventsForBlocked
  <2>4. HandlesKnown'
    BY <2>1, <2>2 DEF TInv, HandlesKnown, Armed, Stale
  <2>. QED
    BY <2>3, <2>4 DEF TInv
<1>5. CASE ~(s = Timer /\ TimerDue(c))
  <2>1. Register(c, <<s>>)
    BY <1>2, <1>5 DEF Block
  <2>2. /\ blockedOn'[c] = <<s>>
        /\ \A d \in Coroutine : d # c => blockedOn'[d] = blockedOn[d]
    BY <2>1 DEF Register, IInv, TypeOK
  <2>3. SingleWait'
    BY <2>2 DEF TInv, SingleWait
  <2>4. \A t \in batch : t.co \in Coroutine /\ t.co # c
    BY <1>1 DEF TInv, EventsForBlocked, IInv, TypeOK
  <2>5. EventsForBlocked'
    BY <2>2, <2>4, <1>0 DEF TInv, EventsForBlocked
  <2>6. CASE s # Timer
    <3>1. UNCHANGED <<timeouts, handle>>
      BY <2>1, <2>6, <1>2 DEF Register
    <3>2. Timer \notin Range(blockedOn'[c])
      BY <2>2, <2>6, <1>2
    <3>3. HandlesKnown'
      BY <3>1, <3>2, <2>2, <1>3 DEF TInv, HandlesKnown, Armed, Stale
    <3>. QED
      BY <3>3, <2>3, <2>5 DEF TInv
  <2>7. CASE s = Timer
    <3>. DEFINE tick == TickOf(deadline[c])
    <3>1. PICK new \in Slot : /\ timeouts[new] = None
                              /\ timeouts' = [timeouts EXCEPT ![new] = [tick |-> tick, co |-> c, id |-> 0]]
                              /\ handle' = [handle EXCEPT ![c] = [slot |-> new, tick |-> tick]]
      BY <2>1, <2>7, <1>2 DEF Register, TimerRegister
    <3>2. tick \in Nat /\ tick * TickLen > now
      <4>1. deadline[c] \in Nat /\ now \in Nat /\ ~(deadline[c] <= now)
        BY <2>7, <1>5, ClockAssumption DEF IInv, TypeOK, TimerDue
      <4>2. tick \in Nat /\ tick * TickLen >= deadline[c] /\ tick * TickLen \in Nat
        BY <4>1, TickType, TickNotBefore, ClockAssumption
      <4>. QED
        BY <4>1, <4>2
    <3>3. TickOf(deadline[c])' = tick
      BY DEF TickOf
    <3>. HIDE DEF tick
    <3>4. /\ handle'[c] = [slot |-> new, tick |-> tick]
          /\ \A d \in Coroutine : d # c => handle'[d] = handle[d]
          /\ timeouts'[new] = [tick |-> tick, co |-> c, id |-> 0]
          /\ \A slot \in Slot : slot # new => timeouts'[slot] = timeouts[slot]
      BY <3>1 DEF IInv, TypeOK
    <3>5. [slot |-> new, tick |-> tick] # None
      BY <3>2, SourceAssumption, ConstantFacts
    <3>6. Armed(c)'
      BY <3>3, <3>4, <3>5 DEF Armed
    <3>7. ASSUME NEW d \in Coroutine, d # c
          PROVE  IF Timer \in Range(blockedOn'[d]) THEN Armed(d)' ELSE Stale(d)'
      <4>1. handle'[d] = handle[d] /\ blockedOn'[d] = blockedOn[d]
        BY <3>4, <3>7, <2>2
      <4>2. handle[d] # None => handle[d].slot \in Slot
        BY DEF IInv, TypeOK
      <4>3. CASE Timer \in Range(blockedOn[d])
        <5>1. Armed(d)
          BY <4>3 DEF TInv, HandlesKnown
        <5>2. timeouts[handle[d].slot] # None
          <6>1. handle[d].tick \in Nat
            BY <5>1 DEF Armed, IInv, TypeOK
          <6>2. [tick |-> handle[d].tick, co |-> d, id |-> 0] \in [tick : Nat, co : Coroutine, id : Nat]
            BY <6>1
          <6>. QED
            BY <6>2, <5>1, SourceAssumption DEF Armed
        <5>3. timeouts'[handle[d].slot] = timeouts[handle[d].slot]
          BY <5>1, <5>2, <4>2, <3>1, <3>4 DEF Armed
        <5>4. Armed(d)'
          BY <5>1, <5>3, <4>1 DEF Armed
        <5>. QED
          BY <5>4, <4>1, <4>3
      <4>4. CASE Timer \notin Range(blockedOn[d])
        <5>1. Stale(d)
          BY <4>4 DEF TInv, HandlesKnown
        <5>2. CASE handle[d] = None
          BY <5>2, <4>1, <4>4 DEF Stale
        <5>3. CASE handle[d] # None
          <6>1. handle[d].tick * TickLen <= now /\ handle[d].slot \in Slot
            BY <5>1, <5>3, <4>2 DEF Stale
          <6>2. handle[d].tick # tick
            <7>1. handle[d].tick * TickLen \in Int /\ now \in Int /\ tick * TickLen \in Int
              BY <5>3, <3>2, ClockAssumption DEF IInv, TypeOK
            <7>. QED
              BY <7>1, <6>1, <3>2
          <6>3. timeouts'[handle[d].slot] # None =>
                  timeouts'[handle[d].slot].tick # handle[d].tick
            BY <5>1, <5>3, <6>1, <6>2, <3>4 DEF Stale
          <6>. QED
            BY <6>1, <6>3, <4>1, <4>4 DEF Stale
        <5>. QED
          BY <5>2, <5>3
      <4>. QED
        BY <4>3, <4>4
    <3>8. Timer \in Range(blockedOn'[c])
      BY <2>2, <2>7, <1>2
    <3>9. HandlesKnown'
      BY <3>6, <3>7, <3>8 DEF HandlesKnown
    <3>. QED
      BY <3>9, <2>3, <2>5 DEF TInv
  <2>. QED
    BY <2>6, <2>7
<1>. QED
  BY <1>4, <1>5

\* A step that neither registers nor unblocks anything: of the deadlines, those of
\* coroutines that wait for their timer stay.
LEMMA QuietKeepsTInv ==
  ASSUME IInv, TInv, UNCHANGED <<handle, timeouts, batch, blockedOn>>,
         now' \in {now, now + 1},
         \A d \in Coroutine : Timer \in Range(blockedOn[d]) => deadline'[d] = deadline[d]
  PROVE  TInv'
<1>1. SingleWait' /\ EventsForBlocked'
  BY DEF TInv, SingleWait, EventsForBlocked
<1>2. ASSUME NEW d \in Coroutine, Timer \in Range(blockedOn[d])
      PROVE  Armed(d)'
  <2>1. Armed(d) /\ deadline'[d] = deadline[d]
    BY <1>2 DEF TInv, HandlesKnown
  <2>2. TickOf(deadline[d])' = TickOf(deadline[d])
    BY <2>1 DEF TickOf
  <2>. QED
    BY <2>1, <2>2 DEF Armed
<1>3. ASSUME NEW d \in Coroutine, Timer \notin Range(blockedOn[d])
      PROVE  Stale(d)'
  <2>1. Stale(d)
    BY <1>3 DEF TInv, HandlesKnown
  <2>2. CASE handle[d] = None
    BY <2>2 DEF Stale
  <2>3. CASE handle[d] # None
    <3>1. handle[d].tick * TickLen \in Int /\ now \in Int
      BY <2>3, ClockAssumption DEF IInv, TypeOK
    <3>2. handle[d].tick * TickLen <= now'
      BY <3>1, <2>1, <2>3 DEF Stale
    <3>. QED
      BY <3>2, <2>1, <2>3 DEF Stale
  <2>. QED
    BY <2>2, <2>3
<1>4. HandlesKnown'
  BY <1>2, <1>3 DEF HandlesKnown
<1>. QED
  BY <1>1, <1>4 DEF TInv

\* What a coroutine does without blocking: it may set its own timer.
LEMMA RunKeepsTInv ==
  ASSUME IInv, TInv, OneSourceSelects, NEW c \in Coroutine, Run(c)
  PROVE  TInv'
<1>1. Timer \notin Range(blockedOn[running])
  BY SourceAssumption, EmptyRange DEF IInv, AwakeUnblocked, Run, Select, Read, Begin, SelectWait,
     SelectReturns, Arm, SelectDone, TryRead, BlockOn, Finish, At
<1>2. ASSUME Begin(c)
      PROVE  \A d \in Coroutine : Timer \in Range(blockedOn[d]) => deadline'[d] = deadline[d]
  <2>1. \A d \in Coroutine : d # c => deadline'[d] = deadline[d]
    BY <1>2 DEF Begin, IInv, TypeOK
  <2>2. running = c
    BY <1>2 DEF Begin, At
  <2>. QED
    BY <2>1, <2>2, <1>1
<1>3. ASSUME NEW srcs \in Selects, Select(c, srcs) PROVE TInv'
  <2>1. UNCHANGED <<now, handle, timeouts, batch, blockedOn>> /\ Begin(c)
    BY <1>3 DEF Select, loopVars
  <2>. QED
    BY <2>1, <1>2, QuietKeepsTInv
<1>4. ASSUME NEW s \in Source, Read(c, s) PROVE TInv'
  <2>1. UNCHANGED <<now, handle, timeouts, batch, blockedOn>> /\ Begin(c)
    BY <1>4 DEF Read, loopVars
  <2>. QED
    BY <2>1, <1>2, QuietKeepsTInv
<1>5. CASE SelectWait(c)
  <2>1. running = c /\ pc[c] = "select" /\ Block(c, arms[c]) /\ UNCHANGED <<now, deadline>>
    BY <1>5 DEF SelectWait, At
  <2>2. PICK s \in Source : arms[c] = <<s>>
    BY <2>1 DEF IInv, Underway, OneSourceSelects
  <2>. QED
    BY <2>1, <2>2, BlockKeepsTInv
<1>6. CASE BlockOn(c)
  <2>1. running = c /\ pc[c] = "block" /\ Block(c, <<reading[c]>>)
        /\ UNCHANGED <<now, deadline>>
    BY <1>6 DEF BlockOn, At
  <2>2. reading[c] \in Source
    BY <2>1 DEF IInv, Underway
  <2>. QED
    BY <2>1, <2>2, BlockKeepsTInv
<1>7. CASE SelectReturns(c) \/ Arm(c) \/ SelectDone(c) \/ TryRead(c) \/ Finish(c)
  <2>1. UNCHANGED <<now, handle, timeouts, batch, blockedOn, deadline>>
    BY <1>7 DEF SelectReturns, Arm, SelectDone, TryRead, Finish, loopVars, sourceVars
  <2>. QED
    BY <2>1, QuietKeepsTInv
<1>. QED
  BY <1>3, <1>4, <1>5, <1>6, <1>7 DEF Run

\* mio has an event for nobody but the coroutines that wait for a socket, and one
\* for each, since each waits for one.
LEMMA PollKeepsTInv ==
  ASSUME IInv, TInv, Poll
  PROVE  TInv'
<1>1. UNCHANGED <<now, handle, timeouts, blockedOn, deadline>>
  BY DEF Poll, sourceVars, coVars
<1>2. PICK hot \in SUBSET Registered :
        batch' = {[co |-> t.co, id |-> registered[t.co][t.src], src |-> t.src] : t \in hot}
  BY DEF Poll
<1>3. ASSUME NEW t \in hot
      PROVE  /\ t.co \in Coroutine /\ t.src \in Io
             /\ blockedOn[t.co] = <<t.src>> /\ Range(blockedOn[t.co]) = {t.src}
  <2>1. t.co \in Coroutine /\ t.src \in Io /\ registered[t.co][t.src] # None
    BY <1>3 DEF Registered
  <2>2. t.src \in Range(blockedOn[t.co])
    BY <2>1 DEF IInv, RegisteredIffBlocked
  <2>3. PICK s \in Source : blockedOn[t.co] = <<s>>
    BY <2>1, <2>2, EmptyRange DEF TInv, SingleWait
  <2>. QED
    BY <2>1, <2>2, <2>3, OneSourceFacts
<1>4. EventsForBlocked'
  <2>. SUFFICES ASSUME NEW t \in batch'
                PROVE  /\ blockedOn[t.co] # <<>> /\ Timer \notin Range(blockedOn[t.co])
                       /\ \A u \in batch' : u.co = t.co => u = t
    BY <1>1 DEF EventsForBlocked
  <2>1. PICK p \in hot : t = [co |-> p.co, id |-> registered[p.co][p.src], src |-> p.src]
    BY <1>2
  <2>2. p.co \in Coroutine /\ p.src \in Io /\ blockedOn[p.co] = <<p.src>>
        /\ Range(blockedOn[p.co]) = {p.src}
    BY <1>3
  <2>3. blockedOn[t.co] # <<>> /\ Timer \notin Range(blockedOn[t.co])
    BY <2>1, <2>2, SourceAssumption
  <2>4. ASSUME NEW u \in batch', u.co = t.co PROVE u = t
    <3>1. PICK q \in hot : u = [co |-> q.co, id |-> registered[q.co][q.src], src |-> q.src]
      BY <1>2
    <3>2. q.co = p.co
      BY <2>1, <2>4, <3>1
    <3>3. Range(blockedOn[q.co]) = {q.src}
      BY <1>3
    <3>4. q.src = p.src
      BY <3>2, <3>3, <2>2
    <3>. QED
      BY <2>1, <3>1, <3>2, <3>4
  <2>. QED
    BY <2>3, <2>4
<1>5. SingleWait'
  BY <1>1 DEF TInv, SingleWait
<1>6. HandlesKnown'
  BY <1>1 DEF TInv, HandlesKnown, Armed, Stale, TickOf
<1>. QED
  BY <1>4, <1>5, <1>6 DEF TInv

\* The event of a socket finds its coroutine blocked and leaves mio's timer alone.
LEMMA DeliverKeepsTInv ==
  ASSUME IInv, TInv, Deliver
  PROVE  TInv'
<1>1. UNCHANGED <<now, handle, deadline>>
  BY DEF Deliver, sourceVars
<1>2. PICK t \in batch : /\ batch' = batch \ {t}
                         /\ timeouts' = TimerDeregistered(t.co)
                         /\ Event(t.co, [id |-> t.id, src |-> t.src])
  BY DEF Deliver
<1>3. /\ t.co \in Coroutine /\ blockedOn[t.co] # <<>> /\ Timer \notin Range(blockedOn[t.co])
      /\ \A u \in batch : u.co = t.co => u = t
  BY DEF IInv, TypeOK, TInv, EventsForBlocked
<1>4. timeouts' = timeouts
  BY <1>2, <1>3 DEF TimerDeregistered
<1>5. blockedOn' = [blockedOn EXCEPT ![t.co] = <<>>]
  BY <1>2, <1>3 DEF Event
<1>6. /\ blockedOn'[t.co] = <<>> /\ Timer \notin Range(blockedOn'[t.co])
      /\ \A d \in Coroutine : d # t.co => blockedOn'[d] = blockedOn[d]
  BY <1>3, <1>5, EmptyRange DEF IInv, TypeOK
<1>7. SingleWait'
  BY <1>6 DEF TInv, SingleWait
<1>8. EventsForBlocked'
  <2>. SUFFICES ASSUME NEW u \in batch'
                PROVE  /\ blockedOn'[u.co] # <<>> /\ Timer \notin Range(blockedOn'[u.co])
                       /\ \A v \in batch' : v.co = u.co => v = u
    BY DEF EventsForBlocked
  <2>1. u \in batch /\ u.co \in Coroutine /\ u.co # t.co
    BY <1>2, <1>3 DEF IInv, TypeOK
  <2>. QED
    BY <2>1, <1>2, <1>6 DEF TInv, EventsForBlocked
<1>9. HandlesKnown'
  <2>1. \A d \in Coroutine : Armed(d) => Armed(d)'
    BY <1>1, <1>4 DEF Armed, TickOf
  <2>2. \A d \in Coroutine : Stale(d) => Stale(d)'
    BY <1>1, <1>4 DEF Stale
  <2>. QED
    BY <2>1, <2>2, <1>3, <1>6 DEF TInv, HandlesKnown
<1>. QED
  BY <1>7, <1>8, <1>9 DEF TInv

\* A timeout that fires makes its coroutine's mio_timeout stale: its tick has
\* passed.
LEMMA FireKeepsTInv ==
  ASSUME IInv, TInv, Fire
  PROVE  TInv'
<1>1. UNCHANGED <<now, handle, deadline>> /\ batch = {} /\ batch' = {}
  BY DEF Fire, sourceVars
<1>2. PICK slot \in Slot : /\ timeouts[slot] # None
                           /\ timeouts[slot].tick * TickLen <= now
                           /\ timeouts' = [timeouts EXCEPT ![slot] = None]
                           /\ Event(timeouts[slot].co, [id |-> timeouts[slot].id, src |-> Timer])
  BY DEF Fire
<1>0. PICK c \in Coroutine : c = timeouts[slot].co
  BY <1>2 DEF IInv, TypeOK
<1>3. /\ c \in Coroutine /\ Timer \in Range(blockedOn[c])
      /\ handle[c] = [slot |-> slot, tick |-> timeouts[slot].tick]
  BY <1>0, <1>2 DEF IInv, NoTimeoutLeaks
<1>4. Event(c, [id |-> timeouts[slot].id, src |-> Timer])
  BY <1>0, <1>2
<1>5. timeouts'[slot] = None /\ \A s \in Slot : s # slot => timeouts'[s] = timeouts[s]
  BY <1>2 DEF IInv, TypeOK
<1>6. handle[c].slot = slot /\ handle[c].tick * TickLen <= now
  BY <1>2, <1>3
<1>7. \A d \in Coroutine : Armed(d) => d = c \/ timeouts[handle[d].slot] # timeouts[slot]
  BY <1>0 DEF Armed
<1>8. blockedOn[c] # <<>>
  BY <1>3, EmptyRange
<1>9. blockedOn' = [blockedOn EXCEPT ![c] = <<>>]
  BY <1>4, <1>8 DEF Event
<1>10. /\ blockedOn'[c] = <<>> /\ Timer \notin Range(blockedOn'[c])
       /\ \A d \in Coroutine : d # c => blockedOn'[d] = blockedOn[d]
  BY <1>3, <1>9, EmptyRange DEF IInv, TypeOK
<1>11. SingleWait'
  BY <1>10 DEF TInv, SingleWait
<1>12. EventsForBlocked'
  BY <1>1 DEF EventsForBlocked
<1>13. \A d \in Coroutine : handle[d] # None => handle[d].slot \in Slot
  BY DEF IInv, TypeOK
<1>14. ASSUME NEW d \in Coroutine, d # c, Timer \in Range(blockedOn[d])
       PROVE  Armed(d)'
  <2>1. Armed(d)
    BY <1>14 DEF TInv, HandlesKnown
  <2>2. handle[d].slot # slot
    BY <2>1, <1>7, <1>14
  <2>3. timeouts'[handle[d].slot] = timeouts[handle[d].slot]
    BY <2>1, <2>2, <1>5, <1>13 DEF Armed
  <2>. QED
    BY <2>1, <2>3, <1>1 DEF Armed, TickOf
<1>15. ASSUME NEW d \in Coroutine, d # c, Timer \notin Range(blockedOn[d])
       PROVE  Stale(d)'
  <2>1. Stale(d)
    BY <1>15 DEF TInv, HandlesKnown
  <2>. QED
    BY <2>1, <1>1, <1>5, <1>13 DEF Stale
<1>16. Stale(c)'
  BY <1>1, <1>5, <1>6 DEF Stale
<1>17. HandlesKnown'
  BY <1>10, <1>14, <1>15, <1>16 DEF HandlesKnown
<1>. QED
  BY <1>11, <1>12, <1>17 DEF TInv

\* Nobody waits at first.
LEMMA InitTInv == Init => TInv
BY EmptyRange DEF Init, TInv, SingleWait, EventsForBlocked, HandlesKnown, Stale

\* Every step keeps what is known of the mio_timeouts.
LEMMA StepTInv == OneSourceSelects /\ IInv /\ TInv /\ [Next]_vars => TInv'
<1>. SUFFICES ASSUME OneSourceSelects, IInv, TInv, [Next]_vars PROVE TInv'
  OBVIOUS
<1>1. CASE Resume \/ Clock \/ UNCHANGED vars
  <2>1. UNCHANGED <<handle, timeouts, batch, blockedOn, deadline>>
    BY <1>1 DEF Resume, Clock, vars, loopVars, sourceVars, coVars
  <2>2. now' \in {now, now + 1}
    BY <1>1 DEF Resume, Clock, vars
  <2>. QED
    BY <2>1, <2>2, QuietKeepsTInv
<1>. QED
  BY <1>1, RunKeepsTInv, PollKeepsTInv, DeliverKeepsTInv, FireKeepsTInv DEF Next, Step, Done

\* While every select! is for one source, whoever is blocked on its timer has a
\* timeout in mio's timer, with its token and for its deadline: what is left of
\* earlier timeouts in mio_timeout clears nobody's.  (Run timeout_lost shows a
\* select! of two sources that is not woken up.)
THEOREM SleepersKeepTimeouts ==
  ASSUME OneSourceSelects
  PROVE  Spec => []SleepersArmed
<1>1. IInv /\ TInv => SleepersArmed
  <2>. SUFFICES ASSUME IInv, TInv, NEW c \in Coroutine, Timer \in Range(blockedOn[c])
                PROVE  \E slot \in Slot : timeouts[slot] =
                         [tick |-> TickOf(deadline[c]), co |-> c,
                          id |-> IndexOf(Timer, blockedOn[c])]
    BY DEF SleepersArmed
  <2>1. PICK s \in Source : blockedOn[c] = <<s>>
    BY EmptyRange DEF TInv, SingleWait
  <2>2. IndexOf(Timer, blockedOn[c]) = 0
    BY <2>1, OneSourceFacts
  <2>3. Armed(c) /\ handle[c].slot \in Slot
    BY DEF TInv, HandlesKnown, Armed, IInv, TypeOK
  <2>. QED
    BY <2>2, <2>3 DEF Armed
<1>2. Init => TInv
  BY InitTInv
<1>3. IInv /\ TInv /\ [Next]_vars => TInv'
  BY StepTInv
<1>. QED
  BY <1>1, <1>2, <1>3, InvariantHolds, PTL DEF Spec
=============================================================================
