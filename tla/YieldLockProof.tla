--------------------------- MODULE YieldLockProof ---------------------------
(***************************************************************************)
(* Proofs about module YieldLock, for any coroutines, threads outside of   *)
(* mioco and event-loop threads, and for both kinds of lock: who has the   *)
(* lock holds a guard, and a guard on poisoned data came in an Err.        *)
(***************************************************************************)
EXTENDS YieldLock, FiniteSetTheorems, SequenceTheorems, TLAPS

-----------------------------------------------------------------------------
(* The inductive invariant *)

\* A coroutine that runs, runs on its own thread; it neither waits on the queue
\* nor sleeps.
RunningApart ==
  \A t \in Thread : cur[t] # None => Home[cur[t]] = t /\ cur[t] \notin blocked

\* The queue of a thread holds coroutines of this thread, neither the one that
\* runs nor one that sleeps: so that yield_now adds nobody a second time.
QueuedApart ==
  \A t \in Thread : \A i \in DOMAIN queue[t] :
    /\ Home[queue[t][i]] = t
    /\ queue[t][i] # cur[t]
    /\ queue[t][i] \notin blocked

IInv ==
  /\ TypeOK
  /\ RunningApart
  /\ QueuedApart
  /\ GuardsMatchLock
  /\ PoisonReported

\* The part about the threads.
PlaceInv == TypeOK /\ RunningApart /\ QueuedApart

-----------------------------------------------------------------------------
(* The thread's queue *)

\* FifoSchedulerThread::ready, of a coroutine that is not on the queue.
LEMMA AppendNoRepeats ==
  ASSUME NEW S, NEW q \in Seq(S), NEW c \in S, NoRepeats(q),
         \A i \in DOMAIN q : q[i] # c
  PROVE  /\ Append(q, c) \in Seq(S)
         /\ NoRepeats(Append(q, c))
         /\ \A i \in DOMAIN Append(q, c) :
              Append(q, c)[i] = c \/ \E j \in DOMAIN q : Append(q, c)[i] = q[j]
BY DEF NoRepeats

\* FifoSchedulerThread::tick takes the first one.
LEMMA TailNoRepeats ==
  ASSUME NEW S, NEW q \in Seq(S), NoRepeats(q), q # <<>>
  PROVE  /\ Head(q) \in S
         /\ Head(q) = q[1] /\ 1 \in DOMAIN q
         /\ Tail(q) \in Seq(S)
         /\ NoRepeats(Tail(q))
         /\ \A i \in DOMAIN Tail(q) : Tail(q)[i] # Head(q)
         /\ \A i \in DOMAIN Tail(q) : \E j \in DOMAIN q : Tail(q)[i] = q[j]
<1>1. Len(q) \in Nat /\ Len(q) >= 1 /\ DOMAIN q = 1 .. Len(q)
  OBVIOUS
<1>2. /\ Tail(q) \in Seq(S)
      /\ Head(q) = q[1]
      /\ DOMAIN Tail(q) = 1 .. Len(q) - 1
      /\ \A i \in 1 .. Len(q) - 1 : Tail(q)[i] = q[i + 1]
  OBVIOUS
<1>3. \A i \in 1 .. Len(q) - 1 : i + 1 \in DOMAIN q /\ i + 1 # 1
  BY <1>1
<1>. QED
  BY <1>1, <1>2, <1>3 DEF NoRepeats

-----------------------------------------------------------------------------
(* The lock *)

\* At first nobody holds the lock.
LEMMA InitIInv == Init => IInv
<1>. SUFFICES ASSUME Init PROVE IInv
  OBVIOUS
<1>1. ASSUME NEW t \in Thread
      PROVE  /\ queue[t] \in Seq(Coroutine)
             /\ NoRepeats(queue[t])
             /\ \A i \in DOMAIN queue[t] : Home[queue[t][i]] = t /\ queue[t][i] \in Coroutine
  <2>. DEFINE here == {c \in Coroutine : Home[c] = t}
  <2>1. IsFiniteSet(here)
    <3>1. here \subseteq User
      BY DEF User
    <3>. QED
      BY <3>1, UserAssumption, FS_Subset
  <2>2. Cardinality(here) \in Nat
    BY <2>1, FS_CardinalityType
  <2>3. queue[t] \in [1 .. Cardinality(here) -> here] /\ NoRepeats(queue[t])
    BY DEF Init, Arrangements
  <2>4. here \subseteq Coroutine /\ \A c \in here : Home[c] = t
    OBVIOUS
  <2>. HIDE DEF here
  <2>5. queue[t] \in Seq(here)
    BY <2>2, <2>3, SeqDef
  <2>. QED
    BY <2>3, <2>4, <2>5
<1>2. TypeOK
  <2>1. queue \in [Thread -> Seq(Coroutine)]
    BY <1>1 DEF Init
  <2>2. /\ kind \in {"Mutex", "RwLock"} /\ writer = None /\ readers = {}
        /\ poisoned = FALSE /\ blocked = {} /\ shutting = {}
        /\ pc = [p \in User |-> "idle"]
        /\ mode = [p \in User |-> None] /\ told = [p \in User |-> None]
        /\ cur = [t \in Thread |-> None] /\ ops = [p \in User |-> 0]
    BY DEF Init
  <2>3. ops \in [User -> 0 .. MaxOps]
    BY <2>2, UserAssumption
  <2>. QED
    BY <1>1, <2>1, <2>2, <2>3 DEF TypeOK
<1>3. RunningApart /\ GuardsMatchLock /\ PoisonReported
  BY UserAssumption DEF Init, RunningApart, GuardsMatchLock, PoisonReported
<1>4. QueuedApart
  BY <1>1, UserAssumption DEF Init, QueuedApart, User
<1>. QED
  BY <1>2, <1>3, <1>4 DEF IInv

\* Whoever gets the lock, in an Ok or in an Err, gets it from nobody.
LEMMA AcquireLock ==
  ASSUME IInv, NEW p \in User, NEW m,
         pc[p] \in {"idle", "want"}, Free(m),
         Acquire(p, m, Returned(TryLock(m)))
  PROVE  /\ writer' \in User \cup {None} /\ readers' \subseteq User
         /\ kind' = kind /\ poisoned' = poisoned
         /\ pc' \in [User -> {"idle", "want", "held", "gone"}]
         /\ told' \in [User -> {"Ok", "Err", None}]
         /\ GuardsMatchLock'
         /\ PoisonReported'
<1>1. /\ writer' \in User \cup {None} /\ readers' \subseteq User
      /\ kind' = kind /\ poisoned' = poisoned
      /\ pc' = [pc EXCEPT ![p] = "held"]
      /\ told' = [told EXCEPT ![p] = Returned(TryLock(m))]
      /\ Returned(TryLock(m)) \in {"Ok", "Err"}
      /\ poisoned => Returned(TryLock(m)) = "Err"
  BY DEF Acquire, IInv, TypeOK, Returned, TryLock
<1>2. GuardsMatchLock'
  BY <1>1, UserAssumption DEF GuardsMatchLock, IInv, TypeOK, Acquire, Free
<1>3. PoisonReported'
  BY <1>1 DEF PoisonReported, IInv, TypeOK
<1>. QED
  BY <1>1, <1>2, <1>3 DEF IInv, TypeOK

\* Whoever gives the lock back had it; a panic that poisons it leaves nobody with
\* a guard that came in an Ok.
LEMMA DropLock ==
  ASSUME IInv, NEW p \in User, NEW poisons \in BOOLEAN, NEW to \in {"idle", "gone"},
         DropGuard(p, poisons),
         pc' = [pc EXCEPT ![p] = to], told' = [told EXCEPT ![p] = None]
  PROVE  /\ writer' \in User \cup {None} /\ readers' \subseteq User
         /\ kind' = kind /\ poisoned' \in BOOLEAN
         /\ pc' \in [User -> {"idle", "want", "held", "gone"}]
         /\ told' \in [User -> {"Ok", "Err", None}]
         /\ GuardsMatchLock'
         /\ PoisonReported'
<1>1. /\ writer' \in User \cup {None} /\ readers' \subseteq User
      /\ kind' = kind /\ poisoned' \in BOOLEAN
      /\ pc' \in [User -> {"idle", "want", "held", "gone"}]
      /\ told' \in [User -> {"Ok", "Err", None}]
  BY DEF DropGuard, IInv, TypeOK
<1>2. GuardsMatchLock'
  BY UserAssumption DEF GuardsMatchLock, IInv, TypeOK, DropGuard
<1>3. PoisonReported'
  <2>. SUFFICES ASSUME NEW o \in User, (pc[o] = "held")', poisoned' PROVE told'[o] = "Err"
    BY DEF PoisonReported
  <2>1. o # p /\ pc[o] = "held" /\ told'[o] = told[o]
    BY DEF IInv, TypeOK
  <2>2. writer # p
    BY <2>1, UserAssumption DEF IInv, GuardsMatchLock
  <2>3. poisoned
    BY <2>2 DEF DropGuard
  <2>. QED
    BY <2>1, <2>3 DEF IInv, PoisonReported
<1>. QED
  BY <1>1, <1>2, <1>3

-----------------------------------------------------------------------------
(* One step *)

\* YieldNow, of the coroutine that runs.
LEMMA YieldPlace ==
  ASSUME PlaceInv, NEW c \in Coroutine, Running(c), YieldNow(c), UNCHANGED blocked
  PROVE  /\ cur' \in [Thread -> Coroutine \cup {None}]
         /\ queue' \in [Thread -> Seq(Coroutine)]
         /\ \A t \in Thread : NoRepeats(queue'[t])
         /\ RunningApart' /\ QueuedApart'
<1>. DEFINE h == Home[c]
            q == queue[h]
<1>1. /\ h \in Thread /\ cur[h] = c /\ c # None
      /\ q \in Seq(Coroutine) /\ NoRepeats(q)
      /\ \A i \in DOMAIN q : q[i] # c
      /\ c \notin blocked
  BY UserAssumption DEF PlaceInv, TypeOK, Running, RunningApart, QueuedApart, User
<1>2. /\ Append(q, c) \in Seq(Coroutine)
      /\ NoRepeats(Append(q, c))
      /\ \A i \in DOMAIN Append(q, c) :
           Append(q, c)[i] = c \/ \E j \in DOMAIN q : Append(q, c)[i] = q[j]
  BY <1>1, AppendNoRepeats
<1>3. /\ cur' = [cur EXCEPT ![h] = None]
      /\ queue' = [queue EXCEPT ![h] = Append(q, c)]
  BY DEF YieldNow
<1>4. h \in Thread /\ Home[c] = h
  BY <1>1
<1>. HIDE DEF h
<1>5. /\ cur' \in [Thread -> Coroutine \cup {None}]
      /\ queue' \in [Thread -> Seq(Coroutine)]
  BY <1>2, <1>3, <1>4 DEF PlaceInv, TypeOK
<1>6. \A t \in Thread : /\ t = h => cur'[t] = None /\ queue'[t] = Append(q, c)
                        /\ t # h => cur'[t] = cur[t] /\ queue'[t] = queue[t]
  BY <1>3, <1>4 DEF PlaceInv, TypeOK
<1>7. \A t \in Thread : NoRepeats(queue'[t])
  BY <1>2, <1>6 DEF PlaceInv, TypeOK
<1>8. RunningApart'
  BY <1>6 DEF PlaceInv, RunningApart
<1>9. QueuedApart'
  <2>. SUFFICES ASSUME NEW t \in Thread, NEW i \in DOMAIN (queue'[t])
                PROVE  /\ Home[queue'[t][i]] = t
                       /\ queue'[t][i] # cur'[t]
                       /\ queue'[t][i] \notin blocked'
    BY DEF QueuedApart
  <2>1. CASE t # h
    BY <2>1, <1>6 DEF PlaceInv, QueuedApart
  <2>2. CASE t = h
    <3>1. queue'[t][i] = c \/ \E j \in DOMAIN q : queue'[t][i] = q[j]
      BY <2>2, <1>2, <1>6
    <3>2. \A j \in DOMAIN q : Home[q[j]] = h /\ q[j] \notin blocked /\ q[j] \in Coroutine
      BY <1>1, <1>4 DEF PlaceInv, QueuedApart
    <3>3. cur'[t] = None /\ None \notin Coroutine
      BY <2>2, <1>6, UserAssumption DEF User
    <3>. QED
      BY <2>2, <3>1, <3>2, <3>3, <1>1, <1>4
  <2>. QED
    BY <2>1, <2>2
<1>. QED
  BY <1>5, <1>7, <1>8, <1>9

\* A coroutine that leaves, or a thread outside of mioco.
LEMMA LeavePlace ==
  ASSUME IInv, NEW p \in User, Leave(p)
  PROVE  /\ pc' = [pc EXCEPT ![p] = "gone"] /\ told' = [told EXCEPT ![p] = None]
         /\ mode' \in [User -> {"lock", "read", "write", None}]
         /\ cur' \in [Thread -> Coroutine \cup {None}]
         /\ UNCHANGED <<queue, blocked, shutting, ops>>
         /\ RunningApart' /\ QueuedApart'
<1>1. \A t \in Thread : cur'[t] = cur[t] \/ cur'[t] = None
  BY DEF Leave
<1>2. \A t \in Thread : \A i \in DOMAIN queue[t] : queue[t][i] # None
  BY UserAssumption DEF IInv, TypeOK, User
<1>3. RunningApart' /\ QueuedApart'
  BY <1>1, <1>2 DEF Leave, IInv, RunningApart, QueuedApart
<1>. QED
  BY <1>3 DEF Leave, IInv, TypeOK

\* Every call counts, up to MaxOps.
LEMMA OpType ==
  ASSUME TypeOK, NEW p \in User, Op(p)
  PROVE  ops' \in [User -> 0 .. MaxOps]
<1>1. MaxOps \in Nat /\ ops \in [User -> 0 .. MaxOps] /\ ops[p] < MaxOps
  BY UserAssumption DEF TypeOK, Op
<1>2. ops[p] + 1 \in 0 .. MaxOps
  BY <1>1
<1>. QED
  BY <1>1, <1>2 DEF Op

\* Every step keeps the invariant, an action at a time.
LEMMA StepIInv == IInv /\ [Next]_vars => IInv'
<1>. SUFFICES ASSUME IInv, [Next]_vars PROVE IInv'
  OBVIOUS
<1>p. PlaceInv
  BY DEF IInv, PlaceInv
<1>u. Coroutine \subseteq User /\ Native \subseteq User
  BY DEF User
<1>1. ASSUME NEW p \in User, NEW m \in {"lock", "read", "write"}, Call(p, m)
      PROVE  IInv'
  <2>1. TypeOK'
    BY <1>1, OpType DEF Call, lockVars, loopVars, IInv, TypeOK
  <2>2. RunningApart' /\ QueuedApart'
    BY <1>1 DEF Call, loopVars, IInv, RunningApart, QueuedApart
  <2>3. GuardsMatchLock' /\ PoisonReported'
    BY <1>1 DEF Call, lockVars, IInv, TypeOK, GuardsMatchLock, PoisonReported
  <2>. QED
    BY <2>1, <2>2, <2>3 DEF IInv
<1>2. ASSUME NEW c \in Coroutine, NEW m \in {"lock", "read", "write"}, InMioco(c, m)
      PROVE  IInv'
  <2>1. CASE Retries(TryLock(m))
    <3>1. /\ Running(c) /\ YieldNow(c)
          /\ UNCHANGED <<lockVars, pc, told, mode, blocked, shutting, ops>>
      BY <1>2, <2>1 DEF InMioco, Round
    <3>2. /\ cur' \in [Thread -> Coroutine \cup {None}]
          /\ queue' \in [Thread -> Seq(Coroutine)]
          /\ \A t \in Thread : NoRepeats(queue'[t])
          /\ RunningApart' /\ QueuedApart'
      BY <3>1, <1>p, YieldPlace
    <3>. QED
      BY <3>1, <3>2 DEF lockVars, IInv, TypeOK, GuardsMatchLock, PoisonReported
  <2>2. CASE ~ Retries(TryLock(m))
    <3>1. /\ Free(m) /\ pc[c] = "want"
          /\ Acquire(c, m, Returned(TryLock(m)))
          /\ UNCHANGED <<cur, queue, mode, blocked, shutting, ops>>
      BY <1>2, <2>2 DEF InMioco, Round, Retries, TryLock
    <3>2. /\ writer' \in User \cup {None} /\ readers' \subseteq User
          /\ kind' = kind /\ poisoned' = poisoned
          /\ pc' \in [User -> {"idle", "want", "held", "gone"}]
          /\ told' \in [User -> {"Ok", "Err", None}]
          /\ GuardsMatchLock' /\ PoisonReported'
      BY <3>1, <1>u, AcquireLock
    <3>. QED
      BY <3>1, <3>2 DEF IInv, TypeOK, RunningApart, QueuedApart
  <2>. QED
    BY <2>1, <2>2
<1>3. ASSUME NEW n \in Native, LockOutside(n)
      PROVE  IInv'
  <2>1. /\ writer' \in User \cup {None} /\ readers' \subseteq User
        /\ kind' = kind /\ poisoned' = poisoned
        /\ pc' \in [User -> {"idle", "want", "held", "gone"}]
        /\ told' \in [User -> {"Ok", "Err", None}]
        /\ GuardsMatchLock' /\ PoisonReported'
    BY <1>3, <1>u, AcquireLock DEF LockOutside
  <2>2. TypeOK'
    BY <1>3, <2>1 DEF LockOutside, loopVars, IInv, TypeOK
  <2>. QED
    BY <1>3, <2>1, <2>2 DEF LockOutside, loopVars, IInv, RunningApart, QueuedApart
<1>4. ASSUME NEW p \in User, NEW m \in Modes, TryOnce(p, m)
      PROVE  IInv'
  <2>1. m \in {"lock", "read", "write"}
    BY DEF Modes
  <2>2. /\ writer' \in User \cup {None} /\ readers' \subseteq User
        /\ kind' = kind /\ poisoned' = poisoned
        /\ pc' \in [User -> {"idle", "want", "held", "gone"}]
        /\ told' \in [User -> {"Ok", "Err", None}]
        /\ GuardsMatchLock' /\ PoisonReported'
    BY <1>4, <2>1, AcquireLock DEF TryOnce
  <2>3. TypeOK'
    BY <1>4, <2>1, <2>2, OpType DEF TryOnce, loopVars, IInv, TypeOK
  <2>. QED
    BY <1>4, <2>2, <2>3 DEF TryOnce, loopVars, IInv, RunningApart, QueuedApart
<1>5. ASSUME NEW p \in User, Unlock(p)
      PROVE  IInv'
  <2>1. /\ writer' \in User \cup {None} /\ readers' \subseteq User
        /\ kind' = kind /\ poisoned' \in BOOLEAN
        /\ pc' \in [User -> {"idle", "want", "held", "gone"}]
        /\ told' \in [User -> {"Ok", "Err", None}]
        /\ GuardsMatchLock' /\ PoisonReported'
    BY <1>5, DropLock DEF Unlock
  <2>2. TypeOK'
    BY <1>5, <2>1 DEF Unlock, loopVars, IInv, TypeOK
  <2>. QED
    BY <1>5, <2>1, <2>2 DEF Unlock, loopVars, IInv, RunningApart, QueuedApart
<1>6. ASSUME NEW p \in User, NEW poisons \in BOOLEAN, DropGuard(p, poisons), Leave(p)
      PROVE  IInv'
  <2>1. /\ pc' = [pc EXCEPT ![p] = "gone"] /\ told' = [told EXCEPT ![p] = None]
        /\ mode' \in [User -> {"lock", "read", "write", None}]
        /\ cur' \in [Thread -> Coroutine \cup {None}]
        /\ UNCHANGED <<queue, blocked, shutting, ops>>
        /\ RunningApart' /\ QueuedApart'
    BY <1>6, LeavePlace
  <2>2. /\ writer' \in User \cup {None} /\ readers' \subseteq User
        /\ kind' = kind /\ poisoned' \in BOOLEAN
        /\ pc' \in [User -> {"idle", "want", "held", "gone"}]
        /\ told' \in [User -> {"Ok", "Err", None}]
        /\ GuardsMatchLock' /\ PoisonReported'
    BY <1>6, <2>1, DropLock
  <2>. QED
    BY <2>1, <2>2 DEF IInv, TypeOK
<1>7. ASSUME NEW p \in User, Finish(p)
      PROVE  IInv'
  <2>1. /\ pc' = [pc EXCEPT ![p] = "gone"] /\ told' = [told EXCEPT ![p] = None]
        /\ mode' \in [User -> {"lock", "read", "write", None}]
        /\ cur' \in [Thread -> Coroutine \cup {None}]
        /\ UNCHANGED <<queue, blocked, shutting, ops, lockVars>>
        /\ RunningApart' /\ QueuedApart'
        /\ pc[p] = "idle"
    BY <1>7, LeavePlace DEF Finish
  <2>2. TypeOK'
    BY <2>1 DEF lockVars, IInv, TypeOK
  <2>3. GuardsMatchLock' /\ PoisonReported'
    BY <2>1 DEF lockVars, IInv, TypeOK, GuardsMatchLock, PoisonReported
  <2>. QED
    BY <2>1, <2>2, <2>3 DEF IInv
<1>8. ASSUME NEW c \in Coroutine, Yield(c)
      PROVE  IInv'
  <2>1. /\ cur' \in [Thread -> Coroutine \cup {None}]
        /\ queue' \in [Thread -> Seq(Coroutine)]
        /\ \A t \in Thread : NoRepeats(queue'[t])
        /\ RunningApart' /\ QueuedApart'
    BY <1>8, <1>p, YieldPlace DEF Yield
  <2>2. ops' \in [User -> 0 .. MaxOps]
    BY <1>8, <1>u, OpType DEF Yield, IInv
  <2>. QED
    BY <1>8, <2>1, <2>2 DEF Yield, lockVars, IInv, TypeOK, GuardsMatchLock, PoisonReported
<1>9. ASSUME NEW c \in Coroutine, Sleep(c)
      PROVE  IInv'
  <2>1. /\ Home[c] \in Thread /\ cur[Home[c]] = c /\ c # None
        /\ \A t \in Thread : cur'[t] = IF t = Home[c] THEN None ELSE cur[t]
        /\ blocked' = blocked \cup {c} /\ queue' = queue
    BY <1>9, UserAssumption, <1>u DEF Sleep, Running, IInv, TypeOK
  <2>2. TypeOK'
    BY <1>9, <2>1, <1>u, OpType DEF Sleep, lockVars, IInv, TypeOK
  <2>3. RunningApart'
    BY <2>1 DEF IInv, RunningApart
  <2>4. QueuedApart'
    BY <2>1, UserAssumption, <1>u DEF IInv, TypeOK, QueuedApart
  <2>. QED
    BY <1>9, <2>2, <2>3, <2>4 DEF Sleep, lockVars, IInv, GuardsMatchLock, PoisonReported
<1>10. ASSUME NEW c \in Coroutine, Wake(c)
       PROVE  IInv'
  <2>1. /\ Home[c] \in Thread /\ cur[Home[c]] = None /\ c \in blocked
        /\ \A t \in Thread : cur'[t] = IF t = Home[c] THEN c ELSE cur[t]
        /\ blocked' = blocked \ {c} /\ queue' = queue
    BY <1>10, UserAssumption, <1>u DEF Wake, IInv, TypeOK
  <2>2. TypeOK'
    BY <1>10, <2>1 DEF Wake, lockVars, IInv, TypeOK
  <2>3. RunningApart'
    BY <2>1 DEF IInv, RunningApart
  <2>4. QueuedApart'
    BY <2>1 DEF IInv, TypeOK, QueuedApart
  <2>. QED
    BY <1>10, <2>2, <2>3, <2>4 DEF Wake, lockVars, IInv, GuardsMatchLock, PoisonReported
<1>11. ASSUME NEW t \in Thread, Resume(t)
       PROVE  IInv'
  <2>. DEFINE q == queue[t]
  <2>1. q \in Seq(Coroutine) /\ NoRepeats(q) /\ q # <<>>
    BY <1>11 DEF Resume, IInv, TypeOK
  <2>2. /\ Head(q) \in Coroutine
        /\ Head(q) = q[1] /\ 1 \in DOMAIN q
        /\ Tail(q) \in Seq(Coroutine)
        /\ NoRepeats(Tail(q))
        /\ \A i \in DOMAIN Tail(q) : Tail(q)[i] # Head(q)
        /\ \A i \in DOMAIN Tail(q) : \E j \in DOMAIN q : Tail(q)[i] = q[j]
    BY <2>1, TailNoRepeats
  <2>3. /\ \A s \in Thread : cur'[s] = IF s = t THEN Head(q) ELSE cur[s]
        /\ \A s \in Thread : queue'[s] = IF s = t THEN Tail(q) ELSE queue[s]
        /\ blocked' = blocked
    BY <1>11 DEF Resume, IInv, TypeOK
  <2>4. TypeOK'
    BY <1>11, <2>2, <2>3 DEF Resume, lockVars, IInv, TypeOK
  <2>5. RunningApart'
    BY <2>2, <2>3 DEF IInv, RunningApart, QueuedApart
  <2>6. \A j \in DOMAIN q : Home[q[j]] = t /\ q[j] \notin blocked
    BY DEF IInv, QueuedApart
  <2>. HIDE DEF q
  <2>7. QueuedApart'
    <3>. SUFFICES ASSUME NEW s \in Thread
                  PROVE  \A i \in DOMAIN (queue'[s]) :
                           /\ Home[queue'[s][i]] = s
                           /\ queue'[s][i] # cur'[s]
                           /\ queue'[s][i] \notin blocked'
      BY DEF QueuedApart
    <3>1. CASE s = t
      <4>1. queue'[s] = Tail(q) /\ cur'[s] = Head(q) /\ blocked' = blocked
        BY <3>1, <2>3
      <4>2. ASSUME NEW i \in DOMAIN Tail(q)
            PROVE  Home[Tail(q)[i]] = t /\ Tail(q)[i] \notin blocked
        <5>1. PICK j \in DOMAIN q : Tail(q)[i] = q[j]
          BY <2>2
        <5>. QED
          BY <5>1, <2>6
      <4>. QED
        BY <3>1, <4>1, <4>2, <2>2, Zenon
    <3>2. CASE s # t
      BY <3>2, <2>3 DEF IInv, QueuedApart
    <3>. QED
      BY <3>1, <3>2
  <2>. QED
    BY <1>11, <2>4, <2>5, <2>7 DEF Resume, lockVars, IInv, GuardsMatchLock, PoisonReported
<1>12. ASSUME NEW t \in Thread, Shutdown(t)
       PROVE  IInv'
  BY <1>12 DEF Shutdown, lockVars, IInv, TypeOK, RunningApart, QueuedApart,
     GuardsMatchLock, PoisonReported
<1>13. ASSUME UNCHANGED vars
       PROVE  IInv'
  BY <1>13 DEF vars, lockVars, loopVars, IInv, TypeOK, RunningApart, QueuedApart,
     GuardsMatchLock, PoisonReported
<1>14. ASSUME NEW p \in User, Run(p)
       PROVE  IInv'
  BY <1>14, <1>1, <1>4, <1>5, <1>6, <1>7 DEF Run, Lock, Read, Write, Panic
<1>15. ASSUME NEW c \in Coroutine, CoroutineStep(c)
       PROVE  IInv'
  BY <1>15, <1>14, <1>2, <1>6, <1>8, <1>9, <1>u
     DEF CoroutineStep, LockInMioco, ReadInMioco, WriteInMioco, Kill
<1>. QED
  BY <1>3, <1>10, <1>11, <1>12, <1>13, <1>14, <1>15, <1>u
     DEF Next, ThreadStep, NativeStep, Done

-----------------------------------------------------------------------------
(* The theorems *)

\* The invariant, for any number of threads and coroutines.
THEOREM InvariantHolds == Spec => []IInv
BY InitIInv, StepIInv, PTL DEF Spec

\* Every variable keeps its type, and nobody is on a thread's queue twice: a
\* coroutine that yields in lock() is resumed once for each time it yields.
THEOREM TypeCorrect == Spec => []TypeOK
<1>1. IInv => TypeOK
  BY DEF IInv
<1>. QED
  BY <1>1, InvariantHolds, PTL

\* Whoever has the lock is there, with a guard, to give it back, and whoever has
\* a guard has the lock, for a Mutex and for a RwLock, through poisoning, panics,
\* kills and shutdowns.
THEOREM GuardsMatch == Spec => []GuardsMatchLock
<1>1. IInv => GuardsMatchLock
  BY DEF IInv
<1>. QED
  BY <1>1, InvariantHolds, PTL

\* Nobody holds a guard on poisoned data that came in an Ok, however the panic
\* and the waiting interleave.
THEOREM PoisonIsReported == Spec => []PoisonReported
<1>1. IInv => PoisonReported
  BY DEF IInv
<1>. QED
  BY <1>1, InvariantHolds, PTL
=============================================================================
