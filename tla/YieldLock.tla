----------------------------- MODULE YieldLock -----------------------------
(***************************************************************************)
(* Mutex and RwLock (src/sync/mod.rs): a std lock that coroutines take in  *)
(* a loop of try_lock and yield_now, and other threads with std's own      *)
(* lock().  What a thread does between two accesses to the lock, or until  *)
(* its coroutine jumps out, is one action.                                 *)
(*                                                                         *)
(* An event-loop thread is module Runtime in short: one coroutine runs at  *)
(* a time, one that has yielded goes to the end of the thread's queue, one *)
(* that is blocked (sleeps) is woken between two others, and a thread that *)
(* shuts down kills its coroutines, which drops the guards on their        *)
(* stacks.  The std lock is external.                                      *)
(***************************************************************************)
EXTENDS Naturals, Sequences, FiniteSets

CONSTANTS
  Coroutine,
  Native,     \* threads outside of mioco
  Thread,     \* event-loop threads
  Home,       \* the thread of each coroutine
  MaxOps,     \* bound: lock attempts, yields and sleeps of one coroutine or thread
  None

User == Coroutine \cup Native

ASSUME UserAssumption ==
  /\ IsFiniteSet(User) /\ Coroutine \cap Native = {} /\ None \notin User
  /\ Home \in [Coroutine -> Thread]
  /\ MaxOps \in Nat

VARIABLES
  kind,       \* "Mutex" or "RwLock", chosen once
  writer,     \* who has the lock exclusively, or None
  readers,    \* who shares it
  poisoned,   \* the flag of the std lock
  pc,         \* "idle", "want" (in lock()), "held" (has a guard), "gone"
  mode,       \* what it wants or has: "lock", "read", "write" or None
  told,       \* LockResult its guard came in: "Ok", "Err" or None
  cur,        \* TL_CURRENT_COROUTINE of each thread, or None
  queue,      \* coroutines that have yielded
  blocked,    \* coroutines that sleep
  shutting,   \* threads with Handler::is_shutting_down
  ops

lockVars == <<kind, writer, readers, poisoned>>
loopVars == <<cur, queue, blocked, shutting>>
vars == <<lockVars, pc, mode, told, loopVars, ops>>

Modes == IF kind = "Mutex" THEN {"lock"} ELSE {"read", "write"}

NoRepeats(q) == \A i, j \in DOMAIN q : q[i] = q[j] => i = j

\* The coroutines of thread t, in any order.
Arrangements(t) ==
  LET here == {c \in Coroutine : Home[c] = t}
  IN {q \in [1 .. Cardinality(here) -> here] : NoRepeats(q)}

\* Every coroutine is on the queue of its thread.
Init ==
  /\ kind \in {"Mutex", "RwLock"}
  /\ writer = None
  /\ readers = {}
  /\ poisoned = FALSE
  /\ pc = [p \in User |-> "idle"]
  /\ mode = [p \in User |-> None]
  /\ told = [p \in User |-> None]
  /\ cur = [t \in Thread |-> None]
  /\ queue \in {q \in [Thread -> UNION {Arrangements(t) : t \in Thread}] :
                  \A t \in Thread : q[t] \in Arrangements(t)}
  /\ blocked = {}
  /\ shutting = {}
  /\ ops = [p \in User |-> 0]

-----------------------------------------------------------------------------
(* The std lock (external) *)

Free(m) == writer = None /\ (m # "read" => readers = {})

TryLock(m) ==
  IF ~Free(m) THEN "WouldBlock" ELSE IF poisoned THEN "Poisoned" ELSE "Ok"

\* p gets a guard, in an Ok or inside of the PoisonError.
Acquire(p, m, result) ==
  /\ IF m = "read"
       THEN readers' = readers \cup {p} /\ writer' = writer
       ELSE writer' = p /\ readers' = readers
  /\ told' = [told EXCEPT ![p] = result]
  /\ pc' = [pc EXCEPT ![p] = "held"]
  /\ UNCHANGED <<kind, poisoned>>

\* The guard of p is dropped; an exclusive one dropped by a panic poisons.
DropGuard(p, poisons) ==
  /\ readers' = readers \ {p}
  /\ writer' = IF writer = p THEN None ELSE writer
  /\ poisoned' = (poisoned \/ (poisons /\ writer = p))
  /\ kind' = kind

-----------------------------------------------------------------------------
(* lock(), read() and write() *)

\* p runs its own code: a coroutine needs its thread.
Running(p) == p \in Coroutine => cur[Home[p]] = p

Op(p) == ops[p] < MaxOps /\ ops' = [ops EXCEPT ![p] = @ + 1]

\* A call, up to the test of in_coroutine().
Call(p, m) ==
  /\ Running(p)
  /\ pc[p] = "idle"
  /\ Op(p)
  /\ mode' = [mode EXCEPT ![p] = m]
  /\ pc' = [pc EXCEPT ![p] = "want"]
  /\ UNCHANGED <<lockVars, told, loopVars>>

Lock(p) == kind = "Mutex" /\ Call(p, "lock")

Read(p) == kind = "RwLock" /\ Call(p, "read")

Write(p) == kind = "RwLock" /\ Call(p, "write")

StayOnThread(c) == UNCHANGED <<cur, queue>>

\* yield_now, after_resume and FifoSchedulerThread::ready
YieldNow(c) ==
  /\ cur' = [cur EXCEPT ![Home[c]] = None]
  /\ queue' = [queue EXCEPT ![Home[c]] = Append(@, c)]

RetriesPoisoned(result) == result # "Ok"

\* TryLockError::WouldBlock is the only error that leads to another round.
Retries(result) == result = "WouldBlock"

AlwaysOk(result) == "Ok"

\* Poisoned is returned as an Err, with the guard in it.
Returned(result) == IF result = "Poisoned" THEN "Err" ELSE "Ok"

\* One round of the loop in lock_in_mioco, read_in_mioco and write_in_mioco.
Round(c) ==
  LET result == TryLock(mode[c])
  IN IF Retries(result)
       THEN YieldNow(c) /\ UNCHANGED <<lockVars, pc, told>>
       ELSE Acquire(c, mode[c], Returned(result)) /\ UNCHANGED <<cur, queue>>

InMioco(c, m) ==
  /\ Running(c)
  /\ pc[c] = "want"
  /\ mode[c] = m
  /\ Round(c)
  /\ UNCHANGED <<mode, blocked, shutting, ops>>

LockInMioco(c) == InMioco(c, "lock")

ReadInMioco(c) == InMioco(c, "read")

WriteInMioco(c) == InMioco(c, "write")

\* Outside of a coroutine, and through native_lock(): std waits for the lock.
LockOutside(n) ==
  /\ pc[n] = "want"
  /\ Free(mode[n])
  /\ Acquire(n, mode[n], Returned(TryLock(mode[n])))
  /\ UNCHANGED <<mode, loopVars, ops>>

\* try_lock, try_read and try_write are the same for everybody.  One that would
\* block changes nothing.
TryOnce(p, m) ==
  /\ Running(p)
  /\ pc[p] = "idle"
  /\ Free(m)
  /\ Op(p)
  /\ mode' = [mode EXCEPT ![p] = m]
  /\ Acquire(p, m, Returned(TryLock(m)))
  /\ UNCHANGED loopVars

-----------------------------------------------------------------------------
(* What else user code does, with or without a guard *)

Unlock(p) ==
  /\ Running(p)
  /\ pc[p] = "held"
  /\ DropGuard(p, FALSE)
  /\ pc' = [pc EXCEPT ![p] = "idle"]
  /\ mode' = [mode EXCEPT ![p] = None]
  /\ told' = [told EXCEPT ![p] = None]
  /\ UNCHANGED <<loopVars, ops>>

Leave(p) ==
  /\ pc' = [pc EXCEPT ![p] = "gone"]
  /\ mode' = [mode EXCEPT ![p] = None]
  /\ told' = [told EXCEPT ![p] = None]
  /\ cur' = [t \in Thread |-> IF cur[t] = p THEN None ELSE cur[t]]
  /\ UNCHANGED <<queue, blocked, shutting, ops>>

Panic(p) ==
  /\ Running(p)
  /\ pc[p] = "held"
  /\ DropGuard(p, TRUE)
  /\ Leave(p)

Finish(p) ==
  /\ Running(p)
  /\ pc[p] = "idle"
  /\ Leave(p)
  /\ UNCHANGED lockVars

\* yield_now() in user code.
Yield(c) ==
  /\ Running(c)
  /\ pc[c] \in {"idle", "held"}
  /\ Op(c)
  /\ YieldNow(c)
  /\ UNCHANGED <<lockVars, pc, mode, told, blocked, shutting>>

Sleep(c) ==
  /\ Running(c)
  /\ pc[c] \in {"idle", "held"}
  /\ Op(c)
  /\ blocked' = blocked \cup {c}
  /\ cur' = [cur EXCEPT ![Home[c]] = None]
  /\ UNCHANGED <<lockVars, pc, mode, told, queue, shutting>>

-----------------------------------------------------------------------------
(* The event-loop thread *)

\* Handler::ready or timeout for a coroutine that sleeps: it runs at once.
Wake(c) ==
  /\ c \in blocked
  /\ cur[Home[c]] = None
  /\ Home[c] \notin shutting
  /\ blocked' = blocked \ {c}
  /\ cur' = [cur EXCEPT ![Home[c]] = c]
  /\ UNCHANGED <<lockVars, pc, mode, told, queue, shutting, ops>>

\* FifoSchedulerThread::tick
Resume(t) ==
  /\ cur[t] = None
  /\ t \notin shutting
  /\ queue[t] # <<>>
  /\ cur' = [cur EXCEPT ![t] = Head(queue[t])]
  /\ queue' = [queue EXCEPT ![t] = Tail(@)]
  /\ UNCHANGED <<lockVars, pc, mode, told, blocked, shutting, ops>>

Shutdown(t) ==
  /\ cur[t] = None
  /\ t \notin shutting
  /\ shutting' = shutting \cup {t}
  /\ UNCHANGED <<lockVars, pc, mode, told, cur, queue, blocked, ops>>

KillWithoutUnwind(c) ==
  /\ pc[c] # "gone"
  /\ Home[c] \in shutting
  /\ Leave(c)
  /\ UNCHANGED lockVars

\* shutdown_one_coroutine: the stack unwinds and drops the guard.  If
\* resume_unwind counts as a panic, and poisons, depends on the version of std.
Kill(c) ==
  /\ pc[c] # "gone"
  /\ Home[c] \in shutting
  /\ \E poisons \in BOOLEAN : DropGuard(c, poisons)
  /\ Leave(c)

-----------------------------------------------------------------------------
Run(p) ==
  \/ Lock(p) \/ Read(p) \/ Write(p)
  \/ \E m \in Modes : TryOnce(p, m)
  \/ Unlock(p)
  \/ Panic(p)
  \/ Finish(p)

CoroutineStep(c) ==
  \/ Run(c)
  \/ LockInMioco(c) \/ ReadInMioco(c) \/ WriteInMioco(c)
  \/ Yield(c)
  \/ Sleep(c)
  \/ Kill(c)

ThreadStep(t) ==
  \/ Resume(t)
  \/ \E c \in Coroutine : Home[c] = t /\ CoroutineStep(c)

NativeStep(n) == Run(n) \/ LockOutside(n)

Done == (\A p \in User : pc[p] = "gone") /\ UNCHANGED vars

Next ==
  \/ \E t \in Thread : ThreadStep(t) \/ Shutdown(t)
  \/ \E c \in Coroutine : Wake(c)
  \/ \E n \in Native : NativeStep(n)
  \/ Done

Spec == Init /\ [][Next]_vars

\* Threads run; what is waited for with a guard in hand (a timer) happens, and
\* every round of an event loop looks for it.  Nobody has to shut down.
Fairness ==
  /\ \A t \in Thread : WF_vars(ThreadStep(t))
  /\ \A n \in Native : WF_vars(NativeStep(n))
  /\ \A c \in Coroutine : SF_vars(Wake(c))

FairSpec == Spec /\ Fairness

-----------------------------------------------------------------------------
TypeOK ==
  /\ kind \in {"Mutex", "RwLock"}
  /\ writer \in User \cup {None}
  /\ readers \subseteq User
  /\ poisoned \in BOOLEAN
  /\ pc \in [User -> {"idle", "want", "held", "gone"}]
  /\ mode \in [User -> {"lock", "read", "write", None}]
  /\ told \in [User -> {"Ok", "Err", None}]
  /\ cur \in [Thread -> Coroutine \cup {None}]
  /\ queue \in [Thread -> Seq(Coroutine)]
  /\ blocked \subseteq Coroutine
  /\ shutting \subseteq Thread
  /\ ops \in [User -> 0 .. MaxOps]
  /\ \A t \in Thread : NoRepeats(queue[t])

\* A lock is taken exactly as long as somebody is there to give it back: whoever
\* has it holds a guard, on a stack that has not been unwound, and a guard means
\* the lock.  This includes coroutines that were killed or have panicked, and
\* those that took the lock in the error of a poisoned one.
GuardsMatchLock ==
  /\ writer # None => readers = {}
  /\ \A p \in User : pc[p] = "held" <=> (writer = p \/ p \in readers)

\* LockResult: nobody is told Ok about data that a panic left half changed,
\* inside or outside of mioco, also when the panic came while they waited.
PoisonReported == \A p \in User : pc[p] = "held" /\ poisoned => told[p] = "Err"

\* "Calls yield_now() on contention": a coroutine that waits for a lock does not
\* keep the one that has it, perhaps on the same thread and itself waiting to be
\* resumed, from going on and giving it back.
HolderGoesOn == \A p \in User : pc[p] = "held" ~> pc[p] # "held"

\* "blocking the current coroutine until it can be acquired" (lock, read, write):
\* with everybody else done in the end, each waiter gets a result, an Err
\* included, or is killed.
WaitEnds == \A p \in User : pc[p] = "want" ~> pc[p] # "want"
=============================================================================
