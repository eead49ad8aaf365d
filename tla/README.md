# mioco: TLA+ models, model checking and proofs

mioco runs coroutines ("green threads") on a handful of OS threads, each of which
owns a `mio` event loop. This directory models the channels that wake coroutines
up, the machinery that starts, moves, resumes, kills and counts them, the event
sources, timers and sockets they wait on, and what is built on top: locks and
`offload`. Line numbers in `PROJECT.json` refer to the commit in `src/`.

## 1. The system

### Components

| Component | Source | State | Operations |
|---|---|---|---|
| mpsc channels | `src/sync/mpsc.rs` | std queue; `AtomicUsize` counter shared by both ends; `ChannelShared` (token of the parked receiver and its event loop) under a spin lock | `send`, `clone`, `drop`, `recv`, `try_recv`, `register`, `deregister` |
| event-loop thread | `src/thread.rs` | `HandlerShared`: slab of coroutines, `spawned` and `ready` queues; `is_shutting_down`; shared: `coroutines_num`, `mioco_started`, one notify queue per thread | `ready`, `notify` (five messages), `tick`, `timeout`, `deliver_to_scheduler`, `shutdown` |
| coroutine | `src/coroutine.rs` | `state` (Ready, Blocked, Finished), `killed`, `blocked_on`, `children_to_start`, `exit_sender`, slab id | `spawn`, `spawn_child`, `jump_in`/`jump_out`, `after_resume`, `register_all`, `unblock`, `finish` in the main function |
| coroutine control | `src/mod.rs`, `src/coroutine.rs` | an owned right to decide what happens to a ready coroutine | `resume`, `migrate`, `reattach_to`, `kill` (on drop), `is_yielding` |
| FifoScheduler | `src/mod.rs` | shared `thread_num`; per thread `thread_id`, `thread_i`, `delayed` | `spawn_thread`, `spawned`, `ready`, `tick` |
| instance | `src/mod.rs` | the threads, `Config` | `start`, `run`, `thread_loop`, `spawn`, `JoinHandle::join`, `shutdown`, `yield_now` |
| event sources, `select!` | `src/evented.rs`, `src/mod.rs` | per source: its place in `blocked_on`, interest, registration; 10 token bits for the place | `register`, `reregister`, `deregister`, `block_on`, `select_wait` |
| timers, `sleep` | `src/timer.rs` | deadline, the `mio` timeout handle | `set_timeout`, `read`, `register`, `deregister` |
| Mutex, RwLock | `src/sync/mod.rs` | a std lock | `try_lock` in a `yield_now` loop |
| offload | `src/mod.rs` | a sync channel per coroutine | run a closure on a scoped thread, wait for its result |
| `sender_retry` | `src/mod.rs` | the notify queue of an event loop, bounded | send to a notify queue, retry when full, panic after 20000 retries or when closed |
| sockets | `src/tcp.rs`, `udp.rs`, `unix.rs` | a `mio` socket | `try_*`, then `block_on`, in a loop |

### How they interact

* A thread runs either its event loop or one coroutine. A coroutine gives the
  thread back when it yields, blocks or ends; `after_resume` then registers its
  event sources, or puts it back on the `ready` queue, and starts its children.
* Threads talk through the notify queues only: `Migration` (a coroutine moves),
  `ChannelMsg` (a sender found the token of a parked receiver), `Shutdown`,
  `Terminate` and `PropagatePanic`.
* `coroutines_num` counts coroutines in the whole instance. Whoever takes it to
  zero tells every thread to end.
* A `JoinHandle` is the receiver of a channel whose sender is in the coroutine.
  Its token therefore addresses a coroutine on one thread and is used by another.
* Senders need no coroutine: any OS thread may hold one.

### What is hard here, and what makes each part correct

* **Channels.** A send is push, `fetch_add`, then maybe a notification; a
  receive is pop, `fetch_sub`; parking reads the counter. None of this is
  atomic, and the counter may run ahead of or behind the queue, even below zero.
  Correct means: first in, first out; disconnected only when empty and without
  senders; nobody parked on a channel that has something for them.
* **Threads and coroutines.** Five messages and user code race on every thread,
  and tokens outlive the coroutines they name. Correct means: a coroutine that
  can run is owned exactly once; the count reaches zero only when nobody is left;
  after a shutdown nothing is resumed but to be killed; the instance ends.
* **Scheduling.** Thread ids are given out by a race. Correct means: migration
  targets exist, new coroutines are spread over all threads, nobody starves.
* **Event sources and timers.** Events come in batches and are delivered to
  coroutines that may have moved on; handles and ids outlive the wait they were
  made for. Correct means: mio has the registrations and timeouts of the blocked
  coroutines and no others, a wait on a timer ends, `select!` runs the arm of the
  source that became ready.
* **Sockets.** mio is edge-triggered, a wake-up may be meant for another operation
  or the previous owner of the slab entry, and `connect` takes any wake-up for the
  connection. Correct means: a token leads back to who waits; what can be done is
  done; a refusal is reported; an event never panics the loop.
* **Notify queues.** They are bounded, and a sender that finds one full spins with
  the channel's lock held, which the event loop may need before it can empty the
  queue. Correct means: a full queue delays a wake-up but does not lose it, and
  nobody spins for ever.
* **Locks.** A guard lives on a coroutine's stack across yields and sleeps. Correct
  means: a waiter does not keep the holder from running, the lock comes free however
  the holder ends, and whoever gets it after a panic is told.
* **`offload`.** A closure borrows from a stack that may be unwound at any wait.
  Correct means: the thread never outlives the frame, the event loop goes on
  meanwhile, the call returns.

`PROJECT.json` lists these hazards at the lines where they bite.

## 2. The modules

| Module | What it is |
|---|---|
| `FifoChannel` | abstract specification: what a channel promises its users |
| `Channel` | `sync/mpsc.rs`, one action per memory operation |
| `ChannelProof` | theorems about `Channel`, checked by TLAPS; so are the other `...Proof` modules |
| `Instance` | abstract specification: what an instance promises (spawn, end, join, return of `start`) |
| `Runtime` | a whole instance: threads, coroutines, controls, scheduler, join, shutdown, panics |
| `RuntimeProof` | theorems about `Runtime`: the count, thread ids, the end of an instance, `Instance` |
| `RuntimeControlProof` | extends `RuntimeProof`: who owns a coroutine, which thread it is on, what wakes a joiner, who is told to end |
| `EventSource` | waiting on one event loop: `block_on`, `select!`, timers, delivery of events |
| `EventSourceProof` | theorems about `EventSource` |
| `Socket` | blocking I/O on one event loop: interests, readiness, tokens, slab entries |
| `SocketProof` | theorems about `Socket` |
| `NotifyQueue` | `sender_retry` on a bounded notify queue, under the lock of a channel |
| `NotifyQueueProof` | theorems about `NotifyQueue` |
| `YieldLock` | `Mutex` and `RwLock`, inside and outside of coroutines |
| `YieldLockProof` | theorems about `YieldLock` |
| `Offload` | `offload`: a scoped thread, the coroutine that waits for it, and a shutdown |
| `OffloadProof` | theorems about `Offload` |
| `MC...` | instances for TLC: model values, symmetry, the lists selected on |

The models meet at `Coroutine::unblock`. `Runtime` treats all waits alike (a blocked
coroutine may be woken at any time); `EventSource` and `Socket` look at what one
event loop does to make that happen, the first at what a wait leaves behind in ids
and timeouts, the second at readiness, interests and tokens; `Channel` looks at what
a sender on another thread does, and `NotifyQueue` at the last step of it, which
`Channel` takes to succeed. `YieldLock` and `Offload` are composed with short forms of `Runtime`
(one coroutine runs at a time, yields go to the end of a queue, a shutdown kills) and
`Offload` of `Channel` (one message at a time, with the steps of `Channel`).

### Channel

| Variable | Code |
|---|---|
| `queue` | the `std::sync::mpsc` queue; a message is named by its sender |
| `counter` | `SenderShared::counter` = `ReceiverCore::counter`, modulo `CounterMod` |
| `token` | `ChannelShared::token.is_some()` |
| `inbox` | `ChannelMsg` messages queued at the receiver's event loop |
| `spc`, `rpc` | program counters of the senders and of the receiver |
| `sent`, `received`, `native` | bound and history |

`Send`, `FetchAdd` and `MaybeNotify` are the three steps of `send()`; the last two
are also the two steps of `SenderShared::drop`, which `DropArc` starts when the
last handle gives up its `Arc`. `DropStd` follows: fields are dropped in order, so
the std sender goes after the shared part. `TryRecvOk`/`FetchSub`, `TryRecvEmpty`
and `TryRecvDisconnected` are `try_recv()`; `Register` is what `block_on` leads to
once the coroutine has jumped out; `Wake` and `IgnoreEvent` are the event loop
handling a `ChannelMsg`. `RecvNative` is `recv()` outside of a coroutine, which
does not touch the counter, `KillReceiver` the death of a parked coroutine, which
leaves its token behind.

All accesses to the token are made under the spin lock, and inside a critical
section the only unlocked variable read is the counter; a critical section is
therefore one step. The atomics are `SeqCst`, so the steps interleave.

The queue bound, `Bound`, is at least 1; `channel()` is a bound that is never
reached. `CounterMod` stands for 2^64. `WidthAssumption` only asks that it
is large enough to tell the outstanding messages apart, so that running below
zero is visible while running all the way round is not possible.

### Runtime

An action is what one thread does between two accesses to shared state (notify
queues, the count, `mioco_started`, the scheduler's `thread_num`). `phase[t]` says
where thread `t` is and `cur[t]` which coroutine runs on it. The queues
`children`, `spawned`, `ready`, `delayed` and `Migration` messages are all the
places where a `CoroutineControl` (or the `Rc` it is about to be made from) can
be; `home` is the slab a coroutine is in.

* start-up: `SpawnThread`, `StartMain`, `StartOther`;
* `deliver_to_scheduler` with `FifoSchedulerThread::spawned` and `ready`:
  `SpawnedResume`, `SpawnedMigrate`, `ReadyDelay`, `ReadyResume`, `Delivered`;
  `FifoSchedulerThread::tick`: `Tick`, `TickResume`, `TickDone`;
* user code, free to do anything while it runs: `Spawn`, `Yield`, `Block`,
  `Join`/`JoinReturn`, `CallShutdown`, `Finish` (return or panic), `ExitSend`;
* callbacks: `Event` (any blocked coroutine may be woken at any time: real,
  spurious and misaddressed events alike), `OnChannelMsg`, `OnMigration`,
  `OnShutdown` with `KillNext`/`KillDone`, `OnTerminate`/`Exit`,
  `OnPropagatePanic`/`Unwind`;
* broadcasts: `todo[t]` holds the sends left, `SendNext` does one of them.
  A send to a loop that is closed panics. In `ExitSend` and in the broadcast of
  `Terminate` this is on the stack of a coroutine that has left its `catch_unwind`:
  there is nothing to unwind to, and the model takes it that the process aborts
  (phase `aborted`, after which nothing happens any more). In `shutdown()` it is user code that
  panics (`ShutdownPanics`), and the coroutine ends like any other that panics.
  A migration to a thread that does not exist unwinds the thread that tries.

`Starts` is the number of earlier `start()` calls on the same `Mioco`: the scheduler's
thread counter lives in the `Config` and goes on from there. The runs have 0.

`ImplementsInstance` maps an instance to `Instance`: born is what has been
spawned, a coroutine has ended when it is `Finished`, `joining` is what `join()` waits
for, and `start()` has returned when the loop it runs itself has ended and all threads
are joined (`Returned`).

`Finish` and `ExitSend` are two actions with the broadcast of `Terminate` in
between, in the order of the code: out of the slab, `coroutines_dec`, and only
then the exit status and the drop of `exit_sender`. The exit channel is `Channel`
in short: the status is there or it is not, and whoever is parked on it is
notified. What this leaves out, the interleavings within a send, is what `Channel`
covers.

### EventSource

Each coroutine has a timer and some sockets (`Io`). `Select` and `Read` begin an
operation, with or without a `set_timeout`; `SelectWait` and `BlockOn` push the
sources, jump out and register (`Block`, that is `block_on`/`select_add` with
`after_resume` and `register_all`). A timer that is due wakes its coroutine on the spot
(`SelfWake`), after which `deregister_all` calls `clear_timeout` with the handle
that is left of an earlier wait. `SelectReturns` is the return of `select_wait`, whose
copy of the event is kept in `ret`. `Arm` compares one arm of `select!` with it, the
one at place `arm`; the code of an arm (`ArmCode`) may read sources, those of the
`select!` included, before the next arm is compared. `Poll` takes a batch of events,
each with the id of its token and, as history, the source it comes from (`None` once its
coroutine has gone on to another wait, `Outdate`); `Deliver` hands out
one of them, `Fire` one timeout, after the batch. Time passes
between any two steps, in particular between `try_read` and `register`.

mio is external. Of its timer the model assumes that a timeout is known by slot and
tick, that delays are rounded up to ticks (as the doc comment of `sleep` says), and
that a slot is used again once it is free; which free slot is left open. `TickLen`
is the number of clock units in a tick, so that different deadlines share a tick.

`ran` is a history of the arms that the current `select!` has run.
`running`, `ready` and the guard `Idle` keep the order of one thread: a coroutine
runs until it blocks, then those on the ready queue, then the event loop.

### Socket

Every coroutine owns a socket `rx` it reads or accepts from and a `tx` it connects and
writes to: a stream, or (`pipe`) the write end of a pipe. `read`, `accept`, UDP `recv`
and `read_recv_fd` are one loop in the code, try, `block_on`, try again, and one operation here
(`Recv`/`TryRecv`); so are `write`, UDP `send` and `write_send_fd` (`Send`/`TrySend`).
`Connect`/`Connected` are `connect` and `connect_stream`: they block once and then ask
`take_socket_error`. `Select`/`Selected` wait on both sockets. `Block` is `block_on` with
`register_all`: place in `blocked_on`, token, interest. `Finish` frees the slab entry and
`Spawn` may give it to a new coroutine while events of the old one are still in the
batch. `Deliver` is `Handler::ready` with `CoroutineSlabHandle::event`: it decodes the
token and resumes whoever is blocked there. An event that is neither readable, writable nor a
hang-up makes the code panic (`panicked`). `rx` never fails: to its operation an `Err` of
`try_read` is what data is, a result to return with, and no property is about
which of the two it was.

Tokens are numbers: `token_from_ids` shifts the coroutine's id by `Width`, which is 1024
in the program and 2 in the run, just enough for the two sources.

External: the kernel (`Arrive`, `Established`, `Drained`, `PeerShutdown`, `PeerGone`, and
what epoll says in each state, `Readiness`) and mio's poll (`edges`, `Kinds`, `Poll`). The
facts used are those of Linux: registration reports what is ready already, later
changes are reported once, errors and hang-ups are reported unasked, a refused or reset
stream reports everything, and a pipe without a reader reports an error, and room
only if there is any.

### NotifyQueue

Receivers are coroutines of one event loop, each with a channel; senders are native
threads and the receivers themselves. `Send` is push and `fetch_add` in one (their order
is what `Channel` is about), `Lock` takes the spin lock and looks at the token,
`Accepted` and `Full` are one round of `sender_retry`. `Register` and `Deregister` are
steps of the event loop that wait for the same lock. `MaxRetry` stands for 20000. After
that many the sender panics: its thread or coroutine ends, the guard is dropped, and the
wake-up it had to send is lost (`unsent`).

### YieldLock

`Lock`, `Read` and `Write` are calls; `LockInMioco`, `ReadInMioco`, `WriteInMioco` one round of
the loop in a coroutine (`Retries` is its condition, `Returned` what a poisoned lock
becomes); `LockOutside` is std's `lock()`; `TryOnce` is `try_lock`. With a guard a user may
go on, yield, sleep, panic or give it back. `Kill` unwinds a coroutine and drops its
guard. The std lock is external: exclusive or shared, poisoned by a
panic with an exclusive guard.

### Offload

`Call` starts the scoped thread. `rx.recv()` is `TryRecvOk` and `FetchSub`, or `TryRecvEmpty` and
then `Register`, which looks at the counter again under the lock. `Return` is
`join.join()`, which waits natively. `ClosureEnds`, `Push`, `FetchAdd` and `Notify` are the
steps of the thread, the last one only if the counter was zero; a closure may also panic,
and then nothing is sent, or never end. `Kill` sends
a coroutine in `offload` through `unwind`, where the drop of its `JoinGuard` waits for the
thread (`Unwound`). `thread_scoped` is external; its drop is taken to return after a closure
that has panicked. Were it to panic in turn, the process would abort.

## 3. The runs

| Run | Instance | Result |
|---|---|---|
| `channel` | `sync_channel(2)`, 2 handles of 2 messages, 1 message outside, fair | `TypeOK`, `CounterBalance`, `NoLostWakeup`, `ResumedWithoutToken` hold; implements `FifoChannel`, liveness included; a receiver of an empty channel parks (`ParksWhenEmpty`) |
| `runtime_safety` | 2 threads, 3 coroutines, `catch_panics` off | `MigrateTargetsExist`, `TerminateMeansDone`, `NothingRunsAfterShutdown` hold |
| `runtime_live` | 2 threads, 2 coroutines, `catch_panics` on, fair | `JoinNotified`, `OneControl`, `EveryoneTold`, `AbortsForKilledJoiner` hold; implements `Instance`; `ShutdownEnds`, `LastOneEnds`, `ReadyRuns`, `JoinWakes` hold; no deadlock |
| `runtime_panic` | 2 threads, `catch_panics` off, fair | `PanicIsGlobal` violated |
| `closed_loop_send` | 2 threads, 2 coroutines | `NoSendToClosedLoop` violated |
| `select_safety` | 2 coroutines with two sockets and a timer each | `RegisteredIffBlocked`, `NoTimeoutLeaks`, `RightArm` hold |
| `sleep_live` | 2 coroutines with a socket and a timer each, no `select!`, 3 operations each, fair | `SleepersArmed`, `SleepEnds` hold; no deadlock |
| `timeout_lost` | the same with `select!(a, timer)`, fair | `SleepEnds` violated |
| `socket_live` | 2 slab entries, 3 operations, one entry used again, streams or pipes, fair | `TokensResolve`, `EventsKnown`, `NoLostEvent`, `OperationsEnd`, `RefusalReported` hold; no deadlock |
| `notify_queue` | 2 receivers, 2 native senders, a queue of 1, 1 retry, 5 sends, fair | `WakeupDelayedOnly`, `NoSelfDeadlock`, `SpinEnds` hold |
| `lock_live` | 2 coroutines on a thread, 1 native thread, fair | `GuardsMatchLock`, `PoisonReported`, `HolderGoesOn`, `WaitEnds` hold; no deadlock |
| `offload_live` | 2 coroutines, 2 operations each, fair | `ThreadMatchesCall`, `WakeupUnderway`, `OthersRun`, `OffloadReturns`, `ShutdownWaitsForClosures` hold |

`TypeOK` is an invariant of the run `channel`, and in the other modules a theorem
(`TypeCorrect`) only; the other invariants rest on it.

### What the violated ones show

* `closed_loop_send`: a killed joiner leaves its token in the exit channel of the
  coroutine it was joining. That coroutine, the last one, announces the end and
  only then notifies the token, perhaps after the loop it belongs to has closed.
  `sender_retry` panics, on a stack with nothing to unwind to, and the process aborts.
  Needs a `join` and a `shutdown()` at the same time. `AbortsForKilledJoiner` says that it is the
  only way to meet a closed loop. `ShutdownEnds` and `LastOneEnds` say of everything
  else that all threads are told and `start()` returns.
* `runtime_panic`: "If false any panic inside coroutine will panic the whole mioco
  instance" (`set_catch_panics`). `PropagatePanic` goes to the thread that the coroutine ran on.
  With one thread that is the instance; with two the panic of a coroutine that was
  migrated ends the other thread only. The thread of `start()` goes on without it, and
  waits for ever if coroutines were left there.
* `timeout_lost`: a coroutine selects on a socket and its timer, the socket wins, and
  it then waits on the socket alone. Another one goes to sleep and gets the slot
  that has become free, with the same tick. The first waits on its timer again,
  now past its deadline: the timer reports ready without a new timeout, and on
  the way out clears slot and tick of the old handle. The other never wakes up.

### What the properties leave room for

Some properties are stated with the exception that the code makes. Each exception
is behaviour that the models have, and that shows up when it is taken out of
the property:

* `ParksWhenEmpty` without `native = 0`: `recv()` outside of a coroutine does not
  decrement the counter. A receiver moved into a coroutine afterwards is reported
  ready on every registration although the channel is empty, and goes round the
  ready queue for ever ("Will block coroutine if no elements are available").
* `ShutdownEnds`, `LastOneEnds` and `EveryoneTold` without `Aborted`: see `closed_loop_send`.
* `MigrateTargetsExist` with `Starts = 1`: after a second `start()` coroutines are
  migrated to threads that do not exist.
* `EventsKnown` without the pipe: a coroutine waits to write to a full pipe, the
  reader is closed, the only event is an error, and `(false, false) => panic!()`
  takes the event loop down. The coroutine may also have ended in the meantime, and
  the next one in its slab entry is the one that the event finds blocked.
* `RefusalReported` says nothing of `connect()` alone: woken by an event of another
  operation it returns `Ok` while the connection is still pending. The refusal is
  then the result of the next `write`.
* `RightArm` is about events of the wait that `select!` returns from. The second event of a
  batch may meet its coroutine in the next `select!`, with the place that its source had in
  another list. Then the arm of another source runs, or none; with `Outdate` taken out TLC
  finds this. The code of an arm cannot tell either, unless it only tries.
* `RightArm` lets an arm run after that of the first source if its own source has id 0:
  when the code of the first arm waits for the source of a later arm, `block_on` gives
  that source id 0, which is also the id of the event that `select!` compares, so the
  later arm runs as well.
* `WakeupDelayedOnly` without `unsent`: a sender that panics on a full queue leaves the
  receiver parked on a channel with a message. A coroutine that sends to a receiver
  on its own loop while that loop's queue is full always ends so, since it keeps the loop from
  emptying the queue.
* `OffloadReturns` is about closures that return: one that panics leaves its
  coroutine waiting for a message that nobody sends, until a shutdown.

One more thing can be read off the code. Scheduler ids follow the order in which
threads arrive while migration targets are thread indices, so a thread may count
another's turn as its own and "round-robin" is uneven.

### Bounds, and why they are enough

For the invariants, `NothingRunsAfterShutdown` and `ImplementsInstance` the bounds of the
runs do not matter: they are proved for every size (section 4). For the temporal
properties they do.

* Channel: with two handles the counter reaches minus two (two pushes popped
  and subtracted before either is counted), and the last drop races a send of the
  other handle. Two messages per handle give a sender that notifies, goes on and
  notifies again while the first `ChannelMsg` is still queued, and a queue that
  fills up.
* Runtime: two threads are what migration, a join across threads, a `Shutdown`
  seen late and the race for ids need. The end of an instance depends on the order in
  which threads are told, so three were checked as well: all properties of `runtime_live` with
  `MaxOps` = 0 (36 thousand states), and `EveryoneTold`, `AbortsForKilledJoiner` and the invariant they
  are proved by with `MaxOps` = 1 (228 thousand). For any number of threads, the two theorems
  `EveryThreadIsTold` and `AbortsOnlyForKilledJoiners` say that no thread is left out.
  `runtime_safety` has three coroutines: two that end while a third is in flight.
  `MaxOps` = 1 yield or block per coroutine, on top of joins and the yields inside
  `shutdown()`, which are not bounded.
* EventSource: two coroutines, two operations each, reads inside of an arm included:
  a handle left behind by the first operation is used in the second, after the
  other coroutine has taken the slot. With two sockets a coroutine has two events in a
  batch, the second of which meets it in its next `select!` with another list. In `timeout_lost` the
  stale handle is used in the third operation. All operations are bounded, so nobody stays
  away from its timer by going on for ever. In `sleep_live`, without `select!`, it takes a
  third operation before a handle that is out of date is used again, with delays of
  at most one clock unit; two clock units in one tick let a deadline
  pass before its tick comes.
* Socket: two coroutines make two events of different coroutines in a batch, and
  `select` two of the same. Three operations and one `Spawn` let a coroutine end with
  events in the batch, a new one take its slab entry, and block there. One bit for
  the source is the narrowest token that fits, so an overlap would show.
* NotifyQueue: a queue of one message is full after one send; two receivers let the
  event loop be in one while another is to be woken, and with a native sender per
  receiver both locks are held by senders that spin.
* YieldLock: a holder and a waiter on one thread, which is where a waiter could keep
  the holder from running, and a native thread that takes the lock between them. Two operations
  each let a user take the lock, sleep or yield with it, and another come back to it.
* Offload: two operations per coroutine let an offload follow another on the same
  `sync_channel`; the second coroutine is the one that must go on.

### Deadlock and fairness

Some runs let the system stop. In `channel` and `notify_queue` nobody has to send; in
`select_safety` and `timeout_lost` a timeout may get lost; in `offload_live` a closure may panic
or never end; in `runtime_safety` and `runtime_panic` a thread that panics leaves coroutines behind
and the others wait for the count. In all others deadlock is checked: a state from which
nothing happens is one where every thread, or every coroutine, has ended (`Done`), where the
process has aborted or, in `socket_live`, where the event loop has panicked.

`Channel`: a send or a drop under way finishes (weak fairness per sender: threads
run), and the receiver goes on receiving. Nobody is forced to send, clone, drop
or kill.

`Runtime`: weak fairness of `Step(t)` says that threads run, and that user code
goes on until it blocks or ends. `Notify(t)` and `Tick(t)` are strongly fair: they
are disabled whenever a coroutine runs, but each round of `EventLoop::run` handles
the messages that are queued and then calls `tick`, and with delayed coroutines
the scheduler asks for a timeout of 1000 ms, so there is a next round. `Event` has no
fairness: a socket need not become readable, and a coroutine blocked on it may
stay blocked.

`EventSource`: the clock advances and the thread runs (weak fairness); `Fire` is
strongly fair because every round of the event loop handles the timeouts that are
due after its events. `Poll` has no fairness.

`Socket`: the event-loop thread runs and polls (weak fairness of `Step`). No peer has to
do anything: `OperationsEnd` is about operations that can be done.

`NotifyQueue`: the event loop and every native thread run, and one that tries for a
spin lock again and again gets it if it is free again and again. This is strong
fairness, and of the spin lock it is what a scheduler with preemption gives with
probability one rather than by a queue; nobody has to send.

`YieldLock`: event-loop threads and native threads run, a guard is given back in the end
(users have a bounded number of operations), and a sleep ends (strong fairness of `Wake`,
as `sleep_live` shows). Nobody has to shut down. `WaitEnds` is not a claim of
fairness between waiters: it rests on everybody else being done in the end.

`Offload`: the event loop runs, handles messages and ticks in every round (strong
fairness of `OnChannelMsg` and `Resume`, as in `Runtime`); a thread that has left its closure
finishes its send. A closure need not end.

## 4. The proofs

Every safety property that a passing run checks is a theorem for every value of the
constants: any finite set of coroutines, senders or users, any number of threads, any bound,
capacity, width or number of operations. `PROJECT.json` lists the theorems with the
property that each one states.

| Module | Theorems |
|---|---|
| `ChannelProof` | `ChannelType`, `CounterNeverDrifts`, `ChannelNoLostWakeup`, `ChannelResumedWithoutToken`; `ChannelIsFifo`: `Spec => Abs!Safety`, the refinement of `FifoChannel` without its fairness |
| `RuntimeProof` | `TypeCorrect`, `TerminateIsLast`, `MigrationsArrive`, `ShutdownOnlyKills`; `RuntimeImplementsInstance`: the refinement of `Instance` |
| `RuntimeControlProof` | `ControlsAreUnique`, `RunsAtHome`, `QueuesAreServed`, `JoinersAreNotified`, `EveryThreadIsTold`, `AbortsOnlyForKilledJoiners` |
| `EventSourceProof` | `TypeCorrect`, `RegistrationIsExact`, `TimeoutsAreCleared`, `EventRunsItsArm`, `SleepersKeepTimeouts` |
| `SocketProof` | `TypeCorrect`, `TokensLeadBack`, `StreamsNeverPanic`, `EventsAreNotLost` |
| `NotifyQueueProof` | `TypeCorrect`, `WakeupsAreDelayedOnly`, `SpinLockIsReleased`, `LoopNeverWaitsForItself` |
| `YieldLockProof` | `TypeCorrect`, `GuardsMatch`, `PoisonIsReported` |
| `OffloadProof` | `TypeCorrect`, `OffloadIsScoped`, `OffloadersAreWoken` |

For most liveness properties the theorems have a safety half: a theorem that says that
what must happen is on its way, so that fairness is all that is missing.

| Liveness (TLC) | Safety half (theorem) |
|---|---|
| `ImplementsFifo` | `ChannelIsFifo`, `ChannelNoLostWakeup` |
| `ReadyRuns` | `ControlsAreUnique`, `QueuesAreServed` |
| `JoinWakes` | `JoinersAreNotified` |
| `ShutdownEnds`, `LastOneEnds` | `EveryThreadIsTold`, `AbortsOnlyForKilledJoiners` |
| `SleepEnds` | `SleepersKeepTimeouts` |
| `OperationsEnd` | `EventsAreNotLost` |
| `SpinEnds` | `SpinLockIsReleased`, `LoopNeverWaitsForItself` |
| `HolderGoesOn`, `WaitEnds` | `GuardsMatch` |
| `OffloadReturns` | `OffloadersAreWoken` |

### What is assumed

The assumptions on the constants are named, in the module that declares them, and TLC
evaluates them in the runs. They say that sets are finite, that bounds are
numbers, that `None` is not one of the values it is told apart from, and beyond that:

* `Channel`: `WidthAssumption`, the counter can tell the outstanding messages apart;
* `Socket`: `WidthAssumption`, the place of a source fits into its part of the token;
* `EventSource`: `SelectsAssumption`, a `select!` has a source at least and none twice;
  `ClockAssumption`, the clock stops at a tick, so that every timeout can fire;
* `NotifyQueue` and `YieldLock`: coroutines and native threads are different.

`None` is also told apart from the token of an exit channel (`TokenAssumption` in
`Runtime`).

Some theorems have hypotheses, because the code does not keep the promise without
them:

* `Starts = 0` in `MigrationsArrive`: the thread counter of the scheduler lives in
  `Config` and goes on in the second `start()`, which then migrates to threads that
  do not exist.
* `CatchPanics` and `Starts = 0` in `RuntimeImplementsInstance` and in the theorems of
  `RuntimeControlProof`: a thread that panics, by itself or by a send to a thread that does not exist, leaves
  its coroutines behind. They never end, `start()` returns all the same, and
  controls in its inbox are lost.
* `OneSourceSelects` in `SleepersKeepTimeouts`: every `select!` is for one source. With
  two, the run `timeout_lost` shows a timeout that gets lost.

`TypeCorrect`, `TerminateIsLast` and `ShutdownOnlyKills` hold for all flags and starts.

### Along which argument

In each module `IInv` is the inductive invariant: `InitIInv` and `StepIInv` (`InvInit` and
`InvStep` in `ChannelProof`) show that it holds at first and that every step keeps it, and
`InvariantHolds` (`ChannelInvariant`) puts them together. TLC checked each one on the runs before
it was proved.

**Channel.** The counter is related to the queue by `Outstanding`, an integer
that may be negative: what is in the queue, plus what has been popped and not yet
subtracted, plus what was received outside, plus one for the last drop, minus the
senders that have pushed and not yet counted. Each action's effect on it is
a lemma (`SendKeepsOutstanding`, `FetchAddCounts`, ...), and `WrapInc`,
`WrapDec` and `WrapZero` carry it over to the counter that wraps. `NoLostWakeup` is not
inductive. `IInv` adds

* `TokenInv`: the token is published exactly while the receiver is parked (or was
  killed there). Without it a notifier could find no token.
* `SoleDrop`: `SenderShared::drop` runs at most once, when nobody holds the `Arc`.
  Without it `Outstanding` would not know if the drop is counted.
* `ParkedInv`: while the receiver is parked, `Outstanding` is not negative (it
  parked at zero and only senders move it since), and once it is positive the
  sender that moved it from zero is about to notify or has done so.
* `ClosedInv`: a failed `recv()` means that the std senders are gone; for the
  refinement.

**Runtime.** `TerminateMeansDone` is about `Terminate` messages that have arrived; whoever sends
them does so one thread at a time, with others running in between. `IInv` has

* `Counted`: `num` is the number of live coroutines. Its step (`CountedStep`) rests on
  `NextChanges`: a step gives birth to one coroutine, ends one, or does neither.
* `RefersToBorn`: no queue, slab, message or handle names a coroutine before it is
  spawned. Otherwise a new coroutine could be alive in two places from the start.
* `TerminatingMeansDone`: as long as a `Terminate` is under way, in a broadcast or an inbox, the
  count is zero; with `Counted` nobody is there to spawn, so it stays zero (`DoneStays`).
* `Starting`: the count is also zero before the first coroutine; a thread that has not
  started has nothing to send.
* `IdsCounted`: the scheduler's counter and the threads that are still to come add up to
  `(Starts + 1) * N`, so that on the first start each id is a thread.
* `ShutDown`: a thread that shuts down runs nobody but those it kills and, once it is done
  with that, has nobody left in its slab who could be woken. This is what
  `NothingRunsAfterShutdown` needs in the step `Event`.
* `NoPanics`: with `CatchPanics` on the first start, no thread panics, and the process aborts only
  after the count has reached zero (the send of `closed_loop_send`). For the refinement: `start()`
  returns when all loops have ended, and then everybody must have ended.
* `ExitedEnded`, `TickBound`: an exit status comes after the end; `tick` does not pop more
  than there is.

`RuntimeControlProof` proves `OneControl`, which counts the controls of a coroutine over
five kinds of queues and the running threads. The invariant does not count. `Placed`
says of a coroutine that has not been killed: if it is `Ready`, exactly one queue or thread holds it,
and holds it once; if it is `Blocked`, none does; and if it is in no slab, a `Migration`
carries it. `Stays`, `Arrives`, `Moved`, `Transfer` and the lemmas about each queue (`ReadyPushed`,
`InboxPopped`, ...) are the moves a control can make, and each action is one or
two of them. `PlacesCount` derives the count. A killed coroutine is left out, as in
`OneControl`: `kill` jumps in without looking for the control, which may still be in
a queue.

`RunsAtHome`, `QueuesAreServed` and `JoinersAreNotified` are parts of `Kept`, which is kept by every
step from a state that satisfies `IInv`. `HInv` is about slabs and threads. What it wants
is `AtHome` (a thread queues and runs who is in its slab), `InFlight` (what migrates is in
no slab) and `CurOnce` (no two threads run the same coroutine). `Placed` gives `CurOnce` for
the living, but a shutdown jumps into coroutines whose control is elsewhere, so the dead need
their own argument: `KilledRuns` and `KilledChildless` (who is killed runs until its end and leaves no
children), `DeadGone` (controls of the dead are left only in the delayed queue of a thread
that is shutting down, where nobody looks at them) and `ChildrenHere` (children are in the slab of
the thread that runs their parent). `QueuesServed` says where in its loop a thread has
nothing in its queues. `JoinNotified` needs `WaitsForChild` (only the parent joins, so nobody
else replaces the token) and `AtHome`: a `ChannelMsg` is sent to the thread in the token, and a
joiner that had moved in the meantime would not be found there. It has not, as only
a coroutine that was just spawned migrates.

`EveryThreadIsTold` and `AbortsOnlyForKilledJoiners` are proved together, by `EndInv`, since a broadcast is
complete only if none of its sends meets a closed loop. `SendersRun` and `Broadcasts` say who sends: a coroutine,
and nothing but `Shutdown` or `Terminate`. `ToldOnce` is the core: for each thread there is one `Terminate`, in
one list or with the thread, so a thread that is still in a list has not been told and has its loop; and a
thread that broadcasts runs a coroutine and does not close its own loop before it is through.
`ShutdownSenders` and `ShutdownFirst` keep `shutdown()` out of the way: whoever broadcasts `Shutdown` is alive,
so the count is not zero, no loop has closed, and no `Shutdown` comes after a `Terminate`. `TokensParked` is
about the last send, the one to a joiner: who has left a token in an exit channel is parked there or was
killed. A living joiner keeps the count above zero and its loop open, so a send that fails
was meant for a killed one.

**EventSource.** `RegisteredIffBlocked` and `NoTimeoutLeaks` need `AwakeUnblocked`: who runs or is on
the ready queue is blocked on nothing, so a second event of the same batch finds
nothing to unblock. `RightArm` rests on `ArmIds` (until an arm has run, every arm has the id of its place;
later it has that or 0), `ArmOrder` (the arms that have run are those behind) and a second
invariant, `RInv`: `FreshEvents` and `TimeoutIds` say that an event or timeout which is not out of date
has the id of its source's place in the list that its coroutine waits on, and `EventInv` that this
is still so of the event that was delivered, which `select!` then compares with its arms. Together they say
that no arm before the right one can match, and that the right one does.

`SleepersKeepTimeouts` has an invariant of its own, `TInv`, under its hypothesis. A handle that is out
of date names a slot and a tick. The slot may be in use again, but the tick has passed
(`HandlesKnown`): the wait it was made for was for the timer alone (`SingleWait`), so only the
timeout itself can have ended it. A new timeout is for a tick that has not passed
(`TickNotBefore`), so the two differ and `clear_timeout` does nothing. With two sources in
a `select!` a wait ends early, and this is the step that fails.

**Socket.** `TokenRoundTrip` is arithmetic: `token_to_ids` inverts `token_from_ids` if the place of the source
is below `Width`. `EventsKnown` needs that every event of a stream in a batch is readable,
writable or a hang-up (`StreamsWake`), which follows from what epoll reports for each
state of a stream and from what was registered (`EdgesRegistered`), also when the
coroutine that registered is gone and `Deliver` meets its successor.

`NoLostEvent` has a second invariant, `WInv`. Its core is `EventUnderway`: a source that somebody is
blocked on and for which epoll has something to say has an edge that was not reported yet, or an event in
the batch for the coroutine that waits. It is stated of sources and not of operations, and
connected to these by `RegisteredWaits` and `WaitsForOp` (what a blocked coroutine has registered is
what its operation needs) and `ConnectedHasRoom` (a connection comes up with room to write,
which is how `connect` hears of it).

**NotifyQueue.** A notification is lost if a sender finds no token, so `TokenWhileBlocked`;
it is not lost while a sender retries, so `SpinLockHeld` and `SendInProgress` say who that
is and that nobody else can get at the token meanwhile. `NoSelfDeadlock` needs `KeepsTheLoop`: a
coroutine that has a lock or is on the way to one has not jumped out, so no other coroutine of its
loop runs into the lock.

**YieldLock.** A guard is dropped by who holds it: it runs, or is killed while
it waits or sleeps. `RunningApart` and `QueuedApart` say that a coroutine is
in one of these places only.

**Offload.** `ChannelMatchesThread` relates the channel to the thread: a message is there
from the push until it is taken, and the counter follows at the count and the
`fetch_sub`, below zero in between if the pop comes first. Without it a message of an earlier
call could end a later one, whose closure still runs. `WakeupUnderway` needs in addition that a parked
coroutine is registered (`ParkedRegistered`) and that the notification is queued once the send is over
(`Delivered`); that a coroutine does not park after the count follows from `ChannelMatchesThread`, as
`Register` then finds a counter that is not zero.

### Only model-checked

Fairness and `ENABLED` are outside of what TLAPS 1.4.5 proves. So liveness stays with TLC:
`ImplementsFifo` as a whole (its safety part is `ChannelIsFifo`), `ParksWhenEmpty`, `ShutdownEnds`, `LastOneEnds`,
`ReadyRuns`, `JoinWakes`, `SleepEnds`, `OperationsEnd`, `RefusalReported`, `SpinEnds`, `HolderGoesOn`,
`WaitEnds`, `OthersRun`, `OffloadReturns` and `ShutdownWaitsForClosures`. The absence of deadlock is `ENABLED` of the
next step, and is checked in the runs too.

## 5. Not modelled

* destructors that block or spawn while a killed coroutine unwinds: `kill` has no
  `after_resume`, so what they ask for is lost. Listed as a hazard;
* `sync_channel(0)`: a push needs a receiver inside of std's `recv()`;
* broadcasts, migrations and panics sent to a full notify queue: `NotifyQueue` has
  channel notifications only;
* a `catch_unwind` of the user's own around `shutdown()`, which would get the panic of a send to
  a closed loop and go on;
* the order of the slab during a shutdown (left open); in `Runtime` slab ids (an event
  for the wrong coroutine is covered by `Event`; `Socket` has them);
* `Migration` messages that die with the inbox of a panicking thread: the
  coroutines in them stay where they are instead of being killed, with
  `catch_panics` off only;
* in `EventSource` and `Socket`: sources that move between coroutines or threads (a timer
  then takes its handle to another event loop), several timers per coroutine, the
  sub-millisecond truncation of a delay; `reregister` and `hup`, which nobody
  calls;
* the scheduler's own timeout and the capacity of mio's timer;
* partial reads and writes, which an operation cannot tell from what arrives right
  after it;
* custom schedulers; user data, socket options and constructors, `thunk`: no control
  of their own.

## 6. Plan

The order of importance has been: channels and the runtime, which carry every other
component, then event sources, timers and sockets, through which every blocking call
goes, then what is built on them; first the models and runs, then the proofs.
What is left:

1. `Runtime` with `catch_panics` off, or after the first `start()`: what remains of `Instance` and
   `OneControl` for the coroutines of the threads that have not panicked.
2. Broadcasts, migrations and panics on a full notify queue, which is `Runtime` over
   `NotifyQueue`.
