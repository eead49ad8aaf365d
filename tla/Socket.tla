------------------------------- MODULE Socket -------------------------------
(***************************************************************************)
(* Sockets on one event loop: read, write, accept and connect of           *)
(* MioAdapter (src/evented.rs), tcp, udp and unix; tokens (src/mod.rs),    *)
(* and how an event finds its coroutine (src/thread.rs, src/coroutine.rs). *)
(*                                                                         *)
(* Every coroutine owns a socket "rx" that it reads or accepts from and a  *)
(* socket "tx" that it connects and writes to.  Its slab entry, and with   *)
(* it its part of the token, goes to another coroutine when it ends.  The  *)
(* kernel and mio's edge-triggered poll are external.                      *)
(***************************************************************************)
EXTENDS Integers, Sequences, FiniteSets, Functions

CONSTANTS
  MaxId,      \* size of the slab: coroutines that can exist at a time
  Width,      \* 1 << EVENT_SOURCE_TOKEN_SHIFT
  MaxOps,     \* bound: operations
  MaxSpawns,  \* bound: coroutines spawned by a coroutine
  None

SPECIAL_ID == 0
STARTING_ID == 1

Id == STARTING_ID .. MaxId
Source == {"rx", "tx"}

\* The lists of sources that an operation blocks on.
Waits == [recv |-> {<<"rx">>}, send |-> {<<"tx">>}, connect |-> {<<"tx">>},
          select |-> {<<"rx", "tx">>}]

\* debug_assert!(io_id.as_usize() <= EVENT_SOURCE_TOKEN_MASK)
ASSUME WidthAssumption == Width \in Nat /\ Width >= Cardinality(Source)

ASSUME BoundsAssumption ==
  MaxId \in Nat \ {0} /\ MaxOps \in Nat /\ MaxSpawns \in Nat

ASSUME NoneAssumption ==
  None \notin Id \cup [token : Nat, interest : SUBSET {"in", "out", "hup"}]

VARIABLES
  pipe,       \* every "tx" is the write end of a pipe, otherwise a stream
  data,       \* kernel: there is something to read or accept on "rx"
  conn,       \* kernel: what has become of "tx"
  room,       \* kernel: "tx" takes data
  hup,        \* kernel: the peer of "tx" has shut down its sending side
  registered, \* mio: source -> [token, interest] or None
  edges,      \* mio: the sources with something to report
  batch,      \* mio: [token, kinds] of this poll that are not delivered yet
  blockedOn,  \* Coroutine::blocked_on
  running,    \* TL_CURRENT_COROUTINE, or None
  ready,      \* HandlerShared::spawned
  op,         \* what the coroutine is doing
  pc,         \* where it is, or goes on; "free": no such slab entry
  failed,     \* its last operation returned Err
  ops, spawns,\* how many so far
  panicked    \* Handler::ready has panicked

kernelVars == <<data, conn, room, hup>>
mioVars == <<registered, edges, batch>>
coVars == <<op, pc, failed, ops, spawns>>
\* all but the kernel's and the edges
loopVars == <<pipe, registered, batch, coVars, blockedOn, running, ready, panicked>>
vars == <<pipe, kernelVars, mioVars, coVars, blockedOn, running, ready, panicked>>

-----------------------------------------------------------------------------
(* Tokens and readiness *)

TokenUnshifted(i, id) == i + Width * id

token_from_ids(i, id) == i * Width + id

token_to_ids(t) == [co |-> t \div Width, src |-> t % Width]

IndexOf(s, q) == (CHOOSE n \in DOMAIN q : q[n] = s) - 1

\* What epoll sees on a socket.  A connection that is refused or reset reports
\* everything; the write end of a pipe without a reader only EPOLLERR, and
\* EPOLLOUT while it is not full.
Readiness(i, s) ==
  IF s = "rx"
    THEN IF data[i] THEN {"in"} ELSE {}
    ELSE   (IF conn[i] = "up" /\ room[i] THEN {"out"} ELSE {})
      \cup (IF conn[i] = "up" /\ hup[i] THEN {"hup"} ELSE {})
      \cup (IF conn[i] # "gone" THEN {}
              ELSE IF ~pipe THEN {"in", "out", "hup", "err"}
              ELSE IF room[i] THEN {"out", "err"} ELSE {"err"})

InterestNoWrite(s) == {"hup"} \cup IF s = "rx" THEN {"in"} ELSE {}

\* RcEventSourceTrait::register; peer_hup is never set.
Interest(s) == {"hup"} \cup IF s = "rx" THEN {"in"} ELSE {"out"}

\* epoll reports errors and hang-ups that nobody asked for as well.
Kinds(i, s) == Readiness(i, s) \cap (registered[i][s].interest \cup {"hup", "err"})

Notice(i, s) ==
  edges' = IF registered[i][s] = None THEN edges ELSE edges \cup {<<i, s>>}

-----------------------------------------------------------------------------
\* A pipe and an accepted or a UDP socket are connected, a TcpStream is not yet.
FirstConn == IF pipe THEN {"up"} ELSE {"none", "up"}

Init ==
  /\ pipe \in BOOLEAN
  /\ data = [i \in Id |-> FALSE]
  /\ conn \in [Id -> FirstConn]
  /\ room = [i \in Id |-> FALSE]
  /\ hup = [i \in Id |-> FALSE]
  /\ registered = [i \in Id |-> [s \in Source |-> None]]
  /\ edges = {}
  /\ batch = {}
  /\ blockedOn = [i \in Id |-> <<>>]
  /\ running = None
  /\ ready = [n \in Id |-> n]
  /\ op = [i \in Id |-> "none"]
  /\ pc = [i \in Id |-> "user"]
  /\ failed = [i \in Id |-> FALSE]
  /\ ops = 0
  /\ spawns = 0
  /\ panicked = FALSE

-----------------------------------------------------------------------------
(* The kernel: whatever the peers do.  A read takes all there is and a write  *)
(* fills the buffer: what they leave is an Arrive or a Drained right after.    *)
(* A socket changes during an operation on it: what happened before, the       *)
(* operation cannot tell from what happens before its first try.               *)

InUse(i, s) == op[i] # "none" /\ \E srcs \in Waits[op[i]] : s \in Range(srcs)

Arrive(i) ==
  /\ InUse(i, "rx") /\ ~data[i]
  /\ data' = [data EXCEPT ![i] = TRUE]
  /\ Notice(i, "rx")
  /\ UNCHANGED <<loopVars, conn, room, hup>>

Established(i) ==
  /\ InUse(i, "tx") /\ conn[i] = "pending"
  /\ conn' = [conn EXCEPT ![i] = "up"]
  /\ room' = [room EXCEPT ![i] = TRUE]
  /\ Notice(i, "tx")
  /\ UNCHANGED <<loopVars, data, hup>>

Drained(i) ==
  /\ InUse(i, "tx") /\ conn[i] = "up" /\ ~room[i]
  /\ room' = [room EXCEPT ![i] = TRUE]
  /\ Notice(i, "tx")
  /\ UNCHANGED <<loopVars, data, conn, hup>>

PeerShutdown(i) ==
  /\ InUse(i, "tx") /\ conn[i] = "up" /\ ~pipe /\ ~hup[i]
  /\ hup' = [hup EXCEPT ![i] = TRUE]
  /\ Notice(i, "tx")
  /\ UNCHANGED <<loopVars, data, conn, room>>

\* Refused, reset, or the last reader of the pipe is closed.
PeerGone(i) ==
  /\ InUse(i, "tx") /\ conn[i] \in {"pending", "up"}
  /\ conn' = [conn EXCEPT ![i] = "gone"]
  /\ hup' = [hup EXCEPT ![i] = FALSE]
  /\ room' = [room EXCEPT ![i] = pipe /\ @]
  /\ Notice(i, "tx")
  /\ UNCHANGED <<loopVars, data>>

Peer ==
  \E i \in Id : Arrive(i) \/ Established(i) \/ Drained(i) \/ PeerShutdown(i) \/ PeerGone(i)

-----------------------------------------------------------------------------
(* What a coroutine does while it runs *)

At(i, where) == running = i /\ pc[i] = where

Begin(i, o, where) ==
  /\ At(i, "user")
  /\ ops < MaxOps
  /\ ops' = ops + 1
  /\ op' = [op EXCEPT ![i] = o]
  /\ pc' = [pc EXCEPT ![i] = where]
  /\ failed' = [failed EXCEPT ![i] = FALSE]
  /\ UNCHANGED <<pipe, mioVars, blockedOn, running, ready, spawns, panicked>>

Return(i, err) ==
  /\ op' = [op EXCEPT ![i] = "none"]
  /\ pc' = [pc EXCEPT ![i] = "user"]
  /\ failed' = [failed EXCEPT ![i] = err]
  /\ UNCHANGED <<pipe, mioVars, blockedOn, running, ready, ops, spawns, panicked>>

WouldBlock(i) ==
  /\ pc' = [pc EXCEPT ![i] = "block"]
  /\ UNCHANGED <<pipe, kernelVars, mioVars, blockedOn, running, ready, op, failed, ops,
                 spawns, panicked>>

\* read, accept, UdpSocket::recv, read_recv_fd
Recv(i) == Begin(i, "recv", "try") /\ UNCHANGED kernelVars

\* "rx" has no error of its own: an Err of the try is, like data, something to return with.
TryRecv(i) ==
  /\ At(i, "try") /\ op[i] = "recv"
  /\ \/ /\ data[i]
        /\ data' = [data EXCEPT ![i] = FALSE]
        /\ Return(i, FALSE)
        /\ UNCHANGED <<conn, room, hup>>
     \/ ~data[i] /\ WouldBlock(i)

\* write, UdpSocket::send, write_send_fd
Send(i) == conn[i] # "none" /\ Begin(i, "send", "try") /\ UNCHANGED kernelVars

TrySend(i) ==
  /\ At(i, "try") /\ op[i] = "send"
  /\ \/ /\ conn[i] = "gone"
        /\ Return(i, TRUE)
        /\ UNCHANGED kernelVars
     \/ /\ conn[i] = "up" /\ room[i]
        /\ room' = [room EXCEPT ![i] = FALSE]
        /\ Return(i, FALSE)
        /\ UNCHANGED <<data, conn, hup>>
     \/ /\ conn[i] = "pending" \/ (conn[i] = "up" /\ ~room[i])
        /\ WouldBlock(i)

\* TcpStream::connect, connect_stream: a non-blocking connect, then block_on.
\* One that fails at once leaves nothing behind.
Connect(i) ==
  /\ conn[i] = "none"
  /\ Begin(i, "connect", "block")
  /\ \E c \in {"pending", "up"} : conn' = [conn EXCEPT ![i] = c]
  /\ room' = [room EXCEPT ![i] = conn'[i] = "up"]
  /\ hup' = [hup EXCEPT ![i] = FALSE]
  /\ UNCHANGED data

ConnectedUnchecked(i) ==
  /\ At(i, "try") /\ op[i] = "connect"
  /\ Return(i, FALSE)
  /\ UNCHANGED kernelVars

\* It blocks once; take_socket_error decides.  An Err drops the stream.
Connected(i) ==
  /\ At(i, "try") /\ op[i] = "connect"
  /\ Return(i, conn[i] = "gone")
  /\ conn' = [conn EXCEPT ![i] = IF @ = "gone" THEN "none" ELSE @]
  /\ UNCHANGED <<data, room, hup>>

Select(i) == conn[i] # "none" /\ Begin(i, "select", "block") /\ UNCHANGED kernelVars

\* select_wait has returned.
Selected(i) ==
  /\ At(i, "try") /\ op[i] = "select"
  /\ Return(i, FALSE)
  /\ UNCHANGED kernelVars

\* block_on or select_wait: push the sources, jump out and register_all.  The
\* socket may have become ready since it was tried: mio reports that as well.
Block(i) ==
  /\ At(i, "block")
  /\ running' = None
  /\ pc' = [pc EXCEPT ![i] = "try"]
  /\ \E srcs \in Waits[op[i]] :
       LET q == blockedOn[i] \o srcs
       IN /\ blockedOn' = [blockedOn EXCEPT ![i] = q]
          /\ registered' = [registered EXCEPT ![i] =
               [s \in Source |->
                  IF s \in Range(q)
                    THEN [token |-> token_from_ids(i, IndexOf(s, q)), interest |-> Interest(s)]
                    ELSE None]]
          /\ edges' = edges \cup {<<i, s>> : s \in Range(q)}
  /\ UNCHANGED <<pipe, kernelVars, batch, ready, op, failed, ops, spawns, panicked>>

\* The new coroutine gets a slab entry that may have been another's a moment ago,
\* and sockets of its own: one that is connected or to be connected.
Spawn(i) ==
  /\ running # None /\ pc[running] = "user"
  /\ pc[i] = "free" /\ spawns < MaxSpawns
  /\ spawns' = spawns + 1
  /\ pc' = [pc EXCEPT ![i] = "user"]
  /\ ready' = Append(ready, i)
  /\ \E c \in FirstConn : conn' = [conn EXCEPT ![i] = c]
  /\ UNCHANGED <<pipe, data, room, hup, mioVars, blockedOn, running, op, failed, ops, panicked>>

\* The slab entry is removed and the sockets are closed.
Finish(i) ==
  /\ At(i, "user")
  /\ pc' = [pc EXCEPT ![i] = "free"]
  /\ running' = None
  /\ conn' = [conn EXCEPT ![i] = "none"]
  /\ data' = [data EXCEPT ![i] = FALSE]
  /\ room' = [room EXCEPT ![i] = FALSE]
  /\ hup' = [hup EXCEPT ![i] = FALSE]
  /\ failed' = [failed EXCEPT ![i] = FALSE]
  /\ UNCHANGED <<pipe, mioVars, blockedOn, ready, op, ops, spawns, panicked>>

Run(i) ==
  \/ Recv(i) \/ TryRecv(i)
  \/ Send(i) \/ TrySend(i)
  \/ Connect(i) \/ Connected(i)
  \/ Select(i) \/ Selected(i)
  \/ Block(i)
  \/ Spawn(i)
  \/ Finish(i)

-----------------------------------------------------------------------------
(* The event loop *)

\* deliver_to_scheduler
Resume ==
  /\ running = None /\ ready # <<>>
  /\ running' = Head(ready)
  /\ ready' = Tail(ready)
  /\ UNCHANGED <<pipe, kernelVars, mioVars, coVars, blockedOn, panicked>>

Idle == running = None /\ ready = <<>> /\ ~panicked

\* One round of epoll: every source that has something to report.
Poll ==
  /\ Idle /\ batch = {} /\ edges # {}
  /\ batch' = {[token |-> registered[e[1]][e[2]].token, kinds |-> Kinds(e[1], e[2])] :
                 e \in {f \in edges : Kinds(f[1], f[2]) # {}}}
  /\ edges' = {}
  /\ UNCHANGED <<pipe, kernelVars, registered, coVars, blockedOn, running, ready, panicked>>

WakesWithoutHup(kinds) == kinds \cap {"in", "out"} # {}

\* (is_readable() | is_hup(), is_writable()) other than (false, false)
Wakes(kinds) == kinds \cap {"in", "hup", "out"} # {}

UnblockUndrained(i) ==
  /\ registered' = [registered EXCEPT ![i] = [s \in Source |-> None]]
  /\ edges' = {e \in edges : e[1] # i}
  /\ running' = i
  /\ UNCHANGED blockedOn

\* Coroutine::unblock, deregister_all
Unblock(i) ==
  /\ registered' = [registered EXCEPT ![i] = [s \in Source |-> None]]
  /\ edges' = {e \in edges : e[1] # i}
  /\ blockedOn' = [blockedOn EXCEPT ![i] = <<>>]
  /\ running' = i

\* Handler::ready and CoroutineSlabHandle::event.  The coroutine that the token
\* names may be another one by now, and is resumed whatever it waits for.
Deliver ==
  /\ Idle
  /\ \E e \in batch :
       LET i == token_to_ids(e.token).co
           blocked == i \in Id /\ pc[i] # "free" /\ blockedOn[i] # <<>>
       IN /\ batch' = batch \ {e}
          /\ panicked' = (blocked /\ ~Wakes(e.kinds))
          /\ IF blocked /\ Wakes(e.kinds)
               THEN Unblock(i)
               ELSE UNCHANGED <<registered, edges, blockedOn, running>>
  /\ UNCHANGED <<pipe, kernelVars, coVars, ready>>

Step == Resume \/ Poll \/ Deliver \/ \E i \in Id : Run(i)

Done == panicked \/ (\A i \in Id : pc[i] = "free")

Next == Step \/ Peer \/ (Done /\ UNCHANGED vars)

Spec == Init /\ [][Next]_vars

\* The thread runs and polls; no peer has to do anything.
FairSpec == Spec /\ WF_vars(Step)

-----------------------------------------------------------------------------
TypeOK ==
  /\ {pipe, panicked} \subseteq BOOLEAN
  /\ {data, room, hup, failed} \subseteq [Id -> BOOLEAN]
  /\ conn \in [Id -> {"none", "pending", "up", "gone"}]
  /\ registered \in
       [Id -> [Source -> [token : Nat, interest : SUBSET {"in", "out", "hup"}] \cup {None}]]
  /\ edges \subseteq Id \X Source
  /\ batch \subseteq [token : Nat, kinds : SUBSET {"in", "out", "hup", "err"}]
  /\ blockedOn \in [Id -> {<<>>} \cup UNION {Waits[o] : o \in DOMAIN Waits}]
  /\ running \in Id \cup {None}
  /\ ready \in Seq(Id)
  /\ op \in [Id -> DOMAIN Waits \cup {"none"}]
  /\ pc \in [Id -> {"free", "user", "try", "block"}]
  /\ ops \in 0 .. MaxOps
  /\ spawns \in 0 .. MaxSpawns

\* "Token bits encode both Coroutine and EventSource within it": the token of
\* every registered source leads back to the coroutine that is blocked on it and
\* to its place in blocked_on, no two sources share one, and none is taken for
\* the scheduler's timeout.
TokensResolve ==
  \A i \in Id, s \in Source : registered[i][s] # None =>
    LET ids == token_to_ids(registered[i][s].token)
    IN /\ ids.co = i /\ ids.co # SPECIAL_ID
       /\ ids.src + 1 \in DOMAIN blockedOn[i] /\ blockedOn[i][ids.src + 1] = s

\* The (false, false) => panic!() of CoroutineSlabHandle::event: every event of a
\* stream that reaches a blocked coroutine, be it the one that has waited for it or
\* the next one in its slab entry, is readable, writable or a hang-up.  Not so with
\* a full pipe whose reader is closed: there is nothing but an error to report.
EventsKnown == panicked => pipe

\* What the coroutine is doing can be done.
Satisfied(i) ==
  CASE op[i] = "recv" -> data[i]
    [] op[i] = "send" -> conn[i] = "gone" \/ (conn[i] = "up" /\ room[i])
    [] op[i] = "connect" -> conn[i] \in {"up", "gone"}
    [] op[i] = "select" -> data[i] \/ conn[i] = "gone" \/ (conn[i] = "up" /\ room[i])
    [] OTHER -> FALSE

\* EventSet and PollOpt::edge() of register: an edge is reported once, so one that
\* is missed is missed for good.  A coroutine that is blocked although its
\* operation can be done has an edge that the next poll reports, or an event in
\* this batch that wakes it (or panics the thread), whichever came first: what it
\* waits for, its try, the registration, a wake-up for somebody else.
NoLostEvent ==
  ~panicked => \A i \in Id : blockedOn[i] # <<>> /\ Satisfied(i) =>
    \/ \E s \in Range(blockedOn[i]) : <<i, s>> \in edges /\ Kinds(i, s) # {}
    \/ \E e \in batch : token_to_ids(e.token).co = i

\* "Block on read", "Block on write", "Block on accepting a connection": an
\* operation that can be done returns, although the sockets are edge-triggered,
\* became ready between the try and the registration, or the wake-up was meant
\* for another operation or another coroutine (unless the thread panics).
OperationsEnd == \A i \in Id : Satisfied(i) ~> (op[i] = "none" \/ panicked)

\* A connection that is refused while connect() or write() waits for it is
\* reported as an Err: a wake-up is not taken for the connection (unless the
\* thread panics).
RefusalReported ==
  \A i \in Id : (op[i] \in {"connect", "send"} /\ conn[i] = "gone")
                    ~> (failed[i] \/ panicked)
=============================================================================
