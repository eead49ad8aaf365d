---------------------------- MODULE SocketProof ----------------------------
(***************************************************************************)
(* Proofs about module Socket, for any number of slab entries and any      *)
(* width of the source's part of a token: every token leads back to the    *)
(* source that it was made for, and no event of a stream is unknown.       *)
(***************************************************************************)
EXTENDS Socket, FiniteSetTheorems, SequenceTheorems, TLAPS

-----------------------------------------------------------------------------
(* The inductive invariant *)

\* A coroutine that runs or is about to exists, is blocked on nothing, and is in
\* one place.
AwakeUnblocked ==
  /\ running # None => blockedOn[running] = <<>> /\ pc[running] # "free"
  /\ \A n \in DOMAIN ready :
       blockedOn[ready[n]] = <<>> /\ pc[ready[n]] # "free" /\ ready[n] # running
  /\ \A m, n \in DOMAIN ready : ready[m] = ready[n] => m = n

\* Who has ended waits for nothing.
FreeUnblocked == \A i \in Id : pc[i] = "free" => blockedOn[i] = <<>>

\* Who is about to block does so for an operation.
BlocksForOp == \A i \in Id : pc[i] = "block" => op[i] \in DOMAIN Waits

\* mio reports nothing about a source that is not registered any more.
EdgesRegistered == \A i \in Id, s \in Source : <<i, s>> \in edges => registered[i][s] # None

\* What a stream reports is readable, writable or a hang-up.
StreamsWake == ~pipe => \A e \in batch : Wakes(e.kinds)

IInv ==
  /\ TypeOK
  /\ AwakeUnblocked
  /\ FreeUnblocked
  /\ BlocksForOp
  /\ EdgesRegistered
  /\ StreamsWake
  /\ TokensResolve
  /\ EventsKnown

-----------------------------------------------------------------------------
(* Tokens *)

\* token_to_ids is the inverse of token_from_ids, as long as the source's id fits
\* into its part of the token.
LEMMA TokenRoundTrip ==
  ASSUME NEW i \in Nat, NEW k \in Nat, k < Width
  PROVE  /\ token_from_ids(i, k) \in Nat
         /\ token_to_ids(token_from_ids(i, k)) = [co |-> i, src |-> k]
<1>. DEFINE t == i * Width + k
            q == t \div Width
            r == t % Width
<1>1. Width \in Nat /\ Width > 0
  BY WidthAssumption
<1>2. i * Width \in Nat
  BY <1>1
<1>3. t \in Nat
  BY <1>2
<1>. HIDE DEF t
<1>4. q \in Nat /\ r \in Nat /\ r < Width /\ t = Width * q + r
  BY <1>1, <1>3
<1>. HIDE DEF q, r
<1>5. Width * (q - i) = k - r
  BY <1>1, <1>4 DEF t
<1>6. q - i = 0
  <2>1. CASE q - i >= 1
    <3>1. Width * (q - i) >= Width
      BY <2>1, <1>1, <1>4
    <3>. QED
      BY <3>1, <1>1, <1>4, <1>5
  <2>2. CASE q - i <= -1
    <3>1. Width * (q - i) <= -Width
      BY <2>2, <1>1, <1>4
    <3>. QED
      BY <3>1, <1>1, <1>4, <1>5
  <2>. QED
    BY <2>1, <2>2, <1>4
<1>7. q = i /\ r = k
  BY <1>1, <1>4, <1>5, <1>6
<1>. QED
  BY <1>3, <1>7 DEF t, q, r, token_from_ids, token_to_ids

\* The lists that operations block on, and the index of a source in each of them.
LEMMA WaitFacts ==
  ASSUME NEW o \in DOMAIN Waits, NEW srcs \in Waits[o]
  PROVE  /\ srcs \in {<<"rx">>, <<"tx">>, <<"rx", "tx">>}
         /\ srcs \in UNION {Waits[p] : p \in DOMAIN Waits}
         /\ srcs # <<>> /\ <<>> \o srcs = srcs /\ Range(srcs) \subseteq Source
         /\ \A s \in Range(srcs) : /\ IndexOf(s, srcs) \in {0, 1}
                                   /\ IndexOf(s, srcs) + 1 \in DOMAIN srcs
                                   /\ srcs[IndexOf(s, srcs) + 1] = s
<1>1. srcs \in {<<"rx">>, <<"tx">>, <<"rx", "tx">>}
  <2>1. o \in {"recv", "send", "connect", "select"}
    BY DEF Waits
  <2>2. /\ Waits["recv"] = {<<"rx">>} /\ Waits["send"] = {<<"tx">>}
        /\ Waits["connect"] = {<<"tx">>} /\ Waits["select"] = {<<"rx", "tx">>}
    BY DEF Waits
  <2>. QED
    BY <2>1, <2>2
<1>2. srcs \in UNION {Waits[p] : p \in DOMAIN Waits}
  OBVIOUS
<1>3. DOMAIN srcs \subseteq {1, 2} /\ \A n \in DOMAIN srcs : srcs[n] \in Source
  BY <1>1 DEF Source
<1>4. srcs # <<>> /\ srcs \in Seq(Source)
  <2>1. CASE srcs = <<"rx">>
    BY <2>1 DEF Source
  <2>2. CASE srcs = <<"tx">>
    BY <2>2 DEF Source
  <2>3. CASE srcs = <<"rx", "tx">>
    BY <2>3 DEF Source
  <2>. QED
    BY <2>1, <2>2, <2>3, <1>1
<1>5. <<>> \o srcs = srcs
  BY <1>4, ConcatEmptySeq
<1>6. ASSUME NEW s \in Range(srcs)
      PROVE  /\ s \in Source
             /\ IndexOf(s, srcs) \in {0, 1}
             /\ IndexOf(s, srcs) + 1 \in DOMAIN srcs
             /\ srcs[IndexOf(s, srcs) + 1] = s
  <2>. DEFINE n == CHOOSE n \in DOMAIN srcs : srcs[n] = s
  <2>1. n \in DOMAIN srcs /\ srcs[n] = s
    BY <1>6 DEF Range
  <2>2. n \in {1, 2} /\ s \in Source
    BY <2>1, <1>3
  <2>3. IndexOf(s, srcs) = n - 1
    BY DEF IndexOf
  <2>. HIDE DEF n
  <2>. QED
    BY <2>1, <2>2, <2>3
<1>. QED
  BY <1>1, <1>2, <1>4, <1>5, <1>6

\* A token has a bit for the slot and one for the source.
LEMMA WidthFacts == Width \in Nat /\ Width >= 2
<1>1. Source = {"rx", "tx"} /\ "rx" # "tx"
  BY DEF Source
<1>2. IsFiniteSet({"rx"}) /\ Cardinality({"rx"}) = 1
  BY FS_Singleton
<1>3. Cardinality({"rx"} \cup {"tx"}) = Cardinality({"rx"}) + 1
  BY <1>2, FS_AddElement
<1>4. {"rx"} \cup {"tx"} = Source
  BY <1>1
<1>. QED
  BY <1>2, <1>3, <1>4, WidthAssumption

-----------------------------------------------------------------------------
(* Types, in three parts *)

KernelTypes ==
  /\ {pipe, panicked} \subseteq BOOLEAN
  /\ {data, room, hup, failed} \subseteq [Id -> BOOLEAN]
  /\ conn \in [Id -> {"none", "pending", "up", "gone"}]

MioTypes ==
  /\ registered \in
       [Id -> [Source -> [token : Nat, interest : SUBSET {"in", "out", "hup"}] \cup {None}]]
  /\ edges \subseteq Id \X Source
  /\ batch \subseteq [token : Nat, kinds : SUBSET {"in", "out", "hup", "err"}]

CoTypes ==
  /\ blockedOn \in [Id -> {<<>>} \cup UNION {Waits[o] : o \in DOMAIN Waits}]
  /\ running \in Id \cup {None}
  /\ ready \in Seq(Id)
  /\ op \in [Id -> DOMAIN Waits \cup {"none"}]
  /\ pc \in [Id -> {"free", "user", "try", "block"}]
  /\ ops \in 0 .. MaxOps
  /\ spawns \in 0 .. MaxSpawns

\* What the invariant says apart from the types.
Rest ==
  /\ AwakeUnblocked /\ FreeUnblocked /\ BlocksForOp
  /\ EdgesRegistered /\ StreamsWake /\ TokensResolve /\ EventsKnown

\* What is registered afterwards was so before, for a coroutine that waits for the
\* same sources: tokens still lead back.
LEMMA TokensKept ==
  ASSUME TokensResolve,
         \A j \in Id, r \in Source : registered'[j][r] # None =>
           registered'[j][r] = registered[j][r] /\ blockedOn'[j] = blockedOn[j]
  PROVE  TokensResolve'
<1>. SUFFICES ASSUME NEW j \in Id, NEW r \in Source, registered'[j][r] # None
              PROVE  LET ids == token_to_ids(registered'[j][r].token)
                     IN /\ ids.co = j /\ ids.co # SPECIAL_ID
                        /\ ids.src + 1 \in DOMAIN blockedOn'[j] /\ blockedOn'[j][ids.src + 1] = r
  BY DEF TokensResolve
<1>. DEFINE ids == token_to_ids(registered[j][r].token)
<1>1. registered'[j][r] = registered[j][r] /\ blockedOn'[j] = blockedOn[j]
  OBVIOUS
<1>2. /\ ids.co = j /\ ids.co # SPECIAL_ID
      /\ ids.src + 1 \in DOMAIN blockedOn[j] /\ blockedOn[j][ids.src + 1] = r
  BY <1>1 DEF TokensResolve
<1>. HIDE DEF ids
<1>3. token_to_ids(registered'[j][r].token) = ids
  BY <1>1 DEF ids
<1>. QED
  BY <1>1, <1>2, <1>3

\* The invariant, in the parts that the steps below keep.
LEMMA Parts == IInv <=> KernelTypes /\ MioTypes /\ CoTypes /\ Rest
BY DEF IInv, TypeOK, KernelTypes, MioTypes, CoTypes, Rest

-----------------------------------------------------------------------------
(* The kernel *)

\* An edge is reported for a registered source only.
LEMMA NoticeStep ==
  ASSUME IInv, NEW i \in Id, NEW s \in Source, Notice(i, s), UNCHANGED loopVars,
         KernelTypes'
  PROVE  IInv'
<1>1. /\ UNCHANGED <<pipe, registered, batch, op, pc, failed, ops, spawns>>
      /\ UNCHANGED <<blockedOn, running, ready, panicked>>
  BY DEF loopVars, coVars
<1>2. edges' \subseteq edges \cup {<<i, s>>} /\ (<<i, s>> \in edges' \ edges => registered[i][s] # None)
  BY DEF Notice
<1>3. edges' \subseteq Id \X Source
  BY <1>2 DEF IInv, TypeOK
<1>4. EdgesRegistered'
  <2>. SUFFICES ASSUME NEW j \in Id, NEW r \in Source, <<j, r>> \in edges'
                PROVE  registered[j][r] # None
    BY <1>1 DEF EdgesRegistered
  <2>1. CASE <<j, r>> \in edges
    BY <2>1 DEF IInv, EdgesRegistered
  <2>2. CASE <<j, r>> \notin edges
    <3>1. <<j, r>> = <<i, s>>
      BY <2>2, <1>2
    <3>. QED
      BY <3>1, <2>2, <1>2
  <2>. QED
    BY <2>1, <2>2
<1>5. MioTypes' /\ CoTypes'
  BY <1>1, <1>3 DEF IInv, TypeOK, MioTypes, CoTypes
<1>6. /\ AwakeUnblocked' /\ FreeUnblocked' /\ BlocksForOp' /\ StreamsWake'
      /\ TokensResolve' /\ EventsKnown'
  BY <1>1, TokensKept
  DEF IInv, AwakeUnblocked, FreeUnblocked, BlocksForOp, StreamsWake, EventsKnown
<1>. QED
  BY <1>4, <1>5, <1>6 DEF IInv, TypeOK, KernelTypes, MioTypes, CoTypes

\* What the peer and the kernel do.
LEMMA PeerStep ==
  ASSUME IInv, Peer
  PROVE  IInv'
<1>. PICK i \in Id :
       Arrive(i) \/ Established(i) \/ Drained(i) \/ PeerShutdown(i) \/ PeerGone(i)
  BY DEF Peer
<1>1. /\ data \in [Id -> BOOLEAN] /\ room \in [Id -> BOOLEAN] /\ hup \in [Id -> BOOLEAN]
      /\ conn \in [Id -> {"none", "pending", "up", "gone"}] /\ pipe \in BOOLEAN
  BY DEF IInv, TypeOK
<1>2. "rx" \in Source /\ "tx" \in Source
  BY DEF Source
<1>3. UNCHANGED loopVars /\ UNCHANGED <<pipe, panicked, failed>>
  BY DEF Arrive, Established, Drained, PeerShutdown, PeerGone, loopVars, coVars
<1>4. (\E s \in Source : Notice(i, s))
  BY <1>2 DEF Arrive, Established, Drained, PeerShutdown, PeerGone
<1>5. KernelTypes'
  <2>1. data' \in [Id -> BOOLEAN] /\ hup' \in [Id -> BOOLEAN]
    BY <1>1 DEF Arrive, Established, Drained, PeerShutdown, PeerGone
  <2>2. conn' \in [Id -> {"none", "pending", "up", "gone"}]
    BY <1>1 DEF Arrive, Established, Drained, PeerShutdown, PeerGone
  <2>3. room' \in [Id -> BOOLEAN]
    BY <1>1 DEF Arrive, Established, Drained, PeerShutdown, PeerGone
  <2>. QED
    BY <2>1, <2>2, <2>3, <1>3 DEF IInv, TypeOK, KernelTypes
<1>. QED
  BY <1>3, <1>4, <1>5, NoticeStep

-----------------------------------------------------------------------------
(* Coroutines *)

\* A step of a coroutine that neither blocks nor ends.
LEMMA LocalStep ==
  ASSUME IInv, KernelTypes', UNCHANGED <<pipe, mioVars, blockedOn, running, ready, spawns, panicked>>,
         op' \in [Id -> DOMAIN Waits \cup {"none"}],
         pc' \in [Id -> {"free", "user", "try", "block"}],
         ops' \in 0 .. MaxOps,
         \A i \in Id : pc[i] # "free" => pc'[i] # "free",
         BlocksForOp'
  PROVE  IInv'
<1>1. UNCHANGED <<registered, edges, batch>>
  BY DEF mioVars
<1>2. MioTypes' /\ CoTypes'
  BY <1>1 DEF IInv, TypeOK, MioTypes, CoTypes
<1>3. AwakeUnblocked'
  <2>1. /\ running # None => running \in Id
        /\ \A n \in DOMAIN ready : ready[n] \in Id
    BY DEF IInv, TypeOK
  <2>. QED
    BY <2>1 DEF IInv, AwakeUnblocked
<1>4. FreeUnblocked' /\ EdgesRegistered' /\ StreamsWake' /\ EventsKnown'
  BY <1>1 DEF IInv, FreeUnblocked, EdgesRegistered, StreamsWake, EventsKnown
<1>5. TokensResolve'
  BY <1>1, TokensKept DEF IInv
<1>. QED
  BY <1>2, <1>3, <1>4, <1>5 DEF IInv, TypeOK, KernelTypes, MioTypes, CoTypes

\* An operation on a socket begins.
LEMMA BeginStep ==
  ASSUME IInv, NEW i \in Id, NEW o \in DOMAIN Waits, NEW where \in {"try", "block"},
         Begin(i, o, where),
         data' \in [Id -> BOOLEAN], room' \in [Id -> BOOLEAN], hup' \in [Id -> BOOLEAN],
         conn' \in [Id -> {"none", "pending", "up", "gone"}]
  PROVE  IInv'
<1>1. /\ op' = [op EXCEPT ![i] = o] /\ pc' = [pc EXCEPT ![i] = where]
      /\ failed' = [failed EXCEPT ![i] = FALSE]
      /\ ops < MaxOps /\ ops' = ops + 1
      /\ UNCHANGED <<pipe, mioVars, blockedOn, running, ready, spawns, panicked>>
  BY DEF Begin
<1>2. failed \in [Id -> BOOLEAN]
  BY DEF IInv, TypeOK
<1>3. failed' \in [Id -> BOOLEAN]
  BY <1>1, <1>2
<1>4. KernelTypes'
  BY <1>1, <1>3 DEF IInv, TypeOK, KernelTypes
<1>5. /\ op' \in [Id -> DOMAIN Waits \cup {"none"}]
      /\ pc' \in [Id -> {"free", "user", "try", "block"}]
      /\ \A j \in Id : pc[j] # "free" => pc'[j] # "free"
  BY <1>1 DEF IInv, TypeOK
<1>6. ops' \in 0 .. MaxOps
  BY <1>1, BoundsAssumption DEF IInv, TypeOK
<1>7. BlocksForOp'
  BY <1>1 DEF IInv, TypeOK, BlocksForOp
<1>. QED
  BY <1>1, <1>4, <1>5, <1>6, <1>7, LocalStep

\* It returns.
LEMMA ReturnStep ==
  ASSUME IInv, NEW i \in Id, NEW err \in BOOLEAN, pc[i] # "free", Return(i, err),
         data' \in [Id -> BOOLEAN], room' \in [Id -> BOOLEAN], hup' \in [Id -> BOOLEAN],
         conn' \in [Id -> {"none", "pending", "up", "gone"}]
  PROVE  IInv'
<1>1. /\ op' = [op EXCEPT ![i] = "none"] /\ pc' = [pc EXCEPT ![i] = "user"]
      /\ failed' = [failed EXCEPT ![i] = err]
      /\ ops' = ops
      /\ UNCHANGED <<pipe, mioVars, blockedOn, running, ready, spawns, panicked>>
  BY DEF Return
<1>2. failed \in [Id -> BOOLEAN]
  BY DEF IInv, TypeOK
<1>3. failed' \in [Id -> BOOLEAN]
  BY <1>1, <1>2
<1>4. KernelTypes'
  BY <1>1, <1>3 DEF IInv, TypeOK, KernelTypes
<1>5. /\ op' \in [Id -> DOMAIN Waits \cup {"none"}]
      /\ pc' \in [Id -> {"free", "user", "try", "block"}]
      /\ \A j \in Id : pc[j] # "free" => pc'[j] # "free"
  BY <1>1 DEF IInv, TypeOK
<1>6. ops' \in 0 .. MaxOps
  BY <1>1 DEF IInv, TypeOK
<1>7. BlocksForOp'
  BY <1>1 DEF IInv, TypeOK, BlocksForOp
<1>. QED
  BY <1>1, <1>4, <1>5, <1>6, <1>7, LocalStep

\* WouldBlock: the socket is registered and the coroutine jumps out.
LEMMA WouldBlockStep ==
  ASSUME IInv, NEW i \in Id, pc[i] # "free", op[i] \in DOMAIN Waits, WouldBlock(i)
  PROVE  IInv'
<1>1. /\ pc' = [pc EXCEPT ![i] = "block"]
      /\ UNCHANGED <<data, conn, room, hup, op, failed, ops>>
      /\ UNCHANGED <<pipe, mioVars, blockedOn, running, ready, spawns, panicked>>
  BY DEF WouldBlock, kernelVars
<1>2. KernelTypes'
  BY <1>1 DEF IInv, TypeOK, KernelTypes
<1>3. /\ op' \in [Id -> DOMAIN Waits \cup {"none"}]
      /\ pc' \in [Id -> {"free", "user", "try", "block"}]
      /\ ops' \in 0 .. MaxOps
      /\ \A j \in Id : pc[j] # "free" => pc'[j] # "free"
  BY <1>1 DEF IInv, TypeOK
<1>4. BlocksForOp'
  BY <1>1 DEF IInv, TypeOK, BlocksForOp
<1>. QED
  BY <1>1, <1>2, <1>3, <1>4, LocalStep

\* read, write, accept, connect and select! up to their block_on.
LEMMA OperationStep ==
  ASSUME IInv, NEW i \in Id,
         \/ Recv(i) \/ TryRecv(i) \/ Send(i) \/ TrySend(i)
         \/ Connect(i) \/ Connected(i) \/ Select(i) \/ Selected(i)
  PROVE  IInv'
<1>1. /\ data \in [Id -> BOOLEAN] /\ room \in [Id -> BOOLEAN] /\ hup \in [Id -> BOOLEAN]
      /\ conn \in [Id -> {"none", "pending", "up", "gone"}]
  BY DEF IInv, TypeOK
<1>2. {"recv", "send", "connect", "select"} = DOMAIN Waits
  BY DEF Waits
<1>3. UNCHANGED kernelVars => /\ data' \in [Id -> BOOLEAN] /\ room' \in [Id -> BOOLEAN]
                              /\ hup' \in [Id -> BOOLEAN]
                              /\ conn' \in [Id -> {"none", "pending", "up", "gone"}]
  BY <1>1 DEF kernelVars
<1>4. CASE Recv(i)
  BY <1>2, <1>3, <1>4, BeginStep DEF Recv
<1>5. CASE TryRecv(i)
  <2>1. pc[i] # "free" /\ op[i] \in DOMAIN Waits
    BY <1>2, <1>5 DEF TryRecv, At
  <2>2. CASE /\ data' = [data EXCEPT ![i] = FALSE]
             /\ Return(i, FALSE)
             /\ UNCHANGED <<conn, room, hup>>
    BY <2>1, <2>2, <1>1, ReturnStep
  <2>. QED
    BY <2>1, <2>2, <1>5, WouldBlockStep DEF TryRecv
<1>6. CASE Send(i)
  BY <1>2, <1>3, <1>6, BeginStep DEF Send
<1>7. CASE TrySend(i)
  <2>1. pc[i] # "free" /\ op[i] \in DOMAIN Waits
    BY <1>2, <1>7 DEF TrySend, At
  <2>2. CASE Return(i, TRUE) /\ UNCHANGED kernelVars
    BY <2>1, <2>2, <1>3, ReturnStep
  <2>3. CASE /\ room' = [room EXCEPT ![i] = FALSE]
             /\ Return(i, FALSE)
             /\ UNCHANGED <<data, conn, hup>>
    BY <2>1, <2>3, <1>1, ReturnStep
  <2>. QED
    BY <2>1, <2>2, <2>3, <1>7, WouldBlockStep DEF TrySend
<1>8. CASE Connect(i)
  <2>1. PICK c \in {"pending", "up"} : conn' = [conn EXCEPT ![i] = c]
    BY <1>8 DEF Connect
  <2>2. /\ Begin(i, "connect", "block")
        /\ room' = [room EXCEPT ![i] = (conn'[i] = "up")]
        /\ hup' = [hup EXCEPT ![i] = FALSE] /\ data' = data
    BY <1>8 DEF Connect
  <2>3. room' \in [Id -> BOOLEAN]
    BY <2>2, <1>1
  <2>4. hup' \in [Id -> BOOLEAN]
    BY <2>2, <1>1
  <2>5. conn' \in [Id -> {"none", "pending", "up", "gone"}]
    BY <2>1, <1>1
  <2>. QED
    BY <2>2, <2>3, <2>4, <2>5, <1>1, <1>2, BeginStep
<1>9. CASE Connected(i)
  <2>1. /\ pc[i] # "free" /\ Return(i, conn[i] = "gone")
        /\ conn' = [conn EXCEPT ![i] = IF conn[i] = "gone" THEN "none" ELSE conn[i]]
        /\ UNCHANGED <<data, room, hup>>
    BY <1>9 DEF Connected, At
  <2>2. conn' \in [Id -> {"none", "pending", "up", "gone"}] /\ (conn[i] = "gone") \in BOOLEAN
    BY <2>1, <1>1
  <2>. QED
    BY <2>1, <2>2, <1>1, ReturnStep
<1>10. CASE Select(i)
  BY <1>2, <1>3, <1>10, BeginStep DEF Select
<1>11. CASE Selected(i)
  <2>1. pc[i] # "free" /\ Return(i, FALSE) /\ UNCHANGED kernelVars
    BY <1>11 DEF Selected, At
  <2>. QED
    BY <2>1, <1>3, ReturnStep
<1>. QED
  BY <1>4, <1>5, <1>6, <1>7, <1>8, <1>9, <1>10, <1>11

\* What block_on does: it pushes the operation's sources and registers them, each with
\* the token of its place.
LEMMA BlockFacts ==
  ASSUME IInv, NEW i \in Id, Block(i)
  PROVE  /\ running = i /\ pc[i] = "block" /\ running' = None /\ i # None
         /\ blockedOn[i] = <<>> /\ op[i] \in DOMAIN Waits
         /\ UNCHANGED <<pipe, data, conn, room, hup, batch, ready, op, failed>>
         /\ UNCHANGED <<ops, spawns, panicked>>
         /\ pc' \in [Id -> {"free", "user", "try", "block"}] /\ pc'[i] = "try"
         /\ \A j \in Id : j # i =>
              pc'[j] = pc[j] /\ registered'[j] = registered[j] /\ blockedOn'[j] = blockedOn[j]
         /\ blockedOn' \in [Id -> {<<>>} \cup UNION {Waits[o] : o \in DOMAIN Waits}]
         /\ registered' \in
              [Id -> [Source -> [token : Nat, interest : SUBSET {"in", "out", "hup"}] \cup {None}]]
         /\ \E srcs \in Waits[op[i]] :
              /\ srcs # <<>> /\ Range(srcs) \subseteq Source
              /\ blockedOn'[i] = srcs
              /\ edges' = edges \cup {<<i, s>> : s \in Range(srcs)}
              /\ \A s \in Source \ Range(srcs) : registered'[i][s] = None
              /\ \A s \in Range(srcs) :
                   /\ registered'[i][s] # None /\ registered'[i][s].interest = Interest(s)
                   /\ LET ids == token_to_ids(registered'[i][s].token)
                      IN /\ ids.co = i /\ ids.co # SPECIAL_ID
                         /\ ids.src + 1 \in DOMAIN srcs /\ srcs[ids.src + 1] = s
<1>1. running = i /\ pc[i] = "block" /\ running' = None /\ pc' = [pc EXCEPT ![i] = "try"]
  BY DEF Block, At
<1>2. i # None /\ i \in Nat /\ i # SPECIAL_ID
  BY NoneAssumption, BoundsAssumption DEF Id, STARTING_ID, SPECIAL_ID
<1>3. blockedOn[i] = <<>> /\ op[i] \in DOMAIN Waits
  BY <1>1, <1>2 DEF IInv, AwakeUnblocked, BlocksForOp
<1>4. PICK srcs \in Waits[op[i]] :
        LET q == blockedOn[i] \o srcs
        IN /\ blockedOn' = [blockedOn EXCEPT ![i] = q]
           /\ registered' = [registered EXCEPT ![i] =
                [s \in Source |->
                   IF s \in Range(q)
                     THEN [token |-> token_from_ids(i, IndexOf(s, q)), interest |-> Interest(s)]
                     ELSE None]]
           /\ edges' = edges \cup {<<i, s>> : s \in Range(q)}
  BY DEF Block
<1>5. /\ blockedOn[i] \o srcs = srcs
      /\ srcs \in UNION {Waits[p] : p \in DOMAIN Waits} /\ srcs # <<>>
      /\ Range(srcs) \subseteq Source
      /\ \A s \in Range(srcs) : /\ IndexOf(s, srcs) \in {0, 1}
                                /\ IndexOf(s, srcs) + 1 \in DOMAIN srcs
                                /\ srcs[IndexOf(s, srcs) + 1] = s
  BY <1>3, WaitFacts
<1>6. /\ blockedOn' = [blockedOn EXCEPT ![i] = srcs]
      /\ registered' = [registered EXCEPT ![i] =
           [s \in Source |->
              IF s \in Range(srcs)
                THEN [token |-> token_from_ids(i, IndexOf(s, srcs)), interest |-> Interest(s)]
                ELSE None]]
      /\ edges' = edges \cup {<<i, s>> : s \in Range(srcs)}
  BY <1>4, <1>5
<1>7. /\ UNCHANGED <<pipe, data, conn, room, hup, batch, ready, op, failed>>
      /\ UNCHANGED <<ops, spawns, panicked>>
  BY DEF Block, kernelVars
<1>8. ASSUME NEW s \in Range(srcs)
      PROVE  LET t == token_from_ids(i, IndexOf(s, srcs))
             IN  t \in Nat /\ token_to_ids(t).co = i /\ token_to_ids(t).src = IndexOf(s, srcs)
  <2>1. IndexOf(s, srcs) \in Nat /\ IndexOf(s, srcs) < Width
    BY <1>5, <1>8, WidthFacts
  <2>2. /\ token_from_ids(i, IndexOf(s, srcs)) \in Nat
        /\ token_to_ids(token_from_ids(i, IndexOf(s, srcs))) = [co |-> i, src |-> IndexOf(s, srcs)]
    BY <2>1, <1>2, TokenRoundTrip
  <2>. QED
    BY <2>2
<1>9. \A s \in Source : Interest(s) \in SUBSET {"in", "out", "hup"}
  BY DEF Interest
<1>10. /\ registered' \in
            [Id -> [Source -> [token : Nat, interest : SUBSET {"in", "out", "hup"}] \cup {None}]]
       /\ \A s \in Range(srcs) :
            /\ registered'[i][s] # None
            /\ registered'[i][s].token = token_from_ids(i, IndexOf(s, srcs))
            /\ registered'[i][s].interest = Interest(s)
       /\ \A s \in Source \ Range(srcs) : registered'[i][s] = None
       /\ \A j \in Id : j # i => registered'[j] = registered[j]
  <2>. DEFINE Reg(s) == [token |-> token_from_ids(i, IndexOf(s, srcs)), interest |-> Interest(s)]
  <2>1. \A s \in Range(srcs) :
          /\ Reg(s) \in [token : Nat, interest : SUBSET {"in", "out", "hup"}]
          /\ Reg(s).token = token_from_ids(i, IndexOf(s, srcs)) /\ Reg(s).interest = Interest(s)
    BY <1>5, <1>8, <1>9
  <2>2. \A s \in Range(srcs) : Reg(s) # None
    BY <2>1, NoneAssumption
  <2>3. registered' = [registered EXCEPT ![i] =
          [s \in Source |-> IF s \in Range(srcs) THEN Reg(s) ELSE None]]
    BY <1>6
  <2>. HIDE DEF Reg
  <2>4. registered \in
          [Id -> [Source -> [token : Nat, interest : SUBSET {"in", "out", "hup"}] \cup {None}]]
    BY DEF IInv, TypeOK
  <2>. QED
    BY <2>1, <2>2, <2>3, <2>4, <1>5
<1>11. /\ blockedOn' \in [Id -> {<<>>} \cup UNION {Waits[o] : o \in DOMAIN Waits}]
       /\ blockedOn'[i] = srcs /\ \A j \in Id : j # i => blockedOn'[j] = blockedOn[j]
  BY <1>5, <1>6 DEF IInv, TypeOK
<1>12. /\ pc' \in [Id -> {"free", "user", "try", "block"}] /\ pc'[i] = "try"
       /\ \A j \in Id : j # i => pc'[j] = pc[j]
  BY <1>1 DEF IInv, TypeOK
<1>13. ASSUME NEW s \in Range(srcs)
       PROVE  LET ids == token_to_ids(registered'[i][s].token)
              IN /\ ids.co = i /\ ids.co # SPECIAL_ID
                 /\ ids.src + 1 \in DOMAIN srcs /\ srcs[ids.src + 1] = s
  <2>1. registered'[i][s].token = token_from_ids(i, IndexOf(s, srcs))
    BY <1>10
  <2>. QED
    BY <2>1, <1>2, <1>5, <1>8
<1>. QED
  BY <1>1, <1>2, <1>3, <1>5, <1>6, <1>7, <1>10, <1>11, <1>12, <1>13

\* block_on and select_wait: every source gets a token that leads back to it.
LEMMA BlockStep ==
  ASSUME IInv, NEW i \in Id, Block(i)
  PROVE  IInv'
<1>1. /\ running = i /\ running' = None /\ i # None /\ blockedOn[i] = <<>>
      /\ UNCHANGED <<pipe, data, conn, room, hup, batch, ready, op, failed>>
      /\ UNCHANGED <<ops, spawns, panicked>>
      /\ pc' \in [Id -> {"free", "user", "try", "block"}] /\ pc'[i] = "try"
      /\ \A j \in Id : j # i =>
           pc'[j] = pc[j] /\ registered'[j] = registered[j] /\ blockedOn'[j] = blockedOn[j]
      /\ blockedOn' \in [Id -> {<<>>} \cup UNION {Waits[o] : o \in DOMAIN Waits}]
      /\ registered' \in
           [Id -> [Source -> [token : Nat, interest : SUBSET {"in", "out", "hup"}] \cup {None}]]
  BY BlockFacts
<1>2. PICK srcs \in Waits[op[i]] :
        /\ srcs # <<>> /\ Range(srcs) \subseteq Source
        /\ blockedOn'[i] = srcs
        /\ edges' = edges \cup {<<i, s>> : s \in Range(srcs)}
        /\ \A s \in Source \ Range(srcs) : registered'[i][s] = None
        /\ \A s \in Range(srcs) :
             /\ registered'[i][s] # None /\ registered'[i][s].interest = Interest(s)
             /\ LET ids == token_to_ids(registered'[i][s].token)
                IN /\ ids.co = i /\ ids.co # SPECIAL_ID
                   /\ ids.src + 1 \in DOMAIN srcs /\ srcs[ids.src + 1] = s
  BY BlockFacts
<1>3. TypeOK'
  <2>1. edges' \subseteq Id \X Source
    BY <1>2 DEF IInv, TypeOK
  <2>2. MioTypes'
    BY <2>1, <1>1 DEF IInv, TypeOK, MioTypes
  <2>3. CoTypes'
    BY <1>1 DEF IInv, TypeOK, CoTypes
  <2>4. KernelTypes'
    BY <1>1 DEF IInv, TypeOK, KernelTypes
  <2>. QED
    BY <2>2, <2>3, <2>4 DEF TypeOK, MioTypes, CoTypes, KernelTypes
<1>4. AwakeUnblocked'
  <2>1. \A n \in DOMAIN ready : ready[n] \in Id /\ ready[n] # i /\ ready[n] # None
    BY <1>1, NoneAssumption DEF IInv, TypeOK, AwakeUnblocked
  <2>. QED
    BY <2>1, <1>1 DEF IInv, AwakeUnblocked
<1>5. FreeUnblocked' /\ BlocksForOp' /\ StreamsWake' /\ EventsKnown'
  BY <1>1 DEF IInv, FreeUnblocked, BlocksForOp, StreamsWake, EventsKnown
<1>6. EdgesRegistered'
  <2>. SUFFICES ASSUME NEW j \in Id, NEW r \in Source, <<j, r>> \in edges'
                PROVE  registered'[j][r] # None
    BY DEF EdgesRegistered
  <2>1. CASE <<j, r>> \in edges
    <3>1. registered[j][r] # None
      BY <2>1 DEF IInv, EdgesRegistered
    <3>2. TokensResolve
      BY DEF IInv
    <3>3. token_to_ids(registered[j][r].token).src + 1 \in DOMAIN blockedOn[j]
      BY <3>1, <3>2 DEF TokensResolve
    <3>4. j # i
      BY <3>3, <1>1
    <3>. QED
      BY <3>1, <3>4, <1>1
  <2>2. CASE <<j, r>> \notin edges
    BY <2>2, <1>2
  <2>. QED
    BY <2>1, <2>2
<1>7. TokensResolve'
  <2>. SUFFICES ASSUME NEW j \in Id, NEW r \in Source, registered'[j][r] # None
                PROVE  LET ids == token_to_ids(registered'[j][r].token)
                       IN /\ ids.co = j /\ ids.co # SPECIAL_ID
                          /\ ids.src + 1 \in DOMAIN blockedOn'[j] /\ blockedOn'[j][ids.src + 1] = r
    BY DEF TokensResolve
  <2>1. CASE j # i
    <3>1. registered'[j] = registered[j] /\ blockedOn'[j] = blockedOn[j]
      BY <2>1, <1>1
    <3>2. TokensResolve /\ registered[j][r] # None
      BY <3>1 DEF IInv
    <3>3. LET ids == token_to_ids(registered[j][r].token)
          IN /\ ids.co = j /\ ids.co # SPECIAL_ID
             /\ ids.src + 1 \in DOMAIN blockedOn[j] /\ blockedOn[j][ids.src + 1] = r
      BY <3>2 DEF TokensResolve
    <3>. QED
      BY <3>1, <3>3
  <2>2. CASE j = i
    <3>1. r \in Range(srcs)
      BY <2>2, <1>2
    <3>. QED
      BY <3>1, <2>2, <1>2
  <2>. QED
    BY <2>1, <2>2
<1>. QED
  BY <1>3, <1>4, <1>5, <1>6, <1>7 DEF IInv

\* The new coroutine is in a slab entry that nobody uses.
LEMMA SpawnStep ==
  ASSUME IInv, NEW i \in Id, Spawn(i)
  PROVE  IInv'
<1>1. /\ running # None /\ pc[running] = "user" /\ pc[i] = "free" /\ spawns < MaxSpawns
      /\ spawns' = spawns + 1 /\ pc' = [pc EXCEPT ![i] = "user"] /\ ready' = Append(ready, i)
      /\ UNCHANGED <<pipe, data, room, hup, registered, edges, batch>>
      /\ UNCHANGED <<blockedOn, running, op, failed, ops, panicked>>
  BY DEF Spawn, mioVars
<1>2. conn' \in [Id -> {"none", "pending", "up", "gone"}]
  <2>1. PICK c \in FirstConn : conn' = [conn EXCEPT ![i] = c]
    BY DEF Spawn
  <2>2. c \in {"none", "pending", "up", "gone"}
    BY DEF FirstConn
  <2>. QED
    BY <2>1, <2>2 DEF IInv, TypeOK
<1>3. ready' \in Seq(Id) /\ spawns' \in 0 .. MaxSpawns
  BY <1>1, BoundsAssumption DEF IInv, TypeOK
<1>4. /\ pc' \in [Id -> {"free", "user", "try", "block"}] /\ pc'[i] = "user"
      /\ \A j \in Id : j # i => pc'[j] = pc[j]
  BY <1>1 DEF IInv, TypeOK
<1>5. TypeOK'
  BY <1>1, <1>2, <1>3, <1>4 DEF IInv, TypeOK
<1>6. blockedOn[i] = <<>>
  BY <1>1 DEF IInv, FreeUnblocked
<1>7. AwakeUnblocked'
  <2>1. /\ ready \in Seq(Id) /\ Len(ready) \in Nat /\ running \in Id
        /\ \A n \in DOMAIN ready : ready[n] \in Id /\ ready[n] # i
    BY <1>1 DEF IInv, TypeOK, AwakeUnblocked
  <2>2. /\ DOMAIN ready = 1 .. Len(ready) /\ DOMAIN (ready') = 1 .. Len(ready) + 1
        /\ \A n \in 1 .. Len(ready) : ready'[n] = ready[n]
        /\ ready'[Len(ready) + 1] = i
    BY <1>1, <2>1
  <2>3. \A n \in 1 .. Len(ready) + 1 : n \in 1 .. Len(ready) \/ n = Len(ready) + 1
    BY <2>1
  <2>4. running # i /\ running' = running
    BY <1>1
  <2>5. \A m, n \in DOMAIN (ready') : ready'[m] = ready'[n] => m = n
    BY <2>1, <2>2, <2>3 DEF IInv, AwakeUnblocked
  <2>6. \A n \in DOMAIN (ready') :
          blockedOn[ready'[n]] = <<>> /\ pc'[ready'[n]] # "free" /\ ready'[n] # running
    BY <2>1, <2>2, <2>3, <2>4, <1>4, <1>6 DEF IInv, AwakeUnblocked
  <2>. QED
    BY <2>1, <2>4, <2>5, <2>6, <1>1, <1>4 DEF IInv, AwakeUnblocked
<1>8. BlocksForOp' /\ FreeUnblocked'
  BY <1>1, <1>4 DEF IInv, BlocksForOp, FreeUnblocked
<1>9. EdgesRegistered' /\ StreamsWake' /\ EventsKnown' /\ TokensResolve'
  BY <1>1, TokensKept DEF IInv, EdgesRegistered, StreamsWake, EventsKnown
<1>. QED
  BY <1>5, <1>7, <1>8, <1>9 DEF IInv

\* The coroutine ends and its slot is free.
LEMMA FinishStep ==
  ASSUME IInv, NEW i \in Id, Finish(i)
  PROVE  IInv'
<1>1. /\ running = i /\ pc[i] = "user" /\ running' = None
      /\ pc' = [pc EXCEPT ![i] = "free"] /\ conn' = [conn EXCEPT ![i] = "none"]
      /\ UNCHANGED <<pipe, registered, edges, batch, blockedOn, ready, op, ops, spawns, panicked>>
  BY DEF Finish, At, mioVars
<1>2. /\ data' = [data EXCEPT ![i] = FALSE] /\ room' = [room EXCEPT ![i] = FALSE]
      /\ hup' = [hup EXCEPT ![i] = FALSE] /\ failed' = [failed EXCEPT ![i] = FALSE]
  BY DEF Finish
<1>3. KernelTypes'
  <2>1. /\ data \in [Id -> BOOLEAN] /\ room \in [Id -> BOOLEAN] /\ hup \in [Id -> BOOLEAN]
        /\ failed \in [Id -> BOOLEAN]
    BY DEF IInv, TypeOK
  <2>2. /\ data' \in [Id -> BOOLEAN] /\ room' \in [Id -> BOOLEAN] /\ hup' \in [Id -> BOOLEAN]
        /\ failed' \in [Id -> BOOLEAN]
    BY <2>1, <1>2
  <2>3. conn' \in [Id -> {"none", "pending", "up", "gone"}]
    BY <1>1 DEF IInv, TypeOK
  <2>. QED
    BY <2>2, <2>3, <1>1 DEF IInv, TypeOK, KernelTypes
<1>4. /\ pc' \in [Id -> {"free", "user", "try", "block"}] /\ pc'[i] = "free"
      /\ \A j \in Id : j # i => pc'[j] = pc[j]
  BY <1>1 DEF IInv, TypeOK
<1>5. MioTypes' /\ CoTypes'
  BY <1>1, <1>4 DEF IInv, TypeOK, MioTypes, CoTypes
<1>6. AwakeUnblocked'
  <2>1. \A n \in DOMAIN ready : ready[n] \in Id /\ ready[n] # i /\ ready[n] # None
    BY <1>1, NoneAssumption DEF IInv, TypeOK, AwakeUnblocked
  <2>. QED
    BY <2>1, <1>1, <1>4 DEF IInv, AwakeUnblocked
<1>7. BlocksForOp' /\ FreeUnblocked'
  <2>1. blockedOn[i] = <<>>
    BY <1>1, NoneAssumption DEF IInv, AwakeUnblocked
  <2>. QED
    BY <2>1, <1>1, <1>4 DEF IInv, BlocksForOp, FreeUnblocked
<1>8. EdgesRegistered' /\ StreamsWake' /\ EventsKnown' /\ TokensResolve'
  BY <1>1, TokensKept DEF IInv, EdgesRegistered, StreamsWake, EventsKnown
<1>. QED
  BY <1>3, <1>5, <1>6, <1>7, <1>8 DEF IInv, TypeOK, KernelTypes, MioTypes, CoTypes

-----------------------------------------------------------------------------
(* The event loop *)

\* A coroutine that is woken tries again.
LEMMA ResumeStep ==
  ASSUME IInv, Resume
  PROVE  IInv'
<1>1. /\ running = None /\ ready # <<>> /\ running' = Head(ready) /\ ready' = Tail(ready)
      /\ UNCHANGED <<pipe, data, conn, room, hup, registered, edges, batch>>
      /\ UNCHANGED <<op, pc, failed, ops, spawns, blockedOn, panicked>>
  BY DEF Resume, kernelVars, mioVars, coVars
<1>2. /\ Len(ready) \in Nat \ {0} /\ DOMAIN ready = 1 .. Len(ready)
      /\ Head(ready) = ready[1] /\ 1 \in DOMAIN ready /\ ready[1] \in Id
      /\ Tail(ready) \in Seq(Id) /\ DOMAIN Tail(ready) = 1 .. Len(ready) - 1
      /\ \A n \in 1 .. Len(ready) - 1 : /\ Tail(ready)[n] = ready[n + 1]
                                       /\ n + 1 \in DOMAIN ready /\ n + 1 # 1
  <2>1. ready \in Seq(Id) /\ ready # <<>>
    BY <1>1 DEF IInv, TypeOK
  <2>2. /\ Len(ready) \in Nat \ {0} /\ DOMAIN ready = 1 .. Len(ready)
        /\ \A n \in 1 .. Len(ready) : ready[n] \in Id
    BY <2>1, LenProperties, EmptySeq
  <2>3. /\ Tail(ready) \in Seq(Id) /\ Len(Tail(ready)) = Len(ready) - 1
        /\ \A n \in 1 .. Len(Tail(ready)) : Tail(ready)[n] = ready[n + 1]
        /\ Head(ready) = ready[1]
    BY <2>1, HeadTailProperties
  <2>4. DOMAIN Tail(ready) = 1 .. Len(ready) - 1
    BY <2>3, LenProperties
  <2>. QED
    BY <2>1, <2>2, <2>3, <2>4
<1>3. TypeOK'
  BY <1>1, <1>2 DEF IInv, TypeOK
<1>4. AwakeUnblocked'
  <2>1. running' = ready[1] /\ blockedOn'[running'] = <<>> /\ pc'[running'] # "free"
    BY <1>1, <1>2 DEF IInv, AwakeUnblocked
  <2>2. ASSUME NEW n \in DOMAIN (ready')
        PROVE  blockedOn'[ready'[n]] = <<>> /\ pc'[ready'[n]] # "free" /\ ready'[n] # running'
    BY <2>1, <2>2, <1>1, <1>2 DEF IInv, AwakeUnblocked
  <2>3. ASSUME NEW m \in DOMAIN (ready'), NEW n \in DOMAIN (ready'), ready'[m] = ready'[n]
        PROVE  m = n
    <3>1. m \in Nat /\ n \in Nat /\ m + 1 = n + 1
      BY <2>3, <1>1, <1>2 DEF IInv, AwakeUnblocked
    <3>. QED
      BY <3>1
  <2>. QED
    BY <2>1, <2>2, <2>3 DEF AwakeUnblocked
<1>5. /\ FreeUnblocked' /\ BlocksForOp' /\ EdgesRegistered' /\ StreamsWake'
      /\ EventsKnown' /\ TokensResolve'
  BY <1>1, TokensKept
  DEF IInv, FreeUnblocked, BlocksForOp, EdgesRegistered, StreamsWake, EventsKnown
<1>. QED
  BY <1>3, <1>4, <1>5 DEF IInv

\* What epoll reports of a registered source: of a stream, something that wakes.
LEMMA KindsFacts ==
  ASSUME IInv, NEW i \in Id, NEW s \in Source, registered[i][s] # None
  PROVE  /\ registered[i][s].token \in Nat
         /\ Kinds(i, s) \subseteq {"in", "out", "hup", "err"}
         /\ ~pipe /\ Kinds(i, s) # {} => Wakes(Kinds(i, s))
<1>1. registered[i][s] \in [token : Nat, interest : SUBSET {"in", "out", "hup"}]
  BY DEF IInv, TypeOK
<1>2. Readiness(i, s) \subseteq {"in", "out", "hup", "err"}
  BY DEF Readiness
<1>3. ~pipe /\ "err" \in Readiness(i, s) => "hup" \in Readiness(i, s)
  BY DEF Readiness
<1>. QED
  BY <1>1, <1>2, <1>3 DEF Kinds, Wakes

\* mio delivers an event to the coroutine that its token names.
LEMMA PollStep ==
  ASSUME IInv, Poll
  PROVE  IInv'
<1>1. /\ batch' = {[token |-> registered[e[1]][e[2]].token, kinds |-> Kinds(e[1], e[2])] :
                     e \in {f \in edges : Kinds(f[1], f[2]) # {}}}
      /\ edges' = {}
      /\ UNCHANGED <<pipe, data, conn, room, hup, registered, op, pc, failed, ops, spawns>>
      /\ UNCHANGED <<blockedOn, running, ready, panicked>>
  BY DEF Poll, kernelVars, coVars
<1>2. ASSUME NEW e \in edges
      PROVE  e[1] \in Id /\ e[2] \in Source /\ registered[e[1]][e[2]] # None
  <2>1. e \in Id \X Source
    BY DEF IInv, TypeOK
  <2>2. e[1] \in Id /\ e[2] \in Source /\ e = <<e[1], e[2]>>
    BY <2>1
  <2>. QED
    BY <2>2 DEF IInv, EdgesRegistered
<1>3. ASSUME NEW m \in batch'
      PROVE  /\ m \in [token : Nat, kinds : SUBSET {"in", "out", "hup", "err"}]
             /\ ~pipe => Wakes(m.kinds)
  <2>1. PICK e \in edges : /\ Kinds(e[1], e[2]) # {}
                           /\ m = [token |-> registered[e[1]][e[2]].token, kinds |-> Kinds(e[1], e[2])]
    BY <1>1, <1>3
  <2>2. /\ registered[e[1]][e[2]].token \in Nat
        /\ Kinds(e[1], e[2]) \subseteq {"in", "out", "hup", "err"}
        /\ ~pipe => Wakes(Kinds(e[1], e[2]))
    BY <2>1, <1>2, KindsFacts
  <2>. QED
    BY <2>1, <2>2
<1>4. TypeOK'
  BY <1>1, <1>3 DEF IInv, TypeOK
<1>5. /\ AwakeUnblocked' /\ FreeUnblocked' /\ BlocksForOp' /\ EdgesRegistered'
      /\ EventsKnown' /\ TokensResolve'
  BY <1>1, TokensKept
  DEF IInv, AwakeUnblocked, FreeUnblocked, BlocksForOp, EdgesRegistered, EventsKnown
<1>6. StreamsWake'
  BY <1>1, <1>3 DEF StreamsWake
<1>. QED
  BY <1>4, <1>5, <1>6 DEF IInv

\* deregister_all and the events that are left of the batch.
LEMMA DeliverStep ==
  ASSUME IInv, Deliver
  PROVE  IInv'
<1>. PICK e \in batch :
       LET i == token_to_ids(e.token).co
           blocked == i \in Id /\ pc[i] # "free" /\ blockedOn[i] # <<>>
       IN /\ batch' = batch \ {e}
          /\ panicked' = (blocked /\ ~Wakes(e.kinds))
          /\ IF blocked /\ Wakes(e.kinds)
               THEN Unblock(i)
               ELSE UNCHANGED <<registered, edges, blockedOn, running>>
  BY DEF Deliver
<1>. DEFINE i == token_to_ids(e.token).co
            blocked == i \in Id /\ pc[i] # "free" /\ blockedOn[i] # <<>>
<1>1. /\ running = None /\ ready = <<>> /\ batch' = batch \ {e}
      /\ panicked' = (blocked /\ ~Wakes(e.kinds))
      /\ UNCHANGED <<pipe, data, conn, room, hup, op, pc, failed, ops, spawns, ready>>
  BY DEF Deliver, Idle, kernelVars, coVars
<1>2. IF blocked /\ Wakes(e.kinds)
        THEN Unblock(i) ELSE UNCHANGED <<registered, edges, blockedOn, running>>
  OBVIOUS
<1>. HIDE DEF i, blocked
<1>3. EventsKnown'
  BY <1>1 DEF IInv, StreamsWake, EventsKnown
<1>4. panicked' \in BOOLEAN
  BY <1>1
<1>5. KernelTypes'
  BY <1>1, <1>4 DEF IInv, TypeOK, KernelTypes
<1>6. StreamsWake' /\ BlocksForOp'
  BY <1>1 DEF IInv, StreamsWake, BlocksForOp
<1>7. CASE ~ (blocked /\ Wakes(e.kinds))
  <2>1. UNCHANGED <<registered, edges, blockedOn, running>>
    BY <1>2, <1>7
  <2>2. MioTypes' /\ CoTypes'
    <3>1. batch \subseteq [token : Nat, kinds : SUBSET {"in", "out", "hup", "err"}]
      BY DEF IInv, TypeOK
    <3>2. MioTypes /\ CoTypes
      BY Parts
    <3>3. batch' \subseteq batch
      BY <1>1
    <3>4. MioTypes'
      BY <3>2, <3>3, <2>1 DEF MioTypes
    <3>5. CoTypes'
      BY <3>2, <2>1, <1>1 DEF CoTypes
    <3>. QED
      BY <3>4, <3>5
  <2>3. AwakeUnblocked' /\ FreeUnblocked' /\ EdgesRegistered'
    BY <2>1, <1>1 DEF IInv, AwakeUnblocked, FreeUnblocked, EdgesRegistered
  <2>4. TokensResolve'
    BY <2>1, TokensKept DEF IInv
  <2>5. TypeOK'
    BY <2>2, <1>5 DEF TypeOK, KernelTypes, MioTypes, CoTypes
  <2>. QED
    BY <2>3, <2>4, <2>5, <1>3, <1>6 DEF IInv
<1>8. CASE blocked /\ Wakes(e.kinds)
  <2>1. /\ i \in Id /\ pc[i] # "free"
        /\ registered' = [registered EXCEPT ![i] = [s \in Source |-> None]]
        /\ edges' = {f \in edges : f[1] # i}
        /\ blockedOn' = [blockedOn EXCEPT ![i] = <<>>]
        /\ running' = i
    BY <1>2, <1>8 DEF Unblock, blocked
  <2>2. /\ blockedOn'[i] = <<>> /\ \A j \in Id : j # i => blockedOn'[j] = blockedOn[j]
        /\ \A s \in Source : registered'[i][s] = None
        /\ \A j \in Id : j # i => registered'[j] = registered[j]
    BY <2>1 DEF IInv, TypeOK
  <2>3. MioTypes' /\ CoTypes'
    BY <2>1, <1>1 DEF IInv, TypeOK, MioTypes, CoTypes
  <2>4. AwakeUnblocked' /\ FreeUnblocked'
    <3>1. DOMAIN (ready') = {}
      BY <1>1
    <3>. QED
      BY <3>1, <2>1, <2>2, <1>1 DEF IInv, AwakeUnblocked, FreeUnblocked
  <2>5. EdgesRegistered'
    BY <2>1, <2>2 DEF IInv, EdgesRegistered
  <2>6. TokensResolve'
    BY <2>2, TokensKept DEF IInv
  <2>. QED
    BY <2>3, <2>4, <2>5, <2>6, <1>3, <1>5, <1>6 DEF IInv, TypeOK, KernelTypes, MioTypes, CoTypes
<1>. QED
  BY <1>7, <1>8

-----------------------------------------------------------------------------
(* The theorems *)

\* At first nothing is registered.
LEMMA InitIInv == Init => IInv
<1>. SUFFICES ASSUME Init PROVE IInv
  OBVIOUS
<1>1. Id = 1 .. MaxId /\ MaxId \in Nat
  BY BoundsAssumption DEF Id, STARTING_ID
<1>2. ready \in Seq(Id) /\ DOMAIN ready = Id /\ \A n \in Id : ready[n] = n
  <2>1. ready = [n \in 1 .. MaxId |-> n]
    BY <1>1 DEF Init
  <2>2. ready \in [1 .. MaxId -> Id]
    BY <2>1, <1>1
  <2>. QED
    BY <2>1, <2>2, <1>1, SeqDef
<1>3. KernelTypes
  <2>1. conn \in [Id -> {"none", "pending", "up", "gone"}]
    BY DEF Init, FirstConn
  <2>. QED
    BY <2>1 DEF Init, KernelTypes
<1>4. MioTypes
  BY DEF Init, MioTypes
<1>5. CoTypes
  BY <1>2, BoundsAssumption DEF Init, CoTypes
<1>6. AwakeUnblocked
  <2>1. \A n \in Id : n # None
    BY NoneAssumption
  <2>. QED
    BY <1>2, <2>1 DEF Init, AwakeUnblocked
<1>7. FreeUnblocked /\ BlocksForOp /\ EdgesRegistered /\ StreamsWake /\ TokensResolve /\ EventsKnown
  BY DEF Init, FreeUnblocked, BlocksForOp, EdgesRegistered, StreamsWake, TokensResolve, EventsKnown
<1>. QED
  BY <1>3, <1>4, <1>5, <1>6, <1>7 DEF IInv, TypeOK, KernelTypes, MioTypes, CoTypes

\* Every step keeps the invariant: one lemma above for each.
LEMMA StepIInv == IInv /\ [Next]_vars => IInv'
<1>. SUFFICES ASSUME IInv, [Next]_vars PROVE IInv'
  OBVIOUS
<1>1. ASSUME NEW i \in Id, Run(i) PROVE IInv'
  BY <1>1, OperationStep, BlockStep, SpawnStep, FinishStep DEF Run
<1>2. CASE UNCHANGED vars
  <2>1. /\ UNCHANGED <<pipe, data, conn, room, hup, registered, edges, batch, op, pc, failed>>
        /\ UNCHANGED <<ops, spawns, blockedOn, running, ready, panicked>>
    BY <1>2 DEF vars, kernelVars, mioVars, coVars
  <2>2. KernelTypes' /\ BlocksForOp'
    BY <2>1 DEF IInv, TypeOK, KernelTypes, BlocksForOp
  <2>. QED
    BY <2>1, <2>2, LocalStep DEF IInv, TypeOK, mioVars
<1>. QED
  BY <1>1, <1>2, ResumeStep, PollStep, DeliverStep, PeerStep DEF Next, Step

\* The invariant is inductive.
THEOREM InvariantHolds == Spec => []IInv
BY InitIInv, StepIInv, PTL DEF Spec

\* In every behaviour the variables have their types: among others the event loop
\* runs coroutines that are in the slab.
THEOREM TypeCorrect == Spec => []TypeOK
<1>1. IInv => TypeOK
  BY DEF IInv
<1>. QED
  BY <1>1, InvariantHolds, PTL

\* The token of every registered source leads back to its coroutine and its place
\* in blocked_on, whatever slab entries have been used again.
THEOREM TokensLeadBack == Spec => []TokensResolve
<1>1. IInv => TokensResolve
  BY DEF IInv
<1>. QED
  BY <1>1, InvariantHolds, PTL

\* The panic!() of CoroutineSlabHandle::event is for pipes only.
THEOREM StreamsNeverPanic == Spec => []EventsKnown
<1>1. IInv => EventsKnown
  BY DEF IInv
<1>. QED
  BY <1>1, InvariantHolds, PTL

-----------------------------------------------------------------------------
(* Wake-ups: the second invariant *)

\* blocked_on is what is registered, with both kinds of interest that it needs.
RegisteredWaits ==
  \A i \in Id : \A s \in Range(blockedOn[i]) :
    s \in Source /\ registered[i][s] # None /\ registered[i][s].interest = Interest(s)

\* Who is blocked is so for what it is doing.
WaitsForOp ==
  \A i \in Id : blockedOn[i] # <<>> =>
    op[i] \in DOMAIN Waits /\ blockedOn[i] \in Waits[op[i]] /\ pc[i] = "try"

\* Who is not in an operation, waits for none.
IdleInUser == \A i \in Id : pc[i] \in {"free", "user"} => op[i] = "none"

\* A new connection takes data: that is how connect() is told.
ConnectedHasRoom == \A i \in Id : op[i] = "connect" /\ conn[i] = "up" => room[i]

\* What is reported of a source that somebody is blocked on, is on its way to it.
EventUnderway ==
  ~panicked => \A i \in Id : \A s \in Range(blockedOn[i]) : Kinds(i, s) # {} =>
    <<i, s>> \in edges \/ \E e \in batch : token_to_ids(e.token).co = i

WInv ==
  /\ RegisteredWaits
  /\ WaitsForOp
  /\ IdleInUser
  /\ ConnectedHasRoom
  /\ EventUnderway

\* epoll says of a source what it said before, unless its socket has changed.
LEMMA KindsKept ==
  ASSUME NEW j \in Id, NEW s \in Source, pipe' = pipe,
         registered'[j][s] = registered[j][s],
         s = "rx" => data'[j] = data[j],
         s = "tx" => conn'[j] = conn[j] /\ room'[j] = room[j] /\ hup'[j] = hup[j]
  PROVE  Kinds(j, s)' = Kinds(j, s)
<1>1. Readiness(j, s)' = Readiness(j, s)
  BY DEF Readiness, Source
<1>. QED
  BY <1>1 DEF Kinds

\* What an operation needs is something that epoll reports of a source in its list.
LEMMA SatisfiedIsReported ==
  ASSUME IInv, RegisteredWaits, WaitsForOp, ConnectedHasRoom,
         NEW i \in Id, blockedOn[i] # <<>>, Satisfied(i)
  PROVE  \E s \in Range(blockedOn[i]) : Kinds(i, s) # {}
<1>. DEFINE q == blockedOn[i]
<1>1. op[i] \in DOMAIN Waits /\ q \in Waits[op[i]]
  BY DEF WaitsForOp
<1>2. op[i] \in {"recv", "send", "connect", "select"}
  BY <1>1 DEF Waits
<1>3. /\ op[i] = "recv" => q = <<"rx">>
      /\ op[i] \in {"send", "connect"} => q = <<"tx">>
      /\ op[i] = "select" => q = <<"rx", "tx">>
  BY <1>1, <1>2 DEF Waits
<1>4. /\ op[i] \in {"recv", "select"} => "rx" \in Range(q)
      /\ op[i] \in {"send", "connect", "select"} => "tx" \in Range(q)
  <2>1. CASE op[i] = "recv"
    <3>1. q = <<"rx">> /\ 1 \in DOMAIN q /\ q[1] = "rx"
      BY <2>1, <1>3
    <3>. QED
      BY <3>1, <2>1 DEF Range
  <2>2. CASE op[i] \in {"send", "connect"}
    <3>1. q = <<"tx">> /\ 1 \in DOMAIN q /\ q[1] = "tx"
      BY <2>2, <1>3
    <3>. QED
      BY <3>1, <2>2 DEF Range
  <2>3. CASE op[i] = "select"
    <3>1. q = <<"rx", "tx">> /\ {1, 2} \subseteq DOMAIN q /\ q[1] = "rx" /\ q[2] = "tx"
      BY <2>3, <1>3
    <3>. QED
      BY <3>1, <2>3 DEF Range
  <2>. QED
    BY <2>1, <2>2, <2>3, <1>2
<1>5. \A s \in Range(q) : registered[i][s].interest = Interest(s)
  BY DEF RegisteredWaits
<1>. HIDE DEF q
<1>6. CASE op[i] \in {"recv", "select"} /\ data[i]
  <2>1. "in" \in Readiness(i, "rx") /\ "in" \in Interest("rx")
    BY <1>6 DEF Readiness, Interest
  <2>2. "rx" \in Range(q) /\ "in" \in Kinds(i, "rx")
    BY <2>1, <1>4, <1>5, <1>6 DEF Kinds
  <2>. QED
    BY <2>2 DEF q
<1>7. CASE op[i] \in {"send", "connect", "select"} /\ conn[i] = "gone"
  <2>1. "err" \in Readiness(i, "tx")
    BY <1>7 DEF Readiness
  <2>2. "tx" \in Range(q) /\ "err" \in Kinds(i, "tx")
    BY <2>1, <1>4, <1>7 DEF Kinds
  <2>. QED
    BY <2>2 DEF q
<1>8. CASE op[i] \in {"send", "connect", "select"} /\ conn[i] = "up" /\ room[i]
  <2>1. "out" \in Readiness(i, "tx") /\ "out" \in Interest("tx")
    BY <1>8 DEF Readiness, Interest
  <2>2. "tx" \in Range(q) /\ "out" \in Kinds(i, "tx")
    BY <2>1, <1>4, <1>5, <1>8 DEF Kinds
  <2>. QED
    BY <2>2 DEF q
<1>9. \/ op[i] \in {"recv", "select"} /\ data[i]
      \/ op[i] \in {"send", "connect", "select"} /\ conn[i] = "gone"
      \/ op[i] \in {"send", "connect", "select"} /\ conn[i] = "up" /\ room[i]
  <2>1. CASE op[i] = "recv"
    BY <2>1 DEF Satisfied
  <2>2. CASE op[i] = "send"
    BY <2>2 DEF Satisfied
  <2>3. CASE op[i] = "connect"
    BY <2>3 DEF Satisfied, ConnectedHasRoom
  <2>4. CASE op[i] = "select"
    BY <2>4 DEF Satisfied
  <2>. QED
    BY <2>1, <2>2, <2>3, <2>4, <1>2
<1>. QED
  BY <1>6, <1>7, <1>8, <1>9

\* A step of a coroutine that is not blocked, on its own sockets only.
LEMMA UnblockedKeepsWInv ==
  ASSUME IInv, WInv, NEW i \in Id, blockedOn[i] = <<>>,
         UNCHANGED <<pipe, registered, edges, batch, blockedOn, panicked>>,
         \A j \in Id : j # i => /\ data'[j] = data[j] /\ conn'[j] = conn[j]
                                /\ room'[j] = room[j] /\ hup'[j] = hup[j]
                                /\ op'[j] = op[j] /\ pc'[j] = pc[j],
         pc'[i] \in {"free", "user"} => op'[i] = "none",
         op'[i] = "connect" /\ conn'[i] = "up" => room'[i]
  PROVE  WInv'
<1>1. RegisteredWaits'
  BY DEF WInv, RegisteredWaits, Interest
<1>2. WaitsForOp' /\ IdleInUser' /\ ConnectedHasRoom'
  BY DEF WInv, WaitsForOp, IdleInUser, ConnectedHasRoom
<1>3. EventUnderway'
  <2>. SUFFICES ASSUME ~panicked', NEW j \in Id, NEW s \in Range(blockedOn[j]), Kinds(j, s)' # {}
                PROVE  <<j, s>> \in edges \/ \E e \in batch : token_to_ids(e.token).co = j
    BY DEF EventUnderway
  <2>1. j # i
    BY DEF Range
  <2>2. s \in Source
    BY DEF WInv, RegisteredWaits
  <2>3. Kinds(j, s)' = Kinds(j, s)
    BY <2>1, <2>2, KindsKept
  <2>. QED
    BY <2>3 DEF WInv, EventUnderway
<1>. QED
  BY <1>1, <1>2, <1>3 DEF WInv

\* read, write, accept, connect and select!, spawn() and the end of a coroutine:
\* all of a coroutine that runs, but block_on.
LEMMA RunKeepsWInv ==
  ASSUME IInv, WInv, NEW i \in Id,
         \/ Recv(i) \/ TryRecv(i) \/ Send(i) \/ TrySend(i) \/ Connect(i) \/ Connected(i)
         \/ Select(i) \/ Selected(i) \/ Spawn(i) \/ Finish(i)
  PROVE  WInv'
<1>1. /\ data \in [Id -> BOOLEAN] /\ room \in [Id -> BOOLEAN] /\ hup \in [Id -> BOOLEAN]
      /\ conn \in [Id -> {"none", "pending", "up", "gone"}]
      /\ op \in [Id -> DOMAIN Waits \cup {"none"}]
      /\ pc \in [Id -> {"free", "user", "try", "block"}]
  BY DEF IInv, TypeOK
<1>2. blockedOn[i] = <<>>
  <2>1. running = i => blockedOn[i] = <<>>
    BY NoneAssumption DEF IInv, AwakeUnblocked
  <2>2. pc[i] = "free" => blockedOn[i] = <<>>
    BY DEF IInv, FreeUnblocked
  <2>3. running = i \/ pc[i] = "free"
    BY DEF Recv, TryRecv, Send, TrySend, Connect, Connected, Select, Selected, Spawn, Finish,
           Begin, At
  <2>. QED
    BY <2>1, <2>2, <2>3
<1>3. UNCHANGED <<pipe, registered, edges, batch, blockedOn, panicked>>
  BY DEF Recv, TryRecv, Send, TrySend, Connect, Connected, Select, Selected, Spawn, Finish,
         Begin, Return, WouldBlock, mioVars
<1>4. \A j \in Id : j # i => data'[j] = data[j] /\ conn'[j] = conn[j]
  BY <1>1 DEF Recv, TryRecv, Send, TrySend, Connect, Connected, Select, Selected, Spawn, Finish,
              WouldBlock, kernelVars
<1>5. \A j \in Id : j # i => room'[j] = room[j] /\ hup'[j] = hup[j]
  BY <1>1 DEF Recv, TryRecv, Send, TrySend, Connect, Connected, Select, Selected, Spawn, Finish,
              WouldBlock, kernelVars
<1>6. \A j \in Id : j # i => op'[j] = op[j] /\ pc'[j] = pc[j]
  BY <1>1 DEF Recv, TryRecv, Send, TrySend, Connect, Connected, Select, Selected, Spawn, Finish,
              Begin, Return, WouldBlock
<1>7. pc[i] \in {"free", "user"} => op[i] = "none"
  BY DEF WInv, IdleInUser
<1>8. pc'[i] \in {"free", "user"} => op'[i] = "none"
  BY <1>1, <1>7
  DEF Recv, TryRecv, Send, TrySend, Connect, Connected, Select, Selected, Spawn, Finish,
      Begin, Return, WouldBlock, At
<1>9. op'[i] = "connect" /\ conn'[i] = "up" => room'[i]
  <2>1. CASE Connect(i)
    <3>1. PICK c \in {"pending", "up"} : conn' = [conn EXCEPT ![i] = c]
      BY <2>1 DEF Connect
    <3>2. room' = [room EXCEPT ![i] = conn'[i] = "up"]
      BY <2>1 DEF Connect
    <3>3. room'[i] = (conn'[i] = "up")
      BY <3>2, <1>1
    <3>. QED
      BY <3>3
  <2>2. CASE ~Connect(i)
    <3>1. op'[i] # "connect"
      BY <2>2, <1>1, <1>7
      DEF Recv, TryRecv, Send, TrySend, Connected, Select, Selected, Spawn, Finish,
          Begin, Return, WouldBlock, At
    <3>. QED
      BY <3>1
  <2>. QED
    BY <2>1, <2>2
<1>. QED
  BY <1>2, <1>3, <1>4, <1>5, <1>6, <1>8, <1>9, UnblockedKeepsWInv

\* block_on: register tells mio of what has become ready since the try as well.
LEMMA BlockKeepsWInv ==
  ASSUME IInv, WInv, NEW i \in Id, Block(i)
  PROVE  WInv'
<1>1. /\ op[i] \in DOMAIN Waits /\ pc'[i] = "try"
      /\ UNCHANGED <<pipe, data, conn, room, hup, batch, op, panicked>>
      /\ \A j \in Id : j # i =>
           pc'[j] = pc[j] /\ registered'[j] = registered[j] /\ blockedOn'[j] = blockedOn[j]
  BY BlockFacts
<1>2. PICK srcs \in Waits[op[i]] :
        /\ Range(srcs) \subseteq Source /\ blockedOn'[i] = srcs
        /\ edges' = edges \cup {<<i, s>> : s \in Range(srcs)}
        /\ \A s \in Range(srcs) :
             registered'[i][s] # None /\ registered'[i][s].interest = Interest(s)
  BY BlockFacts
<1>3. RegisteredWaits'
  BY <1>1, <1>2 DEF WInv, RegisteredWaits, Interest
<1>4. WaitsForOp' /\ IdleInUser' /\ ConnectedHasRoom'
  BY <1>1, <1>2 DEF WInv, WaitsForOp, IdleInUser, ConnectedHasRoom
<1>5. EventUnderway'
  <2>. SUFFICES ASSUME ~panicked, NEW j \in Id, NEW s \in Range(blockedOn'[j]), Kinds(j, s)' # {}
                PROVE  <<j, s>> \in edges' \/ \E e \in batch' : token_to_ids(e.token).co = j
    BY <1>1 DEF EventUnderway
  <2>1. CASE j = i
    BY <2>1, <1>2
  <2>2. CASE j # i
    <3>1. s \in Range(blockedOn[j]) /\ s \in Source
      BY <2>2, <1>1 DEF WInv, RegisteredWaits
    <3>2. Kinds(j, s)' = Kinds(j, s)
      BY <3>1, <2>2, <1>1, KindsKept
    <3>3. <<j, s>> \in edges \/ \E e \in batch : token_to_ids(e.token).co = j
      BY <3>1, <3>2 DEF WInv, EventUnderway
    <3>. QED
      BY <3>3, <1>1, <1>2
  <2>. QED
    BY <2>1, <2>2
<1>. QED
  BY <1>3, <1>4, <1>5 DEF WInv

\* A socket changes: what is registered gets an edge.
LEMMA PeerKeepsWInv ==
  ASSUME IInv, WInv, Peer
  PROVE  WInv'
<1>. PICK i \in Id :
       Arrive(i) \/ Established(i) \/ Drained(i) \/ PeerShutdown(i) \/ PeerGone(i)
  BY DEF Peer
<1>1. /\ data \in [Id -> BOOLEAN] /\ room \in [Id -> BOOLEAN] /\ hup \in [Id -> BOOLEAN]
      /\ conn \in [Id -> {"none", "pending", "up", "gone"}]
  BY DEF IInv, TypeOK
<1>2. UNCHANGED <<pipe, registered, batch, blockedOn, op, pc, panicked>>
  BY DEF Arrive, Established, Drained, PeerShutdown, PeerGone, loopVars, coVars
<1>3. PICK s \in Source :
        /\ Notice(i, s)
        /\ s = "rx" => UNCHANGED <<conn, room, hup>>
        /\ s = "tx" => UNCHANGED data
  <2>1. "rx" # "tx" /\ "rx" \in Source /\ "tx" \in Source
    BY DEF Source
  <2>2. CASE Arrive(i)
    BY <2>1, <2>2 DEF Arrive
  <2>3. CASE ~Arrive(i)
    BY <2>1, <2>3 DEF Established, Drained, PeerShutdown, PeerGone
  <2>. QED
    BY <2>2, <2>3
<1>4. \A j \in Id : j # i => data'[j] = data[j] /\ conn'[j] = conn[j]
  BY <1>1 DEF Arrive, Established, Drained, PeerShutdown, PeerGone
<1>5. \A j \in Id : j # i => room'[j] = room[j] /\ hup'[j] = hup[j]
  BY <1>1 DEF Arrive, Established, Drained, PeerShutdown, PeerGone
<1>6. op[i] = "connect" /\ conn'[i] = "up" => room'[i]
  <2>1. CASE Arrive(i) \/ PeerShutdown(i)
    BY <2>1 DEF Arrive, PeerShutdown, WInv, ConnectedHasRoom
  <2>2. CASE Established(i) \/ Drained(i)
    BY <2>2, <1>1 DEF Established, Drained
  <2>3. CASE PeerGone(i)
    BY <2>3, <1>1 DEF PeerGone
  <2>. QED
    BY <2>1, <2>2, <2>3
<1>7. RegisteredWaits' /\ WaitsForOp' /\ IdleInUser' /\ ConnectedHasRoom'
  BY <1>2, <1>4, <1>5, <1>6
  DEF WInv, RegisteredWaits, WaitsForOp, IdleInUser, ConnectedHasRoom, Interest
<1>8. EventUnderway'
  <2>. SUFFICES ASSUME ~panicked, NEW j \in Id, NEW r \in Range(blockedOn[j]), Kinds(j, r)' # {}
                PROVE  <<j, r>> \in edges' \/ \E e \in batch : token_to_ids(e.token).co = j
    BY <1>2 DEF EventUnderway
  <2>1. r \in Source /\ registered[j][r] # None
    BY DEF WInv, RegisteredWaits
  <2>2. edges \subseteq edges'
    BY <1>3 DEF Notice
  <2>3. CASE j = i /\ r = s
    BY <2>3, <2>1, <1>3 DEF Notice
  <2>4. CASE ~(j = i /\ r = s)
    <3>1. /\ r = "rx" => data'[j] = data[j]
          /\ r = "tx" => conn'[j] = conn[j] /\ room'[j] = room[j] /\ hup'[j] = hup[j]
      BY <2>1, <2>4, <1>3, <1>4, <1>5 DEF Source
    <3>2. Kinds(j, r)' = Kinds(j, r)
      BY <3>1, <2>1, <1>2, KindsKept
    <3>. QED
      BY <3>2, <2>2 DEF WInv, EventUnderway
  <2>. QED
    BY <2>3, <2>4
<1>. QED
  BY <1>7, <1>8 DEF WInv

\* A step that leaves the sockets, mio and what the coroutines wait for alone.
LEMMA QuietKeepsWInv ==
  ASSUME WInv, UNCHANGED <<pipe, data, conn, room, hup, registered, edges, batch>>,
         UNCHANGED <<op, pc, blockedOn, panicked>>
  PROVE  WInv'
<1>1. RegisteredWaits' /\ WaitsForOp' /\ IdleInUser' /\ ConnectedHasRoom'
  BY DEF WInv, RegisteredWaits, WaitsForOp, IdleInUser, ConnectedHasRoom, Interest
<1>2. EventUnderway'
  BY DEF WInv, EventUnderway, Kinds, Readiness
<1>. QED
  BY <1>1, <1>2 DEF WInv

\* The edges become events with the tokens of those that wait.
LEMMA PollKeepsWInv ==
  ASSUME IInv, WInv, Poll
  PROVE  WInv'
<1>1. /\ batch = {}
      /\ batch' = {[token |-> registered[e[1]][e[2]].token, kinds |-> Kinds(e[1], e[2])] :
                     e \in {f \in edges : Kinds(f[1], f[2]) # {}}}
      /\ UNCHANGED <<pipe, data, conn, room, hup, registered, op, pc, blockedOn, panicked>>
  BY DEF Poll, kernelVars, coVars
<1>2. RegisteredWaits' /\ WaitsForOp' /\ IdleInUser' /\ ConnectedHasRoom'
  BY <1>1 DEF WInv, RegisteredWaits, WaitsForOp, IdleInUser, ConnectedHasRoom, Interest
<1>3. EventUnderway'
  <2>. SUFFICES ASSUME ~panicked, NEW j \in Id, NEW s \in Range(blockedOn[j]), Kinds(j, s)' # {}
                PROVE  \E e \in batch' : token_to_ids(e.token).co = j
    BY <1>1 DEF EventUnderway
  <2>1. s \in Source /\ registered[j][s] # None
    BY DEF WInv, RegisteredWaits
  <2>2. Kinds(j, s) # {}
    BY <2>1, <1>1, KindsKept
  <2>3. <<j, s>> \in edges
    BY <2>2, <1>1 DEF WInv, EventUnderway
  <2>4. [token |-> registered[j][s].token, kinds |-> Kinds(j, s)] \in batch'
    <3>1. PICK f \in edges : f = <<j, s>>
      BY <2>3
    <3>2. f[1] = j /\ f[2] = s
      BY <3>1
    <3>3. Kinds(f[1], f[2]) # {}
      BY <3>2, <2>2
    <3>4. [token |-> registered[f[1]][f[2]].token, kinds |-> Kinds(f[1], f[2])] \in batch'
      BY <3>3, <1>1
    <3>. QED
      BY <3>2, <3>4
  <2>5. token_to_ids(registered[j][s].token).co = j
    BY <2>1 DEF IInv, TokensResolve
  <2>. QED
    BY <2>4, <2>5
<1>. QED
  BY <1>2, <1>3 DEF WInv

\* An event that is consumed wakes the coroutine that its token names, whatever
\* else that waits for; or the coroutine is not blocked.
LEMMA DeliverKeepsWInv ==
  ASSUME IInv, WInv, Deliver
  PROVE  WInv'
<1>. PICK e \in batch :
       LET i == token_to_ids(e.token).co
           blocked == i \in Id /\ pc[i] # "free" /\ blockedOn[i] # <<>>
       IN /\ batch' = batch \ {e}
          /\ panicked' = (blocked /\ ~Wakes(e.kinds))
          /\ IF blocked /\ Wakes(e.kinds)
               THEN Unblock(i)
               ELSE UNCHANGED <<registered, edges, blockedOn, running>>
  BY DEF Deliver
<1>. DEFINE i == token_to_ids(e.token).co
            blocked == i \in Id /\ pc[i] # "free" /\ blockedOn[i] # <<>>
<1>1. /\ ~panicked /\ batch' = batch \ {e}
      /\ panicked' = (blocked /\ ~Wakes(e.kinds))
      /\ UNCHANGED <<pipe, data, conn, room, hup, op, pc>>
  BY DEF Deliver, Idle, kernelVars, coVars
<1>2. IF blocked /\ Wakes(e.kinds)
        THEN Unblock(i) ELSE UNCHANGED <<registered, edges, blockedOn, running>>
  OBVIOUS
<1>3. token_to_ids(e.token).co = i
  OBVIOUS
<1>. HIDE DEF i
<1>4. IdleInUser' /\ ConnectedHasRoom'
  BY <1>1 DEF WInv, IdleInUser, ConnectedHasRoom
<1>5. CASE ~(blocked /\ Wakes(e.kinds))
  <2>1. UNCHANGED <<registered, edges, blockedOn>>
    BY <1>2, <1>5
  <2>2. RegisteredWaits' /\ WaitsForOp'
    BY <2>1, <1>1 DEF WInv, RegisteredWaits, WaitsForOp, Interest
  <2>3. EventUnderway'
    <3>. SUFFICES ASSUME ~panicked', NEW j \in Id, NEW s \in Range(blockedOn[j]), Kinds(j, s)' # {}
                  PROVE  <<j, s>> \in edges \/ \E f \in batch' : token_to_ids(f.token).co = j
      BY <2>1 DEF EventUnderway
    <3>1. ~blocked
      BY <1>1, <1>5
    <3>2. blockedOn[j] # <<>> /\ s \in Source
      BY DEF Range, WInv, RegisteredWaits
    <3>3. pc[j] = "try"
      BY <3>2 DEF WInv, WaitsForOp
    <3>4. j # i
      BY <3>1, <3>2, <3>3
    <3>5. Kinds(j, s)' = Kinds(j, s)
      BY <3>2, <2>1, <1>1, KindsKept
    <3>6. <<j, s>> \in edges \/ \E f \in batch : token_to_ids(f.token).co = j
      BY <3>5, <1>1 DEF WInv, EventUnderway
    <3>. QED
      BY <3>4, <3>6, <1>1, <1>3
  <2>. QED
    BY <2>2, <2>3, <1>4 DEF WInv
<1>6. CASE blocked /\ Wakes(e.kinds)
  <2>1. /\ i \in Id /\ ~panicked'
        /\ registered' = [registered EXCEPT ![i] = [s \in Source |-> None]]
        /\ edges' = {f \in edges : f[1] # i}
        /\ blockedOn' = [blockedOn EXCEPT ![i] = <<>>]
    BY <1>1, <1>2, <1>6 DEF Unblock
  <2>2. /\ blockedOn'[i] = <<>> /\ \A j \in Id : j # i => blockedOn'[j] = blockedOn[j]
        /\ \A j \in Id : j # i => registered'[j] = registered[j]
    BY <2>1 DEF IInv, TypeOK
  <2>3. RegisteredWaits' /\ WaitsForOp'
    <3>1. Range(blockedOn'[i]) = {}
      BY <2>2 DEF Range
    <3>2. RegisteredWaits /\ WaitsForOp
      BY DEF WInv
    <3>3. RegisteredWaits'
      BY <3>1, <3>2, <2>2 DEF RegisteredWaits, Interest
    <3>4. WaitsForOp'
      BY <3>2, <2>2, <1>1 DEF WaitsForOp
    <3>. QED
      BY <3>3, <3>4
  <2>4. EventUnderway'
    <3>. SUFFICES ASSUME NEW j \in Id, NEW s \in Range(blockedOn'[j]), Kinds(j, s)' # {}
                  PROVE  <<j, s>> \in edges' \/ \E f \in batch' : token_to_ids(f.token).co = j
      BY DEF EventUnderway
    <3>1. j # i
      BY <2>2 DEF Range
    <3>2. s \in Range(blockedOn[j]) /\ s \in Source
      BY <3>1, <2>2 DEF WInv, RegisteredWaits
    <3>3. Kinds(j, s)' = Kinds(j, s)
      BY <3>1, <3>2, <2>2, <1>1, KindsKept
    <3>4. <<j, s>> \in edges \/ \E f \in batch : token_to_ids(f.token).co = j
      BY <3>2, <3>3, <1>1 DEF WInv, EventUnderway
    <3>5. <<j, s>> \in edges => <<j, s>> \in edges'
      BY <3>1, <2>1
    <3>6. \A f \in batch : token_to_ids(f.token).co = j => f \in batch'
      BY <3>1, <1>1, <1>3
    <3>. QED
      BY <3>4, <3>5, <3>6
  <2>. QED
    BY <2>3, <2>4, <1>4 DEF WInv
<1>. QED
  BY <1>5, <1>6

\* Nobody is blocked at first.
LEMMA InitWInv == Init => WInv
<1>1. Range(<<>>) = {}
  BY DEF Range
<1>2. Init => RegisteredWaits /\ WaitsForOp /\ EventUnderway
  BY <1>1 DEF Init, RegisteredWaits, WaitsForOp, EventUnderway
<1>3. Init => IdleInUser /\ ConnectedHasRoom
  BY DEF Init, IdleInUser, ConnectedHasRoom
<1>. QED
  BY <1>2, <1>3 DEF WInv

\* Every step keeps the second invariant.
LEMMA StepWInv == IInv /\ WInv /\ [Next]_vars => WInv'
<1>. SUFFICES ASSUME IInv, WInv, [Next]_vars PROVE WInv'
  OBVIOUS
<1>1. ASSUME NEW i \in Id, Run(i) PROVE WInv'
  BY <1>1, RunKeepsWInv, BlockKeepsWInv DEF Run
<1>2. CASE Resume \/ UNCHANGED vars
  <2>1. UNCHANGED <<pipe, data, conn, room, hup, registered, edges, batch>>
    BY <1>2 DEF Resume, vars, kernelVars, mioVars
  <2>2. UNCHANGED <<op, pc, blockedOn, panicked>>
    BY <1>2 DEF Resume, vars, coVars
  <2>. QED
    BY <2>1, <2>2, QuietKeepsWInv
<1>. QED
  BY <1>1, <1>2, PollKeepsWInv, DeliverKeepsWInv, PeerKeepsWInv DEF Next, Step

\* No edge of a socket is lost between a try, block_on, the poll and an unblock: who
\* is blocked on something that can be done has an edge or an event of its own.
THEOREM EventsAreNotLost == Spec => []NoLostEvent
<1>1. IInv /\ WInv => NoLostEvent
  <2>. SUFFICES ASSUME IInv, WInv, ~panicked, NEW i \in Id, blockedOn[i] # <<>>, Satisfied(i)
                PROVE  \/ \E s \in Range(blockedOn[i]) : <<i, s>> \in edges /\ Kinds(i, s) # {}
                       \/ \E e \in batch : token_to_ids(e.token).co = i
    BY DEF NoLostEvent
  <2>1. PICK s \in Range(blockedOn[i]) : Kinds(i, s) # {}
    BY SatisfiedIsReported DEF WInv
  <2>. QED
    BY <2>1 DEF WInv, EventUnderway
<1>. QED
  BY <1>1, InvariantHolds, InitWInv, StepWInv, PTL DEF Spec
=============================================================================
