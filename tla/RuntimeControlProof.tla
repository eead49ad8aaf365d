------------------------ MODULE RuntimeControlProof ------------------------
(***************************************************************************)
(* Who owns a coroutine: the proof of OneControl for any number of threads *)
(* and coroutines.  Instead of counting controls it says which queue a     *)
(* coroutine is in, that it is in no other and that it is there once.      *)
(* After that, what rests on it: joins, and the end of the instance.       *)
(***************************************************************************)
EXTENDS RuntimeProof

-----------------------------------------------------------------------------
(* The inductive invariant *)

\* An element of X is in queue q, and there is one at most.
Has(q, X) == \E i \in DOMAIN q : q[i] \in X
Once(q, X) == \A i, j \in DOMAIN q : q[i] \in X /\ q[j] \in X => i = j

\* What stands for c in a queue of coroutines, a ready queue and a notify queue.
Self(c) == {c}
ControlsFor(c) == [co : {c}, yielding : BOOLEAN]
MigrationsOf(c) == {Migration(c)}

Owner == Coroutine \cup Thread
Kind == {"children", "spawned", "ready", "delayed", "inbox", "cur"}

\* The queue of kind k that belongs to o, or the thread o itself, holds c.
Holds(k, o, c) ==
  \/ k = "children" /\ o \in Coroutine /\ Has(children[o], Self(c))
  \/ k = "spawned" /\ o \in Thread /\ Has(spawned[o], Self(c))
  \/ k = "ready" /\ o \in Thread /\ Has(ready[o], ControlsFor(c))
  \/ k = "delayed" /\ o \in Thread /\ Has(delayed[o], Self(c))
  \/ k = "inbox" /\ o \in Thread /\ Has(inbox[o], MigrationsOf(c))
  \/ k = "cur" /\ o \in Thread /\ cur[o] = c

\* One holder and no other.
HeldAlone(c) ==
  \E k \in Kind, o \in Owner :
    /\ Holds(k, o, c)
    /\ \A l \in Kind, p \in Owner : Holds(l, p, c) => l = k /\ p = o

NotHeld(c) == \A k \in Kind, o \in Owner : ~Holds(k, o, c)

\* No queue holds c twice.
HeldOnce(c) ==
  /\ \A d \in Coroutine : Once(children[d], Self(c))
  /\ \A t \in Thread : /\ Once(spawned[t], Self(c))
                       /\ Once(ready[t], ControlsFor(c))
                       /\ Once(delayed[t], Self(c))
                       /\ Once(inbox[t], MigrationsOf(c))

\* A coroutine that can run has one holder, one that is blocked has none, and only
\* one that migrates is in no slab.
PlacedAt(c) ==
  /\ state[c] = "Ready" => HeldAlone(c) /\ HeldOnce(c)
  /\ state[c] = "Blocked" => NotHeld(c)
  /\ Live(c) /\ home[c] = None => \E t \in Thread : Holds("inbox", t, c)

Placed == \A c \in Coroutine \ killed : PlacedAt(c)

\* The broadcasts of a thread carry no coroutine.
NoneToMigrate == \A c \in Coroutine : ~InTodo(Migration(c))

-----------------------------------------------------------------------------
(* Queues *)

\* What is in a queue that is empty, longer by one, shorter by one, or two in a row.
LEMMA EmptyHolds ==
  ASSUME NEW X
  PROVE  ~Has(<<>>, X) /\ Once(<<>>, X)
BY DEF Has, Once

\* What is not in a queue is not in it twice.
LEMMA AbsentOnce ==
  ASSUME NEW q, NEW X, ~Has(q, X)
  PROVE  Once(q, X)
BY DEF Has, Once

\* Append.
LEMMA AppendHolds ==
  ASSUME NEW S, NEW q \in Seq(S), NEW x \in S, NEW X
  PROVE  /\ Has(Append(q, x), X) <=> Has(q, X) \/ x \in X
         /\ Once(q, X) /\ ~(x \in X /\ Has(q, X)) => Once(Append(q, x), X)
<1>1. Len(q) \in Nat /\ DOMAIN q = 1 .. Len(q)
  BY LenProperties
<1>2. /\ Append(q, x) \in Seq(S) /\ Len(Append(q, x)) = Len(q) + 1
      /\ \A k \in 1 .. Len(q) : Append(q, x)[k] = q[k]
      /\ Append(q, x)[Len(q) + 1] = x
  BY AppendProperties
<1>3. DOMAIN Append(q, x) = 1 .. Len(q) + 1
  BY <1>2, LenProperties
<1>4. \A i \in DOMAIN Append(q, x) : i \in DOMAIN q \/ i = Len(q) + 1
  BY <1>1, <1>3
<1>5. Len(q) + 1 \in DOMAIN Append(q, x) /\ \A i \in DOMAIN q : i \in DOMAIN Append(q, x)
  BY <1>1, <1>3
<1>. DEFINE r == Append(q, x)
            n == Len(q) + 1
<1>6. /\ \A i \in DOMAIN r : i \in DOMAIN q \/ i = n
      /\ n \in DOMAIN r /\ \A i \in DOMAIN q : i \in DOMAIN r /\ r[i] = q[i]
      /\ r[n] = x
  BY <1>1, <1>2, <1>4, <1>5
<1>. HIDE DEF r, n
<1>7. Has(r, X) <=> Has(q, X) \/ x \in X
  BY <1>6 DEF Has
<1>8. Once(q, X) /\ ~(x \in X /\ Has(q, X)) => Once(r, X)
  BY <1>6 DEF Has, Once
<1>. QED
  BY <1>7, <1>8 DEF r

\* Head and Tail.
LEMMA TailHolds ==
  ASSUME NEW S, NEW q \in Seq(S), q # <<>>, NEW X
  PROVE  /\ Has(q, X) <=> Head(q) \in X \/ Has(Tail(q), X)
         /\ Once(q, X) => Once(Tail(q), X) /\ ~(Head(q) \in X /\ Has(Tail(q), X))
<1>1. Len(q) \in Nat /\ DOMAIN q = 1 .. Len(q) /\ Len(q) # 0
  BY LenProperties, EmptySeq
<1>2. /\ Tail(q) \in Seq(S) /\ Len(Tail(q)) = Len(q) - 1 /\ Head(q) = q[1]
      /\ \A k \in 1 .. Len(Tail(q)) : Tail(q)[k] = q[k + 1]
  BY HeadTailProperties
<1>3. DOMAIN Tail(q) = 1 .. Len(q) - 1
  BY <1>2, LenProperties
<1>. DEFINE r == Tail(q)
<1>4. \A i \in DOMAIN r : i \in Nat /\ i # 0 /\ i + 1 \in DOMAIN q /\ r[i] = q[i + 1]
  BY <1>1, <1>2, <1>3
<1>5. \A i \in DOMAIN q : i \in Nat /\ (i = 1 \/ (i - 1 \in DOMAIN r /\ r[i - 1] = q[i]))
  BY <1>1, <1>2, <1>3
<1>6. 1 \in DOMAIN q /\ Head(q) = q[1]
  BY <1>1, <1>2
<1>. HIDE DEF r
<1>7. Has(q, X) <=> Head(q) \in X \/ Has(r, X)
  BY <1>4, <1>5, <1>6 DEF Has
<1>8. ASSUME Once(q, X) PROVE Once(r, X) /\ ~(Head(q) \in X /\ Has(r, X))
  <2>1. ASSUME NEW i \in DOMAIN r, NEW j \in DOMAIN r, r[i] \in X, r[j] \in X PROVE i = j
    <3>1. i + 1 = j + 1
      BY <1>4, <1>8, <2>1 DEF Once
    <3>. QED
      BY <3>1, <1>4
  <2>2. ASSUME NEW i \in DOMAIN r, r[i] \in X, Head(q) \in X PROVE FALSE
    <3>1. i + 1 = 1
      BY <1>4, <1>6, <1>8, <2>2 DEF Once
    <3>. QED
      BY <3>1, <1>4
  <2>. QED
    BY <2>1, <2>2 DEF Once, Has
<1>. QED
  BY <1>7, <1>8 DEF r

\* Concatenation.
LEMMA ConcatHolds ==
  ASSUME NEW S, NEW p \in Seq(S), NEW q \in Seq(S), NEW X
  PROVE  /\ Has(p \o q, X) <=> Has(p, X) \/ Has(q, X)
         /\ Once(p, X) /\ Once(q, X) /\ ~(Has(p, X) /\ Has(q, X)) => Once(p \o q, X)
<1>1. /\ Len(p) \in Nat /\ DOMAIN p = 1 .. Len(p)
      /\ Len(q) \in Nat /\ DOMAIN q = 1 .. Len(q)
  BY LenProperties
<1>2. /\ p \o q \in Seq(S) /\ Len(p \o q) = Len(p) + Len(q)
      /\ \A k \in 1 .. Len(p) + Len(q) :
           (p \o q)[k] = IF k <= Len(p) THEN p[k] ELSE q[k - Len(p)]
  BY ConcatProperties
<1>3. DOMAIN (p \o q) = 1 .. Len(p) + Len(q)
  BY <1>2, LenProperties
<1>. DEFINE r == p \o q
            n == Len(p)
<1>4. \A i \in DOMAIN r : /\ i \in Nat
                          /\ \/ i \in DOMAIN p /\ r[i] = p[i]
                             \/ i - n \in DOMAIN q /\ r[i] = q[i - n]
  <2>. SUFFICES ASSUME NEW i \in DOMAIN r
                PROVE  /\ i \in Nat
                       /\ \/ i \in DOMAIN p /\ r[i] = p[i]
                          \/ i - n \in DOMAIN q /\ r[i] = q[i - n]
    OBVIOUS
  <2>1. i \in 1 .. Len(p) + Len(q)
    BY <1>3
  <2>2. CASE i <= n
    BY <1>1, <1>2, <2>1, <2>2
  <2>3. CASE ~(i <= n)
    BY <1>1, <1>2, <2>1, <2>3
  <2>. QED
    BY <2>2, <2>3
<1>5. \A i \in DOMAIN p : i \in DOMAIN r /\ r[i] = p[i]
  BY <1>1, <1>2, <1>3
<1>6. \A i \in DOMAIN q : i + n \in DOMAIN r /\ r[i + n] = q[i]
  BY <1>1, <1>2, <1>3
<1>7. n \in Nat
  BY <1>1
<1>. HIDE DEF r, n
<1>8. Has(r, X) <=> Has(p, X) \/ Has(q, X)
  BY <1>4, <1>5, <1>6 DEF Has
<1>9. ASSUME Once(p, X), Once(q, X), ~(Has(p, X) /\ Has(q, X)),
             NEW i \in DOMAIN r, NEW j \in DOMAIN r, r[i] \in X, r[j] \in X
      PROVE  i = j
  <2>1. CASE i \in DOMAIN p /\ r[i] = p[i]
    <3>1. j \in DOMAIN p /\ r[j] = p[j]
      BY <1>4, <1>9, <2>1 DEF Has
    <3>. QED
      BY <1>9, <2>1, <3>1 DEF Once
  <2>2. CASE i - n \in DOMAIN q /\ r[i] = q[i - n]
    <3>1. j - n \in DOMAIN q /\ r[j] = q[j - n]
      BY <1>4, <1>9, <2>2 DEF Has
    <3>2. i - n = j - n
      BY <1>9, <2>2, <3>1 DEF Once
    <3>. QED
      BY <3>2, <1>4, <1>7, <1>9
  <2>. QED
    BY <1>4, <1>9, <2>1, <2>2
<1>. QED
  BY <1>8, <1>9 DEF Once, r

-----------------------------------------------------------------------------
(* How a coroutine may change its place *)

\* Holds, HeldOnce and PlacedAt in the next state.
NextHolds(k, o, c) ==
  \/ k = "children" /\ o \in Coroutine /\ Has(children'[o], Self(c))
  \/ k = "spawned" /\ o \in Thread /\ Has(spawned'[o], Self(c))
  \/ k = "ready" /\ o \in Thread /\ Has(ready'[o], ControlsFor(c))
  \/ k = "delayed" /\ o \in Thread /\ Has(delayed'[o], Self(c))
  \/ k = "inbox" /\ o \in Thread /\ Has(inbox'[o], MigrationsOf(c))
  \/ k = "cur" /\ o \in Thread /\ cur'[o] = c

NextHeldOnce(c) ==
  /\ \A d \in Coroutine : Once(children'[d], Self(c))
  /\ \A t \in Thread : /\ Once(spawned'[t], Self(c))
                       /\ Once(ready'[t], ControlsFor(c))
                       /\ Once(delayed'[t], Self(c))
                       /\ Once(inbox'[t], MigrationsOf(c))

NextPlacedAt(c) ==
  /\ state'[c] = "Ready" =>
       /\ \E k \in Kind, o \in Owner :
            /\ NextHolds(k, o, c)
            /\ \A l \in Kind, p \in Owner : NextHolds(l, p, c) => l = k /\ p = o
       /\ NextHeldOnce(c)
  /\ state'[c] = "Blocked" => \A k \in Kind, o \in Owner : ~NextHolds(k, o, c)
  /\ state'[c] \notin {"unborn", "Finished"} /\ home'[c] = None =>
       \E t \in Thread : NextHolds("inbox", t, c)

\* The defined formula is the primed one.
LEMMA NextPlacedIsPlaced ==
  ASSUME NEW c, NextPlacedAt(c)
  PROVE  PlacedAt(c)'
BY DEF NextPlacedAt, PlacedAt, HeldAlone, NotHeld, HeldOnce, NextHeldOnce, Holds, NextHolds, Live

\* Nothing is claimed of one that has ended or is not there yet.
LEMMA GoneIsPlaced ==
  ASSUME NEW c, state'[c] \in {"unborn", "Finished"}
  PROVE  NextPlacedAt(c)
BY DEF NextPlacedAt

\* It stays where it is, ...
LEMMA Stays ==
  ASSUME NEW c \in Coroutine, PlacedAt(c), state'[c] = state[c],
         home'[c] = home[c] \/ home'[c] # None,
         \A k \in Kind, o \in Owner : NextHolds(k, o, c) <=> Holds(k, o, c),
         HeldOnce(c) => NextHeldOnce(c)
  PROVE  NextPlacedAt(c)
<1>1. CASE state[c] = "Ready"
  <2>1. PICK k \in Kind, o \in Owner :
          /\ Holds(k, o, c)
          /\ \A l \in Kind, p \in Owner : Holds(l, p, c) => l = k /\ p = o
    BY <1>1 DEF PlacedAt, HeldAlone
  <2>2. /\ NextHolds(k, o, c)
        /\ \A l \in Kind, p \in Owner : NextHolds(l, p, c) => l = k /\ p = o
    BY <2>1
  <2>3. NextHeldOnce(c)
    BY <1>1 DEF PlacedAt
  <2>4. home'[c] = None => \E t \in Thread : NextHolds("inbox", t, c)
    BY <1>1 DEF PlacedAt, Live, Kind, Owner
  <2>. QED
    BY <1>1, <2>2, <2>3, <2>4 DEF NextPlacedAt
<1>2. CASE state[c] = "Blocked"
  BY <1>2 DEF PlacedAt, NotHeld, NextPlacedAt, Live, Kind, Owner
<1>3. CASE state[c] \notin {"Ready", "Blocked"}
  BY <1>3 DEF PlacedAt, NextPlacedAt, Live, Kind, Owner
<1>. QED
  BY <1>1, <1>2, <1>3

\* ... which is one place only, and in a slab unless it is a notify queue, ...
LEMMA HeldBy ==
  ASSUME NEW c \in Coroutine, PlacedAt(c), state[c] \in {"Ready", "Blocked"},
         NEW k \in Kind, NEW o \in Owner, Holds(k, o, c)
  PROVE  /\ state[c] = "Ready" /\ HeldOnce(c)
         /\ \A m \in Kind, q \in Owner : Holds(m, q, c) <=> m = k /\ q = o
         /\ k # "inbox" => home[c] # None
<1>1. state[c] = "Ready" /\ HeldOnce(c)
  BY DEF PlacedAt, NotHeld
<1>2. \A m \in Kind, q \in Owner : Holds(m, q, c) => m = k /\ q = o
  BY <1>1 DEF PlacedAt, HeldAlone
<1>3. ASSUME home[c] = None, k # "inbox" PROVE FALSE
  BY <1>1, <1>2, <1>3 DEF PlacedAt, Live, Kind, Owner
<1>. QED
  BY <1>1, <1>2, <1>3

\* ... comes to a new holder, that of its first place or of a place it moves to, ...
LEMMA Arrives ==
  ASSUME NEW c \in Coroutine, state'[c] = "Ready", NEW l \in Kind, NEW p \in Owner,
         \A m \in Kind, q \in Owner : NextHolds(m, q, c) <=> m = l /\ q = p,
         NextHeldOnce(c), home'[c] # None \/ (l = "inbox" /\ p \in Thread)
  PROVE  NextPlacedAt(c)
BY DEF NextPlacedAt

\* ... or is let go by the thread that runs it, to block.
LEMMA Blocks ==
  ASSUME NEW c \in Coroutine, PlacedAt(c), state[c] \in {"Ready", "Blocked"}, state'[c] = "Blocked",
         NEW t \in Thread, Holds("cur", t, c),
         \A m \in Kind, q \in Owner : NextHolds(m, q, c) => Holds(m, q, c) /\ ~(m = "cur" /\ t = q),
         home'[c] = home[c]
  PROVE  NextPlacedAt(c)
<1>1. "cur" \in Kind /\ t \in Owner
  BY DEF Kind, Owner
<1>2. /\ \A m \in Kind, q \in Owner : Holds(m, q, c) => m = "cur" /\ q = t
      /\ home[c] # None
  BY <1>1, HeldBy
<1>3. \A m \in Kind, q \in Owner : ~NextHolds(m, q, c)
  BY <1>2
<1>. QED
  BY <1>2, <1>3 DEF NextPlacedAt

\* Who is held nowhere is in no queue twice.
LEMMA NotHeldOnce ==
  ASSUME NEW c \in Coroutine, NotHeld(c)
  PROVE  HeldOnce(c)
<1>1. /\ \A d \in Coroutine : ~Has(children[d], Self(c))
      /\ \A t \in Thread : /\ ~Has(spawned[t], Self(c))
                           /\ ~Has(ready[t], ControlsFor(c))
                           /\ ~Has(delayed[t], Self(c))
                           /\ ~Has(inbox[t], MigrationsOf(c))
  BY DEF NotHeld, Holds, Kind, Owner
<1>. QED
  BY <1>1, AbsentOnce DEF HeldOnce

\* Nobody holds one that has not been spawned.
LEMMA UnbornNotHeld ==
  ASSUME TypeOK, RefersToBorn, NEW c \in Coroutine, state[c] = "unborn"
  PROVE  NotHeld(c)
<1>1. c \notin Born
  BY DEF Born
<1>2. ASSUME NEW d \in Coroutine PROVE ~Has(children[d], Self(c))
  <2>1. children[d] \in Seq(Born)
    BY DEF RefersToBorn, RefersTo
  <2>. QED
    BY <2>1, <1>1 DEF Has, Self
<1>3. ASSUME NEW t \in Thread
      PROVE  /\ ~Has(spawned[t], Self(c)) /\ ~Has(delayed[t], Self(c)) /\ cur[t] # c
             /\ ~Has(ready[t], ControlsFor(c)) /\ ~Has(inbox[t], MigrationsOf(c))
  <2>. DEFINE R == [co : Born, yielding : BOOLEAN]
  <2>1. /\ spawned[t] \in Seq(Born) /\ delayed[t] \in Seq(Born) /\ ready[t] \in Seq(R)
        /\ inbox[t] \in Seq(MessageOf(Born)) /\ cur[t] \in Born \cup {None}
    BY DEF RefersToBorn, RefersTo
  <2>2. \A x \in R : x \notin ControlsFor(c)
    BY <1>1 DEF ControlsFor
  <2>3. Migration(c) \notin MessageOf(Born)
    BY <1>1 DEF Migration, MessageOf, Shutdown, Terminate, PropagatePanic
  <2>. HIDE DEF R
  <2>4. ~Has(spawned[t], Self(c)) /\ ~Has(delayed[t], Self(c))
    BY <2>1, <1>1 DEF Has, Self
  <2>5. ~Has(ready[t], ControlsFor(c)) /\ ~Has(inbox[t], MigrationsOf(c))
    BY <2>1, <2>2, <2>3 DEF Has, MigrationsOf
  <2>6. cur[t] # c
    BY <2>1, <1>1, CoroutineAssumption
  <2>. QED
    BY <2>4, <2>5, <2>6
<1>. QED
  BY <1>2, <1>3 DEF NotHeld, Holds, Kind

-----------------------------------------------------------------------------
(* Coroutines *)

\* Coroutine::start_children takes the children ...
LEMMA ChildrenLeave ==
  ASSUME TypeOK, NEW t \in Thread, NEW c \in Coroutine, StartChildren(t, c), NEW e \in Coroutine,
         NEW o \in Coroutine
  PROVE  /\ Has(children'[o], Self(e)) <=> o # c /\ Has(children[o], Self(e))
         /\ Once(children[o], Self(e)) => Once(children'[o], Self(e))
<1>1. children'[o] = IF o = c THEN <<>> ELSE children[o]
  BY DEF StartChildren, TypeOK
<1>2. ~Has(<<>>, Self(e)) /\ Once(<<>>, Self(e))
  BY EmptyHolds
<1>3. CASE o = c
  BY <1>1, <1>2, <1>3
<1>4. CASE o # c
  BY <1>1, <1>4
<1>. QED
  BY <1>3, <1>4

\* ... into the spawned queue.
LEMMA ChildrenArrive ==
  ASSUME TypeOK, NEW t \in Thread, NEW c \in Coroutine, StartChildren(t, c), NEW e \in Coroutine,
         NEW o \in Thread
  PROVE  /\ Has(spawned'[o], Self(e)) <=> \/ Has(spawned[o], Self(e))
                                          \/ o = t /\ Has(children[c], Self(e))
         /\ /\ Once(spawned[o], Self(e))
            /\ Once(children[c], Self(e))
            /\ ~(Has(spawned[o], Self(e)) /\ Has(children[c], Self(e)))
            => Once(spawned'[o], Self(e))
<1>1. spawned'[o] = IF o = t THEN spawned[t] \o children[c] ELSE spawned[o]
  BY DEF StartChildren, TypeOK
<1>2. spawned[t] \in Seq(Coroutine) /\ children[c] \in Seq(Coroutine)
  BY DEF TypeOK
<1>. DEFINE r == spawned[t] \o children[c]
<1>3. Has(r, Self(e)) <=> Has(spawned[t], Self(e)) \/ Has(children[c], Self(e))
  BY <1>2, ConcatHolds
<1>4. ASSUME Once(spawned[t], Self(e)), Once(children[c], Self(e)),
             ~(Has(spawned[t], Self(e)) /\ Has(children[c], Self(e)))
      PROVE  Once(r, Self(e))
  BY <1>2, <1>4, ConcatHolds
<1>5. CASE o = t
  <2>1. spawned'[o] = r
    BY <1>1, <1>5
  <2>. HIDE DEF r
  <2>. QED
    BY <1>3, <1>4, <1>5, <2>1
<1>6. CASE o # t
  BY <1>1, <1>6
<1>. QED
  BY <1>5, <1>6

\* Nothing happens to one that is not among them.
LEMMA NoneStarted ==
  ASSUME TypeOK, NEW t \in Thread, NEW c \in Coroutine, StartChildren(t, c), NEW e \in Coroutine,
         ~Has(children[c], Self(e))
  PROVE  /\ \A o \in Coroutine : Has(children'[o], Self(e)) <=> Has(children[o], Self(e))
         /\ \A o \in Coroutine : Once(children[o], Self(e)) => Once(children'[o], Self(e))
         /\ \A o \in Thread : Has(spawned'[o], Self(e)) <=> Has(spawned[o], Self(e))
         /\ \A o \in Thread : Once(spawned[o], Self(e)) => Once(spawned'[o], Self(e))
<1>1. ASSUME NEW o \in Coroutine
      PROVE  /\ Has(children'[o], Self(e)) <=> Has(children[o], Self(e))
             /\ Once(children[o], Self(e)) => Once(children'[o], Self(e))
  <2>1. /\ Has(children'[o], Self(e)) <=> o # c /\ Has(children[o], Self(e))
        /\ Once(children[o], Self(e)) => Once(children'[o], Self(e))
    BY ChildrenLeave
  <2>. QED
    BY <2>1
<1>2. ASSUME NEW o \in Thread
      PROVE  /\ Has(spawned'[o], Self(e)) <=> Has(spawned[o], Self(e))
             /\ Once(spawned[o], Self(e)) => Once(spawned'[o], Self(e))
  <2>1. /\ Has(spawned'[o], Self(e)) <=> \/ Has(spawned[o], Self(e))
                                         \/ o = t /\ Has(children[c], Self(e))
        /\ /\ Once(spawned[o], Self(e))
           /\ Once(children[c], Self(e))
           /\ ~(Has(spawned[o], Self(e)) /\ Has(children[c], Self(e)))
           => Once(spawned'[o], Self(e))
    BY ChildrenArrive
  <2>2. Once(children[c], Self(e))
    BY AbsentOnce
  <2>. QED
    BY <2>1, <2>2
<1>. QED
  BY <1>1, <1>2

\* Who runs runs once and is nowhere else.
LEMMA RunsAlone ==
  ASSUME NEW c \in Coroutine, PlacedAt(c), state[c] \in {"Ready", "Blocked"},
         NEW t \in Thread, cur[t] = c
  PROVE  /\ state[c] = "Ready" /\ HeldOnce(c) /\ Holds("cur", t, c) /\ home[c] # None
         /\ \A k \in Kind, o \in Owner : Holds(k, o, c) <=> k = "cur" /\ o = t
<1>1. Holds("cur", t, c) /\ "cur" \in Kind /\ t \in Owner
  BY DEF Holds, Kind, Owner
<1>. QED
  BY <1>1, HeldBy

\* When coroutine c jumps out of thread t, the others stay where they are or are
\* started as its children.
LEMMA OthersAfterJump ==
  ASSUME TypeOK, NEW t \in Thread, NEW c \in Coroutine, NEW e \in Coroutine \ {c}, PlacedAt(e),
         cur[t] = c, StartChildren(t, c), cur' = [cur EXCEPT ![t] = None], delayed' = delayed,
         state'[e] = state[e], home'[e] = home[e],
         \A o \in Thread : Has(ready'[o], ControlsFor(e)) <=> Has(ready[o], ControlsFor(e)),
         \A o \in Thread : Has(inbox'[o], MigrationsOf(e)) <=> Has(inbox[o], MigrationsOf(e)),
         \A o \in Thread : Once(ready[o], ControlsFor(e)) => Once(ready'[o], ControlsFor(e)),
         \A o \in Thread : Once(inbox[o], MigrationsOf(e)) => Once(inbox'[o], MigrationsOf(e))
  PROVE  NextPlacedAt(e)
<1>1. /\ \A o \in Coroutine : Has(children'[o], Self(e)) <=> o # c /\ Has(children[o], Self(e))
      /\ \A o \in Coroutine : Once(children[o], Self(e)) => Once(children'[o], Self(e))
      /\ \A o \in Thread : Has(spawned'[o], Self(e)) <=> \/ Has(spawned[o], Self(e))
                                                         \/ o = t /\ Has(children[c], Self(e))
      /\ \A o \in Thread : /\ Once(spawned[o], Self(e))
                           /\ Once(children[c], Self(e))
                           /\ ~(Has(spawned[o], Self(e)) /\ Has(children[c], Self(e)))
                           => Once(spawned'[o], Self(e))
  <2>1. \A o \in Coroutine : Has(children'[o], Self(e)) <=> o # c /\ Has(children[o], Self(e))
    BY ChildrenLeave
  <2>2. \A o \in Coroutine : Once(children[o], Self(e)) => Once(children'[o], Self(e))
    BY ChildrenLeave
  <2>3. \A o \in Thread : Has(spawned'[o], Self(e)) <=> \/ Has(spawned[o], Self(e))
                                                        \/ o = t /\ Has(children[c], Self(e))
    BY ChildrenArrive
  <2>4. \A o \in Thread : /\ Once(spawned[o], Self(e))
                          /\ Once(children[c], Self(e))
                          /\ ~(Has(spawned[o], Self(e)) /\ Has(children[c], Self(e)))
                          => Once(spawned'[o], Self(e))
    BY ChildrenArrive
  <2>. QED
    BY <2>1, <2>2, <2>3, <2>4
<1>2. \A o \in Thread : cur'[o] = e <=> cur[o] = e
  BY CoroutineAssumption DEF TypeOK
<1>3. CASE state[e] \in {"unborn", "Finished"}
  BY <1>3, GoneIsPlaced
<1>4. CASE ~Has(children[c], Self(e))
  <2>a. /\ \A o \in Coroutine : Has(children'[o], Self(e)) <=> Has(children[o], Self(e))
        /\ \A o \in Thread : Has(spawned'[o], Self(e)) <=> Has(spawned[o], Self(e))
    BY <1>4, NoneStarted
  <2>1. \A k \in Kind, o \in Owner : NextHolds(k, o, e) <=> Holds(k, o, e)
    <3>. SUFFICES ASSUME NEW k \in Kind, NEW o \in Owner
                  PROVE  NextHolds(k, o, e) <=> Holds(k, o, e)
      OBVIOUS
    <3>1. CASE k \in {"children", "spawned"}
      BY <2>a, <3>1 DEF Holds, NextHolds
    <3>2. CASE k \in {"ready", "delayed", "inbox"}
      BY <3>2 DEF Holds, NextHolds
    <3>3. CASE k = "cur"
      BY <1>2, <3>3 DEF Holds, NextHolds
    <3>. QED
      BY <3>1, <3>2, <3>3 DEF Kind
  <2>2. HeldOnce(e) => NextHeldOnce(e)
    <3>1. /\ \A o \in Coroutine : Once(children[o], Self(e)) => Once(children'[o], Self(e))
          /\ \A o \in Thread : Once(spawned[o], Self(e)) => Once(spawned'[o], Self(e))
      BY <1>4, NoneStarted
    <3>. QED
      BY <3>1 DEF HeldOnce, NextHeldOnce
  <2>. QED
    BY <2>1, <2>2, Stays
<1>5. CASE Has(children[c], Self(e)) /\ state[e] \in {"Ready", "Blocked"}
  <2>1. /\ Holds("children", c, e) /\ "children" \in Kind /\ "spawned" \in Kind
        /\ c \in Owner /\ t \in Owner
    BY <1>5 DEF Holds, Kind, Owner
  <2>2. /\ state[e] = "Ready" /\ HeldOnce(e) /\ home[e] # None
        /\ \A m \in Kind, q \in Owner : Holds(m, q, e) <=> m = "children" /\ q = c
    BY <1>5, <2>1, HeldBy
  <2>3. \A o \in Thread : ~Has(spawned[o], Self(e))
    BY <2>1, <2>2 DEF Holds, Owner
  <2>4. \A m \in Kind, q \in Owner :
          NextHolds(m, q, e) <=> \/ m = "spawned" /\ t = q
                                 \/ Holds(m, q, e) /\ ~(m = "children" /\ c = q)
    BY <1>1, <1>2, <1>5 DEF Holds, NextHolds
  <2>a. \A m \in Kind, q \in Owner : NextHolds(m, q, e) <=> m = "spawned" /\ q = t
    BY <2>2, <2>4
  <2>5. NextHeldOnce(e)
    BY <1>1, <2>2, <2>3 DEF HeldOnce, NextHeldOnce
  <2>. QED
    BY <2>1, <2>2, <2>a, <2>5, Arrives
<1>. QED
  BY <1>3, <1>4, <1>5 DEF TypeOK

\* The control that a yielding coroutine leaves is its own.
LEMMA ReadyPushed ==
  ASSUME TypeOK, NEW t \in Thread, NEW c \in Coroutine, NEW y \in BOOLEAN,
         ready' = [ready EXCEPT ![t] = Append(@, Control(c, y))], NEW e \in Coroutine
  PROVE  /\ \A o \in Thread : Has(ready'[o], ControlsFor(e)) <=>
                                \/ Has(ready[o], ControlsFor(e))
                                \/ o = t /\ e = c
         /\ \A o \in Thread : /\ Once(ready[o], ControlsFor(e))
                              /\ ~(o = t /\ e = c /\ Has(ready[t], ControlsFor(e)))
                              => Once(ready'[o], ControlsFor(e))
<1>. DEFINE R == [co : Coroutine, yielding : BOOLEAN]
<1>1. Control(c, y) \in R /\ (Control(c, y) \in ControlsFor(e) <=> e = c)
  BY DEF Control, ControlsFor
<1>2. ready \in [Thread -> Seq(R)]
  BY DEF TypeOK
<1>. HIDE DEF R
<1>3. \A o \in Thread : ready'[o] = IF o = t THEN Append(ready[t], Control(c, y)) ELSE ready[o]
  BY <1>2
<1>4. ready[t] \in Seq(R)
  BY <1>2
<1>5. /\ Has(Append(ready[t], Control(c, y)), ControlsFor(e)) <=>
           Has(ready[t], ControlsFor(e)) \/ Control(c, y) \in ControlsFor(e)
      /\ Once(ready[t], ControlsFor(e))
         /\ ~(Control(c, y) \in ControlsFor(e) /\ Has(ready[t], ControlsFor(e)))
         => Once(Append(ready[t], Control(c, y)), ControlsFor(e))
  BY <1>1, <1>4, AppendHolds
<1>. QED
  BY <1>1, <1>3, <1>5

\* yield_now, or block_on that finds its source ready: back through the ready queue.
LEMMA BackToReady ==
  ASSUME TypeOK, Placed, NEW t \in Thread, NEW c \in Coroutine, NEW y \in BOOLEAN,
         c \notin killed, state[c] \in {"Ready", "Blocked"}, cur[t] = c, StartChildren(t, c),
         ready' = [ready EXCEPT ![t] = Append(@, Control(c, y))],
         cur' = [cur EXCEPT ![t] = None],
         UNCHANGED <<killed, state, home, delayed, inbox>>
  PROVE  \A e \in Coroutine \ killed' : NextPlacedAt(e)
<1>1. ASSUME NEW e \in Coroutine \ killed, e # c PROVE NextPlacedAt(e)
  <2>1. /\ \A o \in Thread : Has(ready'[o], ControlsFor(e)) <=> Has(ready[o], ControlsFor(e))
        /\ \A o \in Thread : Once(ready[o], ControlsFor(e)) => Once(ready'[o], ControlsFor(e))
    BY <1>1, ReadyPushed
  <2>2. PlacedAt(e)
    BY <1>1 DEF Placed
  <2>. QED
    BY <1>1, <2>1, <2>2, OthersAfterJump
<1>2. NextPlacedAt(c)
  <2>1. PlacedAt(c)
    BY DEF Placed
  <2>2. /\ state[c] = "Ready" /\ HeldOnce(c) /\ Holds("cur", t, c) /\ home[c] # None
        /\ \A k \in Kind, o \in Owner : Holds(k, o, c) => k = "cur" /\ o = t
    BY <2>1, RunsAlone
  <2>3. ~Has(children[c], Self(c)) /\ ~Has(ready[t], ControlsFor(c))
    BY <2>2 DEF Holds, Kind, Owner
  <2>4. /\ \A o \in Thread : Has(ready'[o], ControlsFor(c)) <=>
                               Has(ready[o], ControlsFor(c)) \/ o = t
        /\ \A o \in Thread : Once(ready[o], ControlsFor(c)) => Once(ready'[o], ControlsFor(c))
    BY <2>3, ReadyPushed
  <2>5. /\ \A o \in Coroutine : Has(children'[o], Self(c)) <=> Has(children[o], Self(c))
        /\ \A o \in Coroutine : Once(children[o], Self(c)) => Once(children'[o], Self(c))
        /\ \A o \in Thread : Has(spawned'[o], Self(c)) <=> Has(spawned[o], Self(c))
        /\ \A o \in Thread : Once(spawned[o], Self(c)) /\ Once(children[c], Self(c))
                               => Once(spawned'[o], Self(c))
    BY <2>3, NoneStarted
  <2>6. \A o \in Thread : cur'[o] = c <=> cur[o] = c /\ o # t
    BY CoroutineAssumption DEF TypeOK
  <2>7. "cur" \in Kind /\ "ready" \in Kind /\ t \in Owner
    BY DEF Kind, Owner
  <2>8. \A m \in Kind, q \in Owner :
          NextHolds(m, q, c) <=> \/ m = "ready" /\ t = q
                                 \/ Holds(m, q, c) /\ ~(m = "cur" /\ t = q)
    BY <2>4, <2>5, <2>6 DEF Holds, NextHolds
  <2>a. \A m \in Kind, q \in Owner : NextHolds(m, q, c) <=> m = "ready" /\ q = t
    BY <2>2, <2>8
  <2>9. NextHeldOnce(c)
    BY <2>2, <2>4, <2>5 DEF HeldOnce, NextHeldOnce
  <2>. QED
    BY <2>2, <2>7, <2>a, <2>9, Arrives
<1>. QED
  BY <1>1, <1>2

\* block_on, select_wait and join: held by nobody any more.
LEMMA OutToBlock ==
  ASSUME TypeOK, Placed, NEW t \in Thread, NEW c \in Coroutine,
         c \notin killed, state[c] \in {"Ready", "Blocked"}, cur[t] = c, StartChildren(t, c),
         state' = [state EXCEPT ![c] = "Blocked"], cur' = [cur EXCEPT ![t] = None],
         UNCHANGED <<killed, home, ready, delayed, inbox>>
  PROVE  \A e \in Coroutine \ killed' : NextPlacedAt(e)
<1>1. ASSUME NEW e \in Coroutine \ killed, e # c PROVE NextPlacedAt(e)
  <2>1. state'[e] = state[e]
    BY <1>1 DEF TypeOK
  <2>2. PlacedAt(e)
    BY <1>1 DEF Placed
  <2>. QED
    BY <1>1, <2>1, <2>2, OthersAfterJump
<1>2. NextPlacedAt(c)
  <2>1. PlacedAt(c) /\ state'[c] = "Blocked"
    BY DEF Placed, TypeOK
  <2>2. /\ state[c] = "Ready" /\ HeldOnce(c) /\ Holds("cur", t, c) /\ home[c] # None
        /\ \A k \in Kind, o \in Owner : Holds(k, o, c) => k = "cur" /\ o = t
    BY <2>1, RunsAlone
  <2>3. ~Has(children[c], Self(c))
    BY <2>2 DEF Holds, Kind, Owner
  <2>4. /\ \A o \in Coroutine : Has(children'[o], Self(c)) <=> Has(children[o], Self(c))
        /\ \A o \in Thread : Has(spawned'[o], Self(c)) <=> Has(spawned[o], Self(c))
    BY <2>3, NoneStarted
  <2>5. \A o \in Thread : cur'[o] = c <=> cur[o] = c /\ o # t
    BY CoroutineAssumption DEF TypeOK
  <2>6. \A m \in Kind, q \in Owner :
          NextHolds(m, q, c) => Holds(m, q, c) /\ ~(m = "cur" /\ t = q)
    BY <2>4, <2>5 DEF Holds, NextHolds
  <2>. QED
    BY <2>1, <2>2, <2>6, Blocks
<1>. QED
  BY <1>1, <1>2

-----------------------------------------------------------------------------
(* Queues at their ends *)

\* What is in the queues after one was put at the end of one of them ...
LEMMA ChildrenPushed ==
  ASSUME TypeOK, NEW t \in Coroutine, NEW d \in Coroutine, children' = [children EXCEPT ![t] = Append(@, d)],
         NEW e \in Coroutine, NEW o \in Coroutine
  PROVE  /\ Has(children'[o], Self(e)) <=> Has(children[o], Self(e)) \/ (o = t /\ d \in Self(e))
         /\ Once(children[o], Self(e)) /\ ~(o = t /\ d \in Self(e) /\ Has(children[o], Self(e)))
              => Once(children'[o], Self(e))
<1>1. children \in [Coroutine -> Seq(Coroutine)]
  BY DEF TypeOK
<1>. DEFINE X == Self(e)
<1>2. /\ Has(Append(children[t], d), X) <=> Has(children[t], X) \/ d \in X
      /\ Once(children[t], X) /\ ~(d \in X /\ Has(children[t], X)) => Once(Append(children[t], d), X)
  BY <1>1, AppendHolds
<1>3. children'[o] = IF o = t THEN Append(children[t], d) ELSE children[o]
  BY <1>1
<1>. HIDE DEF X
<1>4. CASE o = t
  BY <1>2, <1>3, <1>4 DEF X
<1>5. CASE o # t
  BY <1>3, <1>5 DEF X
<1>. QED
  BY <1>4, <1>5

\* (of HandlerShared::spawned,
LEMMA SpawnedPushed ==
  ASSUME TypeOK, NEW t \in Thread, NEW d \in Coroutine, spawned' = [spawned EXCEPT ![t] = Append(@, d)],
         NEW e \in Coroutine, NEW o \in Thread
  PROVE  /\ Has(spawned'[o], Self(e)) <=> Has(spawned[o], Self(e)) \/ (o = t /\ d \in Self(e))
         /\ Once(spawned[o], Self(e)) /\ ~(o = t /\ d \in Self(e) /\ Has(spawned[o], Self(e)))
              => Once(spawned'[o], Self(e))
<1>1. spawned \in [Thread -> Seq(Coroutine)]
  BY DEF TypeOK
<1>. DEFINE X == Self(e)
<1>2. /\ Has(Append(spawned[t], d), X) <=> Has(spawned[t], X) \/ d \in X
      /\ Once(spawned[t], X) /\ ~(d \in X /\ Has(spawned[t], X)) => Once(Append(spawned[t], d), X)
  BY <1>1, AppendHolds
<1>3. spawned'[o] = IF o = t THEN Append(spawned[t], d) ELSE spawned[o]
  BY <1>1
<1>. HIDE DEF X
<1>4. CASE o = t
  BY <1>2, <1>3, <1>4 DEF X
<1>5. CASE o # t
  BY <1>3, <1>5 DEF X
<1>. QED
  BY <1>4, <1>5

\* FifoSchedulerThread::delayed
LEMMA DelayedPushed ==
  ASSUME TypeOK, NEW t \in Thread, NEW d \in Coroutine, delayed' = [delayed EXCEPT ![t] = Append(@, d)],
         NEW e \in Coroutine, NEW o \in Thread
  PROVE  /\ Has(delayed'[o], Self(e)) <=> Has(delayed[o], Self(e)) \/ (o = t /\ d \in Self(e))
         /\ Once(delayed[o], Self(e)) /\ ~(o = t /\ d \in Self(e) /\ Has(delayed[o], Self(e)))
              => Once(delayed'[o], Self(e))
<1>1. delayed \in [Thread -> Seq(Coroutine)]
  BY DEF TypeOK
<1>. DEFINE X == Self(e)
<1>2. /\ Has(Append(delayed[t], d), X) <=> Has(delayed[t], X) \/ d \in X
      /\ Once(delayed[t], X) /\ ~(d \in X /\ Has(delayed[t], X)) => Once(Append(delayed[t], d), X)
  BY <1>1, AppendHolds
<1>3. delayed'[o] = IF o = t THEN Append(delayed[t], d) ELSE delayed[o]
  BY <1>1
<1>. HIDE DEF X
<1>4. CASE o = t
  BY <1>2, <1>3, <1>4 DEF X
<1>5. CASE o # t
  BY <1>3, <1>5 DEF X
<1>. QED
  BY <1>4, <1>5

\* or the notify queues)
LEMMA InboxPushed ==
  ASSUME TypeOK, NEW t \in Thread, NEW m \in Message, inbox' = [inbox EXCEPT ![t] = Append(@, m)],
         NEW e \in Coroutine, NEW o \in Thread
  PROVE  /\ Has(inbox'[o], MigrationsOf(e)) <=> Has(inbox[o], MigrationsOf(e)) \/ (o = t /\ m \in MigrationsOf(e))
         /\ Once(inbox[o], MigrationsOf(e)) /\ ~(o = t /\ m \in MigrationsOf(e) /\ Has(inbox[o], MigrationsOf(e)))
              => Once(inbox'[o], MigrationsOf(e))
<1>1. inbox \in [Thread -> Seq(Message)]
  BY DEF TypeOK
<1>. DEFINE X == MigrationsOf(e)
<1>2. /\ Has(Append(inbox[t], m), X) <=> Has(inbox[t], X) \/ m \in X
      /\ Once(inbox[t], X) /\ ~(m \in X /\ Has(inbox[t], X)) => Once(Append(inbox[t], m), X)
  BY <1>1, AppendHolds
<1>3. inbox'[o] = IF o = t THEN Append(inbox[t], m) ELSE inbox[o]
  BY <1>1
<1>. HIDE DEF X
<1>4. CASE o = t
  BY <1>2, <1>3, <1>4 DEF X
<1>5. CASE o # t
  BY <1>3, <1>5 DEF X
<1>. QED
  BY <1>4, <1>5

\* ... and after the first of one of them was taken (of HandlerShared::spawned,
LEMMA SpawnedPopped ==
  ASSUME TypeOK, NEW t \in Thread, spawned[t] # <<>>, spawned' = [spawned EXCEPT ![t] = Tail(@)],
         NEW e \in Coroutine, NEW o \in Thread
  PROVE  /\ Has(spawned[o], Self(e)) <=>
              Has(spawned'[o], Self(e)) \/ (o = t /\ Head(spawned[t]) \in Self(e))
         /\ Once(spawned[o], Self(e)) =>
              /\ Once(spawned'[o], Self(e))
              /\ ~(o = t /\ Head(spawned[t]) \in Self(e) /\ Has(spawned'[o], Self(e)))
<1>1. spawned \in [Thread -> Seq(Coroutine)]
  BY DEF TypeOK
<1>. DEFINE X == Self(e)
<1>2. /\ Has(spawned[t], X) <=> Head(spawned[t]) \in X \/ Has(Tail(spawned[t]), X)
      /\ Once(spawned[t], X) =>
           Once(Tail(spawned[t]), X) /\ ~(Head(spawned[t]) \in X /\ Has(Tail(spawned[t]), X))
  BY <1>1, TailHolds
<1>3. spawned'[o] = IF o = t THEN Tail(spawned[t]) ELSE spawned[o]
  BY <1>1
<1>. HIDE DEF X
<1>4. CASE o = t
  BY <1>2, <1>3, <1>4 DEF X
<1>5. CASE o # t
  BY <1>3, <1>5 DEF X
<1>. QED
  BY <1>4, <1>5

\* HandlerShared::ready,
LEMMA ReadyPopped ==
  ASSUME TypeOK, NEW t \in Thread, ready[t] # <<>>, ready' = [ready EXCEPT ![t] = Tail(@)],
         NEW e \in Coroutine, NEW o \in Thread
  PROVE  /\ Has(ready[o], ControlsFor(e)) <=>
              Has(ready'[o], ControlsFor(e)) \/ (o = t /\ Head(ready[t]) \in ControlsFor(e))
         /\ Once(ready[o], ControlsFor(e)) =>
              /\ Once(ready'[o], ControlsFor(e))
              /\ ~(o = t /\ Head(ready[t]) \in ControlsFor(e) /\ Has(ready'[o], ControlsFor(e)))
<1>1. ready \in [Thread -> Seq([co : Coroutine, yielding : BOOLEAN])]
  BY DEF TypeOK
<1>. DEFINE X == ControlsFor(e)
<1>2. /\ Has(ready[t], X) <=> Head(ready[t]) \in X \/ Has(Tail(ready[t]), X)
      /\ Once(ready[t], X) =>
           Once(Tail(ready[t]), X) /\ ~(Head(ready[t]) \in X /\ Has(Tail(ready[t]), X))
  BY <1>1, TailHolds
<1>3. ready'[o] = IF o = t THEN Tail(ready[t]) ELSE ready[o]
  BY <1>1
<1>. HIDE DEF X
<1>4. CASE o = t
  BY <1>2, <1>3, <1>4 DEF X
<1>5. CASE o # t
  BY <1>3, <1>5 DEF X
<1>. QED
  BY <1>4, <1>5

\* FifoSchedulerThread::delayed
LEMMA DelayedPopped ==
  ASSUME TypeOK, NEW t \in Thread, delayed[t] # <<>>, delayed' = [delayed EXCEPT ![t] = Tail(@)],
         NEW e \in Coroutine, NEW o \in Thread
  PROVE  /\ Has(delayed[o], Self(e)) <=>
              Has(delayed'[o], Self(e)) \/ (o = t /\ Head(delayed[t]) \in Self(e))
         /\ Once(delayed[o], Self(e)) =>
              /\ Once(delayed'[o], Self(e))
              /\ ~(o = t /\ Head(delayed[t]) \in Self(e) /\ Has(delayed'[o], Self(e)))
<1>1. delayed \in [Thread -> Seq(Coroutine)]
  BY DEF TypeOK
<1>. DEFINE X == Self(e)
<1>2. /\ Has(delayed[t], X) <=> Head(delayed[t]) \in X \/ Has(Tail(delayed[t]), X)
      /\ Once(delayed[t], X) =>
           Once(Tail(delayed[t]), X) /\ ~(Head(delayed[t]) \in X /\ Has(Tail(delayed[t]), X))
  BY <1>1, TailHolds
<1>3. delayed'[o] = IF o = t THEN Tail(delayed[t]) ELSE delayed[o]
  BY <1>1
<1>. HIDE DEF X
<1>4. CASE o = t
  BY <1>2, <1>3, <1>4 DEF X
<1>5. CASE o # t
  BY <1>3, <1>5 DEF X
<1>. QED
  BY <1>4, <1>5

\* or the notify queues).
LEMMA InboxPopped ==
  ASSUME TypeOK, NEW t \in Thread, inbox[t] # <<>>, inbox' = [inbox EXCEPT ![t] = Tail(@)],
         NEW e \in Coroutine, NEW o \in Thread
  PROVE  /\ Has(inbox[o], MigrationsOf(e)) <=>
              Has(inbox'[o], MigrationsOf(e)) \/ (o = t /\ Head(inbox[t]) \in MigrationsOf(e))
         /\ Once(inbox[o], MigrationsOf(e)) =>
              /\ Once(inbox'[o], MigrationsOf(e))
              /\ ~(o = t /\ Head(inbox[t]) \in MigrationsOf(e) /\ Has(inbox'[o], MigrationsOf(e)))
<1>1. inbox \in [Thread -> Seq(Message)]
  BY DEF TypeOK
<1>. DEFINE X == MigrationsOf(e)
<1>2. /\ Has(inbox[t], X) <=> Head(inbox[t]) \in X \/ Has(Tail(inbox[t]), X)
      /\ Once(inbox[t], X) =>
           Once(Tail(inbox[t]), X) /\ ~(Head(inbox[t]) \in X /\ Has(Tail(inbox[t]), X))
  BY <1>1, TailHolds
<1>3. inbox'[o] = IF o = t THEN Tail(inbox[t]) ELSE inbox[o]
  BY <1>1
<1>. HIDE DEF X
<1>4. CASE o = t
  BY <1>2, <1>3, <1>4 DEF X
<1>5. CASE o # t
  BY <1>3, <1>5 DEF X
<1>. QED
  BY <1>4, <1>5

\* A coroutine goes from one holder to another.
LEMMA Moved ==
  ASSUME NEW e \in Coroutine, PlacedAt(e), state'[e] = state[e],
         NEW k \in Kind, NEW o \in Owner, Holds(k, o, e),
         NEW l \in Kind, NEW p \in Owner, NextHolds(l, p, e),
         \A m \in Kind, q \in Owner :
           NextHolds(m, q, e) => (m = l /\ q = p) \/ (Holds(m, q, e) /\ ~(m = k /\ q = o)),
         HeldOnce(e) => NextHeldOnce(e),
         \/ home'[e] # None
         \/ l = "inbox" /\ p \in Thread
         \/ k # "inbox" /\ home'[e] = home[e],
         state[e] \in {"unborn", "Ready", "Blocked", "Finished"}
  PROVE  NextPlacedAt(e)
<1>1. CASE state[e] \in {"unborn", "Finished"}
  BY <1>1, GoneIsPlaced
<1>2. CASE state[e] \in {"Ready", "Blocked"}
  <2>1. /\ state[e] = "Ready" /\ HeldOnce(e) /\ (k # "inbox" => home[e] # None)
        /\ \A m \in Kind, q \in Owner : Holds(m, q, e) <=> m = k /\ q = o
    BY <1>2, HeldBy
  <2>2. \A m \in Kind, q \in Owner : NextHolds(m, q, e) <=> m = l /\ q = p
    BY <2>1
  <2>3. home'[e] # None \/ (l = "inbox" /\ p \in Thread)
    BY <2>1
  <2>. QED
    BY <2>1, <2>2, <2>3, Arrives
<1>. QED
  BY <1>1, <1>2

\* Places that do not change.
LEMMA NothingMoves ==
  ASSUME NEW e \in Coroutine, PlacedAt(e), state'[e] = state[e], home'[e] = home[e],
         UNCHANGED <<children, spawned, ready, delayed, inbox, cur>>
  PROVE  NextPlacedAt(e)
<1>1. \A k \in Kind, o \in Owner : NextHolds(k, o, e) <=> Holds(k, o, e)
  BY DEF Holds, NextHolds
<1>2. HeldOnce(e) => NextHeldOnce(e)
  BY DEF HeldOnce, NextHeldOnce
<1>. QED
  BY <1>1, <1>2, Stays

\* Nobody migrates in the messages that come or go.
LEMMA MessagesOnly ==
  ASSUME NEW e \in Coroutine, PlacedAt(e), state'[e] = state[e], home'[e] = home[e],
         UNCHANGED <<children, spawned, ready, delayed, cur>>,
         \A o \in Thread : /\ Has(inbox'[o], MigrationsOf(e)) <=> Has(inbox[o], MigrationsOf(e))
                           /\ Once(inbox[o], MigrationsOf(e)) => Once(inbox'[o], MigrationsOf(e))
  PROVE  NextPlacedAt(e)
<1>1. \A k \in Kind, o \in Owner : NextHolds(k, o, e) <=> Holds(k, o, e)
  BY DEF Holds, NextHolds
<1>2. HeldOnce(e) => NextHeldOnce(e)
  BY DEF HeldOnce, NextHeldOnce
<1>. QED
  BY <1>1, <1>2, Stays

\* A message other than a Migration is put into a notify queue, ...
LEMMA SentMessage ==
  ASSUME TypeOK, NEW u \in Thread, NEW m \in Message, m.type # "Migration",
         inbox' = [inbox EXCEPT ![u] = Append(@, m)], NEW e \in Coroutine, NEW o \in Thread
  PROVE  /\ Has(inbox'[o], MigrationsOf(e)) <=> Has(inbox[o], MigrationsOf(e))
         /\ Once(inbox[o], MigrationsOf(e)) => Once(inbox'[o], MigrationsOf(e))
<1>1. m \notin MigrationsOf(e)
  BY DEF MigrationsOf, Migration
<1>. QED
  BY <1>1, InboxPushed

\* ... or taken from it.
LEMMA ReceivedMessage ==
  ASSUME TypeOK, NEW t \in Thread, NEW type, type # "Migration", Receives(t, type),
         NEW e \in Coroutine, NEW o \in Thread
  PROVE  /\ Has(inbox'[o], MigrationsOf(e)) <=> Has(inbox[o], MigrationsOf(e))
         /\ Once(inbox[o], MigrationsOf(e)) => Once(inbox'[o], MigrationsOf(e))
<1>1. /\ inbox[t] # <<>> /\ Head(inbox[t]).type = type
      /\ inbox' = [inbox EXCEPT ![t] = Tail(@)]
  BY DEF Receives
<1>2. Head(inbox[t]) \notin MigrationsOf(e)
  BY <1>1 DEF MigrationsOf, Migration
<1>. QED
  BY <1>1, <1>2, InboxPopped

\* The first of queue k of o, x, is handed to l of p; what that means for e.
HandsOver(k, o, l, p, x, e) ==
  /\ k # l
  /\ \A m \in Kind \ {k, l}, q \in Owner : NextHolds(m, q, e) <=> Holds(m, q, e)
  /\ \A q \in Owner : Holds(k, q, e) <=> NextHolds(k, q, e) \/ (q = o /\ x = e)
  /\ \A q \in Owner : NextHolds(l, q, e) <=> Holds(l, q, e) \/ (q = p /\ x = e)
  /\ HeldOnce(e) /\ ~(x = e /\ Holds(l, p, e)) =>
       NextHeldOnce(e) /\ ~(x = e /\ NextHolds(k, o, e))
  /\ home'[e] = home[e] \/ home'[e] # None \/ (x = e /\ l = "inbox" /\ p \in Thread)
  /\ x = e /\ k = "inbox" => home'[e] # None
  /\ state'[e] = state[e]

\* Who is handed over has one holder again, who is not stays.
LEMMA Transfer ==
  ASSUME TypeOK, NEW e \in Coroutine, PlacedAt(e), NEW k \in Kind, NEW l \in Kind,
         NEW o \in Owner, NEW p \in Owner, NEW x, HandsOver(k, o, l, p, x, e)
  PROVE  NextPlacedAt(e)
<1>. USE DEF HandsOver
<1>0. state[e] \in {"unborn", "Ready", "Blocked", "Finished"}
  BY DEF TypeOK
<1>1. CASE state[e] \in {"unborn", "Finished"}
  BY <1>1, GoneIsPlaced
<1>2. CASE x # e
  <2>1. \A m \in Kind, q \in Owner : NextHolds(m, q, e) <=> Holds(m, q, e)
    BY <1>2
  <2>2. HeldOnce(e) => NextHeldOnce(e)
    BY <1>2
  <2>3. home'[e] = home[e] \/ home'[e] # None
    BY <1>2
  <2>. QED
    BY <2>1, <2>2, <2>3, Stays
<1>3. CASE x = e /\ state[e] \in {"Ready", "Blocked"}
  <2>1. Holds(k, o, e)
    BY <1>3
  <2>2. /\ state[e] = "Ready" /\ HeldOnce(e) /\ (k # "inbox" => home[e] # None)
        /\ \A m \in Kind, q \in Owner : Holds(m, q, e) <=> m = k /\ q = o
    BY <1>3, <2>1, HeldBy
  <2>3. NextHeldOnce(e) /\ ~NextHolds(k, o, e)
    BY <1>3, <2>2
  <2>4. \A q \in Owner : ~NextHolds(k, q, e)
    BY <2>2, <2>3
  <2>5. \A q \in Owner : NextHolds(l, q, e) <=> q = p
    BY <1>3, <2>2
  <2>6. \A m \in Kind \ {k, l}, q \in Owner : ~NextHolds(m, q, e)
    BY <2>2
  <2>7. \A m \in Kind, q \in Owner : NextHolds(m, q, e) <=> m = l /\ q = p
    BY <2>4, <2>5, <2>6
  <2>8. home'[e] # None \/ (l = "inbox" /\ p \in Thread)
    BY <1>3, <2>2
  <2>. QED
    BY <2>2, <2>3, <2>7, <2>8, Arrives
<1>. QED
  BY <1>0, <1>1, <1>2, <1>3

\* A thread that runs nobody jumps into x.
LEMMA JumpedIn ==
  ASSUME TypeOK, NEW t \in Thread, NEW x \in Coroutine, cur[t] = None,
         cur' = [cur EXCEPT ![t] = x], NEW e \in Coroutine, NEW q \in Owner
  PROVE  NextHolds("cur", q, e) <=> Holds("cur", q, e) \/ (q = t /\ x = e)
<1>1. cur \in [Thread -> Coroutine \cup {None}] /\ cur[t] # e
  BY CoroutineAssumption DEF TypeOK
<1>2. ASSUME q \in Thread PROVE cur'[q] = IF q = t THEN x ELSE cur[q]
  BY <1>1
<1>3. CASE q \in Thread
  BY <1>1, <1>2, <1>3 DEF Holds, NextHolds
<1>4. CASE q \notin Thread
  BY <1>4 DEF Holds, NextHolds
<1>. QED
  BY <1>3, <1>4

-----------------------------------------------------------------------------
(* Schedulers and callbacks *)

\* FifoSchedulerThread::spawned resumes the first of the spawned queue.
LEMMA SpawnedResumes ==
  ASSUME TypeOK, Placed, NEW t \in Thread, SpawnedResume(t)
  PROVE  \A e \in Coroutine \ killed' : NextPlacedAt(e)
<1>. DEFINE x == Head(spawned[t])
<1>1. /\ cur[t] = None /\ cur' = [cur EXCEPT ![t] = x]
      /\ spawned[t] # <<>> /\ spawned' = [spawned EXCEPT ![t] = Tail(@)]
      /\ UNCHANGED <<killed, state, home, children, ready, delayed, inbox>>
  BY DEF SpawnedResume, SpawnedTurn, At, JumpIn, coVars, sharedVars
<1>2. x \in Coroutine
  BY <1>1, HeadTailProperties DEF TypeOK
<1>. SUFFICES ASSUME NEW e \in Coroutine \ killed PROVE NextPlacedAt(e)
  BY <1>1
<1>. HIDE DEF x
<1>3. PlacedAt(e)
  BY DEF Placed
<1>4. ASSUME NEW o \in Thread
      PROVE  /\ Has(spawned[o], Self(e)) <=> Has(spawned'[o], Self(e)) \/ (o = t /\ x = e)
             /\ Once(spawned[o], Self(e)) =>
                  Once(spawned'[o], Self(e)) /\ ~(o = t /\ x = e /\ Has(spawned'[o], Self(e)))
  BY <1>1, SpawnedPopped DEF x, Self
<1>5. \A m \in Kind \ {"spawned", "cur"}, q \in Owner : NextHolds(m, q, e) <=> Holds(m, q, e)
  BY <1>1 DEF Kind, Holds, NextHolds
<1>6. \A q \in Owner : Holds("spawned", q, e) <=> NextHolds("spawned", q, e) \/ (q = t /\ x = e)
  BY <1>4 DEF Holds, NextHolds
<1>7. \A q \in Owner : NextHolds("cur", q, e) <=> Holds("cur", q, e) \/ (q = t /\ x = e)
  BY <1>1, <1>2, JumpedIn
<1>8. HeldOnce(e) /\ ~(x = e /\ Holds("cur", t, e)) =>
        NextHeldOnce(e) /\ ~(x = e /\ NextHolds("spawned", t, e))
  BY <1>1, <1>4 DEF HeldOnce, NextHeldOnce, NextHolds
<1>9. /\ "spawned" \in Kind /\ "cur" \in Kind /\ "spawned" # "cur" /\ t \in Owner
      /\ state'[e] = state[e]
      /\ home'[e] = home[e]
  BY <1>1 DEF Kind, Owner
<1>10. HandsOver("spawned", t, "cur", t, x, e)
  BY <1>5, <1>6, <1>7, <1>8, <1>9 DEF HandsOver
<1>. QED
  BY <1>3, <1>9, <1>10, Transfer

\* A control in a ready queue is one of e's if it is for e.
LEMMA ReadyHead ==
  ASSUME TypeOK, NEW t \in Thread, ready[t] # <<>>, NEW e \in Coroutine
  PROVE  /\ Head(ready[t]).co \in Coroutine
         /\ Head(ready[t]) \in ControlsFor(e) <=> Head(ready[t]).co = e
<1>1. Head(ready[t]) \in [co : Coroutine, yielding : BOOLEAN]
  BY HeadTailProperties DEF TypeOK
<1>. QED
  BY <1>1 DEF ControlsFor

\* What the head of the ready queue leaves behind.
LEMMA ReadyShrinks ==
  ASSUME TypeOK, NEW t \in Thread, ready[t] # <<>>, ready' = [ready EXCEPT ![t] = Tail(@)],
         NEW e \in Coroutine, NEW o \in Thread
  PROVE  /\ Has(ready[o], ControlsFor(e)) <=>
              Has(ready'[o], ControlsFor(e)) \/ (o = t /\ Head(ready[t]).co = e)
         /\ Once(ready[o], ControlsFor(e)) =>
              /\ Once(ready'[o], ControlsFor(e))
              /\ ~(o = t /\ Head(ready[t]).co = e /\ Has(ready'[o], ControlsFor(e)))
<1>1. Head(ready[t]) \in ControlsFor(e) <=> Head(ready[t]).co = e
  BY ReadyHead
<1>2. /\ Has(ready[o], ControlsFor(e)) <=>
           Has(ready'[o], ControlsFor(e)) \/ (o = t /\ Head(ready[t]) \in ControlsFor(e))
      /\ Once(ready[o], ControlsFor(e)) =>
           /\ Once(ready'[o], ControlsFor(e))
           /\ ~(o = t /\ Head(ready[t]) \in ControlsFor(e) /\ Has(ready'[o], ControlsFor(e)))
  BY ReadyPopped
<1>. QED
  BY <1>1, <1>2

\* FifoSchedulerThread::ready resumes the first of the ready queue ...
LEMMA ReadyResumes ==
  ASSUME TypeOK, Placed, NEW t \in Thread, ReadyResume(t)
  PROVE  \A e \in Coroutine \ killed' : NextPlacedAt(e)
<1>. DEFINE x == Head(ready[t]).co
<1>1. /\ cur[t] = None /\ cur' = [cur EXCEPT ![t] = x]
      /\ ready[t] # <<>> /\ ready' = [ready EXCEPT ![t] = Tail(@)]
      /\ UNCHANGED <<killed, state, home, children, spawned, delayed, inbox>>
  BY DEF ReadyResume, ReadyTurn, At, JumpIn, coVars, sharedVars
<1>. SUFFICES ASSUME NEW e \in Coroutine \ killed PROVE NextPlacedAt(e)
  BY <1>1
<1>2. x \in Coroutine
  BY <1>1, ReadyHead
<1>3. PlacedAt(e)
  BY DEF Placed
<1>4. ASSUME NEW o \in Thread
      PROVE  /\ Has(ready[o], ControlsFor(e)) <=>
                  Has(ready'[o], ControlsFor(e)) \/ (o = t /\ x = e)
             /\ Once(ready[o], ControlsFor(e)) =>
                  Once(ready'[o], ControlsFor(e)) /\ ~(o = t /\ x = e /\ Has(ready'[o], ControlsFor(e)))
  BY <1>1, ReadyShrinks
<1>. HIDE DEF x
<1>5. \A m \in Kind \ {"ready", "cur"}, q \in Owner : NextHolds(m, q, e) <=> Holds(m, q, e)
  BY <1>1 DEF Kind, Holds, NextHolds
<1>6. \A q \in Owner : Holds("ready", q, e) <=> NextHolds("ready", q, e) \/ (q = t /\ x = e)
  BY <1>4 DEF Holds, NextHolds
<1>7. \A q \in Owner : NextHolds("cur", q, e) <=> Holds("cur", q, e) \/ (q = t /\ x = e)
  BY <1>1, <1>2, JumpedIn
<1>8. HeldOnce(e) /\ ~(x = e /\ Holds("cur", t, e)) =>
        NextHeldOnce(e) /\ ~(x = e /\ NextHolds("ready", t, e))
  BY <1>1, <1>4 DEF HeldOnce, NextHeldOnce, NextHolds
<1>9. /\ "ready" \in Kind /\ "cur" \in Kind /\ "ready" # "cur" /\ t \in Owner
      /\ state'[e] = state[e] /\ home'[e] = home[e]
  BY <1>1 DEF Kind, Owner
<1>10. HandsOver("ready", t, "cur", t, x, e)
  BY <1>5, <1>6, <1>7, <1>8, <1>9 DEF HandsOver
<1>. QED
  BY <1>3, <1>9, <1>10, Transfer

\* ... or delays it until the next tick.
LEMMA ReadyDelays ==
  ASSUME TypeOK, Placed, NEW t \in Thread, ReadyDelay(t)
  PROVE  \A e \in Coroutine \ killed' : NextPlacedAt(e)
<1>. DEFINE x == Head(ready[t]).co
<1>1. /\ delayed' = [delayed EXCEPT ![t] = Append(@, x)]
      /\ ready[t] # <<>> /\ ready' = [ready EXCEPT ![t] = Tail(@)]
      /\ UNCHANGED <<killed, state, home, children, spawned, inbox, cur>>
  BY DEF ReadyDelay, ReadyTurn, coVars, sharedVars
<1>. SUFFICES ASSUME NEW e \in Coroutine \ killed PROVE NextPlacedAt(e)
  BY <1>1
<1>2. x \in Coroutine
  BY <1>1, ReadyHead
<1>3. PlacedAt(e)
  BY DEF Placed
<1>4. ASSUME NEW o \in Thread
      PROVE  /\ Has(ready[o], ControlsFor(e)) <=>
                  Has(ready'[o], ControlsFor(e)) \/ (o = t /\ x = e)
             /\ Once(ready[o], ControlsFor(e)) =>
                  Once(ready'[o], ControlsFor(e)) /\ ~(o = t /\ x = e /\ Has(ready'[o], ControlsFor(e)))
  BY <1>1, ReadyShrinks
<1>. HIDE DEF x
<1>a. ASSUME NEW o \in Thread
      PROVE  /\ Has(delayed'[o], Self(e)) <=> Has(delayed[o], Self(e)) \/ (o = t /\ x = e)
             /\ Once(delayed[o], Self(e)) /\ ~(o = t /\ x = e /\ Has(delayed[o], Self(e)))
                  => Once(delayed'[o], Self(e))
  <2>1. x \in Self(e) <=> x = e
    BY DEF Self
  <2>. QED
    BY <1>1, <1>2, <2>1, DelayedPushed
<1>5. \A m \in Kind \ {"ready", "delayed"}, q \in Owner : NextHolds(m, q, e) <=> Holds(m, q, e)
  BY <1>1 DEF Kind, Holds, NextHolds
<1>6. \A q \in Owner : Holds("ready", q, e) <=> NextHolds("ready", q, e) \/ (q = t /\ x = e)
  BY <1>4 DEF Holds, NextHolds
<1>7. \A q \in Owner : NextHolds("delayed", q, e) <=> Holds("delayed", q, e) \/ (q = t /\ x = e)
  BY <1>a DEF Holds, NextHolds
<1>8. HeldOnce(e) /\ ~(x = e /\ Holds("delayed", t, e)) =>
        NextHeldOnce(e) /\ ~(x = e /\ NextHolds("ready", t, e))
  BY <1>1, <1>4, <1>a DEF HeldOnce, NextHeldOnce, Holds, NextHolds
<1>9. /\ "ready" \in Kind /\ "delayed" \in Kind /\ "ready" # "delayed" /\ t \in Owner
      /\ state'[e] = state[e] /\ home'[e] = home[e]
  BY <1>1 DEF Kind, Owner
<1>10. HandsOver("ready", t, "delayed", t, x, e)
  BY <1>5, <1>6, <1>7, <1>8, <1>9 DEF HandsOver
<1>. QED
  BY <1>3, <1>9, <1>10, Transfer

\* FifoSchedulerThread::tick resumes the first that was delayed.
LEMMA TickResumes ==
  ASSUME TypeOK, TickBound, Placed, NEW t \in Thread, TickResume(t)
  PROVE  \A e \in Coroutine \ killed' : NextPlacedAt(e)
<1>. DEFINE x == Head(delayed[t])
<1>1. /\ cur[t] = None /\ cur' = [cur EXCEPT ![t] = x]
      /\ phase[t] = "tick" /\ tickLeft[t] > 0 /\ delayed' = [delayed EXCEPT ![t] = Tail(@)]
      /\ UNCHANGED <<killed, state, home, children, spawned, ready, inbox>>
  BY DEF TickResume, At, JumpIn, coVars, sharedVars
<1>a. delayed[t] # <<>>
  <2>1. delayed[t] \in Seq(Coroutine) /\ tickLeft[t] \in Nat /\ tickLeft[t] <= Len(delayed[t])
    BY <1>1 DEF TypeOK, TickBound
  <2>. QED
    BY <1>1, <2>1, EmptySeq
<1>2. x \in Coroutine
  BY <1>1, <1>a, HeadTailProperties DEF TypeOK
<1>. SUFFICES ASSUME NEW e \in Coroutine \ killed PROVE NextPlacedAt(e)
  BY <1>1
<1>. HIDE DEF x
<1>3. PlacedAt(e)
  BY DEF Placed
<1>4. ASSUME NEW o \in Thread
      PROVE  /\ Has(delayed[o], Self(e)) <=> Has(delayed'[o], Self(e)) \/ (o = t /\ x = e)
             /\ Once(delayed[o], Self(e)) =>
                  Once(delayed'[o], Self(e)) /\ ~(o = t /\ x = e /\ Has(delayed'[o], Self(e)))
  BY <1>1, <1>a, DelayedPopped DEF x, Self
<1>5. \A m \in Kind \ {"delayed", "cur"}, q \in Owner : NextHolds(m, q, e) <=> Holds(m, q, e)
  BY <1>1 DEF Kind, Holds, NextHolds
<1>6. \A q \in Owner : Holds("delayed", q, e) <=> NextHolds("delayed", q, e) \/ (q = t /\ x = e)
  BY <1>4 DEF Holds, NextHolds
<1>7. \A q \in Owner : NextHolds("cur", q, e) <=> Holds("cur", q, e) \/ (q = t /\ x = e)
  BY <1>1, <1>2, JumpedIn
<1>8. HeldOnce(e) /\ ~(x = e /\ Holds("cur", t, e)) =>
        NextHeldOnce(e) /\ ~(x = e /\ NextHolds("delayed", t, e))
  BY <1>1, <1>4 DEF HeldOnce, NextHeldOnce, NextHolds
<1>9. /\ "delayed" \in Kind /\ "cur" \in Kind /\ "delayed" # "cur" /\ t \in Owner
      /\ state'[e] = state[e] /\ home'[e] = home[e]
  BY <1>1 DEF Kind, Owner
<1>10. HandsOver("delayed", t, "cur", t, x, e)
  BY <1>5, <1>6, <1>7, <1>8, <1>9 DEF HandsOver
<1>. QED
  BY <1>3, <1>9, <1>10, Transfer

\* CoroutineControl::migrate: from the spawned queue into a notify queue.
LEMMA SpawnedMigrates ==
  ASSUME TypeOK, Placed, NEW t \in Thread, NEW u \in Thread,
         spawned[t] # <<>>, spawned' = [spawned EXCEPT ![t] = Tail(@)],
         home' = [home EXCEPT ![Head(spawned[t])] = None],
         inbox' = [inbox EXCEPT ![u] = Append(@, Migration(Head(spawned[t])))],
         UNCHANGED <<killed, state, children, ready, delayed, cur>>
  PROVE  \A e \in Coroutine \ killed' : NextPlacedAt(e)
<1>. DEFINE x == Head(spawned[t])
<1>2. x \in Coroutine
  BY HeadTailProperties DEF TypeOK
<1>. SUFFICES ASSUME NEW e \in Coroutine \ killed PROVE NextPlacedAt(e)
  OBVIOUS
<1>3. PlacedAt(e)
  BY DEF Placed
<1>4. ASSUME NEW o \in Thread
      PROVE  /\ Has(spawned[o], Self(e)) <=> Has(spawned'[o], Self(e)) \/ (o = t /\ x = e)
             /\ Once(spawned[o], Self(e)) =>
                  Once(spawned'[o], Self(e)) /\ ~(o = t /\ x = e /\ Has(spawned'[o], Self(e)))
  BY SpawnedPopped DEF Self
<1>1. inbox' = [inbox EXCEPT ![u] = Append(@, Migration(x))] /\ home' = [home EXCEPT ![x] = None]
  OBVIOUS
<1>. HIDE DEF x
<1>a. ASSUME NEW o \in Thread
      PROVE  /\ Has(inbox'[o], MigrationsOf(e)) <=> Has(inbox[o], MigrationsOf(e)) \/ (o = u /\ x = e)
             /\ Once(inbox[o], MigrationsOf(e)) /\ ~(o = u /\ x = e /\ Has(inbox[o], MigrationsOf(e)))
                  => Once(inbox'[o], MigrationsOf(e))
  <2>. DEFINE m == Migration(x)
  <2>1. m \in Message /\ (m \in MigrationsOf(e) <=> x = e)
    BY <1>2 DEF Message, Migration, MigrationsOf
  <2>2. inbox' = [inbox EXCEPT ![u] = Append(@, m)]
    BY <1>1
  <2>. HIDE DEF m
  <2>. QED
    BY <2>1, <2>2, InboxPushed
<1>5. \A m \in Kind \ {"spawned", "inbox"}, q \in Owner : NextHolds(m, q, e) <=> Holds(m, q, e)
  BY DEF Kind, Holds, NextHolds
<1>6. \A q \in Owner : Holds("spawned", q, e) <=> NextHolds("spawned", q, e) \/ (q = t /\ x = e)
  BY <1>4 DEF Holds, NextHolds
<1>7. \A q \in Owner : NextHolds("inbox", q, e) <=> Holds("inbox", q, e) \/ (q = u /\ x = e)
  BY <1>a DEF Holds, NextHolds
<1>8. HeldOnce(e) /\ ~(x = e /\ Holds("inbox", u, e)) =>
        NextHeldOnce(e) /\ ~(x = e /\ NextHolds("spawned", t, e))
  BY <1>4, <1>a DEF HeldOnce, NextHeldOnce, Holds, NextHolds
<1>9. /\ "spawned" \in Kind /\ "inbox" \in Kind /\ "spawned" # "inbox" /\ t \in Owner /\ u \in Owner
      /\ state'[e] = state[e] /\ (home'[e] = home[e] \/ x = e)
  BY <1>1 DEF Kind, Owner, TypeOK
<1>10. HandsOver("spawned", t, "inbox", u, x, e)
  BY <1>5, <1>6, <1>7, <1>8, <1>9 DEF HandsOver
<1>. QED
  BY <1>3, <1>9, <1>10, Transfer

\* Handler::notify with a Migration: into the slab of the thread and resumed, or killed.
LEMMA MigrationArrives ==
  ASSUME TypeOK, Placed, NEW t \in Thread, OnMigration(t)
  PROVE  \A e \in Coroutine \ killed' : NextPlacedAt(e)
<1>. DEFINE x == Head(inbox[t]).co
<1>1. /\ cur[t] = None /\ cur' = [cur EXCEPT ![t] = x]
      /\ inbox[t] # <<>> /\ Head(inbox[t]).type = "Migration"
      /\ inbox' = [inbox EXCEPT ![t] = Tail(@)]
      /\ home' = [home EXCEPT ![x] = t]
      /\ killed \subseteq killed'
      /\ UNCHANGED <<state, children, spawned, ready, delayed>>
  BY DEF OnMigration, Receives, At, JumpIn
<1>2. Head(inbox[t]) = Migration(x) /\ x \in Coroutine
  <2>1. Head(inbox[t]) \in Message
    BY <1>1, HeadTailProperties DEF TypeOK
  <2>. QED
    BY <1>1, <2>1 DEF Message, Migration, Shutdown, Terminate, PropagatePanic
<1>. SUFFICES ASSUME NEW e \in Coroutine \ killed PROVE NextPlacedAt(e)
  BY <1>1
<1>3. PlacedAt(e)
  BY DEF Placed
<1>. HIDE DEF x
<1>b. Head(inbox[t]) \in MigrationsOf(e) <=> x = e
  BY <1>2 DEF MigrationsOf, Migration
<1>4. ASSUME NEW o \in Thread
      PROVE  /\ Has(inbox[o], MigrationsOf(e)) <=>
                  Has(inbox'[o], MigrationsOf(e)) \/ (o = t /\ x = e)
             /\ Once(inbox[o], MigrationsOf(e)) =>
                  Once(inbox'[o], MigrationsOf(e)) /\ ~(o = t /\ x = e /\ Has(inbox'[o], MigrationsOf(e)))
  BY <1>1, <1>b, InboxPopped
<1>5. \A m \in Kind \ {"inbox", "cur"}, q \in Owner : NextHolds(m, q, e) <=> Holds(m, q, e)
  BY <1>1 DEF Kind, Holds, NextHolds
<1>6. \A q \in Owner : Holds("inbox", q, e) <=> NextHolds("inbox", q, e) \/ (q = t /\ x = e)
  BY <1>4 DEF Holds, NextHolds
<1>7. \A q \in Owner : NextHolds("cur", q, e) <=> Holds("cur", q, e) \/ (q = t /\ x = e)
  BY <1>1, <1>2, JumpedIn
<1>8. HeldOnce(e) /\ ~(x = e /\ Holds("cur", t, e)) =>
        NextHeldOnce(e) /\ ~(x = e /\ NextHolds("inbox", t, e))
  BY <1>1, <1>4 DEF HeldOnce, NextHeldOnce, NextHolds
<1>9. /\ "inbox" \in Kind /\ "cur" \in Kind /\ "inbox" # "cur" /\ t \in Owner
      /\ state'[e] = state[e]
  BY <1>1 DEF Kind, Owner
<1>c. (x = e => home'[e] # None) /\ (x # e => home'[e] = home[e])
  BY <1>1, ThreadAssumption DEF TypeOK
<1>10. HandsOver("inbox", t, "cur", t, x, e)
  BY <1>5, <1>6, <1>7, <1>8, <1>9, <1>c DEF HandsOver
<1>. QED
  BY <1>3, <1>9, <1>10, Transfer

\* CoroutineSlabHandle::event: a blocked coroutine is resumed where its slab is.
LEMMA Woken ==
  ASSUME TypeOK, Placed, NEW t \in Thread, NEW c \in Coroutine, home[c] = t, state[c] = "Blocked",
         state' = [state EXCEPT ![c] = "Ready"], cur[t] = None, cur' = [cur EXCEPT ![t] = c],
         UNCHANGED <<killed, home, children, spawned, ready, delayed>>,
         \A e \in Coroutine, o \in Thread :
           /\ Has(inbox'[o], MigrationsOf(e)) <=> Has(inbox[o], MigrationsOf(e))
           /\ Once(inbox[o], MigrationsOf(e)) => Once(inbox'[o], MigrationsOf(e))
  PROVE  \A e \in Coroutine \ killed' : NextPlacedAt(e)
<1>. SUFFICES ASSUME NEW e \in Coroutine \ killed PROVE NextPlacedAt(e)
  OBVIOUS
<1>1. PlacedAt(e)
  BY DEF Placed
<1>2. \A q \in Owner : NextHolds("cur", q, e) <=> Holds("cur", q, e) \/ (q = t /\ c = e)
  BY JumpedIn
<1>3. \A m \in Kind \ {"cur"}, q \in Owner : NextHolds(m, q, e) <=> Holds(m, q, e)
  BY DEF Kind, Holds, NextHolds
<1>4. HeldOnce(e) => NextHeldOnce(e)
  BY DEF HeldOnce, NextHeldOnce
<1>5. CASE e # c
  <2>1. \A m \in Kind, q \in Owner : NextHolds(m, q, e) <=> Holds(m, q, e)
    BY <1>2, <1>3, <1>5
  <2>2. state'[e] = state[e] /\ home'[e] = home[e]
    BY <1>5 DEF TypeOK
  <2>. QED
    BY <1>1, <1>4, <2>1, <2>2, Stays
<1>6. CASE e = c
  <2>1. NotHeld(e) /\ "cur" \in Kind /\ t \in Owner
    BY <1>1, <1>6 DEF PlacedAt, Kind, Owner
  <2>2. \A m \in Kind, q \in Owner : NextHolds(m, q, e) <=> m = "cur" /\ q = t
    BY <1>2, <1>3, <1>6, <2>1 DEF NotHeld
  <2>3. NextHeldOnce(e)
    BY <1>4, <2>1, NotHeldOnce
  <2>4. state'[e] = "Ready" /\ home'[e] # None
    BY <1>6, ThreadAssumption DEF TypeOK
  <2>. QED
    BY <2>1, <2>2, <2>3, <2>4, Arrives
<1>. QED
  BY <1>5, <1>6

-----------------------------------------------------------------------------
(* Births and ends *)

\* A new coroutine d is added to l of p and nothing else moves; what that means for e.
Adds(l, p, d, e) ==
  /\ \A m \in Kind \ {l}, q \in Owner : NextHolds(m, q, e) <=> Holds(m, q, e)
  /\ \A q \in Owner : NextHolds(l, q, e) <=> Holds(l, q, e) \/ (q = p /\ d = e)
  /\ HeldOnce(e) /\ ~(d = e /\ Holds(l, p, e)) => NextHeldOnce(e)

\* The new coroutine has one holder, the others stay.
LEMMA Newborn ==
  ASSUME TypeOK, RefersToBorn, NEW d \in Coroutine, state[d] = "unborn", NEW h \in Thread,
         state' = [state EXCEPT ![d] = "Ready"], home' = [home EXCEPT ![d] = h],
         NEW e \in Coroutine, PlacedAt(e), NEW l \in Kind, NEW p \in Owner, Adds(l, p, d, e)
  PROVE  NextPlacedAt(e)
<1>. USE DEF Adds
<1>1. CASE e # d
  <2>1. \A m \in Kind, q \in Owner : NextHolds(m, q, e) <=> Holds(m, q, e)
    BY <1>1
  <2>2. HeldOnce(e) => NextHeldOnce(e)
    BY <1>1
  <2>3. state'[e] = state[e] /\ home'[e] = home[e]
    BY <1>1 DEF TypeOK
  <2>. QED
    BY <2>1, <2>2, <2>3, Stays
<1>2. CASE e = d
  <2>1. NotHeld(e)
    BY <1>2, UnbornNotHeld
  <2>2. \A m \in Kind, q \in Owner : NextHolds(m, q, e) <=> m = l /\ q = p
    BY <1>2, <2>1 DEF NotHeld
  <2>3. NextHeldOnce(e)
    <3>1. HeldOnce(e) /\ ~Holds(l, p, e)
      BY <2>1, NotHeldOnce DEF NotHeld
    <3>. QED
      BY <3>1
  <2>4. state'[e] = "Ready" /\ home'[e] # None
    BY <1>2, ThreadAssumption DEF TypeOK
  <2>. QED
    BY <2>2, <2>3, <2>4, Arrives
<1>. QED
  BY <1>1, <1>2

\* mioco::spawn adds the child to children_to_start of its parent.
LEMMA SpawnPlaces ==
  ASSUME TypeOK, RefersToBorn, Placed, NEW t \in Thread, NEW c \in Coroutine, NEW d \in Coroutine,
         Spawn(t, c, d)
  PROVE  \A e \in Coroutine \ killed' : NextPlacedAt(e)
<1>1. /\ state[d] = "unborn" /\ state' = [state EXCEPT ![d] = "Ready"]
      /\ home' = [home EXCEPT ![d] = t] /\ children' = [children EXCEPT ![c] = Append(@, d)]
      /\ UNCHANGED <<killed, spawned, ready, delayed, inbox, cur>>
  BY DEF Spawn, threadVars
<1>. SUFFICES ASSUME NEW e \in Coroutine \ killed PROVE NextPlacedAt(e)
  BY <1>1
<1>2. PlacedAt(e) /\ "children" \in Kind /\ c \in Owner
  BY DEF Placed, Kind, Owner
<1>3. ASSUME NEW o \in Coroutine
      PROVE  /\ Has(children'[o], Self(e)) <=> Has(children[o], Self(e)) \/ (o = c /\ d = e)
             /\ Once(children[o], Self(e)) /\ ~(o = c /\ d = e /\ Has(children[o], Self(e)))
                  => Once(children'[o], Self(e))
  <2>1. d \in Self(e) <=> d = e
    BY DEF Self
  <2>. QED
    BY <1>1, <2>1, ChildrenPushed
<1>4. Adds("children", c, d, e)
  <2>1. \A m \in Kind \ {"children"}, q \in Owner : NextHolds(m, q, e) <=> Holds(m, q, e)
    BY <1>1 DEF Kind, Holds, NextHolds
  <2>2. \A q \in Owner : NextHolds("children", q, e) <=> Holds("children", q, e) \/ (q = c /\ d = e)
    BY <1>3 DEF Holds, NextHolds
  <2>3. HeldOnce(e) /\ ~(d = e /\ Holds("children", c, e)) => NextHeldOnce(e)
    BY <1>1, <1>3 DEF HeldOnce, NextHeldOnce, Holds
  <2>. QED
    BY <2>1, <2>2, <2>3 DEF Adds
<1>. QED
  BY <1>1, <1>2, <1>4, Newborn

\* Mioco::run adds the first coroutine to the spawned queue of the first thread.
LEMMA StartPlaces ==
  ASSUME TypeOK, RefersToBorn, Starting, Placed, StartMain
  PROVE  \A e \in Coroutine \ killed' : NextPlacedAt(e)
<1>1. /\ phase[0] = "waiting" /\ state' = [state EXCEPT ![Main] = "Ready"]
      /\ home' = [home EXCEPT ![Main] = 0] /\ spawned' = [spawned EXCEPT ![0] = Append(@, Main)]
      /\ UNCHANGED <<killed, children, ready, delayed, inbox, cur>>
  BY DEF StartMain
<1>2. Main \in Coroutine /\ state[Main] = "unborn" /\ 0 \in Thread
  BY <1>1, CoroutineAssumption, BoundAssumption DEF Starting, Born, Thread
<1>. SUFFICES ASSUME NEW e \in Coroutine \ killed PROVE NextPlacedAt(e)
  BY <1>1
<1>3. PlacedAt(e) /\ "spawned" \in Kind /\ 0 \in Owner
  BY <1>2 DEF Placed, Kind, Owner
<1>4. ASSUME NEW o \in Thread
      PROVE  /\ Has(spawned'[o], Self(e)) <=> Has(spawned[o], Self(e)) \/ (o = 0 /\ Main = e)
             /\ Once(spawned[o], Self(e)) /\ ~(o = 0 /\ Main = e /\ Has(spawned[o], Self(e)))
                  => Once(spawned'[o], Self(e))
  <2>1. Main \in Self(e) <=> Main = e
    BY DEF Self
  <2>. QED
    BY <1>1, <1>2, <2>1, SpawnedPushed
<1>5. Adds("spawned", 0, Main, e)
  <2>1. \A m \in Kind \ {"spawned"}, q \in Owner : NextHolds(m, q, e) <=> Holds(m, q, e)
    BY <1>1 DEF Kind, Holds, NextHolds
  <2>2. \A q \in Owner : NextHolds("spawned", q, e) <=> Holds("spawned", q, e) \/ (q = 0 /\ Main = e)
    BY <1>2, <1>4 DEF Holds, NextHolds
  <2>3. HeldOnce(e) /\ ~(Main = e /\ Holds("spawned", 0, e)) => NextHeldOnce(e)
    BY <1>1, <1>2, <1>4 DEF HeldOnce, NextHeldOnce, Holds
  <2>. QED
    BY <2>1, <2>2, <2>3 DEF Adds
<1>. QED
  BY <1>1, <1>2, <1>3, <1>5, Newborn

\* The end of coroutine_main_fn moves nobody ...
LEMMA FinishPlaces ==
  ASSUME TypeOK, Placed, NEW t \in Thread, NEW c \in Coroutine, NEW ok \in BOOLEAN, Finish(t, c, ok)
  PROVE  \A e \in Coroutine \ killed' : NextPlacedAt(e)
<1>1. /\ state' = [state EXCEPT ![c] = "Finished"] /\ home' = [home EXCEPT ![c] = None]
      /\ UNCHANGED <<killed, children, spawned, ready, delayed, inbox, cur>>
  BY DEF Finish
<1>. SUFFICES ASSUME NEW e \in Coroutine \ killed PROVE NextPlacedAt(e)
  BY <1>1
<1>2. CASE e = c
  <2>1. state'[e] = "Finished"
    BY <1>1, <1>2 DEF TypeOK
  <2>. QED
    BY <2>1, GoneIsPlaced
<1>3. CASE e # c
  <2>1. state'[e] = state[e] /\ home'[e] = home[e] /\ PlacedAt(e)
    BY <1>1, <1>3 DEF TypeOK, Placed
  <2>. QED
    BY <1>1, <2>1, NothingMoves
<1>. QED
  BY <1>2, <1>3

\* ... and the last jump out starts its children.
LEMMA ExitPlaces ==
  ASSUME TypeOK, Placed, NEW t \in Thread, NEW c \in Coroutine, ExitSend(t, c), phase'[t] # "aborted"
  PROVE  \A e \in Coroutine \ killed' : NextPlacedAt(e)
<1>1. /\ cur[t] = c /\ state[c] = "Finished" /\ StartChildren(t, c)
      /\ cur' = [cur EXCEPT ![t] = None] /\ NotifyJoiner(t, c)
      /\ UNCHANGED <<killed, state, home, ready, delayed>>
  BY DEF ExitSend
<1>. SUFFICES ASSUME NEW e \in Coroutine \ killed PROVE NextPlacedAt(e)
  BY <1>1
<1>2. CASE e = c
  BY <1>1, <1>2, GoneIsPlaced
<1>3. CASE e # c
  <2>1. \A o \in Thread : /\ Has(inbox'[o], MigrationsOf(e)) <=> Has(inbox[o], MigrationsOf(e))
                          /\ Once(inbox[o], MigrationsOf(e)) => Once(inbox'[o], MigrationsOf(e))
    <3>1. CASE token[c] = None
      BY <1>1, <3>1 DEF NotifyJoiner
    <3>2. CASE token[c] # None
      <4>. DEFINE u == token[c].thread
                  m == ChannelMsg(token[c].co)
      <4>1. token[c] \in [co : Coroutine, thread : Thread]
        BY <3>2 DEF TypeOK
      <4>2. u \in Thread /\ m \in Message /\ m.type # "Migration"
        BY <4>1 DEF ChannelMsg, Message
      <4>3. phase' = [phase EXCEPT ![t] = "aborted"] \/ inbox' = [inbox EXCEPT ![u] = Append(@, m)]
        BY <1>1, <3>2 DEF NotifyJoiner, SendTo
      <4>4. inbox' = [inbox EXCEPT ![u] = Append(@, m)]
        BY <4>3 DEF TypeOK
      <4>. HIDE DEF u, m
      <4>. QED
        BY <4>2, <4>4, SentMessage
    <3>. QED
      BY <3>1, <3>2
  <2>2. PlacedAt(e)
    BY DEF Placed
  <2>. QED
    BY <1>1, <1>3, <2>1, <2>2, OthersAfterJump
<1>. QED
  BY <1>2, <1>3

\* Handler::shutdown jumps into one that it kills.
LEMMA KillPlaces ==
  ASSUME TypeOK, Placed, NEW t \in Thread, NEW c \in Coroutine, KillNext(t, c)
  PROVE  \A e \in Coroutine \ killed' : NextPlacedAt(e)
<1>1. /\ cur[t] = None /\ cur' = [cur EXCEPT ![t] = c] /\ killed' = killed \cup {c}
      /\ UNCHANGED <<state, home, children, spawned, ready, delayed, inbox>>
  BY DEF KillNext, At, JumpIn, sharedVars
<1>. SUFFICES ASSUME NEW e \in Coroutine \ killed, e # c PROVE NextPlacedAt(e)
  BY <1>1
<1>2. PlacedAt(e)
  BY DEF Placed
<1>3. \A q \in Owner : NextHolds("cur", q, e) <=> Holds("cur", q, e) \/ (q = t /\ c = e)
  BY <1>1, JumpedIn
<1>4. \A m \in Kind \ {"cur"}, q \in Owner : NextHolds(m, q, e) <=> Holds(m, q, e)
  BY <1>1 DEF Kind, Holds, NextHolds
<1>5. \A m \in Kind, q \in Owner : NextHolds(m, q, e) <=> Holds(m, q, e)
  BY <1>3, <1>4
<1>6. HeldOnce(e) => NextHeldOnce(e)
  BY <1>1 DEF HeldOnce, NextHeldOnce
<1>. QED
  BY <1>1, <1>2, <1>5, <1>6, Stays

-----------------------------------------------------------------------------
(* The invariant *)

\* Steps that move nobody.
LEMMA NobodyMoves ==
  ASSUME Placed, UNCHANGED <<killed, state, home, children, spawned, ready, delayed, inbox, cur>>
  PROVE  \A e \in Coroutine \ killed' : NextPlacedAt(e)
<1>. SUFFICES ASSUME NEW e \in Coroutine \ killed PROVE NextPlacedAt(e)
  OBVIOUS
<1>1. PlacedAt(e)
  BY DEF Placed
<1>. QED
  BY <1>1, NothingMoves

\* Steps that move messages only.
LEMMA OnlyMessagesMove ==
  ASSUME Placed, UNCHANGED <<killed, state, home, children, spawned, ready, delayed, cur>>,
         \A e \in Coroutine, o \in Thread :
           /\ Has(inbox'[o], MigrationsOf(e)) <=> Has(inbox[o], MigrationsOf(e))
           /\ Once(inbox[o], MigrationsOf(e)) => Once(inbox'[o], MigrationsOf(e))
  PROVE  \A e \in Coroutine \ killed' : NextPlacedAt(e)
<1>. SUFFICES ASSUME NEW e \in Coroutine \ killed PROVE NextPlacedAt(e)
  OBVIOUS
<1>1. PlacedAt(e)
  BY DEF Placed
<1>. QED
  BY <1>1, MessagesOnly

\* What coroutines do.
LEMMA RunPlaces ==
  ASSUME TypeOK, RefersToBorn, Placed, NEW t \in Thread, Run(t), phase'[t] # "aborted"
  PROVE  \A e \in Coroutine \ killed' : NextPlacedAt(e)
<1>. PICK c \in Coroutine :
       \/ \E d \in Coroutine : Spawn(t, c, d) \/ Join(t, c, d)
       \/ Yield(t, c)
       \/ Block(t, c)
       \/ JoinReturn(t, c)
       \/ CallShutdown(t, c)
       \/ \E ok \in BOOLEAN : Finish(t, c, ok)
       \/ ExitSend(t, c)
  BY DEF Run
<1>1. ASSUME Running(t, c) PROVE cur[t] = c /\ state[c] \in {"Ready", "Blocked"}
  <2>1. cur[t] = c /\ state[c] # "Finished" /\ c \in Born
    BY <1>1, CoroutineAssumption DEF Running, RefersToBorn, RefersTo
  <2>. QED
    BY <2>1 DEF Born, TypeOK
<1>2. ASSUME NEW d \in Coroutine, Spawn(t, c, d) PROVE \A e \in Coroutine \ killed' : NextPlacedAt(e)
  BY <1>2, SpawnPlaces
<1>3. ASSUME NEW d \in Coroutine, Join(t, c, d) PROVE \A e \in Coroutine \ killed' : NextPlacedAt(e)
  <2>1. /\ Running(t, c) /\ c \notin killed /\ StartChildren(t, c)
        /\ state' = [state EXCEPT ![c] = "Blocked"] /\ cur' = [cur EXCEPT ![t] = None]
        /\ UNCHANGED <<killed, home, ready, delayed, inbox>>
    BY <1>3 DEF Join, sharedVars
  <2>2. cur[t] = c /\ state[c] \in {"Ready", "Blocked"}
    BY <1>1, <2>1
  <2>. QED
    BY <2>1, <2>2, OutToBlock
<1>4. CASE Yield(t, c)
  <2>1. /\ Running(t, c) /\ c \notin killed /\ StartChildren(t, c)
        /\ ready' = [ready EXCEPT ![t] = Append(@, Control(c, TRUE))]
        /\ cur' = [cur EXCEPT ![t] = None]
        /\ UNCHANGED <<killed, state, home, delayed, inbox>>
    BY <1>4 DEF Yield, Free, sharedVars
  <2>2. cur[t] = c /\ state[c] \in {"Ready", "Blocked"}
    BY <1>1, <2>1
  <2>. QED
    BY <2>1, <2>2, BackToReady
<1>5. CASE Block(t, c)
  <2>1. /\ Running(t, c) /\ c \notin killed /\ StartChildren(t, c)
        /\ cur' = [cur EXCEPT ![t] = None]
        /\ UNCHANGED <<killed, home, delayed, inbox>>
    BY <1>5 DEF Block, Free, sharedVars
  <2>2. cur[t] = c /\ state[c] \in {"Ready", "Blocked"}
    BY <1>1, <2>1
  <2>3. CASE state' = [state EXCEPT ![c] = "Blocked"] /\ ready' = ready
    BY <2>1, <2>2, <2>3, OutToBlock
  <2>4. CASE state' = state /\ ready' = [ready EXCEPT ![t] = Append(@, Control(c, FALSE))]
    BY <2>1, <2>2, <2>4, BackToReady
  <2>. QED
    BY <1>5, <2>3, <2>4 DEF Block
<1>6. CASE JoinReturn(t, c) \/ CallShutdown(t, c)
  <2>1. UNCHANGED <<killed, state, home, children, spawned, ready, delayed, inbox, cur>>
    BY <1>6 DEF JoinReturn, CallShutdown, threadVars, sharedVars
  <2>. QED
    BY <2>1, NobodyMoves
<1>7. ASSUME NEW ok \in BOOLEAN, Finish(t, c, ok) PROVE \A e \in Coroutine \ killed' : NextPlacedAt(e)
  BY <1>7, FinishPlaces
<1>8. CASE ExitSend(t, c)
  BY <1>8, ExitPlaces
<1>. QED
  BY <1>2, <1>3, <1>4, <1>5, <1>6, <1>7, <1>8

\* What threads do on their own.
LEMMA ThreadPlaces ==
  ASSUME TypeOK, RefersToBorn, Starting, TickBound, Placed, NoneToMigrate, NEW t \in Thread, Step(t), ~Unwind(t),
         phase'[t] \notin {"aborted", "unwind"}
  PROVE  \A e \in Coroutine \ killed' : NextPlacedAt(e)
<1>1. CASE SpawnThread(t) \/ StartOther(t) \/ Delivered(t) \/ KillDone(t) \/ Exit(t) \/ TickDone(t)
  <2>1. UNCHANGED <<killed, state, home, children, spawned, ready, delayed, inbox, cur>>
    BY <1>1 DEF SpawnThread, StartOther, Delivered, KillDone, Exit, TickDone, coVars, sharedVars
  <2>. QED
    BY <2>1, NobodyMoves
<1>2. CASE StartMain
  BY <1>2, StartPlaces
<1>3. CASE SpawnedResume(t) \/ ReadyDelay(t) \/ ReadyResume(t) \/ TickResume(t)
  BY <1>3, SpawnedResumes, ReadyDelays, ReadyResumes, TickResumes
<1>4. CASE SpawnedMigrate(t)
  <2>1. /\ spawned[t] # <<>> /\ spawned' = [spawned EXCEPT ![t] = Tail(@)]
        /\ home' = [home EXCEPT ![Head(spawned[t])] = None]
        /\ UNCHANGED <<killed, state, children, ready, delayed, cur>>
    BY <1>4 DEF SpawnedMigrate, SpawnedTurn
  <2>2. /\ schedI[t] \in Thread
        /\ inbox' = [inbox EXCEPT ![schedI[t]] = Append(@, Migration(Head(spawned[t])))]
    BY <1>4 DEF SpawnedMigrate, SendTo, TypeOK
  <2>. QED
    BY <2>1, <2>2, SpawnedMigrates
<1>5. CASE Run(t)
  BY <1>5, RunPlaces
<1>6. CASE SendNext(t)
  <2>. DEFINE u == Head(todo[t]).to
              m == Head(todo[t]).msg
  <2>1. /\ todo[t] # <<>> /\ SendTo(t, u, m, phase[t])
        /\ UNCHANGED <<killed, state, home, children, spawned, ready, delayed, cur>>
    BY <1>6 DEF SendNext, coVars
  <2>2. inbox' = [inbox EXCEPT ![u] = Append(@, m)]
    BY <2>1 DEF SendTo, TypeOK
  <2>3. u \in Thread /\ m \in Message /\ InTodo(m)
    <3>. DEFINE R == [to : Thread, msg : Message]
    <3>1. todo[t] \in Seq(R)
      BY DEF TypeOK
    <3>2. \E i \in DOMAIN todo[t] : Head(todo[t]) = todo[t][i]
      <4>. HIDE DEF R
      <4>. QED
        BY <2>1, <3>1, QueueElements
    <3>3. Head(todo[t]) \in R
      <4>. HIDE DEF R
      <4>. QED
        BY <2>1, <3>1, HeadTailProperties
    <3>. QED
      BY <3>2, <3>3 DEF InTodo
  <2>. HIDE DEF u, m
  <2>4. m.type # "Migration"
    <3>1. m.type = "Migration" => m = Migration(m.co) /\ m.co \in Coroutine
      BY <2>3 DEF Message, Migration, Shutdown, Terminate, PropagatePanic
    <3>. QED
      BY <2>3, <3>1 DEF NoneToMigrate
  <2>. QED
    BY <2>1, <2>2, <2>3, <2>4, SentMessage, OnlyMessagesMove
<1>7. ASSUME NEW c \in Coroutine, KillNext(t, c) PROVE \A e \in Coroutine \ killed' : NextPlacedAt(e)
  BY <1>7, KillPlaces
<1>. QED
  BY <1>1, <1>2, <1>3, <1>4, <1>5, <1>6, <1>7 DEF Step, Deliver

\* The callbacks of the event loop.
LEMMA CallbackPlaces ==
  ASSUME TypeOK, Placed, NEW t \in Thread,
         (Notify(t) /\ ~OnPropagatePanic(t)) \/ Tick(t) \/ \E c \in Coroutine : Event(t, c)
  PROVE  \A e \in Coroutine \ killed' : NextPlacedAt(e)
<1>1. CASE Tick(t)
  <2>1. UNCHANGED <<killed, state, home, children, spawned, ready, delayed, inbox, cur>>
    BY <1>1 DEF Tick, coVars, sharedVars
  <2>. QED
    BY <2>1, NobodyMoves
<1>2. ASSUME NEW c \in Coroutine, Event(t, c) PROVE \A e \in Coroutine \ killed' : NextPlacedAt(e)
  <2>1. /\ home[c] = t /\ state[c] = "Blocked" /\ state' = [state EXCEPT ![c] = "Ready"]
        /\ cur[t] = None /\ cur' = [cur EXCEPT ![t] = c]
        /\ UNCHANGED <<killed, home, children, spawned, ready, delayed, inbox>>
    BY <1>2 DEF Event, At, Unblock, JumpIn, sharedVars
  <2>. QED
    BY <2>1, Woken
<1>3. CASE OnMigration(t)
  BY <1>3, MigrationArrives
<1>4. CASE OnShutdown(t) \/ OnTerminate(t)
  <2>1. /\ Receives(t, "Shutdown") \/ Receives(t, "Terminate")
        /\ UNCHANGED <<killed, state, home, children, spawned, ready, delayed, cur>>
    BY <1>4 DEF OnShutdown, OnTerminate, coVars
  <2>2. \A e \in Coroutine, o \in Thread :
          /\ Has(inbox'[o], MigrationsOf(e)) <=> Has(inbox[o], MigrationsOf(e))
          /\ Once(inbox[o], MigrationsOf(e)) => Once(inbox'[o], MigrationsOf(e))
    BY <2>1, ReceivedMessage
  <2>. QED
    BY <2>1, <2>2, OnlyMessagesMove
<1>5. CASE OnChannelMsg(t)
  <2>. DEFINE c == Head(inbox[t]).co
  <2>1. /\ Receives(t, "ChannelMsg")
        /\ UNCHANGED <<killed, home, children, spawned, ready, delayed>>
    BY <1>5 DEF OnChannelMsg
  <2>2. \A e \in Coroutine, o \in Thread :
          /\ Has(inbox'[o], MigrationsOf(e)) <=> Has(inbox[o], MigrationsOf(e))
          /\ Once(inbox[o], MigrationsOf(e)) => Once(inbox'[o], MigrationsOf(e))
    BY <2>1, ReceivedMessage
  <2>3. CASE Wakes(t, c)
    <3>1. /\ home[c] = t /\ state[c] = "Blocked" /\ state' = [state EXCEPT ![c] = "Ready"]
          /\ cur[t] = None /\ cur' = [cur EXCEPT ![t] = c]
      BY <1>5, <2>3 DEF OnChannelMsg, Receives, At, Wakes, Unblock, JumpIn
    <3>2. c \in Coroutine
      <4>1. inbox[t] # <<>> /\ Head(inbox[t]).type = "ChannelMsg"
        BY <2>1 DEF Receives
      <4>2. Head(inbox[t]) \in Message
        BY <4>1, HeadTailProperties DEF TypeOK
      <4>. QED
        BY <4>1, <4>2 DEF Message, Shutdown, Terminate, PropagatePanic
    <3>. HIDE DEF c
    <3>. QED
      BY <2>1, <2>2, <3>1, <3>2, Woken
  <2>4. CASE ~Wakes(t, c)
    <3>1. UNCHANGED <<state, cur>>
      BY <1>5, <2>4 DEF OnChannelMsg
    <3>. QED
      BY <2>1, <2>2, <3>1, OnlyMessagesMove
  <2>. QED
    BY <2>3, <2>4
<1>. QED
  BY <1>1, <1>2, <1>3, <1>4, <1>5 DEF Notify

\* With nobody alive there is nothing to say.
LEMMA NobodyLeft ==
  ASSUME Counted', num' = 0
  PROVE  \A e \in Coroutine : TypeOK' => NextPlacedAt(e)
<1>. SUFFICES ASSUME NEW e \in Coroutine, TypeOK' PROVE NextPlacedAt(e)
  OBVIOUS
<1>. DEFINE L == {c \in Coroutine : state'[c] \notin {"unborn", "Finished"}}
<1>1. Cardinality(L) = 0
  BY DEF Counted, Live
<1>2. IsFiniteSet(L)
  BY CoroutineAssumption, FS_Subset
<1>3. L = {}
  BY <1>1, <1>2, FS_EmptySet
<1>. QED
  BY <1>3, GoneIsPlaced

\* The inductive step.
LEMMA PlacedStep ==
  ASSUME CatchPanics, Starts = 0, IInv, IInv', Placed, NoneToMigrate, [Next]_vars
  PROVE  Placed'
<1>1. TypeOK /\ RefersToBorn /\ Starting /\ TickBound /\ TypeOK' /\ Counted'
  BY DEF IInv
<1>2. /\ \A t \in Thread : phase'[t] # "unwind" /\ (phase'[t] = "aborted" => num' = 0)
      /\ \A t \in Thread : phase[t] # "unwind"
  BY DEF IInv, NoPanics
<1>3. \A e \in Coroutine \ killed' : NextPlacedAt(e)
  <2>1. CASE UNCHANGED vars
    BY <2>1, NobodyMoves DEF vars, coVars, threadVars, sharedVars
  <2>2. ASSUME NEW t \in Thread, Acting(t) PROVE \A e \in Coroutine \ killed' : NextPlacedAt(e)
    <3>1. CASE phase'[t] = "aborted"
      BY <1>1, <1>2, <3>1, NobodyLeft
    <3>2. CASE phase'[t] # "aborted"
      <4>1. ~Unwind(t)
        BY <1>2 DEF Unwind, At
      <4>2. ~OnPropagatePanic(t)
        BY <1>1, <1>2 DEF OnPropagatePanic, TypeOK
      <4>3. CASE Step(t)
        BY <1>1, <1>2, <3>2, <4>1, <4>3, ThreadPlaces
      <4>4. CASE Notify(t) \/ Tick(t) \/ \E c \in Coroutine : Event(t, c)
        BY <1>1, <4>2, <4>4, CallbackPlaces
      <4>. QED
        BY <2>2, <4>3, <4>4 DEF Acting
    <3>. QED
      BY <3>1, <3>2
  <2>. QED
    BY <2>1, <2>2, NextActing
<1>4. ASSUME NEW e \in Coroutine \ killed' PROVE PlacedAt(e)'
  BY <1>3, NextPlacedIsPlaced
<1>. QED
  BY <1>4 DEF Placed

\* Only Shutdown, Terminate and PropagatePanic are broadcast.
LEMMA NoneToMigrateStep ==
  ASSUME TypeOK, NoneToMigrate, [Next]_vars
  PROVE  NoneToMigrate'
<1>1. CASE UNCHANGED vars
  BY <1>1 DEF NoneToMigrate, InTodo, vars, threadVars
<1>2. CASE Next
  <2>. SUFFICES ASSUME NEW c \in Coroutine, InTodo(Migration(c))' PROVE FALSE
    BY DEF NoneToMigrate
  <2>. DEFINE m == Migration(c)
  <2>1. m # Shutdown /\ m # Terminate /\ m # PropagatePanic
    BY DEF Migration, Shutdown, Terminate, PropagatePanic
  <2>2. InTodo(m)'
    OBVIOUS
  <2>3. ~InTodo(m)
    BY DEF NoneToMigrate
  <2>. HIDE DEF m
  <2>. QED
    BY <1>2, <2>1, <2>2, <2>3, TodoStep
<1>. QED
  BY <1>1, <1>2

\* At first there is nobody.
LEMMA InitPlaced == Init => Placed /\ NoneToMigrate
<1>. SUFFICES ASSUME Init PROVE Placed /\ NoneToMigrate
  OBVIOUS
<1>1. \A c \in Coroutine : state[c] = "unborn"
  BY DEF Init
<1>2. \A t \in Thread : todo[t] = <<>>
  BY DEF Init
<1>. QED
  BY <1>1, <1>2 DEF Placed, PlacedAt, Live, NoneToMigrate, InTodo

-----------------------------------------------------------------------------
(* From places to controls *)

\* The i-th of queue k of o is for c.
IsAt(k, o, i, c) ==
  \/ k = "children" /\ o \in Coroutine /\ i \in DOMAIN children[o] /\ children[o][i] = c
  \/ k = "spawned" /\ o \in Thread /\ i \in DOMAIN spawned[o] /\ spawned[o][i] = c
  \/ k = "ready" /\ o \in Thread /\ i \in DOMAIN ready[o] /\ ready[o][i].co = c
  \/ k = "delayed" /\ o \in Thread /\ i \in DOMAIN delayed[o] /\ delayed[o][i] = c
  \/ k = "inbox" /\ o \in Thread /\ i \in DOMAIN inbox[o] /\ inbox[o][i] = Migration(c)

\* Controls(c) are these places.
LEMMA ControlsAre ==
  ASSUME NEW c \in Coroutine, NEW z
  PROVE  z \in Controls(c) <=> \E k \in Kind, o \in Owner : \E i : IsAt(k, o, i, c) /\ z = <<k, o, i>>
<1>. DEFINE OfChildren == UNION {{<<"children", d, i>> : i \in {j \in DOMAIN children[d] : children[d][j] = c}} :
                             d \in Coroutine}
            S(t) == {<<"spawned", t, i>> : i \in {j \in DOMAIN spawned[t] : spawned[t][j] = c}}
            R(t) == {<<"ready", t, i>> : i \in {j \in DOMAIN ready[t] : ready[t][j].co = c}}
            D(t) == {<<"delayed", t, i>> : i \in {j \in DOMAIN delayed[t] : delayed[t][j] = c}}
            I(t) == {<<"inbox", t, i>> : i \in {j \in DOMAIN inbox[t] : inbox[t][j] = Migration(c)}}
<1>2. z \in OfChildren <=> \E d \in Coroutine : \E i : IsAt("children", d, i, c) /\ z = <<"children", d, i>>
  BY DEF IsAt
<1>3. ASSUME NEW t \in Thread
      PROVE  /\ z \in S(t) <=> \E i : IsAt("spawned", t, i, c) /\ z = <<"spawned", t, i>>
             /\ z \in R(t) <=> \E i : IsAt("ready", t, i, c) /\ z = <<"ready", t, i>>
             /\ z \in D(t) <=> \E i : IsAt("delayed", t, i, c) /\ z = <<"delayed", t, i>>
             /\ z \in I(t) <=> \E i : IsAt("inbox", t, i, c) /\ z = <<"inbox", t, i>>
  BY DEF IsAt
<1>4. z \in Controls(c) <=>
        z \in OfChildren \/ \E t \in Thread : z \in S(t) \/ z \in R(t) \/ z \in D(t) \/ z \in I(t)
  BY DEF Controls
<1>. HIDE DEF OfChildren, S, R, D, I
<1>5. ASSUME z \in Controls(c)
      PROVE  \E k \in Kind, o \in Owner : \E i : IsAt(k, o, i, c) /\ z = <<k, o, i>>
  BY <1>2, <1>3, <1>4, <1>5 DEF Kind, Owner
<1>6. ASSUME NEW k \in Kind, NEW o \in Owner, NEW i, IsAt(k, o, i, c), z = <<k, o, i>>
      PROVE  z \in Controls(c)
  <2>1. CASE k = "children"
    <3>1. o \in Coroutine
      BY <1>6, <2>1 DEF IsAt
    <3>. QED
      BY <1>2, <1>4, <1>6, <2>1, <3>1
  <2>2. CASE k # "children"
    <3>1. o \in Thread /\ k \in {"spawned", "ready", "delayed", "inbox"}
      BY <1>6, <2>2 DEF IsAt
    <3>. QED
      BY <1>3, <1>4, <1>6, <3>1
  <2>. QED
    BY <2>1, <2>2
<1>. QED
  BY <1>5, <1>6

\* A place that has a control holds, and one that holds, other than a thread that
\* runs c, has one, and one only if it holds once.
LEMMA HeldAt ==
  ASSUME TypeOK, NEW c \in Coroutine, NEW k \in Kind, NEW o \in Owner
  PROVE  /\ \A i : IsAt(k, o, i, c) => Holds(k, o, c) /\ k # "cur"
         /\ Holds(k, o, c) /\ k # "cur" => \E i : IsAt(k, o, i, c)
         /\ HeldOnce(c) => \A i, j : IsAt(k, o, i, c) /\ IsAt(k, o, j, c) => i = j
<1>1. ASSUME NEW t \in Thread, NEW i \in DOMAIN ready[t]
      PROVE  ready[t][i] \in ControlsFor(c) <=> ready[t][i].co = c
  <2>. DEFINE C == [co : Coroutine, yielding : BOOLEAN]
  <2>1. ready[t] \in Seq(C)
    BY DEF TypeOK
  <2>2. ready[t][i] \in C
    <3>. HIDE DEF C
    <3>. QED
      BY <2>1, <1>1, ElementOfSeq, LenProperties
  <2>. QED
    BY <2>2 DEF ControlsFor
<1>2. ASSUME NEW x PROVE (x \in Self(c) <=> x = c) /\ (x \in MigrationsOf(c) <=> x = Migration(c))
  BY DEF Self, MigrationsOf
<1>3. CASE k = "children"
  BY <1>2, <1>3 DEF IsAt, Holds, HeldOnce, Has, Once
<1>4. CASE k = "spawned"
  BY <1>2, <1>4 DEF IsAt, Holds, HeldOnce, Has, Once
<1>5. CASE k = "ready"
  BY <1>1, <1>5 DEF IsAt, Holds, HeldOnce, Has, Once
<1>6. CASE k = "delayed"
  BY <1>2, <1>6 DEF IsAt, Holds, HeldOnce, Has, Once
<1>7. CASE k = "inbox"
  BY <1>2, <1>7 DEF IsAt, Holds, HeldOnce, Has, Once
<1>8. CASE k = "cur"
  BY <1>8 DEF IsAt
<1>. QED
  BY <1>3, <1>4, <1>5, <1>6, <1>7, <1>8 DEF Kind

\* Places count controls.
LEMMA PlacesCount ==
  ASSUME TypeOK, Placed
  PROVE  OneControl
<1>. SUFFICES ASSUME NEW c \in Coroutine \ killed
              PROVE  /\ state[c] = "Ready" =>
                          Cardinality(Controls(c)) + Cardinality({t \in Thread : cur[t] = c}) = 1
                     /\ state[c] = "Blocked" =>
                          Controls(c) = {} /\ ~IsRunning(c) /\ home[c] # None
  BY DEF OneControl
<1>. DEFINE R == {t \in Thread : cur[t] = c}
<1>1. PlacedAt(c)
  BY DEF Placed
<1>2. \A t : t \in R <=> t \in Owner /\ Holds("cur", t, c)
  BY DEF Holds, Owner
<1>3. Cardinality({}) = 0 /\ \A x : Cardinality({x}) = 1
  BY FS_EmptySet, FS_Singleton
<1>4. CASE state[c] = "Ready"
  <2>1. PICK k \in Kind, o \in Owner :
          /\ Holds(k, o, c)
          /\ \A l \in Kind, p \in Owner : Holds(l, p, c) => l = k /\ p = o
    BY <1>1, <1>4 DEF PlacedAt, HeldAlone
  <2>2. HeldOnce(c)
    BY <1>1, <1>4 DEF PlacedAt
  <2>3. CASE k = "cur"
    <3>1. R = {o}
      BY <1>2, <2>1, <2>3
    <3>2. Controls(c) = {}
      BY <2>1, <2>3, ControlsAre, HeldAt
    <3>3. Cardinality(R) = 1 /\ Cardinality(Controls(c)) = 0
      BY <1>3, <3>1, <3>2
    <3>. QED
      BY <1>4, <3>3
  <2>4. CASE k # "cur"
    <3>1. "cur" \in Kind
      BY DEF Kind
    <3>2. R = {}
      BY <1>2, <2>1, <2>4, <3>1
    <3>3. PICK i : IsAt(k, o, i, c)
      BY <2>1, <2>4, HeldAt
    <3>4. <<k, o, i>> \in Controls(c)
      BY <3>3, ControlsAre
    <3>5. ASSUME NEW z \in Controls(c) PROVE z = <<k, o, i>>
      <4>1. PICK l \in Kind, p \in Owner : \E j : IsAt(l, p, j, c) /\ z = <<l, p, j>>
        BY <3>5, ControlsAre
      <4>2. PICK j : IsAt(l, p, j, c) /\ z = <<l, p, j>>
        BY <4>1
      <4>3. l = k /\ p = o
        BY <2>1, <4>2, HeldAt
      <4>4. j = i
        BY <2>2, <3>3, <4>2, <4>3, HeldAt
      <4>. QED
        BY <4>2, <4>3, <4>4
    <3>6. Controls(c) = {<<k, o, i>>}
      BY <3>4, <3>5
    <3>7. Cardinality(R) = 0 /\ Cardinality(Controls(c)) = 1
      BY <1>3, <3>2, <3>6
    <3>. QED
      BY <1>4, <3>7
  <2>. QED
    BY <2>3, <2>4
<1>5. CASE state[c] = "Blocked"
  <2>1. \A k \in Kind, o \in Owner : ~Holds(k, o, c)
    BY <1>1, <1>5 DEF PlacedAt, NotHeld
  <2>2. Controls(c) = {}
    BY <2>1, ControlsAre, HeldAt
  <2>3. ~IsRunning(c)
    BY <2>1 DEF IsRunning, Holds, Kind, Owner
  <2>4. home[c] # None
    BY <1>1, <1>5, <2>1 DEF PlacedAt, Live, Kind, Owner
  <2>. QED
    BY <1>5, <2>2, <2>3, <2>4
<1>. QED
  BY <1>4, <1>5

-----------------------------------------------------------------------------
\* On the first start() of a Mioco that catches panics, a coroutine that can run is
\* run by one thread or owned by one control, never both, never twice, never
\* neither, and a blocked one is in the slab of its thread only: what resume()'s
\* debug_assert relies on, for any number of threads and coroutines, through every
\* spawn, migration, yield, wake-up, tick and shutdown.
THEOREM ControlsAreUnique ==
  ASSUME CatchPanics, Starts = 0
  PROVE  Spec => []OneControl
<1>1. Init => Placed /\ NoneToMigrate
  BY InitPlaced
<1>2. IInv /\ IInv' /\ (Placed /\ NoneToMigrate) /\ [Next]_vars => (Placed /\ NoneToMigrate)'
  BY PlacedStep, NoneToMigrateStep DEF IInv
<1>3. IInv /\ Placed => OneControl
  BY PlacesCount DEF IInv
<1>. QED
  BY <1>1, <1>2, <1>3, InvariantHolds, PTL DEF Spec

-----------------------------------------------------------------------------
(* Slabs and threads *)

ThreadKind == {"spawned", "ready", "delayed", "cur"}

\* Who is being killed or has ended.
Dead(c) == c \in killed \/ state[c] = "Finished"

\* A thread has in its queues and runs only who is in its slab ...
AtHome ==
  \A c \in Coroutine, k \in ThreadKind, t \in Thread : Live(c) /\ Holds(k, t, c) => home[c] = t

\* ... and a slab holds nobody who has ended or migrates.
HomeLive == \A c \in Coroutine : home[c] # None => Live(c)
InFlight == \A c \in Coroutine, t \in Thread : Holds("inbox", t, c) => home[c] = None

\* Who is killed runs until it has ended, and spawns nobody.
KilledRuns == \A c \in killed : state[c] = "Finished" \/ IsRunning(c)
KilledChildless == \A c \in killed : children[c] = <<>>

\* The controls that are left of the dead are those that a thread which is shutting
\* down has delayed.
DeadGone ==
  \A c \in Coroutine : Dead(c) =>
    /\ \A d \in Coroutine : ~Holds("children", d, c)
    /\ \A k \in {"spawned", "ready", "inbox"}, t \in Thread : ~Holds(k, t, c)
    /\ \A t \in Thread : Holds("delayed", t, c) => t \in shutting

\* Children wait for the jump out of their parent, in the slab of its thread.
ChildrenHere ==
  \A d, c \in Coroutine : Holds("children", d, c) =>
    IsRunning(d) /\ \A t \in Thread : cur[t] = d => home[c] = t

\* No two threads run the same coroutine, dead or alive.
CurOnce == \A t, u \in Thread : cur[t] # None /\ cur[t] = cur[u] => t = u

HInv ==
  /\ AtHome /\ HomeLive /\ InFlight /\ KilledRuns /\ KilledChildless
  /\ DeadGone /\ ChildrenHere /\ CurOnce

\* A thread that is not delivering to its scheduler has nothing to deliver, runs
\* nobody except to kill and, in Handler::shutdown, is shutting down.
QueuesServed ==
  \A t \in Thread :
    /\ phase[t] \in {"new", "waiting", "poll", "last", "kill"} =>
         spawned[t] = <<>> /\ ready[t] = <<>> /\ (cur[t] # None => cur[t] \in killed)
    /\ phase[t] = "kill" => t \in shutting

\* HInv in the next state.
LEMMA NextHInv ==
  ASSUME \A c \in Coroutine, k \in ThreadKind, t \in Thread :
           Live(c)' /\ NextHolds(k, t, c) => home'[c] = t,
         \A c \in Coroutine : home'[c] # None => Live(c)',
         \A c \in Coroutine, t \in Thread : NextHolds("inbox", t, c) => home'[c] = None,
         \A c \in killed' : state'[c] = "Finished" \/ \E t \in Thread : cur'[t] = c,
         \A c \in killed' : children'[c] = <<>>,
         \A c \in Coroutine : c \in killed' \/ state'[c] = "Finished" =>
           /\ \A d \in Coroutine : ~NextHolds("children", d, c)
           /\ \A k \in {"spawned", "ready", "inbox"}, t \in Thread : ~NextHolds(k, t, c)
           /\ \A t \in Thread : NextHolds("delayed", t, c) => t \in shutting',
         \A d, c \in Coroutine : NextHolds("children", d, c) =>
           (\E t \in Thread : cur'[t] = d) /\ \A t \in Thread : cur'[t] = d => home'[c] = t,
         \A t, u \in Thread : cur'[t] # None /\ cur'[t] = cur'[u] => t = u
  PROVE  HInv'
<1>1. \A k, o, c : NextHolds(k, o, c) <=> Holds(k, o, c)'
  BY DEF Holds, NextHolds
<1>2. AtHome' /\ HomeLive' /\ InFlight'
  BY <1>1 DEF AtHome, HomeLive, InFlight
<1>3. KilledRuns' /\ KilledChildless' /\ CurOnce'
  BY DEF KilledRuns, KilledChildless, CurOnce, IsRunning
<1>4. DeadGone'
  BY <1>1 DEF DeadGone, Dead
<1>5. ChildrenHere'
  BY <1>1 DEF ChildrenHere, IsRunning
<1>. QED
  BY <1>2, <1>3, <1>4, <1>5 DEF HInv

\* Who runs nowhere has no children.
LEMMA IdleChildless ==
  ASSUME TypeOK, HInv, NEW c \in Coroutine, ~IsRunning(c)
  PROVE  children[c] = <<>> /\ \A e \in Coroutine : ~Holds("children", c, e)
<1>1. \A e \in Coroutine : ~Holds("children", c, e)
  BY DEF HInv, ChildrenHere
<1>2. \A e \in Coroutine : ~Has(children[c], Self(e))
  BY <1>1 DEF Holds
<1>3. children[c] \in Seq(Coroutine)
  BY DEF TypeOK
<1>4. ASSUME children[c] # <<>> PROVE FALSE
  <2>1. Len(children[c]) \in Nat /\ DOMAIN children[c] = 1 .. Len(children[c])
        /\ Len(children[c]) # 0
    BY <1>3, <1>4, LenProperties, EmptySeq
  <2>2. 1 \in DOMAIN children[c] /\ children[c][1] \in Coroutine
    BY <2>1, <1>3, ElementOfSeq
  <2>. QED
    BY <2>2, <1>2 DEF Has, Self
<1>. QED
  BY <1>1, <1>4

\* Steps that move nobody, apart from controls that are dropped.
LEMMA QuietHome ==
  ASSUME HInv, UNCHANGED <<killed, state, home, children, cur>>, shutting \subseteq shutting',
         \A e \in Coroutine, k \in {"spawned", "ready", "delayed", "inbox"}, o \in Thread :
           NextHolds(k, o, e) => Holds(k, o, e)
  PROVE  HInv'
<1>1. \A e \in Coroutine, o \in Coroutine : NextHolds("children", o, e) <=> Holds("children", o, e)
  BY DEF Holds, NextHolds
<1>2. \A e \in Coroutine, o \in Thread : NextHolds("cur", o, e) <=> Holds("cur", o, e)
  BY DEF Holds, NextHolds
<1>3. \A e \in Coroutine : Live(e)' <=> Live(e)
  BY DEF Live
<1>4. \A c \in Coroutine, k \in ThreadKind, t \in Thread :
        Live(c)' /\ NextHolds(k, t, c) => home'[c] = t
  BY <1>2, <1>3 DEF HInv, AtHome, ThreadKind
<1>5. \A c \in Coroutine : home'[c] # None => Live(c)'
  BY <1>3 DEF HInv, HomeLive
<1>6. \A c \in Coroutine, t \in Thread : NextHolds("inbox", t, c) => home'[c] = None
  BY DEF HInv, InFlight
<1>7. /\ \A c \in killed' : state'[c] = "Finished" \/ \E t \in Thread : cur'[t] = c
      /\ \A c \in killed' : children'[c] = <<>>
      /\ \A t, u \in Thread : cur'[t] # None /\ cur'[t] = cur'[u] => t = u
  BY DEF HInv, KilledRuns, KilledChildless, CurOnce, IsRunning
<1>8. \A c \in Coroutine : c \in killed' \/ state'[c] = "Finished" =>
        /\ \A d \in Coroutine : ~NextHolds("children", d, c)
        /\ \A k \in {"spawned", "ready", "inbox"}, t \in Thread : ~NextHolds(k, t, c)
        /\ \A t \in Thread : NextHolds("delayed", t, c) => t \in shutting'
  BY <1>1 DEF HInv, DeadGone, Dead
<1>9. \A d, c \in Coroutine : NextHolds("children", d, c) =>
        (\E t \in Thread : cur'[t] = d) /\ \A t \in Thread : cur'[t] = d => home'[c] = t
  BY <1>1 DEF HInv, ChildrenHere, IsRunning
<1>. QED
  BY <1>4, <1>5, <1>6, <1>7, <1>8, <1>9, NextHInv

\* A thread that runs nobody jumps into x, which ran nowhere: from a queue, the
\* slab or the way between two threads, to go on or to be killed.
Resumed(t, x) ==
  /\ cur[t] = None /\ ~IsRunning(x)
  /\ cur' = [cur EXCEPT ![t] = x] /\ UNCHANGED <<children, shutting>>
  /\ \A e \in Coroutine, k \in {"spawned", "ready", "delayed", "inbox"}, o \in Thread :
       NextHolds(k, o, e) => Holds(k, o, e)
  /\ \A o \in Thread : ~NextHolds("inbox", o, x)
  /\ \A e \in Coroutine : e # x => state'[e] = state[e] /\ home'[e] = home[e]
  /\ Live(x) /\ state'[x] \notin {"unborn", "Finished"} /\ home[x] \in {t, None} /\ home'[x] = t
  /\ \/ killed' = killed
     \/ /\ killed' = killed \cup {x} /\ t \in shutting
        /\ ~Holds("spawned", t, x) /\ ~Holds("ready", t, x)

\* The thread is the home of x.
LEMMA ResumeHome ==
  ASSUME TypeOK, HInv, NEW t \in Thread, NEW x \in Coroutine, Resumed(t, x)
  PROVE  HInv'
<1>. USE DEF Resumed
<1>0. Live(x)'
  BY DEF Live
<1>1. \A e \in Coroutine, o \in Coroutine : NextHolds("children", o, e) <=> Holds("children", o, e)
  BY DEF Holds, NextHolds
<1>2. ASSUME NEW e \in Coroutine, NEW o \in Thread
      PROVE  NextHolds("cur", o, e) <=> Holds("cur", o, e) \/ (o = t /\ x = e)
  BY JumpedIn DEF Owner
<1>3. \A o \in Thread : cur'[o] = IF o = t THEN x ELSE cur[o]
  BY DEF TypeOK
<1>4. /\ \A o \in Thread : cur[o] # x
      /\ x # None /\ \A e \in Coroutine : e # None
      /\ \A o \in Thread : o # None
  BY CoroutineAssumption, ThreadAssumption DEF IsRunning
<1>5. \A e \in Coroutine : e # x => (Live(e)' <=> Live(e))
  BY DEF Live
<1>6. ASSUME NEW d \in Coroutine, Holds("children", d, x) PROVE FALSE
  <2>1. PICK u \in Thread : cur[u] = d
    BY <1>6 DEF HInv, ChildrenHere, IsRunning
  <2>2. home[x] = u
    BY <2>1, <1>6 DEF HInv, ChildrenHere
  <2>. QED
    BY <2>1, <2>2, <1>4
<1>7. ASSUME NEW k \in {"spawned", "ready", "delayed"}, NEW o \in Thread, Holds(k, o, x)
      PROVE  o = t
  <2>1. home[x] = o
    BY <1>7 DEF HInv, AtHome, ThreadKind
  <2>. QED
    BY <2>1, <1>4
<1>8. x \notin killed
  BY <1>4 DEF HInv, KilledRuns, IsRunning, Live
<1>9. \A c \in Coroutine, k \in ThreadKind, o \in Thread :
        Live(c)' /\ NextHolds(k, o, c) => home'[c] = o
  <2>. SUFFICES ASSUME NEW c \in Coroutine, NEW k \in ThreadKind, NEW o \in Thread,
                       Live(c)', NextHolds(k, o, c)
                PROVE  home'[c] = o
    OBVIOUS
  <2>1. CASE c = x /\ k = "cur"
    BY <2>1, <1>2, <1>4 DEF Holds
  <2>2. CASE c = x /\ k # "cur"
    BY <2>2, <1>7 DEF ThreadKind
  <2>3. CASE c # x
    <3>1. Live(c) /\ Holds(k, o, c)
      BY <2>3, <1>2, <1>5 DEF ThreadKind
    <3>. QED
      BY <2>3, <3>1 DEF HInv, AtHome
  <2>. QED
    BY <2>1, <2>2, <2>3
<1>10. \A c \in Coroutine : home'[c] # None => Live(c)'
  BY <1>0, <1>5 DEF HInv, HomeLive
<1>11. \A c \in Coroutine, o \in Thread : NextHolds("inbox", o, c) => home'[c] = None
  BY DEF HInv, InFlight
<1>12. \A c \in killed' : state'[c] = "Finished" \/ \E o \in Thread : cur'[o] = c
  <2>. SUFFICES ASSUME NEW c \in killed', c # x
                PROVE  state'[c] = "Finished" \/ \E o \in Thread : cur'[o] = c
    BY <1>3
  <2>1. c \in killed /\ c \in Coroutine
    BY DEF TypeOK
  <2>. QED
    BY <2>1, <1>3, <1>4 DEF HInv, KilledRuns, IsRunning
<1>13. \A c \in killed' : children'[c] = <<>>
  BY IdleChildless DEF HInv, KilledChildless
<1>14. \A c \in Coroutine : c \in killed' \/ state'[c] = "Finished" =>
         /\ \A d \in Coroutine : ~NextHolds("children", d, c)
         /\ \A k \in {"spawned", "ready", "inbox"}, o \in Thread : ~NextHolds(k, o, c)
         /\ \A o \in Thread : NextHolds("delayed", o, c) => o \in shutting'
  <2>. SUFFICES ASSUME NEW c \in Coroutine, c \in killed' \/ state'[c] = "Finished"
                PROVE  /\ \A d \in Coroutine : ~Holds("children", d, c)
                       /\ \A k \in {"spawned", "ready", "inbox"}, o \in Thread : ~NextHolds(k, o, c)
                       /\ \A o \in Thread : NextHolds("delayed", o, c) => o \in shutting
    BY <1>1
  <2>1. CASE c # x
    <3>1. Dead(c)
      BY <2>1 DEF Dead
    <3>. QED
      BY <3>1 DEF HInv, DeadGone
  <2>2. CASE c = x
    <3>1. t \in shutting /\ ~Holds("spawned", t, x) /\ ~Holds("ready", t, x)
      BY <2>2, <1>8 DEF Live
    <3>. QED
      BY <2>2, <3>1, <1>6, <1>7
  <2>. QED
    BY <2>1, <2>2
<1>15. \A d, c \in Coroutine : NextHolds("children", d, c) =>
         (\E o \in Thread : cur'[o] = d) /\ \A o \in Thread : cur'[o] = d => home'[c] = o
  <2>. SUFFICES ASSUME NEW d \in Coroutine, NEW c \in Coroutine, Holds("children", d, c)
                PROVE  (\E o \in Thread : cur'[o] = d) /\ \A o \in Thread : cur'[o] = d => home'[c] = o
    BY <1>1
  <2>1. d # x /\ c # x
    BY <1>6, IdleChildless
  <2>2. \A o \in Thread : cur'[o] = d <=> cur[o] = d
    BY <2>1, <1>3, <1>4
  <2>. QED
    BY <2>1, <2>2 DEF HInv, ChildrenHere, IsRunning
<1>16. \A o, u \in Thread : cur'[o] # None /\ cur'[o] = cur'[u] => o = u
  BY <1>3, <1>4 DEF HInv, CurOnce
<1>. QED
  BY <1>9, <1>10, <1>11, <1>12, <1>13, <1>14, <1>15, <1>16, NextHInv

\* A coroutine jumps out: to yield, to block or for the last time.
Leaves(t, c) ==
  /\ cur[t] = c /\ StartChildren(t, c)
  /\ cur' = [cur EXCEPT ![t] = None] /\ UNCHANGED <<killed, home, delayed, shutting>>
  /\ \A e \in Coroutine, o \in Thread : NextHolds("inbox", o, e) => Holds("inbox", o, e)
  /\ \A e \in Coroutine, o \in Thread :
       NextHolds("ready", o, e) => Holds("ready", o, e) \/ (o = t /\ e = c /\ ~Dead(c))
  /\ \A e \in Coroutine : /\ state'[e] \notin {"unborn", "Finished"} <=> Live(e)
                          /\ state'[e] = "Finished" <=> state[e] = "Finished"
  /\ c \in killed => state[c] = "Finished"

\* Its children are where it was.
LEMMA LeaveHome ==
  ASSUME TypeOK, HInv, NEW t \in Thread, NEW c \in Coroutine, Leaves(t, c)
  PROVE  HInv'
<1>. USE DEF Leaves
<1>0. \A e \in Coroutine : Live(e)' <=> Live(e)
  BY DEF Live
<1>1. ASSUME NEW e \in Coroutine, NEW o \in Coroutine
      PROVE  NextHolds("children", o, e) <=> o # c /\ Holds("children", o, e)
  <2>1. Has(children'[o], Self(e)) <=> o # c /\ Has(children[o], Self(e))
    BY ChildrenLeave
  <2>. QED
    BY <2>1 DEF Holds, NextHolds
<1>2. ASSUME NEW e \in Coroutine, NEW o \in Thread
      PROVE  NextHolds("spawned", o, e) <=>
               Holds("spawned", o, e) \/ (o = t /\ Holds("children", c, e))
  <2>1. Has(spawned'[o], Self(e)) <=> Has(spawned[o], Self(e)) \/ (o = t /\ Has(children[c], Self(e)))
    BY ChildrenArrive
  <2>. QED
    BY <2>1 DEF Holds, NextHolds
<1>3. \A o \in Thread : cur'[o] = IF o = t THEN None ELSE cur[o]
  BY DEF TypeOK
<1>4. \A e \in Coroutine : e # None
  BY CoroutineAssumption
<1>5. \A e \in Coroutine, o \in Thread : NextHolds("cur", o, e) <=> Holds("cur", o, e) /\ o # t
  BY <1>3, <1>4 DEF Holds, NextHolds
<1>6. \A e \in Coroutine, o \in Thread : NextHolds("delayed", o, e) <=> Holds("delayed", o, e)
  BY DEF Holds, NextHolds
<1>7. Holds("cur", t, c)
  BY DEF Holds
<1>8. \A e \in Coroutine, k \in ThreadKind, o \in Thread :
        Live(e)' /\ NextHolds(k, o, e) => home'[e] = o
  <2>. SUFFICES ASSUME NEW e \in Coroutine, NEW k \in ThreadKind, NEW o \in Thread,
                       Live(e), NextHolds(k, o, e)
                PROVE  home[e] = o
    BY <1>0
  <2>1. CASE Holds(k, o, e)
    BY <2>1 DEF HInv, AtHome
  <2>2. CASE k = "ready" /\ o = t /\ e = c
    BY <2>2, <1>7 DEF HInv, AtHome, ThreadKind
  <2>3. CASE k = "spawned" /\ o = t /\ Holds("children", c, e)
    BY <2>3 DEF HInv, ChildrenHere
  <2>. QED
    BY <2>1, <2>2, <2>3, <1>2, <1>5, <1>6 DEF ThreadKind
<1>9. \A e \in Coroutine : home'[e] # None => Live(e)'
  BY <1>0 DEF HInv, HomeLive
<1>10. \A e \in Coroutine, o \in Thread : NextHolds("inbox", o, e) => home'[e] = None
  BY DEF HInv, InFlight
<1>11. \A e \in killed' : state'[e] = "Finished" \/ \E o \in Thread : cur'[o] = e
  <2>. SUFFICES ASSUME NEW e \in killed, state[e] # "Finished" PROVE \E o \in Thread : cur'[o] = e
    BY DEF TypeOK
  <2>1. PICK o \in Thread : cur[o] = e
    BY DEF HInv, KilledRuns, IsRunning
  <2>. QED
    BY <2>1, <1>3
<1>12. \A e \in killed' : children'[e] = <<>>
  BY DEF HInv, KilledChildless, StartChildren, TypeOK
<1>13. \A e \in Coroutine : e \in killed' \/ state'[e] = "Finished" =>
         /\ \A d \in Coroutine : ~NextHolds("children", d, e)
         /\ \A k \in {"spawned", "ready", "inbox"}, o \in Thread : ~NextHolds(k, o, e)
         /\ \A o \in Thread : NextHolds("delayed", o, e) => o \in shutting'
  <2>. SUFFICES ASSUME NEW e \in Coroutine, Dead(e)
                PROVE  /\ \A d \in Coroutine : ~NextHolds("children", d, e)
                       /\ \A k \in {"spawned", "ready", "inbox"}, o \in Thread : ~NextHolds(k, o, e)
                       /\ \A o \in Thread : NextHolds("delayed", o, e) => o \in shutting
    BY DEF Dead
  <2>1. /\ \A d \in Coroutine : ~Holds("children", d, e)
        /\ \A k \in {"spawned", "ready", "inbox"}, o \in Thread : ~Holds(k, o, e)
        /\ \A o \in Thread : Holds("delayed", o, e) => o \in shutting
    BY DEF HInv, DeadGone
  <2>. QED
    BY <2>1, <1>1, <1>2, <1>6
<1>14. \A d, e \in Coroutine : NextHolds("children", d, e) =>
         (\E o \in Thread : cur'[o] = d) /\ \A o \in Thread : cur'[o] = d => home'[e] = o
  <2>. SUFFICES ASSUME NEW d \in Coroutine, NEW e \in Coroutine, d # c, Holds("children", d, e)
                PROVE  (\E o \in Thread : cur'[o] = d) /\ \A o \in Thread : cur'[o] = d => home[e] = o
    BY <1>1
  <2>1. \A o \in Thread : cur'[o] = d <=> cur[o] = d
    BY <1>3, <1>4
  <2>. QED
    BY <2>1 DEF HInv, ChildrenHere, IsRunning
<1>15. \A o, u \in Thread : cur'[o] # None /\ cur'[o] = cur'[u] => o = u
  BY <1>3 DEF HInv, CurOnce
<1>. QED
  BY <1>8, <1>9, <1>10, <1>11, <1>12, <1>13, <1>14, <1>15, NextHInv

\* A new coroutine d in the slab of thread h, with its parent (l is "children" and p
\* the parent) or in the spawned queue (l is "spawned" and p is h).
BornIn(l, p, h, d) ==
  /\ state[d] = "unborn" /\ state' = [state EXCEPT ![d] = "Ready"]
  /\ home' = [home EXCEPT ![d] = h]
  /\ UNCHANGED <<killed, cur, shutting>>
  /\ \A e \in Coroutine, k \in Kind, o \in Owner :
       NextHolds(k, o, e) => Holds(k, o, e) \/ (k = l /\ o = p /\ e = d)
  /\ l = "children" => p \in Coroutine \ killed /\ cur[h] = p
  /\ l = "spawned" => p = h
  /\ \A e \in killed : children'[e] = children[e]

\* It is where its holder is.
LEMMA BirthHome ==
  ASSUME TypeOK, RefersToBorn, HInv, NEW d \in Coroutine, NEW h \in Thread,
         NEW l \in {"children", "spawned"}, NEW p \in Owner, BornIn(l, p, h, d)
  PROVE  HInv'
<1>. USE DEF BornIn
<1>1. \A k \in Kind, o \in Owner : ~Holds(k, o, d)
  BY UnbornNotHeld DEF NotHeld
<1>2. d \notin killed
  <2>1. ~IsRunning(d)
    BY <1>1 DEF IsRunning, Holds, Kind, Owner
  <2>. QED
    BY <2>1 DEF HInv, KilledRuns
<1>3. /\ state'[d] = "Ready" /\ home'[d] = h
      /\ \A e \in Coroutine : e # d => state'[e] = state[e] /\ home'[e] = home[e]
  BY DEF TypeOK
<1>4. Live(d)' /\ \A e \in Coroutine : e # d => (Live(e)' <=> Live(e))
  BY <1>3 DEF Live
<1>5. \A o \in Thread : o \in Owner
  BY DEF Owner
<1>6. \A o \in Coroutine : o \in Owner
  BY DEF Owner
<1>7. \A e \in Coroutine, k \in ThreadKind, o \in Thread :
        Live(e)' /\ NextHolds(k, o, e) => home'[e] = o
  <2>. SUFFICES ASSUME NEW e \in Coroutine, NEW k \in ThreadKind, NEW o \in Thread,
                       Live(e)', NextHolds(k, o, e)
                PROVE  home'[e] = o
    OBVIOUS
  <2>0. k \in Kind
    BY DEF ThreadKind, Kind
  <2>1. CASE e = d
    <3>1. k = l /\ o = p
      BY <2>0, <2>1, <1>1, <1>5
    <3>2. l = "spawned"
      BY <3>1 DEF ThreadKind
    <3>. QED
      BY <2>1, <3>1, <3>2, <1>3
  <2>2. CASE e # d
    <3>1. Live(e) /\ Holds(k, o, e)
      BY <2>0, <2>2, <1>4, <1>5
    <3>. QED
      BY <2>2, <3>1, <1>3 DEF HInv, AtHome
  <2>. QED
    BY <2>1, <2>2
<1>8. \A e \in Coroutine : home'[e] # None => Live(e)'
  BY <1>3, <1>4 DEF HInv, HomeLive
<1>9. \A e \in Coroutine, o \in Thread : NextHolds("inbox", o, e) => home'[e] = None
  <2>. SUFFICES ASSUME NEW e \in Coroutine, NEW o \in Thread, NextHolds("inbox", o, e)
                PROVE  home'[e] = None
    OBVIOUS
  <2>1. Holds("inbox", o, e)
    BY <1>5 DEF Kind
  <2>2. e # d
    BY <2>1, <1>1, <1>5 DEF Kind
  <2>. QED
    BY <2>1, <2>2, <1>3 DEF HInv, InFlight
<1>10. \A e \in killed' : state'[e] = "Finished" \/ \E o \in Thread : cur'[o] = e
  BY <1>2, <1>3 DEF HInv, KilledRuns, IsRunning, TypeOK
<1>11. \A e \in killed' : children'[e] = <<>>
  BY DEF HInv, KilledChildless
<1>12. \A e \in Coroutine : e \in killed' \/ state'[e] = "Finished" =>
         /\ \A o \in Coroutine : ~NextHolds("children", o, e)
         /\ \A k \in {"spawned", "ready", "inbox"}, o \in Thread : ~NextHolds(k, o, e)
         /\ \A o \in Thread : NextHolds("delayed", o, e) => o \in shutting'
  <2>. SUFFICES ASSUME NEW e \in Coroutine, e \in killed' \/ state'[e] = "Finished"
                PROVE  /\ \A o \in Coroutine : ~NextHolds("children", o, e)
                       /\ \A k \in {"spawned", "ready", "inbox"}, o \in Thread : ~NextHolds(k, o, e)
                       /\ \A o \in Thread : NextHolds("delayed", o, e) => o \in shutting
    OBVIOUS
  <2>1. e # d /\ Dead(e)
    BY <1>2, <1>3 DEF Dead
  <2>2. \A k \in Kind, o \in Owner : NextHolds(k, o, e) => Holds(k, o, e)
    BY <2>1
  <2>3. /\ \A o \in Coroutine : ~Holds("children", o, e)
        /\ \A k \in {"spawned", "ready", "inbox"}, o \in Thread : ~Holds(k, o, e)
        /\ \A o \in Thread : Holds("delayed", o, e) => o \in shutting
    BY <2>1 DEF HInv, DeadGone
  <2>. QED
    BY <2>2, <2>3, <1>5, <1>6 DEF Kind
<1>13. \A o, e \in Coroutine : NextHolds("children", o, e) =>
         (\E u \in Thread : cur'[u] = o) /\ \A u \in Thread : cur'[u] = o => home'[e] = u
  <2>. SUFFICES ASSUME NEW o \in Coroutine, NEW e \in Coroutine, NextHolds("children", o, e)
                PROVE  (\E u \in Thread : cur[u] = o) /\ \A u \in Thread : cur[u] = o => home'[e] = u
    OBVIOUS
  <2>0. "children" \in Kind /\ o \in Owner
    BY DEF Kind, Owner
  <2>1. CASE e = d
    <3>1. l = "children" /\ o = p
      BY <2>0, <2>1, <1>1
    <3>2. cur[h] = o /\ o # None
      BY <3>1, CoroutineAssumption
    <3>. QED
      BY <2>1, <3>2, <1>3 DEF HInv, CurOnce
  <2>2. CASE e # d
    <3>1. Holds("children", o, e)
      BY <2>0, <2>2
    <3>. QED
      BY <2>2, <3>1, <1>3 DEF HInv, ChildrenHere, IsRunning
  <2>. QED
    BY <2>1, <2>2
<1>14. \A o, u \in Thread : cur'[o] # None /\ cur'[o] = cur'[u] => o = u
  BY DEF HInv, CurOnce
<1>. QED
  BY <1>7, <1>8, <1>9, <1>10, <1>11, <1>12, <1>13, <1>14, NextHInv

\* mioco::spawn.
LEMMA SpawnHome ==
  ASSUME TypeOK, RefersToBorn, HInv, NEW t \in Thread, NEW c \in Coroutine, NEW d \in Coroutine,
         Spawn(t, c, d)
  PROVE  HInv'
<1>1. /\ state[d] = "unborn" /\ state' = [state EXCEPT ![d] = "Ready"]
      /\ home' = [home EXCEPT ![d] = t] /\ children' = [children EXCEPT ![c] = Append(@, d)]
      /\ cur[t] = c /\ c \notin killed
      /\ UNCHANGED <<killed, spawned, ready, delayed, inbox, cur, shutting>>
  BY DEF Spawn, threadVars, Free, Running
<1>2. ASSUME NEW e \in Coroutine, NEW k \in Kind, NEW o \in Owner, NextHolds(k, o, e)
      PROVE  Holds(k, o, e) \/ (k = "children" /\ o = c /\ e = d)
  <2>1. CASE k = "children"
    <3>1. o \in Coroutine /\ Has(children'[o], Self(e))
      BY <1>2, <2>1 DEF NextHolds
    <3>2. Has(children[o], Self(e)) \/ (o = c /\ d \in Self(e))
      BY <1>1, <3>1, ChildrenPushed
    <3>. QED
      BY <2>1, <3>1, <3>2 DEF Holds, Self
  <2>2. CASE k # "children"
    BY <1>1, <1>2, <2>2 DEF Holds, NextHolds
  <2>. QED
    BY <2>1, <2>2
<1>3. \A e \in killed : children'[e] = children[e]
  BY <1>1 DEF TypeOK
<1>4. BornIn("children", c, t, d)
  BY <1>1, <1>2, <1>3 DEF BornIn
<1>5. "children" \in {"children", "spawned"} /\ c \in Owner
  BY DEF Owner
<1>. QED
  BY <1>4, <1>5, BirthHome

\* Mioco::run spawns the first coroutine.
LEMMA StartHome ==
  ASSUME TypeOK, RefersToBorn, Starting, HInv, StartMain
  PROVE  HInv'
<1>1. /\ phase[0] = "waiting" /\ state' = [state EXCEPT ![Main] = "Ready"]
      /\ home' = [home EXCEPT ![Main] = 0] /\ spawned' = [spawned EXCEPT ![0] = Append(@, Main)]
      /\ UNCHANGED <<killed, children, ready, delayed, inbox, cur, shutting>>
  BY DEF StartMain
<1>2. Main \in Coroutine /\ state[Main] = "unborn" /\ 0 \in Thread
  BY <1>1, CoroutineAssumption, BoundAssumption DEF Starting, Born, Thread
<1>3. ASSUME NEW e \in Coroutine, NEW k \in Kind, NEW o \in Owner, NextHolds(k, o, e)
      PROVE  Holds(k, o, e) \/ (k = "spawned" /\ o = 0 /\ e = Main)
  <2>1. CASE k = "spawned"
    <3>1. o \in Thread /\ Has(spawned'[o], Self(e))
      BY <1>3, <2>1 DEF NextHolds
    <3>2. Has(spawned[o], Self(e)) \/ (o = 0 /\ Main \in Self(e))
      BY <1>1, <1>2, <3>1, SpawnedPushed
    <3>. QED
      BY <2>1, <3>1, <3>2 DEF Holds, Self
  <2>2. CASE k # "spawned"
    BY <1>1, <1>3, <2>2 DEF Holds, NextHolds
  <2>. QED
    BY <2>1, <2>2
<1>4. "spawned" \in {"children", "spawned"} /\ 0 \in Owner
  BY <1>2 DEF Owner
<1>5. BornIn("spawned", 0, 0, Main)
  BY <1>1, <1>2, <1>3 DEF BornIn
<1>. QED
  BY <1>2, <1>4, <1>5, BirthHome

\* A coroutine that ends was held by nobody but its thread.
LEMMA FinishHome ==
  ASSUME TypeOK, RefersToBorn, Placed, HInv, NEW t \in Thread, NEW c \in Coroutine,
         NEW ok \in BOOLEAN, Finish(t, c, ok)
  PROVE  HInv'
<1>1. /\ state' = [state EXCEPT ![c] = "Finished"] /\ home' = [home EXCEPT ![c] = None]
      /\ cur[t] = c /\ state[c] # "Finished"
      /\ UNCHANGED <<killed, children, spawned, ready, delayed, inbox, cur, shutting>>
  BY DEF Finish, ShutdownPanics, Free, Running
<1>2. \A k \in Kind, o \in Owner, e \in Coroutine : NextHolds(k, o, e) <=> Holds(k, o, e)
  BY <1>1 DEF Holds, NextHolds
<1>3. /\ state'[c] = "Finished" /\ home'[c] = None
      /\ \A e \in Coroutine : e # c => state'[e] = state[e] /\ home'[e] = home[e]
  BY <1>1 DEF TypeOK
<1>4. ~Live(c)' /\ \A e \in Coroutine : e # c => (Live(e)' <=> Live(e))
  BY <1>3 DEF Live
<1>5. (\A o \in Thread : o \in Owner) /\ (\A o \in Coroutine : o \in Owner) /\ ThreadKind \subseteq Kind
  BY DEF Owner, Kind, ThreadKind
<1>6. /\ \A d \in Coroutine : ~Holds("children", d, c)
      /\ \A k \in {"spawned", "ready", "inbox"}, o \in Thread : ~Holds(k, o, c)
      /\ \A o \in Thread : Holds("delayed", o, c) => o \in shutting
  <2>1. CASE c \in killed
    BY <2>1 DEF HInv, DeadGone, Dead
  <2>2. CASE c \notin killed
    <3>1. state[c] \in {"Ready", "Blocked"}
      BY <1>1, CurrentLives DEF TypeOK
    <3>2. PlacedAt(c)
      BY <2>2 DEF Placed
    <3>3. \A k \in Kind, o \in Owner : Holds(k, o, c) => k = "cur"
      BY <1>1, <3>1, <3>2, RunsAlone
    <3>. QED
      BY <3>3, <1>5 DEF Kind
  <2>. QED
    BY <2>1, <2>2
<1>7. \A e \in Coroutine, k \in ThreadKind, o \in Thread :
        Live(e)' /\ NextHolds(k, o, e) => home'[e] = o
  BY <1>2, <1>3, <1>4, <1>5 DEF HInv, AtHome
<1>8. \A e \in Coroutine : home'[e] # None => Live(e)'
  BY <1>3, <1>4 DEF HInv, HomeLive
<1>9. \A e \in Coroutine, o \in Thread : NextHolds("inbox", o, e) => home'[e] = None
  BY <1>2, <1>3, <1>5 DEF HInv, InFlight, Kind
<1>10. /\ \A e \in killed' : state'[e] = "Finished" \/ \E o \in Thread : cur'[o] = e
       /\ \A e \in killed' : children'[e] = <<>>
       /\ \A o, u \in Thread : cur'[o] # None /\ cur'[o] = cur'[u] => o = u
  BY <1>1, <1>3 DEF HInv, KilledRuns, KilledChildless, CurOnce, IsRunning, TypeOK
<1>11. \A e \in Coroutine : e \in killed' \/ state'[e] = "Finished" =>
         /\ \A o \in Coroutine : ~NextHolds("children", o, e)
         /\ \A k \in {"spawned", "ready", "inbox"}, o \in Thread : ~NextHolds(k, o, e)
         /\ \A o \in Thread : NextHolds("delayed", o, e) => o \in shutting'
  <2>. SUFFICES ASSUME NEW e \in Coroutine, e \in killed' \/ state'[e] = "Finished"
                PROVE  /\ \A o \in Coroutine : ~Holds("children", o, e)
                       /\ \A k \in {"spawned", "ready", "inbox"}, o \in Thread : ~Holds(k, o, e)
                       /\ \A o \in Thread : Holds("delayed", o, e) => o \in shutting
    BY <1>1, <1>2, <1>5 DEF Kind
  <2>1. CASE e = c
    BY <2>1, <1>6
  <2>2. CASE e # c
    BY <2>2, <1>1, <1>3 DEF HInv, DeadGone, Dead
  <2>. QED
    BY <2>1, <2>2
<1>12. \A d, e \in Coroutine : NextHolds("children", d, e) =>
         (\E o \in Thread : cur'[o] = d) /\ \A o \in Thread : cur'[o] = d => home'[e] = o
  <2>. SUFFICES ASSUME NEW d \in Coroutine, NEW e \in Coroutine, Holds("children", d, e)
                PROVE  (\E o \in Thread : cur[o] = d) /\ \A o \in Thread : cur[o] = d => home'[e] = o
    BY <1>1, <1>2, <1>5 DEF Kind
  <2>1. e # c
    BY <1>6
  <2>. QED
    BY <2>1, <1>3 DEF HInv, ChildrenHere, IsRunning
<1>. QED
  BY <1>7, <1>8, <1>9, <1>10, <1>11, <1>12, NextHInv

\* A coroutine in a queue, unless it was delayed by a thread that shuts down, can
\* run, is not being killed and is held by that queue only.
LEMMA HeldLives ==
  ASSUME TypeOK, RefersToBorn, Placed, HInv, NEW x \in Coroutine, NEW t \in Thread,
         NEW k \in {"spawned", "ready", "delayed", "inbox"}, Holds(k, t, x),
         k = "delayed" => t \notin shutting
  PROVE  /\ Live(x) /\ state[x] = "Ready" /\ x \notin killed /\ ~IsRunning(x) /\ HeldOnce(x)
         /\ home[x] = IF k = "inbox" THEN None ELSE t
         /\ \A m \in Kind, q \in Owner : Holds(m, q, x) <=> m = k /\ q = t
<1>1. k \in Kind /\ t \in Owner /\ "cur" \in Kind /\ \A u \in Thread : u \in Owner
  BY DEF Kind, Owner
<1>2. ~Dead(x)
  BY DEF HInv, DeadGone
<1>3. state[x] # "unborn"
  BY <1>1, UnbornNotHeld DEF NotHeld
<1>4. Live(x) /\ x \notin killed /\ state[x] \in {"Ready", "Blocked"}
  BY <1>2, <1>3 DEF Dead, Live, TypeOK
<1>5. PlacedAt(x)
  BY <1>4 DEF Placed
<1>6. /\ state[x] = "Ready" /\ HeldOnce(x)
      /\ \A m \in Kind, q \in Owner : Holds(m, q, x) <=> m = k /\ q = t
  BY <1>1, <1>4, <1>5, HeldBy
<1>7. \A u \in Thread : ~Holds("cur", u, x)
  BY <1>1, <1>6
<1>8. ~IsRunning(x)
  BY <1>7 DEF Holds, IsRunning
<1>9. CASE k = "inbox"
  BY <1>9, <1>4, <1>6, <1>8 DEF HInv, InFlight
<1>10. CASE k # "inbox"
  <2>1. home[x] = t
    BY <1>10, <1>4 DEF HInv, AtHome, ThreadKind
  <2>. QED
    BY <1>10, <2>1, <1>4, <1>6, <1>8
<1>. QED
  BY <1>9, <1>10

\* FifoSchedulerThread::spawned resumes a child.
LEMMA SpawnedResumeHome ==
  ASSUME TypeOK, RefersToBorn, Placed, HInv, NEW t \in Thread, SpawnedResume(t)
  PROVE  HInv'
<1>. DEFINE x == Head(spawned[t])
<1>1. /\ cur[t] = None /\ cur' = [cur EXCEPT ![t] = x]
      /\ spawned[t] # <<>> /\ spawned' = [spawned EXCEPT ![t] = Tail(@)]
      /\ UNCHANGED <<killed, state, home, children, ready, delayed, inbox, shutting>>
  BY DEF SpawnedResume, SpawnedTurn, At, JumpIn, coVars, sharedVars
<1>2. x \in Coroutine
  BY <1>1, HeadTailProperties DEF TypeOK
<1>3. ASSUME NEW e \in Coroutine, NEW o \in Thread
      PROVE  Has(spawned[o], Self(e)) <=> Has(spawned'[o], Self(e)) \/ (o = t /\ x = e)
  BY <1>1, SpawnedPopped DEF Self
<1>. HIDE DEF x
<1>4. Holds("spawned", t, x)
  BY <1>2, <1>3 DEF Holds
<1>5. ASSUME NEW e \in Coroutine, NEW k \in {"spawned", "ready", "delayed", "inbox"}, NEW o \in Thread,
             NextHolds(k, o, e)
      PROVE  Holds(k, o, e)
  BY <1>1, <1>3, <1>5 DEF Holds, NextHolds
<1>6. /\ Live(x) /\ ~IsRunning(x) /\ home[x] = t
      /\ \A m \in Kind, q \in Owner : Holds(m, q, x) <=> m = "spawned" /\ q = t
  BY <1>2, <1>4, HeldLives
<1>7. \A o \in Thread : ~NextHolds("inbox", o, x)
  BY <1>2, <1>5, <1>6 DEF Kind, Owner
<1>8. state'[x] \notin {"unborn", "Finished"} /\ home'[x] = t
  BY <1>1, <1>6 DEF Live
<1>9. Resumed(t, x)
  BY <1>1, <1>5, <1>6, <1>7, <1>8 DEF Resumed
<1>. QED
  BY <1>2, <1>9, ResumeHome

\* FifoSchedulerThread::ready resumes the first of the ready queue ...
LEMMA ReadyResumeHome ==
  ASSUME TypeOK, RefersToBorn, Placed, HInv, NEW t \in Thread, ReadyResume(t)
  PROVE  HInv'
<1>. DEFINE x == Head(ready[t]).co
<1>1. /\ cur[t] = None /\ cur' = [cur EXCEPT ![t] = x]
      /\ ready[t] # <<>> /\ ready' = [ready EXCEPT ![t] = Tail(@)]
      /\ UNCHANGED <<killed, state, home, children, spawned, delayed, inbox, shutting>>
  BY DEF ReadyResume, ReadyTurn, At, JumpIn, coVars, sharedVars
<1>2. x \in Coroutine
  BY <1>1, ReadyHead, CoroutineAssumption
<1>3. ASSUME NEW e \in Coroutine, NEW o \in Thread
      PROVE  Has(ready[o], ControlsFor(e)) <=> Has(ready'[o], ControlsFor(e)) \/ (o = t /\ x = e)
  BY <1>1, ReadyShrinks
<1>. HIDE DEF x
<1>4. Holds("ready", t, x)
  BY <1>2, <1>3 DEF Holds
<1>5. ASSUME NEW e \in Coroutine, NEW k \in {"spawned", "ready", "delayed", "inbox"}, NEW o \in Thread,
             NextHolds(k, o, e)
      PROVE  Holds(k, o, e)
  BY <1>1, <1>3, <1>5 DEF Holds, NextHolds
<1>6. /\ Live(x) /\ ~IsRunning(x) /\ home[x] = t
      /\ \A m \in Kind, q \in Owner : Holds(m, q, x) <=> m = "ready" /\ q = t
  BY <1>2, <1>4, HeldLives
<1>7. \A o \in Thread : ~NextHolds("inbox", o, x)
  BY <1>2, <1>5, <1>6 DEF Kind, Owner
<1>8. state'[x] \notin {"unborn", "Finished"} /\ home'[x] = t
  BY <1>1, <1>6 DEF Live
<1>9. Resumed(t, x)
  BY <1>1, <1>5, <1>6, <1>7, <1>8 DEF Resumed
<1>. QED
  BY <1>2, <1>9, ResumeHome

\* FifoSchedulerThread::tick resumes the first that was delayed, on a thread that
\* is not shutting down.
LEMMA TickResumeHome ==
  ASSUME TypeOK, RefersToBorn, TickBound, ShutDown, Placed, HInv, NEW t \in Thread, TickResume(t)
  PROVE  HInv'
<1>. DEFINE x == Head(delayed[t])
<1>1. /\ cur[t] = None /\ cur' = [cur EXCEPT ![t] = x]
      /\ phase[t] = "tick" /\ tickLeft[t] > 0 /\ delayed' = [delayed EXCEPT ![t] = Tail(@)]
      /\ UNCHANGED <<killed, state, home, children, spawned, ready, inbox, shutting>>
  BY DEF TickResume, At, JumpIn, coVars, sharedVars
<1>a. delayed[t] # <<>>
  <2>1. delayed[t] \in Seq(Coroutine) /\ tickLeft[t] \in Nat /\ tickLeft[t] <= Len(delayed[t])
    BY <1>1 DEF TypeOK, TickBound
  <2>. QED
    BY <1>1, <2>1, EmptySeq
<1>b. t \notin shutting
  BY <1>1 DEF ShutDown
<1>2. x \in Coroutine
  BY <1>1, <1>a, HeadTailProperties DEF TypeOK
<1>3. ASSUME NEW e \in Coroutine, NEW o \in Thread
      PROVE  Has(delayed[o], Self(e)) <=> Has(delayed'[o], Self(e)) \/ (o = t /\ x = e)
  BY <1>1, <1>a, DelayedPopped DEF Self
<1>. HIDE DEF x
<1>4. Holds("delayed", t, x)
  BY <1>2, <1>3 DEF Holds
<1>5. ASSUME NEW e \in Coroutine, NEW k \in {"spawned", "ready", "delayed", "inbox"}, NEW o \in Thread,
             NextHolds(k, o, e)
      PROVE  Holds(k, o, e)
  BY <1>1, <1>3, <1>5 DEF Holds, NextHolds
<1>6. /\ Live(x) /\ ~IsRunning(x) /\ home[x] = t
      /\ \A m \in Kind, q \in Owner : Holds(m, q, x) <=> m = "delayed" /\ q = t
  BY <1>2, <1>4, <1>b, HeldLives
<1>7. \A o \in Thread : ~NextHolds("inbox", o, x)
  BY <1>2, <1>5, <1>6 DEF Kind, Owner
<1>8. state'[x] \notin {"unborn", "Finished"} /\ home'[x] = t
  BY <1>1, <1>6 DEF Live
<1>9. Resumed(t, x)
  BY <1>1, <1>5, <1>6, <1>7, <1>8 DEF Resumed
<1>. QED
  BY <1>2, <1>9, ResumeHome

\* Handler::notify with a Migration: into the slab of the thread and resumed, or killed.
LEMMA MigrationHome ==
  ASSUME TypeOK, RefersToBorn, Placed, HInv, NEW t \in Thread, OnMigration(t)
  PROVE  HInv'
<1>. DEFINE x == Head(inbox[t]).co
<1>1. /\ cur[t] = None /\ cur' = [cur EXCEPT ![t] = x]
      /\ inbox[t] # <<>> /\ Head(inbox[t]).type = "Migration"
      /\ inbox' = [inbox EXCEPT ![t] = Tail(@)]
      /\ home' = [home EXCEPT ![x] = t]
      /\ killed' = killed \/ (killed' = killed \cup {x} /\ t \in shutting)
      /\ UNCHANGED <<state, children, spawned, ready, delayed, shutting>>
  BY DEF OnMigration, Receives, At, JumpIn, KillOnArrival
<1>2. Head(inbox[t]) = Migration(x) /\ x \in Coroutine
  <2>1. Head(inbox[t]) \in Message
    BY <1>1, HeadTailProperties DEF TypeOK
  <2>. QED
    BY <1>1, <2>1 DEF Message, Migration, Shutdown, Terminate, PropagatePanic
<1>. HIDE DEF x
<1>3. ASSUME NEW e \in Coroutine, NEW o \in Thread
      PROVE  /\ Has(inbox[o], MigrationsOf(e)) <=>
                  Has(inbox'[o], MigrationsOf(e)) \/ (o = t /\ x = e)
             /\ Once(inbox[o], MigrationsOf(e)) => ~(o = t /\ x = e /\ Has(inbox'[o], MigrationsOf(e)))
  <2>1. Head(inbox[t]) \in MigrationsOf(e) <=> x = e
    BY <1>2 DEF MigrationsOf, Migration
  <2>. QED
    BY <1>1, <2>1, InboxPopped
<1>4. Holds("inbox", t, x)
  BY <1>2, <1>3 DEF Holds
<1>5. ASSUME NEW e \in Coroutine, NEW k \in {"spawned", "ready", "delayed", "inbox"}, NEW o \in Thread,
             NextHolds(k, o, e)
      PROVE  Holds(k, o, e)
  BY <1>1, <1>3, <1>5 DEF Holds, NextHolds
<1>6. /\ Live(x) /\ ~IsRunning(x) /\ home[x] = None /\ HeldOnce(x)
      /\ \A m \in Kind, q \in Owner : Holds(m, q, x) <=> m = "inbox" /\ q = t
  BY <1>2, <1>4, HeldLives
<1>7. ASSUME NEW o \in Thread, NextHolds("inbox", o, x) PROVE FALSE
  <2>1. Holds("inbox", o, x)
    BY <1>2, <1>5, <1>7
  <2>2. o = t
    BY <2>1, <1>6 DEF Kind, Owner
  <2>3. Has(inbox'[t], MigrationsOf(x)) /\ Once(inbox[t], MigrationsOf(x))
    BY <1>6, <1>7, <2>2 DEF NextHolds, HeldOnce
  <2>. QED
    BY <2>3, <1>2, <1>3
<1>8. /\ state'[x] \notin {"unborn", "Finished"} /\ home'[x] = t
      /\ \A e \in Coroutine : e # x => home'[e] = home[e]
  BY <1>1, <1>2, <1>6 DEF Live, TypeOK
<1>9. ~Holds("spawned", t, x) /\ ~Holds("ready", t, x)
  BY <1>6 DEF Kind, Owner
<1>10. Resumed(t, x)
  BY <1>1, <1>5, <1>6, <1>7, <1>8, <1>9 DEF Resumed
<1>. QED
  BY <1>2, <1>10, ResumeHome

\* Whoever is in the slab of an idle thread runs nowhere and does not migrate.
LEMMA SlabIdle ==
  ASSUME HInv, NEW t \in Thread, NEW c \in Coroutine, home[c] = t, cur[t] = None
  PROVE  Live(c) /\ ~IsRunning(c) /\ \A o \in Thread : ~Holds("inbox", o, c)
<1>1. t # None /\ c # None
  BY ThreadAssumption, CoroutineAssumption
<1>2. Live(c) /\ \A o \in Thread : ~Holds("inbox", o, c)
  BY <1>1 DEF HInv, HomeLive, InFlight
<1>3. ASSUME NEW u \in Thread, cur[u] = c PROVE FALSE
  <2>1. Holds("cur", u, c)
    BY <1>3 DEF Holds
  <2>2. home[c] = u
    BY <2>1, <1>2 DEF HInv, AtHome, ThreadKind
  <2>. QED
    BY <2>2, <1>1, <1>3
<1>. QED
  BY <1>2, <1>3 DEF IsRunning

\* CoroutineSlabHandle::event: a blocked coroutine is resumed where its slab is.
LEMMA WokenHome ==
  ASSUME TypeOK, HInv, NEW t \in Thread, NEW c \in Coroutine, home[c] = t, state[c] = "Blocked",
         state' = [state EXCEPT ![c] = "Ready"], cur[t] = None, cur' = [cur EXCEPT ![t] = c],
         UNCHANGED <<killed, home, children, spawned, ready, delayed, shutting>>,
         \A e \in Coroutine, o \in Thread :
           Has(inbox'[o], MigrationsOf(e)) <=> Has(inbox[o], MigrationsOf(e))
  PROVE  HInv'
<1>1. Live(c) /\ ~IsRunning(c) /\ \A o \in Thread : ~Holds("inbox", o, c)
  BY SlabIdle
<1>2. \A e \in Coroutine, k \in {"spawned", "ready", "delayed", "inbox"}, o \in Thread :
        NextHolds(k, o, e) => Holds(k, o, e)
  BY DEF Holds, NextHolds
<1>3. \A o \in Thread : ~NextHolds("inbox", o, c)
  BY <1>1, <1>2
<1>4. /\ state'[c] \notin {"unborn", "Finished"} /\ home'[c] = t
      /\ \A e \in Coroutine : e # c => state'[e] = state[e] /\ home'[e] = home[e]
  BY DEF TypeOK
<1>5. Resumed(t, c)
  BY <1>1, <1>2, <1>3, <1>4 DEF Resumed
<1>. QED
  BY <1>5, ResumeHome

\* Handler::shutdown jumps into one that it kills, with its queues empty.
LEMMA KillHome ==
  ASSUME TypeOK, HInv, QueuesServed, NEW t \in Thread, NEW c \in Coroutine, KillNext(t, c)
  PROVE  HInv'
<1>1. /\ cur[t] = None /\ phase[t] = "kill" /\ home[c] = t
      /\ cur' = [cur EXCEPT ![t] = c] /\ killed' = killed \cup {c}
      /\ UNCHANGED <<state, home, children, spawned, ready, delayed, inbox, shutting>>
  BY DEF KillNext, At, JumpIn, sharedVars
<1>2. Live(c) /\ ~IsRunning(c) /\ \A o \in Thread : ~Holds("inbox", o, c)
  BY <1>1, SlabIdle
<1>3. t \in shutting /\ spawned[t] = <<>> /\ ready[t] = <<>>
  BY <1>1 DEF QueuesServed
<1>4. ~Holds("spawned", t, c) /\ ~Holds("ready", t, c)
  BY <1>3, EmptyHolds DEF Holds
<1>5. \A e \in Coroutine, k \in {"spawned", "ready", "delayed", "inbox"}, o \in Thread :
        NextHolds(k, o, e) => Holds(k, o, e)
  BY <1>1 DEF Holds, NextHolds
<1>6. \A o \in Thread : ~NextHolds("inbox", o, c)
  BY <1>2, <1>5
<1>7. state'[c] \notin {"unborn", "Finished"} /\ home'[c] = t
  BY <1>1, <1>2 DEF Live
<1>8. Resumed(t, c)
  BY <1>1, <1>2, <1>3, <1>4, <1>5, <1>6, <1>7 DEF Resumed
<1>. QED
  BY <1>8, ResumeHome

\* What becomes of one that is moved between queues and nobody else: x leaves queue k
\* of thread t for the queue l of thread u, and its slab if it migrates.
Shifts(x, k, t, l, u) ==
  /\ UNCHANGED <<killed, state, children, cur, shutting>>
  /\ \A e \in Coroutine, m \in {"spawned", "ready", "delayed", "inbox"}, o \in Thread :
       NextHolds(m, o, e) => (e = x /\ m = l /\ o = u) \/ (Holds(m, o, e) /\ ~(e = x /\ m = k /\ o = t))
  /\ \A e \in Coroutine : e # x => home'[e] = home[e]
  /\ \/ l = "delayed" /\ u = t /\ home'[x] = home[x]
     \/ l = "inbox" /\ home'[x] = None

\* FifoSchedulerThread delays x or gives it to another thread.
LEMMA ShiftHome ==
  ASSUME TypeOK, RefersToBorn, Placed, HInv, NEW x \in Coroutine, NEW t \in Thread, NEW u \in Thread,
         NEW k \in {"spawned", "ready"}, NEW l \in {"delayed", "inbox"},
         Holds(k, t, x), Shifts(x, k, t, l, u)
  PROVE  HInv'
<1>. USE DEF Shifts
<1>1. /\ Live(x) /\ x \notin killed /\ ~IsRunning(x) /\ home[x] = t
      /\ \A m \in Kind, q \in Owner : Holds(m, q, x) <=> m = k /\ q = t
  BY HeldLives
<1>2. \A e, o \in Coroutine : NextHolds("children", o, e) <=> Holds("children", o, e)
  BY DEF Holds, NextHolds
<1>3. \A e \in Coroutine, o \in Thread : NextHolds("cur", o, e) <=> Holds("cur", o, e)
  BY DEF Holds, NextHolds
<1>4. \A e \in Coroutine : Live(e)' <=> Live(e)
  BY DEF Live
<1>5. (\A o \in Thread : o \in Owner) /\ (\A o \in Coroutine : o \in Owner)
      /\ {"children", "spawned", "ready", "delayed", "inbox", "cur"} = Kind
  BY DEF Owner, Kind
<1>6. \A m \in {"spawned", "ready", "delayed", "inbox"}, o \in Thread :
        NextHolds(m, o, x) => m = l /\ o = u
  BY <1>1, <1>5
<1>7. (\A o \in Thread : ~NextHolds("cur", o, x)) /\ \A o \in Coroutine : ~NextHolds("children", o, x)
  BY <1>1, <1>2, <1>3, <1>5
<1>8. \A e \in Coroutine, m \in ThreadKind, o \in Thread :
        Live(e)' /\ NextHolds(m, o, e) => home'[e] = o
  <2>. SUFFICES ASSUME NEW e \in Coroutine, NEW m \in ThreadKind, NEW o \in Thread,
                       Live(e), NextHolds(m, o, e)
                PROVE  home'[e] = o
    BY <1>4
  <2>1. CASE e = x
    <3>1. m = l /\ o = u
      BY <2>1, <1>6, <1>7 DEF ThreadKind
    <3>2. l = "delayed"
      BY <3>1 DEF ThreadKind
    <3>. QED
      BY <2>1, <3>1, <3>2, <1>1
  <2>2. CASE e # x
    <3>1. Holds(m, o, e)
      BY <2>2, <1>3 DEF ThreadKind
    <3>. QED
      BY <2>2, <3>1 DEF HInv, AtHome
  <2>. QED
    BY <2>1, <2>2
<1>9. \A e \in Coroutine : home'[e] # None => Live(e)'
  BY <1>1, <1>4 DEF HInv, HomeLive
<1>10. \A e \in Coroutine, o \in Thread : NextHolds("inbox", o, e) => home'[e] = None
  <2>. SUFFICES ASSUME NEW e \in Coroutine, NEW o \in Thread, NextHolds("inbox", o, e)
                PROVE  home'[e] = None
    OBVIOUS
  <2>1. CASE e = x
    BY <2>1, <1>6
  <2>2. CASE e # x
    BY <2>2 DEF HInv, InFlight
  <2>. QED
    BY <2>1, <2>2
<1>11. /\ \A e \in killed' : state'[e] = "Finished" \/ \E o \in Thread : cur'[o] = e
       /\ \A e \in killed' : children'[e] = <<>>
       /\ \A o, q \in Thread : cur'[o] # None /\ cur'[o] = cur'[q] => o = q
  BY DEF HInv, KilledRuns, KilledChildless, CurOnce, IsRunning
<1>12. \A e \in Coroutine : e \in killed' \/ state'[e] = "Finished" =>
         /\ \A d \in Coroutine : ~NextHolds("children", d, e)
         /\ \A m \in {"spawned", "ready", "inbox"}, o \in Thread : ~NextHolds(m, o, e)
         /\ \A o \in Thread : NextHolds("delayed", o, e) => o \in shutting'
  <2>. SUFFICES ASSUME NEW e \in Coroutine, Dead(e)
                PROVE  /\ \A d \in Coroutine : ~NextHolds("children", d, e)
                       /\ \A m \in {"spawned", "ready", "inbox"}, o \in Thread : ~NextHolds(m, o, e)
                       /\ \A o \in Thread : NextHolds("delayed", o, e) => o \in shutting
    BY DEF Dead
  <2>1. e # x
    BY <1>1 DEF Dead, Live
  <2>2. \A m \in {"spawned", "ready", "delayed", "inbox"}, o \in Thread :
          NextHolds(m, o, e) => Holds(m, o, e)
    BY <2>1
  <2>. QED
    BY <1>2, <2>2 DEF HInv, DeadGone
<1>13. \A d, e \in Coroutine : NextHolds("children", d, e) =>
         (\E o \in Thread : cur'[o] = d) /\ \A o \in Thread : cur'[o] = d => home'[e] = o
  <2>. SUFFICES ASSUME NEW d \in Coroutine, NEW e \in Coroutine, NextHolds("children", d, e)
                PROVE  (\E o \in Thread : cur[o] = d) /\ \A o \in Thread : cur[o] = d => home'[e] = o
    OBVIOUS
  <2>1. e # x /\ Holds("children", d, e)
    BY <1>2, <1>7
  <2>. QED
    BY <2>1 DEF HInv, ChildrenHere, IsRunning
<1>. QED
  BY <1>8, <1>9, <1>10, <1>11, <1>12, <1>13, NextHInv

\* FifoSchedulerThread::ready delays who yields until the next tick.
LEMMA DelayHome ==
  ASSUME TypeOK, RefersToBorn, Placed, HInv, NEW t \in Thread, ReadyDelay(t)
  PROVE  HInv'
<1>. DEFINE x == Head(ready[t]).co
<1>1. /\ delayed' = [delayed EXCEPT ![t] = Append(@, x)]
      /\ ready[t] # <<>> /\ ready' = [ready EXCEPT ![t] = Tail(@)]
      /\ UNCHANGED <<killed, state, home, children, spawned, inbox, cur, shutting>>
  BY DEF ReadyDelay, ReadyTurn, coVars, sharedVars
<1>2. x \in Coroutine
  BY <1>1, ReadyHead, CoroutineAssumption
<1>3. ASSUME NEW e \in Coroutine, NEW o \in Thread
      PROVE  /\ Has(ready[o], ControlsFor(e)) <=> Has(ready'[o], ControlsFor(e)) \/ (o = t /\ x = e)
             /\ Once(ready[o], ControlsFor(e)) => ~(o = t /\ x = e /\ Has(ready'[o], ControlsFor(e)))
  BY <1>1, ReadyShrinks
<1>. HIDE DEF x
<1>4. ASSUME NEW e \in Coroutine, NEW o \in Thread
      PROVE  Has(delayed'[o], Self(e)) <=> Has(delayed[o], Self(e)) \/ (o = t /\ x = e)
  <2>1. x \in Self(e) <=> x = e
    BY DEF Self
  <2>. QED
    BY <1>1, <1>2, <2>1, DelayedPushed
<1>5. Holds("ready", t, x)
  BY <1>2, <1>3 DEF Holds
<1>6. Once(ready[t], ControlsFor(x))
  BY <1>2, <1>5, HeldLives DEF HeldOnce
<1>7. ASSUME NEW e \in Coroutine, NEW m \in {"spawned", "ready", "delayed", "inbox"}, NEW o \in Thread,
             NextHolds(m, o, e)
      PROVE  (e = x /\ m = "delayed" /\ o = t) \/ (Holds(m, o, e) /\ ~(e = x /\ m = "ready" /\ o = t))
  <2>1. CASE m = "ready"
    BY <2>1, <1>3, <1>6, <1>7 DEF Holds, NextHolds
  <2>2. CASE m = "delayed"
    BY <2>2, <1>4, <1>7 DEF Holds, NextHolds
  <2>3. CASE m \in {"spawned", "inbox"}
    BY <2>3, <1>1, <1>7 DEF Holds, NextHolds
  <2>. QED
    BY <2>1, <2>2, <2>3
<1>8. Shifts(x, "ready", t, "delayed", t)
  BY <1>1, <1>7 DEF Shifts
<1>. QED
  BY <1>2, <1>5, <1>8, ShiftHome

\* CoroutineControl::migrate: out of the slab and into a notify queue.
LEMMA MigrateHome ==
  ASSUME TypeOK, RefersToBorn, Placed, HInv, NEW t \in Thread, SpawnedMigrate(t),
         phase'[t] \notin {"aborted", "unwind"}
  PROVE  HInv'
<1>. DEFINE x == Head(spawned[t])
            u == schedI[t]
<1>0. /\ spawned[t] # <<>> /\ spawned' = [spawned EXCEPT ![t] = Tail(@)]
      /\ home' = [home EXCEPT ![x] = None]
      /\ UNCHANGED <<killed, state, children, ready, delayed, cur, shutting>>
  BY DEF SpawnedMigrate, SpawnedTurn
<1>1. u \in Thread /\ inbox' = [inbox EXCEPT ![u] = Append(@, Migration(x))]
  BY DEF SpawnedMigrate, SendTo, TypeOK
<1>2. x \in Coroutine
  BY <1>0, HeadTailProperties DEF TypeOK
<1>3. ASSUME NEW e \in Coroutine, NEW o \in Thread
      PROVE  /\ Has(spawned[o], Self(e)) <=> Has(spawned'[o], Self(e)) \/ (o = t /\ x = e)
             /\ Once(spawned[o], Self(e)) => ~(o = t /\ x = e /\ Has(spawned'[o], Self(e)))
  BY <1>0, SpawnedPopped DEF Self
<1>. HIDE DEF x, u
<1>4. ASSUME NEW e \in Coroutine, NEW o \in Thread
      PROVE  Has(inbox'[o], MigrationsOf(e)) <=> Has(inbox[o], MigrationsOf(e)) \/ (o = u /\ x = e)
  <2>. DEFINE m == Migration(x)
  <2>1. m \in Message /\ (m \in MigrationsOf(e) <=> x = e)
    BY <1>2 DEF Message, Migration, MigrationsOf
  <2>2. inbox' = [inbox EXCEPT ![u] = Append(@, m)]
    BY <1>1
  <2>. HIDE DEF m
  <2>. QED
    BY <1>1, <2>1, <2>2, InboxPushed
<1>5. Holds("spawned", t, x)
  BY <1>2, <1>3 DEF Holds
<1>6. Once(spawned[t], Self(x))
  BY <1>2, <1>5, HeldLives DEF HeldOnce
<1>7. ASSUME NEW e \in Coroutine, NEW m \in {"spawned", "ready", "delayed", "inbox"}, NEW o \in Thread,
             NextHolds(m, o, e)
      PROVE  (e = x /\ m = "inbox" /\ o = u) \/ (Holds(m, o, e) /\ ~(e = x /\ m = "spawned" /\ o = t))
  <2>1. CASE m = "spawned"
    BY <2>1, <1>3, <1>6, <1>7 DEF Holds, NextHolds
  <2>2. CASE m = "inbox"
    BY <2>2, <1>4, <1>7 DEF Holds, NextHolds
  <2>3. CASE m \in {"ready", "delayed"}
    BY <2>3, <1>0, <1>7 DEF Holds, NextHolds
  <2>. QED
    BY <2>1, <2>2, <2>3
<1>8. home'[x] = None /\ \A e \in Coroutine : e # x => home'[e] = home[e]
  BY <1>0, <1>2 DEF TypeOK
<1>9. Shifts(x, "spawned", t, "inbox", u)
  BY <1>0, <1>7, <1>8 DEF Shifts
<1>. QED
  BY <1>1, <1>2, <1>5, <1>9, ShiftHome

\* A send that carries no coroutine.
LEMMA SentHome ==
  ASSUME TypeOK, NEW t \in Thread, NEW u \in Thread, NEW m \in Message, m.type # "Migration",
         NEW ph, SendTo(t, u, m, ph), NEW e \in Coroutine, NEW o \in Thread
  PROVE  NextHolds("inbox", o, e) <=> Holds("inbox", o, e)
<1>1. CASE inbox' = inbox
  BY <1>1 DEF Holds, NextHolds
<1>2. CASE inbox' = [inbox EXCEPT ![u] = Append(@, m)]
  <2>1. Has(inbox'[o], MigrationsOf(e)) <=> Has(inbox[o], MigrationsOf(e))
    BY <1>2, SentMessage
  <2>. QED
    BY <2>1 DEF Holds, NextHolds
<1>. QED
  BY <1>1, <1>2 DEF SendTo

\* yield_now, block_on and join(): the jump out of a coroutine that is to go on.
LEMMA JumpOutHome ==
  ASSUME TypeOK, RefersToBorn, HInv, NEW t \in Thread, NEW c \in Coroutine,
         Running(t, c), c \notin killed, StartChildren(t, c), cur' = [cur EXCEPT ![t] = None],
         state' = state \/ state' = [state EXCEPT ![c] = "Blocked"],
         ready' = ready \/ \E y \in BOOLEAN : ready' = [ready EXCEPT ![t] = Append(@, Control(c, y))],
         UNCHANGED <<killed, home, delayed, inbox, shutting>>
  PROVE  HInv'
<1>1. cur[t] = c /\ state[c] # "Finished" /\ state[c] # "unborn"
  BY CurrentLives DEF Running
<1>2. ~Dead(c)
  BY <1>1 DEF Dead
<1>3. \A e \in Coroutine, o \in Thread : NextHolds("inbox", o, e) => Holds("inbox", o, e)
  BY DEF Holds, NextHolds
<1>4. ASSUME NEW e \in Coroutine, NEW o \in Thread, NextHolds("ready", o, e)
      PROVE  Holds("ready", o, e) \/ (o = t /\ e = c /\ ~Dead(c))
  <2>1. CASE ready' = ready
    BY <1>4, <2>1 DEF Holds, NextHolds
  <2>2. CASE \E y \in BOOLEAN : ready' = [ready EXCEPT ![t] = Append(@, Control(c, y))]
    <3>1. Has(ready'[o], ControlsFor(e)) <=> Has(ready[o], ControlsFor(e)) \/ (o = t /\ e = c)
      BY <2>2, ReadyPushed
    <3>. QED
      BY <1>2, <1>4, <3>1 DEF Holds, NextHolds
  <2>. QED
    BY <2>1, <2>2
<1>5. \A e \in Coroutine : state'[e] = state[e] \/ (e = c /\ state'[e] = "Blocked")
  BY DEF TypeOK
<1>6. \A e \in Coroutine : /\ state'[e] \notin {"unborn", "Finished"} <=> Live(e)
                           /\ state'[e] = "Finished" <=> state[e] = "Finished"
  BY <1>1, <1>5 DEF Live
<1>7. Leaves(t, c)
  BY <1>1, <1>3, <1>4, <1>6 DEF Leaves
<1>. QED
  BY <1>7, LeaveHome

\* The last jump out of a coroutine.
LEMMA ExitHome ==
  ASSUME TypeOK, HInv, NEW t \in Thread, NEW c \in Coroutine, ExitSend(t, c)
  PROVE  HInv'
<1>1. /\ cur[t] = c /\ state[c] = "Finished" /\ StartChildren(t, c)
      /\ cur' = [cur EXCEPT ![t] = None] /\ NotifyJoiner(t, c)
      /\ UNCHANGED <<killed, state, home, ready, delayed, shutting>>
  BY DEF ExitSend
<1>2. \A e \in Coroutine, o \in Thread : NextHolds("inbox", o, e) => Holds("inbox", o, e)
  <2>1. CASE token[c] = None
    BY <1>1, <2>1 DEF NotifyJoiner, Holds, NextHolds
  <2>2. CASE token[c] # None
    <3>. DEFINE u == token[c].thread
                m == ChannelMsg(token[c].co)
    <3>1. token[c] \in [co : Coroutine, thread : Thread]
      BY <2>2 DEF TypeOK
    <3>2. u \in Thread /\ m \in Message /\ m.type # "Migration"
      BY <3>1 DEF ChannelMsg, Message
    <3>3. SendTo(t, u, m, phase[t])
      BY <1>1, <2>2 DEF NotifyJoiner
    <3>. HIDE DEF u, m
    <3>. QED
      BY <3>2, <3>3, SentHome
  <2>. QED
    BY <2>1, <2>2
<1>3. \A e \in Coroutine, o \in Thread : NextHolds("ready", o, e) => Holds("ready", o, e)
  BY <1>1 DEF Holds, NextHolds
<1>4. \A e \in Coroutine : state'[e] \notin {"unborn", "Finished"} <=> Live(e)
  BY <1>1 DEF Live
<1>5. Leaves(t, c)
  BY <1>1, <1>2, <1>3, <1>4 DEF Leaves
<1>. QED
  BY <1>5, LeaveHome

\* What coroutines do.
LEMMA RunHome ==
  ASSUME TypeOK, RefersToBorn, Placed, HInv, NEW t \in Thread, Run(t)
  PROVE  HInv'
<1>. PICK c \in Coroutine :
       \/ \E d \in Coroutine : Spawn(t, c, d) \/ Join(t, c, d)
       \/ Yield(t, c)
       \/ Block(t, c)
       \/ JoinReturn(t, c)
       \/ CallShutdown(t, c)
       \/ \E ok \in BOOLEAN : Finish(t, c, ok)
       \/ ExitSend(t, c)
  BY DEF Run
<1>1. CASE \E d \in Coroutine : Spawn(t, c, d)
  BY <1>1, SpawnHome
<1>2. CASE \E d \in Coroutine : Join(t, c, d)
  <2>1. /\ Running(t, c) /\ c \notin killed /\ StartChildren(t, c) /\ ready' = ready
        /\ state' = [state EXCEPT ![c] = "Blocked"] /\ cur' = [cur EXCEPT ![t] = None]
        /\ UNCHANGED <<killed, home, delayed, inbox, shutting>>
    BY <1>2 DEF Join, sharedVars
  <2>. QED
    BY <2>1, JumpOutHome
<1>3. CASE Yield(t, c)
  <2>1. /\ Running(t, c) /\ c \notin killed /\ StartChildren(t, c) /\ state' = state
        /\ \E y \in BOOLEAN : ready' = [ready EXCEPT ![t] = Append(@, Control(c, y))]
        /\ cur' = [cur EXCEPT ![t] = None]
        /\ UNCHANGED <<killed, home, delayed, inbox, shutting>>
    BY <1>3 DEF Yield, Free, sharedVars
  <2>. QED
    BY <2>1, JumpOutHome
<1>4. CASE Block(t, c)
  <2>1. /\ Running(t, c) /\ c \notin killed /\ StartChildren(t, c)
        /\ cur' = [cur EXCEPT ![t] = None]
        /\ UNCHANGED <<killed, home, delayed, inbox, shutting>>
    BY <1>4 DEF Block, Free, sharedVars
  <2>2. /\ state' = state \/ state' = [state EXCEPT ![c] = "Blocked"]
        /\ ready' = ready \/ \E y \in BOOLEAN : ready' = [ready EXCEPT ![t] = Append(@, Control(c, y))]
    BY <1>4 DEF Block
  <2>. QED
    BY <2>1, <2>2, JumpOutHome
<1>5. CASE JoinReturn(t, c) \/ CallShutdown(t, c)
  <2>1. UNCHANGED <<killed, state, home, children, spawned, ready, delayed, inbox, cur, shutting>>
    BY <1>5 DEF JoinReturn, CallShutdown, threadVars, sharedVars
  <2>2. \A e \in Coroutine, k \in {"spawned", "ready", "delayed", "inbox"}, o \in Thread :
          NextHolds(k, o, e) => Holds(k, o, e)
    BY <2>1 DEF Holds, NextHolds
  <2>. QED
    BY <2>1, <2>2, QuietHome
<1>6. CASE \E ok \in BOOLEAN : Finish(t, c, ok)
  BY <1>6, FinishHome
<1>7. CASE ExitSend(t, c)
  BY <1>7, ExitHome
<1>. QED
  BY <1>1, <1>2, <1>3, <1>4, <1>5, <1>6, <1>7

\* A broadcast carries no coroutine.
LEMMA BroadcastHome ==
  ASSUME TypeOK, NoneToMigrate, HInv, NEW t \in Thread, SendNext(t)
  PROVE  HInv'
<1>. DEFINE R == [to : Thread, msg : Message]
            u == Head(todo[t]).to
            m == Head(todo[t]).msg
<1>1. /\ todo[t] # <<>> /\ SendTo(t, u, m, phase[t])
      /\ UNCHANGED <<killed, state, home, children, spawned, ready, delayed, cur, shutting>>
  BY DEF SendNext, coVars
<1>2. todo[t] \in Seq(R)
  BY DEF TypeOK
<1>3. (\E i \in DOMAIN todo[t] : Head(todo[t]) = todo[t][i]) /\ Head(todo[t]) \in R
  <2>. HIDE DEF R
  <2>. QED
    BY <1>1, <1>2, QueueElements, HeadTailProperties
<1>4. u \in Thread /\ m \in Message /\ InTodo(m)
  BY <1>3 DEF InTodo
<1>. HIDE DEF u, m
<1>5. m.type # "Migration"
  <2>1. m.type = "Migration" => m = Migration(m.co) /\ m.co \in Coroutine
    BY <1>4 DEF Message, Migration, Shutdown, Terminate, PropagatePanic
  <2>. QED
    BY <1>4, <2>1 DEF NoneToMigrate
<1>6. \A e \in Coroutine, o \in Thread : NextHolds("inbox", o, e) <=> Holds("inbox", o, e)
  BY <1>1, <1>4, <1>5, SentHome
<1>7. \A e \in Coroutine, k \in {"spawned", "ready", "delayed"}, o \in Thread :
        NextHolds(k, o, e) <=> Holds(k, o, e)
  BY <1>1 DEF Holds, NextHolds
<1>. QED
  BY <1>1, <1>6, <1>7, QuietHome

\* Somebody is counted.
LEMMA CountedNext ==
  ASSUME Counted', NEW c \in Coroutine, state'[c] \notin {"unborn", "Finished"}
  PROVE  num' # 0
<1>. SUFFICES ASSUME num' = 0 PROVE FALSE
  OBVIOUS
<1>. DEFINE L == {e \in Coroutine : state'[e] \notin {"unborn", "Finished"}}
<1>1. Cardinality(L) = 0
  BY DEF Counted, Live
<1>2. IsFiniteSet(L)
  BY CoroutineAssumption, FS_Subset
<1>3. L = {}
  BY <1>1, <1>2, FS_EmptySet
<1>. QED
  BY <1>3

\* The thread that is to have the child is there: a migration does not panic.
LEMMA MigrationSent ==
  ASSUME TypeOK, RefersToBorn, Placed, HInv, NEW t \in Thread, SpawnedMigrate(t), Counted',
         phase'[t] = "aborted" => num' = 0
  PROVE  phase'[t] # "aborted"
<1>. DEFINE x == Head(spawned[t])
<1>1. spawned[t] # <<>> /\ spawned' = [spawned EXCEPT ![t] = Tail(@)] /\ state' = state
  BY DEF SpawnedMigrate, SpawnedTurn
<1>2. x \in Coroutine
  BY <1>1, HeadTailProperties DEF TypeOK
<1>3. Has(spawned[t], Self(x))
  BY <1>1, <1>2, SpawnedPopped DEF Self
<1>. HIDE DEF x
<1>4. Holds("spawned", t, x)
  BY <1>3 DEF Holds
<1>5. Live(x)
  BY <1>2, <1>4, HeldLives
<1>6. num' # 0
  BY <1>1, <1>2, <1>5, CountedNext DEF Live
<1>. QED
  BY <1>6

\* What threads do on their own.
LEMMA ThreadHome ==
  ASSUME TypeOK, RefersToBorn, Starting, TickBound, ShutDown, Placed, NoneToMigrate, HInv, QueuesServed,
         Counted', NEW t \in Thread, Step(t), ~Unwind(t), phase'[t] = "aborted" => num' = 0,
         phase'[t] # "unwind"
  PROVE  HInv'
<1>1. CASE SpawnThread(t) \/ StartOther(t) \/ Delivered(t) \/ KillDone(t) \/ Exit(t) \/ TickDone(t)
  <2>1. UNCHANGED <<killed, state, home, children, spawned, ready, delayed, inbox, cur, shutting>>
    BY <1>1 DEF SpawnThread, StartOther, Delivered, KillDone, Exit, TickDone, coVars, sharedVars
  <2>2. \A e \in Coroutine, k \in {"spawned", "ready", "delayed", "inbox"}, o \in Thread :
          NextHolds(k, o, e) => Holds(k, o, e)
    BY <2>1 DEF Holds, NextHolds
  <2>. QED
    BY <2>1, <2>2, QuietHome
<1>2. CASE StartMain
  BY <1>2, StartHome
<1>3. CASE SpawnedResume(t) \/ ReadyDelay(t) \/ ReadyResume(t) \/ TickResume(t)
  BY <1>3, SpawnedResumeHome, DelayHome, ReadyResumeHome, TickResumeHome
<1>4. CASE SpawnedMigrate(t)
  BY <1>4, MigrationSent, MigrateHome
<1>5. CASE Run(t)
  BY <1>5, RunHome
<1>6. CASE SendNext(t)
  BY <1>6, BroadcastHome
<1>7. CASE \E c \in Coroutine : KillNext(t, c)
  BY <1>7, KillHome
<1>. QED
  BY <1>1, <1>2, <1>3, <1>4, <1>5, <1>6, <1>7 DEF Step, Deliver

\* The callbacks of the event loop.
LEMMA CallbackHome ==
  ASSUME TypeOK, RefersToBorn, Placed, HInv, NEW t \in Thread,
         (Notify(t) /\ ~OnPropagatePanic(t)) \/ Tick(t) \/ \E c \in Coroutine : Event(t, c)
  PROVE  HInv'
<1>1. CASE Tick(t)
  <2>1. UNCHANGED <<killed, state, home, children, spawned, ready, delayed, inbox, cur, shutting>>
    BY <1>1 DEF Tick, coVars, sharedVars
  <2>2. \A e \in Coroutine, k \in {"spawned", "ready", "delayed", "inbox"}, o \in Thread :
          NextHolds(k, o, e) => Holds(k, o, e)
    BY <2>1 DEF Holds, NextHolds
  <2>. QED
    BY <2>1, <2>2, QuietHome
<1>2. ASSUME NEW c \in Coroutine, Event(t, c) PROVE HInv'
  <2>1. /\ home[c] = t /\ state[c] = "Blocked" /\ state' = [state EXCEPT ![c] = "Ready"]
        /\ cur[t] = None /\ cur' = [cur EXCEPT ![t] = c]
        /\ UNCHANGED <<killed, home, children, spawned, ready, delayed, inbox, shutting>>
    BY <1>2 DEF Event, At, Unblock, JumpIn, sharedVars
  <2>. QED
    BY <2>1, WokenHome
<1>3. CASE OnMigration(t)
  BY <1>3, MigrationHome
<1>4. CASE OnShutdown(t) \/ OnTerminate(t)
  <2>1. /\ Receives(t, "Shutdown") \/ Receives(t, "Terminate")
        /\ UNCHANGED <<killed, state, home, children, spawned, ready, delayed, cur>>
        /\ shutting \subseteq shutting'
    BY <1>4 DEF OnShutdown, OnTerminate, coVars
  <2>2. \A e \in Coroutine, o \in Thread : Has(inbox'[o], MigrationsOf(e)) <=> Has(inbox[o], MigrationsOf(e))
    BY <2>1, ReceivedMessage
  <2>3. \A e \in Coroutine, k \in {"spawned", "ready", "delayed", "inbox"}, o \in Thread :
          NextHolds(k, o, e) => Holds(k, o, e)
    BY <2>1, <2>2 DEF Holds, NextHolds
  <2>. QED
    BY <2>1, <2>3, QuietHome
<1>5. CASE OnChannelMsg(t)
  <2>. DEFINE c == Head(inbox[t]).co
  <2>1. /\ Receives(t, "ChannelMsg")
        /\ UNCHANGED <<killed, home, children, spawned, ready, delayed, shutting>>
    BY <1>5 DEF OnChannelMsg
  <2>2. \A e \in Coroutine, o \in Thread : Has(inbox'[o], MigrationsOf(e)) <=> Has(inbox[o], MigrationsOf(e))
    BY <2>1, ReceivedMessage
  <2>3. CASE Wakes(t, c)
    <3>1. /\ home[c] = t /\ state[c] = "Blocked" /\ state' = [state EXCEPT ![c] = "Ready"]
          /\ cur[t] = None /\ cur' = [cur EXCEPT ![t] = c]
      BY <1>5, <2>3 DEF OnChannelMsg, Receives, At, Wakes, Unblock, JumpIn
    <3>2. c \in Coroutine
      <4>1. inbox[t] # <<>> /\ Head(inbox[t]).type = "ChannelMsg"
        BY <2>1 DEF Receives
      <4>2. Head(inbox[t]) \in Message
        BY <4>1, HeadTailProperties DEF TypeOK
      <4>. QED
        BY <4>1, <4>2 DEF Message, Shutdown, Terminate, PropagatePanic
    <3>. HIDE DEF c
    <3>. QED
      BY <2>1, <2>2, <3>1, <3>2, WokenHome
  <2>4. CASE ~Wakes(t, c)
    <3>1. UNCHANGED <<state, cur>>
      BY <1>5, <2>4 DEF OnChannelMsg
    <3>2. \A e \in Coroutine, k \in {"spawned", "ready", "delayed", "inbox"}, o \in Thread :
            NextHolds(k, o, e) => Holds(k, o, e)
      BY <2>1, <2>2 DEF Holds, NextHolds
    <3>. QED
      BY <2>1, <3>1, <3>2, QuietHome
  <2>. QED
    BY <2>3, <2>4
<1>. QED
  BY <1>1, <1>2, <1>3, <1>4, <1>5 DEF Notify

\* The inductive step for HInv.
LEMMA HomesStep ==
  ASSUME CatchPanics, Starts = 0, IInv, IInv', Placed, NoneToMigrate, HInv, QueuesServed, [Next]_vars
  PROVE  HInv'
<1>1. TypeOK /\ RefersToBorn /\ Starting /\ TickBound /\ ShutDown /\ Counted'
  BY DEF IInv
<1>2. \A t \in Thread :
        phase[t] # "unwind" /\ phase'[t] # "unwind" /\ (phase'[t] = "aborted" => num' = 0)
  BY DEF IInv, NoPanics
<1>3. CASE UNCHANGED vars
  <2>1. UNCHANGED <<killed, state, home, children, spawned, ready, delayed, inbox, cur, shutting>>
    BY <1>3 DEF vars, coVars, threadVars, sharedVars
  <2>2. \A e \in Coroutine, k \in {"spawned", "ready", "delayed", "inbox"}, o \in Thread :
          NextHolds(k, o, e) => Holds(k, o, e)
    BY <2>1 DEF Holds, NextHolds
  <2>. QED
    BY <2>1, <2>2, QuietHome
<1>4. ASSUME NEW t \in Thread, Acting(t) PROVE HInv'
  <2>1. ~Unwind(t)
    BY <1>2 DEF Unwind, At
  <2>2. ~OnPropagatePanic(t)
    BY <1>1, <1>2 DEF OnPropagatePanic, TypeOK
  <2>3. CASE Step(t)
    BY <1>1, <1>2, <2>1, <2>3, ThreadHome
  <2>4. CASE Notify(t) \/ Tick(t) \/ \E c \in Coroutine : Event(t, c)
    BY <1>1, <2>2, <2>4, CallbackHome
  <2>. QED
    BY <1>4, <2>3, <2>4 DEF Acting
<1>. QED
  BY <1>3, <1>4, NextActing

\* QueuesServed for one thread, in the next state.
NextServed(u) ==
  /\ phase'[u] \in {"new", "waiting", "poll", "last", "kill"} =>
       spawned'[u] = <<>> /\ ready'[u] = <<>> /\ (cur'[u] # None => cur'[u] \in killed')
  /\ phase'[u] = "kill" => u \in shutting'

\* Nobody puts anything into the queues of another thread.
LEMMA QueuesLocal ==
  ASSUME TypeOK, NEW t \in Thread, Acting(t), NEW u \in Thread \ {t}
  PROVE  spawned'[u] = spawned[u] /\ ready'[u] = ready[u]
<1>1. spawned \in [Thread -> Seq(Coroutine)] /\ ready \in [Thread -> Seq([co : Coroutine, yielding : BOOLEAN])]
  BY DEF TypeOK
<1>2. CASE Run(t)
  <2>. PICK c \in Coroutine :
         \/ \E d \in Coroutine : Spawn(t, c, d) \/ Join(t, c, d)
         \/ Yield(t, c) \/ Block(t, c) \/ JoinReturn(t, c) \/ CallShutdown(t, c)
         \/ \E ok \in BOOLEAN : Finish(t, c, ok)
         \/ ExitSend(t, c)
    BY <1>2 DEF Run
  <2>1. CASE \/ \E d \in Coroutine : Spawn(t, c, d)
             \/ JoinReturn(t, c) \/ CallShutdown(t, c)
             \/ \E ok \in BOOLEAN : Finish(t, c, ok)
    BY <2>1 DEF Spawn, JoinReturn, CallShutdown, Finish, threadVars
  <2>2. CASE (\E d \in Coroutine : Join(t, c, d)) \/ ExitSend(t, c)
    BY <2>2, <1>1 DEF Join, ExitSend, StartChildren
  <2>3. CASE Yield(t, c)
    BY <2>3, <1>1 DEF Yield, StartChildren
  <2>4. CASE Block(t, c)
    BY <2>4, <1>1 DEF Block, StartChildren
  <2>. QED
    BY <2>1, <2>2, <2>3, <2>4
<1>3. CASE SpawnThread(t) \/ (t = 0 /\ StartMain) \/ StartOther(t)
  BY <1>3, <1>1 DEF SpawnThread, StartMain, StartOther
<1>4. CASE Deliver(t)
  BY <1>4, <1>1 DEF Deliver, SpawnedResume, SpawnedMigrate, ReadyDelay, ReadyResume, Delivered
<1>5. CASE \/ SendNext(t) \/ KillDone(t) \/ Exit(t) \/ Unwind(t) \/ TickResume(t) \/ TickDone(t) \/ Tick(t)
           \/ \E c \in Coroutine : KillNext(t, c) \/ Event(t, c)
  BY <1>5 DEF SendNext, KillDone, Exit, Unwind, TickResume, TickDone, Tick, KillNext, Event
<1>6. CASE Notify(t)
  BY <1>6 DEF Notify, OnChannelMsg, OnMigration, OnShutdown, OnTerminate, OnPropagatePanic
<1>. QED
  BY <1>2, <1>3, <1>4, <1>5, <1>6 DEF Acting, Step

\* A coroutine that runs outside of deliver_to_scheduler and tick() is being killed,
\* and leaves no children.
LEMMA RunServed ==
  ASSUME TypeOK, HInv, QueuesServed, NEW t \in Thread, Run(t)
  PROVE  NextServed(t)
<1>. PICK c \in Coroutine :
       \/ \E d \in Coroutine : Spawn(t, c, d) \/ Join(t, c, d)
       \/ Yield(t, c) \/ Block(t, c) \/ JoinReturn(t, c) \/ CallShutdown(t, c)
       \/ \E ok \in BOOLEAN : Finish(t, c, ok)
       \/ ExitSend(t, c)
  BY DEF Run
<1>1. cur[t] = c /\ c # None /\ UNCHANGED <<killed, shutting>>
  BY CoroutineAssumption, RunFacts
     DEF Spawn, Join, Yield, Block, JoinReturn, CallShutdown, Finish, ExitSend, ShutdownPanics, Free,
         Running
<1>2. phase'[t] \in {phase[t], "aborted"}
  <2>1. CASE ExitSend(t, c)
    BY <2>1 DEF ExitSend, NotifyJoiner, SendTo, TypeOK
  <2>2. CASE ~ExitSend(t, c)
    BY <2>2 DEF Spawn, Join, Yield, Block, JoinReturn, CallShutdown, Finish, threadVars
  <2>. QED
    BY <2>1, <2>2
<1>3. CASE phase[t] \notin {"new", "waiting", "poll", "last", "kill"}
  BY <1>2, <1>3 DEF NextServed
<1>4. CASE phase[t] \in {"new", "waiting", "poll", "last", "kill"}
  <2>1. /\ c \in killed /\ spawned[t] = <<>> /\ ready[t] = <<>> /\ children[c] = <<>>
        /\ phase[t] = "kill" => t \in shutting
    BY <1>1, <1>4 DEF QueuesServed, HInv, KilledChildless
  <2>2. (\E ok \in BOOLEAN : Finish(t, c, ok)) \/ ExitSend(t, c)
    BY <2>1 DEF Spawn, Join, Yield, Block, JoinReturn, CallShutdown, Free
  <2>3. CASE \E ok \in BOOLEAN : Finish(t, c, ok)
    BY <1>1, <1>2, <2>1, <2>3 DEF Finish, NextServed
  <2>4. CASE ExitSend(t, c)
    <3>1. spawned'[t] = spawned[t] \o children[c] /\ cur'[t] = None /\ ready' = ready
      BY <2>4 DEF ExitSend, StartChildren, TypeOK
    <3>2. spawned'[t] = <<>>
      BY <2>1, <3>1
    <3>. QED
      BY <1>1, <1>2, <2>1, <3>1, <3>2 DEF NextServed
  <2>. QED
    BY <2>2, <2>3, <2>4
<1>. QED
  BY <1>3, <1>4

\* deliver_to_scheduler returns when there is nothing left to deliver, and nothing
\* comes into the queues before the next callback.
LEMMA ActingServed ==
  ASSUME TypeOK, HInv, QueuesServed, NEW t \in Thread, Acting(t)
  PROVE  NextServed(t)
<1>. DEFINE Rest == {"new", "waiting", "poll", "last", "kill"}
<1>1. /\ phase \in [Thread -> Phase] /\ cur \in [Thread -> Coroutine \cup {None}]
      /\ phase[t] \in Rest => spawned[t] = <<>> /\ ready[t] = <<>> /\ (cur[t] # None => cur[t] \in killed)
      /\ phase[t] = "kill" => t \in shutting
  BY DEF TypeOK, QueuesServed
<1>2. CASE Run(t)
  BY <1>2, RunServed
<1>3. CASE SpawnThread(t) \/ StartOther(t) \/ KillDone(t)
  <2>1. /\ phase[t] \in Rest /\ phase'[t] \in {"waiting", "poll"}
        /\ UNCHANGED <<spawned, ready, cur, killed>>
    BY <1>1, <1>3 DEF SpawnThread, StartOther, KillDone, At, coVars
  <2>. QED
    BY <1>1, <2>1 DEF NextServed
<1>4. CASE t = 0 /\ StartMain
  BY <1>1, <1>4 DEF StartMain, NextServed
<1>5. CASE Delivered(t)
  BY <1>1, <1>5 DEF Delivered, At, NextServed
<1>6. CASE SpawnedResume(t) \/ ReadyDelay(t) \/ ReadyResume(t)
  BY <1>1, <1>6 DEF SpawnedResume, ReadyDelay, ReadyResume, JumpIn, NextServed
<1>7. CASE SpawnedMigrate(t)
  BY <1>1, <1>7 DEF SpawnedMigrate, SendTo, NextServed
<1>8. CASE SendNext(t)
  <2>1. phase'[t] \in {phase[t], "aborted"} /\ UNCHANGED <<spawned, ready, cur, killed, shutting>>
    BY <1>1, <1>8 DEF SendNext, SendTo, coVars
  <2>. QED
    BY <1>1, <2>1 DEF NextServed
<1>9. CASE \E c \in Coroutine : KillNext(t, c)
  <2>1. PICK c \in Coroutine : KillNext(t, c)
    BY <1>9
  <2>2. /\ phase[t] = "kill" /\ phase'[t] = "kill" /\ cur'[t] = c /\ c \in killed'
        /\ UNCHANGED <<spawned, ready, shutting>>
    BY <1>1, <2>1 DEF KillNext, At, JumpIn
  <2>. QED
    BY <1>1, <2>2 DEF NextServed
<1>10. CASE Exit(t) \/ TickDone(t) \/ Tick(t) \/ TickResume(t)
  BY <1>1, <1>10 DEF Exit, TickDone, Tick, TickResume, JumpIn, NextServed
<1>11. CASE Unwind(t)
  BY <1>1, <1>11 DEF Unwind, At, JumpIn, NextServed
<1>12. CASE \E c \in Coroutine : Event(t, c)
  BY <1>1, <1>12 DEF Event, JumpIn, NextServed
<1>13. ASSUME Notify(t)
       PROVE  phase[t] \in {"poll", "last"} /\ cur[t] = None /\ spawned[t] = <<>> /\ ready[t] = <<>>
  <2>1. phase[t] \in {"poll", "last"} /\ cur[t] = None
    BY <1>13 DEF Notify, OnChannelMsg, OnMigration, OnShutdown, OnTerminate, OnPropagatePanic, Receives, At
  <2>. QED
    BY <1>1, <2>1
<1>14. CASE OnChannelMsg(t)
  <2>1. UNCHANGED <<spawned, ready>> /\ (UNCHANGED <<phase, cur>> \/ phase'[t] = "spawned")
    BY <1>1, <1>14 DEF OnChannelMsg, JumpIn
  <2>. QED
    BY <1>13, <1>14, <2>1 DEF NextServed, Notify
<1>15. CASE OnMigration(t)
  <2>. DEFINE c == Head(inbox[t]).co
  <2>1. /\ UNCHANGED <<spawned, ready>> /\ cur'[t] = c
        /\ (phase'[t] = "poll" /\ c \in killed') \/ phase'[t] = "spawned"
    BY <1>1, <1>15 DEF OnMigration, JumpIn
  <2>. HIDE DEF c
  <2>. QED
    BY <1>13, <1>15, <2>1 DEF NextServed, Notify
<1>16. CASE OnShutdown(t) \/ OnTerminate(t) \/ OnPropagatePanic(t)
  <2>1. /\ UNCHANGED <<spawned, ready, cur>>
        /\ phase'[t] \in {"last", "unwind"} \/ (phase'[t] = "kill" /\ t \in shutting')
    BY <1>1, <1>16 DEF OnShutdown, OnTerminate, OnPropagatePanic
  <2>. QED
    BY <1>13, <1>16, <2>1 DEF NextServed, Notify
<1>. QED
  BY <1>2, <1>3, <1>4, <1>5, <1>6, <1>7, <1>8, <1>9, <1>10, <1>11, <1>12, <1>14, <1>15, <1>16
  DEF Acting, Step, Deliver, Notify

\* The inductive step for QueuesServed.
LEMMA ServedStep ==
  ASSUME TypeOK, HInv, QueuesServed, [Next]_vars
  PROVE  QueuesServed'
<1>1. CASE UNCHANGED vars
  BY <1>1 DEF QueuesServed, vars, coVars, threadVars
<1>2. ASSUME Next, NEW t \in Thread, Acting(t), NEW u \in Thread PROVE NextServed(u)
  <2>1. CASE u = t
    BY <1>2, <2>1, ActingServed
  <2>2. CASE u # t
    <3>1. Untouched(u) /\ spawned'[u] = spawned[u] /\ ready'[u] = ready[u]
      BY <1>2, <2>2, ActingLocal, QueuesLocal
    <3>2. killed \subseteq killed'
      BY <1>2, Grows
    <3>. QED
      BY <3>1, <3>2 DEF QueuesServed, NextServed, Untouched
  <2>. QED
    BY <2>1, <2>2
<1>3. CASE Next
  <2>1. CASE UNCHANGED vars
    BY <1>1, <2>1
  <2>2. ASSUME NEW t \in Thread, Acting(t) PROVE QueuesServed'
    <3>1. \A u \in Thread : NextServed(u)
      BY <1>2, <1>3, <2>2
    <3>. QED
      BY <3>1 DEF QueuesServed, NextServed
  <2>. QED
    BY <1>3, <2>1, <2>2, NextActing
<1>. QED
  BY <1>1, <1>3

\* At first there is nobody and nothing to do.
LEMMA InitHomes == Init => HInv /\ QueuesServed
<1>. SUFFICES ASSUME Init PROVE HInv /\ QueuesServed
  OBVIOUS
<1>1. /\ killed = {} /\ \A c \in Coroutine : state[c] = "unborn" /\ home[c] = None /\ children[c] = <<>>
      /\ \A t \in Thread : /\ cur[t] = None /\ spawned[t] = <<>> /\ ready[t] = <<>>
                           /\ delayed[t] = <<>> /\ inbox[t] = <<>>
      /\ \A t \in Thread : phase[t] \in {"new", "waiting"}
  BY DEF Init
<1>2. \A k \in Kind, o \in Owner, c \in Coroutine : ~Holds(k, o, c)
  BY <1>1, EmptyHolds, CoroutineAssumption DEF Holds
<1>3. AtHome /\ HomeLive /\ InFlight /\ ChildrenHere
  BY <1>1, <1>2 DEF AtHome, HomeLive, InFlight, ChildrenHere, Live, Kind, Owner
<1>4. KilledRuns /\ KilledChildless /\ DeadGone /\ CurOnce
  BY <1>1 DEF KilledRuns, KilledChildless, DeadGone, CurOnce, Dead
<1>. QED
  BY <1>1, <1>3, <1>4 DEF HInv, QueuesServed

-----------------------------------------------------------------------------
(* join() *)

\* Coroutines join their children only.
WaitsForChild == \A c \in Coroutine : waits[c] # None => parent[waits[c]] = c

\* c is parked in join() and not killed, and its wake-up is not lost; ...
Parked(c) == c \notin killed /\ state[c] = "Blocked" /\ waits[c] # None
Notified(c) ==
  IF waits[c] \in exited
    THEN Has(inbox[home[c]], {ChannelMsg(c)})
    ELSE token[waits[c]] = [co |-> c, thread |-> home[c]]

\* ... in the next state.
NextParked(c) == c \notin killed' /\ state'[c] = "Blocked" /\ waits'[c] # None
NextNotified(c) ==
  IF waits'[c] \in exited'
    THEN Has(inbox'[home'[c]], {ChannelMsg(c)})
    ELSE token'[waits'[c]] = [co |-> c, thread |-> home'[c]]

\* The property in these terms.
LEMMA NotifiedAll ==
  JoinNotified <=> \A c \in Coroutine : Parked(c) => Notified(c)
BY DEF JoinNotified, Parked, Notified, Has

\* Who is parked is in a slab, runs nowhere and no queue holds it.
LEMMA ParkedFacts ==
  ASSUME TypeOK, Placed, NEW c \in Coroutine, Parked(c)
  PROVE  /\ NotHeld(c) /\ home[c] \in Thread /\ Live(c)
         /\ \A t \in Thread : cur[t] # c
<1>1. PlacedAt(c) /\ Live(c)
  BY DEF Placed, Parked, Live
<1>2. NotHeld(c)
  BY <1>1 DEF PlacedAt, Parked
<1>3. home[c] # None
  BY <1>1, <1>2 DEF PlacedAt, NotHeld, Kind, Owner
<1>4. home[c] \in Thread
  BY <1>3 DEF TypeOK
<1>5. \A t \in Thread : ~Holds("cur", t, c)
  BY <1>2 DEF NotHeld, Kind, Owner
<1>. QED
  BY <1>1, <1>2, <1>4, <1>5 DEF Holds

\* A step that does not concern c or its child.
LEMMA KeptNotified ==
  ASSUME JoinNotified, NEW c \in Coroutine, NextParked(c), c \notin killed,
         state'[c] = state[c], waits'[c] = waits[c], home'[c] = home[c],
         token'[waits[c]] = token[waits[c]], waits[c] \in exited' <=> waits[c] \in exited,
         Has(inbox[home[c]], {ChannelMsg(c)}) => Has(inbox'[home[c]], {ChannelMsg(c)})
  PROVE  NextNotified(c)
<1>1. Parked(c)
  BY DEF Parked, NextParked
<1>2. Notified(c)
  BY <1>1, NotifiedAll
<1>. QED
  BY <1>2 DEF Notified, NextNotified

\* A send takes nothing out of a notify queue.
LEMMA SendKeeps ==
  ASSUME TypeOK, NEW t \in Thread, NEW u \in Thread, NEW m \in Message, NEW ph, SendTo(t, u, m, ph),
         NEW X, NEW o \in Thread, Has(inbox[o], X)
  PROVE  Has(inbox'[o], X)
<1>1. CASE inbox' = inbox
  BY <1>1
<1>2. CASE inbox' = [inbox EXCEPT ![u] = Append(@, m)]
  <2>1. inbox \in [Thread -> Seq(Message)]
    BY DEF TypeOK
  <2>2. inbox'[o] = IF o = u THEN Append(inbox[u], m) ELSE inbox[o]
    BY <1>2, <2>1
  <2>3. Has(Append(inbox[o], m), X)
    BY <2>1, AppendHolds
  <2>. QED
    BY <2>2, <2>3
<1>. QED
  BY <1>1, <1>2 DEF SendTo

\* Handler::notify takes the first only.
LEMMA ReceiveKeeps ==
  ASSUME TypeOK, NEW t \in Thread, NEW type, Receives(t, type), NEW X, NEW o \in Thread,
         Has(inbox[o], X), ~(o = t /\ Head(inbox[t]) \in X)
  PROVE  Has(inbox'[o], X)
<1>1. inbox \in [Thread -> Seq(Message)] /\ inbox[t] # <<>> /\ inbox' = [inbox EXCEPT ![t] = Tail(@)]
  BY DEF TypeOK, Receives
<1>2. inbox'[o] = IF o = t THEN Tail(inbox[t]) ELSE inbox[o]
  BY <1>1
<1>3. Has(inbox[t], X) <=> Head(inbox[t]) \in X \/ Has(Tail(inbox[t]), X)
  BY <1>1, TailHolds
<1>. QED
  BY <1>2, <1>3

\* deregister_all of one coroutine leaves the tokens of another's children alone.
LEMMA OthersToken ==
  ASSUME TypeOK, WaitsForChild, NEW b \in Coroutine, NEW c \in Coroutine, b # c, waits[c] # None,
         Unblock(b)
  PROVE  token'[waits[c]] = token[waits[c]] /\ state'[c] = state[c]
<1>1. waits[b] # waits[c]
  BY DEF WaitsForChild
<1>2. state'[c] = state[c]
  BY DEF Unblock, TypeOK
<1>3. waits[c] \in Coroutine /\ token \in [Coroutine -> [co : Coroutine, thread : Thread] \cup {None}]
  BY DEF TypeOK
<1>. QED
  BY <1>1, <1>2, <1>3 DEF Unblock

\* The child exits: the token leads to its parent.
LEMMA ExitNotified ==
  ASSUME TypeOK, Placed, JoinNotified, Counted', NEW t \in Thread, NEW d \in Coroutine, ExitSend(t, d),
         phase'[t] = "aborted" => num' = 0, NEW c \in Coroutine, NextParked(c)
  PROVE  NextNotified(c)
<1>1. /\ exited' = exited \cup {d} /\ NotifyJoiner(t, d)
      /\ UNCHANGED <<killed, state, home, waits, token>>
  BY DEF ExitSend
<1>2. Parked(c)
  BY <1>1 DEF Parked, NextParked
<1>3. Notified(c) /\ home[c] \in Thread /\ Live(c)
  BY <1>2, NotifiedAll, ParkedFacts
<1>4. ASSUME token[d] # None
      PROVE  /\ token[d].thread \in Thread /\ ChannelMsg(token[d].co) \in Message
             /\ SendTo(t, token[d].thread, ChannelMsg(token[d].co), phase[t])
  <2>1. token[d] \in [co : Coroutine, thread : Thread]
    BY <1>4 DEF TypeOK
  <2>. QED
    BY <1>1, <1>4, <2>1 DEF NotifyJoiner, ChannelMsg, Message
<1>5. ASSUME Has(inbox[home[c]], {ChannelMsg(c)}) PROVE Has(inbox'[home[c]], {ChannelMsg(c)})
  <2>1. CASE token[d] = None
    BY <1>1, <1>5, <2>1 DEF NotifyJoiner
  <2>2. CASE token[d] # None
    BY <1>3, <1>4, <1>5, <2>2, SendKeeps
  <2>. QED
    BY <2>1, <2>2
<1>6. CASE waits[c] # d \/ waits[c] \in exited
  <2>1. waits[c] \in exited' <=> waits[c] \in exited
    BY <1>1, <1>6
  <2>. QED
    BY <1>1, <1>2, <1>5, <2>1, KeptNotified DEF Parked
<1>7. CASE waits[c] = d /\ waits[c] \notin exited
  <2>1. token[d] = [co |-> c, thread |-> home[c]]
    BY <1>3, <1>7 DEF Notified
  <2>2. token[d] # None
    BY <2>1, <1>7, <1>3, TokenAssumption
  <2>3. SendTo(t, home[c], ChannelMsg(c), phase[t]) /\ ChannelMsg(c) \in Message
    BY <1>4, <2>1, <2>2
  <2>4. phase'[t] # "aborted"
    BY <1>1, <1>3, CountedNext DEF Live
  <2>5. inbox' = [inbox EXCEPT ![home[c]] = Append(@, ChannelMsg(c))]
    BY <2>3, <2>4 DEF SendTo, TypeOK
  <2>6. inbox \in [Thread -> Seq(Message)]
    BY DEF TypeOK
  <2>7. inbox'[home[c]] = Append(inbox[home[c]], ChannelMsg(c))
    BY <1>3, <2>5, <2>6
  <2>8. Has(inbox'[home[c]], {ChannelMsg(c)})
    BY <1>3, <2>3, <2>6, <2>7, AppendHolds
  <2>. QED
    BY <1>1, <1>7, <2>8 DEF NextNotified
<1>. QED
  BY <1>6, <1>7

\* What coroutines do: the parent parks, the child exits, and nobody else matters.
LEMMA RunNotified ==
  ASSUME TypeOK, RefersToBorn, Placed, HInv, WaitsForChild, JoinNotified, Counted', NEW t \in Thread,
         Run(t), phase'[t] = "aborted" => num' = 0, NEW c \in Coroutine, NextParked(c)
  PROVE  NextNotified(c)
<1>. PICK b \in Coroutine :
       \/ \E d \in Coroutine : Spawn(t, b, d) \/ Join(t, b, d)
       \/ Yield(t, b)
       \/ Block(t, b)
       \/ JoinReturn(t, b)
       \/ CallShutdown(t, b)
       \/ \E ok \in BOOLEAN : Finish(t, b, ok)
       \/ ExitSend(t, b)
  BY DEF Run
<1>1. ASSUME NEW d \in Coroutine, Spawn(t, b, d) PROVE NextNotified(c)
  <2>1. /\ state' = [state EXCEPT ![d] = "Ready"] /\ home' = [home EXCEPT ![d] = t]
        /\ UNCHANGED <<killed, waits, token, exited, inbox>>
    BY <1>1 DEF Spawn
  <2>2. c # d
    BY <2>1 DEF NextParked, TypeOK
  <2>3. state'[c] = state[c] /\ home'[c] = home[c] /\ c \notin killed
    BY <2>1, <2>2 DEF TypeOK, NextParked
  <2>. QED
    BY <2>1, <2>3, KeptNotified
<1>2. ASSUME NEW d \in Coroutine, Join(t, b, d) PROVE NextNotified(c)
  <2>1. /\ cur[t] = b /\ state[b] # "Finished" /\ d \notin exited
        /\ waits[b] = d \/ (waits[b] = None /\ parent[d] = b)
        /\ waits' = [waits EXCEPT ![b] = d]
        /\ token' = [token EXCEPT ![d] = [co |-> b, thread |-> t]]
        /\ state' = [state EXCEPT ![b] = "Blocked"]
        /\ UNCHANGED <<killed, home, exited, inbox>>
    BY <1>2 DEF Join, Running, sharedVars
  <2>2. CASE c = b
    <3>1. Live(b) /\ Holds("cur", t, b)
      BY <2>1, CurrentLives DEF Holds
    <3>2. home[b] = t
      BY <3>1 DEF HInv, AtHome, ThreadKind
    <3>3. waits'[b] = d /\ token'[d] = [co |-> b, thread |-> t] /\ home'[b] = t /\ d \notin exited'
      BY <2>1, <3>2 DEF TypeOK
    <3>. QED
      BY <2>2, <3>3 DEF NextNotified
  <2>3. CASE c # b
    <3>1. state'[c] = state[c] /\ waits'[c] = waits[c] /\ waits[c] # None /\ c \notin killed
      BY <2>1, <2>3 DEF TypeOK, NextParked
    <3>2. parent[d] = b /\ parent[waits[c]] = c
      BY <2>1, <3>1, CoroutineAssumption DEF WaitsForChild
    <3>3. waits[c] \in Coroutine \ {d}
      BY <2>3, <3>1, <3>2 DEF TypeOK
    <3>4. token'[waits[c]] = token[waits[c]]
      BY <2>1, <3>3 DEF TypeOK
    <3>. QED
      BY <2>1, <3>1, <3>4, KeptNotified
  <2>. QED
    BY <2>2, <2>3
<1>3. CASE Yield(t, b) \/ CallShutdown(t, b)
  <2>1. UNCHANGED <<killed, state, home, waits, token, exited, inbox>>
    BY <1>3 DEF Yield, CallShutdown, sharedVars
  <2>. QED
    BY <2>1, KeptNotified DEF NextParked
<1>4. CASE Block(t, b)
  <2>1. /\ waits[b] = None
        /\ state' = [state EXCEPT ![b] = "Blocked"] \/ state' = state
        /\ UNCHANGED <<killed, home, waits, token, exited, inbox>>
    BY <1>4 DEF Block, Free, sharedVars
  <2>2. waits[b] = None
    BY <1>4 DEF Block, Free
  <2>3. c # b /\ c \notin killed
    BY <2>1, <2>2 DEF NextParked
  <2>4. state'[c] = state[c]
    BY <2>1, <2>3 DEF TypeOK
  <2>. QED
    BY <2>1, <2>3, <2>4, KeptNotified
<1>5. CASE JoinReturn(t, b)
  <2>1. /\ waits' = [waits EXCEPT ![b] = None]
        /\ UNCHANGED <<killed, state, home, token, exited, inbox>>
    BY <1>5 DEF JoinReturn, sharedVars
  <2>2. waits'[c] = waits[c] /\ c \notin killed
    BY <2>1 DEF TypeOK, NextParked
  <2>. QED
    BY <2>1, <2>2, KeptNotified
<1>6. CASE \E ok \in BOOLEAN : Finish(t, b, ok)
  <2>1. /\ state' = [state EXCEPT ![b] = "Finished"] /\ home' = [home EXCEPT ![b] = None]
        /\ UNCHANGED <<killed, waits, token, exited, inbox>>
    BY <1>6 DEF Finish
  <2>2. c # b
    BY <2>1 DEF NextParked, TypeOK
  <2>3. state'[c] = state[c] /\ home'[c] = home[c] /\ c \notin killed
    BY <2>1, <2>2 DEF TypeOK, NextParked
  <2>. QED
    BY <2>1, <2>3, KeptNotified
<1>7. CASE ExitSend(t, b)
  BY <1>7, ExitNotified
<1>. QED
  BY <1>1, <1>2, <1>3, <1>4, <1>5, <1>6, <1>7

\* What threads do on their own: the slab of one that is parked does not change.
LEMMA ThreadNotified ==
  ASSUME TypeOK, RefersToBorn, Placed, HInv, WaitsForChild, JoinNotified, Counted', NEW t \in Thread,
         Step(t), phase'[t] = "aborted" => num' = 0, NEW c \in Coroutine, NextParked(c)
  PROVE  NextNotified(c)
<1>1. CASE \/ SpawnThread(t) \/ StartOther(t) \/ Delivered(t) \/ KillDone(t) \/ Exit(t) \/ TickDone(t)
           \/ SpawnedResume(t) \/ ReadyDelay(t) \/ ReadyResume(t) \/ TickResume(t)
  <2>1. UNCHANGED <<killed, state, home, waits, token, exited, inbox>>
    BY <1>1 DEF SpawnThread, StartOther, Delivered, KillDone, Exit, TickDone, SpawnedResume, ReadyDelay,
                ReadyResume, TickResume, coVars, sharedVars
  <2>. QED
    BY <2>1, KeptNotified DEF NextParked
<1>2. CASE Unwind(t) \/ \E d \in Coroutine : KillNext(t, d)
  <2>1. killed \subseteq killed' /\ UNCHANGED <<state, home, waits, token, exited, inbox>>
    BY <1>2 DEF Unwind, KillNext, sharedVars
  <2>2. c \notin killed
    BY <2>1 DEF NextParked
  <2>. QED
    BY <2>1, <2>2, KeptNotified
<1>3. CASE StartMain
  <2>1. /\ state' = [state EXCEPT ![Main] = "Ready"] /\ home' = [home EXCEPT ![Main] = 0]
        /\ UNCHANGED <<killed, waits, token, exited, inbox>>
    BY <1>3 DEF StartMain
  <2>2. c # Main
    BY <2>1 DEF NextParked, TypeOK
  <2>3. state'[c] = state[c] /\ home'[c] = home[c] /\ c \notin killed
    BY <2>1, <2>2 DEF TypeOK, NextParked
  <2>. QED
    BY <2>1, <2>3, KeptNotified
<1>4. CASE SpawnedMigrate(t)
  <2>. DEFINE x == Head(spawned[t])
  <2>1. /\ spawned[t] # <<>> /\ spawned' = [spawned EXCEPT ![t] = Tail(@)]
        /\ home' = [home EXCEPT ![x] = None]
        /\ inbox' = inbox \/ (schedI[t] \in Thread /\ SendTo(t, schedI[t], Migration(x), "ready"))
        /\ UNCHANGED <<killed, state, waits, token, exited>>
    BY <1>4 DEF SpawnedMigrate, SpawnedTurn
  <2>2. x \in Coroutine
    BY <2>1, HeadTailProperties DEF TypeOK
  <2>3. Has(spawned[t], Self(x))
    BY <2>1, <2>2, SpawnedPopped DEF Self
  <2>. HIDE DEF x
  <2>4. Holds("spawned", t, x)
    BY <2>3 DEF Holds
  <2>5. Parked(c)
    BY <2>1 DEF Parked, NextParked
  <2>6. NotHeld(c) /\ home[c] \in Thread
    BY <2>5, ParkedFacts
  <2>7. c # x
    BY <2>4, <2>6 DEF NotHeld, Kind, Owner
  <2>8. home'[c] = home[c]
    BY <2>1, <2>7 DEF TypeOK
  <2>9. Migration(x) \in Message
    BY <2>2 DEF Migration, Message
  <2>10. Has(inbox[home[c]], {ChannelMsg(c)}) => Has(inbox'[home[c]], {ChannelMsg(c)})
    BY <2>1, <2>6, <2>9, SendKeeps
  <2>. QED
    BY <2>1, <2>5, <2>8, <2>10, KeptNotified DEF Parked
<1>5. CASE Run(t)
  BY <1>5, RunNotified
<1>6. CASE SendNext(t)
  <2>. DEFINE R == [to : Thread, msg : Message]
  <2>1. /\ todo[t] # <<>> /\ SendTo(t, Head(todo[t]).to, Head(todo[t]).msg, phase[t])
        /\ UNCHANGED <<killed, state, home, waits, token, exited>>
    BY <1>6 DEF SendNext, coVars
  <2>2. Head(todo[t]) \in R
    <3>1. todo[t] \in Seq(R)
      BY DEF TypeOK
    <3>. HIDE DEF R
    <3>. QED
      BY <2>1, <3>1, HeadTailProperties
  <2>3. Head(todo[t]).to \in Thread /\ Head(todo[t]).msg \in Message
    BY <2>2
  <2>4. Parked(c)
    BY <2>1 DEF Parked, NextParked
  <2>5. home[c] \in Thread
    BY <2>4, ParkedFacts
  <2>6. Has(inbox[home[c]], {ChannelMsg(c)}) => Has(inbox'[home[c]], {ChannelMsg(c)})
    BY <2>1, <2>3, <2>5, SendKeeps
  <2>. QED
    BY <2>1, <2>4, <2>6, KeptNotified DEF Parked
<1>. QED
  BY <1>1, <1>2, <1>3, <1>4, <1>5, <1>6 DEF Step, Deliver

\* The callbacks: the ChannelMsg for a parked coroutine wakes it.
LEMMA CallbackNotified ==
  ASSUME TypeOK, RefersToBorn, Placed, HInv, WaitsForChild, JoinNotified, NEW t \in Thread,
         Notify(t) \/ Tick(t) \/ (\E b \in Coroutine : Event(t, b)), NEW c \in Coroutine, NextParked(c)
  PROVE  NextNotified(c)
<1>1. CASE Tick(t)
  <2>1. UNCHANGED <<killed, state, home, waits, token, exited, inbox>>
    BY <1>1 DEF Tick, coVars, sharedVars
  <2>. QED
    BY <2>1, KeptNotified DEF NextParked
<1>2. ASSUME NEW b \in Coroutine, Event(t, b) PROVE NextNotified(c)
  <2>1. Unblock(b) /\ UNCHANGED <<killed, home, waits, exited, inbox>>
    BY <1>2 DEF Event, sharedVars
  <2>2. c # b /\ c \notin killed /\ waits[c] # None
    BY <2>1 DEF Unblock, NextParked, TypeOK
  <2>3. token'[waits[c]] = token[waits[c]] /\ state'[c] = state[c]
    BY <2>1, <2>2, OthersToken
  <2>. QED
    BY <2>1, <2>2, <2>3, KeptNotified
<1>3. CASE OnShutdown(t) \/ OnTerminate(t) \/ OnPropagatePanic(t)
  <2>1. PICK type \in {"Shutdown", "Terminate", "PropagatePanic"} : Receives(t, type)
    BY <1>3 DEF OnShutdown, OnTerminate, OnPropagatePanic
  <2>2. UNCHANGED <<killed, state, home, waits, token, exited>>
    BY <1>3 DEF OnShutdown, OnTerminate, OnPropagatePanic, coVars
  <2>3. Parked(c)
    BY <2>2 DEF Parked, NextParked
  <2>4. home[c] \in Thread
    BY <2>3, ParkedFacts
  <2>5. Head(inbox[t]) \notin {ChannelMsg(c)}
    BY <2>1 DEF Receives, ChannelMsg
  <2>6. Has(inbox[home[c]], {ChannelMsg(c)}) => Has(inbox'[home[c]], {ChannelMsg(c)})
    BY <2>1, <2>4, <2>5, ReceiveKeeps
  <2>. QED
    BY <2>2, <2>3, <2>6, KeptNotified DEF Parked
<1>4. CASE OnMigration(t)
  <2>. DEFINE x == Head(inbox[t]).co
  <2>1. /\ Receives(t, "Migration") /\ home' = [home EXCEPT ![x] = t] /\ killed \subseteq killed'
        /\ UNCHANGED <<state, waits, token, exited>>
    BY <1>4 DEF OnMigration
  <2>2. inbox[t] # <<>> /\ Head(inbox[t]).type = "Migration" /\ inbox' = [inbox EXCEPT ![t] = Tail(@)]
    BY <2>1 DEF Receives
  <2>3. Head(inbox[t]) = Migration(x) /\ x \in Coroutine
    <3>1. Head(inbox[t]) \in Message
      BY <2>2, HeadTailProperties DEF TypeOK
    <3>. QED
      BY <2>2, <3>1 DEF Message, Migration, Shutdown, Terminate, PropagatePanic
  <2>. HIDE DEF x
  <2>4. Has(inbox[t], MigrationsOf(x))
    BY <2>2, <2>3, InboxPopped DEF MigrationsOf
  <2>5. Parked(c)
    BY <2>1 DEF Parked, NextParked
  <2>6. NotHeld(c) /\ home[c] \in Thread
    BY <2>5, ParkedFacts
  <2>7. c # x
    BY <2>4, <2>6 DEF NotHeld, Holds, Kind, Owner
  <2>8. home'[c] = home[c]
    BY <2>1, <2>7 DEF TypeOK
  <2>9. Head(inbox[t]) \notin {ChannelMsg(c)}
    BY <2>3 DEF Migration, ChannelMsg
  <2>10. Has(inbox[home[c]], {ChannelMsg(c)}) => Has(inbox'[home[c]], {ChannelMsg(c)})
    BY <2>1, <2>6, <2>9, ReceiveKeeps
  <2>. QED
    BY <2>1, <2>5, <2>8, <2>10, KeptNotified DEF Parked
<1>5. CASE OnChannelMsg(t)
  <2>. DEFINE b == Head(inbox[t]).co
  <2>1. /\ Receives(t, "ChannelMsg") /\ UNCHANGED <<killed, home, waits, exited>>
        /\ (Wakes(t, b) /\ Unblock(b)) \/ (~Wakes(t, b) /\ UNCHANGED <<state, token>>)
    BY <1>5 DEF OnChannelMsg
  <2>2. Head(inbox[t]) = ChannelMsg(b) /\ b \in Coroutine
    <3>1. inbox[t] # <<>> /\ Head(inbox[t]).type = "ChannelMsg"
      BY <2>1 DEF Receives
    <3>2. Head(inbox[t]) \in Message
      BY <3>1, HeadTailProperties DEF TypeOK
    <3>. QED
      BY <3>1, <3>2 DEF Message, ChannelMsg, Shutdown, Terminate, PropagatePanic
  <2>. HIDE DEF b
  <2>3. state'[c] = state[c] /\ token'[waits[c]] = token[waits[c]] /\ ~(Wakes(t, b) /\ c = b)
    <3>1. CASE Wakes(t, b) /\ Unblock(b)
      <4>1. c # b /\ waits[c] # None
        BY <2>1, <2>2, <3>1 DEF Unblock, NextParked, TypeOK
      <4>. QED
        BY <2>2, <3>1, <4>1, OthersToken
    <3>2. CASE ~Wakes(t, b) /\ UNCHANGED <<state, token>>
      BY <3>2
    <3>. QED
      BY <2>1, <3>1, <3>2
  <2>4. Parked(c)
    BY <2>1, <2>3 DEF Parked, NextParked
  <2>5. home[c] \in Thread
    BY <2>4, ParkedFacts
  <2>6. ~(home[c] = t /\ Head(inbox[t]) \in {ChannelMsg(c)})
    <3>1. SUFFICES ASSUME home[c] = t, Head(inbox[t]) = ChannelMsg(c) PROVE FALSE
      OBVIOUS
    <3>2. c = b
      BY <2>2, <3>1 DEF ChannelMsg
    <3>. QED
      BY <2>3, <2>4, <3>1, <3>2 DEF Wakes, Parked
  <2>7. Has(inbox[home[c]], {ChannelMsg(c)}) => Has(inbox'[home[c]], {ChannelMsg(c)})
    BY <2>1, <2>5, <2>6, ReceiveKeeps
  <2>. QED
    BY <2>1, <2>3, <2>4, <2>7, KeptNotified DEF Parked
<1>. QED
  BY <1>1, <1>2, <1>3, <1>4, <1>5 DEF Notify

\* A parent is set in spawn() only.
LEMMA ParentStep ==
  ASSUME Next, ~(\E t \in Thread, c, d \in Coroutine : Spawn(t, c, d))
  PROVE  parent' = parent
<1>1. CASE UNCHANGED vars
  BY <1>1 DEF vars, coVars
<1>2. ASSUME NEW t \in Thread, Run(t) PROVE parent' = parent
  BY <1>2 DEF Run, Join, Yield, Block, JoinReturn, CallShutdown, Finish, ExitSend
<1>3. ASSUME NEW t \in Thread, Deliver(t) PROVE parent' = parent
  BY <1>3 DEF Deliver, SpawnedResume, SpawnedMigrate, ReadyDelay, ReadyResume, Delivered, coVars
<1>4. ASSUME NEW t \in Thread, Notify(t) \/ \E c \in Coroutine : Event(t, c) PROVE parent' = parent
  BY <1>4 DEF Notify, OnChannelMsg, OnMigration, OnShutdown, OnTerminate, OnPropagatePanic, Event,
              coVars
<1>5. ASSUME NEW t \in Thread,
             \/ SpawnThread(t) \/ (t = 0 /\ StartMain) \/ StartOther(t) \/ SendNext(t)
             \/ (\E c \in Coroutine : KillNext(t, c)) \/ KillDone(t) \/ Exit(t) \/ Unwind(t)
             \/ TickResume(t) \/ TickDone(t) \/ Tick(t)
      PROVE  parent' = parent
  BY <1>5 DEF SpawnThread, StartMain, StartOther, SendNext, KillNext, KillDone, Exit, Unwind,
              TickResume, TickDone, Tick, coVars
<1>. QED
  BY <1>1, <1>2, <1>3, <1>4, <1>5, NextActing DEF Acting, Step

\* Nobody gets another parent, and join() is called on a child's handle.
LEMMA WaitsForChildStep ==
  ASSUME TypeOK, RefersToBorn, WaitsForChild, [Next]_vars
  PROVE  WaitsForChild'
<1>. SUFFICES ASSUME NEW e \in Coroutine, waits'[e] # None PROVE parent'[waits'[e]] = e
  BY DEF WaitsForChild
<1>0. \A c \in Coroutine : waits[c] # None => waits[c] \in Coroutine
  BY DEF TypeOK
<1>1. CASE UNCHANGED vars
  BY <1>1 DEF WaitsForChild, vars, coVars
<1>2. ASSUME NEW t \in Thread, NEW c \in Coroutine, NEW d \in Coroutine, Spawn(t, c, d)
      PROVE  parent'[waits'[e]] = e
  <2>1. state[d] = "unborn" /\ waits' = waits /\ parent' = [parent EXCEPT ![d] = c]
    BY <1>2 DEF Spawn
  <2>2. waits[e] # None /\ parent[waits[e]] = e /\ e # None
    BY <2>1, CoroutineAssumption DEF WaitsForChild
  <2>3. waits[e] # d
    BY <2>1, <2>2 DEF RefersToBorn, RefersTo, Born
  <2>. QED
    BY <1>0, <2>1, <2>2, <2>3 DEF TypeOK
<1>3. ASSUME NEW t \in Thread, NEW c \in Coroutine, NEW d \in Coroutine, Join(t, c, d)
      PROVE  parent'[waits'[e]] = e
  <2>1. /\ waits[c] = d \/ parent[d] = c
        /\ waits' = [waits EXCEPT ![c] = d] /\ parent' = parent
    BY <1>3 DEF Join
  <2>2. parent[d] = c
    BY <2>1, CoroutineAssumption DEF WaitsForChild
  <2>. QED
    BY <2>1, <2>2 DEF WaitsForChild, TypeOK
<1>4. ASSUME NEW t \in Thread, NEW c \in Coroutine, JoinReturn(t, c) PROVE parent'[waits'[e]] = e
  <2>1. waits' = [waits EXCEPT ![c] = None] /\ parent' = parent
    BY <1>4 DEF JoinReturn
  <2>. QED
    BY <2>1 DEF WaitsForChild, TypeOK
<1>5. CASE /\ Next
           /\ ~(\E t \in Thread, c, d \in Coroutine : Spawn(t, c, d))
           /\ ~(\E t \in Thread, c, d \in Coroutine : Join(t, c, d))
           /\ ~(\E t \in Thread, c \in Coroutine : JoinReturn(t, c))
  <2>1. waits' = waits /\ parent' = parent
    BY <1>5, WaitsStep, ParentStep
  <2>. QED
    BY <2>1 DEF WaitsForChild
<1>. QED
  BY <1>1, <1>2, <1>3, <1>4, <1>5

\* The inductive step for JoinNotified.
LEMMA JoinStep ==
  ASSUME CatchPanics, Starts = 0, IInv, IInv', Placed, HInv, WaitsForChild, JoinNotified, [Next]_vars
  PROVE  JoinNotified'
<1>1. TypeOK /\ RefersToBorn /\ Counted'
  BY DEF IInv
<1>2. \A t \in Thread : phase'[t] = "aborted" => num' = 0
  BY DEF IInv, NoPanics
<1>3. ASSUME NEW c \in Coroutine, NextParked(c) PROVE NextNotified(c)
  <2>1. CASE UNCHANGED vars
    <3>1. UNCHANGED <<killed, state, home, waits, token, exited, inbox>>
      BY <2>1 DEF vars, coVars, sharedVars
    <3>. QED
      BY <1>3, <3>1, KeptNotified DEF NextParked
  <2>2. ASSUME NEW t \in Thread, Acting(t) PROVE NextNotified(c)
    <3>1. CASE Step(t)
      BY <1>1, <1>2, <1>3, <3>1, ThreadNotified
    <3>2. CASE Notify(t) \/ Tick(t) \/ \E b \in Coroutine : Event(t, b)
      BY <1>1, <1>3, <3>2, CallbackNotified
    <3>. QED
      BY <2>2, <3>1, <3>2 DEF Acting
  <2>. QED
    BY <2>1, <2>2, NextActing
<1>. QED
  BY <1>3 DEF JoinNotified, NextParked, NextNotified, Has

\* Nobody joins at first.
LEMMA InitJoins == Init => WaitsForChild /\ JoinNotified
BY DEF Init, WaitsForChild, JoinNotified

\* What the steps preserve together.
Kept == Placed /\ NoneToMigrate /\ HInv /\ QueuesServed /\ WaitsForChild /\ JoinNotified

\* The invariant that the three theorems below are parts of.
LEMMA KeptHolds ==
  ASSUME CatchPanics, Starts = 0
  PROVE  Spec => []Kept
<1>1. Init => Kept
  BY InitPlaced, InitHomes, InitJoins DEF Kept
<1>2. IInv /\ IInv' /\ Kept /\ [Next]_vars => Kept'
  <2>. SUFFICES ASSUME IInv, IInv', Kept, [Next]_vars PROVE Kept'
    OBVIOUS
  <2>1. TypeOK /\ RefersToBorn
    BY DEF IInv
  <2>2. Placed' /\ NoneToMigrate'
    BY <2>1, PlacedStep, NoneToMigrateStep DEF Kept
  <2>3. HInv' /\ QueuesServed'
    BY <2>1, HomesStep, ServedStep DEF Kept
  <2>4. WaitsForChild' /\ JoinNotified'
    BY <2>1, WaitsForChildStep, JoinStep DEF Kept
  <2>. QED
    BY <2>2, <2>3, <2>4 DEF Kept
<1>. QED
  BY <1>1, <1>2, InvariantHolds, PTL DEF Spec

\* The Rc and RefCells of a coroutine belong to one thread at a time, which is what
\* `unsafe impl Send for Message` takes for granted when a Migration carries one (in
\* thread.rs): in a first start() that catches panics, a thread queues and runs only
\* who is in its slab, no two threads run the same coroutine, be it alive, killed or
\* at its end, and what migrates is in no slab.
THEOREM RunsAtHome ==
  ASSUME CatchPanics, Starts = 0
  PROVE  Spec => [](AtHome /\ CurOnce /\ InFlight)
<1>1. Kept => AtHome /\ CurOnce /\ InFlight
  BY DEF Kept, HInv
<1>. QED
  BY <1>1, KeptHolds, PTL

\* The safety half of ReadyRuns: whenever a thread waits in its event loop, or takes
\* the next callback, deliver_to_scheduler has left nothing in the spawned and ready
\* queues (nobody would look at them before some other event), and whoever the
\* thread runs there is being killed.
THEOREM QueuesAreServed ==
  ASSUME CatchPanics, Starts = 0
  PROVE  Spec => []QueuesServed
<1>1. Kept => QueuesServed
  BY DEF Kept
<1>. QED
  BY <1>1, KeptHolds, PTL

\* The safety half of JoinWakes, for any number of threads and coroutines: no wake-up
\* of a join() is lost.
THEOREM JoinersAreNotified ==
  ASSUME CatchPanics, Starts = 0
  PROVE  Spec => []JoinNotified
<1>1. Kept => JoinNotified
  BY DEF Kept
<1>. QED
  BY <1>1, KeptHolds, PTL

-----------------------------------------------------------------------------
(* The end of the instance *)

\* Thread t is going to tell thread u to end its event loop.
ToTell(t, u) == Has(todo[t], {[to |-> u, msg |-> Terminate]})

\* Two messages in this order.
Behind(q, x, y) == \E i, j \in DOMAIN q : i < j /\ q[i] = x /\ q[j] = y

Shutdowns == [to : Thread, msg : {Shutdown}]

\* A broadcast is sent by a coroutine, ...
SendersRun == \A t \in Thread : todo[t] # <<>> => cur[t] # None

\* ... and is a Shutdown or a Terminate, ...
Broadcasts == \A t \in Thread : \A i \in DOMAIN todo[t] : todo[t][i].msg \in {Shutdown, Terminate}

\* ... a Shutdown from one that is alive, ...
ShutdownSenders == \A t \in Thread : Has(todo[t], Shutdowns) => Live(cur[t])

\* ... so that no Shutdown comes after a Terminate.
ShutdownFirst ==
  \A u \in Thread : /\ phase[u] = "last" => ~Has(inbox[u], {Shutdown})
                    /\ ~Behind(inbox[u], Terminate, Shutdown)

\* There is one Terminate for each thread, in one list or with the thread.
ToldOnce ==
  \A u, t \in Thread :
    /\ Once(todo[t], {[to |-> u, msg |-> Terminate]})
    /\ \A v \in Thread : ToTell(t, u) /\ ToTell(v, u) => t = v
    /\ ToTell(t, u) => ~Terminated(u)

\* A joiner that has left its token on an exit channel is parked there, or was when
\* it was killed.
TokensParked ==
  \A d \in Coroutine :
    token[d] # None =>
      \/ token[d].co \in killed
      \/ state[token[d].co] = "Blocked" /\ waits[token[d].co] = d

EndInv ==
  /\ SendersRun /\ Broadcasts /\ ShutdownSenders /\ ShutdownFirst /\ ToldOnce /\ TokensParked
  /\ EveryoneTold /\ AbortsForKilledJoiner

\* The order in a queue that is longer or shorter by one.
LEMMA AppendBehind ==
  ASSUME NEW S, NEW q \in Seq(S), NEW z \in S, NEW x, NEW y, Behind(Append(q, z), x, y)
  PROVE  Behind(q, x, y) \/ (z = y /\ Has(q, {x}))
<1>1. /\ Len(q) \in Nat /\ DOMAIN q = 1 .. Len(q)
      /\ Append(q, z) \in Seq(S) /\ Len(Append(q, z)) = Len(q) + 1
      /\ \A k \in 1 .. Len(q) : Append(q, z)[k] = q[k]
      /\ Append(q, z)[Len(q) + 1] = z
  BY AppendProperties, LenProperties
<1>2. DOMAIN Append(q, z) = 1 .. Len(q) + 1
  BY <1>1, LenProperties
<1>3. PICK i, j \in 1 .. Len(q) + 1 : i < j /\ Append(q, z)[i] = x /\ Append(q, z)[j] = y
  BY <1>2 DEF Behind
<1>4. i \in 1 .. Len(q) /\ q[i] = x
  BY <1>1, <1>3
<1>5. CASE j = Len(q) + 1
  BY <1>1, <1>3, <1>4, <1>5 DEF Has
<1>6. CASE j # Len(q) + 1
  <2>1. j \in 1 .. Len(q) /\ q[j] = y
    BY <1>1, <1>3, <1>6
  <2>. QED
    BY <1>1, <1>3, <1>4, <2>1 DEF Behind
<1>. QED
  BY <1>5, <1>6

\* Tail.
LEMMA TailBehind ==
  ASSUME NEW S, NEW q \in Seq(S), q # <<>>, NEW x, NEW y
  PROVE  /\ Behind(Tail(q), x, y) => Behind(q, x, y)
         /\ Head(q) = x /\ Has(Tail(q), {y}) => Behind(q, x, y)
<1>1. Len(q) \in Nat /\ DOMAIN q = 1 .. Len(q) /\ Len(q) # 0
  BY LenProperties, EmptySeq
<1>2. /\ Tail(q) \in Seq(S) /\ Len(Tail(q)) = Len(q) - 1 /\ Head(q) = q[1]
      /\ \A k \in 1 .. Len(Tail(q)) : Tail(q)[k] = q[k + 1]
  BY HeadTailProperties
<1>3. DOMAIN Tail(q) = 1 .. Len(q) - 1
  BY <1>2, LenProperties
<1>4. \A k \in DOMAIN Tail(q) : k \in Nat \ {0} /\ k + 1 \in DOMAIN q /\ Tail(q)[k] = q[k + 1]
  BY <1>1, <1>2, <1>3
<1>5. ASSUME Behind(Tail(q), x, y) PROVE Behind(q, x, y)
  <2>1. PICK i, j \in DOMAIN Tail(q) : i < j /\ Tail(q)[i] = x /\ Tail(q)[j] = y
    BY <1>5 DEF Behind
  <2>2. i + 1 \in DOMAIN q /\ j + 1 \in DOMAIN q /\ i + 1 < j + 1 /\ q[i + 1] = x /\ q[j + 1] = y
    BY <1>4, <2>1
  <2>. QED
    BY <2>2 DEF Behind
<1>6. ASSUME Head(q) = x, Has(Tail(q), {y}) PROVE Behind(q, x, y)
  <2>1. PICK j \in DOMAIN Tail(q) : Tail(q)[j] = y
    BY <1>6 DEF Has
  <2>2. 1 \in DOMAIN q /\ q[1] = x /\ j + 1 \in DOMAIN q /\ 1 < j + 1 /\ q[j + 1] = y
    BY <1>1, <1>2, <1>4, <1>6, <2>1
  <2>. QED
    BY <2>2 DEF Behind
<1>. QED
  BY <1>5, <1>6

\* One thread broadcasts, for a shutdown() or at the end of a coroutine.
LEMMA TodoCases ==
  ASSUME TypeOK, Next, NEW u \in Thread
  PROVE  \/ todo'[u] = todo[u]
         \/ SendNext(u)
         \/ \E c \in Coroutine : CallShutdown(u, c)
         \/ \E c \in Coroutine, ok \in BOOLEAN : Finish(u, c, ok)
<1>1. CASE UNCHANGED vars
  BY <1>1 DEF vars, threadVars
<1>2. ASSUME NEW t \in Thread, t # u, Acting(t) PROVE todo'[u] = todo[u]
  BY <1>2, ActingLocal DEF Untouched
<1>3. ASSUME NEW c \in Coroutine,
             \/ \E d \in Coroutine : Spawn(u, c, d) \/ Join(u, c, d)
             \/ Yield(u, c) \/ Block(u, c) \/ JoinReturn(u, c) \/ ExitSend(u, c)
             \/ KillNext(u, c) \/ Event(u, c)
      PROVE  todo' = todo
  BY <1>3 DEF Spawn, Join, Yield, Block, JoinReturn, ExitSend, KillNext, Event, threadVars
<1>4. ASSUME \/ SpawnThread(u) \/ (u = 0 /\ StartMain) \/ StartOther(u) \/ Deliver(u)
             \/ KillDone(u) \/ Exit(u) \/ Unwind(u) \/ TickResume(u) \/ TickDone(u) \/ Tick(u)
      PROVE  todo' = todo
  BY <1>4 DEF SpawnThread, StartMain, StartOther, Deliver, SpawnedResume, SpawnedMigrate,
              ReadyDelay, ReadyResume, Delivered, KillDone, Exit, Unwind, TickResume, TickDone, Tick
<1>5. ASSUME Notify(u) PROVE todo' = todo
  BY <1>5 DEF Notify, OnChannelMsg, OnMigration, OnShutdown, OnTerminate, OnPropagatePanic
<1>. QED
  BY <1>1, <1>2, <1>3, <1>4, <1>5, NextActing DEF Acting, Step, Run

\* A message of a coroutine's own.
Personal == [type : {"Migration", "ChannelMsg"}, co : Coroutine]

\* A notify queue gets one message of a broadcast or of a coroutine, or loses its first.
LEMMA InboxCases ==
  ASSUME TypeOK, Next, NEW u \in Thread
  PROVE  \/ inbox'[u] = inbox[u]
         \/ \E m \in Personal : inbox'[u] = Append(inbox[u], m)
         \/ \E t \in Thread : /\ SendNext(t) /\ Head(todo[t]).to = u /\ ~Closed(u)
                              /\ inbox'[u] = Append(inbox[u], Head(todo[t]).msg)
         \/ Notify(u) /\ inbox[u] # <<>> /\ inbox'[u] = Tail(inbox[u])
<1>0. inbox \in [Thread -> Seq(Message)]
  BY DEF TypeOK
<1>1. CASE inbox' = inbox
  BY <1>1
<1>2. ASSUME NEW t, NEW v \in Thread, NEW m, NEW ph, SendTo(t, v, m, ph)
      PROVE  \/ inbox'[u] = inbox[u]
             \/ v = u /\ ~Closed(u) /\ inbox'[u] = Append(inbox[u], m)
  BY <1>0, <1>2 DEF SendTo
<1>3. ASSUME NEW t \in Thread, SpawnedMigrate(t)
      PROVE  inbox'[u] = inbox[u] \/ \E m \in Personal : inbox'[u] = Append(inbox[u], m)
  <2>1. /\ spawned[t] # <<>>
        /\ inbox' = inbox \/ (/\ schedI[t] \in Thread
                             /\ SendTo(t, schedI[t], Migration(Head(spawned[t])), "ready"))
    BY <1>3 DEF SpawnedMigrate, SpawnedTurn
  <2>2. Migration(Head(spawned[t])) \in Personal
    BY <2>1, Popped DEF TypeOK, Migration, Personal
  <2>. QED
    BY <2>1, <2>2, <1>2
<1>4. ASSUME NEW t \in Thread, NEW c \in Coroutine, ExitSend(t, c)
      PROVE  inbox'[u] = inbox[u] \/ \E m \in Personal : inbox'[u] = Append(inbox[u], m)
  <2>1. CASE token[c] = None
    BY <1>4, <2>1 DEF ExitSend, NotifyJoiner
  <2>2. CASE token[c] # None
    <3>1. SendTo(t, token[c].thread, ChannelMsg(token[c].co), phase[t])
      BY <1>4, <2>2 DEF ExitSend, NotifyJoiner
    <3>2. ChannelMsg(token[c].co) \in Personal /\ token[c].thread \in Thread
      BY <2>2 DEF TypeOK, ChannelMsg, Personal
    <3>. QED
      BY <3>1, <3>2, <1>2
  <2>. QED
    BY <2>1, <2>2
<1>5. ASSUME NEW t \in Thread, SendNext(t)
      PROVE  \/ inbox'[u] = inbox[u]
             \/ /\ Head(todo[t]).to = u /\ ~Closed(u)
                /\ inbox'[u] = Append(inbox[u], Head(todo[t]).msg)
  <2>. DEFINE R == [to : Thread, msg : Message]
  <2>1. todo[t] # <<>> /\ SendTo(t, Head(todo[t]).to, Head(todo[t]).msg, phase[t])
    BY <1>5 DEF SendNext
  <2>2. todo[t] \in Seq(R)
    BY DEF TypeOK
  <2>. HIDE DEF R
  <2>3. Head(todo[t]) \in R
    BY <2>1, <2>2, Popped
  <2>4. Head(todo[t]).to \in Thread
    BY <2>3 DEF R
  <2>. QED
    BY <2>1, <2>4, <1>2
<1>6. ASSUME NEW t \in Thread, Notify(t)
      PROVE  inbox'[u] = inbox[u] \/ (t = u /\ inbox[u] # <<>> /\ inbox'[u] = Tail(inbox[u]))
  <2>1. inbox[t] # <<>> /\ inbox' = [inbox EXCEPT ![t] = Tail(@)]
    BY <1>6 DEF Notify, OnChannelMsg, OnMigration, OnShutdown, OnTerminate, OnPropagatePanic,
                Receives
  <2>. QED
    BY <1>0, <2>1
<1>7. ASSUME NEW t \in Thread, NEW c \in Coroutine,
             \/ \E d \in Coroutine : Spawn(t, c, d) \/ Join(t, c, d)
             \/ Yield(t, c) \/ Block(t, c) \/ JoinReturn(t, c) \/ CallShutdown(t, c)
             \/ \E ok \in BOOLEAN : Finish(t, c, ok)
             \/ KillNext(t, c) \/ Event(t, c)
      PROVE  inbox' = inbox
  BY <1>7 DEF Spawn, Join, Yield, Block, JoinReturn, CallShutdown, Finish, KillNext, Event,
              sharedVars
<1>8. ASSUME NEW t \in Thread,
             \/ SpawnThread(t) \/ (t = 0 /\ StartMain) \/ StartOther(t) \/ SpawnedResume(t)
             \/ ReadyDelay(t) \/ ReadyResume(t) \/ Delivered(t) \/ KillDone(t) \/ Exit(t)
             \/ Unwind(t) \/ TickResume(t) \/ TickDone(t) \/ Tick(t)
      PROVE  inbox' = inbox
  BY <1>8 DEF SpawnThread, StartMain, StartOther, SpawnedResume, ReadyDelay, ReadyResume,
              Delivered, KillDone, Exit, Unwind, TickResume, TickDone, Tick, sharedVars
<1>9. CASE UNCHANGED vars
  BY <1>9, <1>1 DEF vars, sharedVars
<1>10. ASSUME NEW t \in Thread, Run(t)
       PROVE  inbox'[u] = inbox[u] \/ \E m \in Personal : inbox'[u] = Append(inbox[u], m)
  BY <1>4, <1>7, <1>10 DEF Run
<1>. QED
  BY <1>3, <1>5, <1>6, <1>7, <1>8, <1>9, <1>10, NextActing DEF Acting, Step, Deliver

\* A thread goes from one coroutine to another only when it has nothing to send.
LEMMA CurStays ==
  ASSUME TypeOK, Next, NEW u \in Thread, cur'[u] # cur[u]
  PROVE  (cur[u] = None \/ todo[u] = <<>>) /\ todo'[u] = todo[u]
<1>1. CASE UNCHANGED vars
  BY <1>1 DEF vars, threadVars
<1>2. ASSUME NEW t \in Thread, t # u, Acting(t) PROVE cur'[u] = cur[u]
  BY <1>2, ActingLocal DEF Untouched
<1>3. ASSUME NEW c \in Coroutine,
             \/ (\E d \in Coroutine : Spawn(u, c, d)) \/ JoinReturn(u, c) \/ CallShutdown(u, c)
             \/ \E ok \in BOOLEAN : Finish(u, c, ok)
      PROVE  cur' = cur
  BY <1>3 DEF Spawn, JoinReturn, CallShutdown, Finish, threadVars
<1>4. ASSUME NEW c \in Coroutine,
             (\E d \in Coroutine : Join(u, c, d)) \/ Yield(u, c) \/ Block(u, c) \/ ExitSend(u, c)
      PROVE  todo[u] = <<>> /\ todo' = todo
  BY <1>4 DEF Join, Yield, Block, ExitSend, Free, Running
<1>5. ASSUME \/ SpawnThread(u) \/ (u = 0 /\ StartMain) \/ StartOther(u) \/ SendNext(u)
      PROVE  cur' = cur
  BY <1>5 DEF SpawnThread, StartMain, StartOther, SendNext
<1>6. ASSUME \/ Deliver(u) \/ KillDone(u) \/ Exit(u) \/ Unwind(u) \/ TickResume(u) \/ TickDone(u)
             \/ Tick(u) \/ \E c \in Coroutine : KillNext(u, c) \/ Event(u, c)
      PROVE  cur[u] = None /\ todo' = todo
  BY <1>6 DEF Deliver, SpawnedResume, SpawnedMigrate, SpawnedTurn, ReadyDelay, ReadyResume,
              ReadyTurn, Delivered, KillDone, Exit, Unwind, TickResume, TickDone, Tick, KillNext,
              Event, At
<1>7. ASSUME Notify(u) PROVE cur[u] = None /\ todo' = todo
  BY <1>7 DEF Notify, OnChannelMsg, OnMigration, OnShutdown, OnTerminate, OnPropagatePanic,
              Receives, At
<1>. QED
  BY <1>1, <1>2, <1>3, <1>4, <1>5, <1>6, <1>7, NextActing DEF Acting, Step, Run

\* What is left of a broadcast.
LEMMA TodoTypes ==
  ASSUME TypeOK, NEW u \in Thread
  PROVE  todo[u] \in Seq([to : Thread, msg : Message])
BY DEF TypeOK

\* No jump out leaves a broadcast half sent.
LEMMA SendersStep ==
  ASSUME TypeOK, SendersRun, Next
  PROVE  SendersRun'
<1>. SUFFICES ASSUME NEW u \in Thread, todo'[u] # <<>> PROVE cur'[u] # None
  BY DEF SendersRun
<1>1. CASE cur'[u] # cur[u]
  BY <1>1, CurStays DEF SendersRun
<1>2. CASE SendNext(u)
  BY <1>2, CurStays DEF SendNext, SendersRun
<1>3. ASSUME NEW c \in Coroutine, CallShutdown(u, c) \/ \E ok \in BOOLEAN : Finish(u, c, ok)
      PROVE  cur[u] # None
  BY <1>3, CoroutineAssumption DEF CallShutdown, Finish, ShutdownPanics, Free, Running
<1>. QED
  BY <1>1, <1>2, <1>3, TodoCases DEF SendersRun

\* Nothing else is broadcast while panics are caught.
LEMMA BroadcastsStep ==
  ASSUME CatchPanics, TypeOK, Broadcasts, Next
  PROVE  Broadcasts'
<1>1. ASSUME NEW m, InTodo(m)' PROVE m \in {Shutdown, Terminate}
  <2>1. CASE InTodo(m)
    BY <2>1 DEF InTodo, Broadcasts
  <2>. QED
    BY <1>1, <2>1, TodoStep
<1>2. ASSUME NEW u \in Thread, NEW i \in DOMAIN (todo'[u])
      PROVE  todo'[u][i].msg \in {Shutdown, Terminate}
  <2>1. PICK m : m = todo'[u][i].msg
    OBVIOUS
  <2>2. InTodo(m)'
    BY <1>2, <2>1 DEF InTodo
  <2>. QED
    BY <1>1, <2>1, <2>2
<1>. QED
  BY <1>2 DEF Broadcasts, Shutdown, Terminate

\* A coroutine ends after its broadcast, or gives it up when it panics.
LEMMA ShutdownSendersStep ==
  ASSUME IInv, CurOnce, SendersRun, ShutdownSenders, Next
  PROVE  ShutdownSenders'
<1>. SUFFICES ASSUME NEW u \in Thread, Has(todo'[u], Shutdowns) PROVE Live(cur[u])' /\ cur'[u] = cur[u]
  BY DEF ShutdownSenders, Live
<1>0. TypeOK /\ RefersToBorn /\ Starting
  BY DEF IInv
<1>1. todo'[u] # <<>>
  BY EmptyHolds
<1>2. cur'[u] = cur[u]
  BY <1>0, <1>1, CurStays DEF SendersRun
<1>3. ASSUME NEW c \in Coroutine, NEW ok \in BOOLEAN, Finish(u, c, ok) PROVE FALSE
  <2>1. PICK i \in DOMAIN (todo'[u]) : todo'[u][i] \in Shutdowns
    BY DEF Has
  <2>2. todo'[u][i].msg \in {Terminate, PropagatePanic}
    BY <1>0, <1>3, <2>1, FinishTodo
  <2>. QED
    BY <2>1, <2>2 DEF Shutdowns, Shutdown, Terminate, PropagatePanic
<1>4. ASSUME NEW c \in Coroutine, CallShutdown(u, c) PROVE Live(cur[u])'
  <2>1. cur[u] = c /\ state[c] # "Finished" /\ state' = state
    BY <1>4 DEF CallShutdown, Free, Running
  <2>2. Live(c)
    BY <1>0, <2>1, CurrentLives
  <2>. QED
    BY <1>2, <2>1, <2>2 DEF Live
<1>5. CASE Has(todo[u], Shutdowns)
  <2>1. Live(cur[u]) /\ cur[u] # None /\ cur[u] \in Coroutine
    <3>1. todo[u] # <<>>
      BY <1>5, EmptyHolds
    <3>. QED
      BY <1>0, <1>5, <3>1 DEF ShutdownSenders, SendersRun, TypeOK
  <2>2. CASE Birth
    BY <1>0, <1>2, <2>1, <2>2 DEF Birth, Live, TypeOK
  <2>3. CASE End
    <3>1. PICK c \in Coroutine : /\ \E t \in Thread, ok \in BOOLEAN : Finish(t, c, ok)
                                 /\ state' = [state EXCEPT ![c] = "Finished"]
      BY <2>3 DEF End
    <3>2. PICK t \in Thread, ok \in BOOLEAN : Finish(t, c, ok)
      BY <3>1
    <3>3. cur[t] = c
      BY <3>2 DEF Finish, ShutdownPanics, Free, Running
    <3>4. cur[u] # c
      BY <1>3, <2>1, <3>2, <3>3 DEF CurOnce
    <3>. QED
      BY <1>0, <1>2, <2>1, <3>1, <3>4 DEF Live, TypeOK
  <2>4. CASE NoChange
    BY <1>2, <2>1, <2>4 DEF NoChange, Live
  <2>. QED
    BY <1>0, <2>2, <2>3, <2>4, NextChanges
<1>6. CASE SendNext(u)
  <2>1. todo[u] # <<>> /\ todo'[u] = Tail(todo[u])
    BY <1>0, <1>6 DEF SendNext, TypeOK
  <2>2. Has(todo[u], Shutdowns)
    BY <1>0, <2>1, TodoTypes, TailHolds
  <2>. QED
    BY <1>5, <2>2, <1>2
<1>. QED
  BY <1>0, <1>2, <1>3, <1>4, <1>5, <1>6, TodoCases

\* Nobody calls shutdown() once a thread has been told to end.
LEMMA NoLateShutdown ==
  ASSUME IInv, ShutdownSenders, SendersRun, NEW t \in Thread, SendNext(t), Head(todo[t]).msg = Shutdown
  PROVE  ~Terminating
<1>1. TypeOK /\ Counted /\ TerminatingMeansDone
  BY DEF IInv
<1>2. todo[t] # <<>> /\ todo[t] \in Seq([to : Thread, msg : Message])
  BY <1>1, TodoTypes DEF SendNext
<1>3. Head(todo[t]) \in [to : Thread, msg : Message]
  BY <1>2, Popped
<1>4. Head(todo[t]) \in Shutdowns
  BY <1>3 DEF Shutdowns
<1>5. Has(todo[t], Shutdowns)
  BY <1>2, <1>4, TailHolds
<1>6. Live(cur[t]) /\ cur[t] \in Coroutine
  BY <1>1, <1>2, <1>5 DEF ShutdownSenders, SendersRun, TypeOK
<1>. QED
  BY <1>1, <1>6, ZeroMeansNobody DEF TerminatingMeansDone

\* The order of a Shutdown and a Terminate in a notify queue.
LEMMA ShutdownFirstStep ==
  ASSUME IInv, SendersRun, ShutdownSenders, ShutdownFirst, Next
  PROVE  ShutdownFirst'
<1>0. TypeOK /\ Starting /\ inbox \in [Thread -> Seq(Message)] /\ {Shutdown, Terminate} \subseteq Message
  BY DEF IInv, TypeOK, Message
<1>. SUFFICES ASSUME NEW u \in Thread
              PROVE  /\ phase'[u] = "last" => ~Has(inbox'[u], {Shutdown})
                     /\ ~Behind(inbox'[u], Terminate, Shutdown)
  BY DEF ShutdownFirst, Shutdown, Terminate
<1>1. Shutdown \notin Personal /\ Personal \subseteq Message
  BY DEF Personal, Message, Shutdown
<1>2. Has(inbox[u], {Terminate}) \/ phase[u] = "last" => Terminating
  BY DEF Has, Terminating, Terminated
<1>3. phase'[u] = "last" => phase[u] = "last" \/ OnTerminate(u)
  BY <1>0, LastPhase, NextPhase, PhaseFacts DEF Closed
<1>4. CASE inbox'[u] = inbox[u]
  <2>1. ASSUME OnTerminate(u) PROVE ~Has(inbox'[u], {Shutdown})
    BY <1>0, <2>1, TerminateFirst, TailBehind DEF ShutdownFirst
  <2>. QED
    BY <1>3, <1>4, <2>1 DEF ShutdownFirst
<1>5. ASSUME NEW m \in Message, inbox'[u] = Append(inbox[u], m), m = Shutdown => ~Terminating
      PROVE  /\ phase'[u] = "last" => ~Has(inbox'[u], {Shutdown})
             /\ ~Behind(inbox'[u], Terminate, Shutdown)
  <2>1. ~Behind(inbox'[u], Terminate, Shutdown)
    <3>1. inbox[u] \in Seq(Message) /\ ~Behind(inbox[u], Terminate, Shutdown)
      BY <1>0 DEF ShutdownFirst
    <3>2. Behind(Append(inbox[u], m), Terminate, Shutdown) =>
            m = Shutdown /\ Has(inbox[u], {Terminate})
      BY <3>1, AppendBehind
    <3>. QED
      BY <1>2, <1>5, <3>2
  <2>2. ASSUME phase[u] = "last" PROVE ~Has(inbox'[u], {Shutdown})
    <3>1. inbox[u] \in Seq(Message) /\ ~Has(inbox[u], {Shutdown}) /\ m # Shutdown
      BY <1>0, <1>2, <1>5, <2>2 DEF ShutdownFirst
    <3>2. ~Has(Append(inbox[u], m), {Shutdown})
      BY <3>1, AppendHolds
    <3>. QED
      BY <1>5, <3>2
  <2>3. ASSUME OnTerminate(u) PROVE ~Has(inbox'[u], {Shutdown})
    BY <1>0, <2>3, TerminateFirst, TailBehind DEF ShutdownFirst
  <2>. QED
    BY <1>3, <2>1, <2>2, <2>3
<1>6. ASSUME NEW t \in Thread, SendNext(t), inbox'[u] = Append(inbox[u], Head(todo[t]).msg)
      PROVE  /\ phase'[u] = "last" => ~Has(inbox'[u], {Shutdown})
             /\ ~Behind(inbox'[u], Terminate, Shutdown)
  <2>1. Head(todo[t]) \in [to : Thread, msg : Message]
    BY <1>0, <1>6, TodoTypes, Popped DEF SendNext
  <2>2. Head(todo[t]).msg \in Message
    BY <2>1
  <2>. QED
    BY <1>5, <1>6, <2>2, NoLateShutdown
<1>7. CASE inbox[u] # <<>> /\ inbox'[u] = Tail(inbox[u])
  <2>1. ~Behind(inbox'[u], Terminate, Shutdown)
    BY <1>0, <1>7, TailBehind DEF ShutdownFirst
  <2>2. ASSUME phase[u] = "last" PROVE ~Has(inbox'[u], {Shutdown})
    BY <1>0, <1>7, <2>2, TailHolds DEF ShutdownFirst
  <2>3. ASSUME OnTerminate(u) PROVE ~Has(inbox'[u], {Shutdown})
    BY <1>0, <2>3, TerminateFirst, TailBehind DEF ShutdownFirst
  <2>. QED
    BY <1>3, <2>1, <2>2, <2>3
<1>. QED
  BY <1>0, <1>1, <1>4, <1>5, <1>6, <1>7, InboxCases

\* One Terminate for each thread.
LEMMA BroadcastTells ==
  ASSUME NEW u \in Thread, NEW m \in Message
  PROVE  /\ Broadcast(m) \in Seq([to : Thread, msg : Message])
         /\ Once(Broadcast(m), {[to |-> u, msg |-> m]})
         /\ Has(Broadcast(m), {[to |-> u, msg |-> m]})
<1>1. N \in Nat /\ Thread = 0 .. N - 1
  BY BoundAssumption DEF Thread
<1>2. DOMAIN Broadcast(m) = 1 .. N /\ \A i \in 1 .. N : Broadcast(m)[i] = [to |-> i - 1, msg |-> m]
  BY DEF Broadcast
<1>3. \A i \in 1 .. N : Broadcast(m)[i].to = i - 1
  BY <1>2
<1>4. Once(Broadcast(m), {[to |-> u, msg |-> m]})
  <2>. SUFFICES ASSUME NEW i \in 1 .. N, NEW j \in 1 .. N,
                       Broadcast(m)[i] = [to |-> u, msg |-> m], Broadcast(m)[j] = [to |-> u, msg |-> m]
                PROVE  i = j
    BY <1>2 DEF Once
  <2>1. i - 1 = u /\ j - 1 = u
    BY <1>3
  <2>. QED
    BY <1>1, <2>1
<1>5. u + 1 \in 1 .. N /\ Broadcast(m)[u + 1] = [to |-> u, msg |-> m]
  BY <1>1, <1>2
<1>6. Has(Broadcast(m), {[to |-> u, msg |-> m]})
  BY <1>2, <1>5 DEF Has
<1>7. Broadcast(m) \in Seq([to : Thread, msg : Message])
  BY BroadcastFacts DEF MessageOf, Message
<1>. QED
  BY <1>4, <1>6, <1>7

\* The end of a coroutine, if panics are caught.
LEMMA FinishTells ==
  ASSUME CatchPanics, TypeOK, NEW t \in Thread, NEW c \in Coroutine, NEW ok \in BOOLEAN,
         Finish(t, c, ok)
  PROVE  todo'[t] = IF LastOne THEN Broadcast(Terminate) ELSE <<>>
<1>1. todo'[t] = (IF LastOne THEN Broadcast(Terminate) ELSE <<>>) \o <<>>
  BY DEF Finish, TypeOK
<1>2. Broadcast(Terminate) \in Seq([to : Thread, msg : Message])
  BY BroadcastFacts DEF MessageOf, Message
<1>3. <<>> \in Seq([to : Thread, msg : Message])
  OBVIOUS
<1>. QED
  BY <1>1, <1>2, <1>3, ConcatEmptySeq

\* Who will be told at the next state was to be told before, or everybody is.
LEMMA ToTellStep ==
  ASSUME CatchPanics, IInv, Next, NEW t \in Thread, NEW u \in Thread, ToTell(t, u)'
  PROVE  ToTell(t, u) \/ (~Terminating /\ \E c \in Coroutine, ok \in BOOLEAN : Finish(t, c, ok))
<1>. DEFINE m == [to |-> u, msg |-> Terminate]
<1>0. TypeOK /\ TerminatingMeansDone /\ Has(todo'[t], {m})
  BY DEF IInv, ToTell
<1>1. CASE todo'[t] = todo[t]
  BY <1>0, <1>1 DEF ToTell
<1>2. CASE SendNext(t)
  <2>1. todo[t] # <<>> /\ todo'[t] = Tail(todo[t])
    BY <1>0, <1>2 DEF SendNext, TypeOK
  <2>2. todo[t] \in Seq([to : Thread, msg : Message])
    BY <1>0, TodoTypes
  <2>. HIDE DEF m
  <2>3. Has(todo[t], {m})
    BY <1>0, <2>1, <2>2, TailHolds
  <2>. QED
    BY <2>3 DEF ToTell, m
<1>3. ASSUME NEW c \in Coroutine, CallShutdown(t, c) PROVE FALSE
  <2>1. todo'[t] = Broadcast(Shutdown)
    BY <1>0, <1>3 DEF CallShutdown, TypeOK
  <2>2. \A i \in DOMAIN Broadcast(Shutdown) : Broadcast(Shutdown)[i].msg = Shutdown
    BY DEF Broadcast
  <2>3. Shutdown # Terminate
    BY DEF Shutdown, Terminate
  <2>. QED
    BY <1>0, <2>1, <2>2, <2>3 DEF Has
<1>4. ASSUME NEW c \in Coroutine, NEW ok \in BOOLEAN, Finish(t, c, ok) PROVE ~Terminating
  <2>1. LastOne
    BY <1>0, <1>4, FinishTells, EmptyHolds
  <2>. QED
    BY <1>0, <2>1 DEF TerminatingMeansDone, LastOne
<1>. QED
  BY <1>0, <1>1, <1>2, <1>3, <1>4, TodoCases

\* A thread has its Terminate when it has been sent one.
LEMMA TerminatedStep ==
  ASSUME TypeOK, Next, NEW u \in Thread, Terminated(u)'
  PROVE  \/ Terminated(u)
         \/ \E t \in Thread : SendNext(t) /\ Head(todo[t]) = [to |-> u, msg |-> Terminate]
<1>0. inbox[u] \in Seq(Message)
  BY DEF TypeOK
<1>1. ASSUME phase'[u] \in {"last", "exited"} PROVE Terminated(u)
  <2>1. CASE OnTerminate(u)
    <3>1. Has(inbox[u], {Terminate})
      BY <1>0, <2>1, TerminateFirst, TailHolds
    <3>. QED
      BY <3>1 DEF Has, Terminated
  <2>. QED
    BY <1>1, <2>1, LastPhase DEF Terminated
<1>2. ASSUME Has(inbox'[u], {Terminate})
      PROVE  \/ Has(inbox[u], {Terminate})
             \/ \E t \in Thread : SendNext(t) /\ Head(todo[t]) = [to |-> u, msg |-> Terminate]
  <2>1. ASSUME NEW m \in Personal, inbox'[u] = Append(inbox[u], m) PROVE Has(inbox[u], {Terminate})
    <3>1. m \in Message /\ m # Terminate
      BY DEF Personal, Message, Terminate
    <3>. QED
      BY <1>0, <1>2, <2>1, <3>1, AppendHolds
  <2>2. ASSUME NEW t \in Thread, SendNext(t), Head(todo[t]).to = u,
               inbox'[u] = Append(inbox[u], Head(todo[t]).msg)
        PROVE  Has(inbox[u], {Terminate}) \/ Head(todo[t]) = [to |-> u, msg |-> Terminate]
    <3>1. Head(todo[t]) \in [to : Thread, msg : Message]
      BY <2>2, TodoTypes, Popped DEF SendNext
    <3>2. PICK m \in Message : m = Head(todo[t]).msg
      BY <3>1
    <3>3. Has(inbox[u], {Terminate}) \/ m = Terminate
      BY <1>0, <1>2, <2>2, <3>2, AppendHolds
    <3>. QED
      BY <2>2, <3>1, <3>2, <3>3
  <2>3. CASE inbox[u] # <<>> /\ inbox'[u] = Tail(inbox[u])
    BY <1>0, <1>2, <2>3, TailHolds
  <2>. QED
    BY <1>2, <2>1, <2>2, <2>3, InboxCases
<1>3. Terminated(u)' => phase'[u] \in {"last", "exited"} \/ Has(inbox'[u], {Terminate})
  BY DEF Terminated, Has, Terminate
<1>4. Has(inbox[u], {Terminate}) => Terminated(u)
  BY DEF Terminated, Has
<1>. QED
  BY <1>1, <1>2, <1>3, <1>4

\* There is one last coroutine, and it broadcasts once.
LEMMA ToldOnceStep ==
  ASSUME CatchPanics, IInv, ToldOnce, Next
  PROVE  ToldOnce'
<1>0. TypeOK
  BY DEF IInv
<1>. SUFFICES ASSUME NEW u \in Thread, NEW t \in Thread
              PROVE  /\ Once(todo'[t], {[to |-> u, msg |-> Terminate]})
                     /\ \A v \in Thread : ToTell(t, u)' /\ ToTell(v, u)' => t = v
                     /\ ToTell(t, u)' => ~Terminated(u)'
  BY DEF ToldOnce, Once, Terminate
<1>1. \A v, w \in Thread : ToTell(v, w) \/ Terminated(w) => Terminating
  BY DEF ToTell, Has, Terminating
<1>2. Once(todo'[t], {[to |-> u, msg |-> Terminate]})
  <2>. DEFINE m == [to |-> u, msg |-> Terminate]
  <2>. SUFFICES Once(todo'[t], {m})
    OBVIOUS
  <2>1. Once(todo[t], {m}) /\ Terminate \in Message
    BY DEF ToldOnce, Message
  <2>2. CASE SendNext(t)
    <3>1. todo[t] # <<>> /\ todo'[t] = Tail(todo[t]) /\ todo[t] \in Seq([to : Thread, msg : Message])
      BY <1>0, <2>2, TodoTypes DEF SendNext, TypeOK
    <3>. HIDE DEF m
    <3>. QED
      BY <2>1, <3>1, TailHolds
  <2>3. CASE ~ToTell(t, u)'
    <3>1. ~Has(todo'[t], {m})
      BY <2>3 DEF ToTell, Terminate
    <3>. HIDE DEF m
    <3>. QED
      BY <3>1, AbsentOnce
  <2>4. ASSUME NEW c \in Coroutine, NEW ok \in BOOLEAN, Finish(t, c, ok) PROVE Once(todo'[t], {m})
    <3>1. todo'[t] = Broadcast(Terminate) \/ todo'[t] = <<>>
      BY <1>0, <2>4, FinishTells
    <3>2. Once(Broadcast(Terminate), {m})
      BY <2>1, BroadcastTells
    <3>. HIDE DEF m
    <3>. QED
      BY <3>1, <3>2, EmptyHolds
  <2>5. ASSUME NEW c \in Coroutine, CallShutdown(t, c), ToTell(t, u)' PROVE FALSE
    <3>1. todo'[t] = Broadcast(Shutdown)
      BY <1>0, <2>5 DEF CallShutdown, TypeOK
    <3>2. \A i \in DOMAIN Broadcast(Shutdown) : Broadcast(Shutdown)[i].msg = Shutdown
      BY DEF Broadcast
    <3>3. Shutdown # Terminate
      BY DEF Shutdown, Terminate
    <3>. QED
      BY <2>5, <3>1, <3>2, <3>3 DEF ToTell, Has
  <2>. QED
    BY <1>0, <2>1, <2>2, <2>3, <2>4, <2>5, TodoCases
<1>3. ASSUME NEW v \in Thread, ToTell(t, u)', ToTell(v, u)' PROVE t = v
  <2>1. ASSUME NEW x \in Thread, NEW y \in Thread, x # y, NEW c \in Coroutine, NEW ok \in BOOLEAN,
               Finish(x, c, ok)
        PROVE  todo'[y] = todo[y]
    BY <1>0, <2>1 DEF Finish, TypeOK
  <2>2. ASSUME NEW x \in Thread, NEW y \in Thread, x # y, ToTell(x, u)', ToTell(y, u)',
               ~ToTell(x, u)
        PROVE  FALSE
    <3>1. ~Terminating /\ \E c \in Coroutine, ok \in BOOLEAN : Finish(x, c, ok)
      BY <2>2, ToTellStep
    <3>2. todo'[y] = todo[y]
      BY <2>1, <2>2, <3>1
    <3>3. ToTell(y, u)
      BY <2>2, <3>2 DEF ToTell
    <3>. QED
      BY <1>1, <3>1, <3>3
  <2>. QED
    BY <1>3, <2>2 DEF ToldOnce
<1>4. ASSUME ToTell(t, u)', Terminated(u)' PROVE FALSE
  <2>1. ToTell(t, u) \/ ~Terminating
    BY <1>4, ToTellStep
  <2>2. ~Terminated(u)
    BY <1>1, <2>1 DEF ToldOnce
  <2>3. PICK v \in Thread : SendNext(v) /\ Head(todo[v]) = [to |-> u, msg |-> Terminate]
    BY <1>0, <1>4, <2>2, TerminatedStep
  <2>. DEFINE m == [to |-> u, msg |-> Terminate]
  <2>4. /\ todo[v] # <<>> /\ todo'[v] = Tail(todo[v]) /\ todo[v] \in Seq([to : Thread, msg : Message])
        /\ \A w \in Thread : w # v => todo'[w] = todo[w]
    BY <1>0, <2>3, TodoTypes DEF SendNext, TypeOK
  <2>5. Once(todo[v], {m}) /\ Head(todo[v]) = m
    BY <2>3 DEF ToldOnce
  <2>. HIDE DEF m
  <2>6. Has(todo[v], {m}) /\ ~Has(todo'[v], {m})
    BY <2>4, <2>5, TailHolds
  <2>7. ToTell(v, u) /\ ~ToTell(v, u)'
    BY <2>6 DEF ToTell, Terminate, m
  <2>8. t # v /\ ToTell(t, u)
    BY <1>4, <2>4, <2>7 DEF ToTell
  <2>. QED
    BY <2>7, <2>8 DEF ToldOnce
<1>. QED
  BY <1>2, <1>3, <1>4

\* Who runs and is not being killed has no token on an exit channel.
LEMMA RunnerNoToken ==
  ASSUME TypeOK, RefersToBorn, Placed, TokensParked, NEW t \in Thread, NEW b \in Coroutine,
         cur[t] = b, state[b] # "Finished", b \notin killed, NEW d \in Coroutine, token[d] # None
  PROVE  token[d].co # b
<1>1. state[b] \in {"Ready", "Blocked"} /\ PlacedAt(b)
  BY CurrentLives DEF Live, TypeOK, Placed
<1>2. state[b] = "Ready"
  BY <1>1, RunsAlone
<1>. QED
  BY <1>2 DEF TokensParked

\* A token stays right if its coroutine stays as it is, or is killed.
LEMMA TokensKept ==
  ASSUME TokensParked, killed \subseteq killed',
         \A d \in Coroutine : token'[d] # None =>
           /\ token'[d] = token[d]
           /\ \/ token[d].co \in killed'
              \/ state'[token[d].co] = state[token[d].co] /\ waits'[token[d].co] = waits[token[d].co]
  PROVE  TokensParked'
<1>. SUFFICES ASSUME NEW d \in Coroutine, token'[d] # None, token[d].co \notin killed'
              PROVE  state'[token[d].co] = "Blocked" /\ waits'[token[d].co] = d
  BY DEF TokensParked
<1>. QED
  BY DEF TokensParked

\* Every step keeps the tokens right: deregister_all takes back the token of whoever
\* wakes up, and a kill leaves it.
LEMMA TokensParkedStep ==
  ASSUME IInv, Placed, TokensParked, Next
  PROVE  TokensParked'
<1>0. TypeOK /\ RefersToBorn /\ Starting /\ killed \subseteq killed'
  BY Grows DEF IInv
<1>1. \A d \in Coroutine : token[d] # None => token[d].co \in Coroutine /\ state[token[d].co] # "unborn"
  BY <1>0 DEF RefersToBorn, RefersTo, Born
<1>2. CASE UNCHANGED <<token, state, waits>>
  BY <1>0, <1>2, TokensKept
<1>3. ASSUME NEW b \in Coroutine, NEW s, state' = [state EXCEPT ![b] = s],
             UNCHANGED <<token, waits>>,
             \A d \in Coroutine : token[d] # None => token[d].co # b \/ b \in killed
      PROVE  TokensParked'
  <2>1. \A d \in Coroutine : token[d] # None =>
          token[d].co \in killed' \/ state'[token[d].co] = state[token[d].co]
    BY <1>0, <1>1, <1>3 DEF TypeOK
  <2>. QED
    BY <1>0, <1>3, <2>1, TokensKept
<1>4. ASSUME NEW t \in Thread, NEW c \in Coroutine, NEW b \in Coroutine, Spawn(t, c, b) PROVE TokensParked'
  <2>1. state[b] = "unborn" /\ state' = [state EXCEPT ![b] = "Ready"] /\ UNCHANGED <<token, waits>>
    BY <1>4 DEF Spawn
  <2>. QED
    BY <1>1, <1>3, <2>1
<1>5. CASE StartMain
  <2>1. /\ phase[0] = "waiting" /\ state' = [state EXCEPT ![Main] = "Ready"]
        /\ UNCHANGED <<token, waits>> /\ Main \in Coroutine
    BY <1>5, CoroutineAssumption DEF StartMain
  <2>2. state[Main] = "unborn"
    BY <1>0, <2>1 DEF Starting, Born
  <2>. QED
    BY <1>1, <1>3, <2>1, <2>2
<1>6. ASSUME NEW t \in Thread, NEW b \in Coroutine, NEW d \in Coroutine, Join(t, b, d) PROVE TokensParked'
  <2>1. /\ cur[t] = b /\ state[b] # "Finished" /\ b \notin killed
        /\ waits' = [waits EXCEPT ![b] = d] /\ token' = [token EXCEPT ![d] = [co |-> b, thread |-> t]]
        /\ state' = [state EXCEPT ![b] = "Blocked"]
    BY <1>6 DEF Join, Running
  <2>. SUFFICES ASSUME NEW e \in Coroutine, token'[e] # None, token'[e].co \notin killed'
                PROVE  state'[token'[e].co] = "Blocked" /\ waits'[token'[e].co] = e
    BY DEF TokensParked
  <2>2. CASE e = d
    BY <1>0, <2>1, <2>2 DEF TypeOK
  <2>3. CASE e # d
    <3>1. token'[e] = token[e] /\ token[e] # None /\ token[e].co \notin killed
      BY <1>0, <2>1, <2>3 DEF TypeOK
    <3>2. token[e].co # b
      BY <1>0, <2>1, <3>1, RunnerNoToken
    <3>. QED
      BY <1>0, <1>1, <2>1, <3>1, <3>2 DEF TypeOK, TokensParked
  <2>. QED
    BY <2>2, <2>3
<1>7. ASSUME NEW t \in Thread, NEW b \in Coroutine, Block(t, b) PROVE TokensParked'
  <2>1. /\ cur[t] = b /\ state[b] # "Finished" /\ b \notin killed /\ UNCHANGED <<token, waits>>
        /\ state' = state \/ state' = [state EXCEPT ![b] = "Blocked"]
    BY <1>7 DEF Block, Free, Running
  <2>. QED
    BY <1>0, <1>2, <1>3, <2>1, RunnerNoToken
<1>8. ASSUME NEW t \in Thread, NEW b \in Coroutine, JoinReturn(t, b) PROVE TokensParked'
  <2>1. /\ cur[t] = b /\ state[b] # "Finished" /\ b \notin killed /\ UNCHANGED <<token, state>>
        /\ waits' = [waits EXCEPT ![b] = None]
    BY <1>8 DEF JoinReturn, Running
  <2>2. \A d \in Coroutine : token[d] # None => waits'[token[d].co] = waits[token[d].co]
    BY <1>0, <1>1, <2>1, RunnerNoToken DEF TypeOK
  <2>. QED
    BY <1>0, <2>1, <2>2, TokensKept
<1>9. ASSUME NEW t \in Thread, NEW b \in Coroutine, NEW ok \in BOOLEAN, Finish(t, b, ok) PROVE TokensParked'
  <2>1. /\ cur[t] = b /\ state[b] # "Finished" /\ UNCHANGED <<token, waits>>
        /\ state' = [state EXCEPT ![b] = "Finished"]
    BY <1>9 DEF Finish, ShutdownPanics, Free, Running
  <2>2. \A d \in Coroutine : token[d] # None => token[d].co # b \/ b \in killed
    BY <1>0, <2>1, RunnerNoToken
  <2>. QED
    BY <1>3, <2>1, <2>2
<1>10. ASSUME NEW b \in Coroutine, state[b] = "Blocked", Unblock(b), waits' = waits PROVE TokensParked'
  <2>1. \A d \in Coroutine : token'[d] # None => token'[d] = token[d] /\ d # waits[b]
    BY <1>0, <1>10, CoroutineAssumption DEF Unblock, TypeOK
  <2>2. ASSUME NEW d \in Coroutine, token'[d] # None
        PROVE  token[d].co \in killed' \/ state'[token[d].co] = state[token[d].co]
    <3>1. token[d].co = b => b \in killed
      BY <2>1, <2>2 DEF TokensParked
    <3>. QED
      BY <1>0, <1>1, <1>10, <2>1, <2>2, <3>1 DEF Unblock, TypeOK
  <2>. QED
    BY <1>0, <1>10, <2>1, <2>2, TokensKept
<1>11. ASSUME NEW t \in Thread, OnChannelMsg(t) PROVE TokensParked'
  <2>1. inbox \in [Thread -> Seq(MessageOf(Coroutine))] /\ Receives(t, "ChannelMsg") /\ waits' = waits
    BY <1>0, <1>11, TypeParts DEF OnChannelMsg, RefersTo
  <2>2. Head(inbox[t]).co \in Coroutine
    BY <2>1, ReceivesFacts
  <2>3. CASE Wakes(t, Head(inbox[t]).co)
    BY <1>10, <1>11, <2>1, <2>2, <2>3 DEF OnChannelMsg, Wakes
  <2>4. CASE ~Wakes(t, Head(inbox[t]).co)
    BY <1>2, <1>11, <2>4 DEF OnChannelMsg
  <2>. QED
    BY <2>3, <2>4
<1>12. ASSUME NEW t \in Thread, NEW b \in Coroutine, Event(t, b) PROVE TokensParked'
  BY <1>10, <1>12 DEF Event
<1>13. ASSUME NEW t \in Thread, NEW b \in Coroutine,
              Yield(t, b) \/ CallShutdown(t, b) \/ ExitSend(t, b) \/ KillNext(t, b)
       PROVE  UNCHANGED <<token, state, waits>>
  BY <1>13 DEF Yield, CallShutdown, ExitSend, KillNext
<1>14. ASSUME NEW t \in Thread,
              \/ SpawnThread(t) \/ StartOther(t) \/ Deliver(t) \/ SendNext(t) \/ KillDone(t) \/ Exit(t)
              \/ Unwind(t) \/ TickResume(t) \/ TickDone(t) \/ Tick(t)
       PROVE  UNCHANGED <<token, state, waits>>
  BY <1>14 DEF SpawnThread, StartOther, Deliver, SpawnedResume, SpawnedMigrate, ReadyDelay,
               ReadyResume, Delivered, SendNext, KillDone, Exit, Unwind, TickResume, TickDone, Tick,
               coVars
<1>15. ASSUME NEW t \in Thread,
              OnMigration(t) \/ OnShutdown(t) \/ OnTerminate(t) \/ OnPropagatePanic(t)
       PROVE  UNCHANGED <<token, state, waits>>
  BY <1>15 DEF OnMigration, OnShutdown, OnTerminate, OnPropagatePanic, coVars
<1>16. CASE UNCHANGED vars
  BY <1>2, <1>16 DEF vars, coVars
<1>17. ASSUME NEW t \in Thread, Run(t) PROVE TokensParked'
  BY <1>2, <1>4, <1>6, <1>7, <1>8, <1>9, <1>13, <1>17 DEF Run
<1>18. ASSUME NEW t \in Thread, Notify(t) PROVE TokensParked'
  BY <1>2, <1>11, <1>15, <1>18 DEF Notify
<1>. QED
  BY <1>2, <1>5, <1>12, <1>13, <1>14, <1>16, <1>17, <1>18, NextActing DEF Acting, Step

\* How an event loop or the process ends.
LEMMA ClosedCases ==
  ASSUME TypeOK, Next, NEW u \in Thread, phase'[u] \in {"exited", "aborted"}, phase'[u] # phase[u]
  PROVE  \/ phase'[u] = "exited" /\ Exit(u)
         \/ /\ phase'[u] = "aborted"
            /\ \/ SpawnedMigrate(u)
               \/ SendNext(u) /\ Closed(Head(todo[u]).to)
               \/ \E c \in Coroutine : ExitSend(u, c) /\ token[c] # None
<1>1. CASE UNCHANGED vars
  BY <1>1 DEF vars, threadVars
<1>2. ASSUME NEW t \in Thread, t # u, Acting(t) PROVE phase'[u] = phase[u]
  BY <1>2, ActingLocal DEF Untouched
<1>3. ASSUME NEW c \in Coroutine, ExitSend(u, c) PROVE phase'[u] = "aborted" /\ token[c] # None
  <2>1. phase' = phase \/ phase' = [phase EXCEPT ![u] = "aborted"]
                       \/ phase' = [phase EXCEPT ![u] = phase[u]]
    BY <1>3 DEF ExitSend, NotifyJoiner, SendTo
  <2>2. token[c] = None => phase' = phase
    BY <1>3 DEF ExitSend, NotifyJoiner
  <2>. QED
    BY <2>1, <2>2 DEF TypeOK
<1>4. ASSUME NEW c \in Coroutine,
             \/ \E d \in Coroutine : Spawn(u, c, d) \/ Join(u, c, d)
             \/ Yield(u, c) \/ Block(u, c) \/ JoinReturn(u, c) \/ CallShutdown(u, c)
             \/ \E ok \in BOOLEAN : Finish(u, c, ok)
      PROVE  FALSE
  <2>1. phase' = phase
    BY <1>4 DEF Spawn, Join, Yield, Block, JoinReturn, CallShutdown, Finish, threadVars
  <2>. QED
    BY <2>1
<1>5. CASE SendNext(u)
  <2>1. SendTo(u, Head(todo[u]).to, Head(todo[u]).msg, phase[u])
    BY <1>5 DEF SendNext
  <2>. QED
    BY <1>5, <2>1 DEF SendTo, TypeOK
<1>6. CASE SpawnedMigrate(u)
  <2>1. \/ phase' = [phase EXCEPT ![u] = "ready"]
        \/ phase' = [phase EXCEPT ![u] = "unwind"]
        \/ phase' = [phase EXCEPT ![u] = "aborted"]
    BY <1>6 DEF SpawnedMigrate, SendTo
  <2>. QED
    BY <1>6, <2>1 DEF TypeOK
<1>7. CASE Exit(u)
  BY <1>7 DEF Exit, TypeOK
<1>8. ~SpawnThread(u) /\ ~(u = 0 /\ StartMain) /\ ~StartOther(u)
  BY DEF SpawnThread, StartMain, StartOther, TypeOK
<1>9. ~SpawnedResume(u) /\ ~ReadyDelay(u) /\ ~ReadyResume(u) /\ ~Delivered(u)
  BY DEF SpawnedResume, ReadyDelay, ReadyResume, Delivered, JumpIn, TypeOK
<1>10. ~(\E c \in Coroutine : KillNext(u, c)) /\ ~KillDone(u) /\ ~TickResume(u) /\ ~TickDone(u)
       /\ ~Tick(u)
  BY DEF KillNext, KillDone, TickResume, TickDone, Tick, JumpIn, TypeOK
<1>11. ~Unwind(u) /\ ~(\E c \in Coroutine : Event(u, c))
  BY DEF Unwind, Event, JumpIn, TypeOK, At
<1>12. ~OnMigration(u) /\ ~OnShutdown(u) /\ ~OnPropagatePanic(u) /\ ~OnTerminate(u)
  BY DEF OnMigration, OnShutdown, OnPropagatePanic, OnTerminate, JumpIn, TypeOK
<1>13. ~OnChannelMsg(u)
  <2>1. OnChannelMsg(u) => phase' = phase \/ phase' = [phase EXCEPT ![u] = "spawned"]
    BY DEF OnChannelMsg, JumpIn
  <2>. QED
    BY <2>1 DEF TypeOK
<1>. QED
  BY <1>1, <1>2, <1>3, <1>4, <1>5, <1>6, <1>7, <1>8, <1>9, <1>10, <1>11, <1>12, <1>13,
     NextActing DEF Acting, Step, Deliver, Notify, Run

\* The inductive step for AbortsForKilledJoiner: a migration meets an event loop that
\* is there as its coroutine is alive, a Terminate one that has not been told, and a
\* parked joiner keeps the count above zero.
LEMMA AbortsStep ==
  ASSUME CatchPanics, Starts = 0, IInv, IInv', Placed, HInv, Broadcasts, ShutdownSenders, ToldOnce,
         TokensParked, AbortsForKilledJoiner, Next
  PROVE  AbortsForKilledJoiner'
<1>0. TypeOK /\ RefersToBorn /\ NoPanics /\ Counted'
  BY DEF IInv
<1>. SUFFICES ASSUME NEW t \in Thread, phase'[t] = "aborted"
              PROVE  \E c \in exited' : token'[c] # None /\ token'[c].co \in killed'
  BY DEF AbortsForKilledJoiner, Aborted
<1>1. CASE Aborted
  <2>1. UNCHANGED vars
    BY <1>1 DEF Next, Done
  <2>. QED
    BY <1>1, <2>1 DEF vars, coVars, AbortsForKilledJoiner
<1>2. num' = 0
  BY DEF IInv, NoPanics
<1>3. ASSUME ~Aborted, SpawnedMigrate(t) PROVE FALSE
  BY <1>0, <1>2, <1>3, MigrationSent
<1>4. ASSUME ~Aborted, SendNext(t), Closed(Head(todo[t]).to) PROVE FALSE
  <2>. DEFINE h == Head(todo[t])
  <2>1. todo[t] # <<>> /\ todo[t] \in Seq([to : Thread, msg : Message]) /\ state[cur[t]] = "Finished"
    BY <1>0, <1>4, TodoTypes DEF SendNext
  <2>2. h \in [to : Thread, msg : Message] /\ \E j \in DOMAIN todo[t] : h = todo[t][j]
    BY <2>1, Popped, QueueElements
  <2>3. h.msg \in {Shutdown, Terminate}
    BY <2>2 DEF Broadcasts
  <2>4. CASE h.msg = Shutdown
    <3>1. h \in Shutdowns
      BY <2>2, <2>4 DEF Shutdowns
    <3>2. Has(todo[t], Shutdowns)
      BY <2>2, <3>1 DEF Has
    <3>. QED
      BY <2>1, <3>2 DEF ShutdownSenders, Live
  <2>5. CASE h.msg = Terminate
    <3>1. h.to \in Thread /\ h = [to |-> h.to, msg |-> Terminate]
      BY <2>2, <2>5
    <3>2. ToTell(t, h.to)
      BY <2>2, <3>1 DEF ToTell, Has
    <3>3. ~Terminated(h.to)
      BY <3>1, <3>2 DEF ToldOnce
    <3>. QED
      BY <1>0, <1>4, <3>1, <3>3 DEF Terminated, Closed, NoPanics, Aborted
  <2>. QED
    BY <2>3, <2>4, <2>5
<1>5. ASSUME NEW c \in Coroutine, ExitSend(t, c), token[c] # None
      PROVE  \E d \in exited' : token'[d] # None /\ token'[d].co \in killed'
  <2>1. c \in exited' /\ token' = token /\ UNCHANGED <<killed, state>>
    BY <1>5 DEF ExitSend
  <2>2. token[c].co \in Coroutine
    BY <1>0, <1>5 DEF TypeOK
  <2>3. state[token[c].co] # "Blocked"
    BY <1>0, <1>2, <2>1, <2>2, CountedNext
  <2>4. token[c].co \in killed
    BY <1>5, <2>3 DEF TokensParked
  <2>. QED
    BY <1>5, <2>1, <2>4
<1>6. CASE ~Aborted
  <2>1. phase[t] # "aborted"
    BY <1>6 DEF Aborted
  <2>. QED
    BY <1>0, <1>3, <1>4, <1>5, <1>6, <2>1, ClosedCases
<1>. QED
  BY <1>1, <1>6

\* mioco_started is set with the first coroutine.
LEMMA StartedStep ==
  ASSUME Next, ~StartMain
  PROVE  started' = started
<1>1. CASE UNCHANGED vars
  BY <1>1 DEF vars, sharedVars
<1>2. ASSUME NEW t \in Thread, Run(t) PROVE started' = started
  <2>1. PICK c \in Coroutine :
          \/ (\E d \in Coroutine : Spawn(t, c, d) \/ Join(t, c, d))
          \/ Yield(t, c) \/ Block(t, c) \/ JoinReturn(t, c)
          \/ CallShutdown(t, c) \/ (\E ok \in BOOLEAN : Finish(t, c, ok)) \/ ExitSend(t, c)
    BY <1>2 DEF Run
  <2>2. ASSUME NEW d \in Coroutine, Spawn(t, c, d) \/ Join(t, c, d) PROVE started' = started
    BY <2>2 DEF Spawn, Join, sharedVars
  <2>3. CASE Yield(t, c) \/ Block(t, c) \/ JoinReturn(t, c) \/ CallShutdown(t, c)
    BY <2>3 DEF Yield, Block, JoinReturn, CallShutdown, sharedVars
  <2>4. ASSUME NEW ok \in BOOLEAN, Finish(t, c, ok) PROVE started' = started
    BY <2>4 DEF Finish
  <2>5. CASE ExitSend(t, c)
    BY <2>5 DEF ExitSend
  <2>. QED
    BY <2>1, <2>2, <2>3, <2>4, <2>5
<1>3. ASSUME NEW t \in Thread, Deliver(t) PROVE started' = started
  BY <1>3 DEF Deliver, SpawnedResume, SpawnedMigrate, ReadyDelay, ReadyResume, Delivered, sharedVars
<1>4. ASSUME NEW t \in Thread, Notify(t) \/ \E c \in Coroutine : Event(t, c) PROVE started' = started
  BY <1>4 DEF Notify, OnChannelMsg, OnMigration, OnShutdown, OnTerminate, OnPropagatePanic, Event,
              sharedVars
<1>5. ASSUME NEW t \in Thread,
             \/ SpawnThread(t) \/ StartOther(t) \/ SendNext(t)
             \/ (\E c \in Coroutine : KillNext(t, c)) \/ KillDone(t) \/ Exit(t) \/ Unwind(t)
             \/ TickResume(t) \/ TickDone(t) \/ Tick(t)
      PROVE  started' = started
  BY <1>5 DEF SpawnThread, StartOther, SendNext, KillNext, KillDone, Exit, Unwind, TickResume,
              TickDone, Tick, sharedVars
<1>. QED
  BY <1>1, <1>2, <1>3, <1>4, <1>5, NextActing DEF Acting, Step

\* With nobody left, a thread in its last round stays there until its loop ends.
LEMMA LastRound ==
  ASSUME CatchPanics, Starts = 0, IInv, Placed, HInv, ShutdownFirst, Next, num = 0,
         NEW u \in Thread, phase[u] = "last"
  PROVE  phase'[u] \in {"last", "exited", "aborted"}
<1>0. TypeOK /\ RefersToBorn /\ NoPanics /\ inbox \in [Thread -> Seq(MessageOf(Coroutine))]
  BY TypeParts DEF IInv, RefersTo
<1>1. \A c \in Coroutine : ~Live(c)
  BY ZeroMeansNobody DEF IInv
<1>2. CASE UNCHANGED vars
  BY <1>2 DEF vars, threadVars
<1>3. ASSUME NEW t \in Thread, t # u, Acting(t) PROVE phase'[u] = phase[u]
  BY <1>0, <1>3, ActingLocal DEF Untouched
<1>4. CASE Run(u)
  <2>1. PICK c \in Coroutine :
          \/ \E d \in Coroutine : Spawn(u, c, d) \/ Join(u, c, d)
          \/ Yield(u, c)
          \/ Block(u, c)
          \/ JoinReturn(u, c)
          \/ CallShutdown(u, c)
          \/ \E ok \in BOOLEAN : Finish(u, c, ok)
          \/ ExitSend(u, c)
    BY <1>4 DEF Run
  <2>2. phase' = phase \/ \E ph \in {phase[u], "aborted"} : phase' = [phase EXCEPT ![u] = ph]
    BY <2>1 DEF Spawn, Join, Yield, Block, JoinReturn, CallShutdown, Finish, ExitSend, threadVars,
                NotifyJoiner, SendTo
  <2>. QED
    BY <1>0, <2>2 DEF TypeOK
<1>5. CASE SendNext(u)
  BY <1>0, <1>5 DEF SendNext, SendTo, TypeOK
<1>6. CASE Exit(u)
  BY <1>0, <1>6 DEF Exit, TypeOK
<1>7. ~SpawnThread(u) /\ ~(u = 0 /\ StartMain) /\ ~StartOther(u) /\ ~Deliver(u)
  BY DEF SpawnThread, StartMain, StartOther, Deliver, SpawnedResume, SpawnedMigrate, SpawnedTurn,
         ReadyDelay, ReadyResume, ReadyTurn, Delivered, At
<1>8. /\ ~(\E c \in Coroutine : KillNext(u, c) \/ Event(u, c)) /\ ~KillDone(u) /\ ~TickResume(u)
      /\ ~TickDone(u) /\ ~Tick(u) /\ ~Unwind(u)
  BY DEF KillNext, Event, KillDone, TickResume, TickDone, Tick, Unwind, At
<1>9. ASSUME NEW type, Receives(u, type)
      PROVE  /\ inbox[u] # <<>> /\ Head(inbox[u]) \in MessageOf(Coroutine)
             /\ Head(inbox[u]).type = type
             /\ type \in {"Migration", "ChannelMsg"} => Head(inbox[u]).co \in Coroutine
             /\ \E i \in DOMAIN inbox[u] : inbox[u][i] = Head(inbox[u])
  <2>1. inbox[u] # <<>> /\ inbox[u] \in Seq(MessageOf(Coroutine))
    BY <1>0, <1>9 DEF Receives
  <2>2. \E i \in DOMAIN inbox[u] : inbox[u][i] = Head(inbox[u])
    BY <2>1, QueueElements
  <2>. QED
    BY <1>0, <1>9, <2>1, <2>2, ReceivesFacts
<1>10. CASE OnChannelMsg(u)
  <2>1. Head(inbox[u]).co \in Coroutine
    BY <1>9, <1>10 DEF OnChannelMsg
  <2>2. ~Wakes(u, Head(inbox[u]).co)
    BY <1>1, <2>1 DEF Wakes, Live
  <2>. QED
    BY <1>10, <2>2 DEF OnChannelMsg
<1>11. ~OnMigration(u)
  <2>. SUFFICES ASSUME OnMigration(u) PROVE FALSE
    OBVIOUS
  <2>. DEFINE c == Head(inbox[u]).co
  <2>1. c \in Coroutine /\ Head(inbox[u]).type = "Migration" /\ Head(inbox[u]) \in MessageOf(Coroutine)
        /\ \E i \in DOMAIN inbox[u] : inbox[u][i] = Head(inbox[u])
    BY <1>9 DEF OnMigration
  <2>2. Head(inbox[u]) = Migration(c)
    BY <2>1 DEF MessageOf, Migration, Shutdown, Terminate, PropagatePanic
  <2>3. Holds("inbox", u, c)
    BY <2>1, <2>2 DEF Holds, Has, MigrationsOf
  <2>. HIDE DEF c
  <2>4. Live(c)
    BY <1>0, <2>1, <2>3, HeldLives
  <2>. QED
    BY <1>1, <2>1, <2>4
<1>12. ~OnShutdown(u)
  <2>. SUFFICES ASSUME OnShutdown(u) PROVE FALSE
    OBVIOUS
  <2>1. /\ Head(inbox[u]).type = "Shutdown" /\ Head(inbox[u]) \in MessageOf(Coroutine)
        /\ \E i \in DOMAIN inbox[u] : inbox[u][i] = Head(inbox[u])
    BY <1>9 DEF OnShutdown
  <2>2. Head(inbox[u]) = Shutdown
    BY <2>1 DEF MessageOf, Shutdown, Terminate, PropagatePanic
  <2>3. Has(inbox[u], {Shutdown})
    BY <2>1, <2>2 DEF Has
  <2>. QED
    BY <2>3 DEF ShutdownFirst
<1>13. ~OnPropagatePanic(u)
  <2>. SUFFICES ASSUME OnPropagatePanic(u) PROVE FALSE
    OBVIOUS
  <2>1. /\ Head(inbox[u]).type = "PropagatePanic" /\ Head(inbox[u]) \in MessageOf(Coroutine)
        /\ \E i \in DOMAIN inbox[u] : inbox[u][i] = Head(inbox[u])
    BY <1>9 DEF OnPropagatePanic
  <2>2. Head(inbox[u]) = PropagatePanic
    BY <2>1 DEF MessageOf, Shutdown, Terminate, PropagatePanic
  <2>. QED
    BY <1>0, <2>1, <2>2 DEF NoPanics
<1>14. CASE OnTerminate(u)
  BY <1>0, <1>14 DEF OnTerminate, TypeOK
<1>. QED
  BY <1>2, <1>3, <1>4, <1>5, <1>6, <1>7, <1>8, <1>10, <1>11, <1>12, <1>13, <1>14, NextActing
     DEF Acting, Step, Notify

\* ... so that a thread that has been told stays told.
LEMMA TerminatedStays ==
  ASSUME CatchPanics, Starts = 0, IInv, Placed, HInv, ShutdownFirst, Next, num = 0,
         NEW u \in Thread, Terminated(u), phase'[u] # "aborted"
  PROVE  Terminated(u)'
<1>0. TypeOK /\ Starting /\ inbox[u] \in Seq(Message)
  BY DEF IInv, TypeOK
<1>1. CASE phase[u] = "last"
  BY <1>1, LastRound DEF Terminated
<1>2. CASE phase[u] = "exited"
  BY <1>0, <1>2, NextPhase, PhaseFacts DEF Closed, Terminated
<1>3. CASE Has(inbox[u], {Terminate})
  <2>1. Has(inbox'[u], {Terminate}) => Terminated(u)'
    BY DEF Has, Terminated, Terminate
  <2>2. ASSUME NEW m \in Message, inbox'[u] = Append(inbox[u], m) PROVE Has(inbox'[u], {Terminate})
    BY <1>0, <1>3, <2>2, AppendHolds
  <2>3. ASSUME NEW t \in Thread, SendNext(t), inbox'[u] = Append(inbox[u], Head(todo[t]).msg)
        PROVE  Has(inbox'[u], {Terminate})
    <3>1. Head(todo[t]) \in [to : Thread, msg : Message]
      BY <1>0, <2>3, TodoTypes, Popped DEF SendNext
    <3>. QED
      BY <2>2, <2>3, <3>1
  <2>4. Personal \subseteq Message
    BY DEF Personal, Message
  <2>5. ASSUME Notify(u), inbox[u] # <<>>, inbox'[u] = Tail(inbox[u]) PROVE Terminated(u)'
    <3>1. CASE Head(inbox[u]) = Terminate
      <4>1. Head(inbox[u]).type = "Terminate"
        BY <3>1 DEF Terminate
      <4>2. OnTerminate(u)
        BY <2>5, <4>1 DEF Notify, OnChannelMsg, OnMigration, OnShutdown, OnPropagatePanic, Receives
      <4>. QED
        BY <1>0, <4>2 DEF OnTerminate, TypeOK, Terminated
    <3>2. CASE Head(inbox[u]) # Terminate
      BY <1>0, <1>3, <2>1, <2>5, <3>2, TailHolds
    <3>. QED
      BY <3>1, <3>2
  <2>. QED
    BY <1>0, <1>3, <2>1, <2>2, <2>3, <2>4, <2>5, InboxCases
<1>. QED
  BY <1>1, <1>2, <1>3 DEF Terminated, Has

\* The inductive step for EveryoneTold.
LEMMA EveryoneToldStep ==
  ASSUME CatchPanics, Starts = 0, IInv, IInv', Placed, HInv, SendersRun, ShutdownFirst,
         EveryoneTold, Next
  PROVE  EveryoneTold'
<1>. SUFFICES ASSUME started', num' = 0, ~Aborted', NEW u \in Thread
              PROVE  Terminated(u)' \/ \E t \in Thread : ~Closed(t)' /\ ToTell(t, u)'
  BY DEF EveryoneTold, ToTell, Has, Terminate
<1>0. TypeOK /\ RefersToBorn /\ Starting /\ num \in Nat
  BY DEF IInv, TypeOK
<1>1. ~Aborted /\ \A t \in Thread : phase'[t] # "aborted"
  BY <1>0, NextPhase, PhaseFacts DEF Aborted, Closed
<1>2. CASE Birth
  BY <1>0, <1>2 DEF Birth
<1>3. CASE End
  <2>1. PICK c \in Coroutine, t \in Thread, ok \in BOOLEAN : Finish(t, c, ok)
    BY <1>3 DEF End
  <2>2. LastOne /\ ~Closed(t) /\ phase' = phase
    BY <1>0, <2>1 DEF Finish, LastOne, ShutdownPanics, Free, Running
  <2>3. todo'[t] = Broadcast(Terminate)
    BY <1>0, <2>1, <2>2, FinishTells
  <2>4. Has(todo'[t], {[to |-> u, msg |-> Terminate]})
    BY <2>3, BroadcastTells DEF Message
  <2>5. ToTell(t, u)' /\ ~Closed(t)'
    BY <2>2, <2>4 DEF ToTell, Terminate, Closed
  <2>. QED
    BY <2>5
<1>4. CASE NoChange
  <2>1. num = 0 /\ ~StartMain
    BY <1>0, <1>4 DEF NoChange, StartMain
  <2>2. started
    BY <2>1, StartedStep
  <2>3. CASE Terminated(u)
    BY <1>1, <2>1, <2>3, TerminatedStays
  <2>4. ASSUME NEW t \in Thread, ~Closed(t), ToTell(t, u) PROVE Terminated(u)' \/ (~Closed(t)' /\ ToTell(t, u)')
    <3>. DEFINE m == [to |-> u, msg |-> Terminate]
    <3>1. Has(todo[t], {m}) /\ (Has(todo'[t], {m}) => ToTell(t, u)')
      BY <2>4 DEF ToTell, Terminate
    <3>2. todo[t] # <<>>
      <4>. HIDE DEF m
      <4>. QED
        BY <3>1, EmptyHolds
    <3>3. ~Closed(t)'
      <4>1. phase'[t] # "exited"
        <5>. SUFFICES ASSUME phase'[t] = "exited" PROVE FALSE
          OBVIOUS
        <5>1. Exit(t)
          BY <1>0, <2>4, ClosedCases DEF Closed
        <5>. QED
          BY <3>2, <5>1 DEF Exit, At, SendersRun
      <4>2. phase'[t] # "panicked"
        BY DEF IInv, NoPanics
      <4>. QED
        BY <1>1, <4>1, <4>2 DEF Closed
    <3>4. CASE todo'[t] = todo[t]
      BY <3>1, <3>3, <3>4
    <3>5. ASSUME NEW c \in Coroutine, CallShutdown(t, c) PROVE FALSE
      BY <3>2, <3>5 DEF CallShutdown, Free, Running
    <3>6. ASSUME NEW c \in Coroutine, NEW ok \in BOOLEAN, Finish(t, c, ok) PROVE FALSE
      BY <1>0, <1>4, <3>6 DEF Finish, NoChange
    <3>7. CASE SendNext(t)
      <4>1. /\ todo'[t] = Tail(todo[t]) /\ todo[t] \in Seq([to : Thread, msg : Message])
            /\ SendTo(t, Head(todo[t]).to, Head(todo[t]).msg, phase[t])
        BY <1>0, <3>7, TodoTypes DEF SendNext, TypeOK
      <4>2. CASE Head(todo[t]) = m
        <5>1. SendTo(t, u, Terminate, phase[t])
          BY <4>1, <4>2
        <5>2. inbox'[u] = Append(inbox[u], Terminate)
          BY <1>0, <1>1, <5>1 DEF SendTo, TypeOK
        <5>3. inbox[u] \in Seq(Message) /\ Terminate \in Message
          BY <1>0 DEF TypeOK, Message
        <5>4. Has(inbox'[u], {Terminate})
          BY <5>2, <5>3, AppendHolds
        <5>. QED
          BY <5>4 DEF Terminated, Has, Terminate
      <4>3. CASE Head(todo[t]) # m
        <5>1. Has(todo'[t], {m})
          <6>. HIDE DEF m
          <6>. QED
            BY <3>1, <3>2, <4>1, <4>3, TailHolds
        <5>. QED
          BY <3>1, <3>3, <5>1
      <4>. QED
        BY <4>2, <4>3
    <3>. QED
      BY <1>0, <3>4, <3>5, <3>6, <3>7, TodoCases
  <2>5. Terminated(u) \/ \E t \in Thread : ~Closed(t) /\ ToTell(t, u)
    BY <1>1, <2>1, <2>2 DEF EveryoneTold, ToTell, Has
  <2>. QED
    BY <2>3, <2>4, <2>5
<1>. QED
  BY <1>0, <1>2, <1>3, <1>4, NextChanges

\* Nothing has been sent at first.
LEMMA InitEnd == Init => EndInv
<1>. SUFFICES ASSUME Init PROVE EndInv
  OBVIOUS
<1>1. /\ todo = [t \in Thread |-> <<>>] /\ inbox = [t \in Thread |-> <<>>]
      /\ token = [c \in Coroutine |-> None] /\ started = FALSE
      /\ phase = [t \in Thread |-> IF t = 0 THEN "waiting" ELSE "new"]
  BY DEF Init
<1>2. \A t \in Thread : phase[t] \in {"waiting", "new"}
  BY <1>1
<1>3. \A t \in Thread : todo[t] = <<>> /\ inbox[t] = <<>> /\ DOMAIN todo[t] = {} /\ DOMAIN inbox[t] = {}
  BY <1>1
<1>4. SendersRun /\ Broadcasts /\ ShutdownSenders
  BY <1>3 DEF SendersRun, Broadcasts, ShutdownSenders, Has
<1>5. ShutdownFirst /\ ToldOnce
  BY <1>2, <1>3 DEF ShutdownFirst, ToldOnce, ToTell, Behind, Has, Once
<1>6. TokensParked /\ EveryoneTold /\ AbortsForKilledJoiner
  BY <1>1, <1>2 DEF TokensParked, EveryoneTold, AbortsForKilledJoiner, Aborted
<1>. QED
  BY <1>4, <1>5, <1>6 DEF EndInv

\* The invariant that the two theorems below are parts of.
LEMMA EndHolds ==
  ASSUME CatchPanics, Starts = 0
  PROVE  Spec => []EndInv
<1>1. IInv /\ IInv' /\ Kept /\ EndInv /\ [Next]_vars => EndInv'
  <2>. SUFFICES ASSUME IInv, IInv', Kept, EndInv, [Next]_vars PROVE EndInv'
    OBVIOUS
  <2>1. CASE UNCHANGED vars
    <3>1. /\ UNCHANGED <<state, killed, waits, token, exited>>
          /\ UNCHANGED <<phase, cur, inbox, todo, num, started>>
      BY <2>1 DEF vars, coVars, threadVars, sharedVars
    <3>2. (SendersRun /\ Broadcasts /\ ShutdownSenders)'
      BY <3>1 DEF EndInv, SendersRun, Broadcasts, ShutdownSenders, Has, Live
    <3>3. (ShutdownFirst /\ ToldOnce)'
      BY <3>1 DEF EndInv, ShutdownFirst, ToldOnce, ToTell, Has, Once, Behind, Terminated
    <3>4. (TokensParked /\ EveryoneTold /\ AbortsForKilledJoiner)'
      BY <3>1 DEF EndInv, TokensParked, EveryoneTold, AbortsForKilledJoiner, Aborted, Closed,
                  Terminated
    <3>. QED
      BY <3>2, <3>3, <3>4 DEF EndInv
  <2>2. CASE Next
    <3>1. TypeOK /\ Placed /\ HInv /\ CurOnce
      BY DEF IInv, Kept, HInv
    <3>2. SendersRun' /\ Broadcasts' /\ ShutdownSenders' /\ ShutdownFirst'
      BY <2>2, <3>1, SendersStep, BroadcastsStep, ShutdownSendersStep, ShutdownFirstStep DEF EndInv
    <3>3. ToldOnce' /\ TokensParked'
      BY <2>2, <3>1, ToldOnceStep, TokensParkedStep DEF EndInv
    <3>4. EveryoneTold' /\ AbortsForKilledJoiner'
      BY <2>2, <3>1, EveryoneToldStep, AbortsStep DEF EndInv
    <3>. QED
      BY <3>2, <3>3, <3>4 DEF EndInv
  <2>. QED
    BY <2>1, <2>2
<1>. QED
  BY <1>1, InitEnd, InvariantHolds, KeptHolds, PTL DEF Spec

\* The safety half of LastOneEnds, for any number of threads: broadcast_terminate
\* leaves out no thread, also one that has not started yet, is shutting down or is
\* itself broadcasting.
THEOREM EveryThreadIsTold ==
  ASSUME CatchPanics, Starts = 0
  PROVE  Spec => []EveryoneTold
<1>1. EndInv => EveryoneTold
  BY DEF EndInv
<1>. QED
  BY <1>1, EndHolds, PTL

\* sender_retry meets a closed event loop in one case only, whatever the number of
\* threads and coroutines: for a joiner that was killed with its token in place.
THEOREM AbortsOnlyForKilledJoiners ==
  ASSUME CatchPanics, Starts = 0
  PROVE  Spec => []AbortsForKilledJoiner
<1>1. EndInv => AbortsForKilledJoiner
  BY DEF EndInv
<1>. QED
  BY <1>1, EndHolds, PTL

=============================================================================
