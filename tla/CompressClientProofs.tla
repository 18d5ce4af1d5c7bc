------------------------ MODULE CompressClientProofs ------------------------
(* Proofs about the client of the end-to-end test, for any number of       *)
(* clients and any number of places in their queues, with one request at a *)
(* time (the concurrency of the repository's config file).                 *)
(*                                                                         *)
(* The argument: a client has one request, which is at any time in exactly *)
(* one place.  The leader still has to push it, or is pushing it, or it is *)
(* in the queue, with eRPC, in the callback, or in the client's own push.  *)
(* So there is never more than one producer at the queue, which is built   *)
(* for one, and nothing that is pushed gets lost.                          *)
EXTENDS CompressClient, FifoLemmas, FiniteSetTheorems

Types   == {"ping", "app1"}
Places  == 0..(PLACES - 1)
Ids     == 0..(ID_MOD - 1)
Msgs    == [type: Types, id: Nat]
Threads == Clients \cup {Leader}

LeaderType == [pc: {"ping", "next", "write", "done"}, left: SUBSET Clients, tmp: Nat, id: Nat]
PlaceType  == [stored: BOOLEAN, msg: Msgs]
QueueType  == [head: Ids, tail: Ids, place: [Places -> PlaceType]]
PushType   == [at: {"none", "load", "store", "wait", "fill"}, q: Threads, msg: Msgs, head: Ids]
ClientType == [pc: {"size", "pop", "events", "write", "again", "stopped"}, n: Nat, id: Nat]
SentType   == [type: Types, id: Nat, answered: BOOLEAN]

TypeOK ==
  /\ leader \in LeaderType
  /\ req_id_ \in [Clients -> Nat]
  /\ queue \in [Clients -> QueueType]
  /\ push \in [Threads -> PushType]
  /\ client \in [Clients -> ClientType]
  /\ inflight \in [Clients -> Seq(SentType)]

-----------------------------------------------------------------------------
(* Where a message of client c can be.  ld is the state of the leader, lp  *)
(* the leader's push and op the client's own, q the client's queue, cl its *)
(* thread and fl what eRPC has of it.                                      *)

ToCome(c, ld) == ld.pc = "ping" \/ (ld.pc \in {"next", "write"} /\ c \in ld.left)
PingToCome(c, ld) == ld.pc = "ping" /\ c \in ld.left
Pushing(c, p) == p.at # "none" /\ p.q = c
PushingType(c, p, type) == Pushing(c, p) /\ p.msg.type = type
Holds(q, type) == {i \in Places : q.place[i].stored /\ q.place[i].msg.type = type}
Flying(fl) == {j \in 1..Len(fl) : fl[j].type = "app1"}
InCallback(cl) == cl.pc \in {"write", "again"}

Single(S) == \E x \in S : S = {x}

(* In exactly one of six places.                                           *)
ExactlyOne(l, p, Q, F, k, o) ==
  \/ l /\ ~p /\ Q = {} /\ F = {} /\ ~k /\ ~o
  \/ ~l /\ p /\ Q = {} /\ F = {} /\ ~k /\ ~o
  \/ ~l /\ ~p /\ Single(Q) /\ F = {} /\ ~k /\ ~o
  \/ ~l /\ ~p /\ Q = {} /\ Single(F) /\ ~k /\ ~o
  \/ ~l /\ ~p /\ Q = {} /\ F = {} /\ k /\ ~o
  \/ ~l /\ ~p /\ Q = {} /\ F = {} /\ ~k /\ o

(* In at most one of three places.                                         *)
AtMostOne(l, p, Q) ==
  \/ ~p /\ Q = {}
  \/ ~l /\ Q = {}
  \/ ~l /\ ~p /\ Single(Q)

TokenOK(c, ld, lp, op, q, cl, fl) ==
  ExactlyOne(ToCome(c, ld), PushingType(c, lp, "app1"), Holds(q, "app1"), Flying(fl),
             InCallback(cl), op.at # "none")
PingOK(c, ld, lp, q) == AtMostOne(PingToCome(c, ld), PushingType(c, lp, "ping"), Holds(q, "ping"))

(* What a push in progress knows of head_.                                 *)
HeadOK(c, p, q) ==
  Pushing(c, p) => /\ p.at = "store" => p.head = q.head
                   /\ p.at \in {"wait", "fill"} => (p.head + 1) % ID_MOD = q.head

(* The queue: head_ is at most two ahead of tail_, and the places between  *)
(* them are the filled ones, but for the one a push has yet to fill.       *)
Size(q) == (q.head - q.tail) % ID_MOD
First(q) == q.tail % PLACES
Second(q) == (q.tail + 1) % PLACES
StoredAt(q) == {i \in Places : q.place[i].stored}
Claimed(c, p) == p.q = c /\ p.at \in {"wait", "fill"}

ShapeOK(n, a, b, S, claimed) ==
  \/ n = 0 /\ S = {} /\ ~claimed
  \/ n = 1 /\ S = {a} /\ ~claimed
  \/ n = 1 /\ S = {} /\ claimed
  \/ n = 2 /\ S = {a, b} /\ ~claimed
  \/ n = 2 /\ S = {a} /\ claimed

QueueOK(c, lp, op, q) ==
  ShapeOK(Size(q), First(q), Second(q), StoredAt(q), Claimed(c, lp) \/ Claimed(c, op))

OwnOK(c, op) == op.at # "none" => op.q = c /\ op.msg.type = "app1"

ClientOK(c, ld, lp, op, q, cl, fl) ==
  /\ OwnOK(c, op)
  /\ TokenOK(c, ld, lp, op, q, cl, fl)
  /\ PingOK(c, ld, lp, q)
  /\ HeadOK(c, lp, q) /\ HeadOK(c, op, q)
  /\ QueueOK(c, lp, op, q)

LeaderOK(ld, lp) ==
  /\ ld.pc \in {"next", "write"} => ld.tmp = 1
  /\ lp.at # "none" => lp.q \in Clients
  /\ lp.at # "none" /\ ld.pc = "ping" => lp.msg.type = "ping"
  /\ lp.at # "none" /\ ld.pc # "ping" => lp.msg.type = "app1"

IInv ==
  /\ TypeOK
  /\ LeaderOK(leader, push[Leader])
  /\ \A c \in Clients :
       ClientOK(c, leader, push[Leader], push[c], queue[c], client[c], inflight[c])

-----------------------------------------------------------------------------
(* The ring.  M is ID_MOD, P is PLACES.                                     *)

(* The distance between two counters that wrap.                            *)
LEMMA Distance ==
  ASSUME NEW M \in Nat \ {0}, NEW h \in 0..(M - 1), NEW t \in 0..(M - 1)
  PROVE  /\ h >= t => (h - t) % M = h - t
         /\ h < t => (h - t) % M = h - t + M
<1>1. ASSUME h >= t PROVE (h - t) % M = h - t
  BY <1>1
<1>2. ASSUME h < t PROVE (h - t) % M = h - t + M
  BY <1>2
<1> QED
  BY <1>1, <1>2

LEMMA Wrap ==
  ASSUME NEW M \in Nat \ {0}, NEW x \in 0..(M - 1)
  PROVE  /\ x < M - 1 => (x + 1) % M = x + 1
         /\ x = M - 1 => (x + 1) % M = 0
         /\ (x + 1) % M \in 0..(M - 1)
<1>1. ASSUME x < M - 1 PROVE (x + 1) % M = x + 1
  BY <1>1
<1>2. ASSUME x = M - 1 PROVE (x + 1) % M = 0
  BY <1>2
<1> QED
  BY <1>1, <1>2

(* head_ counted up.                                                       *)
LEMMA Grow ==
  ASSUME NEW M \in Nat, M >= 6, NEW h \in 0..(M - 1), NEW t \in 0..(M - 1),
         (h - t) % M <= 2
  PROVE  (((h + 1) % M) - t) % M = ((h - t) % M) + 1
<1>1. M \in Nat \ {0} /\ (h + 1) % M \in 0..(M - 1)
  BY Wrap
<1> DEFINE g == (h + 1) % M
           d == (h - t) % M
           e == (g - t) % M
<1>2. /\ h < M - 1 => g = h + 1
      /\ h = M - 1 => g = 0
      /\ g \in 0..(M - 1)
  BY <1>1, Wrap
<1>3. /\ h >= t => d = h - t
      /\ h < t => d = h - t + M
  BY <1>1, Distance
<1>4. /\ g >= t => e = g - t
      /\ g < t => e = g - t + M
  BY <1>1, Distance
<1>5. d <= 2
  OBVIOUS
<1> HIDE DEF g, d, e
<1>6. e = d + 1
  BY <1>1, <1>2, <1>3, <1>4, <1>5
<1> QED
  BY <1>6 DEF g, d, e

(* tail_ counted up.                                                       *)
LEMMA Shrink ==
  ASSUME NEW M \in Nat, M >= 6, NEW h \in 0..(M - 1), NEW t \in 0..(M - 1),
         (h - t) % M >= 1
  PROVE  (h - ((t + 1) % M)) % M = ((h - t) % M) - 1
<1>1. M \in Nat \ {0} /\ (t + 1) % M \in 0..(M - 1)
  BY Wrap
<1> DEFINE g == (t + 1) % M
           d == (h - t) % M
           e == (h - g) % M
<1>2. /\ t < M - 1 => g = t + 1
      /\ t = M - 1 => g = 0
      /\ g \in 0..(M - 1)
  BY <1>1, Wrap
<1>3. /\ h >= t => d = h - t
      /\ h < t => d = h - t + M
  BY <1>1, Distance
<1>4. /\ h >= g => e = h - g
      /\ h < g => e = h - g + M
  BY <1>1, Distance
<1>5. d >= 1
  OBVIOUS
<1> HIDE DEF g, d, e
<1>6. e = d - 1
  BY <1>1, <1>2, <1>3, <1>4, <1>5
<1> QED
  BY <1>6 DEF g, d, e

(* The counter a push has claimed, from what head_ is now.                 *)
LEMMA ClaimAt ==
  ASSUME NEW M \in Nat, M >= 6, NEW h \in 0..(M - 1), NEW t \in 0..(M - 1),
         NEW p \in 0..(M - 1), (p + 1) % M = h
  PROVE  /\ (h - t) % M = 1 => p = t
         /\ (h - t) % M = 2 => p = (t + 1) % M
<1> DEFINE g == (t + 1) % M
           d == (h - t) % M
           f == (p + 1) % M
<1>1. M \in Nat \ {0} /\ f = h
  OBVIOUS
<1>2. /\ t < M - 1 => g = t + 1
      /\ t = M - 1 => g = 0
  BY <1>1, Wrap
<1>3. /\ h >= t => d = h - t
      /\ h < t => d = h - t + M
  BY <1>1, Distance
<1>4. /\ p < M - 1 => f = p + 1
      /\ p = M - 1 => f = 0
  BY <1>1, Wrap
<1> HIDE DEF g, d, f
<1>5. (d = 1 => p = t) /\ (d = 2 => p = g)
  BY <1>1, <1>2, <1>3, <1>4
<1> QED
  BY <1>5 DEF g, d

(* Neighbours in the ring are two places.                                  *)
LEMMA Neighbours ==
  ASSUME NEW P \in Nat, P >= 2, NEW t \in Nat
  PROVE  t % P # (t + 1) % P /\ t % P \in 0..(P - 1) /\ (t + 1) % P \in 0..(P - 1)
<1> DEFINE x == t % P
           y == (x + 1) % P
<1>1. P \in Nat \ {0} /\ x \in 0..(P - 1)
  BY DivMod
<1>2. y = (t + 1) % P
  BY <1>1, ModStep
<1>3. /\ x < P - 1 => y = x + 1
      /\ x = P - 1 => y = 0
      /\ y \in 0..(P - 1)
  BY <1>1, Wrap
<1> HIDE DEF x, y
<1>4. x # y
  BY <1>1, <1>3
<1> QED
  BY <1>1, <1>2, <1>3, <1>4 DEF x

(* The place of the second counter is the first after a pop.               *)
LEMMA NextPlace ==
  ASSUME NEW t \in Nat PROVE ((t + 1) % ID_MOD) % PLACES = (t + 1) % PLACES
<1>1. /\ t + 1 \in Nat /\ ID_MOD \in Nat \ {0} /\ PLACES \in Nat \ {0}
      /\ ID_MOD % PLACES = 0
  BY ClientAssumption
<1> QED
  BY <1>1, ModMod

-----------------------------------------------------------------------------
(* What filling and emptying a place does to what the queue holds.         *)

LEMMA HeldIsStored ==
  ASSUME NEW q \in QueueType
  PROVE  StoredAt(q) = Holds(q, "ping") \cup Holds(q, "app1")
<1>1. \A i \in Places : q.place[i].msg.type \in {"ping", "app1"}
  BY DEF QueueType, PlaceType, Msgs, Types
<1> QED
  BY <1>1 DEF StoredAt, Holds

LEMMA FillPlace ==
  ASSUME NEW q \in QueueType, NEW r, NEW x \in Places, NEW m \in Msgs,
         x \notin StoredAt(q), r.place = [q.place EXCEPT ![x] = [stored |-> TRUE, msg |-> m]]
  PROVE  /\ StoredAt(r) = StoredAt(q) \cup {x}
         /\ Holds(r, m.type) = Holds(q, m.type) \cup {x}
         /\ \A type : type # m.type => Holds(r, type) = Holds(q, type)
<1>1. q.place \in [Places -> PlaceType]
  BY DEF QueueType
<1>2. /\ r.place[x].stored /\ r.place[x].msg = m
      /\ \A i \in Places : i # x => r.place[i] = q.place[i]
  BY <1>1
<1>3. ~q.place[x].stored
  BY DEF StoredAt
<1> QED
  BY <1>2, <1>3 DEF StoredAt, Holds

LEMMA EmptyPlace ==
  ASSUME NEW q \in QueueType, NEW r, NEW x \in Places,
         r.place = [q.place EXCEPT ![x] = Empty]
  PROVE  /\ StoredAt(r) = StoredAt(q) \ {x}
         /\ \A type : Holds(r, type) = Holds(q, type) \ {x}
<1>1. q.place \in [Places -> PlaceType]
  BY DEF QueueType
<1>2. /\ ~r.place[x].stored
      /\ \A i \in Places : i # x => r.place[i] = q.place[i]
  BY <1>1 DEF Empty
<1> QED
  BY <1>2 DEF StoredAt, Holds

-----------------------------------------------------------------------------
(* The steps of a push, for the one producer p at the queue of c: r is the *)
(* other push, which is not at this queue.                                 *)

RingOK(c, p, r, q) == HeadOK(c, p, q) /\ HeadOK(c, r, q) /\ QueueOK(c, p, r, q)

LEMMA RingLoad ==
  ASSUME NEW c, NEW p, NEW r, NEW q, NEW s, RingOK(c, p, r, q), ~Pushing(c, r),
         p.at = "load", s.at = "store", s.head = q.head
  PROVE  RingOK(c, s, r, q)
<1>1. ~Claimed(c, p) /\ ~Claimed(c, s)
  BY DEF Claimed
<1>2. HeadOK(c, s, q)
  BY DEF HeadOK
<1> QED
  BY <1>1, <1>2 DEF RingOK, QueueOK

LEMMA RingStore ==
  ASSUME NEW c, NEW p \in PushType, NEW r, NEW q \in QueueType, NEW s, NEW u,
         RingOK(c, p, r, q), ~Pushing(c, r), Size(q) <= 1,
         p.at = "store", p.q = c, s.at = "wait", s.q = c, s.head = p.head,
         u.head = (p.head + 1) % ID_MOD, u.tail = q.tail, u.place = q.place
  PROVE  RingOK(c, s, r, u)
<1>1. ~Claimed(c, p) /\ ~Claimed(c, r) /\ Claimed(c, s) /\ Pushing(c, p)
  BY DEF Claimed, Pushing
<1>2. p.head = q.head
  BY <1>1 DEF RingOK, HeadOK
<1>3. /\ First(u) = First(q) /\ Second(u) = Second(q) /\ StoredAt(u) = StoredAt(q)
  BY DEF First, Second, StoredAt
<1>4. q.head \in 0..(ID_MOD - 1) /\ q.tail \in 0..(ID_MOD - 1) /\ ID_MOD \in Nat /\ ID_MOD >= 6
  BY ClientAssumption DEF QueueType, Ids
<1>5. Size(u) = Size(q) + 1
  <2>1. (q.head - q.tail) % ID_MOD <= 2
    <3>1. (q.head - q.tail) % ID_MOD \in Int
      BY <1>4
    <3> QED
      BY <3>1 DEF Size
  <2>2. (((q.head + 1) % ID_MOD) - q.tail) % ID_MOD = ((q.head - q.tail) % ID_MOD) + 1
    BY <1>4, <2>1, Grow
  <2> QED
    BY <1>2, <2>2 DEF Size
<1>6. ShapeOK(Size(q), First(q), Second(q), StoredAt(q), FALSE)
  BY <1>1 DEF RingOK, QueueOK, ShapeOK
<1>7. ShapeOK(Size(q) + 1, First(q), Second(q), StoredAt(q), TRUE)
  BY <1>6 DEF ShapeOK
<1>8. QueueOK(c, s, r, u)
  BY <1>1, <1>3, <1>5, <1>7 DEF QueueOK, ShapeOK
<1>9. HeadOK(c, s, u) /\ HeadOK(c, r, u)
  BY DEF HeadOK
<1> QED
  BY <1>8, <1>9 DEF RingOK

LEMMA RingWait ==
  ASSUME NEW c, NEW p, NEW r, NEW q, NEW s, RingOK(c, p, r, q),
         p.at = "wait", p.q = c, s.at = "fill", s.q = c, s.head = p.head
  PROVE  RingOK(c, s, r, q)
<1>1. Claimed(c, p) /\ Claimed(c, s) /\ Pushing(c, p)
  BY DEF Claimed, Pushing
<1>2. HeadOK(c, s, q)
  BY <1>1 DEF RingOK, HeadOK
<1> QED
  BY <1>1, <1>2 DEF RingOK, QueueOK

(* The place a push has claimed is free, and is the last of the queue.     *)
LEMMA ClaimedPlace ==
  ASSUME NEW c, NEW p \in PushType, NEW r, NEW q \in QueueType, RingOK(c, p, r, q), Claimed(c, p)
  PROVE  /\ p.head % PLACES \in Places /\ p.head % PLACES \notin StoredAt(q)
         /\ \/ Size(q) = 1 /\ p.head % PLACES = First(q) /\ StoredAt(q) = {}
            \/ Size(q) = 2 /\ p.head % PLACES = Second(q) /\ StoredAt(q) = {First(q)}
<1>1. Pushing(c, p)
  BY DEF Claimed, Pushing
<1>2. (p.head + 1) % ID_MOD = q.head
  BY <1>1 DEF RingOK, HeadOK, Claimed
<1>3. /\ q.head \in 0..(ID_MOD - 1) /\ q.tail \in 0..(ID_MOD - 1) /\ p.head \in 0..(ID_MOD - 1)
      /\ ID_MOD \in Nat /\ ID_MOD >= 6 /\ q.tail \in Nat /\ p.head \in Nat
      /\ PLACES \in Nat /\ PLACES >= 2
  BY ClientAssumption DEF QueueType, PushType, Ids
<1>4. (Size(q) = 1 => p.head = q.tail) /\ (Size(q) = 2 => p.head = (q.tail + 1) % ID_MOD)
  BY <1>2, <1>3, ClaimAt DEF Size
<1>5. First(q) # Second(q) /\ First(q) \in Places /\ Second(q) \in Places
  BY <1>3, Neighbours DEF First, Second, Places
<1>6. \/ Size(q) = 1 /\ StoredAt(q) = {}
      \/ Size(q) = 2 /\ StoredAt(q) = {First(q)}
  BY DEF RingOK, QueueOK, ShapeOK
<1>7. CASE Size(q) = 1 /\ StoredAt(q) = {}
  BY <1>4, <1>5, <1>7 DEF First
<1>8. CASE Size(q) = 2 /\ StoredAt(q) = {First(q)}
  <2>1. p.head % PLACES = Second(q)
    BY <1>3, <1>4, <1>8, NextPlace DEF Second
  <2> QED
    BY <1>5, <1>8, <2>1
<1> QED
  BY <1>6, <1>7, <1>8

LEMMA RingFill ==
  ASSUME NEW c, NEW p \in PushType, NEW r, NEW q \in QueueType, NEW s, NEW u, NEW m \in Msgs,
         RingOK(c, p, r, q), ~Pushing(c, r), p.at = "fill", p.q = c, s.at = "none",
         u.head = q.head, u.tail = q.tail,
         u.place = [q.place EXCEPT ![p.head % PLACES] = [stored |-> TRUE, msg |-> m]]
  PROVE  RingOK(c, s, r, u)
<1>1. Claimed(c, p) /\ ~Claimed(c, r) /\ ~Claimed(c, s) /\ ~Pushing(c, s)
  BY DEF Claimed, Pushing
<1> DEFINE x == p.head % PLACES
<1>2. /\ x \in Places /\ x \notin StoredAt(q)
      /\ \/ Size(q) = 1 /\ x = First(q) /\ StoredAt(q) = {}
         \/ Size(q) = 2 /\ x = Second(q) /\ StoredAt(q) = {First(q)}
  BY <1>1, ClaimedPlace
<1>3. StoredAt(u) = StoredAt(q) \cup {x}
  BY <1>2, FillPlace
<1>4. Size(u) = Size(q) /\ First(u) = First(q) /\ Second(u) = Second(q)
  BY DEF Size, First, Second
<1> HIDE DEF x
<1>5. \/ Size(u) = 1 /\ StoredAt(u) = {First(u)}
      \/ Size(u) = 2 /\ StoredAt(u) = {First(u), Second(u)}
  BY <1>2, <1>3, <1>4
<1>6. QueueOK(c, s, r, u)
  BY <1>1, <1>5 DEF QueueOK, ShapeOK
<1>7. HeadOK(c, s, u) /\ HeadOK(c, r, u)
  BY <1>1 DEF HeadOK
<1> QED
  BY <1>6, <1>7 DEF RingOK

(* A pop takes the first place, whoever is pushing.                        *)
LEMMA RingPop ==
  ASSUME NEW c, NEW p \in PushType, NEW r \in PushType, NEW q \in QueueType, NEW u,
         RingOK(c, p, r, q), First(q) \in StoredAt(q),
         u.head = q.head, u.tail = (q.tail + 1) % ID_MOD,
         u.place = [q.place EXCEPT ![First(q)] = Empty]
  PROVE  RingOK(c, p, r, u)
<1>1. /\ q.head \in 0..(ID_MOD - 1) /\ q.tail \in 0..(ID_MOD - 1)
      /\ ID_MOD \in Nat /\ ID_MOD >= 6 /\ q.tail \in Nat /\ PLACES \in Nat /\ PLACES >= 2
  BY ClientAssumption DEF QueueType, Ids
<1>2. First(q) # Second(q) /\ First(q) \in Places
  BY <1>1, Neighbours DEF First, Second, Places
<1>3. StoredAt(u) = StoredAt(q) \ {First(q)}
  BY <1>2, EmptyPlace
<1>4. First(u) = Second(q)
  BY <1>1, NextPlace DEF First, Second
<1> DEFINE k == Claimed(c, p) \/ Claimed(c, r)
<1>5. ShapeOK(Size(q), First(q), Second(q), StoredAt(q), k)
  BY DEF RingOK, QueueOK
<1>6. Size(q) \in {1, 2}
  BY <1>5 DEF ShapeOK
<1>7. Size(u) = Size(q) - 1
  <2>1. (q.head - q.tail) % ID_MOD >= 1
    BY <1>6 DEF Size
  <2> QED
    BY <1>1, <2>1, Shrink DEF Size
<1> HIDE DEF k
<1>8. ShapeOK(Size(u), First(u), Second(u), StoredAt(u), k)
  BY <1>2, <1>3, <1>4, <1>5, <1>7 DEF ShapeOK
<1>9. QueueOK(c, p, r, u)
  BY <1>8 DEF QueueOK, k
<1>10. HeadOK(c, p, u) /\ HeadOK(c, r, u)
  BY DEF RingOK, HeadOK
<1> QED
  BY <1>9, <1>10 DEF RingOK

-----------------------------------------------------------------------------
(* The same for everything a client has.                                   *)

(* The leader and the client are never at the client's queue together, and *)
(* when one of them counts up head_ there is at most one message before.   *)
LEMMA Alone ==
  ASSUME NEW c, NEW ld, NEW lp, NEW op, NEW q, NEW cl, NEW fl,
         ClientOK(c, ld, lp, op, q, cl, fl), LeaderOK(ld, lp)
  PROVE  ~(Pushing(c, lp) /\ Pushing(c, op))
<1> SUFFICES ASSUME Pushing(c, lp), Pushing(c, op) PROVE FALSE
  OBVIOUS
<1>1. op.at # "none" /\ lp.at # "none"
  BY DEF Pushing
<1>2. ~ToCome(c, ld) /\ ~PushingType(c, lp, "app1")
  BY <1>1 DEF ClientOK, TokenOK, ExactlyOne
<1>3. ld.pc # "ping" /\ lp.msg.type # "app1"
  BY <1>2 DEF ToCome, PushingType
<1> QED
  BY <1>1, <1>3 DEF LeaderOK

LEMMA FewBefore ==
  ASSUME NEW c, NEW ld, NEW lp, NEW op, NEW q \in QueueType, NEW cl, NEW fl,
         ClientOK(c, ld, lp, op, q, cl, fl), LeaderOK(ld, lp),
         \/ lp.at = "store" /\ lp.q = c
         \/ op.at = "store"
  PROVE  Size(q) <= 1
<1>1. OwnOK(c, op) /\ TokenOK(c, ld, lp, op, q, cl, fl) /\ PingOK(c, ld, lp, q) /\ QueueOK(c, lp, op, q)
  BY DEF ClientOK
<1>2. Pushing(c, lp) \/ Pushing(c, op)
  BY <1>1 DEF Pushing, OwnOK
<1>3. Holds(q, "app1") = {}
  <2>1. CASE op.at = "store"
    BY <1>1, <2>1 DEF TokenOK, ExactlyOne
  <2>2. CASE lp.at = "store" /\ lp.q = c
    <3>1. CASE ld.pc = "ping"
      <4>1. ToCome(c, ld)
        BY <3>1 DEF ToCome
      <4> QED
        BY <1>1, <4>1 DEF TokenOK, ExactlyOne
    <3>2. CASE ld.pc # "ping"
      <4>1. PushingType(c, lp, "app1")
        BY <2>2, <3>2 DEF PushingType, Pushing, LeaderOK
      <4> QED
        BY <1>1, <4>1 DEF TokenOK, ExactlyOne
    <3> QED
      BY <3>1, <3>2
  <2> QED
    BY <2>1, <2>2
<1>4. \A x, y : x \in Holds(q, "ping") /\ y \in Holds(q, "ping") => x = y
  BY <1>1 DEF PingOK, AtMostOne, Single
<1>5. \A x, y : x \in StoredAt(q) /\ y \in StoredAt(q) => x = y
  BY <1>3, <1>4, HeldIsStored
<1>6. First(q) # Second(q)
  <2>1. q.tail \in Nat /\ PLACES \in Nat /\ PLACES >= 2
    BY ClientAssumption DEF QueueType, Ids
  <2> QED
    BY <2>1, Neighbours DEF First, Second
<1>7. ~Claimed(c, lp) /\ ~Claimed(c, op)
  <2>1. ~(Pushing(c, lp) /\ Pushing(c, op))
    BY Alone
  <2> QED
    BY <1>1, <2>1 DEF Pushing, Claimed, OwnOK
<1>8. ShapeOK(Size(q), First(q), Second(q), StoredAt(q), FALSE)
  BY <1>1, <1>7 DEF QueueOK, ShapeOK
<1>9. Size(q) # 2
  BY <1>5, <1>6, <1>8 DEF ShapeOK
<1> QED
  BY <1>8, <1>9 DEF ShapeOK

(* The leader works for another client.                                    *)
LEMMA Elsewhere ==
  ASSUME NEW c, NEW ld, NEW lp, NEW op, NEW q, NEW cl, NEW fl, NEW ld2, NEW lp2,
         ClientOK(c, ld, lp, op, q, cl, fl), ~Pushing(c, lp), ~Pushing(c, lp2),
         ToCome(c, ld2) <=> ToCome(c, ld), PingToCome(c, ld2) <=> PingToCome(c, ld)
  PROVE  ClientOK(c, ld2, lp2, op, q, cl, fl)
<1>1. OwnOK(c, op) /\ TokenOK(c, ld, lp, op, q, cl, fl) /\ PingOK(c, ld, lp, q)
      /\ HeadOK(c, op, q) /\ QueueOK(c, lp, op, q)
  BY DEF ClientOK
<1>2. \A type : ~PushingType(c, lp, type) /\ ~PushingType(c, lp2, type)
  BY DEF PushingType
<1>3. ~Claimed(c, lp) /\ ~Claimed(c, lp2)
  BY DEF Claimed, Pushing
<1>4. TokenOK(c, ld2, lp2, op, q, cl, fl)
  BY <1>1, <1>2 DEF TokenOK, ExactlyOne
<1>5. PingOK(c, ld2, lp2, q)
  BY <1>1, <1>2 DEF PingOK, AtMostOne
<1>6. HeadOK(c, lp2, q)
  BY DEF HeadOK
<1>7. QueueOK(c, lp2, op, q)
  BY <1>1, <1>3 DEF QueueOK, ShapeOK
<1> QED
  BY <1>1, <1>4, <1>5, <1>6, <1>7 DEF ClientOK

(* The leader begins to push the ping, or the request.                     *)
LEMMA PingStarts ==
  ASSUME NEW c, NEW ld, NEW lp, NEW op, NEW q, NEW cl, NEW fl, NEW ld2, NEW lp2,
         ClientOK(c, ld, lp, op, q, cl, fl), lp.at = "none",
         ld.pc = "ping", ld2.pc = "ping", c \in ld.left, c \notin ld2.left,
         lp2.at = "load", lp2.q = c, lp2.msg.type = "ping"
  PROVE  ClientOK(c, ld2, lp2, op, q, cl, fl)
<1>1. OwnOK(c, op) /\ TokenOK(c, ld, lp, op, q, cl, fl) /\ PingOK(c, ld, lp, q)
      /\ HeadOK(c, op, q) /\ QueueOK(c, lp, op, q)
  BY DEF ClientOK
<1>2. /\ ToCome(c, ld) /\ ToCome(c, ld2) /\ PingToCome(c, ld) /\ ~PingToCome(c, ld2)
      /\ ~PushingType(c, lp, "app1") /\ ~PushingType(c, lp2, "app1")
      /\ ~PushingType(c, lp, "ping")
  BY DEF PushingType, Pushing, ToCome, PingToCome
<1>3. ~Claimed(c, lp) /\ ~Claimed(c, lp2)
  BY DEF Claimed
<1>4. TokenOK(c, ld2, lp2, op, q, cl, fl)
  BY <1>1, <1>2 DEF TokenOK, ExactlyOne
<1>5. PingOK(c, ld2, lp2, q)
  BY <1>1, <1>2 DEF PingOK, AtMostOne
<1>6. HeadOK(c, lp2, q)
  BY DEF HeadOK
<1>7. QueueOK(c, lp2, op, q)
  BY <1>1, <1>3 DEF QueueOK, ShapeOK
<1> QED
  BY <1>1, <1>4, <1>5, <1>6, <1>7 DEF ClientOK

LEMMA RequestStarts ==
  ASSUME NEW c, NEW ld, NEW lp, NEW op, NEW q, NEW cl, NEW fl, NEW ld2, NEW lp2,
         ClientOK(c, ld, lp, op, q, cl, fl), lp.at = "none",
         ld.pc = "write", ld2.pc = "next", c \in ld.left, c \notin ld2.left,
         lp2.at = "load", lp2.q = c, lp2.msg.type = "app1"
  PROVE  ClientOK(c, ld2, lp2, op, q, cl, fl)
<1>1. OwnOK(c, op) /\ TokenOK(c, ld, lp, op, q, cl, fl) /\ PingOK(c, ld, lp, q)
      /\ HeadOK(c, op, q) /\ QueueOK(c, lp, op, q)
  BY DEF ClientOK
<1>2. /\ ToCome(c, ld) /\ ~ToCome(c, ld2) /\ ~PingToCome(c, ld) /\ ~PingToCome(c, ld2)
      /\ ~PushingType(c, lp, "app1") /\ PushingType(c, lp2, "app1")
      /\ ~PushingType(c, lp, "ping") /\ ~PushingType(c, lp2, "ping")
  BY DEF PushingType, Pushing, ToCome, PingToCome
<1>3. ~Claimed(c, lp) /\ ~Claimed(c, lp2)
  BY DEF Claimed
<1>4. TokenOK(c, ld2, lp2, op, q, cl, fl)
  BY <1>1, <1>2 DEF TokenOK, ExactlyOne
<1>5. PingOK(c, ld2, lp2, q)
  BY <1>1, <1>2 DEF PingOK, AtMostOne
<1>6. HeadOK(c, lp2, q)
  BY DEF HeadOK
<1>7. QueueOK(c, lp2, op, q)
  BY <1>1, <1>3 DEF QueueOK, ShapeOK
<1> QED
  BY <1>1, <1>4, <1>5, <1>6, <1>7 DEF ClientOK

(* A push on its way: only where it is and what it knows of head_ changes. *)
LEMMA LeaderPushMoves ==
  ASSUME NEW c, NEW ld, NEW lp, NEW op, NEW q, NEW cl, NEW fl, NEW lp2, NEW u,
         ClientOK(c, ld, lp, op, q, cl, fl),
         lp.at # "none", lp2.at # "none", lp2.q = lp.q, lp2.msg = lp.msg,
         u.place = q.place, RingOK(c, lp2, op, u)
  PROVE  ClientOK(c, ld, lp2, op, u, cl, fl)
<1>1. \A type : PushingType(c, lp2, type) <=> PushingType(c, lp, type)
  BY DEF PushingType, Pushing
<1>2. \A type : Holds(u, type) = Holds(q, type)
  BY DEF Holds
<1>3. TokenOK(c, ld, lp2, op, u, cl, fl)
  BY <1>1, <1>2 DEF ClientOK, TokenOK, ExactlyOne
<1>4. PingOK(c, ld, lp2, u)
  BY <1>1, <1>2 DEF ClientOK, PingOK, AtMostOne
<1> QED
  BY <1>3, <1>4 DEF ClientOK, RingOK

LEMMA OwnPushMoves ==
  ASSUME NEW c, NEW ld, NEW lp, NEW op, NEW q, NEW cl, NEW fl, NEW op2, NEW u,
         ClientOK(c, ld, lp, op, q, cl, fl),
         op.at # "none", op2.at # "none", op2.q = op.q, op2.msg = op.msg,
         u.place = q.place, RingOK(c, op2, lp, u)
  PROVE  ClientOK(c, ld, lp, op2, u, cl, fl)
<1>1. OwnOK(c, op2)
  BY DEF ClientOK, OwnOK
<1>2. \A type : Holds(u, type) = Holds(q, type)
  BY DEF Holds
<1>3. TokenOK(c, ld, lp, op2, u, cl, fl)
  BY <1>2 DEF ClientOK, TokenOK, ExactlyOne
<1>4. PingOK(c, ld, lp, u)
  BY <1>2 DEF ClientOK, PingOK, AtMostOne
<1>5. HeadOK(c, lp, u) /\ HeadOK(c, op2, u) /\ QueueOK(c, lp, op2, u)
  BY DEF RingOK, QueueOK, ShapeOK
<1> QED
  BY <1>1, <1>3, <1>4, <1>5 DEF ClientOK

(* A push ends: what was being pushed is in the queue.                     *)
LEMMA LeaderPushEnds ==
  ASSUME NEW c, NEW ld, NEW lp \in PushType, NEW op, NEW q \in QueueType, NEW cl, NEW fl,
         NEW lp2, NEW u,
         ClientOK(c, ld, lp, op, q, cl, fl), LeaderOK(ld, lp),
         lp.at = "fill", lp.q = c, lp2.at = "none",
         u.place = [q.place EXCEPT ![lp.head % PLACES] = [stored |-> TRUE, msg |-> lp.msg]],
         RingOK(c, lp2, op, u)
  PROVE  ClientOK(c, ld, lp2, op, u, cl, fl)
<1> DEFINE x == lp.head % PLACES
           m == lp.msg
<1>1. m \in Msgs /\ m.type \in {"ping", "app1"}
  BY DEF PushType, Msgs, Types
<1>2. x \in Places /\ x \notin StoredAt(q)
  BY ClaimedPlace DEF Claimed, ClientOK, RingOK
<1>3. /\ Holds(u, m.type) = Holds(q, m.type) \cup {x}
      /\ \A type : type # m.type => Holds(u, type) = Holds(q, type)
  <2>1. u.place = [q.place EXCEPT ![x] = [stored |-> TRUE, msg |-> m]]
    OBVIOUS
  <2> HIDE DEF x, m
  <2> QED
    BY <1>1, <1>2, <2>1, FillPlace
<1>4. /\ \A type : ~PushingType(c, lp2, type)
      /\ \A type : PushingType(c, lp, type) <=> m.type = type
  BY DEF PushingType, Pushing
<1>5. TokenOK(c, ld, lp, op, q, cl, fl) /\ PingOK(c, ld, lp, q) /\ OwnOK(c, op)
  BY DEF ClientOK
<1> HIDE DEF x, m
<1>6. TokenOK(c, ld, lp2, op, u, cl, fl) /\ PingOK(c, ld, lp2, u)
  <2>1. CASE m.type = "app1"
    <3>1. Holds(u, "app1") = Holds(q, "app1") \cup {x} /\ Holds(u, "ping") = Holds(q, "ping")
      BY <1>3, <2>1
    <3>2. PushingType(c, lp, "app1") /\ ~PushingType(c, lp, "ping")
      BY <1>4, <2>1
    <3>3. Holds(q, "app1") = {}
      BY <1>5, <3>2 DEF TokenOK, ExactlyOne
    <3>4. Single(Holds(u, "app1"))
      BY <3>1, <3>3 DEF Single
    <3>5. TokenOK(c, ld, lp2, op, u, cl, fl)
      BY <1>4, <1>5, <3>2, <3>4 DEF TokenOK, ExactlyOne
    <3>6. PingOK(c, ld, lp2, u)
      BY <1>4, <1>5, <3>1, <3>2 DEF PingOK, AtMostOne
    <3> QED
      BY <3>5, <3>6
  <2>2. CASE m.type = "ping"
    <3>1. Holds(u, "ping") = Holds(q, "ping") \cup {x} /\ Holds(u, "app1") = Holds(q, "app1")
      BY <1>3, <2>2
    <3>2. PushingType(c, lp, "ping") /\ ~PushingType(c, lp, "app1")
      BY <1>4, <2>2
    <3>3. Holds(q, "ping") = {} /\ ~PingToCome(c, ld)
      BY <1>5, <3>2 DEF PingOK, AtMostOne, Single
    <3>4. Single(Holds(u, "ping"))
      BY <3>1, <3>3 DEF Single
    <3>5. TokenOK(c, ld, lp2, op, u, cl, fl)
      BY <1>4, <1>5, <3>1, <3>2 DEF TokenOK, ExactlyOne
    <3>6. PingOK(c, ld, lp2, u)
      BY <1>4, <3>3, <3>4 DEF PingOK, AtMostOne
    <3> QED
      BY <3>5, <3>6
  <2> QED
    BY <1>1, <2>1, <2>2 DEF m
<1> QED
  BY <1>5, <1>6 DEF ClientOK, RingOK

LEMMA OwnPushEnds ==
  ASSUME NEW c, NEW ld, NEW lp, NEW op \in PushType, NEW q \in QueueType, NEW cl, NEW fl,
         NEW op2, NEW u,
         ClientOK(c, ld, lp, op, q, cl, fl), op.at = "fill", op2.at = "none",
         u.place = [q.place EXCEPT ![op.head % PLACES] = [stored |-> TRUE, msg |-> op.msg]],
         RingOK(c, op2, lp, u)
  PROVE  ClientOK(c, ld, lp, op2, u, cl, fl)
<1> DEFINE x == op.head % PLACES
<1>1. op.msg \in Msgs /\ op.msg.type = "app1" /\ op.q = c
  BY DEF PushType, ClientOK, OwnOK
<1>2. x \in Places /\ x \notin StoredAt(q)
  <2>1. RingOK(c, op, lp, q)
    BY DEF ClientOK, RingOK, QueueOK, ShapeOK
  <2> QED
    BY <1>1, <2>1, ClaimedPlace DEF Claimed
<1>3. Holds(u, "app1") = Holds(q, "app1") \cup {x} /\ Holds(u, "ping") = Holds(q, "ping")
  BY <1>1, <1>2, FillPlace
<1>4. TokenOK(c, ld, lp, op, q, cl, fl) /\ PingOK(c, ld, lp, q)
  BY DEF ClientOK
<1> HIDE DEF x
<1>5. Holds(q, "app1") = {}
  BY <1>4 DEF TokenOK, ExactlyOne
<1>6. Single(Holds(u, "app1"))
  BY <1>3, <1>5 DEF Single
<1>7. TokenOK(c, ld, lp, op2, u, cl, fl)
  BY <1>4, <1>6 DEF TokenOK, ExactlyOne
<1>8. PingOK(c, ld, lp, u)
  BY <1>3, <1>4 DEF PingOK, AtMostOne
<1>9. OwnOK(c, op2) /\ HeadOK(c, lp, u) /\ HeadOK(c, op2, u) /\ QueueOK(c, lp, op2, u)
  BY DEF RingOK, QueueOK, ShapeOK, OwnOK
<1> QED
  BY <1>7, <1>8, <1>9 DEF ClientOK

-----------------------------------------------------------------------------
(* The steps of the client's thread.                                       *)

LEMMA ThreadMoves ==
  ASSUME NEW c, NEW ld, NEW lp, NEW op, NEW q, NEW cl, NEW fl, NEW cl2, NEW fl2,
         ClientOK(c, ld, lp, op, q, cl, fl), InCallback(cl2) <=> InCallback(cl),
         \/ Flying(fl2) = Flying(fl)
         \/ Single(Flying(fl)) /\ Single(Flying(fl2))
  PROVE  ClientOK(c, ld, lp, op, q, cl2, fl2)
<1>1. TokenOK(c, ld, lp, op, q, cl2, fl2)
  <2>1. TokenOK(c, ld, lp, op, q, cl, fl)
    BY DEF ClientOK
  <2>2. CASE Flying(fl2) = Flying(fl)
    BY <2>1, <2>2 DEF TokenOK, ExactlyOne
  <2>3. CASE Single(Flying(fl)) /\ Single(Flying(fl2))
    <3>1. Flying(fl) # {}
      BY <2>3 DEF Single
    <3> QED
      BY <2>1, <2>3, <3>1 DEF TokenOK, ExactlyOne
  <2> QED
    BY <2>2, <2>3
<1> QED
  BY <1>1 DEF ClientOK

(* eRPC gets what was first in the queue.                                  *)
LEMMA Popped ==
  ASSUME NEW c, NEW ld, NEW lp \in PushType, NEW op \in PushType, NEW q \in QueueType,
         NEW cl, NEW fl \in Seq(SentType), NEW cl2, NEW u, NEW x \in SentType,
         ClientOK(c, ld, lp, op, q, cl, fl), InCallback(cl2) <=> InCallback(cl),
         First(q) \in Places, q.place[First(q)].stored, x.type = q.place[First(q)].msg.type,
         u.head = q.head, u.tail = (q.tail + 1) % ID_MOD,
         u.place = [q.place EXCEPT ![First(q)] = Empty]
  PROVE  ClientOK(c, ld, lp, op, u, cl2, Append(fl, x))
<1> DEFINE a == First(q)
           gl == Append(fl, x)
<1>1. OwnOK(c, op) /\ TokenOK(c, ld, lp, op, q, cl, fl) /\ PingOK(c, ld, lp, q) /\ RingOK(c, lp, op, q)
  BY DEF ClientOK, RingOK
<1>2. a \in StoredAt(q) /\ a \in Holds(q, x.type) /\ x.type \in {"ping", "app1"}
      /\ \A type : a \in Holds(q, type) => type = x.type
  BY DEF StoredAt, Holds, SentType, Types
<1>3. RingOK(c, lp, op, u)
  BY <1>1, <1>2, RingPop
<1>4. \A type : Holds(u, type) = Holds(q, type) \ {a}
  BY EmptyPlace
<1>5. /\ Len(fl) \in Nat /\ Len(gl) = Len(fl) + 1 /\ gl[Len(fl) + 1] = x
      /\ \A i \in 1..Len(fl) : gl[i] = fl[i]
  BY Push
<1> HIDE DEF a, gl
<1>6. /\ x.type = "app1" => Flying(gl) = Flying(fl) \cup {Len(fl) + 1}
      /\ x.type # "app1" => Flying(gl) = Flying(fl)
  BY <1>5 DEF Flying
<1>7. PingOK(c, ld, lp, u)
  <2>1. Holds(u, "ping") = Holds(q, "ping") \ {a}
    BY <1>4
  <2>2. Single(Holds(q, "ping")) => Holds(u, "ping") = {} \/ Holds(u, "ping") = Holds(q, "ping")
    BY <2>1 DEF Single
  <2> QED
    BY <1>1, <2>1, <2>2 DEF PingOK, AtMostOne
<1>8. TokenOK(c, ld, lp, op, u, cl2, gl)
  <2>1. CASE x.type = "app1"
    <3>1. Holds(q, "app1") # {}
      BY <1>2, <2>1
    <3>2. Single(Holds(q, "app1")) /\ Flying(fl) = {}
      BY <1>1, <3>1 DEF TokenOK, ExactlyOne
    <3>3. Holds(u, "app1") = {}
      BY <1>2, <1>4, <2>1, <3>2 DEF Single
    <3>4. Single(Flying(gl))
      BY <1>6, <2>1, <3>2 DEF Single
    <3> QED
      BY <1>1, <3>1, <3>3, <3>4 DEF TokenOK, ExactlyOne
  <2>2. CASE x.type = "ping"
    <3>0. a \notin Holds(q, "app1")
      BY <1>2, <2>2
    <3>1. Holds(u, "app1") = Holds(q, "app1")
      BY <1>4, <3>0
    <3>2. Flying(gl) = Flying(fl)
      BY <1>6, <2>2
    <3> QED
      BY <1>1, <3>1, <3>2 DEF TokenOK, ExactlyOne
  <2> QED
    BY <1>2, <2>1, <2>2
<1> QED
  BY <1>1, <1>3, <1>7, <1>8 DEF ClientOK, RingOK, gl

(* A request leaves eRPC.                                                  *)
LEMMA Removed ==
  ASSUME NEW S, NEW s \in Seq(S), NEW i \in 1..Len(s)
  PROVE  /\ RemoveAt(s, i) \in Seq(S) /\ Len(RemoveAt(s, i)) = Len(s) - 1
         /\ \A k \in 1..(Len(s) - 1) : /\ k < i => RemoveAt(s, i)[k] = s[k]
                                       /\ k >= i => RemoveAt(s, i)[k] = s[k + 1]
<1> DEFINE a == SubSeq(s, 1, i - 1)
           b == SubSeq(s, i + 1, Len(s))
<1>1. Len(s) \in Nat /\ i \in Nat /\ i >= 1 /\ i <= Len(s)
  OBVIOUS
<1>2. a \in Seq(S) /\ Len(a) = i - 1 /\ \A k \in 1..(i - 1) : a[k] = s[k]
  BY <1>1
<1>3. b \in Seq(S) /\ Len(b) = Len(s) - i /\ \A k \in 1..(Len(s) - i) : b[k] = s[k + i]
  BY <1>1
<1> HIDE DEF a, b
<1>4. a \o b \in Seq(S) /\ Len(a \o b) = Len(s) - 1
  <2>1. a \in Seq(S) /\ b \in Seq(S)
    BY <1>2, <1>3
  <2>2. a \o b \in Seq(S) /\ Len(a \o b) = Len(a) + Len(b)
    BY <2>1
  <2> QED
    BY <1>1, <1>2, <1>3, <2>2
<1>5. \A k \in 1..(Len(s) - 1) : k < i => (a \o b)[k] = s[k]
  BY <1>1, <1>2, <1>3
<1>6. \A k \in 1..(Len(s) - 1) : k >= i => (a \o b)[k] = s[k + 1]
  <2> SUFFICES ASSUME NEW k \in 1..(Len(s) - 1), k >= i PROVE (a \o b)[k] = s[k + 1]
    OBVIOUS
  <2>1. (a \o b)[k] = b[k - Len(a)]
    BY <1>1, <1>2, <1>3
  <2>2. k - (i - 1) \in 1..(Len(s) - i)
    BY <1>1
  <2>3. b[k - (i - 1)] = s[(k - (i - 1)) + i]
    BY <1>3, <2>2
  <2>4. (k - (i - 1)) + i = k + 1
    BY <1>1
  <2> QED
    BY <1>2, <2>1, <2>3, <2>4
<1> QED
  BY <1>4, <1>5, <1>6 DEF RemoveAt, a, b

LEMMA PingAnswered ==
  ASSUME NEW fl \in Seq(SentType), NEW i \in 1..Len(fl), fl[i].type = "ping"
  PROVE  /\ Flying(fl) = {} => Flying(RemoveAt(fl, i)) = {}
         /\ Single(Flying(fl)) => Single(Flying(RemoveAt(fl, i)))
<1> DEFINE gl == RemoveAt(fl, i)
<1>0. Len(fl) \in Nat
  OBVIOUS
<1>1. /\ Len(fl) \in Nat /\ Len(gl) = Len(fl) - 1
      /\ \A k \in 1..(Len(fl) - 1) : /\ k < i => gl[k] = fl[k]
                                     /\ k >= i => gl[k] = fl[k + 1]
  BY <1>0, Removed, Zenon
<1> HIDE DEF gl
<1>2. ASSUME NEW z \in Flying(gl)
      PROVE  z \in 1..Len(gl) /\ ((z < i /\ z \in Flying(fl)) \/ (z >= i /\ z + 1 \in Flying(fl)))
  <2>1. z \in 1..Len(gl) /\ gl[z].type = "app1"
    BY DEF Flying
  <2>2. CASE z < i
    BY <1>1, <2>1, <2>2 DEF Flying
  <2>3. CASE z >= i
    BY <1>1, <2>1, <2>3 DEF Flying
  <2> QED
    BY <2>1, <2>2, <2>3
<1>3. ASSUME Single(Flying(fl)) PROVE Single(Flying(gl))
  <2>1. PICK x \in Flying(fl) : Flying(fl) = {x}
    BY <1>3 DEF Single
  <2>2. x \in 1..Len(fl) /\ x # i
    BY <2>1 DEF Flying
  <2> DEFINE y == IF x < i THEN x ELSE x - 1
  <2>3. y \in 1..Len(gl) /\ gl[y] = fl[x]
    BY <1>1, <2>2
  <2>4. y \in Flying(gl)
    BY <2>1, <2>3 DEF Flying
  <2>5. \A z \in Flying(gl) : z = y
    <3> SUFFICES ASSUME NEW z \in Flying(gl) PROVE z = y
      OBVIOUS
    <3>1. z \in 1..Len(gl) /\ ((z < i /\ z \in Flying(fl)) \/ (z >= i /\ z + 1 \in Flying(fl)))
      BY <1>2
    <3> QED
      BY <2>1, <2>2, <3>1
  <2> QED
    BY <2>4, <2>5 DEF Single
<1>4. ASSUME Flying(fl) = {} PROVE Flying(gl) = {}
  BY <1>2, <1>4
<1> QED
  BY <1>3, <1>4 DEF gl

LEMMA RequestAnswered ==
  ASSUME NEW c, NEW ld, NEW lp, NEW op, NEW q, NEW cl, NEW fl \in Seq(SentType), NEW cl2,
         NEW i \in 1..Len(fl), fl[i].type = "app1",
         ClientOK(c, ld, lp, op, q, cl, fl), cl2.pc = "write"
  PROVE  ClientOK(c, ld, lp, op, q, cl2, RemoveAt(fl, i))
<1> DEFINE gl == RemoveAt(fl, i)
<1>0. Len(fl) \in Nat
  OBVIOUS
<1>1. /\ Len(fl) \in Nat /\ Len(gl) = Len(fl) - 1
      /\ \A k \in 1..(Len(fl) - 1) : /\ k < i => gl[k] = fl[k]
                                     /\ k >= i => gl[k] = fl[k + 1]
  BY <1>0, Removed, Zenon
<1> HIDE DEF gl
<1>2. TokenOK(c, ld, lp, op, q, cl, fl) /\ i \in Flying(fl)
  BY DEF ClientOK, Flying
<1>3. Single(Flying(fl)) /\ Flying(fl) # {}
  BY <1>2 DEF TokenOK, ExactlyOne
<1>4. Flying(fl) = {i}
  BY <1>2, <1>3 DEF Single
<1>5. Flying(gl) = {}
  <2> SUFFICES ASSUME NEW z \in Flying(gl) PROVE FALSE
    OBVIOUS
  <2>1. z \in 1..Len(gl) /\ gl[z].type = "app1"
    BY DEF Flying
  <2>2. CASE z < i
    <3>1. z \in Flying(fl)
      BY <1>1, <2>1, <2>2 DEF Flying
    <3> QED
      BY <1>4, <2>1, <2>2, <3>1
  <2>3. CASE z >= i
    <3>1. z + 1 \in Flying(fl)
      BY <1>1, <2>1, <2>3 DEF Flying
    <3> QED
      BY <1>4, <2>1, <2>3, <3>1
  <2> QED
    BY <2>1, <2>2, <2>3
<1>6. InCallback(cl2)
  BY DEF InCallback
<1>7. TokenOK(c, ld, lp, op, q, cl2, gl)
  BY <1>2, <1>3, <1>5, <1>6 DEF TokenOK, ExactlyOne
<1> QED
  BY <1>7 DEF ClientOK, gl

LEMMA CallbackPushes ==
  ASSUME NEW c, NEW ld, NEW lp, NEW op, NEW q, NEW cl, NEW fl, NEW cl2, NEW op2,
         ClientOK(c, ld, lp, op, q, cl, fl), cl.pc = "again", cl2.pc = "events",
         op.at = "none", op2.at = "load", op2.q = c, op2.msg.type = "app1"
  PROVE  ClientOK(c, ld, lp, op2, q, cl2, fl)
<1>1. TokenOK(c, ld, lp, op, q, cl, fl) /\ PingOK(c, ld, lp, q) /\ HeadOK(c, lp, q)
      /\ QueueOK(c, lp, op, q)
  BY DEF ClientOK
<1>2. InCallback(cl) /\ ~InCallback(cl2)
  BY DEF InCallback
<1>3. TokenOK(c, ld, lp, op2, q, cl2, fl)
  BY <1>1, <1>2 DEF TokenOK, ExactlyOne
<1>4. OwnOK(c, op2) /\ HeadOK(c, op2, q)
  BY DEF OwnOK, HeadOK
<1>5. QueueOK(c, lp, op2, q)
  <2>1. ~Claimed(c, op) /\ ~Claimed(c, op2)
    BY DEF Claimed
  <2> QED
    BY <1>1, <2>1 DEF QueueOK, ShapeOK
<1> QED
  BY <1>1, <1>3, <1>4, <1>5 DEF ClientOK

-----------------------------------------------------------------------------
(* Initially the leader has everything still to do.                        *)
LEMMA InitInv == Init => IInv
<1> SUFFICES ASSUME Init PROVE IInv
  OBVIOUS
<1> USE DEF Init
<1>1. ID_MOD \in Nat /\ ID_MOD >= 6 /\ PLACES \in Nat /\ PLACES >= 2 /\ Leader \notin Clients
  BY ClientAssumption
<1>2. Empty \in PlaceType /\ NoPush \in PushType
  BY <1>1 DEF Empty, PlaceType, NoPush, PushType, Msg, Msgs, Types, Threads, Ids
<1>3. TypeOK
  <2>1. leader \in LeaderType
    BY DEF LeaderType
  <2>2. queue \in [Clients -> QueueType]
    BY <1>1, <1>2 DEF QueueType, Ids, Places
  <2>3. push \in [Threads -> PushType]
    BY <1>2 DEF Threads
  <2>4. client \in [Clients -> ClientType]
    BY DEF ClientType
  <2>5. inflight \in [Clients -> Seq(SentType)]
    OBVIOUS
  <2>6. req_id_ \in [Clients -> Nat]
    OBVIOUS
  <2> QED
    BY <2>1, <2>2, <2>3, <2>4, <2>5, <2>6 DEF TypeOK
<1>4. \A t \in Threads : push[t].at = "none"
  BY DEF Threads, NoPush
<1>5. LeaderOK(leader, push[Leader])
  BY <1>4 DEF LeaderOK, Threads
<1>6. ASSUME NEW c \in Clients
      PROVE  ClientOK(c, leader, push[Leader], push[c], queue[c], client[c], inflight[c])
  <2>1. push[c].at = "none" /\ push[Leader].at = "none"
    BY <1>4 DEF Threads
  <2>2. \A i \in Places : ~queue[c].place[i].stored
    BY DEF Places, Empty
  <2>3. queue[c].head = 0 /\ queue[c].tail = 0
    OBVIOUS
  <2>4. StoredAt(queue[c]) = {} /\ \A type : Holds(queue[c], type) = {}
    BY <2>2 DEF StoredAt, Holds
  <2>5. Flying(inflight[c]) = {}
    BY DEF Flying
  <2>6. TokenOK(c, leader, push[Leader], push[c], queue[c], client[c], inflight[c])
    BY <2>1, <2>4, <2>5 DEF TokenOK, ExactlyOne, ToCome, PushingType, Pushing, InCallback
  <2>7. PingOK(c, leader, push[Leader], queue[c])
    BY <2>1, <2>4 DEF PingOK, AtMostOne, PushingType, Pushing
  <2>8. HeadOK(c, push[Leader], queue[c]) /\ HeadOK(c, push[c], queue[c]) /\ OwnOK(c, push[c])
    BY <2>1 DEF HeadOK, Pushing, OwnOK
  <2>9. Size(queue[c]) = 0
    BY <1>1, <2>3 DEF Size
  <2>10. QueueOK(c, push[Leader], push[c], queue[c])
    BY <2>1, <2>4, <2>9 DEF QueueOK, ShapeOK, Claimed
  <2> QED
    BY <2>6, <2>7, <2>8, <2>10 DEF ClientOK
<1> QED
  BY <1>3, <1>5, <1>6 DEF IInv

-----------------------------------------------------------------------------
(* Every step keeps the types.                                             *)
LEMMA MsgTyped == \A type \in Types : \A id \in Nat : Msg(type, id) \in Msgs
  BY DEF Msg, Msgs

LEMMA StartTyped ==
  ASSUME TypeOK, NEW t \in Threads, NEW q \in Clients, NEW m \in Msgs, StartPush(t, q, m)
  PROVE  /\ push' \in [Threads -> PushType]
         /\ push'[t].at = "load" /\ push'[t].q = q /\ push'[t].msg = m
         /\ \A d \in Threads : d # t => push'[d] = push[d]
<1>1. ID_MOD \in Nat /\ ID_MOD >= 6
  BY ClientAssumption
<1> DEFINE new == [at |-> "load", q |-> q, msg |-> m, head |-> 0]
<1>3. new \in PushType
  BY <1>1 DEF PushType, Threads, Ids
<1>4. push' = [push EXCEPT ![t] = new]
  BY DEF StartPush
<1>5. push \in [Threads -> PushType]
  BY DEF TypeOK
<1>6. new.at = "load" /\ new.q = q /\ new.msg = m
  OBVIOUS
<1> HIDE DEF new
<1> QED
  BY <1>3, <1>4, <1>5, <1>6

LEMMA PushTyped ==
  ASSUME TypeOK, NEW t \in Threads, PushStep(t),
         push[t].q \in Clients
  PROVE  TypeOK'
<1> DEFINE p == push[t]
           c == push[t].q
           x == push[t].head % PLACES
<1>1. /\ ID_MOD \in Nat /\ ID_MOD >= 6 /\ PLACES \in Nat /\ PLACES >= 2
  BY ClientAssumption
<1>2. /\ push \in [Threads -> PushType] /\ queue \in [Clients -> QueueType]
  BY DEF TypeOK
<1>3. p \in PushType /\ c \in Clients /\ queue[c] \in QueueType
  BY <1>2
<1>4. queue[c].head \in Ids /\ p.head \in Ids /\ (p.head + 1) % ID_MOD \in Ids
  BY <1>1, <1>3 DEF QueueType, PushType, Ids
<1>5. push' \in [Threads -> PushType] /\ queue' \in [Clients -> QueueType]
  <2>1. CASE PushLoad(t)
    BY <1>2, <1>3, <1>4, <2>1 DEF PushLoad, PushType
  <2>2. CASE PushStore(t)
    <3>1. push' \in [Threads -> PushType]
      BY <1>2, <1>3, <1>4, <2>2 DEF PushStore, PushType
    <3>2. queue' \in [Clients -> QueueType]
      BY <1>2, <1>3, <1>4, <2>2 DEF PushStore, QueueType
    <3> QED
      BY <3>1, <3>2
  <2>3. CASE PushWait(t)
    BY <1>2, <1>3, <1>4, <2>3 DEF PushWait, PushType
  <2>4. CASE PushFill(t)
    <3>1. NoPush \in PushType
      BY <1>1 DEF NoPush, PushType, Msg, Msgs, Types, Threads, Ids
    <3>2. push' \in [Threads -> PushType]
      BY <1>2, <2>4, <3>1 DEF PushFill
    <3>3. [stored |-> TRUE, msg |-> p.msg] \in PlaceType
      BY <1>3 DEF PushType, PlaceType
    <3>4. [queue[c].place EXCEPT ![x] = [stored |-> TRUE, msg |-> p.msg]] \in [Places -> PlaceType]
      BY <1>3, <3>3 DEF QueueType
    <3>5. queue' \in [Clients -> QueueType]
      BY <1>2, <1>3, <2>4, <3>4 DEF PushFill, QueueType
    <3> QED
      BY <3>2, <3>5
  <2> QED
    BY <2>1, <2>2, <2>3, <2>4 DEF PushStep
<1>6. UNCHANGED <<leader, req_id_, client, inflight>>
  BY DEF PushStep
<1> QED
  BY <1>5, <1>6 DEF TypeOK

(* The steps that start a push, of the leader and of a client.             *)
LEMMA LeaderTyped ==
  ASSUME TypeOK, CONCURRENCY = 1, LeaderStep PROVE TypeOK'
<1>1. leader \in LeaderType /\ Leader \in Threads
  BY DEF TypeOK, Threads
<1>2. CASE AwaitPings
  BY <1>1, <1>2 DEF AwaitPings, TypeOK, LeaderType, Batch
<1>3. CASE Join
  BY <1>1, <1>3 DEF Join, TypeOK, LeaderType
<1>4. ASSUME NEW c \in Clients, PushPing(c) PROVE TypeOK'
  <2>1. push' \in [Threads -> PushType]
    BY <1>1, <1>4, MsgTyped, StartTyped DEF PushPing, Types
  <2>2. leader' \in LeaderType
    BY <1>1, <1>4 DEF PushPing, LeaderType
  <2> QED
    BY <1>4, <2>1, <2>2 DEF PushPing, TypeOK
<1>5. ASSUME NEW c \in Clients, NextTCRead(c) PROVE TypeOK'
  <2>1. req_id_[c] \in Nat
    BY DEF TypeOK
  <2> QED
    BY <1>1, <1>5, <2>1 DEF NextTCRead, TypeOK, LeaderType
<1>6. ASSUME NEW c \in Clients, NextTCWrite(c) PROVE TypeOK'
  <2>1. leader.id \in Nat /\ ID_MOD \in Nat /\ ID_MOD >= 6
    BY <1>1, ClientAssumption DEF LeaderType
  <2>2. push' \in [Threads -> PushType]
    BY <1>1, <1>6, <2>1, MsgTyped, StartTyped DEF NextTCWrite, Types
  <2>3. leader' \in LeaderType
    <3>1. CASE leader.tmp > 1
      <4>1. leader' = [leader EXCEPT !.pc = "next", !.tmp = @ - 1]
        BY <1>6, <3>1 DEF NextTCWrite
      <4>2. leader.tmp - 1 \in Nat
        BY <1>1, <3>1 DEF LeaderType
      <4> QED
        BY <1>1, <4>1, <4>2 DEF LeaderType
    <3>2. CASE ~(leader.tmp > 1)
      BY <1>1, <1>6, <3>2 DEF NextTCWrite, LeaderType, Batch
    <3> QED
      BY <3>1, <3>2
  <2>4. (leader.id + 1) % ID_MOD \in Nat
    BY <2>1
  <2>5. req_id_' \in [Clients -> Nat]
    BY <1>6, <2>4 DEF NextTCWrite, TypeOK
  <2> QED
    BY <1>6, <2>2, <2>3, <2>5 DEF NextTCWrite, TypeOK
<1> QED
  BY <1>2, <1>3, <1>4, <1>5, <1>6 DEF LeaderStep

LEMMA ThreadTyped ==
  ASSUME TypeOK, NEW c \in Clients, ClientStep(c) \/ Answer(c) PROVE TypeOK'
<1>1. /\ client[c] \in ClientType /\ queue[c] \in QueueType /\ inflight[c] \in Seq(SentType)
      /\ req_id_[c] \in Nat /\ c \in Threads
      /\ client \in [Clients -> ClientType] /\ inflight \in [Clients -> Seq(SentType)]
      /\ queue \in [Clients -> QueueType]
  BY DEF TypeOK, Threads
<1>2. ID_MOD \in Nat /\ ID_MOD >= 6 /\ PLACES \in Nat /\ PLACES >= 2
  BY ClientAssumption
<1>3. queue[c].head \in Nat /\ queue[c].tail \in Nat /\ DOMAIN inflight[c] = 1..Len(inflight[c])
  BY <1>1, <1>2 DEF QueueType, Ids
<1>4. CASE WasSize(c)
  <2>1. was_size(queue[c]) \in Nat
    BY <1>2, <1>3 DEF was_size
  <2>2. /\ client' = [client EXCEPT ![c].pc = "pop", ![c].n = was_size(queue[c])]
        /\ UNCHANGED <<leader, req_id_, queue, push, inflight>>
    BY <1>4 DEF WasSize
  <2>3. client' \in [Clients -> ClientType]
    BY <1>1, <2>1, <2>2 DEF ClientType
  <2> QED
    BY <2>2, <2>3 DEF TypeOK
<1>5. CASE PopMsg(c)
  <2> DEFINE i == queue[c].tail % PLACES
             m == queue[c].place[i].msg
             r == [type |-> m.type, id |-> m.id, answered |-> FALSE]
  <2>1. i \in Places /\ (queue[c].tail + 1) % ID_MOD \in Ids
    <3> DEFINE t == queue[c].tail
    <3>1. t \in Nat /\ t + 1 \in Nat
      BY <1>3
    <3> HIDE DEF t
    <3>2. t % PLACES \in 0..(PLACES - 1)
      BY <1>2, <3>1
    <3>3. (t + 1) % ID_MOD \in 0..(ID_MOD - 1)
      BY <1>2, <3>1
    <3> QED
      BY <3>2, <3>3 DEF Places, Ids, t
  <2>2. r \in SentType
    BY <1>1, <2>1 DEF QueueType, PlaceType, Msgs, SentType
  <2>3. /\ queue' = [queue EXCEPT ![c].tail = (@ + 1) % ID_MOD, ![c].place[i] = Empty]
        /\ inflight' = [inflight EXCEPT ![c] = Append(@, r)]
        /\ client' = [client EXCEPT ![c].n = @ - 1] /\ client[c].n > 0
        /\ UNCHANGED <<leader, req_id_, push>>
    BY <1>5 DEF PopMsg
  <2> HIDE DEF i, r
  <2>4. Empty \in PlaceType
    BY DEF Empty, PlaceType, Msg, Msgs, Types
  <2>5. [queue[c].place EXCEPT ![i] = Empty] \in [Places -> PlaceType]
    BY <1>1, <2>4 DEF QueueType
  <2>6. queue' \in [Clients -> QueueType]
    BY <1>1, <2>1, <2>3, <2>5 DEF QueueType
  <2>7. inflight' \in [Clients -> Seq(SentType)]
    BY <1>1, <2>2, <2>3
  <2>8. client' \in [Clients -> ClientType]
    <3>1. client[c].n - 1 \in Nat
      BY <1>1, <2>3 DEF ClientType
    <3> QED
      BY <1>1, <2>3, <3>1 DEF ClientType
  <2> QED
    BY <2>3, <2>6, <2>7, <2>8 DEF TypeOK
<1>6. CASE PoppedAll(c)
  BY <1>1, <1>6 DEF PoppedAll, TypeOK, ClientType
<1>7. CASE LoopEnds(c)
  <2>1. client' \in [Clients -> ClientType]
    BY <1>1, <1>7 DEF LoopEnds, ClientType
  <2> QED
    BY <1>7, <2>1 DEF LoopEnds, TypeOK
<1>8. CASE CallbackPing(c)
  <2>1. PICK i \in 1..Len(inflight[c]) : inflight' = [inflight EXCEPT ![c] = RemoveAt(@, i)]
    BY <1>3, <1>8 DEF CallbackPing
  <2>2. RemoveAt(inflight[c], i) \in Seq(SentType)
    BY <1>1, Removed
  <2>3. inflight' \in [Clients -> Seq(SentType)]
    BY <1>1, <2>1, <2>2
  <2> QED
    BY <1>8, <2>3 DEF CallbackPing, TypeOK
<1>9. CASE CallbackCompress(c)
  <2>1. PICK i \in 1..Len(inflight[c]) : inflight' = [inflight EXCEPT ![c] = RemoveAt(@, i)]
    BY <1>3, <1>9 DEF CallbackCompress
  <2>2. RemoveAt(inflight[c], i) \in Seq(SentType)
    BY <1>1, Removed
  <2>3. inflight' \in [Clients -> Seq(SentType)]
    BY <1>1, <2>1, <2>2
  <2>4. client' \in [Clients -> ClientType]
    BY <1>1, <1>9 DEF CallbackCompress, ClientType
  <2> QED
    BY <1>9, <2>3, <2>4 DEF CallbackCompress, TypeOK
<1>10. CASE CallbackWrite(c)
  <2>1. (client[c].id + 1) % ID_MOD \in Nat
    BY <1>1, <1>2 DEF ClientType
  <2>2. client' \in [Clients -> ClientType]
    BY <1>1, <1>10 DEF CallbackWrite, ClientType
  <2>3. req_id_' \in [Clients -> Nat]
    BY <1>10, <2>1 DEF CallbackWrite, TypeOK
  <2> QED
    BY <1>10, <2>2, <2>3 DEF CallbackWrite, TypeOK
<1>11. CASE CallbackPush(c)
  <2>1. push' \in [Threads -> PushType]
    BY <1>1, <1>11, MsgTyped, StartTyped DEF CallbackPush, Types
  <2>2. client' \in [Clients -> ClientType]
    BY <1>1, <1>11 DEF CallbackPush, ClientType
  <2> QED
    BY <1>11, <2>1, <2>2 DEF CallbackPush, TypeOK
<1>12. CASE Answer(c)
  <2>1. PICK i \in 1..Len(inflight[c]) : inflight' = [inflight EXCEPT ![c][i].answered = TRUE]
    BY <1>3, <1>12 DEF Answer
  <2>2. [inflight[c][i] EXCEPT !.answered = TRUE] \in SentType
    <3>1. inflight[c][i] \in SentType
      BY <1>1
    <3> QED
      BY <3>1 DEF SentType
  <2>3. [inflight[c] EXCEPT ![i].answered = TRUE] \in Seq(SentType)
    BY <1>1, <2>2
  <2>4. inflight' \in [Clients -> Seq(SentType)]
    BY <1>1, <2>1, <2>3
  <2> QED
    BY <1>12, <2>4 DEF Answer, TypeOK
<1> QED
  BY <1>4, <1>5, <1>6, <1>7, <1>8, <1>9, <1>10, <1>11, <1>12 DEF ClientStep

-----------------------------------------------------------------------------
(* Every step keeps the invariant.  A step of a client, or of its push,    *)
(* changes nothing of another client.                                      *)
LEMMA OneClient ==
  ASSUME IInv, TypeOK', NEW c \in Clients, leader' = leader,
         push'[Leader] = push[Leader],
         \A d \in Clients : d # c => /\ push'[d] = push[d] /\ queue'[d] = queue[d]
                                     /\ client'[d] = client[d] /\ inflight'[d] = inflight[d],
         ClientOK(c, leader, push[Leader], push'[c], queue'[c], client'[c], inflight'[c])
  PROVE  IInv'
<1>1. LeaderOK(leader', push'[Leader])
  BY DEF IInv
<1>2. ASSUME NEW d \in Clients
      PROVE  ClientOK(d, leader', push'[Leader], push'[d], queue'[d], client'[d], inflight'[d])
  <2>1. CASE d = c
    BY <2>1
  <2>2. CASE d # c
    BY <2>2 DEF IInv
  <2> QED
    BY <2>1, <2>2
<1> QED
  BY <1>1, <1>2 DEF IInv

(* A step of the leader, or of its push, is about one client's queue.      *)
LEMMA OneTarget ==
  ASSUME IInv, TypeOK', NEW c \in Clients,
         LeaderOK(leader', push'[Leader]),
         \A d \in Clients : push'[d] = push[d] /\ client'[d] = client[d] /\ inflight'[d] = inflight[d],
         \A d \in Clients : d # c => /\ queue'[d] = queue[d]
                                     /\ ~Pushing(d, push[Leader]) /\ ~Pushing(d, push'[Leader])
                                     /\ ToCome(d, leader') <=> ToCome(d, leader)
                                     /\ PingToCome(d, leader') <=> PingToCome(d, leader),
         ClientOK(c, leader', push'[Leader], push[c], queue'[c], client[c], inflight[c])
  PROVE  IInv'
<1>1. ASSUME NEW d \in Clients
      PROVE  ClientOK(d, leader', push'[Leader], push'[d], queue'[d], client'[d], inflight'[d])
  <2>1. CASE d = c
    BY <2>1
  <2>2. CASE d # c
    <3>1. ClientOK(d, leader, push[Leader], push[d], queue[d], client[d], inflight[d])
      BY DEF IInv
    <3>2. ClientOK(d, leader', push'[Leader], push[d], queue[d], client[d], inflight[d])
      BY <2>2, <3>1, Elsewhere
    <3> QED
      BY <2>2, <3>2
  <2> QED
    BY <2>1, <2>2
<1> QED
  BY <1>1 DEF IInv

LEMMA Known ==
  ASSUME IInv, NEW c \in Clients
  PROVE  /\ ClientOK(c, leader, push[Leader], push[c], queue[c], client[c], inflight[c])
         /\ LeaderOK(leader, push[Leader])
         /\ Leader \in Threads /\ c \in Threads /\ c # Leader
         /\ push[Leader] \in PushType /\ push[c] \in PushType /\ queue[c] \in QueueType
         /\ client[c] \in ClientType /\ inflight[c] \in Seq(SentType) /\ leader \in LeaderType
         /\ DOMAIN push = Threads /\ DOMAIN queue = Clients /\ DOMAIN client = Clients
         /\ DOMAIN inflight = Clients
<1>1. Leader \in Threads /\ c \in Threads /\ c # Leader
  BY ClientAssumption DEF Threads
<1> QED
  BY <1>1 DEF IInv, TypeOK

(* The leader.                                                             *)
LEMMA TurnOf == ASSUME NEW c \in Clients, Turn(c) PROVE c \in leader.left
  BY DEF Turn

LEMMA PushPingStep ==
  ASSUME IInv, TypeOK', NEW c \in Clients, PushPing(c) PROVE IInv'
<1>1. /\ leader.pc = "ping" /\ push[Leader].at = "none" /\ c \in leader.left
      /\ leader' = [leader EXCEPT !.left = @ \ {c}]
      /\ UNCHANGED <<queue, client, inflight>>
  BY TurnOf DEF PushPing, LeaderFree
<1>2. leader'.pc = "ping" /\ leader'.left = leader.left \ {c}
  BY <1>1, Known DEF LeaderType
<1>3. /\ push'[Leader].at = "load" /\ push'[Leader].q = c /\ push'[Leader].msg.type = "ping"
      /\ \A d \in Clients : push'[d] = push[d]
  <2>1. Msg("ping", 0) \in Msgs /\ Msg("ping", 0).type = "ping"
    BY MsgTyped DEF Types, Msg
  <2>2. StartPush(Leader, c, Msg("ping", 0)) /\ TypeOK
    BY DEF PushPing, IInv
  <2>3. Leader \in Threads /\ \A d \in Clients : d \in Threads /\ d # Leader
    BY ClientAssumption DEF Threads
  <2> QED
    BY <2>1, <2>2, <2>3, StartTyped
<1>4. LeaderOK(leader', push'[Leader])
  BY <1>2, <1>3 DEF LeaderOK
<1>5. ClientOK(c, leader', push'[Leader], push[c], queue[c], client[c], inflight[c])
  <2>1. ClientOK(c, leader, push[Leader], push[c], queue[c], client[c], inflight[c])
    BY Known
  <2>2. c \notin leader'.left
    BY <1>2
  <2>3. leader.pc = "ping" /\ leader'.pc = "ping" /\ c \in leader.left /\ push[Leader].at = "none"
    BY <1>1, <1>2
  <2>4. push'[Leader].at = "load" /\ push'[Leader].q = c /\ push'[Leader].msg.type = "ping"
    BY <1>3
  <2> QED
    BY <2>1, <2>2, <2>3, <2>4, PingStarts
<1>6. \A d \in Clients : d # c => /\ ~Pushing(d, push[Leader]) /\ ~Pushing(d, push'[Leader])
                                  /\ ToCome(d, leader') <=> ToCome(d, leader)
                                  /\ PingToCome(d, leader') <=> PingToCome(d, leader)
  BY <1>1, <1>2, <1>3 DEF Pushing, ToCome, PingToCome
<1> QED
  BY <1>1, <1>3, <1>4, <1>5, <1>6, OneTarget

LEMMA NextTCWriteStep ==
  ASSUME IInv, TypeOK', CONCURRENCY = 1, NEW c \in Clients, NextTCWrite(c) PROVE IInv'
<1>1. /\ leader.pc = "write" /\ push[Leader].at = "none" /\ c \in leader.left
      /\ UNCHANGED <<queue, client, inflight>>
  BY TurnOf DEF NextTCWrite, LeaderFree
<1>2. leader.tmp = 1
  BY <1>1, Known DEF LeaderOK
<1>3. leader' = [leader EXCEPT !.pc = "next", !.tmp = 1, !.left = @ \ {c}]
  BY <1>2 DEF NextTCWrite, Batch
<1>4. leader'.pc = "next" /\ leader'.left = leader.left \ {c} /\ leader'.tmp = 1
  BY <1>3, Known DEF LeaderType
<1>5. /\ push'[Leader].at = "load" /\ push'[Leader].q = c /\ push'[Leader].msg.type = "app1"
      /\ \A d \in Clients : push'[d] = push[d]
  <2>1. leader.id \in Nat
    BY Known DEF LeaderType
  <2>2. Msg("app1", leader.id) \in Msgs /\ Msg("app1", leader.id).type = "app1"
    BY <2>1, MsgTyped DEF Types, Msg
  <2>3. StartPush(Leader, c, Msg("app1", leader.id)) /\ TypeOK
    BY DEF NextTCWrite, IInv
  <2>4. Leader \in Threads /\ \A d \in Clients : d \in Threads /\ d # Leader
    BY ClientAssumption DEF Threads
  <2> QED
    BY <2>2, <2>3, <2>4, StartTyped
<1>6. LeaderOK(leader', push'[Leader])
  BY <1>4, <1>5 DEF LeaderOK
<1>7. ClientOK(c, leader', push'[Leader], push[c], queue[c], client[c], inflight[c])
  <2>1. ClientOK(c, leader, push[Leader], push[c], queue[c], client[c], inflight[c])
    BY Known
  <2>2. c \notin leader'.left
    BY <1>4
  <2> QED
    BY <1>1, <1>4, <1>5, <2>1, <2>2, RequestStarts
<1>8. \A d \in Clients : d # c => /\ ~Pushing(d, push[Leader]) /\ ~Pushing(d, push'[Leader])
                                  /\ ToCome(d, leader') <=> ToCome(d, leader)
                                  /\ PingToCome(d, leader') <=> PingToCome(d, leader)
  BY <1>1, <1>4, <1>5 DEF Pushing, ToCome, PingToCome
<1> QED
  BY <1>1, <1>5, <1>6, <1>7, <1>8, OneTarget

(* Steps of the leader that push nothing.                                  *)
LEMMA LeaderOnly ==
  ASSUME IInv, TypeOK', UNCHANGED <<push, queue, client, inflight>>, push[Leader].at = "none",
         LeaderOK(leader', push[Leader]),
         \A d \in Clients : /\ ToCome(d, leader') <=> ToCome(d, leader)
                            /\ PingToCome(d, leader') <=> PingToCome(d, leader)
  PROVE  IInv'
<1>1. ASSUME NEW d \in Clients
      PROVE  ClientOK(d, leader', push'[Leader], push'[d], queue'[d], client'[d], inflight'[d])
  <2>1. ClientOK(d, leader, push[Leader], push[d], queue[d], client[d], inflight[d])
    BY DEF IInv
  <2>2. ~Pushing(d, push[Leader])
    BY DEF Pushing
  <2>3. ClientOK(d, leader', push[Leader], push[d], queue[d], client[d], inflight[d])
    BY <2>1, <2>2, Elsewhere
  <2> QED
    BY <2>3
<1> QED
  BY <1>1 DEF IInv

LEMMA LeaderInv ==
  ASSUME IInv, CONCURRENCY = 1, LeaderStep PROVE IInv'
<1>1. TypeOK'
  BY LeaderTyped DEF IInv
<1>2. leader \in LeaderType /\ LeaderOK(leader, push[Leader])
  BY DEF IInv, TypeOK
<1>3. CASE AwaitPings
  <2>1. leader.pc = "ping" /\ push[Leader].at = "none" /\ leader.left = {}
        /\ UNCHANGED <<push, queue, client, inflight>>
    BY <1>3 DEF AwaitPings, LeaderFree
  <2>2. leader'.pc = "next" /\ leader'.left = Clients /\ leader'.tmp = 1
    BY <1>2, <1>3 DEF AwaitPings, Batch, LeaderType
  <2>3. LeaderOK(leader', push[Leader])
    BY <2>1, <2>2 DEF LeaderOK
  <2>4. \A d \in Clients : /\ ToCome(d, leader') <=> ToCome(d, leader)
                           /\ PingToCome(d, leader') <=> PingToCome(d, leader)
    BY <2>1, <2>2 DEF ToCome, PingToCome
  <2> QED
    BY <1>1, <2>1, <2>3, <2>4, LeaderOnly
<1>4. CASE Join
  <2>1. leader.pc = "next" /\ push[Leader].at = "none" /\ leader.left = {}
        /\ UNCHANGED <<push, queue, client, inflight>>
    BY <1>4 DEF Join, LeaderFree
  <2>2. leader'.pc = "done" /\ leader'.left = {}
    BY <1>2, <1>4, <2>1 DEF Join, LeaderType
  <2>3. LeaderOK(leader', push[Leader])
    BY <2>1, <2>2 DEF LeaderOK
  <2>4. \A d \in Clients : /\ ToCome(d, leader') <=> ToCome(d, leader)
                           /\ PingToCome(d, leader') <=> PingToCome(d, leader)
    BY <2>1, <2>2 DEF ToCome, PingToCome
  <2> QED
    BY <1>1, <2>1, <2>3, <2>4, LeaderOnly
<1>5. ASSUME NEW c \in Clients, NextTCRead(c) PROVE IInv'
  <2>1. leader.pc = "next" /\ push[Leader].at = "none"
        /\ UNCHANGED <<push, queue, client, inflight>>
    BY <1>5 DEF NextTCRead, LeaderFree
  <2>2. leader'.pc = "write" /\ leader'.left = leader.left /\ leader'.tmp = leader.tmp
    BY <1>2, <1>5 DEF NextTCRead, LeaderType
  <2>3. LeaderOK(leader', push[Leader])
    BY <1>2, <2>1, <2>2 DEF LeaderOK
  <2>4. \A d \in Clients : /\ ToCome(d, leader') <=> ToCome(d, leader)
                           /\ PingToCome(d, leader') <=> PingToCome(d, leader)
    BY <2>1, <2>2 DEF ToCome, PingToCome
  <2> QED
    BY <1>1, <2>1, <2>3, <2>4, LeaderOnly
<1> QED
  BY <1>1, <1>3, <1>4, <1>5, PushPingStep, NextTCWriteStep DEF LeaderStep

(* The steps of a push: what is said of push and queue is the same for the *)
(* leader and for a client.                                                *)
LEMMA PushEffect ==
  ASSUME IInv, NEW t \in Threads, NEW c \in Clients, push[t].q = c, PushStep(t)
  PROVE  LET p == push[t]  s == push'[t]  q == queue[c]  u == queue'[c] IN
         /\ \A d \in Threads : d # t => push'[d] = push[d]
         /\ \A d \in Clients : d # c => queue'[d] = queue[d]
         /\ UNCHANGED <<leader, client, inflight>>
         /\ u.tail = q.tail
         /\ \/ /\ p.at = "load" /\ s.at = "store" /\ s.q = c /\ s.msg = p.msg /\ s.head = q.head
               /\ u = q
            \/ /\ p.at = "store" /\ s.at = "wait" /\ s.q = c /\ s.msg = p.msg /\ s.head = p.head
               /\ u.head = (p.head + 1) % ID_MOD /\ u.place = q.place
            \/ /\ p.at = "wait" /\ s.at = "fill" /\ s.q = c /\ s.msg = p.msg /\ s.head = p.head
               /\ u = q
            \/ /\ p.at = "fill" /\ s.at = "none" /\ u.head = q.head
               /\ u.place = [q.place EXCEPT ![p.head % PLACES] = [stored |-> TRUE, msg |-> p.msg]]
<1>1. push \in [Threads -> PushType] /\ queue \in [Clients -> QueueType]
      /\ push[t] \in PushType /\ queue[c] \in QueueType
  BY DEF IInv, TypeOK
<1>2. UNCHANGED <<leader, client, inflight>>
  BY DEF PushStep
<1>3. CASE PushLoad(t)
  BY <1>1, <1>2, <1>3 DEF PushLoad, PushType
<1>4. CASE PushStore(t)
  BY <1>1, <1>2, <1>4 DEF PushStore, PushType, QueueType
<1>5. CASE PushWait(t)
  BY <1>1, <1>2, <1>5 DEF PushWait, PushType
<1>6. CASE PushFill(t)
  <2>1. NoPush.at = "none"
    BY DEF NoPush
  <2> QED
    BY <1>1, <1>2, <1>6, <2>1 DEF PushFill, PushType, QueueType
<1> QED
  BY <1>3, <1>4, <1>5, <1>6 DEF PushStep

LEMMA LeaderPushInv ==
  ASSUME IInv, PushStep(Leader) PROVE IInv'
<1>1. push[Leader].at # "none" /\ Leader \in Threads
  BY DEF PushStep, PushLoad, PushStore, PushWait, PushFill, Threads
<1>2. push[Leader].q \in Clients
  BY <1>1 DEF IInv, LeaderOK
<1>3. TypeOK'
  BY <1>1, <1>2, PushTyped DEF IInv
<1> DEFINE c == push[Leader].q
           p == push[Leader]
           s == push'[Leader]
           q == queue[c]
           u == queue'[c]
<1>4. c \in Clients /\ p.q = c /\ Pushing(c, p)
  BY <1>1, <1>2 DEF Pushing
<1>5. /\ \A d \in Clients : push'[d] = push[d]
      /\ \A d \in Clients : d # c => queue'[d] = queue[d]
      /\ UNCHANGED <<leader, client, inflight>>
      /\ u.tail = q.tail
      /\ \/ /\ p.at = "load" /\ s.at = "store" /\ s.q = c /\ s.msg = p.msg /\ s.head = q.head
            /\ u = q
         \/ /\ p.at = "store" /\ s.at = "wait" /\ s.q = c /\ s.msg = p.msg /\ s.head = p.head
            /\ u.head = (p.head + 1) % ID_MOD /\ u.place = q.place
         \/ /\ p.at = "wait" /\ s.at = "fill" /\ s.q = c /\ s.msg = p.msg /\ s.head = p.head
            /\ u = q
         \/ /\ p.at = "fill" /\ s.at = "none" /\ u.head = q.head
            /\ u.place = [q.place EXCEPT ![p.head % PLACES] = [stored |-> TRUE, msg |-> p.msg]]
  <2>1. \A d \in Clients : d \in Threads /\ d # Leader
    BY ClientAssumption DEF Threads
  <2> QED
    BY <1>1, <1>2, <2>1, PushEffect
<1>6. /\ ClientOK(c, leader, p, push[c], q, client[c], inflight[c]) /\ LeaderOK(leader, p)
      /\ p \in PushType /\ push[c] \in PushType /\ q \in QueueType
  BY <1>2, Known
<1>7. RingOK(c, p, push[c], q)
  BY <1>6 DEF ClientOK, RingOK
<1>8. ~Pushing(c, push[c])
  BY <1>4, <1>6, Alone
<1>9. \A d \in Clients : d # c => ~Pushing(d, p) /\ ~Pushing(d, s)
  BY <1>5 DEF Pushing
<1>10. p.msg \in Msgs
  BY <1>6 DEF PushType
<1>11. LeaderOK(leader, s)
  BY <1>1, <1>2, <1>5, <1>6 DEF LeaderOK
<1>12. ClientOK(c, leader, s, push[c], u, client[c], inflight[c])
  <2> HIDE DEF c, p, s, q, u
  <2>1. CASE p.at = "load"
    <3>1. u = q /\ s.at = "store" /\ s.q = c /\ s.msg = p.msg /\ s.head = q.head
      BY <1>5, <2>1
    <3>2. RingOK(c, s, push[c], q)
      BY <1>7, <1>8, <2>1, <3>1, RingLoad
    <3> QED
      BY <1>4, <1>6, <2>1, <3>1, <3>2, LeaderPushMoves
  <2>2. CASE p.at = "store"
    <3>1. /\ s.at = "wait" /\ s.q = c /\ s.msg = p.msg /\ s.head = p.head
          /\ u.head = (p.head + 1) % ID_MOD /\ u.tail = q.tail /\ u.place = q.place
      BY <1>5, <2>2
    <3>2. Size(q) <= 1
      BY <1>4, <1>6, <2>2, FewBefore
    <3>3. RingOK(c, s, push[c], u)
      BY <1>4, <1>6, <1>7, <1>8, <2>2, <3>1, <3>2, RingStore
    <3> QED
      BY <1>4, <1>6, <2>2, <3>1, <3>3, LeaderPushMoves
  <2>3. CASE p.at = "wait"
    <3>1. u = q /\ s.at = "fill" /\ s.q = c /\ s.msg = p.msg /\ s.head = p.head
      BY <1>5, <2>3
    <3>2. RingOK(c, s, push[c], q)
      BY <1>4, <1>7, <2>3, <3>1, RingWait
    <3> QED
      BY <1>4, <1>6, <2>3, <3>1, <3>2, LeaderPushMoves
  <2>4. CASE p.at = "fill"
    <3>1. /\ s.at = "none" /\ u.head = q.head /\ u.tail = q.tail
          /\ u.place = [q.place EXCEPT ![p.head % PLACES] = [stored |-> TRUE, msg |-> p.msg]]
      BY <1>5, <2>4
    <3>2. RingOK(c, s, push[c], u)
      BY <1>4, <1>6, <1>7, <1>8, <1>10, <2>4, <3>1, RingFill
    <3> QED
      BY <1>4, <1>6, <2>4, <3>1, <3>2, LeaderPushEnds
  <2> QED
    BY <1>5, <2>1, <2>2, <2>3, <2>4
<1> QED
  BY <1>3, <1>4, <1>5, <1>9, <1>11, <1>12, OneTarget

LEMMA OwnPushInv ==
  ASSUME IInv, NEW c \in Clients, PushStep(c) PROVE IInv'
<1>1. push[c].at # "none" /\ c \in Threads
  BY DEF PushStep, PushLoad, PushStore, PushWait, PushFill, Threads
<1> DEFINE l == push[Leader]
           p == push[c]
           s == push'[c]
           q == queue[c]
           u == queue'[c]
<1>2. /\ ClientOK(c, leader, l, p, q, client[c], inflight[c]) /\ LeaderOK(leader, l)
      /\ p \in PushType /\ l \in PushType /\ q \in QueueType
  BY Known
<1>3. p.q = c /\ Pushing(c, p)
  BY <1>1, <1>2 DEF ClientOK, OwnOK, Pushing
<1>4. TypeOK'
  BY <1>1, <1>3, PushTyped DEF IInv
<1>5. /\ push'[Leader] = l /\ \A d \in Clients : d # c => push'[d] = push[d]
      /\ \A d \in Clients : d # c => queue'[d] = queue[d]
      /\ UNCHANGED <<leader, client, inflight>>
      /\ u.tail = q.tail
      /\ \/ /\ p.at = "load" /\ s.at = "store" /\ s.q = c /\ s.msg = p.msg /\ s.head = q.head
            /\ u = q
         \/ /\ p.at = "store" /\ s.at = "wait" /\ s.q = c /\ s.msg = p.msg /\ s.head = p.head
            /\ u.head = (p.head + 1) % ID_MOD /\ u.place = q.place
         \/ /\ p.at = "wait" /\ s.at = "fill" /\ s.q = c /\ s.msg = p.msg /\ s.head = p.head
            /\ u = q
         \/ /\ p.at = "fill" /\ s.at = "none" /\ u.head = q.head
            /\ u.place = [q.place EXCEPT ![p.head % PLACES] = [stored |-> TRUE, msg |-> p.msg]]
  <2>1. Leader \in Threads /\ Leader # c /\ \A d \in Clients : d \in Threads
    BY ClientAssumption DEF Threads
  <2> QED
    BY <1>1, <1>3, <2>1, PushEffect
<1>6. RingOK(c, p, l, q)
  BY <1>2 DEF ClientOK, RingOK, QueueOK, ShapeOK
<1>7. ~Pushing(c, l)
  BY <1>2, <1>3, Alone
<1>8. p.msg \in Msgs
  BY <1>2 DEF PushType
<1>9. ClientOK(c, leader, l, s, u, client[c], inflight[c])
  <2> HIDE DEF l, p, s, q, u
  <2>1. CASE p.at = "load"
    <3>1. u = q /\ s.at = "store" /\ s.q = c /\ s.msg = p.msg /\ s.head = q.head
      BY <1>5, <2>1
    <3>2. RingOK(c, s, l, q)
      BY <1>6, <1>7, <2>1, <3>1, RingLoad
    <3> QED
      BY <1>2, <1>3, <2>1, <3>1, <3>2, OwnPushMoves
  <2>2. CASE p.at = "store"
    <3>1. /\ s.at = "wait" /\ s.q = c /\ s.msg = p.msg /\ s.head = p.head
          /\ u.head = (p.head + 1) % ID_MOD /\ u.tail = q.tail /\ u.place = q.place
      BY <1>5, <2>2
    <3>2. Size(q) <= 1
      BY <1>2, <2>2, FewBefore
    <3>3. RingOK(c, s, l, u)
      BY <1>2, <1>3, <1>6, <1>7, <2>2, <3>1, <3>2, RingStore
    <3> QED
      BY <1>2, <1>3, <2>2, <3>1, <3>3, OwnPushMoves
  <2>3. CASE p.at = "wait"
    <3>1. u = q /\ s.at = "fill" /\ s.q = c /\ s.msg = p.msg /\ s.head = p.head
      BY <1>5, <2>3
    <3>2. RingOK(c, s, l, q)
      BY <1>3, <1>6, <2>3, <3>1, RingWait
    <3> QED
      BY <1>2, <1>3, <2>3, <3>1, <3>2, OwnPushMoves
  <2>4. CASE p.at = "fill"
    <3>1. /\ s.at = "none" /\ u.head = q.head /\ u.tail = q.tail
          /\ u.place = [q.place EXCEPT ![p.head % PLACES] = [stored |-> TRUE, msg |-> p.msg]]
      BY <1>5, <2>4
    <3>2. RingOK(c, s, l, u)
      BY <1>2, <1>3, <1>6, <1>7, <1>8, <2>4, <3>1, RingFill
    <3> QED
      BY <1>2, <2>4, <3>1, <3>2, OwnPushEnds
  <2> QED
    BY <1>5, <2>1, <2>2, <2>3, <2>4
<1> QED
  BY <1>4, <1>5, <1>9, OneClient

(* The client's thread.                                                    *)
LEMMA ThreadInv ==
  ASSUME IInv, NEW c \in Clients, ClientStep(c) \/ Answer(c) PROVE IInv'
<1> DEFINE l == push[Leader]
           p == push[c]
           q == queue[c]
           k == client[c]
           f == inflight[c]
<1>1. /\ ClientOK(c, leader, l, p, q, k, f) /\ LeaderOK(leader, l)
      /\ p \in PushType /\ l \in PushType /\ q \in QueueType /\ k \in ClientType
      /\ f \in Seq(SentType) /\ DOMAIN client = Clients /\ DOMAIN inflight = Clients
      /\ DOMAIN queue = Clients
  BY Known
<1>2. TypeOK'
  BY ThreadTyped DEF IInv
<1>3. DOMAIN f = 1..Len(f)
  BY <1>1
(* Only the thread moves.                                                  *)
<1>4. ASSUME NEW pc, client'[c].pc = pc, pc \in {"write", "again"} <=> k.pc \in {"write", "again"},
             \A d \in Clients : d # c => client'[d] = client[d],
             UNCHANGED <<leader, push, queue, inflight>>
      PROVE  IInv'
  <2>1. InCallback(client'[c]) <=> InCallback(k)
    BY <1>4 DEF InCallback
  <2>2. ClientOK(c, leader, l, p, q, client'[c], f)
    BY <1>1, <2>1, ThreadMoves
  <2> QED
    BY <1>2, <1>4, <2>2, OneClient
<1>5. CASE WasSize(c)
  <2>1. k.pc = "size" /\ UNCHANGED <<leader, push, queue, inflight>>
        /\ client'[c].pc = "pop" /\ \A d \in Clients : d # c => client'[d] = client[d]
    BY <1>1, <1>5 DEF WasSize, ClientFree, ClientType
  <2> QED
    BY <1>4, <2>1
<1>6. CASE PoppedAll(c)
  <2>1. k.pc = "pop" /\ UNCHANGED <<leader, push, queue, inflight>>
        /\ client'[c].pc = "events" /\ \A d \in Clients : d # c => client'[d] = client[d]
    BY <1>1, <1>6 DEF PoppedAll, ClientFree, ClientType
  <2> QED
    BY <1>4, <2>1
<1>7. CASE LoopEnds(c)
  <2>1. k.pc = "events" /\ UNCHANGED <<leader, push, queue, inflight>>
        /\ client'[c].pc \in {"stopped", "size"} /\ \A d \in Clients : d # c => client'[d] = client[d]
    BY <1>1, <1>7 DEF LoopEnds, ClientFree, ClientType
  <2> QED
    BY <1>4, <2>1
<1>8. CASE CallbackWrite(c)
  <2>1. k.pc = "write" /\ UNCHANGED <<leader, push, queue, inflight>>
        /\ client'[c].pc = "again" /\ \A d \in Clients : d # c => client'[d] = client[d]
    BY <1>1, <1>8 DEF CallbackWrite, ClientFree, ClientType
  <2> QED
    BY <1>4, <2>1
<1>9. CASE PopMsg(c)
  <2> DEFINE i == q.tail % PLACES
             x == [type |-> q.place[i].msg.type, id |-> q.place[i].msg.id, answered |-> FALSE]
  <2>1. /\ k.pc = "pop" /\ UNCHANGED <<leader, push>> /\ q.place[i].stored
        /\ queue' = [queue EXCEPT ![c].tail = (@ + 1) % ID_MOD, ![c].place[i] = Empty]
        /\ inflight' = [inflight EXCEPT ![c] = Append(@, x)]
        /\ client' = [client EXCEPT ![c].n = @ - 1]
    BY <1>9 DEF PopMsg, ClientFree, Filled
  <2>2. /\ \A d \in Clients : d # c => /\ queue'[d] = queue[d] /\ client'[d] = client[d]
                                       /\ inflight'[d] = inflight[d]
        /\ inflight'[c] = Append(f, x)
    BY <1>1, <2>1
  <2>3. client'[c].pc = k.pc
    BY <1>1, <2>1 DEF ClientType
  <2>4. /\ queue'[c].head = q.head /\ queue'[c].tail = (q.tail + 1) % ID_MOD
        /\ queue'[c].place = [q.place EXCEPT ![i] = Empty]
    BY <1>1, <2>1 DEF QueueType
  <2>5. i = First(q) /\ i \in Places
    <3>1. q.tail \in Nat /\ PLACES \in Nat /\ PLACES >= 2
      BY <1>1, ClientAssumption DEF QueueType, Ids
    <3> QED
      BY <3>1 DEF First, Places
  <2>6. x \in SentType /\ x.type = q.place[i].msg.type
    <3>1. q.place[i].msg \in Msgs
      BY <1>1, <2>5 DEF QueueType, PlaceType
    <3> QED
      BY <3>1 DEF Msgs, SentType
  <2>7. InCallback(client'[c]) <=> InCallback(k)
    BY <2>3 DEF InCallback
  <2>8. ClientOK(c, leader, l, p, queue'[c], client'[c], Append(f, x))
    <3> HIDE DEF i, x, l, p, q, k, f
    <3> QED
      BY <1>1, <2>1, <2>4, <2>5, <2>6, <2>7, Popped
  <2> QED
    BY <1>2, <2>1, <2>2, <2>8, OneClient
<1>10. CASE CallbackPing(c)
  <2>1. PICK i \in 1..Len(f) : /\ f[i].type = "ping"
                               /\ inflight' = [inflight EXCEPT ![c] = RemoveAt(@, i)]
    BY <1>3, <1>10 DEF CallbackPing
  <2>2. /\ UNCHANGED <<leader, push, queue, client>> /\ inflight'[c] = RemoveAt(f, i)
        /\ \A d \in Clients : d # c => inflight'[d] = inflight[d]
    BY <1>1, <1>10, <2>1 DEF CallbackPing
  <2>3. Flying(f) = {} \/ Single(Flying(f))
    BY <1>1 DEF ClientOK, TokenOK, ExactlyOne
  <2>4. /\ Flying(f) = {} => Flying(RemoveAt(f, i)) = {}
        /\ Single(Flying(f)) => Single(Flying(RemoveAt(f, i)))
    BY <1>1, <2>1, PingAnswered
  <2>5. ClientOK(c, leader, l, p, q, k, RemoveAt(f, i))
    <3> HIDE DEF l, p, q, k, f
    <3> QED
      BY <1>1, <2>3, <2>4, ThreadMoves
  <2> QED
    BY <1>2, <2>2, <2>5, OneClient
<1>11. CASE CallbackCompress(c)
  <2>1. PICK i \in 1..Len(f) : /\ f[i].type = "app1"
                               /\ inflight' = [inflight EXCEPT ![c] = RemoveAt(@, i)]
    BY <1>3, <1>11 DEF CallbackCompress
  <2>2. /\ UNCHANGED <<leader, push, queue>> /\ inflight'[c] = RemoveAt(f, i)
        /\ client'[c].pc = "write"
        /\ \A d \in Clients : d # c => inflight'[d] = inflight[d] /\ client'[d] = client[d]
    BY <1>1, <1>11, <2>1 DEF CallbackCompress, ClientType
  <2>3. ClientOK(c, leader, l, p, q, client'[c], RemoveAt(f, i))
    <3> HIDE DEF l, p, q, k, f
    <3> QED
      BY <1>1, <2>1, <2>2, RequestAnswered
  <2> QED
    BY <1>2, <2>2, <2>3, OneClient
<1>12. CASE CallbackPush(c)
  <2>1. /\ k.pc = "again" /\ p.at = "none" /\ UNCHANGED <<leader, queue, inflight>>
        /\ client'[c].pc = "events" /\ \A d \in Clients : d # c => client'[d] = client[d]
    BY <1>1, <1>12 DEF CallbackPush, ClientFree, ClientType
  <2>2. /\ push'[c].at = "load" /\ push'[c].q = c /\ push'[c].msg.type = "app1"
        /\ push'[Leader] = l /\ \A d \in Clients : d # c => push'[d] = push[d]
    <3>1. TypeOK /\ req_id_[c] \in Nat
      BY DEF IInv, TypeOK
    <3>2. Msg("app1", req_id_[c]) \in Msgs /\ Msg("app1", req_id_[c]).type = "app1"
      BY <3>1, MsgTyped DEF Types, Msg
    <3>3. StartPush(c, c, Msg("app1", req_id_[c]))
      BY <1>12 DEF CallbackPush
    <3>4. Leader \in Threads /\ Leader # c /\ \A d \in Clients : d \in Threads
      BY ClientAssumption DEF Threads
    <3> QED
      BY <3>1, <3>2, <3>3, <3>4, StartTyped
  <2>3. ClientOK(c, leader, l, push'[c], q, client'[c], f)
    <3> HIDE DEF l, p, q, k, f
    <3> QED
      BY <1>1, <2>1, <2>2, CallbackPushes
  <2> QED
    BY <1>2, <2>1, <2>2, <2>3, OneClient
<1>13. CASE Answer(c)
  <2>1. PICK i \in 1..Len(f) : inflight' = [inflight EXCEPT ![c][i].answered = TRUE]
    BY <1>3, <1>13 DEF Answer
  <2>2. /\ UNCHANGED <<leader, push, queue, client>>
        /\ inflight'[c] = [f EXCEPT ![i].answered = TRUE]
        /\ \A d \in Clients : d # c => inflight'[d] = inflight[d]
    BY <1>1, <1>13, <2>1 DEF Answer
  <2> DEFINE g == [f EXCEPT ![i].answered = TRUE]
  <2>3. f[i] \in SentType /\ Len(g) = Len(f)
    BY <1>1
  <2>4. g[i].type = f[i].type /\ \A j \in 1..Len(f) : j # i => g[j] = f[j]
    BY <1>1, <2>3 DEF SentType
  <2> HIDE DEF g
  <2>5. Flying(g) = Flying(f)
    BY <2>3, <2>4 DEF Flying
  <2>6. ClientOK(c, leader, l, p, q, k, g)
    <3> HIDE DEF l, p, q, k, f
    <3> QED
      BY <1>1, <2>5, ThreadMoves
  <2> QED
    BY <1>2, <2>2, <2>6, OneClient DEF g
<1> QED
  BY <1>5, <1>6, <1>7, <1>8, <1>9, <1>10, <1>11, <1>12, <1>13 DEF ClientStep

LEMMA NextInv ==
  ASSUME IInv, CONCURRENCY = 1, [Next]_vars PROVE IInv'
<1>1. CASE UNCHANGED vars
  BY <1>1 DEF vars, IInv, TypeOK
<1>2. CASE CtrlC
  BY <1>2 DEF CtrlC, IInv, TypeOK
<1>3. CASE LeaderStep
  BY <1>3, LeaderInv
<1>4. ASSUME NEW t \in Clients \cup {Leader}, PushStep(t) PROVE IInv'
  BY <1>4, LeaderPushInv, OwnPushInv
<1>5. ASSUME NEW c \in Clients, ClientStep(c) \/ Answer(c) PROVE IInv'
  BY <1>5, ThreadInv
<1> QED
  BY <1>1, <1>2, <1>3, <1>4, <1>5 DEF Next

-----------------------------------------------------------------------------
(* What the queue holds of requests, as UnderWay counts it.                *)
LEMMA QueueCount ==
  ASSUME NEW c, NEW lp, NEW op, NEW q \in QueueType, QueueOK(c, lp, op, q)
  PROVE  /\ was_size(q) = Size(q) /\ Size(q) \in 0..2
         /\ \A k \in 0..(Size(q) - 1) : /\ k = 0 => (q.tail + k) % PLACES = First(q)
                                        /\ k = 1 => (q.tail + k) % PLACES = Second(q)
                                        /\ k \in {0, 1}
         /\ StoredAt(q) # {} => Size(q) >= 1
         /\ Second(q) \in StoredAt(q) => Size(q) = 2
         /\ First(q) # Second(q) /\ StoredAt(q) \subseteq {First(q), Second(q)}
<1>1. /\ q.tail \in Nat /\ q.head \in Nat /\ PLACES \in Nat /\ PLACES >= 2
      /\ ID_MOD \in Nat /\ ID_MOD >= 6
  BY ClientAssumption DEF QueueType, Ids
<1>2. First(q) # Second(q)
  BY <1>1, Neighbours DEF First, Second
<1>3. ShapeOK(Size(q), First(q), Second(q), StoredAt(q), Claimed(c, lp) \/ Claimed(c, op))
  BY DEF QueueOK
<1>4. Size(q) \in 0..2
  BY <1>3 DEF ShapeOK
<1>5. was_size(q) = Size(q)
  <2>1. Size(q) < ID_MOD \div 2
    BY <1>1, <1>4
  <2> QED
    BY <2>1 DEF was_size, Size
<1>6. \A k \in 0..(Size(q) - 1) : /\ k = 0 => (q.tail + k) % PLACES = First(q)
                                  /\ k = 1 => (q.tail + k) % PLACES = Second(q)
                                  /\ k \in {0, 1}
  BY <1>1, <1>4 DEF First, Second
<1> QED
  BY <1>2, <1>3, <1>4, <1>5, <1>6 DEF ShapeOK

LEMMA CountOne == ASSUME NEW S, Single(S) PROVE Cardinality(S) = 1
  BY FS_Singleton DEF Single

LEMMA CountNone == Cardinality({}) = 0
  BY FS_EmptySet

LEMMA OneUnderWay ==
  ASSUME IInv, NEW c \in Clients, ~ToCome(c, leader) PROVE UnderWay(c) = 1
<1> DEFINE l == push[Leader]
           p == push[c]
           q == queue[c]
           F == {i \in DOMAIN inflight[c] : inflight[c][i].type = "app1"}
           W == {k \in 0..(was_size(q) - 1) : q.place[(q.tail + k) % PLACES].stored
                                              /\ q.place[(q.tail + k) % PLACES].msg.type = "app1"}
           T == {t \in {c, Leader} : push[t].at # "none" /\ push[t].q = c /\ push[t].msg.type = "app1"}
           H == Holds(q, "app1")
<1>1. /\ ClientOK(c, leader, l, p, q, client[c], inflight[c])
      /\ l \in PushType /\ p \in PushType /\ q \in QueueType /\ inflight[c] \in Seq(SentType)
      /\ c # Leader
  BY Known
<1>2. F = Flying(inflight[c])
  BY <1>1 DEF Flying
<1>3. UnderWay(c) = Cardinality(F) + Cardinality(W) + Cardinality(T)
                    + (IF InCallback(client[c]) THEN 1 ELSE 0)
  BY DEF UnderWay, InCallback
<1>4. OwnOK(c, p) /\ QueueOK(c, l, p, q) /\ TokenOK(c, leader, l, p, q, client[c], inflight[c])
  BY <1>1 DEF ClientOK
<1>5. (Leader \in T <=> PushingType(c, l, "app1")) /\ (c \in T <=> p.at # "none")
      /\ T \subseteq {c, Leader}
  BY <1>4 DEF PushingType, Pushing, OwnOK
<1>6. /\ was_size(q) = Size(q) /\ Size(q) \in 0..2
      /\ \A k \in 0..(Size(q) - 1) : /\ k = 0 => (q.tail + k) % PLACES = First(q)
                                     /\ k = 1 => (q.tail + k) % PLACES = Second(q)
                                     /\ k \in {0, 1}
      /\ StoredAt(q) # {} => Size(q) >= 1
      /\ Second(q) \in StoredAt(q) => Size(q) = 2
      /\ First(q) # Second(q) /\ StoredAt(q) \subseteq {First(q), Second(q)}
  BY <1>1, <1>4, QueueCount
<1>7. H \subseteq StoredAt(q) /\ First(q) \in Places /\ Second(q) \in Places
  <2>1. q.tail \in Nat /\ PLACES \in Nat /\ PLACES >= 2
    BY <1>1, ClientAssumption DEF QueueType, Ids
  <2> QED
    BY <2>1 DEF Holds, StoredAt, First, Second, Places
<1>8. /\ 0 \in W <=> First(q) \in H
      /\ 1 \in W <=> Second(q) \in H
      /\ W \subseteq {0, 1}
  <2>1. \A k \in 0..(Size(q) - 1) : k \in W <=> (q.tail + k) % PLACES \in H
    BY <1>6, <1>7 DEF Holds
  <2>2. \A k : k \in W => k \in 0..(Size(q) - 1)
    BY <1>6
  <2>3. First(q) \in H => 0 \in 0..(Size(q) - 1)
    BY <1>6, <1>7
  <2>4. Second(q) \in H => 1 \in 0..(Size(q) - 1)
    BY <1>6, <1>7
  <2> HIDE DEF W, H
  <2>5. 0 \in W <=> First(q) \in H
    BY <1>6, <2>1, <2>2, <2>3
  <2>6. 1 \in W <=> Second(q) \in H
    BY <1>6, <2>1, <2>2, <2>4
  <2>7. W \subseteq {0, 1}
    BY <1>6, <2>2
  <2> QED
    BY <2>5, <2>6, <2>7
<1>9. ExactlyOne(FALSE, PushingType(c, l, "app1"), H, F, InCallback(client[c]), p.at # "none")
  BY <1>2, <1>4 DEF TokenOK, ExactlyOne
<1> HIDE DEF F, W, T, H, l, p, q
<1>10. H = {} => W = {}
  BY <1>8
<1>11. Single(H) => Single(W)
  <2> SUFFICES ASSUME Single(H) PROVE Single(W)
    OBVIOUS
  <2>1. PICK x \in H : H = {x}
    BY DEF Single
  <2>2. x = First(q) \/ x = Second(q)
    BY <1>6, <1>7
  <2>3. CASE x = First(q)
    <3>1. W = {0}
      BY <1>6, <1>8, <2>1, <2>3
    <3> QED
      BY <3>1 DEF Single
  <2>4. CASE x = Second(q)
    <3>1. W = {1}
      BY <1>6, <1>8, <2>1, <2>4
    <3> QED
      BY <3>1 DEF Single
  <2> QED
    BY <2>2, <2>3, <2>4
<1>12. ~PushingType(c, l, "app1") /\ ~(p.at # "none") => T = {}
  BY <1>5
<1>13. PushingType(c, l, "app1") /\ ~(p.at # "none") => Single(T)
  BY <1>5 DEF Single
<1>14. ~PushingType(c, l, "app1") /\ p.at # "none" => Single(T)
  BY <1>5 DEF Single
<1>15. CASE PushingType(c, l, "app1")
  <2>1. H = {} /\ F = {} /\ ~InCallback(client[c]) /\ ~(p.at # "none")
    BY <1>9, <1>15 DEF ExactlyOne
  <2>2. Cardinality(F) = 0 /\ Cardinality(W) = 0 /\ Cardinality(T) = 1
    BY <1>10, <1>13, <1>15, <2>1, CountOne, CountNone
  <2> QED
    BY <1>3, <2>1, <2>2
<1>16. CASE Single(H)
  <2>1. H # {}
    BY <1>16 DEF Single
  <2>2. F = {} /\ ~InCallback(client[c]) /\ ~(p.at # "none") /\ ~PushingType(c, l, "app1")
    BY <1>9, <2>1 DEF ExactlyOne
  <2>3. Cardinality(F) = 0 /\ Cardinality(W) = 1 /\ Cardinality(T) = 0
    BY <1>11, <1>12, <1>16, <2>2, CountOne, CountNone
  <2> QED
    BY <1>3, <2>2, <2>3
<1>17. CASE Single(F)
  <2>1. F # {}
    BY <1>17 DEF Single
  <2>2. H = {} /\ ~InCallback(client[c]) /\ ~(p.at # "none") /\ ~PushingType(c, l, "app1")
    BY <1>9, <2>1 DEF ExactlyOne
  <2>3. Cardinality(F) = 1 /\ Cardinality(W) = 0 /\ Cardinality(T) = 0
    BY <1>10, <1>12, <1>17, <2>2, CountOne, CountNone
  <2> QED
    BY <1>3, <2>2, <2>3
<1>18. CASE InCallback(client[c])
  <2>1. H = {} /\ F = {} /\ ~(p.at # "none") /\ ~PushingType(c, l, "app1")
    BY <1>9, <1>18 DEF ExactlyOne
  <2>2. Cardinality(F) = 0 /\ Cardinality(W) = 0 /\ Cardinality(T) = 0
    BY <1>10, <1>12, <2>1, CountNone
  <2> QED
    BY <1>3, <1>18, <2>2
<1>19. CASE p.at # "none"
  <2>1. H = {} /\ F = {} /\ ~InCallback(client[c]) /\ ~PushingType(c, l, "app1")
    BY <1>9, <1>19 DEF ExactlyOne
  <2>2. Cardinality(F) = 0 /\ Cardinality(W) = 0 /\ Cardinality(T) = 1
    BY <1>10, <1>14, <1>19, <2>1, CountOne, CountNone
  <2> QED
    BY <1>3, <2>1, <2>2
<1> QED
  BY <1>9, <1>15, <1>16, <1>17, <1>18, <1>19 DEF ExactlyOne

(* No request is lost between the two producers of a queue, and none is    *)
(* doubled: once the leader is through, every client has its one request   *)
(* under way.                                                              *)
THEOREM RequestNeverLost == CONCURRENCY = 1 => (Spec => []RequestsKept)
<1> SUFFICES ASSUME CONCURRENCY = 1 PROVE Spec => []RequestsKept
  OBVIOUS
<1>1. IInv /\ [Next]_vars => IInv'
  BY NextInv
<1>2. IInv => RequestsKept
  <2> SUFFICES ASSUME IInv, leader.pc = "next", leader.left = {}, NEW c \in Clients
               PROVE  UnderWay(c) = CONCURRENCY
    BY DEF RequestsKept
  <2>1. ~ToCome(c, leader)
    BY DEF ToCome
  <2> QED
    BY <2>1, OneUnderWay
<1> QED
  BY <1>1, <1>2, InitInv, PTL DEF Spec

=============================================================================
