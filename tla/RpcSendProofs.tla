---------------------------- MODULE RpcSendProofs ----------------------------
(* Proofs about the send side, for any number of lanes, any lengths and    *)
(* any depths of the queues.                                               *)
(*                                                                         *)
(* The argument: the messages a lane announces, in their order, are one    *)
(* stream of beats, and the messages MemToNet takes over from the arbiter  *)
(* are another.  Every queue of beats holds a piece of its stream, and     *)
(* every queue of metas the announcements from a place on.  The register   *)
(* of the arbiter ties the two streams together, the length the engine     *)
(* has left ties the second one to its announcements.                      *)
(*                                                                         *)
(* On the way in, the beats that wait in a stream are the rest of the part *)
(* of the object in work, as long as the register says, and the parts of   *)
(* the objects whose commands wait.                                        *)
EXTENDS RpcSend, FifoLemmas

Metas == {m \in [id: Nat, length: Nat] : m.length > 0 /\ m.length % 64 = 0}
Beat  == [id: Nat, k: Nat, last: BOOLEAN]
Cells == Nat \X Nat

(* The beats of message m, with e more than its length says.               *)
Size(m, e) == (m.length \div 64) + e

(* Beat c[2] of message c[1] of the messages s.                            *)
Inside(s, e, c) == c[1] \in 1..Len(s) /\ c[2] \in 1..Size(s[c[1]], e)
After(s, e, c)  == IF c[2] < Size(s[c[1]], e) THEN <<c[1], c[2] + 1>> ELSE <<c[1] + 1, 1>>
Match(x, s, e, c) ==
  /\ x.id = s[c[1]].id /\ x.k = c[2]
  /\ x.last <=> c[2] = Size(s[c[1]], e)

Same       == [c \in Cells |-> c]
Step(s, e) == [c \in Cells |-> After(s, e, c)]

Walk(g, s, e, a, z) ==
  /\ Chain(g, Same, Step(s, e), a, z)
  /\ \A i \in 1..Len(g) : Inside(s, e, g[i])

(* Queue q holds the beats of the messages s from a up to z.               *)
Stream(q, s, e, a, z) ==
  \E g \in Seq(Cells) : /\ Len(g) = Len(q)
                        /\ Walk(g, s, e, a, z)
                        /\ \A i \in 1..Len(q) : Match(q[i], s, e, g[i])

-----------------------------------------------------------------------------
LEMMA SizeType ==
  ASSUME NEW m \in Metas, NEW e \in {0, 1}
  PROVE  /\ Size(m, e) \in Nat /\ Size(m, e) >= 1 /\ Size(m, 0) \in Nat /\ Size(m, 0) >= 1
         /\ m.length = 64 * Size(m, 0) /\ Size(m, 1) = Size(m, 0) + 1
         /\ m.length \in Nat /\ m.id \in Nat
<1>1. m.length \in Nat /\ m.length > 0 /\ m.length % 64 = 0 /\ m.id \in Nat
  BY DEF Metas
<1> QED
  BY <1>1 DEF Size

LEMMA StepIs ==
  ASSUME NEW s, NEW e, NEW c \in Cells PROVE Step(s, e)[c] = After(s, e, c) /\ Same[c] = c
  BY DEF Step, Same

(* The place after a beat of the stream.                                   *)
LEMMA AfterIs ==
  ASSUME NEW s \in Seq(Metas), NEW e \in {0, 1}, NEW c \in Cells, Inside(s, e, c)
  PROVE  /\ After(s, e, c) \in Cells
         /\ c[2] < Size(s[c[1]], e) => After(s, e, c) = <<c[1], c[2] + 1>>
         /\ c[2] = Size(s[c[1]], e) => After(s, e, c) = <<c[1] + 1, 1>>
<1>1. c[1] \in Nat /\ c[2] \in Nat
  BY DEF Cells
<1>2. s[c[1]] \in Metas
  BY DEF Inside
<1>3. Size(s[c[1]], e) \in Nat
  BY <1>2, SizeType
<1>4. <<c[1], c[2] + 1>> \in Cells /\ <<c[1] + 1, 1>> \in Cells
  BY <1>1 DEF Cells
<1> QED
  BY <1>1, <1>3, <1>4 DEF After

LEMMA StreamNil ==
  ASSUME NEW s, NEW e, NEW a PROVE Stream(<<>>, s, e, a, a)
<1>1. <<>> \in Seq(Cells) /\ Len(<<>>) = 0
  OBVIOUS
<1>2. 1..Len(<<>>) = {}
  BY <1>1
<1>3. Chain(<<>>, Same, Step(s, e), a, a)
  BY <1>1, <1>2 DEF Chain
<1>4. Walk(<<>>, s, e, a, a)
  BY <1>2, <1>3 DEF Walk
<1>5. \A i \in 1..Len(<<>>) : Match(<<>>[i], s, e, <<>>[i])
  BY <1>2
<1> QED
  BY <1>1, <1>4, <1>5 DEF Stream

LEMMA StreamPush ==
  ASSUME NEW s \in Seq(Metas), NEW e, NEW a, NEW z \in Cells, NEW q \in Seq(Beat), NEW x \in Beat,
         Stream(q, s, e, a, z), Inside(s, e, z), Match(x, s, e, z)
  PROVE  Stream(Append(q, x), s, e, a, After(s, e, z))
<1>1. PICK g \in Seq(Cells) : /\ Len(g) = Len(q)
                              /\ Walk(g, s, e, a, z)
                              /\ \A i \in 1..Len(q) : Match(q[i], s, e, g[i])
  BY DEF Stream
<1> DEFINE h == Append(g, z)
           r == Append(q, x)
<1>2. /\ h \in Seq(Cells) /\ Len(h) = Len(g) + 1 /\ Len(g) \in Nat
      /\ \A i \in 1..Len(g) : h[i] = g[i]
      /\ h[Len(g) + 1] = z
  BY Push, EmptyQueue
<1>3. /\ Len(r) = Len(q) + 1
      /\ \A i \in 1..Len(q) : r[i] = q[i]
      /\ r[Len(q) + 1] = x
  BY Push
<1>4. Chain(h, Same, Step(s, e), a, After(s, e, z))
  <2>1. Chain(g, Same, Step(s, e), a, z) /\ Same[z] = z /\ Step(s, e)[z] = After(s, e, z)
    BY <1>1, StepIs DEF Walk
  <2> QED
    BY <2>1, ChainPush
<1> HIDE DEF h, r
<1>5. \A i \in 1..Len(h) : Inside(s, e, h[i])
  BY <1>1, <1>2 DEF Walk
<1>6. ASSUME NEW i \in 1..Len(r) PROVE Match(r[i], s, e, h[i])
  <2>1. CASE i \in 1..Len(q)
    <3>1. r[i] = q[i] /\ h[i] = g[i]
      BY <1>1, <1>2, <1>3, <2>1
    <3> QED
      BY <1>1, <2>1, <3>1
  <2>2. CASE i = Len(q) + 1
    <3>1. r[i] = x /\ h[i] = z
      BY <1>1, <1>2, <1>3, <2>2
    <3> QED
      BY <3>1
  <2> QED
    BY <1>1, <1>2, <1>3, <2>1, <2>2
<1>7. Walk(h, s, e, a, After(s, e, z))
  BY <1>4, <1>5 DEF Walk
<1>8. Len(h) = Len(r)
  BY <1>1, <1>2, <1>3
<1>9. Stream(r, s, e, a, After(s, e, z))
  BY <1>2, <1>6, <1>7, <1>8 DEF Stream
<1> QED
  BY <1>9 DEF r

LEMMA StreamPop ==
  ASSUME NEW s \in Seq(Metas), NEW e, NEW a, NEW z, NEW q \in Seq(Beat), q # <<>>,
         Stream(q, s, e, a, z)
  PROVE  /\ Inside(s, e, a) /\ a \in Cells
         /\ Match(Head(q), s, e, a)
         /\ Stream(Tail(q), s, e, After(s, e, a), z)
<1>1. PICK g \in Seq(Cells) : /\ Len(g) = Len(q)
                              /\ Walk(g, s, e, a, z)
                              /\ \A i \in 1..Len(q) : Match(q[i], s, e, g[i])
  BY DEF Stream
<1> DEFINE h == Tail(g)
           r == Tail(q)
<1>2. Len(q) \in Nat /\ Len(q) > 0 /\ Len(r) = Len(q) - 1 /\ Head(q) = q[1]
      /\ \A i \in 1..Len(r) : r[i] = q[i + 1]
  BY Pop
<1>3. g # <<>>
  BY <1>1, <1>2
<1>4. /\ h \in Seq(Cells) /\ Len(h) = Len(g) - 1 /\ Head(g) = g[1] /\ g[1] \in Cells
      /\ \A i \in 1..Len(h) : h[i] = g[i + 1]
  BY <1>3, Pop
<1>5. Same[Head(g)] = a /\ Chain(h, Same, Step(s, e), Step(s, e)[a], z)
  <2>1. Chain(g, Same, Step(s, e), a, z)
    BY <1>1 DEF Walk
  <2> QED
    BY <1>3, <2>1, ChainPop
<1>6. a = g[1] /\ a \in Cells /\ Step(s, e)[a] = After(s, e, a)
  <2>1. Same[g[1]] = g[1]
    BY <1>4 DEF Same
  <2>2. a = g[1] /\ a \in Cells
    BY <1>4, <1>5, <2>1
  <2> QED
    BY <2>2, StepIs
<1> HIDE DEF h, r
<1>7. Inside(s, e, a) /\ Match(Head(q), s, e, a)
  BY <1>1, <1>2, <1>6 DEF Walk
<1>8. \A i \in 1..Len(h) : Inside(s, e, h[i])
  BY <1>1, <1>2, <1>4 DEF Walk
<1>9. \A i \in 1..Len(r) : Match(r[i], s, e, h[i])
  <2> SUFFICES ASSUME NEW i \in 1..Len(r) PROVE Match(r[i], s, e, h[i])
    OBVIOUS
  <2>1. i + 1 \in 1..Len(q) /\ i \in 1..Len(h)
    BY <1>1, <1>2, <1>4
  <2> QED
    BY <1>1, <1>2, <1>4, <2>1
<1>10. Stream(r, s, e, After(s, e, a), z)
  <2>1. Walk(h, s, e, After(s, e, a), z)
    BY <1>5, <1>6, <1>8 DEF Walk
  <2>2. h \in Seq(Cells) /\ Len(h) = Len(r)
    BY <1>1, <1>2, <1>4
  <2> QED
    BY <1>9, <2>1, <2>2 DEF Stream
<1> QED
  BY <1>6, <1>7, <1>10 DEF r

(* One more message changes nothing in the beats of the others.            *)
LEMMA StreamGrow ==
  ASSUME NEW s \in Seq(Metas), NEW m \in Metas, NEW e, NEW a, NEW z, NEW q \in Seq(Beat),
         Stream(q, s, e, a, z)
  PROVE  Stream(q, Append(s, m), e, a, z)
<1> DEFINE t == Append(s, m)
<1>1. Len(s) \in Nat /\ Len(t) = Len(s) + 1 /\ \A i \in 1..Len(s) : t[i] = s[i]
  BY Push
<1> HIDE DEF t
<1>2. PICK g \in Seq(Cells) : /\ Len(g) = Len(q)
                              /\ Walk(g, s, e, a, z)
                              /\ \A i \in 1..Len(q) : Match(q[i], s, e, g[i])
  BY DEF Stream
<1>3. \A i \in 1..Len(g) : g[i] \in Cells /\ Inside(s, e, g[i])
  BY <1>2 DEF Walk
<1>4. ASSUME NEW c \in Cells, Inside(s, e, c)
      PROVE  /\ Inside(t, e, c) /\ After(t, e, c) = After(s, e, c)
             /\ \A x : Match(x, s, e, c) => Match(x, t, e, c)
  <2>1. t[c[1]] = s[c[1]] /\ c[1] \in 1..Len(t)
    BY <1>1, <1>4 DEF Inside
  <2> QED
    BY <1>4, <2>1 DEF Inside, After, Match
<1>5. Chain(g, Same, Step(t, e), a, z)
  <2>1. \A i \in 1..Len(g) : Step(s, e)[Same[g[i]]] = Step(t, e)[Same[g[i]]]
    BY <1>3, <1>4, StepIs
  <2>2. Chain(g, Same, Step(s, e), a, z)
    BY <1>2 DEF Walk
  <2> QED
    BY <2>1, <2>2, ChainSame
<1>6. \A i \in 1..Len(g) : Inside(t, e, g[i])
  BY <1>3, <1>4
<1>7. \A i \in 1..Len(q) : Match(q[i], t, e, g[i])
  BY <1>2, <1>3, <1>4
<1>8. Stream(q, t, e, a, z)
  BY <1>2, <1>5, <1>6, <1>7 DEF Stream, Walk
<1> QED
  BY <1>8 DEF t

-----------------------------------------------------------------------------
(* A lane: state st, registers mr (the command), hl and dl (the lengths)   *)
(* and sk (beats sent), the queues mo and do behind it.                    *)

Cmds   == [id: Nat, host: HostLens, device: DeviceLens]
States == {"sIdle", "sHost", "sDevice", "sDelay", "sSendMeta", "sSendData"}
Reg    == [id: Nat, host: Nat, device: Nat]

(* The length registers before the message is announced: what is left of   *)
(* the host part is the whole part until it is more than a beat.           *)
RegOK(st, mr, hl, dl) ==
  /\ st = "sHost" => \E h \in HostLens, d \in DeviceLens :
       /\ hl = h /\ dl = d /\ mr.device = d /\ mr.host \in 1..h
       /\ h <= 64 => mr.host = h
  /\ st \in {"sDevice", "sDelay", "sSendMeta"} => hl + dl >= 64 /\ hl + dl < LEN_MOD

(* s are the messages the lane has announced.  The metas that wait are the *)
(* last of them.  The beats that wait begin at a: the first beat of the    *)
(* next message to be passed on, or, while the arbiter serves the lane     *)
(* (on), beat k of the message cur it has passed on.  They end at z: the   *)
(* next beat the lane sends.                                               *)
LaneAt(s, a, z, st, mr, dl, sk, mo, do, on, cur, k) ==
  /\ Len(mo) <= Len(s)
  /\ \A i \in 1..Len(mo) : mo[i] = s[(Len(s) - Len(mo)) + i]
  /\ on => /\ Len(mo) < Len(s) /\ s[Len(s) - Len(mo)] = cur
           /\ a = <<Len(s) - Len(mo), k>>
  /\ ~on => a = <<(Len(s) - Len(mo)) + 1, 1>>
  /\ st = "sSendData" => /\ Len(s) > 0 /\ mr.id = s[Len(s)].id
                         /\ sk < Size(s[Len(s)], 0)
                         /\ dl = 64 * (Size(s[Len(s)], 0) - sk) /\ dl < LEN_MOD
                         /\ z = <<Len(s), sk + 1>>
  /\ st # "sSendData" => z = <<Len(s) + 1, 1>>
  /\ Stream(do, s, 0, a, z)

LaneOK(st, mr, dl, sk, mo, do, on, cur, k) ==
  \E s \in Seq(Metas), a \in Cells, z \in Cells : LaneAt(s, a, z, st, mr, dl, sk, mo, do, on, cur, k)

(* Steps of the lane before it announces do not touch the streams.         *)
LEMMA LaneQuiet ==
  ASSUME NEW st, NEW mr, NEW dl, NEW sk, NEW mo, NEW do, NEW on, NEW cur, NEW k,
         LaneOK(st, mr, dl, sk, mo, do, on, cur, k), st # "sSendData",
         NEW u, u # "sSendData", NEW nr, NEW nl
  PROVE  LaneOK(u, nr, nl, sk, mo, do, on, cur, k)
  BY DEF LaneOK, LaneAt

(* For a lane the arbiter does not serve the arbiter's register is of no   *)
(* interest.                                                               *)
LEMMA LaneOther ==
  ASSUME NEW st, NEW mr, NEW dl, NEW sk, NEW mo, NEW do, NEW cur, NEW k,
         LaneOK(st, mr, dl, sk, mo, do, FALSE, cur, k), NEW m, NEW n
  PROVE  LaneOK(st, mr, dl, sk, mo, do, FALSE, m, n)
  BY DEF LaneOK, LaneAt

(* SendMeta of SerializerSimple.                                           *)
LEMMA LaneAnnounces ==
  ASSUME NEW mr, NEW dl, NEW sk, NEW mo \in Seq(Metas), NEW do \in Seq(Beat), NEW on \in BOOLEAN,
         NEW cur, NEW k, LaneOK("sSendMeta", mr, dl, sk, mo, do, on, cur, k),
         NEW m \in Metas, m.id = mr.id, m.length < LEN_MOD
  PROVE  LaneOK("sSendData", mr, m.length, 0, Append(mo, m), do, on, cur, k)
<1>1. PICK s \in Seq(Metas), a \in Cells, z \in Cells :
        LaneAt(s, a, z, "sSendMeta", mr, dl, sk, mo, do, on, cur, k)
  BY DEF LaneOK
<1> DEFINE t == Append(s, m)
           r == Append(mo, m)
<1>2. /\ t \in Seq(Metas) /\ Len(t) = Len(s) + 1 /\ Len(s) \in Nat
      /\ \A i \in 1..Len(s) : t[i] = s[i]
      /\ t[Len(s) + 1] = m
  BY Push, EmptyQueue
<1>3. /\ Len(r) = Len(mo) + 1 /\ Len(mo) \in Nat
      /\ \A i \in 1..Len(mo) : r[i] = mo[i]
      /\ r[Len(mo) + 1] = m
  BY Push, EmptyQueue
<1>4. Stream(do, t, 0, a, z)
  BY <1>1, StreamGrow DEF LaneAt
<1>5. m.length = 64 * Size(m, 0) /\ Size(m, 0) \in Nat /\ Size(m, 0) >= 1
  BY SizeType
<1> HIDE DEF t, r
<1>6. Len(t) - Len(r) = Len(s) - Len(mo) /\ Len(mo) <= Len(s)
  BY <1>1, <1>2, <1>3 DEF LaneAt
<1>7. ASSUME NEW i \in 1..Len(r) PROVE r[i] = t[(Len(t) - Len(r)) + i]
  <2>1. CASE i \in 1..Len(mo)
    <3>1. (Len(s) - Len(mo)) + i \in 1..Len(s)
      BY <1>2, <1>3, <1>6, <2>1
    <3>2. mo[i] = s[(Len(s) - Len(mo)) + i]
      BY <1>1, <2>1 DEF LaneAt
    <3> QED
      BY <1>2, <1>3, <1>6, <2>1, <3>1, <3>2
  <2>2. CASE i = Len(mo) + 1
    <3>1. (Len(s) - Len(mo)) + i = Len(s) + 1
      BY <1>2, <1>3, <2>2
    <3> QED
      BY <1>2, <1>3, <1>6, <2>2, <3>1
  <2> QED
    BY <1>3, <2>1, <2>2
<1>8. ASSUME on
      PROVE  Len(r) < Len(t) /\ t[Len(t) - Len(r)] = cur /\ a = <<Len(t) - Len(r), k>>
  <2>1. Len(mo) < Len(s) /\ s[Len(s) - Len(mo)] = cur /\ a = <<Len(s) - Len(mo), k>>
    BY <1>1, <1>8 DEF LaneAt
  <2>2. Len(s) - Len(mo) \in 1..Len(s)
    BY <1>2, <1>3, <2>1
  <2>3. t[Len(s) - Len(mo)] = cur
    BY <1>2, <2>1, <2>2
  <2>4. Len(r) < Len(t)
    BY <1>2, <1>3, <2>1
  <2> QED
    BY <1>6, <2>1, <2>3, <2>4
<1>9. ASSUME ~on PROVE a = <<(Len(t) - Len(r)) + 1, 1>>
  BY <1>1, <1>6, <1>9 DEF LaneAt
<1>10. z = <<Len(t), 0 + 1>>
  BY <1>1, <1>2 DEF LaneAt
<1>11. /\ Len(t) > 0 /\ mr.id = t[Len(t)].id /\ 0 < Size(t[Len(t)], 0)
       /\ m.length = 64 * (Size(t[Len(t)], 0) - 0)
  BY <1>2, <1>5
<1>12. Len(r) <= Len(t)
  BY <1>2, <1>3, <1>6
<1>13. LaneAt(t, a, z, "sSendData", mr, m.length, 0, r, do, on, cur, k)
  BY <1>4, <1>7, <1>8, <1>9, <1>10, <1>11, <1>12 DEF LaneAt
<1> QED
  BY <1>2, <1>13 DEF LaneOK, r

(* SendData of SerializerSimple sends beat x and goes to state u.          *)
NextBeat(x, u, mr, dl, sk) ==
  /\ x.id = mr.id /\ x.k = sk + 1
  /\ x.last <=> dl <= 64
  /\ dl <= 64 => u = "sIdle"
  /\ dl > 64 => u = "sSendData"

LEMMA LaneSends ==
  ASSUME NEW mr, mr.id \in Nat, NEW dl, NEW sk \in Nat, NEW mo \in Seq(Metas), NEW do \in Seq(Beat),
         NEW on, NEW cur, NEW k, LaneOK("sSendData", mr, dl, sk, mo, do, on, cur, k),
         NEW x \in Beat, NEW u, NextBeat(x, u, mr, dl, sk)
  PROVE  /\ dl \in 64..(LEN_MOD - 1)
         /\ LaneOK(u, mr, dl - 64, sk + 1, mo, Append(do, x), on, cur, k)
<1>1. PICK s \in Seq(Metas), a \in Cells, z \in Cells :
        LaneAt(s, a, z, "sSendData", mr, dl, sk, mo, do, on, cur, k)
  BY DEF LaneOK
<1> DEFINE n == Size(s[Len(s)], 0)
<1>2. /\ Len(s) \in Nat /\ Len(s) > 0 /\ mr.id = s[Len(s)].id /\ sk < n /\ dl = 64 * (n - sk)
      /\ dl < LEN_MOD /\ z = <<Len(s), sk + 1>> /\ Stream(do, s, 0, a, z)
  BY <1>1 DEF LaneAt
<1>3. s[Len(s)] \in Metas
  BY <1>2
<1>4. n \in Nat
  BY <1>3, SizeType
<1>5. z[1] = Len(s) /\ z[2] = sk + 1
  BY <1>2
<1>6. Inside(s, 0, z)
  <2>1. z[1] \in 1..Len(s) /\ z[2] \in 1..n
    BY <1>2, <1>4, <1>5
  <2> QED
    BY <1>5, <2>1 DEF Inside
<1> HIDE DEF n
<1>7. /\ dl \in Nat /\ dl >= 64 /\ dl \in 64..(LEN_MOD - 1) /\ (dl <= 64 <=> sk + 1 = n)
      /\ (dl > 64 => sk + 1 < n /\ dl - 64 = 64 * (n - (sk + 1)))
  <2>1. LEN_MOD \in Nat
    BY RpcSendAssumption
  <2>2. dl \in Nat /\ dl >= 64 /\ dl = 64 * (n - sk)
    BY <1>2, <1>4
  <2>3. dl <= 64 <=> sk + 1 = n
    BY <1>2, <1>4, <2>2
  <2>4. dl > 64 => sk + 1 < n /\ dl - 64 = 64 * (n - (sk + 1))
    BY <1>2, <1>4, <2>2
  <2>5. dl \in 64..(LEN_MOD - 1)
    BY <1>2, <2>1, <2>2
  <2> QED
    BY <2>2, <2>3, <2>4, <2>5
<1>8. /\ x \in Beat /\ x.id = mr.id /\ x.k = sk + 1 /\ (x.last <=> dl <= 64)
      /\ dl <= 64 => u = "sIdle"
      /\ dl > 64 => u = "sSendData"
  BY DEF NextBeat
<1>9. Match(x, s, 0, z)
  <2>1. x.id = s[z[1]].id /\ x.k = z[2] /\ (x.last <=> z[2] = n)
    BY <1>2, <1>5, <1>7, <1>8
  <2> QED
    BY <1>5, <2>1 DEF Match, n
<1> DEFINE y == After(s, 0, z)
<1>10. Stream(Append(do, x), s, 0, a, y)
  BY <1>2, <1>6, <1>8, <1>9, StreamPush
<1>11. /\ y \in Cells
       /\ z[2] < n => y = <<z[1], z[2] + 1>>
       /\ z[2] = n => y = <<z[1] + 1, 1>>
  BY <1>5, <1>6, AfterIs DEF n
<1> HIDE DEF y
<1>12. /\ dl > 64 => y = <<Len(s), (sk + 1) + 1>>
       /\ dl <= 64 => y = <<Len(s) + 1, 1>>
  BY <1>5, <1>7, <1>11
<1>13. CASE dl <= 64
  <2>1. LaneAt(s, a, y, u, mr, dl - 64, sk + 1, mo, Append(do, x), on, cur, k)
    BY <1>1, <1>8, <1>10, <1>12, <1>13 DEF LaneAt
  <2> QED
    BY <1>2, <1>7, <1>8, <1>11, <2>1 DEF LaneOK
<1>14. CASE dl > 64
  <2>1. sk + 1 < Size(s[Len(s)], 0) /\ dl - 64 = 64 * (Size(s[Len(s)], 0) - (sk + 1)) /\ dl - 64 < LEN_MOD
    <3>1. LEN_MOD \in Nat
      BY RpcSendAssumption
    <3> QED
      BY <1>2, <1>7, <1>14, <3>1 DEF n
  <2>2. LaneAt(s, a, y, u, mr, dl - 64, sk + 1, mo, Append(do, x), on, cur, k)
    BY <1>1, <1>8, <1>10, <1>12, <1>14, <2>1 DEF LaneAt
  <2> QED
    BY <1>2, <1>7, <1>8, <1>11, <2>2 DEF LaneOK
<1> QED
  BY <1>7, <1>13, <1>14

(* The arbiter passes on the lane's next meta.                             *)
LEMMA LanePassed ==
  ASSUME NEW st, NEW mr, NEW dl, NEW sk, NEW mo \in Seq(Metas), mo # <<>>, NEW do \in Seq(Beat),
         NEW cur, NEW k, LaneOK(st, mr, dl, sk, mo, do, FALSE, cur, k)
  PROVE  LaneOK(st, mr, dl, sk, Tail(mo), do, TRUE, Head(mo), 1)
<1>1. PICK s \in Seq(Metas), a \in Cells, z \in Cells :
        LaneAt(s, a, z, st, mr, dl, sk, mo, do, FALSE, cur, k)
  BY DEF LaneOK
<1> DEFINE r == Tail(mo)
<1>2. /\ Len(mo) \in Nat /\ Len(mo) > 0 /\ Len(r) = Len(mo) - 1 /\ Head(mo) = mo[1]
      /\ \A i \in 1..Len(r) : r[i] = mo[i + 1]
  BY Pop
<1>3. Len(s) \in Nat /\ Len(mo) <= Len(s) /\ a = <<(Len(s) - Len(mo)) + 1, 1>>
  BY <1>1 DEF LaneAt
<1> HIDE DEF r
<1>4. Len(r) < Len(s) /\ Len(r) <= Len(s) /\ Len(s) - Len(r) = (Len(s) - Len(mo)) + 1
  BY <1>2, <1>3
<1>5. s[Len(s) - Len(r)] = Head(mo)
  <2>1. mo[1] = s[(Len(s) - Len(mo)) + 1]
    BY <1>1, <1>2 DEF LaneAt
  <2> QED
    BY <1>2, <1>4, <2>1
<1>6. ASSUME NEW i \in 1..Len(r) PROVE r[i] = s[(Len(s) - Len(r)) + i]
  <2>1. i + 1 \in 1..Len(mo) /\ (Len(s) - Len(mo)) + (i + 1) = (Len(s) - Len(r)) + i
    BY <1>2, <1>3
  <2>2. mo[i + 1] = s[(Len(s) - Len(mo)) + (i + 1)]
    BY <1>1, <2>1 DEF LaneAt
  <2> QED
    BY <1>2, <2>1, <2>2
<1>7. LaneAt(s, a, z, st, mr, dl, sk, r, do, TRUE, Head(mo), 1)
  BY <1>1, <1>3, <1>4, <1>5, <1>6 DEF LaneAt
<1> QED
  BY <1>7 DEF LaneOK, r

(* The arbiter passes on a beat: it is the next one of the message the     *)
(* arbiter is at, and marked if it is the last of it.                      *)
Taken(b, st, mr, dl, sk, mo, do, cur, k) ==
  /\ b.id = cur.id /\ b.k = k /\ k \in 1..Size(cur, 0) /\ cur \in Metas
  /\ b.last <=> k = Size(cur, 0)
  /\ b.last => LaneOK(st, mr, dl, sk, mo, Tail(do), FALSE, cur, k)
  /\ ~b.last => LaneOK(st, mr, dl, sk, mo, Tail(do), TRUE, cur, k + 1)

LEMMA LaneTaken ==
  ASSUME NEW st, NEW mr, NEW dl, NEW sk, NEW mo \in Seq(Metas), NEW do \in Seq(Beat), do # <<>>,
         NEW cur, NEW k, LaneOK(st, mr, dl, sk, mo, do, TRUE, cur, k)
  PROVE  Taken(Head(do), st, mr, dl, sk, mo, do, cur, k)
<1> DEFINE b == Head(do)
<1>1. PICK s \in Seq(Metas), a \in Cells, z \in Cells :
        LaneAt(s, a, z, st, mr, dl, sk, mo, do, TRUE, cur, k)
  BY DEF LaneOK
<1>2. /\ Len(s) \in Nat /\ Len(mo) \in Nat /\ Len(mo) < Len(s) /\ s[Len(s) - Len(mo)] = cur
      /\ a = <<Len(s) - Len(mo), k>> /\ Stream(do, s, 0, a, z)
  BY <1>1 DEF LaneAt
<1>3. a[1] = Len(s) - Len(mo) /\ a[2] = k /\ s[a[1]] = cur
  BY <1>2
<1>4. b \in Beat
  BY Pop
<1> DEFINE y == After(s, 0, a)
<1>5. Inside(s, 0, a) /\ Match(b, s, 0, a) /\ Stream(Tail(do), s, 0, y, z)
  BY <1>2, StreamPop
<1>6. /\ y \in Cells
      /\ a[2] < Size(s[a[1]], 0) => y = <<a[1], a[2] + 1>>
      /\ a[2] = Size(s[a[1]], 0) => y = <<a[1] + 1, 1>>
  BY <1>5, AfterIs
<1> HIDE DEF b, y
<1>7. b.id = cur.id /\ b.k = k /\ (b.last <=> k = Size(cur, 0)) /\ k \in 1..Size(cur, 0)
  BY <1>3, <1>5 DEF Match, Inside
<1>8. cur \in Metas
  BY <1>2
<1>9. Size(cur, 0) \in Nat
  BY <1>8, SizeType
<1>10. ASSUME b.last PROVE LaneOK(st, mr, dl, sk, mo, Tail(do), FALSE, cur, k)
  <2>1. y = <<(Len(s) - Len(mo)) + 1, 1>>
    BY <1>3, <1>6, <1>7, <1>10
  <2>2. LaneAt(s, y, z, st, mr, dl, sk, mo, Tail(do), FALSE, cur, k)
    BY <1>1, <1>5, <2>1 DEF LaneAt
  <2> QED
    BY <1>6, <2>2 DEF LaneOK
<1>11. ASSUME ~b.last PROVE LaneOK(st, mr, dl, sk, mo, Tail(do), TRUE, cur, k + 1)
  <2>1. k < Size(cur, 0)
    BY <1>7, <1>9, <1>11
  <2>2. y = <<Len(s) - Len(mo), k + 1>>
    BY <1>3, <1>6, <2>1
  <2>3. LaneAt(s, y, z, st, mr, dl, sk, mo, Tail(do), TRUE, cur, k + 1)
    BY <1>1, <1>2, <1>5, <2>2 DEF LaneAt
  <2> QED
    BY <1>6, <2>3 DEF LaneOK
<1> QED
  BY <1>7, <1>8, <1>10, <1>11 DEF b, Taken

-----------------------------------------------------------------------------
(* MemToNet and the engine: state sa, register sm, the beats ls out of     *)
(* LSHIFT, the queues sd of beats and ta of announcements, the send tx.    *)

SendBeat == [beat: Beat, header: Nat]
Sends    == [id: Nat, length: Nat]
TxState  == [id: Nat, left: Nat]
AwStates == {"sIdle", "send_meta", "send_data"}

BeatsOf(sd) == [i \in 1..Len(sd) |-> sd[i].beat]

(* The header sits in the first beat and names the message.                *)
HeadersOK(sd) ==
  \A i \in 1..Len(sd) :
    /\ sd[i].beat.k = 1 => sd[i].header = sd[i].beat.id
    /\ sd[i].beat.k # 1 => sd[i].header = 0

(* p are the messages taken over, T the sends the engine has begun.  The   *)
(* beats for the engine lie between r, which the engine takes next, and w, *)
(* which MemToNet sends next; those out of LSHIFT between w and v, where   *)
(* the arbiter is.                                                         *)
NetAt(p, T, r, w, v, sa, sm, ls, sd, ta, t, on, k) ==
  /\ Len(p) > 0 => sm = p[Len(p)]
  /\ sa = "sIdle" => w = <<Len(p) + 1, 1>>
  /\ sa = "send_meta" => Len(p) > 0 /\ w = <<Len(p), 1>> /\ (T + Len(ta)) + 1 = Len(p)
  /\ sa = "send_data" => Len(p) > 0 /\ w[1] = Len(p) /\ w[2] > 1
  /\ sa # "send_meta" => T + Len(ta) = Len(p)
  /\ on => Len(p) > 0 /\ v = <<Len(p), k>>
  /\ ~on => v = <<Len(p) + 1, 1>>
  /\ Stream(BeatsOf(sd), p, 1, r, w)
  /\ Stream(ls, p, 1, w, v)
  /\ HeadersOK(sd)
  /\ \A i \in 1..Len(ta) : ta[i].id = p[T + i].id /\ ta[i].length = 64 * Size(p[T + i], 1)
  /\ t.left = 0 => r = <<T + 1, 1>>
  /\ t.left > 0 => /\ T > 0 /\ T <= Len(p) /\ r[1] = T /\ r[2] \in 1..Size(p[T], 1)
                   /\ t.id = p[T].id /\ t.left = 64 * ((Size(p[T], 1) - r[2]) + 1)

NetOK(sa, sm, ls, sd, ta, t, on, k) ==
  \E p \in Seq(Metas), T \in Nat, r \in Cells, w \in Cells, v \in Cells :
    NetAt(p, T, r, w, v, sa, sm, ls, sd, ta, t, on, k)

LEMMA BeatsPush ==
  ASSUME NEW sd \in Seq(SendBeat), NEW x \in SendBeat
  PROVE  /\ BeatsOf(sd) \in Seq(Beat)
         /\ BeatsOf(Append(sd, x)) = Append(BeatsOf(sd), x.beat)
<1>1. \A i \in 1..Len(sd) : sd[i].beat \in Beat
  <2>1. \A i \in 1..Len(sd) : sd[i] \in SendBeat
    BY EmptyQueue
  <2> QED
    BY <2>1 DEF SendBeat
<1> QED
  BY <1>1 DEF BeatsOf

LEMMA BeatsPop ==
  ASSUME NEW sd \in Seq(SendBeat), sd # <<>>
  PROVE  /\ BeatsOf(sd) \in Seq(Beat) /\ BeatsOf(sd) # <<>>
         /\ BeatsOf(Tail(sd)) = Tail(BeatsOf(sd))
         /\ Head(BeatsOf(sd)) = Head(sd).beat
<1>1. \A i \in 1..Len(sd) : sd[i].beat \in Beat
  <2>1. \A i \in 1..Len(sd) : sd[i] \in SendBeat
    BY EmptyQueue
  <2> QED
    BY <2>1 DEF SendBeat
<1>2. BeatsOf(sd) \in Seq(Beat) /\ Len(BeatsOf(sd)) = Len(sd)
      /\ \A i \in 1..Len(sd) : BeatsOf(sd)[i] = sd[i].beat
  BY <1>1 DEF BeatsOf
<1>3. BeatsOf(sd) # <<>>
  BY <1>2
<1>4. BeatsOf(Tail(sd)) = Tail(BeatsOf(sd))
  BY <1>2, <1>3 DEF BeatsOf
<1> QED
  BY <1>2, <1>3, <1>4

(* MemToNet takes a meta from the arbiter.                                 *)
LEMMA NetTakes ==
  ASSUME NEW sm, NEW ls \in Seq(Beat), NEW sd \in Seq(SendBeat), NEW ta \in Seq(Sends),
         NEW t \in TxState, NEW k, NEW m \in Metas,
         NetOK("sIdle", sm, ls, sd, ta, t, FALSE, k)
  PROVE  NetOK("send_meta", m, ls, sd, ta, t, TRUE, 1)
<1>1. PICK p \in Seq(Metas), T \in Nat, r \in Cells, w \in Cells, v \in Cells :
        NetAt(p, T, r, w, v, "sIdle", sm, ls, sd, ta, t, FALSE, k)
  BY DEF NetOK
<1> DEFINE q == Append(p, m)
<1>2. /\ q \in Seq(Metas) /\ Len(q) = Len(p) + 1 /\ Len(p) \in Nat /\ Len(ta) \in Nat
      /\ \A i \in 1..Len(p) : q[i] = p[i]
      /\ q[Len(p) + 1] = m
  BY Push, EmptyQueue
<1>3. BeatsOf(sd) \in Seq(Beat)
  <2>1. \A i \in 1..Len(sd) : sd[i] \in SendBeat
    BY EmptyQueue
  <2>2. \A i \in 1..Len(sd) : sd[i].beat \in Beat
    BY <2>1 DEF SendBeat
  <2> QED
    BY <2>2 DEF BeatsOf
<1>4. Stream(BeatsOf(sd), q, 1, r, w) /\ Stream(ls, q, 1, w, v)
  <2>1. Stream(BeatsOf(sd), p, 1, r, w) /\ Stream(ls, p, 1, w, v)
    BY <1>1 DEF NetAt
  <2> QED
    BY <1>3, <2>1, StreamGrow
<1> HIDE DEF q
<1>5. /\ w = <<Len(q), 1>> /\ v = <<Len(q), 1>> /\ (T + Len(ta)) + 1 = Len(q) /\ Len(q) > 0
      /\ m = q[Len(q)]
  <2>1. w = <<Len(p) + 1, 1>> /\ v = <<Len(p) + 1, 1>> /\ T + Len(ta) = Len(p)
    BY <1>1 DEF NetAt
  <2> QED
    BY <1>2, <2>1
<1>6. \A i \in 1..Len(ta) : ta[i].id = q[T + i].id /\ ta[i].length = 64 * Size(q[T + i], 1)
  <2> SUFFICES ASSUME NEW i \in 1..Len(ta)
               PROVE  ta[i].id = q[T + i].id /\ ta[i].length = 64 * Size(q[T + i], 1)
    OBVIOUS
  <2>1. T + i \in 1..Len(p)
    BY <1>2, <1>5
  <2>2. q[T + i] = p[T + i]
    BY <1>2, <2>1
  <2> QED
    BY <1>1, <2>2 DEF NetAt
<1>7. ASSUME t.left > 0
      PROVE  /\ T > 0 /\ T <= Len(q) /\ r[1] = T /\ r[2] \in 1..Size(q[T], 1)
             /\ t.id = q[T].id /\ t.left = 64 * ((Size(q[T], 1) - r[2]) + 1)
  <2>1. /\ T > 0 /\ T <= Len(p) /\ r[1] = T /\ r[2] \in 1..Size(p[T], 1)
        /\ t.id = p[T].id /\ t.left = 64 * ((Size(p[T], 1) - r[2]) + 1)
    BY <1>1, <1>7 DEF NetAt
  <2>2. q[T] = p[T] /\ T <= Len(q)
    BY <1>2, <2>1
  <2> QED
    BY <2>1, <2>2
<1>8. NetAt(q, T, r, w, v, "send_meta", m, ls, sd, ta, t, TRUE, 1)
  BY <1>1, <1>4, <1>5, <1>6, <1>7 DEF NetAt
<1> QED
  BY <1>2, <1>8 DEF NetOK

LEMMA Pair ==
  ASSUME NEW S, NEW x \in S, NEW y \in S PROVE Append(<<x>>, y) = <<x, y>>
<1> DEFINE q == Append(<<x>>, y)
           r == <<x, y>>
<1>1. <<x>> \in Seq(S) /\ Len(<<x>>) = 1 /\ <<x>>[1] = x
  OBVIOUS
<1>2. q \in Seq(S) /\ Len(q) = 2 /\ q[1] = x /\ q[2] = y
  BY <1>1, Push
<1>3. r \in Seq(S) /\ Len(r) = 2 /\ r[1] = x /\ r[2] = y
  OBVIOUS
<1> HIDE DEF q, r
<1>4. q = [i \in 1..2 |-> q[i]] /\ r = [i \in 1..2 |-> r[i]]
  BY <1>2, <1>3
<1>5. \A i \in 1..2 : q[i] = r[i]
  BY <1>2, <1>3
<1>6. q = r
  BY <1>4, <1>5
<1> QED
  BY <1>6 DEF q, r

(* LSHIFT takes a beat that is not the last of its message ...             *)
LEMMA NetShifts ==
  ASSUME NEW sa, NEW sm \in Metas, NEW sd, NEW ta, NEW t, NEW k \in Nat, NEW b \in Beat,
         NetOK(sa, sm, <<>>, sd, ta, t, TRUE, k),
         b.id = sm.id, b.k = k, k \in 1..Size(sm, 0), ~b.last, k # Size(sm, 0)
  PROVE  NetOK(sa, sm, <<b>>, sd, ta, t, TRUE, k + 1)
<1>1. PICK p \in Seq(Metas), T \in Nat, r \in Cells, w \in Cells, v \in Cells :
        NetAt(p, T, r, w, v, sa, sm, <<>>, sd, ta, t, TRUE, k)
  BY DEF NetOK
<1>2. Len(p) \in Nat /\ Len(p) > 0 /\ sm = p[Len(p)] /\ v = <<Len(p), k>> /\ Stream(<<>>, p, 1, w, v)
  BY <1>1 DEF NetAt
<1>3. v[1] = Len(p) /\ v[2] = k /\ p[v[1]] = sm
  BY <1>2
<1>4. Size(sm, 0) \in Nat /\ Size(sm, 1) = Size(sm, 0) + 1
  BY SizeType
<1>5. Inside(p, 1, v) /\ Match(b, p, 1, v)
  <2>1. k \in 1..Size(sm, 1) /\ k # Size(sm, 1) /\ Len(p) \in 1..Len(p)
    BY <1>2, <1>4
  <2> QED
    BY <1>3, <2>1 DEF Inside, Match
<1>6. <<>> \in Seq(Beat) /\ Append(<<>>, b) = <<b>>
  OBVIOUS
<1> DEFINE y == After(p, 1, v)
<1>7. Stream(<<b>>, p, 1, w, y)
  <2>1. Stream(Append(<<>>, b), p, 1, w, y)
    BY <1>2, <1>5, <1>6, StreamPush
  <2> QED
    BY <1>6, <2>1
<1>8. y \in Cells /\ y = <<Len(p), k + 1>>
  <2>1. k < Size(p[v[1]], 1)
    BY <1>3, <1>4
  <2> QED
    BY <1>3, <1>5, <2>1, AfterIs
<1> HIDE DEF y
<1>9. NetAt(p, T, r, w, y, sa, sm, <<b>>, sd, ta, t, TRUE, k + 1)
  BY <1>1, <1>7, <1>8 DEF NetAt
<1> QED
  BY <1>8, <1>9 DEF NetOK

(* ... or the last one, which makes two.                                   *)
LEMMA NetShiftsLast ==
  ASSUME NEW sa, NEW sm \in Metas, NEW sd, NEW ta, NEW t, NEW k \in Nat, NEW b \in Beat, NEW c \in Beat,
         NetOK(sa, sm, <<>>, sd, ta, t, TRUE, k), k = Size(sm, 0),
         b.id = sm.id, b.k = k, ~b.last, c.id = sm.id, c.k = k + 1, c.last
  PROVE  NetOK(sa, sm, <<b, c>>, sd, ta, t, FALSE, k)
<1>1. PICK p \in Seq(Metas), T \in Nat, r \in Cells, w \in Cells, v \in Cells :
        NetAt(p, T, r, w, v, sa, sm, <<>>, sd, ta, t, TRUE, k)
  BY DEF NetOK
<1>2. Len(p) \in Nat /\ Len(p) > 0 /\ sm = p[Len(p)] /\ v = <<Len(p), k>> /\ Stream(<<>>, p, 1, w, v)
  BY <1>1 DEF NetAt
<1>3. v[1] = Len(p) /\ v[2] = k /\ p[v[1]] = sm
  BY <1>2
<1>4. Size(sm, 0) \in Nat /\ Size(sm, 0) >= 1 /\ Size(sm, 1) = Size(sm, 0) + 1
  BY SizeType
<1>5. Inside(p, 1, v) /\ Match(b, p, 1, v)
  <2>1. k \in 1..Size(sm, 1) /\ k # Size(sm, 1) /\ Len(p) \in 1..Len(p)
    BY <1>2, <1>4
  <2> QED
    BY <1>3, <2>1 DEF Inside, Match
<1>6. <<>> \in Seq(Beat) /\ <<b>> \in Seq(Beat) /\ Append(<<>>, b) = <<b>> /\ Append(<<b>>, c) = <<b, c>>
  <2>1. <<>> \in Seq(Beat) /\ <<b>> \in Seq(Beat)
    OBVIOUS
  <2>2. Append(<<>>, b) = <<b>>
    OBVIOUS
  <2>3. Append(<<b>>, c) = <<b, c>>
    BY Pair
  <2> QED
    BY <2>1, <2>2, <2>3
<1> DEFINE y == After(p, 1, v)
           x == After(p, 1, y)
<1>7. Stream(<<b>>, p, 1, w, y)
  <2>1. Stream(Append(<<>>, b), p, 1, w, y)
    BY <1>2, <1>5, <1>6, StreamPush
  <2> QED
    BY <1>6, <2>1
<1>8. y \in Cells /\ y = <<Len(p), k + 1>>
  <2>1. k < Size(p[v[1]], 1)
    BY <1>3, <1>4
  <2> QED
    BY <1>3, <1>5, <2>1, AfterIs
<1>9. y[1] = Len(p) /\ y[2] = k + 1 /\ p[y[1]] = sm
  BY <1>2, <1>8
<1>10. Inside(p, 1, y) /\ Match(c, p, 1, y)
  <2>1. k + 1 \in 1..Size(sm, 1) /\ k + 1 = Size(sm, 1) /\ Len(p) \in 1..Len(p)
    BY <1>2, <1>4
  <2> QED
    BY <1>9, <2>1 DEF Inside, Match
<1>11. Stream(<<b, c>>, p, 1, w, x)
  <2>1. Stream(Append(<<b>>, c), p, 1, w, x)
    BY <1>6, <1>7, <1>8, <1>10, StreamPush
  <2> QED
    BY <1>6, <2>1
<1>12. x \in Cells /\ x = <<Len(p) + 1, 1>>
  <2>1. y[2] = Size(p[y[1]], 1)
    BY <1>4, <1>9
  <2> QED
    BY <1>8, <1>9, <1>10, <2>1, AfterIs
<1> HIDE DEF x, y
<1>13. NetAt(p, T, r, w, x, sa, sm, <<b, c>>, sd, ta, t, FALSE, k)
  BY <1>1, <1>11, <1>12 DEF NetAt
<1> QED
  BY <1>12, <1>13 DEF NetOK

(* The engine's queue and LSHIFT hold two pieces of one stream.            *)
Pieces(p, r, w, v, ls, sd) == Stream(BeatsOf(sd), p, 1, r, w) /\ Stream(ls, p, 1, w, v)

(* Beat x goes from LSHIFT to the engine's queue.                          *)
Moved(p, r, w, v, ls, sd, x) ==
  \E y \in Cells :
    /\ Stream(BeatsOf(Append(sd, x)), p, 1, r, y) /\ Stream(Tail(ls), p, 1, y, v)
    /\ x.beat.last => y = <<w[1] + 1, 1>>
    /\ ~x.beat.last => y = <<w[1], w[2] + 1>>

LEMMA NetMoves ==
  ASSUME NEW p \in Seq(Metas), NEW r, NEW w \in Cells, NEW v, NEW ls \in Seq(Beat), ls # <<>>,
         NEW sd \in Seq(SendBeat), NEW x \in SendBeat, x.beat = Head(ls),
         Pieces(p, r, w, v, ls, sd)
  PROVE  /\ x.beat.id = p[w[1]].id /\ x.beat.k = w[2]
         /\ Moved(p, r, w, v, ls, sd, x)
<1>0. Stream(BeatsOf(sd), p, 1, r, w) /\ Stream(ls, p, 1, w, v)
  BY DEF Pieces
<1> DEFINE b == Head(ls)
           y == After(p, 1, w)
<1>1. b \in Beat
  BY Pop
<1>2. Inside(p, 1, w) /\ Match(b, p, 1, w) /\ Stream(Tail(ls), p, 1, y, v)
  BY <1>0, StreamPop
<1>3. BeatsOf(sd) \in Seq(Beat) /\ BeatsOf(Append(sd, x)) = Append(BeatsOf(sd), b)
  BY BeatsPush
<1>4. Stream(Append(BeatsOf(sd), b), p, 1, r, y)
  BY <1>0, <1>1, <1>2, <1>3, StreamPush
<1>5. /\ y \in Cells
      /\ w[2] < Size(p[w[1]], 1) => y = <<w[1], w[2] + 1>>
      /\ w[2] = Size(p[w[1]], 1) => y = <<w[1] + 1, 1>>
  BY <1>2, AfterIs
<1> HIDE DEF y
<1>6. b.id = p[w[1]].id /\ b.k = w[2] /\ (b.last <=> w[2] = Size(p[w[1]], 1))
  BY <1>2 DEF Match
<1>7. ~b.last => w[2] < Size(p[w[1]], 1)
  <2>1. w[2] \in 1..Size(p[w[1]], 1) /\ p[w[1]] \in Metas
    BY <1>2 DEF Inside
  <2>2. Size(p[w[1]], 1) \in Nat
    BY <2>1, SizeType
  <2> QED
    BY <1>6, <2>1, <2>2
<1>8. Moved(p, r, w, v, ls, sd, x)
  BY <1>2, <1>3, <1>4, <1>5, <1>6, <1>7 DEF Moved
<1> QED
  BY <1>6, <1>8

LEMMA HeadersPush ==
  ASSUME NEW sd \in Seq(SendBeat), NEW x \in SendBeat, HeadersOK(sd),
         x.beat.k = 1 => x.header = x.beat.id, x.beat.k # 1 => x.header = 0
  PROVE  HeadersOK(Append(sd, x))
<1> DEFINE u == Append(sd, x)
<1>1. Len(u) = Len(sd) + 1 /\ Len(sd) \in Nat /\ (\A i \in 1..Len(sd) : u[i] = sd[i]) /\ u[Len(sd) + 1] = x
  BY Push, EmptyQueue
<1> HIDE DEF u
<1>2. ASSUME NEW i \in 1..Len(u)
      PROVE  (u[i].beat.k = 1 => u[i].header = u[i].beat.id) /\ (u[i].beat.k # 1 => u[i].header = 0)
  <2>1. CASE i \in 1..Len(sd)
    BY <1>1, <2>1 DEF HeadersOK
  <2>2. CASE i = Len(sd) + 1
    BY <1>1, <2>2
  <2> QED
    BY <1>1, <2>1, <2>2
<1>3. HeadersOK(u)
  BY <1>2 DEF HeadersOK
<1> QED
  BY <1>3 DEF u

(* SendData of MemToNet.                                                   *)
LEMMA NetSendsData ==
  ASSUME NEW sm, NEW ls \in Seq(Beat), ls # <<>>, NEW sd \in Seq(SendBeat), NEW ta, NEW t,
         NEW on, NEW k, NetOK("send_data", sm, ls, sd, ta, t, on, k),
         NEW x \in SendBeat, x.beat = Head(ls), x.header = 0,
         NEW u, x.beat.last => u = "sIdle", ~x.beat.last => u = "send_data"
  PROVE  NetOK(u, sm, Tail(ls), Append(sd, x), ta, t, on, k)
<1>1. PICK p \in Seq(Metas), T \in Nat, r \in Cells, w \in Cells, v \in Cells :
        NetAt(p, T, r, w, v, "send_data", sm, ls, sd, ta, t, on, k)
  BY DEF NetOK
<1>2. /\ Stream(BeatsOf(sd), p, 1, r, w) /\ Stream(ls, p, 1, w, v)
      /\ Len(p) > 0 /\ w[1] = Len(p) /\ w[2] > 1 /\ HeadersOK(sd)
  BY <1>1 DEF NetAt
<1>3. x.beat.id = p[w[1]].id /\ x.beat.k = w[2] /\ Moved(p, r, w, v, ls, sd, x)
  <2>1. Pieces(p, r, w, v, ls, sd)
    BY <1>2 DEF Pieces
  <2> QED
    BY <2>1, NetMoves
<1>4. PICK y \in Cells :
              /\ Stream(BeatsOf(Append(sd, x)), p, 1, r, y) /\ Stream(Tail(ls), p, 1, y, v)
              /\ x.beat.last => y = <<w[1] + 1, 1>>
              /\ ~x.beat.last => y = <<w[1], w[2] + 1>>
  BY <1>3 DEF Moved
<1>5. w[2] \in Nat
  BY DEF Cells
<1>6. HeadersOK(Append(sd, x))
  <2>1. x.beat.k # 1
    BY <1>2, <1>3, <1>5
  <2> QED
    BY <1>2, <2>1, HeadersPush
<1>7. CASE x.beat.last
  <2>1. y = <<Len(p) + 1, 1>> /\ u = "sIdle"
    BY <1>2, <1>4, <1>7
  <2>2. NetAt(p, T, r, y, v, u, sm, Tail(ls), Append(sd, x), ta, t, on, k)
    BY <1>1, <1>4, <1>6, <2>1 DEF NetAt
  <2> QED
    BY <2>2 DEF NetOK
<1>8. CASE ~x.beat.last
  <2>1. y[1] = Len(p) /\ y[2] > 1 /\ u = "send_data"
    BY <1>2, <1>4, <1>5, <1>8
  <2>2. NetAt(p, T, r, y, v, u, sm, Tail(ls), Append(sd, x), ta, t, on, k)
    BY <1>1, <1>4, <1>6, <2>1 DEF NetAt
  <2> QED
    BY <2>2 DEF NetOK
<1> QED
  BY <1>7, <1>8

(* SendMeta of MemToNet: the first beat and the announcement.              *)
LEMMA NetSendsMeta ==
  ASSUME NEW sm, NEW ls \in Seq(Beat), ls # <<>>, NEW sd \in Seq(SendBeat), NEW ta \in Seq(Sends),
         NEW t, NEW on, NEW k, NetOK("send_meta", sm, ls, sd, ta, t, on, k),
         NEW x \in SendBeat, x.beat = Head(ls), x.header = sm.id,
         NEW n \in Sends, n.id = sm.id, n.length = 64 * Size(sm, 1),
         NEW u, x.beat.last => u = "sIdle", ~x.beat.last => u = "send_data"
  PROVE  NetOK(u, sm, Tail(ls), Append(sd, x), Append(ta, n), t, on, k)
<1>1. PICK p \in Seq(Metas), T \in Nat, r \in Cells, w \in Cells, v \in Cells :
        NetAt(p, T, r, w, v, "send_meta", sm, ls, sd, ta, t, on, k)
  BY DEF NetOK
<1>2. /\ Stream(BeatsOf(sd), p, 1, r, w) /\ Stream(ls, p, 1, w, v)
      /\ Len(p) > 0 /\ w = <<Len(p), 1>> /\ sm = p[Len(p)] /\ HeadersOK(sd)
      /\ (T + Len(ta)) + 1 = Len(p)
      /\ \A i \in 1..Len(ta) : ta[i].id = p[T + i].id /\ ta[i].length = 64 * Size(p[T + i], 1)
  BY <1>1 DEF NetAt
<1>3. w[1] = Len(p) /\ w[2] = 1
  BY <1>2
<1>4. x.beat.id = p[w[1]].id /\ x.beat.k = w[2] /\ Moved(p, r, w, v, ls, sd, x)
  <2>1. Pieces(p, r, w, v, ls, sd)
    BY <1>2 DEF Pieces
  <2> QED
    BY <2>1, NetMoves
<1>5. PICK y \in Cells :
              /\ Stream(BeatsOf(Append(sd, x)), p, 1, r, y) /\ Stream(Tail(ls), p, 1, y, v)
              /\ x.beat.last => y = <<w[1] + 1, 1>>
              /\ ~x.beat.last => y = <<w[1], w[2] + 1>>
  BY <1>4 DEF Moved
<1>6. HeadersOK(Append(sd, x))
  <2>1. x.beat.k = 1 /\ x.header = x.beat.id
    BY <1>2, <1>3, <1>4
  <2> QED
    BY <1>2, <2>1, HeadersPush
<1> DEFINE na == Append(ta, n)
<1>7. /\ Len(na) = Len(ta) + 1 /\ Len(ta) \in Nat
      /\ \A i \in 1..Len(ta) : na[i] = ta[i]
      /\ na[Len(ta) + 1] = n
  BY Push, EmptyQueue
<1> HIDE DEF na
<1>8. T + Len(na) = Len(p)
  BY <1>2, <1>7
<1>9. ASSUME NEW i \in 1..Len(na)
      PROVE  na[i].id = p[T + i].id /\ na[i].length = 64 * Size(p[T + i], 1)
  <2>1. CASE i \in 1..Len(ta)
    BY <1>2, <1>7, <2>1
  <2>2. CASE i = Len(ta) + 1
    <3>1. T + i = Len(p) /\ na[i] = n
      BY <1>2, <1>7, <2>2
    <3> QED
      BY <1>2, <3>1
  <2> QED
    BY <1>7, <2>1, <2>2
<1>10. CASE x.beat.last
  <2>1. y = <<Len(p) + 1, 1>> /\ u = "sIdle"
    BY <1>3, <1>5, <1>10
  <2>2. NetAt(p, T, r, y, v, u, sm, Tail(ls), Append(sd, x), na, t, on, k)
    BY <1>1, <1>5, <1>6, <1>8, <1>9, <2>1 DEF NetAt
  <2> QED
    BY <2>2 DEF NetOK, na
<1>11. CASE ~x.beat.last
  <2>1. y[1] = Len(p) /\ y[2] > 1 /\ u = "send_data"
    BY <1>3, <1>5, <1>11
  <2>2. NetAt(p, T, r, y, v, u, sm, Tail(ls), Append(sd, x), na, t, on, k)
    BY <1>1, <1>2, <1>5, <1>6, <1>8, <1>9, <2>1 DEF NetAt
  <2> QED
    BY <2>2 DEF NetOK, na
<1> QED
  BY <1>10, <1>11

(* The engine begins a send: the next announcement.                        *)
LEMMA EngineStarts ==
  ASSUME NEW sa, NEW sm, NEW ls, NEW sd, NEW ta \in Seq(Sends), ta # <<>>, NEW t \in TxState,
         NEW on, NEW k, NetOK(sa, sm, ls, sd, ta, t, on, k), t.left = 0,
         NEW y \in TxState, y.id = Head(ta).id, y.left = Head(ta).length
  PROVE  NetOK(sa, sm, ls, sd, Tail(ta), y, on, k)
<1>1. PICK p \in Seq(Metas), T \in Nat, r \in Cells, w \in Cells, v \in Cells :
        NetAt(p, T, r, w, v, sa, sm, ls, sd, ta, t, on, k)
  BY DEF NetOK
<1>2. /\ r = <<T + 1, 1>>
      /\ \A i \in 1..Len(ta) : ta[i].id = p[T + i].id /\ ta[i].length = 64 * Size(p[T + i], 1)
      /\ sa = "send_meta" => (T + Len(ta)) + 1 = Len(p)
      /\ sa # "send_meta" => T + Len(ta) = Len(p)
  BY <1>1 DEF NetAt
<1> DEFINE na == Tail(ta)
           U == T + 1
<1>3. /\ Len(ta) \in Nat /\ Len(ta) > 0 /\ Len(na) = Len(ta) - 1 /\ Head(ta) = ta[1]
      /\ \A i \in 1..Len(na) : na[i] = ta[i + 1]
  BY Pop
<1>4. Len(p) \in Nat /\ U \in 1..Len(p) /\ U \in Nat
  <2>1. Len(p) \in Nat
    OBVIOUS
  <2> QED
    BY <1>2, <1>3, <2>1
<1>5. p[U] \in Metas
  BY <1>4
<1>6. Size(p[U], 1) \in Nat /\ Size(p[U], 1) >= 1
  BY <1>5, SizeType
<1>7. y.id = p[U].id /\ y.left = 64 * Size(p[U], 1)
  <2>1. 1 \in 1..Len(ta)
    BY <1>3
  <2> QED
    BY <1>2, <1>3, <2>1
<1> HIDE DEF na
<1>8. ASSUME NEW i \in 1..Len(na)
      PROVE  na[i].id = p[U + i].id /\ na[i].length = 64 * Size(p[U + i], 1)
  <2>1. i + 1 \in 1..Len(ta) /\ T + (i + 1) = U + i
    BY <1>3
  <2>2. ta[i + 1].id = p[T + (i + 1)].id /\ ta[i + 1].length = 64 * Size(p[T + (i + 1)], 1)
    BY <1>2, <2>1
  <2> QED
    BY <1>3, <2>1, <2>2
<1>9. /\ sa = "send_meta" => (U + Len(na)) + 1 = Len(p)
      /\ sa # "send_meta" => U + Len(na) = Len(p)
  BY <1>2, <1>3
<1>10. /\ U > 0 /\ U <= Len(p) /\ r[1] = U /\ r[2] = 1
  BY <1>2, <1>4
<1> HIDE DEF U
<1>11. r[2] \in 1..Size(p[U], 1) /\ y.left = 64 * ((Size(p[U], 1) - r[2]) + 1) /\ y.left > 0
  BY <1>6, <1>7, <1>10
<1>12. NetAt(p, U, r, w, v, sa, sm, ls, sd, na, y, on, k)
  BY <1>1, <1>7, <1>8, <1>9, <1>10, <1>11 DEF NetAt
<1> QED
  BY <1>4, <1>12 DEF NetOK, na

(* The beat at the head belongs to the send, carries the right header and  *)
(* is marked exactly when the length runs out.                             *)
LEMMA EngineFramed ==
  ASSUME NEW sa, NEW sm, NEW ls, NEW sd \in Seq(SendBeat), sd # <<>>, NEW ta, NEW t,
         NEW on, NEW k, NetOK(sa, sm, ls, sd, ta, t, on, k), t.left > 0
  PROVE  LET b == Head(sd).beat IN
         /\ b.id = t.id
         /\ b.k = 1 => Head(sd).header = b.id
         /\ b.k # 1 => Head(sd).header = 0
         /\ b.last <=> t.left = 64
<1> DEFINE b == Head(sd).beat
<1>1. PICK p \in Seq(Metas), T \in Nat, r \in Cells, w \in Cells, v \in Cells :
        NetAt(p, T, r, w, v, sa, sm, ls, sd, ta, t, on, k)
  BY DEF NetOK
<1>2. /\ T > 0 /\ T <= Len(p) /\ r[1] = T /\ r[2] \in 1..Size(p[T], 1)
      /\ t.id = p[T].id /\ t.left = 64 * ((Size(p[T], 1) - r[2]) + 1)
      /\ HeadersOK(sd)
  BY <1>1 DEF NetAt
<1>3. Stream(BeatsOf(sd), p, 1, r, w)
  BY <1>1 DEF NetAt
<1>4. BeatsOf(sd) \in Seq(Beat) /\ BeatsOf(sd) # <<>> /\ Head(BeatsOf(sd)) = b
  BY BeatsPop
<1>5. Match(b, p, 1, r)
  BY <1>3, <1>4, StreamPop
<1> HIDE DEF b
<1>6. b.id = p[T].id /\ (b.last <=> r[2] = Size(p[T], 1))
  BY <1>2, <1>5 DEF Match
<1>7. Size(p[T], 1) \in Nat
  <2>1. p[T] \in Metas
    BY <1>2
  <2> QED
    BY <2>1, SizeType
<1>8. r[2] = Size(p[T], 1) <=> t.left = 64
  BY <1>2, <1>7
<1>9. (b.k = 1 => Head(sd).header = b.id) /\ (b.k # 1 => Head(sd).header = 0)
  <2>1. Head(sd) = sd[1] /\ 1 \in 1..Len(sd)
    OBVIOUS
  <2> QED
    BY <1>2, <2>1 DEF HeadersOK, b
<1> QED
  BY <1>2, <1>6, <1>8, <1>9 DEF b

(* The engine takes a beat.                                                *)
LEMMA EngineTakes ==
  ASSUME NEW sa, NEW sm, NEW ls, NEW sd \in Seq(SendBeat), sd # <<>>, NEW ta, NEW t \in TxState,
         NEW on, NEW k, NetOK(sa, sm, ls, sd, ta, t, on, k), t.left > 0,
         NEW y, y.id = t.id, y.left = t.left - 64
  PROVE  y.left \in Nat /\ NetOK(sa, sm, ls, Tail(sd), ta, y, on, k)
<1>1. PICK p \in Seq(Metas), T \in Nat, r \in Cells, w \in Cells, v \in Cells :
        NetAt(p, T, r, w, v, sa, sm, ls, sd, ta, t, on, k)
  BY DEF NetOK
<1>2. /\ T > 0 /\ T <= Len(p) /\ r[1] = T /\ r[2] \in 1..Size(p[T], 1)
      /\ t.id = p[T].id /\ t.left = 64 * ((Size(p[T], 1) - r[2]) + 1)
      /\ HeadersOK(sd)
  BY <1>1 DEF NetAt
<1>3. Stream(BeatsOf(sd), p, 1, r, w)
  BY <1>1 DEF NetAt
<1>4. BeatsOf(sd) \in Seq(Beat) /\ BeatsOf(sd) # <<>> /\ BeatsOf(Tail(sd)) = Tail(BeatsOf(sd))
  BY BeatsPop
<1> DEFINE z == After(p, 1, r)
           n == Size(p[T], 1)
<1>5. Inside(p, 1, r) /\ Stream(BeatsOf(Tail(sd)), p, 1, z, w)
  <2>1. Inside(p, 1, r) /\ Stream(Tail(BeatsOf(sd)), p, 1, z, w)
    BY <1>3, <1>4, StreamPop
  <2> QED
    BY <1>4, <2>1
<1>6. /\ z \in Cells
      /\ r[2] < n => z = <<T, r[2] + 1>>
      /\ r[2] = n => z = <<T + 1, 1>>
  BY <1>2, <1>5, AfterIs
<1>7. n \in Nat
  <2>1. p[T] \in Metas
    BY <1>2
  <2> QED
    BY <2>1, SizeType
<1>8. HeadersOK(Tail(sd))
  <2>1. Len(Tail(sd)) = Len(sd) - 1 /\ Len(sd) \in Nat /\ \A i \in 1..Len(Tail(sd)) : Tail(sd)[i] = sd[i + 1]
    BY Pop
  <2>2. \A i \in 1..Len(Tail(sd)) : i + 1 \in 1..Len(sd)
    BY <2>1
  <2> QED
    BY <1>2, <2>1, <2>2 DEF HeadersOK
<1> HIDE DEF z
<1>9. CASE r[2] = n
  <2>1. y.left = 0 /\ z = <<T + 1, 1>>
    BY <1>2, <1>6, <1>7, <1>9
  <2>2. NetAt(p, T, z, w, v, sa, sm, ls, Tail(sd), ta, y, on, k)
    BY <1>1, <1>5, <1>8, <2>1 DEF NetAt
  <2> QED
    BY <1>6, <2>1, <2>2 DEF NetOK
<1>10. CASE r[2] < n
  <2> HIDE DEF n
  <2>0. r[2] \in 1..n /\ t.left = 64 * ((n - r[2]) + 1)
    BY <1>2 DEF n
  <2>1. z[1] = T /\ z[2] = r[2] + 1
    BY <1>6, <1>10
  <2>2. z[2] \in 1..n /\ y.left = 64 * ((n - z[2]) + 1) /\ y.left > 0 /\ y.left \in Nat
    <3> DEFINE i == r[2]
               j == z[2]
               f == t.left
               g == y.left
    <3>1. i \in 1..n /\ i < n /\ j = i + 1 /\ f = 64 * ((n - i) + 1) /\ g = f - 64
      BY <1>10, <2>0, <2>1
    <3> HIDE DEF i, j, f, g
    <3>2. j \in 1..n /\ g = 64 * ((n - j) + 1) /\ g > 0 /\ g \in Nat
      BY <1>7, <3>1
    <3> QED
      BY <3>2 DEF i, j, f, g
  <2>3. NetAt(p, T, z, w, v, sa, sm, ls, Tail(sd), ta, y, on, k)
    BY <1>1, <1>2, <1>5, <1>8, <2>1, <2>2 DEF NetAt, n
  <2> QED
    BY <1>6, <2>2, <2>3 DEF NetOK
<1> QED
  BY <1>2, <1>7, <1>9, <1>10

-----------------------------------------------------------------------------
(* The inductive invariant.                                                *)

TypeOK ==
  /\ cmds \in Seq(Cmds)
  /\ meta_in \in [Lanes -> Seq(Cmds)]
  /\ state \in [Lanes -> States] /\ meta_reg \in [Lanes -> Reg]
  /\ host_length \in [Lanes -> Nat] /\ device_length \in [Lanes -> Nat] /\ sent_k \in [Lanes -> Nat]
  /\ meta_out \in [Lanes -> Seq(Metas)] /\ data_out \in [Lanes -> Seq(Beat)]
  /\ granted \in Lanes \cup {-1}
  /\ rpc_lshift \in Seq(Beat) /\ state_aw \in AwStates /\ serout_meta \in Sends
  /\ send_data_fifo \in Seq(SendBeat) /\ s_tx_meta \in Seq(Sends) /\ tx \in TxState

Regs == \A l \in Lanes : RegOK(state[l], meta_reg[l], host_length[l], device_length[l])

(* The arbiter is at beat k of the message it passes on.                   *)
LaneFlow(l, k) ==
  LaneOK(state[l], meta_reg[l], device_length[l], sent_k[l], meta_out[l], data_out[l],
         granted = l, serout_meta, k)
NetFlow(k) ==
  NetOK(state_aw, serout_meta, rpc_lshift, send_data_fifo, s_tx_meta, tx, granted \in Lanes, k)
Flow(k) == NetFlow(k) /\ \A l \in Lanes : LaneFlow(l, k)

IInv == TypeOK /\ Regs /\ \E k \in Nat : Flow(k)

-----------------------------------------------------------------------------
LEMMA LanesFacts == -1 \notin Lanes
  BY DEF Lanes, Ser!Lanes

LEMMA LensFacts ==
  ASSUME NEW h \in HostLens, NEW d \in DeviceLens
  PROVE  /\ h \in Nat /\ h > 0 /\ d \in Nat /\ LEN_MOD \in Nat
         /\ d = 0 => h >= 32 /\ h + 64 < LEN_MOD
         /\ d # 0 => h + d >= 64 /\ h + d < LEN_MOD
         /\ h % LEN_MOD = h /\ d % LEN_MOD = d
<1>1. /\ h \in Nat /\ h > 0 /\ d \in Nat /\ LEN_MOD \in Nat
      /\ d = 0 => h >= 32 /\ h + 64 < LEN_MOD
      /\ d # 0 => h + d >= 64 /\ h + d < LEN_MOD
  BY RpcSendAssumption
<1>2. h < LEN_MOD /\ d < LEN_MOD
  BY <1>1
<1>3. h % LEN_MOD = h /\ d % LEN_MOD = d
  BY <1>1, <1>2
<1> QED
  BY <1>1, <1>3

LEMMA Update ==
  ASSUME NEW S, NEW f \in [Lanes -> S], NEW l \in Lanes, NEW v \in S
  PROVE  LET g == [f EXCEPT ![l] = v] IN
         g \in [Lanes -> S] /\ g[l] = v /\ \A j \in Lanes : j # l => g[j] = f[j]
  OBVIOUS

LEMMA InitInv == Init => IInv
<1> SUFFICES ASSUME Init PROVE IInv
  OBVIOUS
<1> USE DEF Init, Ser!Init, Net!Init, Lanes, NoTx
<1>1. TypeOK
  <2>1. [id |-> 0, host |-> 0, device |-> 0] \in Reg /\ [id |-> 0, left |-> 0] \in TxState
        /\ [id |-> 0, length |-> 0] \in Sends
    BY DEF Reg, TxState, Sends
  <2>2. "sIdle" \in States /\ "sIdle" \in AwStates
    BY DEF States, AwStates
  <2>3. \A S : <<>> \in Seq(S)
    OBVIOUS
  <2> QED
    BY <2>1, <2>2, <2>3 DEF TypeOK
<1>2. Regs
  BY DEF Regs, RegOK
<1>3. \A c \in {<<1, 1>>} : c \in Cells
  BY DEF Cells
<1>4. <<>> \in Seq(Metas) /\ Len(<<>>) = 0 /\ 1..0 = {}
  OBVIOUS
<1>5. granted = -1 /\ granted \notin Lanes
  BY LanesFacts
<1>6. NetFlow(1)
  <2>1. BeatsOf(<<>>) = <<>>
    BY DEF BeatsOf
  <2>2. Stream(<<>>, <<>>, 1, <<1, 1>>, <<1, 1>>)
    BY StreamNil
  <2>3. \A m : NetAt(<<>>, 0, <<1, 1>>, <<1, 1>>, <<1, 1>>, "sIdle", m, <<>>, <<>>, <<>>,
              [id |-> 0, left |-> 0], FALSE, 1)
    BY <1>4, <2>1, <2>2 DEF NetAt, HeadersOK
  <2>4. \A m : NetOK("sIdle", m, <<>>, <<>>, <<>>, [id |-> 0, left |-> 0], FALSE, 1)
    BY <1>3, <1>4, <2>3 DEF NetOK
  <2>5. (granted \in Lanes) = FALSE
    BY <1>5
  <2> QED
    BY <2>4, <2>5 DEF NetFlow
<1>7. ASSUME NEW l \in Lanes PROVE LaneFlow(l, 1)
  <2>1. Stream(<<>>, <<>>, 0, <<1, 1>>, <<1, 1>>)
    BY StreamNil
  <2>2. \A mr, dl, sk, m : LaneAt(<<>>, <<1, 1>>, <<1, 1>>, "sIdle", mr, dl, sk, <<>>, <<>>, FALSE, m, 1)
    BY <1>4, <2>1 DEF LaneAt
  <2>3. \A mr, dl, sk, m : LaneOK("sIdle", mr, dl, sk, <<>>, <<>>, FALSE, m, 1)
    BY <1>3, <1>4, <2>2 DEF LaneOK
  <2>4. (granted = l) = FALSE
    BY <1>5
  <2>5. state[l] = "sIdle" /\ meta_out[l] = <<>> /\ data_out[l] = <<>>
    OBVIOUS
  <2> QED
    BY <2>3, <2>4, <2>5 DEF LaneFlow
<1> QED
  BY <1>1, <1>2, <1>6, <1>7 DEF IInv, Flow

-----------------------------------------------------------------------------
(* Steps of the serializers.                                               *)

LaneTypes ==
  /\ meta_in \in [Lanes -> Seq(Cmds)]
  /\ state \in [Lanes -> States] /\ meta_reg \in [Lanes -> Reg]
  /\ host_length \in [Lanes -> Nat] /\ device_length \in [Lanes -> Nat] /\ sent_k \in [Lanes -> Nat]
  /\ meta_out \in [Lanes -> Seq(Metas)] /\ data_out \in [Lanes -> Seq(Beat)]

Others(l) ==
  \A j \in Lanes : j # l =>
    /\ state'[j] = state[j] /\ meta_reg'[j] = meta_reg[j]
    /\ host_length'[j] = host_length[j] /\ device_length'[j] = device_length[j]
    /\ sent_k'[j] = sent_k[j] /\ meta_out'[j] = meta_out[j] /\ data_out'[j] = data_out[j]

LaneStepOK(l, k) ==
  /\ LaneTypes' /\ Others(l)
  /\ RegOK(state'[l], meta_reg'[l], host_length'[l], device_length'[l])
  /\ LaneOK(state'[l], meta_reg'[l], device_length'[l], sent_k'[l], meta_out'[l], data_out'[l],
            granted = l, serout_meta, k)

(* A step of one lane that does all this keeps the invariant.              *)
LEMMA SerFrame ==
  ASSUME IInv, NEW l \in Lanes, UNCHANGED <<cmds, granted, net_vars, eng_vars>>,
         \A k \in Nat : Flow(k) => LaneStepOK(l, k)
  PROVE  IInv'
<1>1. PICK k \in Nat : Flow(k)
  BY DEF IInv
<1>2. LaneStepOK(l, k)
  BY <1>1
<1>3. /\ UNCHANGED <<cmds, granted, rpc_lshift, state_aw, serout_meta, send_data_fifo, s_tx_meta, tx>>
  BY DEF net_vars, eng_vars
<1>4. TypeOK'
  BY <1>2, <1>3 DEF LaneStepOK, LaneTypes, TypeOK, IInv
<1>5. Regs'
  BY <1>2 DEF LaneStepOK, Others, Regs, IInv
<1>6. NetFlow(k)'
  BY <1>1, <1>3 DEF Flow, NetFlow
<1>7. ASSUME NEW j \in Lanes PROVE LaneFlow(j, k)'
  <2>1. CASE j = l
    BY <1>2, <1>3, <2>1 DEF LaneStepOK, LaneFlow
  <2>2. CASE j # l
    <3>1. LaneFlow(j, k)
      BY <1>1 DEF Flow
    <3>2. /\ state'[j] = state[j] /\ meta_reg'[j] = meta_reg[j]
          /\ device_length'[j] = device_length[j]
          /\ sent_k'[j] = sent_k[j] /\ meta_out'[j] = meta_out[j] /\ data_out'[j] = data_out[j]
      BY <1>2, <2>2 DEF LaneStepOK, Others
    <3> QED
      BY <1>3, <3>1, <3>2 DEF LaneFlow
  <2> QED
    BY <2>1, <2>2
<1>8. Flow(k)'
  BY <1>6, <1>7 DEF Flow
<1> QED
  BY <1>4, <1>5, <1>8 DEF IInv

LEMMA LaneValues ==
  ASSUME TypeOK, NEW l \in Lanes
  PROVE  /\ meta_in[l] \in Seq(Cmds) /\ state[l] \in States /\ meta_reg[l] \in Reg
         /\ host_length[l] \in Nat /\ device_length[l] \in Nat /\ sent_k[l] \in Nat
         /\ meta_out[l] \in Seq(Metas) /\ data_out[l] \in Seq(Beat)
         /\ meta_reg[l].id \in Nat /\ meta_reg[l].host \in Nat /\ meta_reg[l].device \in Nat
         /\ (granted = l) \in BOOLEAN
<1>1. meta_reg[l] \in Reg
  BY DEF TypeOK
<1>2. meta_reg[l].id \in Nat /\ meta_reg[l].host \in Nat /\ meta_reg[l].device \in Nat
  BY <1>1 DEF Reg
<1> QED
  BY <1>1, <1>2 DEF TypeOK

LEMMA StepIdle ==
  ASSUME TypeOK, Regs, NEW l \in Lanes, NEW k \in Nat, Flow(k), Ser!Idle(l)
  PROVE  LaneStepOK(l, k)
<1> DEFINE c == Head(meta_in[l])
<1>1. /\ state[l] = "sIdle" /\ meta_in[l] # <<>>
      /\ meta_reg' = [meta_reg EXCEPT ![l] = c]
      /\ host_length' = [host_length EXCEPT ![l] = c.host % LEN_MOD]
      /\ device_length' = [device_length EXCEPT ![l] = c.device % LEN_MOD]
      /\ meta_in' = [meta_in EXCEPT ![l] = Tail(meta_in[l])]
      /\ state' = [state EXCEPT ![l] = "sHost"]
      /\ UNCHANGED <<sent_k, meta_out, data_out>>
  BY DEF Ser!Idle, Ser!Goto, Ser!out_q
<1>2. meta_in[l] \in Seq(Cmds)
  BY LaneValues
<1>3. c \in Cmds /\ Tail(meta_in[l]) \in Seq(Cmds)
  BY <1>1, <1>2, Pop
<1> HIDE DEF c
<1>4. c.host \in HostLens /\ c.device \in DeviceLens /\ c.id \in Nat
  BY <1>3 DEF Cmds
<1>5. /\ c.host \in Nat /\ c.host > 0 /\ c.device \in Nat
      /\ c.host % LEN_MOD = c.host /\ c.device % LEN_MOD = c.device
  BY <1>4, LensFacts
<1>6. c \in Reg
  BY <1>3, <1>4, <1>5 DEF Cmds, Reg
<1>7. "sHost" \in States
  BY DEF States
<1>8. LaneTypes'
  BY <1>1, <1>3, <1>5, <1>6, <1>7 DEF TypeOK, LaneTypes
<1>9. Others(l)
  BY <1>1 DEF TypeOK, Others
<1>10. /\ state'[l] = "sHost" /\ meta_reg'[l] = c /\ host_length'[l] = c.host
       /\ device_length'[l] = c.device
       /\ sent_k'[l] = sent_k[l] /\ meta_out'[l] = meta_out[l] /\ data_out'[l] = data_out[l]
  BY <1>1, <1>5 DEF TypeOK
<1>11. RegOK("sHost", c, c.host, c.device)
  BY <1>4, <1>5 DEF RegOK
<1>12. LaneOK("sHost", c, c.device, sent_k[l], meta_out[l], data_out[l], granted = l, serout_meta, k)
  <2>1. LaneOK("sIdle", meta_reg[l], device_length[l], sent_k[l], meta_out[l], data_out[l],
               granted = l, serout_meta, k)
    BY <1>1 DEF Flow, LaneFlow
  <2> QED
    BY <2>1, LaneQuiet
<1> QED
  BY <1>8, <1>9, <1>10, <1>11, <1>12 DEF LaneStepOK

(* A step that neither leaves nor enters sSendData and changes only        *)
(* registers.                                                              *)
LEMMA StepQuiet ==
  ASSUME TypeOK, NEW l \in Lanes, NEW k \in Nat, Flow(k), state[l] # "sSendData",
         NEW u \in States, u # "sSendData", NEW nr \in Reg, NEW nl \in Nat,
         state' = [state EXCEPT ![l] = u], meta_reg' = [meta_reg EXCEPT ![l] = nr],
         device_length' = [device_length EXCEPT ![l] = nl],
         UNCHANGED <<meta_in, host_length, sent_k, meta_out, data_out>>,
         RegOK(u, nr, host_length[l], nl)
  PROVE  LaneStepOK(l, k)
<1>1. LaneTypes'
  BY DEF TypeOK, LaneTypes
<1>2. Others(l)
  BY DEF TypeOK, Others
<1>3. /\ state'[l] = u /\ meta_reg'[l] = nr /\ host_length'[l] = host_length[l]
      /\ device_length'[l] = nl
      /\ sent_k'[l] = sent_k[l] /\ meta_out'[l] = meta_out[l] /\ data_out'[l] = data_out[l]
  BY DEF TypeOK
<1>4. LaneOK(u, nr, nl, sent_k[l], meta_out[l], data_out[l], granted = l, serout_meta, k)
  <2>1. LaneOK(state[l], meta_reg[l], device_length[l], sent_k[l], meta_out[l], data_out[l],
               granted = l, serout_meta, k)
    BY DEF Flow, LaneFlow
  <2> QED
    BY <2>1, LaneQuiet
<1> QED
  BY <1>1, <1>2, <1>3, <1>4 DEF LaneStepOK

(* Nothing written is the same as the old value written.                   *)
LEMMA Kept ==
  ASSUME TypeOK, NEW l \in Lanes
  PROVE  /\ state = [state EXCEPT ![l] = state[l]]
         /\ meta_reg = [meta_reg EXCEPT ![l] = meta_reg[l]]
         /\ device_length = [device_length EXCEPT ![l] = device_length[l]]
  BY DEF TypeOK

LEMMA StepHost ==
  ASSUME TypeOK, Regs, NEW l \in Lanes, NEW k \in Nat, Flow(k), Ser!Host(l)
  PROVE  LaneStepOK(l, k)
<1> DEFINE mr == meta_reg[l]
           hl == host_length[l]
           dl == device_length[l]
<1>1. state[l] = "sHost" /\ UNCHANGED <<meta_in, host_length, sent_k, meta_out, data_out>>
  BY DEF Ser!Host, Ser!out_q
<1>2. /\ mr \in Reg /\ hl \in Nat /\ dl \in Nat /\ mr.id \in Nat /\ mr.host \in Nat
      /\ mr.device \in Nat /\ state[l] \in States
  BY LaneValues
<1>3. PICK h \in HostLens, d \in DeviceLens :
        hl = h /\ dl = d /\ mr.device = d /\ mr.host \in 1..h /\ (h <= 64 => mr.host = h)
  BY <1>1 DEF Regs, RegOK
<1>4. /\ h \in Nat /\ h > 0 /\ d \in Nat /\ LEN_MOD \in Nat
      /\ d = 0 => h >= 32 /\ h + 64 < LEN_MOD
      /\ d # 0 => h + d >= 64 /\ h + d < LEN_MOD
  BY LensFacts
<1>5. "sDelay" \in States /\ "sDevice" \in States /\ "sHost" \in States
  BY DEF States
<1>6. state = [state EXCEPT ![l] = "sHost"] /\ meta_reg = [meta_reg EXCEPT ![l] = mr]
      /\ device_length = [device_length EXCEPT ![l] = dl]
  BY <1>1, Kept
<1>7. \/ /\ mr.host > 64
         /\ meta_reg' = [meta_reg EXCEPT ![l].host = @ - 64]
         /\ UNCHANGED <<state, device_length>>
      \/ /\ ~(mr.host > 64) /\ mr.device = 0
         /\ device_length' = [device_length EXCEPT ![l] = mr.host % LEN_MOD]
         /\ state' = [state EXCEPT ![l] = "sDelay"] /\ UNCHANGED meta_reg
      \/ /\ ~(mr.host > 64) /\ mr.device # 0
         /\ state' = [state EXCEPT ![l] = "sDevice"] /\ UNCHANGED <<meta_reg, device_length>>
  BY DEF Ser!Host, Ser!MoreBeats, Ser!Goto
<1>8. CASE /\ mr.host > 64
           /\ meta_reg' = [meta_reg EXCEPT ![l].host = @ - 64]
           /\ UNCHANGED <<state, device_length>>
  <2> DEFINE nr == [mr EXCEPT !.host = mr.host - 64]
  <2>1. mr.host - 64 \in Nat
    BY <1>2, <1>8
  <2>2. nr \in Reg /\ nr.host = mr.host - 64 /\ nr.device = mr.device
    BY <1>2, <2>1 DEF Reg
  <2>3. meta_reg' = [meta_reg EXCEPT ![l] = nr]
    BY <1>8
  <2> HIDE DEF nr
  <2>4. mr.host - 64 \in 1..h /\ ~(h <= 64)
    BY <1>2, <1>3, <1>4, <1>8
  <2>5. RegOK("sHost", nr, hl, dl)
    BY <1>3, <2>2, <2>4 DEF RegOK
  <2>6. state' = [state EXCEPT ![l] = "sHost"] /\ device_length' = [device_length EXCEPT ![l] = dl]
    BY <1>6, <1>8
  <2> QED
    BY <1>1, <1>2, <1>5, <2>2, <2>3, <2>5, <2>6, StepQuiet
<1>9. CASE /\ ~(mr.host > 64) /\ mr.device = 0
           /\ device_length' = [device_length EXCEPT ![l] = mr.host % LEN_MOD]
           /\ state' = [state EXCEPT ![l] = "sDelay"] /\ UNCHANGED meta_reg
  <2>1. hl + mr.host >= 64 /\ hl + mr.host < LEN_MOD /\ mr.host < LEN_MOD
    BY <1>2, <1>3, <1>4, <1>9
  <2>2. mr.host % LEN_MOD = mr.host
    BY <1>2, <1>4, <2>1
  <2>3. RegOK("sDelay", mr, hl, mr.host)
    BY <2>1 DEF RegOK
  <2>4. meta_reg' = [meta_reg EXCEPT ![l] = mr] /\ device_length' = [device_length EXCEPT ![l] = mr.host]
    BY <1>6, <1>9, <2>2
  <2> QED
    BY <1>1, <1>2, <1>5, <1>9, <2>3, <2>4, StepQuiet
<1>10. CASE /\ ~(mr.host > 64) /\ mr.device # 0
            /\ state' = [state EXCEPT ![l] = "sDevice"] /\ UNCHANGED <<meta_reg, device_length>>
  <2>1. hl + dl >= 64 /\ hl + dl < LEN_MOD
    BY <1>2, <1>3, <1>4, <1>10
  <2>2. RegOK("sDevice", mr, hl, dl)
    BY <2>1 DEF RegOK
  <2>3. meta_reg' = [meta_reg EXCEPT ![l] = mr] /\ device_length' = [device_length EXCEPT ![l] = dl]
    BY <1>6, <1>10
  <2>4. state' = [state EXCEPT ![l] = "sDevice"]
    BY <1>10
  <2> QED
    BY <1>1, <1>2, <1>5, <2>2, <2>3, <2>4, StepQuiet
<1> QED
  BY <1>7, <1>8, <1>9, <1>10

LEMMA StepDevice ==
  ASSUME TypeOK, Regs, NEW l \in Lanes, NEW k \in Nat, Flow(k), Ser!Device(l)
  PROVE  LaneStepOK(l, k)
<1> DEFINE mr == meta_reg[l]
           hl == host_length[l]
           dl == device_length[l]
<1>1. state[l] = "sDevice" /\ UNCHANGED <<meta_in, host_length, device_length, sent_k, meta_out, data_out>>
  BY DEF Ser!Device, Ser!out_q
<1>2. mr \in Reg /\ hl \in Nat /\ dl \in Nat /\ mr.device \in Nat
  BY LaneValues
<1>3. hl + dl >= 64 /\ hl + dl < LEN_MOD
  BY <1>1 DEF Regs, RegOK
<1>4. \A nr : RegOK("sDevice", nr, hl, dl) /\ RegOK("sDelay", nr, hl, dl)
  BY <1>3 DEF RegOK
<1>5. "sDelay" \in States /\ "sDevice" \in States
  BY DEF States
<1>6. state = [state EXCEPT ![l] = "sDevice"] /\ meta_reg = [meta_reg EXCEPT ![l] = mr]
      /\ device_length' = [device_length EXCEPT ![l] = dl]
  BY <1>1, Kept
<1>7. CASE mr.device > 64
  <2> DEFINE nr == [mr EXCEPT !.device = mr.device - 64]
  <2>1. mr.device - 64 \in Nat
    BY <1>2, <1>7
  <2>2. nr \in Reg
    BY <1>2, <2>1 DEF Reg
  <2>3. meta_reg' = [meta_reg EXCEPT ![l] = nr] /\ state' = [state EXCEPT ![l] = "sDevice"]
    BY <1>6, <1>7 DEF Ser!Device, Ser!MoreBeats
  <2> HIDE DEF nr
  <2> QED
    BY <1>1, <1>2, <1>4, <1>5, <1>6, <2>2, <2>3, StepQuiet
<1>8. CASE ~(mr.device > 64)
  <2>1. meta_reg' = [meta_reg EXCEPT ![l] = mr] /\ state' = [state EXCEPT ![l] = "sDelay"]
    BY <1>6, <1>8 DEF Ser!Device, Ser!MoreBeats, Ser!Goto
  <2> QED
    BY <1>1, <1>2, <1>4, <1>5, <1>6, <2>1, StepQuiet
<1> QED
  BY <1>7, <1>8

LEMMA StepDelay ==
  ASSUME TypeOK, Regs, NEW l \in Lanes, NEW k \in Nat, Flow(k), Ser!Delay(l)
  PROVE  LaneStepOK(l, k)
<1> DEFINE mr == meta_reg[l]
           hl == host_length[l]
           dl == device_length[l]
<1>1. state[l] = "sDelay" /\ UNCHANGED <<meta_in, meta_reg, host_length, device_length, sent_k, meta_out, data_out>>
  BY DEF Ser!Delay, Ser!in_q, Ser!out_q
<1>2. mr \in Reg /\ hl \in Nat /\ dl \in Nat
  BY LaneValues
<1>3. hl + dl >= 64 /\ hl + dl < LEN_MOD
  BY <1>1 DEF Regs, RegOK
<1>4. RegOK("sDelay", mr, hl, dl) /\ RegOK("sSendMeta", mr, hl, dl)
  BY <1>3 DEF RegOK
<1>5. "sDelay" \in States /\ "sSendMeta" \in States
  BY DEF States
<1>6. state = [state EXCEPT ![l] = "sDelay"] /\ meta_reg' = [meta_reg EXCEPT ![l] = mr]
      /\ device_length' = [device_length EXCEPT ![l] = dl]
  BY <1>1, Kept
<1>7. state' = [state EXCEPT ![l] = "sDelay"] \/ state' = [state EXCEPT ![l] = "sSendMeta"]
  BY <1>6 DEF Ser!Delay, Ser!Goto
<1>8. CASE state' = [state EXCEPT ![l] = "sDelay"]
  BY <1>1, <1>2, <1>4, <1>5, <1>6, <1>8, StepQuiet
<1>9. CASE state' = [state EXCEPT ![l] = "sSendMeta"]
  BY <1>1, <1>2, <1>4, <1>5, <1>6, <1>9, StepQuiet
<1> QED
  BY <1>7, <1>8, <1>9

(* The length announced is a whole number of beats, at least one.          *)
LEMMA OutLengthIs ==
  ASSUME NEW h \in Nat, NEW d \in Nat, h + d >= 64, h + d < LEN_MOD
  PROVE  LET n == Ser!OutLength(h, d) IN n \in Nat /\ n > 0 /\ n % 64 = 0 /\ n < LEN_MOD
<1>1. LEN_MOD \in Nat
  BY RpcSendAssumption
<1> DEFINE x == h + d
           n == (x \div 64) * 64
<1>2. x \in Nat /\ x >= 64 /\ x < LEN_MOD
  OBVIOUS
<1>3. Ser!OutLength(h, d) = n
  <2>1. x % LEN_MOD = x
    BY <1>1, <1>2
  <2> QED
    BY <2>1 DEF Ser!OutLength
<1> HIDE DEF x
<1>4. n \in Nat /\ n > 0 /\ n % 64 = 0 /\ n <= x
  BY <1>2
<1>5. n < LEN_MOD
  BY <1>1, <1>2, <1>4
<1> QED
  BY <1>3, <1>4, <1>5

LEMMA StepSendMeta ==
  ASSUME TypeOK, Regs, NEW l \in Lanes, NEW k \in Nat, Flow(k), Ser!SendMeta(l)
  PROVE  LaneStepOK(l, k)
<1> DEFINE mr == meta_reg[l]
           n  == Ser!OutLength(host_length[l], device_length[l])
           m  == [id |-> mr.id, length |-> n]
<1>1. /\ state[l] = "sSendMeta"
      /\ meta_out' = [meta_out EXCEPT ![l] = Append(meta_out[l], m)]
      /\ device_length' = [device_length EXCEPT ![l] = n]
      /\ sent_k' = [sent_k EXCEPT ![l] = 0]
      /\ state' = [state EXCEPT ![l] = "sSendData"]
      /\ UNCHANGED <<meta_in, meta_reg, host_length, data_out>>
  BY DEF Ser!SendMeta, Ser!Goto, Ser!in_q
<1>2. /\ mr \in Reg /\ mr.id \in Nat /\ host_length[l] \in Nat /\ device_length[l] \in Nat
      /\ meta_out[l] \in Seq(Metas) /\ data_out[l] \in Seq(Beat) /\ (granted = l) \in BOOLEAN
  BY LaneValues
<1>3. host_length[l] + device_length[l] >= 64 /\ host_length[l] + device_length[l] < LEN_MOD
  BY <1>1 DEF Regs, RegOK
<1>4. n \in Nat /\ n > 0 /\ n % 64 = 0 /\ n < LEN_MOD
  BY <1>2, <1>3, OutLengthIs
<1> HIDE DEF n
<1>5. m \in Metas /\ m.id = mr.id /\ m.length = n
  BY <1>2, <1>4 DEF Metas
<1> HIDE DEF m
<1>6. Append(meta_out[l], m) \in Seq(Metas)
  BY <1>2, <1>5
<1>7. "sSendData" \in States /\ 0 \in Nat
  BY DEF States
<1>8. LaneTypes'
  BY <1>1, <1>4, <1>6, <1>7 DEF TypeOK, LaneTypes
<1>9. Others(l)
  BY <1>1 DEF TypeOK, Others
<1>10. /\ state'[l] = "sSendData" /\ meta_reg'[l] = mr /\ host_length'[l] = host_length[l]
       /\ device_length'[l] = n /\ sent_k'[l] = 0
       /\ meta_out'[l] = Append(meta_out[l], m) /\ data_out'[l] = data_out[l]
  BY <1>1 DEF TypeOK
<1>11. RegOK("sSendData", mr, host_length[l], n)
  BY DEF RegOK
<1>12. LaneOK("sSendData", mr, n, 0, Append(meta_out[l], m), data_out[l], granted = l, serout_meta, k)
  <2>1. LaneOK("sSendMeta", mr, device_length[l], sent_k[l], meta_out[l], data_out[l],
               granted = l, serout_meta, k)
    BY <1>1 DEF Flow, LaneFlow
  <2>2. LaneOK("sSendData", mr, m.length, 0, Append(meta_out[l], m), data_out[l], granted = l, serout_meta, k)
    BY <1>2, <1>4, <1>5, <2>1, LaneAnnounces
  <2> QED
    BY <1>5, <2>2
<1> QED
  BY <1>8, <1>9, <1>10, <1>11, <1>12 DEF LaneStepOK

LEMMA StepSendData ==
  ASSUME TypeOK, Regs, NEW l \in Lanes, NEW k \in Nat, Flow(k), Ser!SendData(l)
  PROVE  LaneStepOK(l, k)
<1> DEFINE mr == meta_reg[l]
           dl == device_length[l]
           sk == sent_k[l]
           x  == [id |-> mr.id, k |-> sk + 1, last |-> dl <= 64]
           u  == IF dl <= 64 THEN "sIdle" ELSE "sSendData"
<1>1. /\ state[l] = "sSendData"
      /\ data_out' = [data_out EXCEPT ![l] = Append(data_out[l], x)]
      /\ state' = [state EXCEPT ![l] = u]
      /\ device_length' = [device_length EXCEPT ![l] = (dl - 64) % LEN_MOD]
      /\ sent_k' = [sent_k EXCEPT ![l] = sk + 1]
      /\ UNCHANGED <<meta_in, meta_reg, host_length, meta_out>>
  BY DEF Ser!SendData, Ser!LastBeat, Ser!Goto, Ser!in_q
<1>2. /\ mr \in Reg /\ mr.id \in Nat /\ dl \in Nat /\ sk \in Nat
      /\ meta_out[l] \in Seq(Metas) /\ data_out[l] \in Seq(Beat) /\ (granted = l) \in BOOLEAN
  BY LaneValues
<1>3. (dl <= 64 => u = "sIdle") /\ (dl > 64 => u = "sSendData") /\ u \in States /\ u \in {"sIdle", "sSendData"}
  BY <1>2 DEF States
<1>4. LaneOK("sSendData", mr, dl, sk, meta_out[l], data_out[l], granted = l, serout_meta, k)
  BY <1>1 DEF Flow, LaneFlow
<1>5. x \in Beat /\ x.id = mr.id /\ x.k = sk + 1 /\ (x.last <=> dl <= 64)
  <2>1. (dl <= 64) \in BOOLEAN /\ sk + 1 \in Nat
    BY <1>2
  <2>2. x.id = mr.id /\ x.k = sk + 1 /\ x.last = (dl <= 64)
    OBVIOUS
  <2> HIDE DEF mr, sk, dl
  <2> QED
    BY <1>2, <2>1, <2>2, Zenon DEF Beat
<1> HIDE DEF x, u, mr, dl, sk
<1>6. /\ dl \in 64..(LEN_MOD - 1)
      /\ LaneOK(u, mr, dl - 64, sk + 1, meta_out[l], Append(data_out[l], x), granted = l, serout_meta, k)
  <2> DEFINE mo == meta_out[l]
             do == data_out[l]
             on == granted = l
             cur == serout_meta
  <2>1. mr.id \in Nat /\ sk \in Nat /\ mo \in Seq(Metas) /\ do \in Seq(Beat) /\ on \in BOOLEAN
    BY <1>2
  <2>2. LaneOK("sSendData", mr, dl, sk, mo, do, on, cur, k)
    BY <1>4
  <2>3. x \in Beat /\ NextBeat(x, u, mr, dl, sk)
    BY <1>3, <1>5 DEF NextBeat
  <2> HIDE DEF mo, do, on, cur
  <2>4. dl \in 64..(LEN_MOD - 1) /\ LaneOK(u, mr, dl - 64, sk + 1, mo, Append(do, x), on, cur, k)
    BY <2>1, <2>2, <2>3, LaneSends
  <2> QED
    BY <2>4 DEF mo, do, on, cur
<1>7. (dl - 64) % LEN_MOD = dl - 64 /\ dl - 64 \in Nat /\ sk + 1 \in Nat
  <2>1. LEN_MOD \in Nat /\ dl \in 64..(LEN_MOD - 1)
    BY <1>6, RpcSendAssumption
  <2>2. dl - 64 \in 0..(LEN_MOD - 1) /\ dl - 64 \in Nat
    BY <2>1
  <2>3. (dl - 64) % LEN_MOD = dl - 64
    BY <2>1, <2>2
  <2> QED
    BY <1>2, <2>2, <2>3
<1>8. Append(data_out[l], x) \in Seq(Beat)
  BY <1>2, <1>5
<1>9. LaneTypes'
  BY <1>1, <1>3, <1>7, <1>8 DEF TypeOK, LaneTypes
<1>10. Others(l)
  BY <1>1 DEF TypeOK, Others
<1>11. /\ state'[l] = u /\ meta_reg'[l] = mr /\ host_length'[l] = host_length[l]
       /\ device_length'[l] = dl - 64 /\ sent_k'[l] = sk + 1
       /\ meta_out'[l] = meta_out[l] /\ data_out'[l] = Append(data_out[l], x)
  BY <1>1, <1>7 DEF TypeOK, mr
<1>12. RegOK(u, mr, host_length[l], dl - 64)
  BY <1>3 DEF RegOK
<1> QED
  BY <1>6, <1>9, <1>10, <1>11, <1>12 DEF LaneStepOK

LEMMA SerInv ==
  ASSUME IInv, NEW l \in Lanes, SerStep(l) PROVE IInv'
<1>1. TypeOK /\ Regs
  BY DEF IInv
<1>2. UNCHANGED <<cmds, granted, net_vars, eng_vars>>
  BY DEF SerStep
<1>3. ASSUME NEW k \in Nat, Flow(k) PROVE LaneStepOK(l, k)
  BY <1>1, <1>3, StepIdle, StepHost, StepDevice, StepDelay, StepSendMeta, StepSendData
     DEF SerStep, Ser!Lane
<1> QED
  BY <1>2, <1>3, SerFrame

-----------------------------------------------------------------------------
(* The other steps.                                                        *)

LEMMA CommandInv ==
  ASSUME IInv, NEW l \in Lanes, NEW h \in HostLens, NEW d \in DeviceLens, Command(l, h, d)
  PROVE  IInv'
<1> DEFINE c == [id |-> Len(cmds) + 1, host |-> h, device |-> d]
<1>1. /\ cmds' = Append(cmds, c)
      /\ meta_in' = [meta_in EXCEPT ![l] = Append(meta_in[l], c)]
      /\ UNCHANGED <<state, meta_reg, host_length, device_length, sent_k, meta_out, data_out, granted,
                     rpc_lshift, state_aw, serout_meta, send_data_fifo, s_tx_meta, tx>>
  BY DEF Command, net_vars, eng_vars
<1>2. TypeOK /\ Regs
  BY DEF IInv
<1>3. cmds \in Seq(Cmds) /\ meta_in[l] \in Seq(Cmds)
  BY <1>2, LaneValues DEF TypeOK
<1>4. c \in Cmds
  BY <1>3 DEF Cmds
<1> HIDE DEF c
<1>5. Append(cmds, c) \in Seq(Cmds) /\ Append(meta_in[l], c) \in Seq(Cmds)
  BY <1>3, <1>4
<1>6. TypeOK'
  BY <1>1, <1>2, <1>5 DEF TypeOK
<1>7. Regs'
  BY <1>1, <1>2 DEF Regs
<1>8. PICK k \in Nat : Flow(k)
  BY DEF IInv
<1>9. Flow(k)'
  BY <1>1, <1>8 DEF Flow, NetFlow, LaneFlow
<1> QED
  BY <1>6, <1>7, <1>9 DEF IInv

(* A step behind the arbiter.                                              *)
LEMMA NetFrame ==
  ASSUME IInv, UNCHANGED <<cmds, ser_vars, meta_out, data_out, granted, serout_meta>>,
         /\ rpc_lshift' \in Seq(Beat) /\ state_aw' \in AwStates /\ send_data_fifo' \in Seq(SendBeat)
         /\ s_tx_meta' \in Seq(Sends) /\ tx' \in TxState,
         \A k \in Nat : NetFlow(k) =>
           NetOK(state_aw', serout_meta, rpc_lshift', send_data_fifo', s_tx_meta', tx', granted \in Lanes, k)
  PROVE  IInv'
<1>1. UNCHANGED <<cmds, meta_in, state, meta_reg, host_length, device_length, sent_k, meta_out, data_out,
                  granted, serout_meta>>
  BY DEF ser_vars
<1>2. TypeOK' /\ Regs'
  BY <1>1 DEF IInv, TypeOK, Regs
<1>3. PICK k \in Nat : Flow(k)
  BY DEF IInv
<1>4. \A l \in Lanes : LaneFlow(l, k)'
  BY <1>1, <1>3 DEF Flow, LaneFlow
<1>5. NetFlow(k)'
  BY <1>1, <1>3 DEF Flow, NetFlow
<1> QED
  BY <1>2, <1>4, <1>5 DEF IInv, Flow

LEMMA NetValues ==
  ASSUME TypeOK
  PROVE  /\ rpc_lshift \in Seq(Beat) /\ state_aw \in AwStates /\ serout_meta \in Sends
         /\ send_data_fifo \in Seq(SendBeat) /\ s_tx_meta \in Seq(Sends) /\ tx \in TxState
         /\ serout_meta.id \in Nat /\ serout_meta.length \in Nat
         /\ tx.id \in Nat /\ tx.left \in Nat
<1>1. serout_meta \in Sends /\ tx \in TxState
  BY DEF TypeOK
<1>2. serout_meta.id \in Nat /\ serout_meta.length \in Nat /\ tx.id \in Nat /\ tx.left \in Nat
  BY <1>1 DEF Sends, TxState
<1> QED
  BY <1>1, <1>2 DEF TypeOK

(* The beat MemToNet sends and the state after it.                         *)
LEMMA BeatSent ==
  ASSUME NEW b \in Beat, NEW h \in Nat
  PROVE  /\ [beat |-> b, header |-> h] \in SendBeat
         /\ Net!AfterBeat(b) \in AwStates
         /\ b.last => Net!AfterBeat(b) = "sIdle"
         /\ ~b.last => Net!AfterBeat(b) = "send_data"
<1>1. [beat |-> b, header |-> h] \in SendBeat
  BY DEF SendBeat
<1> QED
  BY <1>1 DEF Net!AfterBeat, AwStates

(* A message with its header is one beat longer.                           *)
LEMMA TxLengthIs ==
  ASSUME NEW m \in Metas PROVE Net!TxLength(m.length) = 64 * Size(m, 1) /\ Net!TxLength(m.length) \in Nat
<1> DEFINE n == Size(m, 0)
           f == m.length
<1>1. n \in Nat /\ f = 64 * n /\ Size(m, 1) = n + 1
  BY SizeType
<1> HIDE DEF n, f
<1>2. ((f + 8) + 63) \div 64 = n + 1
  BY <1>1
<1>3. Net!TxLength(f) = 64 * (n + 1)
  BY <1>1, <1>2 DEF Net!TxLength, Net!Round64
<1> QED
  BY <1>1, <1>3 DEF f

(* In send_meta the register holds the message taken over last.            *)
LEMMA RegisterHolds ==
  ASSUME NEW sm, NEW ls, NEW sd, NEW ta, NEW t, NEW on, NEW k,
         NetOK("send_meta", sm, ls, sd, ta, t, on, k)
  PROVE  sm \in Metas
<1>1. PICK p \in Seq(Metas), T \in Nat, r \in Cells, w \in Cells, v \in Cells :
        NetAt(p, T, r, w, v, "send_meta", sm, ls, sd, ta, t, on, k)
  BY DEF NetOK
<1>2. Len(p) \in Nat /\ Len(p) > 0 /\ sm = p[Len(p)]
  BY <1>1 DEF NetAt
<1> QED
  BY <1>2

LEMMA NetInv ==
  ASSUME IInv, NetStep PROVE IInv'
<1> DEFINE b == Head(rpc_lshift)
           u == Net!AfterBeat(b)
           x == [beat |-> b, header |-> serout_meta.id]
           y == [beat |-> b, header |-> 0]
           n == [id |-> serout_meta.id, length |-> Net!TxLength(serout_meta.length)]
           on == granted \in Lanes
<1>0. TypeOK
  BY DEF IInv
<1>1. /\ rpc_lshift \in Seq(Beat) /\ state_aw \in AwStates
      /\ send_data_fifo \in Seq(SendBeat) /\ s_tx_meta \in Seq(Sends) /\ tx \in TxState
      /\ serout_meta.id \in Nat
  BY <1>0, NetValues
<1>2. UNCHANGED <<cmds, ser_vars, meta_out, data_out, granted, serout_meta>> /\ UNCHANGED tx
  BY DEF NetStep, Net!SendMeta, Net!SendData, eng_vars
<1>3. rpc_lshift # <<>>
  BY DEF NetStep, Net!SendMeta, Net!SendData
<1>4. b \in Beat /\ Tail(rpc_lshift) \in Seq(Beat)
  BY <1>1, <1>3, Pop
<1>5. /\ x \in SendBeat /\ y \in SendBeat
      /\ u \in AwStates /\ (b.last => u = "sIdle") /\ (~b.last => u = "send_data")
  BY <1>1, <1>4, BeatSent
<1>6. x.beat = b /\ x.header = serout_meta.id /\ y.beat = b /\ y.header = 0
  OBVIOUS
<1>7. PICK k \in Nat : Flow(k)
  BY DEF IInv
<1>8. CASE Net!SendMeta
  <2>1. /\ state_aw = "send_meta" /\ state_aw' = u
        /\ send_data_fifo' = Append(send_data_fifo, x) /\ s_tx_meta' = Append(s_tx_meta, n)
        /\ rpc_lshift' = Tail(rpc_lshift)
    BY <1>8 DEF Net!SendMeta
  <2>2. serout_meta \in Metas
    BY <1>7, <2>1, RegisterHolds DEF Flow, NetFlow
  <2>3. n \in Sends /\ n.id = serout_meta.id /\ n.length = 64 * Size(serout_meta, 1)
    BY <1>1, <2>2, TxLengthIs DEF Sends
  <2> HIDE DEF u, x, y, n, b, on
  <2>4. Append(send_data_fifo, x) \in Seq(SendBeat) /\ Append(s_tx_meta, n) \in Seq(Sends)
    BY <1>1, <1>5, <2>3
  <2>5. ASSUME NEW j \in Nat, NetOK("send_meta", serout_meta, rpc_lshift, send_data_fifo, s_tx_meta, tx, on, j)
        PROVE  NetOK(u, serout_meta, Tail(rpc_lshift), Append(send_data_fifo, x), Append(s_tx_meta, n),
                     tx, on, j)
    <3>1. x.beat = Head(rpc_lshift) /\ (x.beat.last => u = "sIdle") /\ (~x.beat.last => u = "send_data")
      BY <1>5, <1>6 DEF b
    <3> QED
      BY <1>1, <1>3, <1>5, <1>6, <2>3, <2>5, <3>1, NetSendsMeta
  <2>6. \A j \in Nat : NetFlow(j) =>
           NetOK(state_aw', serout_meta, rpc_lshift', send_data_fifo', s_tx_meta', tx', granted \in Lanes, j)
    BY <1>2, <2>1, <2>5 DEF NetFlow, on
  <2> QED
    BY <1>1, <1>2, <1>4, <1>5, <2>1, <2>4, <2>6, NetFrame
<1>9. CASE Net!SendData
  <2>1. /\ state_aw = "send_data" /\ state_aw' = u
        /\ send_data_fifo' = Append(send_data_fifo, y) /\ s_tx_meta' = s_tx_meta
        /\ rpc_lshift' = Tail(rpc_lshift)
    BY <1>9 DEF Net!SendData
  <2> HIDE DEF u, x, y, b, on
  <2>2. Append(send_data_fifo, y) \in Seq(SendBeat)
    BY <1>1, <1>5
  <2>3. ASSUME NEW j \in Nat, NetOK("send_data", serout_meta, rpc_lshift, send_data_fifo, s_tx_meta, tx, on, j)
        PROVE  NetOK(u, serout_meta, Tail(rpc_lshift), Append(send_data_fifo, y), s_tx_meta, tx, on, j)
    <3>1. y.beat = Head(rpc_lshift) /\ (y.beat.last => u = "sIdle") /\ (~y.beat.last => u = "send_data")
      BY <1>5, <1>6 DEF b
    <3> QED
      BY <1>1, <1>3, <1>5, <1>6, <2>3, <3>1, NetSendsData
  <2>4. \A j \in Nat : NetFlow(j) =>
           NetOK(state_aw', serout_meta, rpc_lshift', send_data_fifo', s_tx_meta', tx', granted \in Lanes, j)
    BY <1>2, <2>1, <2>3 DEF NetFlow, on
  <2> QED
    BY <1>1, <1>2, <1>4, <1>5, <2>1, <2>2, <2>4, NetFrame
<1> QED
  BY <1>8, <1>9 DEF NetStep

LEMMA TxStartInv ==
  ASSUME IInv, TxStart PROVE IInv'
<1> DEFINE y == [id |-> Head(s_tx_meta).id, left |-> Head(s_tx_meta).length]
           on == granted \in Lanes
<1>0. TypeOK
  BY DEF IInv
<1>1. /\ rpc_lshift \in Seq(Beat) /\ state_aw \in AwStates
      /\ send_data_fifo \in Seq(SendBeat) /\ s_tx_meta \in Seq(Sends) /\ tx \in TxState
  BY <1>0, NetValues
<1>2. /\ UNCHANGED <<cmds, ser_vars, meta_out, data_out, granted, serout_meta>>
      /\ UNCHANGED <<rpc_lshift, state_aw, send_data_fifo>>
      /\ tx.left = 0 /\ s_tx_meta # <<>> /\ tx' = y /\ s_tx_meta' = Tail(s_tx_meta)
  BY DEF TxStart
<1>3. Head(s_tx_meta) \in Sends /\ Tail(s_tx_meta) \in Seq(Sends)
  BY <1>1, <1>2, Pop
<1>4. y \in TxState /\ y.id = Head(s_tx_meta).id /\ y.left = Head(s_tx_meta).length
  BY <1>3 DEF Sends, TxState
<1> HIDE DEF y, on
<1>5. ASSUME NEW j \in Nat,
             NetOK(state_aw, serout_meta, rpc_lshift, send_data_fifo, s_tx_meta, tx, on, j)
      PROVE  NetOK(state_aw, serout_meta, rpc_lshift, send_data_fifo, Tail(s_tx_meta), y, on, j)
  BY <1>1, <1>2, <1>4, <1>5, EngineStarts
<1>6. \A j \in Nat : NetFlow(j) =>
        NetOK(state_aw', serout_meta, rpc_lshift', send_data_fifo', s_tx_meta', tx', granted \in Lanes, j)
  BY <1>2, <1>5 DEF NetFlow, on
<1> QED
  BY <1>1, <1>2, <1>3, <1>4, <1>6, NetFrame

LEMMA TxBeatInv ==
  ASSUME IInv, TxBeat PROVE IInv'
<1> DEFINE y == [tx EXCEPT !.left = tx.left - 64]
           on == granted \in Lanes
<1>0. TypeOK
  BY DEF IInv
<1>1. /\ rpc_lshift \in Seq(Beat) /\ state_aw \in AwStates
      /\ send_data_fifo \in Seq(SendBeat) /\ s_tx_meta \in Seq(Sends) /\ tx \in TxState
      /\ tx.id \in Nat /\ tx.left \in Nat
  BY <1>0, NetValues
<1>2. /\ UNCHANGED <<cmds, ser_vars, meta_out, data_out, granted, serout_meta>>
      /\ UNCHANGED <<rpc_lshift, state_aw, s_tx_meta>>
      /\ tx.left > 0 /\ send_data_fifo # <<>> /\ tx' = y /\ send_data_fifo' = Tail(send_data_fifo)
  BY DEF TxBeat
<1>3. Tail(send_data_fifo) \in Seq(SendBeat)
  BY <1>1, <1>2, Pop
<1>4. y.id = tx.id /\ y.left = tx.left - 64 /\ (tx.left - 64 \in Nat => y \in TxState)
  BY <1>1 DEF TxState
<1> HIDE DEF y, on
<1>5. ASSUME NEW j \in Nat,
             NetOK(state_aw, serout_meta, rpc_lshift, send_data_fifo, s_tx_meta, tx, on, j)
      PROVE  y.left \in Nat
             /\ NetOK(state_aw, serout_meta, rpc_lshift, Tail(send_data_fifo), s_tx_meta, y, on, j)
  BY <1>1, <1>2, <1>4, <1>5, EngineTakes
<1>6. \A j \in Nat : NetFlow(j) =>
        NetOK(state_aw', serout_meta, rpc_lshift', send_data_fifo', s_tx_meta', tx', granted \in Lanes, j)
  BY <1>2, <1>5 DEF NetFlow, on
<1>7. y \in TxState
  <2>1. PICK j \in Nat : Flow(j)
    BY DEF IInv
  <2>2. y.left \in Nat
    BY <1>5, <2>1 DEF Flow, NetFlow, on
  <2> QED
    BY <1>4, <2>2
<1> QED
  BY <1>1, <1>2, <1>3, <1>6, <1>7, NetFrame

-----------------------------------------------------------------------------
(* The steps of the arbiter.                                               *)

LEMMA PassMetaInv ==
  ASSUME IInv, NEW l \in Lanes, PassMeta(l) PROVE IInv'
<1> DEFINE m == Head(meta_out[l])
<1>0. TypeOK /\ Regs
  BY DEF IInv
<1>1. /\ rpc_lshift \in Seq(Beat) /\ send_data_fifo \in Seq(SendBeat) /\ s_tx_meta \in Seq(Sends)
      /\ tx \in TxState /\ meta_out[l] \in Seq(Metas) /\ data_out[l] \in Seq(Beat)
  BY <1>0, NetValues, LaneValues
<1>2. /\ granted = -1 /\ meta_out[l] # <<>> /\ granted' = l
      /\ meta_out' = [meta_out EXCEPT ![l] = Tail(meta_out[l])]
      /\ state_aw = "sIdle" /\ state_aw' = "send_meta" /\ serout_meta' = m
      /\ UNCHANGED <<cmds, meta_in, state, meta_reg, host_length, device_length, sent_k, data_out>>
      /\ UNCHANGED <<rpc_lshift, send_data_fifo, s_tx_meta, tx>>
  BY DEF PassMeta, Net!TakeMeta, ser_vars, eng_vars
<1>3. m \in Metas /\ Tail(meta_out[l]) \in Seq(Metas)
  BY <1>1, <1>2, Pop
<1> HIDE DEF m
<1>4. granted \notin Lanes
  BY <1>2, LanesFacts
<1>5. "send_meta" \in AwStates /\ m \in Sends
  BY <1>3 DEF AwStates, Metas, Sends
<1>6. TypeOK'
  BY <1>0, <1>2, <1>3, <1>5 DEF TypeOK
<1>7. Regs'
  BY <1>0, <1>2 DEF Regs
<1>8. PICK k \in Nat : Flow(k)
  BY DEF IInv
<1>9. NetFlow(1)'
  <2>1. (granted \in Lanes) = FALSE /\ (granted' \in Lanes) = TRUE
    BY <1>2, <1>4
  <2>2. NetOK("sIdle", serout_meta, rpc_lshift, send_data_fifo, s_tx_meta, tx, FALSE, k)
    BY <1>2, <1>8, <2>1 DEF Flow, NetFlow
  <2>3. NetOK("send_meta", m, rpc_lshift, send_data_fifo, s_tx_meta, tx, TRUE, 1)
    BY <1>1, <1>3, <2>2, NetTakes
  <2> QED
    BY <1>2, <2>1, <2>3 DEF NetFlow
<1>10. ASSUME NEW j \in Lanes PROVE LaneFlow(j, 1)'
  <2>1. (granted = j) = FALSE
    BY <1>4
  <2>2. LaneOK(state[j], meta_reg[j], device_length[j], sent_k[j], meta_out[j], data_out[j], FALSE, serout_meta, k)
    BY <1>8, <2>1 DEF Flow, LaneFlow
  <2>3. CASE j = l
    <3>1. meta_out'[l] = Tail(meta_out[l])
      BY <1>0, <1>2 DEF TypeOK
    <3>2. LaneOK(state[l], meta_reg[l], device_length[l], sent_k[l], Tail(meta_out[l]), data_out[l],
                 TRUE, m, 1)
      BY <1>1, <1>2, <2>2, <2>3, LanePassed DEF m
    <3>3. (granted' = l) = TRUE
      BY <1>2
    <3> QED
      BY <1>2, <2>3, <3>1, <3>2, <3>3 DEF LaneFlow
  <2>4. CASE j # l
    <3>1. meta_out'[j] = meta_out[j]
      BY <1>0, <1>2, <2>4 DEF TypeOK
    <3>2. LaneOK(state[j], meta_reg[j], device_length[j], sent_k[j], meta_out[j], data_out[j], FALSE, m, 1)
      BY <2>2, LaneOther
    <3>3. (granted' = j) = FALSE
      BY <1>2, <2>4
    <3> QED
      BY <1>2, <3>1, <3>2, <3>3 DEF LaneFlow
  <2> QED
    BY <2>3, <2>4
<1>11. Flow(1)'
  BY <1>9, <1>10 DEF Flow
<1> QED
  BY <1>6, <1>7, <1>11 DEF IInv

(* What comes out of LSHIFT.                                               *)
LEMMA Shifted ==
  ASSUME NEW b \in Beat
  PROVE  /\ [b EXCEPT !.last = FALSE] \in Beat /\ [b EXCEPT !.k = b.k + 1] \in Beat
         /\ [b EXCEPT !.last = FALSE].id = b.id /\ [b EXCEPT !.last = FALSE].k = b.k
         /\ ~[b EXCEPT !.last = FALSE].last
         /\ [b EXCEPT !.k = b.k + 1].id = b.id /\ [b EXCEPT !.k = b.k + 1].k = b.k + 1
         /\ [b EXCEPT !.k = b.k + 1].last = b.last
         /\ b.k \in Nat
<1>1. b.k \in Nat /\ b.k + 1 \in Nat
  BY DEF Beat
<1> QED
  BY <1>1 DEF Beat

LEMMA PassDataInv ==
  ASSUME IInv, PassData PROVE IInv'
<1> DEFINE g == granted
           b == Head(data_out[granted])
           c == [b EXCEPT !.last = FALSE]
           e == [b EXCEPT !.k = b.k + 1]
<1>0. TypeOK /\ Regs
  BY DEF IInv
<1>1. /\ g \in Lanes /\ data_out[g] # <<>> /\ rpc_lshift = <<>>
      /\ rpc_lshift' = IF b.last THEN <<c, e>> ELSE <<b>>
      /\ data_out' = [data_out EXCEPT ![g] = Tail(data_out[g])]
      /\ granted' = IF b.last THEN -1 ELSE g
      /\ UNCHANGED <<cmds, meta_in, state, meta_reg, host_length, device_length, sent_k, meta_out>>
      /\ UNCHANGED <<state_aw, serout_meta, send_data_fifo, s_tx_meta, tx>>
  BY DEF PassData, Net!Shift, ser_vars, eng_vars
<1>2. meta_out[g] \in Seq(Metas) /\ data_out[g] \in Seq(Beat)
  BY <1>0, <1>1, LaneValues
<1>3. b \in Beat /\ Tail(data_out[g]) \in Seq(Beat)
  BY <1>1, <1>2, Pop
<1>4. /\ c \in Beat /\ c.id = b.id /\ c.k = b.k /\ ~c.last
      /\ e \in Beat /\ e.id = b.id /\ e.k = b.k + 1 /\ e.last = b.last /\ b.k \in Nat
  BY <1>3, Shifted
<1>5. PICK k \in Nat : Flow(k)
  BY DEF IInv
<1>6. LaneOK(state[g], meta_reg[g], device_length[g], sent_k[g], meta_out[g], data_out[g],
             TRUE, serout_meta, k)
  <2>1. (granted = g) = TRUE
    OBVIOUS
  <2> QED
    BY <1>1, <1>5, <2>1 DEF Flow, LaneFlow
<1>7. NetOK(state_aw, serout_meta, <<>>, send_data_fifo, s_tx_meta, tx, TRUE, k)
  <2>1. (granted \in Lanes) = TRUE
    BY <1>1
  <2> QED
    BY <1>1, <1>5, <2>1 DEF Flow, NetFlow
<1>8. /\ b.id = serout_meta.id /\ b.k = k /\ k \in 1..Size(serout_meta, 0) /\ serout_meta \in Metas
      /\ b.last <=> k = Size(serout_meta, 0)
      /\ b.last => LaneOK(state[g], meta_reg[g], device_length[g], sent_k[g], meta_out[g],
                          Tail(data_out[g]), FALSE, serout_meta, k)
      /\ ~b.last => LaneOK(state[g], meta_reg[g], device_length[g], sent_k[g], meta_out[g],
                           Tail(data_out[g]), TRUE, serout_meta, k + 1)
  <2> DEFINE st == state[g]
             mr == meta_reg[g]
             dl == device_length[g]
             sk == sent_k[g]
             mo == meta_out[g]
             do == data_out[g]
             cur == serout_meta
  <2>1. mo \in Seq(Metas) /\ do \in Seq(Beat) /\ do # <<>> /\ b = Head(do)
    BY <1>1, <1>2
  <2>2. LaneOK(st, mr, dl, sk, mo, do, TRUE, cur, k)
    BY <1>6
  <2> HIDE DEF st, mr, dl, sk, mo, do, cur, b
  <2>3. Taken(Head(do), st, mr, dl, sk, mo, do, cur, k)
    BY <2>1, <2>2, LaneTaken
  <2>4. Taken(b, st, mr, dl, sk, mo, do, cur, k)
    BY <2>1, <2>3
  <2> QED
    BY <2>4 DEF Taken, st, mr, dl, sk, mo, do, cur
<1> HIDE DEF b, c, e
<1>9. rpc_lshift' \in Seq(Beat) /\ granted' \in Lanes \cup {-1}
  BY <1>1, <1>3, <1>4
<1>10. TypeOK'
  BY <1>0, <1>1, <1>3, <1>9 DEF TypeOK
<1>11. Regs'
  BY <1>0, <1>1 DEF Regs
<1>12. data_out'[g] = Tail(data_out[g]) /\ \A j \in Lanes : j # g => data_out'[j] = data_out[j]
  BY <1>0, <1>1 DEF TypeOK
<1>13. ASSUME NEW j \in Lanes, j # g, NEW i \in Nat
       PROVE  LaneOK(state[j], meta_reg[j], device_length[j], sent_k[j], meta_out[j], data_out[j],
                     FALSE, serout_meta, i)
  <2>1. (granted = j) = FALSE
    BY <1>13
  <2>2. LaneOK(state[j], meta_reg[j], device_length[j], sent_k[j], meta_out[j], data_out[j],
               FALSE, serout_meta, k)
    BY <1>5, <2>1 DEF Flow, LaneFlow
  <2> QED
    BY <2>2, LaneOther
<1>14. CASE b.last
  <2>1. granted' = -1 /\ rpc_lshift' = <<c, e>>
    BY <1>1, <1>14
  <2>2. (granted' \in Lanes) = FALSE /\ \A j \in Lanes : (granted' = j) = FALSE
    BY <2>1, LanesFacts
  <2>3. NetOK(state_aw, serout_meta, <<c, e>>, send_data_fifo, s_tx_meta, tx, FALSE, k)
    <3>1. /\ serout_meta \in Metas /\ k = Size(serout_meta, 0)
          /\ c.id = serout_meta.id /\ c.k = k /\ ~c.last
          /\ e.id = serout_meta.id /\ e.k = k + 1 /\ e.last
      BY <1>4, <1>8, <1>14
    <3> QED
      BY <1>4, <1>7, <3>1, NetShiftsLast
  <2>4. NetFlow(k)'
    BY <1>1, <2>1, <2>2, <2>3 DEF NetFlow
  <2>5. ASSUME NEW j \in Lanes PROVE LaneFlow(j, k)'
    <3>1. CASE j = g
      BY <1>1, <1>8, <1>12, <1>14, <2>2, <3>1 DEF LaneFlow
    <3>2. CASE j # g
      BY <1>1, <1>12, <1>13, <2>2, <3>2 DEF LaneFlow
    <3> QED
      BY <3>1, <3>2
  <2> QED
    BY <1>10, <1>11, <2>4, <2>5 DEF IInv, Flow
<1>15. CASE ~b.last
  <2>1. granted' = g /\ rpc_lshift' = <<b>>
    BY <1>1, <1>15
  <2>2. (granted' \in Lanes) = TRUE /\ (granted' = g) = TRUE
        /\ \A j \in Lanes : j # g => (granted' = j) = FALSE
    BY <1>1, <2>1
  <2>3. NetOK(state_aw, serout_meta, <<b>>, send_data_fifo, s_tx_meta, tx, TRUE, k + 1)
    <3>1. k # Size(serout_meta, 0) /\ ~b.last
      BY <1>8, <1>15
    <3>2. b.id = serout_meta.id /\ b.k = k /\ k \in 1..Size(serout_meta, 0) /\ serout_meta \in Metas
      BY <1>8
    <3> QED
      BY <1>3, <1>7, <3>1, <3>2, NetShifts
  <2>4. NetFlow(k + 1)'
    BY <1>1, <2>1, <2>2, <2>3 DEF NetFlow
  <2>5. k + 1 \in Nat
    OBVIOUS
  <2>6. ASSUME NEW j \in Lanes PROVE LaneFlow(j, k + 1)'
    <3>1. CASE j = g
      BY <1>1, <1>8, <1>12, <1>15, <2>2, <3>1 DEF LaneFlow
    <3>2. CASE j # g
      BY <1>1, <1>12, <1>13, <2>2, <2>5, <3>2 DEF LaneFlow
    <3> QED
      BY <3>1, <3>2
  <2>7. Flow(k + 1)'
    BY <2>4, <2>6 DEF Flow
  <2> QED
    BY <1>10, <1>11, <2>5, <2>7 DEF IInv
<1> QED
  BY <1>14, <1>15

-----------------------------------------------------------------------------
LEMMA StutterInv ==
  ASSUME IInv, UNCHANGED vars PROVE IInv'
<1>1. PICK k \in Nat : Flow(k)
  BY DEF IInv
<1>2. UNCHANGED <<cmds, meta_in, state, meta_reg, host_length, device_length, sent_k, meta_out, data_out,
                  granted, rpc_lshift, state_aw, serout_meta, send_data_fifo, s_tx_meta, tx>>
  BY DEF vars, ser_vars, net_vars, eng_vars
<1>3. Flow(k)'
  BY <1>1, <1>2 DEF Flow, NetFlow, LaneFlow
<1>4. TypeOK' /\ Regs'
  BY <1>2 DEF IInv, TypeOK, Regs
<1> QED
  BY <1>3, <1>4 DEF IInv

LEMMA StepInv == IInv /\ [Next]_vars => IInv'
<1> SUFFICES ASSUME IInv, [Next]_vars PROVE IInv'
  OBVIOUS
<1>1. ASSUME NEW l \in Lanes, NEW h \in HostLens, NEW d \in DeviceLens, Command(l, h, d) PROVE IInv'
  BY <1>1, CommandInv
<1>2. ASSUME NEW l \in Lanes, SerStep(l) PROVE IInv'
  BY <1>2, SerInv
<1>3. ASSUME NEW l \in Lanes, PassMeta(l) PROVE IInv'
  BY <1>3, PassMetaInv
<1>4. CASE PassData
  BY <1>4, PassDataInv
<1>5. CASE NetStep
  BY <1>5, NetInv
<1>6. CASE TxStart
  BY <1>6, TxStartInv
<1>7. CASE TxBeat
  BY <1>7, TxBeatInv
<1>8. CASE UNCHANGED vars
  BY <1>8, StutterInv
<1> QED
  BY <1>1, <1>2, <1>3, <1>4, <1>5, <1>6, <1>7, <1>8 DEF Next

LEMMA InvFramed == IInv => TxFramed
<1> SUFFICES ASSUME IInv, tx.left > 0, send_data_fifo # <<>>
             PROVE  LET b == Head(send_data_fifo).beat IN
                      /\ b.id = tx.id
                      /\ Head(send_data_fifo).header = IF b.k = 1 THEN tx.id ELSE 0
                      /\ b.last <=> tx.left = 64
  BY DEF TxFramed
<1> DEFINE b == Head(send_data_fifo).beat
<1>1. send_data_fifo \in Seq(SendBeat)
  BY DEF IInv, TypeOK
<1>2. PICK k \in Nat : NetFlow(k)
  BY DEF IInv, Flow
<1>3. /\ b.id = tx.id
      /\ b.k = 1 => Head(send_data_fifo).header = b.id
      /\ b.k # 1 => Head(send_data_fifo).header = 0
      /\ b.last <=> tx.left = 64
  BY <1>1, <1>2, EngineFramed DEF NetFlow
<1> HIDE DEF b
<1>4. Head(send_data_fifo).header = IF b.k = 1 THEN tx.id ELSE 0
  BY <1>3
<1> QED
  BY <1>3, <1>4 DEF b

(* What the RoCE engine is given is framed: while lanes, arbiter and       *)
(* MemToNet interleave in any way, the beats of a send belong to the       *)
(* object it announces, the first carries the header with its name, and    *)
(* the length runs out exactly at the beat marked last.                    *)
THEOREM SendsFramed == Spec => []TxFramed
  BY InitInv, StepInv, InvFramed, PTL DEF Spec

-----------------------------------------------------------------------------
(* What a serializer has yet to read.  s are the ids of the objects still  *)
(* to come and b the beats of their parts; o is the object in work, of     *)
(* whose part the beats j to n are still to be read.                       *)

Awaited(x, s, b, o, j, n) ==
  \/ x[1] = o /\ x[2] \in j..n
  \/ \E i \in 1..Len(s) : x[1] = s[i] /\ x[2] \in 1..b[i]

Stock(q, s, b, o, j, n) ==
  /\ InOrder(q)
  /\ \A i \in 1..Len(q) : Awaited(q[i], s, b, o, j, n)
  /\ \A x \in Cells : Awaited(x, s, b, o, j, n) => \E i \in 1..Len(q) : q[i] = x

(* The object in work comes before the others, and they are in order.      *)
Sorted(s, o) ==
  /\ \A i \in 1..Len(s) : o < s[i]
  /\ \A i, j \in 1..Len(s) : i < j => s[i] < s[j]

Precedes(x, y) == x[1] < y[1] \/ (x[1] = y[1] /\ x[2] < y[2])

(* With nothing left the object in work does not matter.                   *)
LEMMA StockDone ==
  ASSUME NEW q, NEW s, NEW b, NEW o, NEW j \in Int, NEW n \in Int, Stock(q, s, b, o, j, n), j > n,
         NEW p, NEW i \in Int, NEW m \in Int, i > m
  PROVE  Stock(q, s, b, p, i, m)
<1>1. j..n = {} /\ i..m = {}
  OBVIOUS
<1>2. \A x : Awaited(x, s, b, o, j, n) <=> Awaited(x, s, b, p, i, m)
  BY <1>1 DEF Awaited
<1> QED
  BY <1>2 DEF Stock

(* The first object to come becomes the object in work.                    *)
LEMMA StockNext ==
  ASSUME NEW q, NEW s \in Seq(Nat), s # <<>>, NEW b \in Seq(Nat), Len(b) = Len(s), NEW o,
         Stock(q, s, b, o, 1, 0)
  PROVE  Stock(q, Tail(s), Tail(b), Head(s), 1, Head(b))
<1> DEFINE t == Tail(s)
           c == Tail(b)
<1>1. /\ Len(s) \in Nat /\ Len(s) > 0 /\ Len(t) = Len(s) - 1 /\ Head(s) = s[1]
      /\ \A i \in 1..Len(t) : t[i] = s[i + 1]
  BY Pop
<1>2. b # <<>>
  BY <1>1
<1>3. /\ Len(c) = Len(b) - 1 /\ Head(b) = b[1]
      /\ \A i \in 1..Len(c) : c[i] = b[i + 1]
  BY <1>2, Pop
<1> HIDE DEF t, c
<1>4. ASSUME NEW x PROVE Awaited(x, s, b, o, 1, 0) <=> Awaited(x, t, c, Head(s), 1, Head(b))
  <2>1. ASSUME Awaited(x, s, b, o, 1, 0) PROVE Awaited(x, t, c, Head(s), 1, Head(b))
    <3>1. PICK i \in 1..Len(s) : x[1] = s[i] /\ x[2] \in 1..b[i]
      BY <2>1 DEF Awaited
    <3>2. CASE i = 1
      BY <1>1, <1>3, <3>1, <3>2 DEF Awaited
    <3>3. CASE i # 1
      <4>1. i - 1 \in 1..Len(t) /\ i - 1 \in 1..Len(c) /\ (i - 1) + 1 = i
        BY <1>1, <1>3, <3>1, <3>3
      <4>2. t[i - 1] = s[i] /\ c[i - 1] = b[i]
        BY <1>1, <1>3, <4>1
      <4> QED
        BY <3>1, <4>1, <4>2 DEF Awaited
    <3> QED
      BY <3>2, <3>3
  <2>2. ASSUME Awaited(x, t, c, Head(s), 1, Head(b)) PROVE Awaited(x, s, b, o, 1, 0)
    <3>1. CASE x[1] = Head(s) /\ x[2] \in 1..Head(b)
      BY <1>1, <1>3, <3>1 DEF Awaited
    <3>2. CASE \E i \in 1..Len(t) : x[1] = t[i] /\ x[2] \in 1..c[i]
      <4>1. PICK i \in 1..Len(t) : x[1] = t[i] /\ x[2] \in 1..c[i]
        BY <3>2
      <4>2. i + 1 \in 1..Len(s) /\ t[i] = s[i + 1] /\ c[i] = b[i + 1]
        BY <1>1, <1>3
      <4> QED
        BY <4>1, <4>2 DEF Awaited
    <3> QED
      BY <2>2, <3>1, <3>2 DEF Awaited
  <2> QED
    BY <2>1, <2>2
<1>5. Stock(q, t, c, Head(s), 1, Head(b))
  BY <1>4 DEF Stock
<1> QED
  BY <1>5 DEF t, c

(* A beat read is the next one of the object in work.                      *)
LEMMA StockPop ==
  ASSUME NEW q \in Seq(Cells), q # <<>>, NEW s \in Seq(Nat), NEW b \in Seq(Nat), Len(b) = Len(s),
         NEW o \in Nat, NEW j \in Nat, NEW n \in Nat, j <= n, Sorted(s, o), Stock(q, s, b, o, j, n)
  PROVE  Stock(Tail(q), s, b, o, j + 1, n)
<1> DEFINE r == Tail(q)
           y == <<o, j>>
<1>1. /\ Len(q) \in Nat /\ Len(q) > 0 /\ Len(r) = Len(q) - 1 /\ Head(q) = q[1]
      /\ \A i \in 1..Len(r) : r[i] = q[i + 1]
  BY Pop
<1>2. \A i \in 1..Len(q) : q[i] \in Cells
  BY EmptyQueue
<1>3. \A x \in Cells : x[1] \in Nat /\ x[2] \in Nat /\ x = <<x[1], x[2]>>
  BY DEF Cells
<1>4. \A i, k \in 1..Len(q) : i < k => Precedes(q[i], q[k])
  BY DEF Stock, InOrder, Precedes
<1>5. y \in Cells /\ y[1] = o /\ y[2] = j
  BY DEF Cells
<1> HIDE DEF r, y
<1>6. Awaited(y, s, b, o, j, n)
  BY <1>5 DEF Awaited
<1>7. ASSUME NEW x \in Cells, Awaited(x, s, b, o, j, n), x # y PROVE Precedes(y, x) /\ ~Precedes(x, y)
  <2>1. CASE x[1] = o /\ x[2] \in j..n
    <3>1. x[2] # j
      BY <1>3, <1>5, <1>7, <2>1 DEF y
    <3> QED
      BY <1>3, <1>5, <2>1, <3>1 DEF Precedes
  <2>2. CASE \E i \in 1..Len(s) : x[1] = s[i] /\ x[2] \in 1..b[i]
    <3>1. PICK i \in 1..Len(s) : x[1] = s[i]
      BY <2>2
    <3>2. s[i] \in Nat /\ o < s[i]
      BY DEF Sorted
    <3>3. y[1] < x[1] /\ ~(x[1] < y[1]) /\ x[1] # y[1]
      BY <1>5, <3>1, <3>2
    <3> QED
      BY <3>3 DEF Precedes
  <2> QED
    BY <1>7, <2>1, <2>2 DEF Awaited
<1>8. q[1] = y
  <2>1. PICK i \in 1..Len(q) : q[i] = y
    BY <1>5, <1>6 DEF Stock
  <2>2. i = 1
    <3> SUFFICES ASSUME i # 1 PROVE FALSE
      OBVIOUS
    <3>1. 1 \in 1..Len(q) /\ 1 < i
      BY <1>1
    <3>2. Precedes(q[1], y) /\ q[1] \in Cells /\ Awaited(q[1], s, b, o, j, n)
      BY <1>2, <1>4, <2>1, <3>1 DEF Stock
    <3>3. q[1] # y
      BY <1>5, <3>2 DEF Precedes
    <3> QED
      BY <1>7, <3>2, <3>3
  <2> QED
    BY <2>1, <2>2
<1>9. ASSUME NEW x \in Cells
      PROVE  Awaited(x, s, b, o, j + 1, n) <=> Awaited(x, s, b, o, j, n) /\ x # y
  <2>1. ASSUME x[1] = o PROVE ~\E i \in 1..Len(s) : x[1] = s[i] /\ x[2] \in 1..b[i]
    <3>1. \A i \in 1..Len(s) : s[i] \in Nat /\ o < s[i]
      BY DEF Sorted
    <3> QED
      BY <2>1, <3>1
  <2>2. x[2] \in (j + 1)..n <=> x[2] \in j..n /\ x[2] # j
    BY <1>3
  <2>3. x = y <=> x[1] = o /\ x[2] = j
    BY <1>3, <1>5 DEF y
  <2> QED
    BY <2>1, <2>2, <2>3 DEF Awaited
<1>10. InOrder(r)
  <2> SUFFICES ASSUME NEW i \in 1..Len(r), NEW k \in 1..Len(r), i < k PROVE Precedes(r[i], r[k])
    BY DEF InOrder, Precedes
  <2>1. i + 1 \in 1..Len(q) /\ k + 1 \in 1..Len(q) /\ i + 1 < k + 1
    BY <1>1
  <2> QED
    BY <1>1, <1>4, <2>1
<1>11. ASSUME NEW i \in 1..Len(r) PROVE Awaited(r[i], s, b, o, j + 1, n)
  <2>1. i + 1 \in 1..Len(q) /\ r[i] = q[i + 1] /\ 1 \in 1..Len(q) /\ 1 < i + 1
    BY <1>1
  <2>2. Precedes(y, r[i]) /\ r[i] \in Cells /\ Awaited(r[i], s, b, o, j, n)
    BY <1>2, <1>4, <1>8, <2>1 DEF Stock
  <2>3. r[i] # y
    BY <1>5, <2>2 DEF Precedes
  <2> QED
    BY <1>9, <2>2, <2>3
<1>12. ASSUME NEW x \in Cells, Awaited(x, s, b, o, j + 1, n) PROVE \E i \in 1..Len(r) : r[i] = x
  <2>1. Awaited(x, s, b, o, j, n) /\ x # y
    BY <1>9, <1>12
  <2>2. PICK i \in 1..Len(q) : q[i] = x
    BY <2>1 DEF Stock
  <2>3. i # 1
    BY <1>8, <2>1, <2>2
  <2>4. i - 1 \in 1..Len(r) /\ r[i - 1] = q[i]
    BY <1>1, <2>3
  <2> QED
    BY <2>2, <2>4
<1>13. Stock(r, s, b, o, j + 1, n)
  BY <1>10, <1>11, <1>12 DEF Stock
<1> QED
  BY <1>13 DEF r

(* One queue behind another.                                               *)
LEMMA Concat ==
  ASSUME NEW q \in Seq(Cells), NEW r \in Seq(Cells)
  PROVE  /\ q \o r \in Seq(Cells) /\ Len(q \o r) = Len(q) + Len(r)
         /\ \A i \in 1..Len(q) : (q \o r)[i] = q[i]
         /\ \A i \in 1..Len(r) : (q \o r)[Len(q) + i] = r[i]
  OBVIOUS

(* The part of a new object arrives.                                       *)
LEMMA StockPush ==
  ASSUME NEW q \in Seq(Cells), NEW s \in Seq(Nat), NEW b \in Seq(Nat), Len(b) = Len(s),
         NEW o \in Nat, NEW j \in Nat, NEW n \in Nat, Stock(q, s, b, o, j, n),
         NEW c \in Nat, NEW m \in Nat, o < c, \A i \in 1..Len(s) : s[i] < c
  PROVE  /\ q \o [k \in 1..m |-> <<c, k>>] \in Seq(Cells)
         /\ Stock(q \o [k \in 1..m |-> <<c, k>>], Append(s, c), Append(b, m), o, j, n)
<1> DEFINE r == [k \in 1..m |-> <<c, k>>]
           p == q \o r
           t == Append(s, c)
           d == Append(b, m)
<1>1. r \in Seq(Cells) /\ Len(r) = m /\ \A k \in 1..m : r[k] = <<c, k>> /\ r[k][1] = c /\ r[k][2] = k
  <2>1. \A k \in 1..m : <<c, k>> \in Cells
    BY DEF Cells
  <2> QED
    BY <2>1
<1> HIDE DEF r
<1>2. /\ p \in Seq(Cells) /\ Len(p) = Len(q) + m /\ Len(q) \in Nat
      /\ \A i \in 1..Len(q) : p[i] = q[i]
      /\ \A i \in 1..m : p[Len(q) + i] = r[i]
  <2>1. /\ p \in Seq(Cells) /\ Len(p) = Len(q) + Len(r)
        /\ \A i \in 1..Len(q) : p[i] = q[i]
        /\ \A i \in 1..Len(r) : p[Len(q) + i] = r[i]
    BY <1>1, Concat, Zenon
  <2>2. Len(q) \in Nat
    OBVIOUS
  <2> HIDE DEF p
  <2> QED
    BY <1>1, <2>1, <2>2
<1>3. /\ Len(t) = Len(s) + 1 /\ Len(s) \in Nat
      /\ \A i \in 1..Len(s) : t[i] = s[i]
      /\ t[Len(s) + 1] = c
  BY Push, EmptyQueue
<1>4. /\ Len(d) = Len(s) + 1
      /\ \A i \in 1..Len(s) : d[i] = b[i]
      /\ d[Len(s) + 1] = m
  <2>1. /\ Len(d) = Len(b) + 1
        /\ \A i \in 1..Len(b) : d[i] = b[i]
        /\ d[Len(b) + 1] = m
    BY Push
  <2> HIDE DEF d
  <2> QED
    BY <2>1
<1> HIDE DEF p, t, d
<1>5. \A i \in 1..Len(q) : q[i] \in Cells /\ q[i][1] \in Nat /\ q[i][2] \in Nat
  <2>1. \A i \in 1..Len(q) : q[i] \in Cells
    BY EmptyQueue
  <2> QED
    BY <2>1 DEF Cells
<1>6. \A i \in 1..Len(q) : q[i][1] < c
  <2> SUFFICES ASSUME NEW i \in 1..Len(q) PROVE q[i][1] < c
    OBVIOUS
  <2>1. Awaited(q[i], s, b, o, j, n)
    BY DEF Stock
  <2> QED
    BY <2>1 DEF Awaited
<1>7. ASSUME NEW i \in 1..Len(p), ~(i \in 1..Len(q))
      PROVE  i - Len(q) \in 1..m /\ p[i] = <<c, i - Len(q)>> /\ p[i][1] = c /\ p[i][2] = i - Len(q)
  <2>1. i - Len(q) \in 1..m /\ Len(q) + (i - Len(q)) = i
    BY <1>2, <1>7
  <2>2. p[i] = r[i - Len(q)]
    BY <1>2, <2>1
  <2> QED
    BY <1>1, <2>1, <2>2
<1>8. ASSUME NEW i \in 1..Len(p), NEW k \in 1..Len(p), i < k PROVE Precedes(p[i], p[k])
  <2>1. CASE k \in 1..Len(q)
    <3>1. i \in 1..Len(q)
      BY <1>2, <1>8, <2>1
    <3>2. Precedes(q[i], q[k])
      BY <1>8, <2>1, <3>1 DEF Stock, InOrder, Precedes
    <3> QED
      BY <1>2, <2>1, <3>1, <3>2
  <2>2. CASE i \in 1..Len(q) /\ ~(k \in 1..Len(q))
    BY <1>2, <1>6, <1>7, <2>2 DEF Precedes
  <2>3. CASE ~(i \in 1..Len(q)) /\ ~(k \in 1..Len(q))
    <3>1. p[i][1] = c /\ p[k][1] = c /\ p[i][2] = i - Len(q) /\ p[k][2] = k - Len(q)
      BY <1>7, <2>3
    <3>2. i - Len(q) < k - Len(q)
      BY <1>2, <1>8
    <3> QED
      BY <3>1, <3>2 DEF Precedes
  <2>4. i \in 1..Len(q) \/ ~(i \in 1..Len(q))
    OBVIOUS
  <2> QED
    BY <2>1, <2>2, <2>3, <2>4
<1>9. ASSUME NEW x PROVE Awaited(x, t, d, o, j, n) <=> Awaited(x, s, b, o, j, n) \/ (x[1] = c /\ x[2] \in 1..m)
  <2>1. ASSUME NEW i \in 1..Len(t), x[1] = t[i], x[2] \in 1..d[i]
        PROVE  Awaited(x, s, b, o, j, n) \/ (x[1] = c /\ x[2] \in 1..m)
    <3>1. CASE i \in 1..Len(s)
      BY <1>3, <1>4, <2>1, <3>1 DEF Awaited
    <3>2. CASE i = Len(s) + 1
      BY <1>3, <1>4, <2>1, <3>2
    <3>3. i \in 1..Len(s) \/ i = Len(s) + 1
      BY <1>3
    <3> QED
      BY <3>1, <3>2, <3>3
  <2>2. ASSUME NEW i \in 1..Len(s), x[1] = s[i], x[2] \in 1..b[i] PROVE Awaited(x, t, d, o, j, n)
    <3>1. i \in 1..Len(t) /\ t[i] = s[i] /\ d[i] = b[i]
      BY <1>3, <1>4
    <3> QED
      BY <2>2, <3>1 DEF Awaited
  <2>3. ASSUME x[1] = c, x[2] \in 1..m PROVE Awaited(x, t, d, o, j, n)
    <3>1. Len(s) + 1 \in 1..Len(t)
      BY <1>3
    <3> QED
      BY <1>3, <1>4, <2>3, <3>1 DEF Awaited
  <2> QED
    BY <2>1, <2>2, <2>3 DEF Awaited
<1>10. ASSUME NEW i \in 1..Len(p) PROVE Awaited(p[i], t, d, o, j, n)
  <2>1. CASE i \in 1..Len(q)
    BY <1>2, <1>9, <2>1 DEF Stock
  <2>2. CASE ~(i \in 1..Len(q))
    BY <1>7, <1>9, <2>2
  <2> QED
    BY <2>1, <2>2
<1>11. ASSUME NEW x \in Cells, Awaited(x, t, d, o, j, n) PROVE \E i \in 1..Len(p) : p[i] = x
  <2>1. CASE Awaited(x, s, b, o, j, n)
    <3>1. PICK i \in 1..Len(q) : q[i] = x
      BY <2>1 DEF Stock
    <3>2. i \in 1..Len(p)
      BY <1>2
    <3> QED
      BY <1>2, <3>1, <3>2
  <2>2. CASE x[1] = c /\ x[2] \in 1..m
    <3>1. x = <<c, x[2]>>
      BY <2>2 DEF Cells
    <3>2. Len(q) + x[2] \in 1..Len(p)
      BY <1>2, <2>2
    <3>3. p[Len(q) + x[2]] = <<c, x[2]>>
      BY <1>1, <1>2, <2>2
    <3> QED
      BY <3>1, <3>2, <3>3
  <2> QED
    BY <1>9, <1>11, <2>1, <2>2
<1>12. InOrder(p)
  BY <1>8 DEF InOrder, Precedes
<1>13. Stock(p, t, d, o, j, n)
  BY <1>10, <1>11, <1>12 DEF Stock
<1> QED
  BY <1>2, <1>13 DEF p, t, d, r

(* s and b list the ids of the objects cs and the beats of their parts.    *)
Lists(cs, lens, s, b) ==
  Len(s) = Len(cs) /\ \A i \in 1..Len(cs) : s[i] = cs[i].id /\ b[i] = Beats(lens[i])

(* With no object in work the stock is the parts of the objects to come.   *)
LEMMA StockParts ==
  ASSUME NEW q \in Seq(Cells), NEW cs \in Seq(Cmds), NEW lens, NEW s, NEW b, NEW o,
         Lists(cs, lens, s, b), Stock(q, s, b, o, 1, 0)
  PROVE  ToSet(q) = PartBeats(cs, lens) /\ InOrder(q)
<1>0. Len(s) = Len(cs) /\ \A i \in 1..Len(cs) : s[i] = cs[i].id /\ b[i] = Beats(lens[i])
  BY DEF Lists
<1>1. \A i \in 1..Len(q) : q[i] \in Cells /\ q[i] = <<q[i][1], q[i][2]>>
  <2>1. \A i \in 1..Len(q) : q[i] \in Cells
    BY EmptyQueue
  <2> QED
    BY <2>1 DEF Cells
<1>2. \A i \in 1..Len(cs) : cs[i].id \in Nat
  <2>1. \A i \in 1..Len(cs) : cs[i] \in Cmds
    BY EmptyQueue
  <2> QED
    BY <2>1 DEF Cmds
<1>3. ASSUME NEW x \in ToSet(q) PROVE x \in PartBeats(cs, lens)
  <2>1. PICK i \in 1..Len(q) : x = q[i]
    BY DEF ToSet
  <2>2. Awaited(x, s, b, o, 1, 0)
    BY <2>1 DEF Stock
  <2>3. PICK k \in 1..Len(cs) : x[1] = cs[k].id /\ x[2] \in 1..Beats(lens[k])
    BY <1>0, <2>2 DEF Awaited
  <2>4. x = <<cs[k].id, x[2]>>
    BY <1>1, <2>1, <2>3
  <2>5. x \in {<<cs[k].id, m>> : m \in 1..Beats(lens[k])}
    BY <2>3, <2>4
  <2> QED
    BY <2>5 DEF PartBeats
<1>4. ASSUME NEW x \in PartBeats(cs, lens) PROVE x \in ToSet(q)
  <2>0. PICK i \in 1..Len(cs) : x \in {<<cs[i].id, k>> : k \in 1..Beats(lens[i])}
    BY DEF PartBeats
  <2>1. PICK k \in 1..Beats(lens[i]) : x = <<cs[i].id, k>>
    BY <2>0
  <2>2. x \in Cells /\ x[1] = cs[i].id /\ x[2] = k
    BY <1>2, <2>1 DEF Cells
  <2>3. Awaited(x, s, b, o, 1, 0)
    BY <1>0, <2>1, <2>2 DEF Awaited
  <2>4. PICK e \in 1..Len(q) : q[e] = x
    BY <2>2, <2>3 DEF Stock
  <2> QED
    BY <2>4 DEF ToSet
<1>5. ToSet(q) = PartBeats(cs, lens)
  BY <1>3, <1>4
<1> QED
  BY <1>5 DEF Stock

-----------------------------------------------------------------------------
(* A lane with the objects cs still to come, the beats hq and dq that wait *)
(* in its two streams, state st and command register mr; count commands    *)
(* have been given.                                                        *)

Ids(cs)         == [i \in 1..Len(cs) |-> cs[i].id]
HostBeats(cs)   == [i \in 1..Len(cs) |-> Beats(cs[i].host)]
DeviceBeats(cs) == [i \in 1..Len(cs) |-> Beats(cs[i].device)]

Resting == {"sIdle", "sDelay", "sSendMeta", "sSendData"}

OrderOK(cs, id, count) ==
  /\ Sorted(Ids(cs), id)
  /\ id <= count /\ \A i \in 1..Len(cs) : Ids(cs)[i] <= count

(* As much of the part is left as the register says.                       *)
PartLeft(q, s, b, id, len) ==
  \E j, n \in Nat : (n - j) + 1 = Beats(len) /\ Stock(q, s, b, id, j, n)

ReadOK(cs, hq, dq, st, mr, count) ==
  /\ OrderOK(cs, mr.id, count)
  /\ st = "sHost" => mr.host > 0 /\ PartLeft(hq, Ids(cs), HostBeats(cs), mr.id, mr.host)
  /\ st # "sHost" => Stock(hq, Ids(cs), HostBeats(cs), mr.id, 1, 0)
  /\ st = "sDevice" => mr.device > 0
  /\ st \in {"sHost", "sDevice"} => PartLeft(dq, Ids(cs), DeviceBeats(cs), mr.id, mr.device)
  /\ st \in Resting => Stock(dq, Ids(cs), DeviceBeats(cs), mr.id, 1, 0)

LEMMA BeatsIs ==
  /\ \A n \in Nat : Beats(n) \in Nat /\ (n > 0 => Beats(n) > 0)
  /\ \A n \in Nat : n > 64 => Beats(n) = Beats(n - 64) + 1
  /\ \A n \in Nat : n > 0 /\ ~(n > 64) => Beats(n) = 1
  /\ Beats(0) = 0
  BY DEF Beats

LEMMA CmdTypes ==
  ASSUME NEW c \in Cmds
  PROVE  /\ c.id \in Nat /\ c.host \in Nat /\ c.host > 0 /\ c.device \in Nat
         /\ Beats(c.host) \in Nat /\ Beats(c.device) \in Nat
<1>1. c.id \in Nat /\ c.host \in HostLens /\ c.device \in DeviceLens
  BY DEF Cmds
<1>2. c.host \in Nat /\ c.host > 0 /\ c.device \in Nat
  BY <1>1, LensFacts
<1> QED
  BY <1>1, <1>2, BeatsIs

LEMMA ListTypes ==
  ASSUME NEW cs \in Seq(Cmds)
  PROVE  /\ Ids(cs) \in Seq(Nat) /\ HostBeats(cs) \in Seq(Nat) /\ DeviceBeats(cs) \in Seq(Nat)
         /\ Len(Ids(cs)) = Len(cs) /\ Len(HostBeats(cs)) = Len(cs) /\ Len(DeviceBeats(cs)) = Len(cs)
         /\ \A i \in 1..Len(cs) : /\ Ids(cs)[i] = cs[i].id /\ HostBeats(cs)[i] = Beats(cs[i].host)
                                  /\ DeviceBeats(cs)[i] = Beats(cs[i].device)
<1>1. \A i \in 1..Len(cs) : cs[i] \in Cmds
  BY EmptyQueue
<1>2. \A i \in 1..Len(cs) : cs[i].id \in Nat /\ Beats(cs[i].host) \in Nat /\ Beats(cs[i].device) \in Nat
  BY <1>1, CmdTypes
<1>3. Len(cs) \in Nat
  OBVIOUS
<1> QED
  BY <1>2, <1>3 DEF Ids, HostBeats, DeviceBeats

(* Sequences with the same elements are the same.                          *)
LEMMA SameList ==
  ASSUME NEW f \in Seq(Nat), NEW g \in Seq(Nat), Len(f) = Len(g), \A i \in 1..Len(f) : f[i] = g[i]
  PROVE  f = g
<1>1. f = [i \in 1..Len(f) |-> f[i]] /\ g = [i \in 1..Len(f) |-> g[i]]
  OBVIOUS
<1> QED
  BY <1>1

LEMMA IsAppend ==
  ASSUME NEW f \in Seq(Nat), NEW g \in Seq(Nat), NEW x \in Nat, Len(g) = Len(f) + 1,
         \A i \in 1..Len(f) : g[i] = f[i], g[Len(f) + 1] = x
  PROVE  g = Append(f, x)
<1> DEFINE h == Append(f, x)
<1>1. /\ h \in Seq(Nat) /\ Len(h) = Len(f) + 1 /\ Len(f) \in Nat
      /\ \A i \in 1..Len(f) : h[i] = f[i]
      /\ h[Len(f) + 1] = x
  BY Push, EmptyQueue
<1> HIDE DEF h
<1>2. ASSUME NEW i \in 1..Len(g) PROVE g[i] = h[i]
  <2>1. i \in 1..Len(f) \/ i = Len(f) + 1
    BY <1>1
  <2>2. CASE i \in 1..Len(f)
    BY <1>1, <2>2
  <2>3. CASE i = Len(f) + 1
    BY <1>1, <2>3
  <2> QED
    BY <2>1, <2>2, <2>3
<1>3. Len(g) = Len(h)
  BY <1>1
<1>4. g = h
  BY <1>1, <1>2, <1>3, SameList
<1> QED
  BY <1>4 DEF h

LEMMA ListPush ==
  ASSUME NEW cs \in Seq(Cmds), NEW c \in Cmds
  PROVE  /\ Ids(Append(cs, c)) = Append(Ids(cs), c.id)
         /\ HostBeats(Append(cs, c)) = Append(HostBeats(cs), Beats(c.host))
         /\ DeviceBeats(Append(cs, c)) = Append(DeviceBeats(cs), Beats(c.device))
<1> DEFINE ds == Append(cs, c)
<1>1. /\ ds \in Seq(Cmds) /\ Len(ds) = Len(cs) + 1 /\ Len(cs) \in Nat
      /\ \A i \in 1..Len(cs) : ds[i] = cs[i]
      /\ ds[Len(cs) + 1] = c
  BY Push, EmptyQueue
<1> HIDE DEF ds
<1>2. c.id \in Nat /\ Beats(c.host) \in Nat /\ Beats(c.device) \in Nat
  BY CmdTypes
<1>3. /\ Ids(ds) \in Seq(Nat) /\ HostBeats(ds) \in Seq(Nat) /\ DeviceBeats(ds) \in Seq(Nat)
      /\ Len(Ids(ds)) = Len(ds) /\ Len(HostBeats(ds)) = Len(ds) /\ Len(DeviceBeats(ds)) = Len(ds)
      /\ \A i \in 1..Len(ds) : /\ Ids(ds)[i] = ds[i].id /\ HostBeats(ds)[i] = Beats(ds[i].host)
                               /\ DeviceBeats(ds)[i] = Beats(ds[i].device)
  BY <1>1, ListTypes
<1>4. /\ Ids(cs) \in Seq(Nat) /\ HostBeats(cs) \in Seq(Nat) /\ DeviceBeats(cs) \in Seq(Nat)
      /\ Len(Ids(cs)) = Len(cs) /\ Len(HostBeats(cs)) = Len(cs) /\ Len(DeviceBeats(cs)) = Len(cs)
      /\ \A i \in 1..Len(cs) : /\ Ids(cs)[i] = cs[i].id /\ HostBeats(cs)[i] = Beats(cs[i].host)
                               /\ DeviceBeats(cs)[i] = Beats(cs[i].device)
  BY ListTypes
<1>5. Len(ds) = Len(cs) + 1
  BY <1>1
<1>6. ASSUME NEW i \in 1..Len(cs)
      PROVE  /\ Ids(ds)[i] = Ids(cs)[i] /\ HostBeats(ds)[i] = HostBeats(cs)[i]
             /\ DeviceBeats(ds)[i] = DeviceBeats(cs)[i]
  <2>1. i \in 1..Len(ds) /\ ds[i] = cs[i]
    BY <1>1
  <2> QED
    BY <1>3, <1>4, <2>1
<1>7. /\ Ids(ds)[Len(cs) + 1] = c.id /\ HostBeats(ds)[Len(cs) + 1] = Beats(c.host)
      /\ DeviceBeats(ds)[Len(cs) + 1] = Beats(c.device)
  <2>1. Len(cs) + 1 \in 1..Len(ds)
    BY <1>1
  <2> QED
    BY <1>1, <1>3, <2>1
<1>8. Ids(ds) = Append(Ids(cs), c.id)
  <2> DEFINE f == Ids(cs)
             g == Ids(ds)
             x == c.id
  <2>1. f \in Seq(Nat) /\ g \in Seq(Nat) /\ x \in Nat /\ Len(f) = Len(cs)
    BY <1>2, <1>3, <1>4
  <2>2. Len(g) = Len(f) + 1 /\ \A i \in 1..Len(cs) : g[i] = f[i]
    BY <1>3, <1>4, <1>5, <1>6
  <2>3. g[Len(cs) + 1] = x
    BY <1>7
  <2> HIDE DEF f, g, x
  <2>4. g = Append(f, x)
    BY <2>1, <2>2, <2>3, IsAppend
  <2> QED
    BY <2>4 DEF f, g, x
<1>9. HostBeats(ds) = Append(HostBeats(cs), Beats(c.host))
  <2> DEFINE f == HostBeats(cs)
             g == HostBeats(ds)
             x == Beats(c.host)
  <2>1. f \in Seq(Nat) /\ g \in Seq(Nat) /\ x \in Nat /\ Len(f) = Len(cs)
    BY <1>2, <1>3, <1>4
  <2>2. Len(g) = Len(f) + 1 /\ \A i \in 1..Len(cs) : g[i] = f[i]
    BY <1>3, <1>4, <1>5, <1>6
  <2>3. g[Len(cs) + 1] = x
    BY <1>7
  <2> HIDE DEF f, g, x
  <2>4. g = Append(f, x)
    BY <2>1, <2>2, <2>3, IsAppend
  <2> QED
    BY <2>4 DEF f, g, x
<1>10. DeviceBeats(ds) = Append(DeviceBeats(cs), Beats(c.device))
  <2> DEFINE f == DeviceBeats(cs)
             g == DeviceBeats(ds)
             x == Beats(c.device)
  <2>1. f \in Seq(Nat) /\ g \in Seq(Nat) /\ x \in Nat /\ Len(f) = Len(cs)
    BY <1>2, <1>3, <1>4
  <2>2. Len(g) = Len(f) + 1 /\ \A i \in 1..Len(cs) : g[i] = f[i]
    BY <1>3, <1>4, <1>5, <1>6
  <2>3. g[Len(cs) + 1] = x
    BY <1>7
  <2> HIDE DEF f, g, x
  <2>4. g = Append(f, x)
    BY <2>1, <2>2, <2>3, IsAppend
  <2> QED
    BY <2>4 DEF f, g, x
<1> QED
  BY <1>8, <1>9, <1>10 DEF ds

LEMMA ListPop ==
  ASSUME NEW cs \in Seq(Cmds), cs # <<>>
  PROVE  /\ Ids(Tail(cs)) = Tail(Ids(cs)) /\ Head(Ids(cs)) = Head(cs).id
         /\ HostBeats(Tail(cs)) = Tail(HostBeats(cs)) /\ Head(HostBeats(cs)) = Beats(Head(cs).host)
         /\ DeviceBeats(Tail(cs)) = Tail(DeviceBeats(cs))
         /\ Head(DeviceBeats(cs)) = Beats(Head(cs).device)
         /\ Ids(cs) # <<>>
<1> DEFINE ds == Tail(cs)
<1>1. /\ ds \in Seq(Cmds) /\ Len(cs) \in Nat /\ Len(cs) > 0 /\ Len(ds) = Len(cs) - 1 /\ Head(cs) = cs[1]
      /\ \A i \in 1..Len(ds) : ds[i] = cs[i + 1]
  BY Pop
<1> HIDE DEF ds
<1>2. /\ Ids(ds) \in Seq(Nat) /\ HostBeats(ds) \in Seq(Nat) /\ DeviceBeats(ds) \in Seq(Nat)
      /\ Len(Ids(ds)) = Len(ds) /\ Len(HostBeats(ds)) = Len(ds) /\ Len(DeviceBeats(ds)) = Len(ds)
      /\ \A i \in 1..Len(ds) : /\ Ids(ds)[i] = ds[i].id /\ HostBeats(ds)[i] = Beats(ds[i].host)
                               /\ DeviceBeats(ds)[i] = Beats(ds[i].device)
  BY <1>1, ListTypes
<1>3. /\ Ids(cs) \in Seq(Nat) /\ HostBeats(cs) \in Seq(Nat) /\ DeviceBeats(cs) \in Seq(Nat)
      /\ Len(Ids(cs)) = Len(cs) /\ Len(HostBeats(cs)) = Len(cs) /\ Len(DeviceBeats(cs)) = Len(cs)
      /\ \A i \in 1..Len(cs) : /\ Ids(cs)[i] = cs[i].id /\ HostBeats(cs)[i] = Beats(cs[i].host)
                               /\ DeviceBeats(cs)[i] = Beats(cs[i].device)
  BY ListTypes
<1>4. ASSUME NEW f \in Seq(Nat), NEW g \in Seq(Nat), Len(f) = Len(cs), Len(g) = Len(ds),
             \A i \in 1..Len(ds) : g[i] = f[i + 1]
      PROVE  g = Tail(f) /\ Head(f) = f[1] /\ f # <<>>
  <2> DEFINE h == Tail(f)
  <2>1. f # <<>>
    BY <1>1, <1>4
  <2>2. /\ h \in Seq(Nat) /\ Len(h) = Len(f) - 1 /\ Head(f) = f[1]
        /\ \A i \in 1..Len(h) : h[i] = f[i + 1]
    BY <2>1, Pop
  <2> HIDE DEF h
  <2>3. \A i \in 1..Len(g) : g[i] = h[i]
    BY <1>1, <1>4, <2>2
  <2>4. Len(g) = Len(h)
    BY <1>1, <1>4, <2>2
  <2>5. g = h
    BY <2>2, <2>3, <2>4, SameList
  <2> QED
    BY <2>1, <2>2, <2>5 DEF h
<1>5. 1 \in 1..Len(cs) /\ \A i \in 1..Len(ds) : i + 1 \in 1..Len(cs)
  BY <1>1
<1>6. ASSUME NEW i \in 1..Len(ds)
      PROVE  /\ Ids(ds)[i] = Ids(cs)[i + 1] /\ HostBeats(ds)[i] = HostBeats(cs)[i + 1]
             /\ DeviceBeats(ds)[i] = DeviceBeats(cs)[i + 1]
  <2>1. i + 1 \in 1..Len(cs) /\ ds[i] = cs[i + 1]
    BY <1>1, <1>5
  <2> QED
    BY <1>2, <1>3, <2>1
<1>7. Ids(ds) = Tail(Ids(cs)) /\ Head(Ids(cs)) = Ids(cs)[1] /\ Ids(cs) # <<>>
  BY <1>2, <1>3, <1>4, <1>6
<1>8. HostBeats(ds) = Tail(HostBeats(cs)) /\ Head(HostBeats(cs)) = HostBeats(cs)[1]
  BY <1>2, <1>3, <1>4, <1>6
<1>9. DeviceBeats(ds) = Tail(DeviceBeats(cs)) /\ Head(DeviceBeats(cs)) = DeviceBeats(cs)[1]
  BY <1>2, <1>3, <1>4, <1>6
<1> QED
  BY <1>1, <1>3, <1>5, <1>7, <1>8, <1>9 DEF ds

-----------------------------------------------------------------------------
(* How the steps of a lane change what it has yet to read.                 *)

LEMMA PartStart ==
  ASSUME NEW q, NEW s, NEW b, NEW o, NEW len \in Nat, Stock(q, s, b, o, 1, Beats(len))
  PROVE  PartLeft(q, s, b, o, len)
<1>1. Beats(len) \in Nat
  BY BeatsIs
<1>2. (Beats(len) - 1) + 1 = Beats(len)
  BY <1>1
<1> QED
  BY <1>1, <1>2 DEF PartLeft

LEMMA PartDone ==
  ASSUME NEW q, NEW s, NEW b, NEW o, PartLeft(q, s, b, o, 0)
  PROVE  Stock(q, s, b, o, 1, 0)
<1>1. PICK j, n \in Nat : (n - j) + 1 = Beats(0) /\ Stock(q, s, b, o, j, n)
  BY DEF PartLeft
<1>2. j > n /\ j \in Int /\ n \in Int
  BY <1>1, BeatsIs
<1> QED
  BY <1>1, <1>2, StockDone

LEMMA PartPop ==
  ASSUME NEW q \in Seq(Cells), q # <<>>, NEW s \in Seq(Nat), NEW b \in Seq(Nat), Len(b) = Len(s),
         NEW o \in Nat, NEW len \in Nat, len > 0, Sorted(s, o), PartLeft(q, s, b, o, len)
  PROVE  /\ len > 64 => PartLeft(Tail(q), s, b, o, len - 64)
         /\ ~(len > 64) => Stock(Tail(q), s, b, o, 1, 0)
<1>1. PICK j, n \in Nat : (n - j) + 1 = Beats(len) /\ Stock(q, s, b, o, j, n)
  BY DEF PartLeft
<1>2. Beats(len) \in Nat /\ Beats(len) > 0
  BY BeatsIs
<1>3. j <= n
  BY <1>1, <1>2
<1>4. Stock(Tail(q), s, b, o, j + 1, n)
  BY <1>1, <1>3, StockPop
<1>5. ASSUME len > 64 PROVE PartLeft(Tail(q), s, b, o, len - 64)
  <2>1. len - 64 \in Nat /\ Beats(len) = Beats(len - 64) + 1
    BY <1>5, BeatsIs
  <2>2. Beats(len - 64) \in Nat
    BY <2>1, BeatsIs
  <2>3. (n - (j + 1)) + 1 = Beats(len - 64) /\ j + 1 \in Nat
    BY <1>1, <2>1, <2>2
  <2> QED
    BY <1>4, <2>3 DEF PartLeft
<1>6. ASSUME ~(len > 64) PROVE Stock(Tail(q), s, b, o, 1, 0)
  <2>1. Beats(len) = 1
    BY <1>6, BeatsIs
  <2>2. j + 1 > n /\ j + 1 \in Int /\ n \in Int
    BY <1>1, <2>1
  <2> QED
    BY <1>4, <2>2, StockDone
<1> QED
  BY <1>5, <1>6

LEMMA PartPush ==
  ASSUME NEW q \in Seq(Cells), NEW s \in Seq(Nat), NEW b \in Seq(Nat), Len(b) = Len(s),
         NEW o \in Nat, NEW len, PartLeft(q, s, b, o, len),
         NEW c \in Nat, NEW m \in Nat, o < c, \A i \in 1..Len(s) : s[i] < c
  PROVE  PartLeft(q \o [k \in 1..m |-> <<c, k>>], Append(s, c), Append(b, m), o, len)
<1>1. PICK j, n \in Nat : (n - j) + 1 = Beats(len) /\ Stock(q, s, b, o, j, n)
  BY DEF PartLeft
<1>2. Stock(q \o [k \in 1..m |-> <<c, k>>], Append(s, c), Append(b, m), o, j, n)
  BY <1>1, StockPush
<1> QED
  BY <1>1, <1>2 DEF PartLeft

(* The order of the objects.                                               *)
LEMMA OrderPush ==
  ASSUME NEW cs \in Seq(Cmds), NEW id \in Nat, NEW count \in Nat, OrderOK(cs, id, count),
         NEW c \in Cmds, c.id = count + 1
  PROVE  /\ OrderOK(Append(cs, c), id, count + 1)
         /\ id < c.id /\ \A i \in 1..Len(Ids(cs)) : Ids(cs)[i] < c.id
<1> DEFINE s == Ids(cs)
           t == Ids(Append(cs, c))
<1>1. s \in Seq(Nat) /\ Len(s) = Len(cs)
  BY ListTypes
<1>2. t = Append(s, c.id) /\ c.id \in Nat
  BY ListPush, CmdTypes
<1>3. Sorted(s, id) /\ id <= count /\ \A i \in 1..Len(cs) : s[i] <= count
  BY DEF OrderOK
<1>4. Len(Append(cs, c)) = Len(cs) + 1
  BY Push
<1> HIDE DEF s, t
<1>5. /\ Len(t) = Len(s) + 1 /\ Len(s) \in Nat
      /\ \A i \in 1..Len(s) : t[i] = s[i]
      /\ t[Len(s) + 1] = c.id
  BY <1>1, <1>2, Push, EmptyQueue
<1>6. \A i \in 1..Len(s) : s[i] \in Nat /\ s[i] < c.id /\ id < s[i]
  BY <1>1, <1>3 DEF Sorted
<1>7. \A i \in 1..Len(t) : i \in 1..Len(s) \/ i = Len(s) + 1
  BY <1>5
<1>8. \A i \in 1..Len(t) : id < t[i] /\ t[i] <= count + 1
  BY <1>3, <1>5, <1>6, <1>7
<1>9. ASSUME NEW i \in 1..Len(t), NEW j \in 1..Len(t), i < j PROVE t[i] < t[j]
  <2>1. CASE j \in 1..Len(s)
    <3>1. i \in 1..Len(s)
      BY <1>5, <1>9, <2>1
    <3> QED
      BY <1>3, <1>5, <1>9, <2>1, <3>1 DEF Sorted
  <2>2. CASE j = Len(s) + 1
    <3>1. i \in 1..Len(s)
      BY <1>5, <1>9, <2>2
    <3> QED
      BY <1>5, <1>6, <2>2, <3>1
  <2> QED
    BY <1>7, <2>1, <2>2
<1>10. Sorted(t, id)
  BY <1>8, <1>9 DEF Sorted
<1>11. id <= count + 1 /\ Len(Append(cs, c)) = Len(t)
  BY <1>1, <1>3, <1>4, <1>5
<1>12. OrderOK(Append(cs, c), id, count + 1)
  BY <1>8, <1>10, <1>11 DEF OrderOK, t
<1> QED
  BY <1>3, <1>6, <1>12 DEF s

LEMMA OrderMore ==
  ASSUME NEW cs \in Seq(Cmds), NEW id \in Nat, NEW count \in Nat, OrderOK(cs, id, count)
  PROVE  OrderOK(cs, id, count + 1)
<1>1. \A i \in 1..Len(cs) : Ids(cs)[i] \in Nat
  BY ListTypes
<1> QED
  BY <1>1 DEF OrderOK

LEMMA OrderPop ==
  ASSUME NEW cs \in Seq(Cmds), cs # <<>>, NEW id, NEW count \in Nat, OrderOK(cs, id, count)
  PROVE  OrderOK(Tail(cs), Head(cs).id, count)
<1> DEFINE s == Ids(cs)
           t == Ids(Tail(cs))
<1>1. s \in Seq(Nat) /\ Len(s) = Len(cs)
  BY ListTypes
<1>2. t = Tail(s) /\ Head(s) = Head(cs).id /\ s # <<>>
  BY ListPop
<1>3. Sorted(s, id) /\ \A i \in 1..Len(cs) : s[i] <= count
  BY DEF OrderOK
<1>4. Len(Tail(cs)) = Len(cs) - 1
  BY Pop
<1> HIDE DEF s, t
<1>5. /\ Len(s) \in Nat /\ Len(s) > 0 /\ Len(t) = Len(s) - 1 /\ Head(s) = s[1]
      /\ \A i \in 1..Len(t) : t[i] = s[i + 1]
  BY <1>1, <1>2, Pop
<1>6. 1 \in 1..Len(s) /\ \A i \in 1..Len(t) : i + 1 \in 1..Len(s) /\ 1 < i + 1
  BY <1>5
<1>7. s[1] <= count /\ \A i \in 1..Len(t) : s[1] < t[i] /\ t[i] <= count
  BY <1>1, <1>3, <1>5, <1>6 DEF Sorted
<1>8. ASSUME NEW i \in 1..Len(t), NEW j \in 1..Len(t), i < j PROVE t[i] < t[j]
  <2>1. i + 1 < j + 1
    BY <1>8
  <2> QED
    BY <1>3, <1>5, <1>6, <2>1 DEF Sorted
<1>9. Sorted(t, Head(cs).id)
  BY <1>2, <1>5, <1>7, <1>8 DEF Sorted
<1>10. Head(cs).id = s[1] /\ Len(Tail(cs)) = Len(t)
  BY <1>1, <1>2, <1>4, <1>5
<1> QED
  BY <1>7, <1>9, <1>10 DEF OrderOK, t

-----------------------------------------------------------------------------
ReadTyped(cs, hq, dq, st, mr, count) ==
  /\ cs \in Seq(Cmds) /\ hq \in Seq(Cells) /\ dq \in Seq(Cells)
  /\ st \in States /\ mr \in Reg /\ count \in Nat

LEMMA ReadTypes ==
  ASSUME NEW cs, NEW hq, NEW dq, NEW st, NEW mr, NEW count, ReadTyped(cs, hq, dq, st, mr, count)
  PROVE  /\ cs \in Seq(Cmds) /\ hq \in Seq(Cells) /\ dq \in Seq(Cells) /\ st \in States
         /\ count \in Nat /\ mr.id \in Nat /\ mr.host \in Nat /\ mr.device \in Nat
         /\ Ids(cs) \in Seq(Nat) /\ HostBeats(cs) \in Seq(Nat) /\ DeviceBeats(cs) \in Seq(Nat)
         /\ Len(HostBeats(cs)) = Len(Ids(cs)) /\ Len(DeviceBeats(cs)) = Len(Ids(cs))
<1>1. cs \in Seq(Cmds) /\ hq \in Seq(Cells) /\ dq \in Seq(Cells) /\ st \in States /\ count \in Nat /\ mr \in Reg
  BY DEF ReadTyped
<1>2. mr.id \in Nat /\ mr.host \in Nat /\ mr.device \in Nat
  BY <1>1 DEF Reg
<1>3. /\ Ids(cs) \in Seq(Nat) /\ HostBeats(cs) \in Seq(Nat) /\ DeviceBeats(cs) \in Seq(Nat)
      /\ Len(Ids(cs)) = Len(cs) /\ Len(HostBeats(cs)) = Len(cs) /\ Len(DeviceBeats(cs)) = Len(cs)
  BY <1>1, ListTypes
<1> QED
  BY <1>1, <1>2, <1>3

(* A command for this lane, and one for another.                           *)
LEMMA ReadCommand ==
  ASSUME NEW cs, NEW hq, NEW dq, NEW st, NEW mr, NEW count, ReadTyped(cs, hq, dq, st, mr, count),
         ReadOK(cs, hq, dq, st, mr, count), NEW c \in Cmds, c.id = count + 1
  PROVE  ReadOK(Append(cs, c), hq \o [k \in 1..Beats(c.host) |-> <<c.id, k>>],
                dq \o [k \in 1..Beats(c.device) |-> <<c.id, k>>], st, mr, count + 1)
<1> DEFINE s == Ids(cs)
           hb == HostBeats(cs)
           db == DeviceBeats(cs)
           hn == Beats(c.host)
           dn == Beats(c.device)
           x == c.id
           hr == hq \o [k \in 1..hn |-> <<x, k>>]
           dr == dq \o [k \in 1..dn |-> <<x, k>>]
<1>1. /\ cs \in Seq(Cmds) /\ hq \in Seq(Cells) /\ dq \in Seq(Cells) /\ st \in States
      /\ count \in Nat /\ mr.id \in Nat
      /\ s \in Seq(Nat) /\ hb \in Seq(Nat) /\ db \in Seq(Nat)
      /\ Len(hb) = Len(s) /\ Len(db) = Len(s)
  BY ReadTypes
<1>2. x \in Nat /\ hn \in Nat /\ dn \in Nat
  BY CmdTypes
<1>3. OrderOK(cs, mr.id, count)
  BY DEF ReadOK
<1>4. OrderOK(Append(cs, c), mr.id, count + 1) /\ mr.id < x /\ \A i \in 1..Len(s) : s[i] < x
  BY <1>1, <1>3, OrderPush
<1>5. /\ Ids(Append(cs, c)) = Append(s, x)
      /\ HostBeats(Append(cs, c)) = Append(hb, hn)
      /\ DeviceBeats(Append(cs, c)) = Append(db, dn)
  BY <1>1, ListPush
<1>6. /\ st = "sHost" => mr.host > 0 /\ PartLeft(hq, s, hb, mr.id, mr.host)
      /\ st # "sHost" => Stock(hq, s, hb, mr.id, 1, 0)
      /\ st = "sDevice" => mr.device > 0
      /\ st \in {"sHost", "sDevice"} => PartLeft(dq, s, db, mr.id, mr.device)
      /\ st \in Resting => Stock(dq, s, db, mr.id, 1, 0)
  BY DEF ReadOK
<1> HIDE DEF s, hb, db, hn, dn, x
<1>7. PartLeft(hq, s, hb, mr.id, mr.host) => PartLeft(hr, Append(s, x), Append(hb, hn), mr.id, mr.host)
  BY <1>1, <1>2, <1>4, PartPush
<1>8. Stock(hq, s, hb, mr.id, 1, 0) => Stock(hr, Append(s, x), Append(hb, hn), mr.id, 1, 0)
  BY <1>1, <1>2, <1>4, StockPush
<1>9. PartLeft(dq, s, db, mr.id, mr.device) => PartLeft(dr, Append(s, x), Append(db, dn), mr.id, mr.device)
  BY <1>1, <1>2, <1>4, PartPush
<1>10. Stock(dq, s, db, mr.id, 1, 0) => Stock(dr, Append(s, x), Append(db, dn), mr.id, 1, 0)
  BY <1>1, <1>2, <1>4, StockPush
<1> HIDE DEF hr, dr
<1>11. ReadOK(Append(cs, c), hr, dr, st, mr, count + 1)
  BY <1>4, <1>5, <1>6, <1>7, <1>8, <1>9, <1>10 DEF ReadOK
<1> QED
  BY <1>11 DEF hr, dr, hn, dn, x

LEMMA ReadMore ==
  ASSUME NEW cs, NEW hq, NEW dq, NEW st, NEW mr, NEW count, ReadTyped(cs, hq, dq, st, mr, count),
         ReadOK(cs, hq, dq, st, mr, count)
  PROVE  ReadOK(cs, hq, dq, st, mr, count + 1)
<1>1. cs \in Seq(Cmds) /\ count \in Nat /\ mr.id \in Nat /\ OrderOK(cs, mr.id, count)
  BY ReadTypes DEF ReadOK
<1>2. OrderOK(cs, mr.id, count + 1)
  BY <1>1, OrderMore
<1> QED
  BY <1>2 DEF ReadOK

(* Idle: the next object becomes the object in work.                       *)
LEMMA ReadIdle ==
  ASSUME NEW cs, cs # <<>>, NEW hq, NEW dq, NEW mr, NEW count, ReadTyped(cs, hq, dq, "sIdle", mr, count),
         ReadOK(cs, hq, dq, "sIdle", mr, count)
  PROVE  ReadOK(Tail(cs), hq, dq, "sHost", Head(cs), count)
<1> DEFINE s == Ids(cs)
           hb == HostBeats(cs)
           db == DeviceBeats(cs)
           c == Head(cs)
<1>1. /\ cs \in Seq(Cmds) /\ count \in Nat /\ mr.id \in Nat
      /\ s \in Seq(Nat) /\ hb \in Seq(Nat) /\ db \in Seq(Nat)
      /\ Len(hb) = Len(s) /\ Len(db) = Len(s)
  BY ReadTypes
<1>2. c \in Cmds
  BY <1>1, Pop
<1>3. c.id \in Nat /\ c.host \in Nat /\ c.host > 0 /\ c.device \in Nat
  BY <1>2, CmdTypes
<1>4. /\ Ids(Tail(cs)) = Tail(s) /\ Head(s) = c.id
      /\ HostBeats(Tail(cs)) = Tail(hb) /\ Head(hb) = Beats(c.host)
      /\ DeviceBeats(Tail(cs)) = Tail(db)
      /\ Head(db) = Beats(c.device) /\ s # <<>>
  BY <1>1, ListPop
<1>5. OrderOK(cs, mr.id, count) /\ Stock(hq, s, hb, mr.id, 1, 0) /\ Stock(dq, s, db, mr.id, 1, 0)
  BY DEF ReadOK, Resting
<1>6. OrderOK(Tail(cs), c.id, count)
  BY <1>1, <1>5, OrderPop
<1> HIDE DEF s, hb, db
<1>7. Stock(hq, Tail(s), Tail(hb), c.id, 1, Beats(c.host))
  <2>1. Stock(hq, Tail(s), Tail(hb), Head(s), 1, Head(hb))
    BY <1>1, <1>4, <1>5, StockNext
  <2> QED
    BY <1>4, <2>1
<1>8. Stock(dq, Tail(s), Tail(db), c.id, 1, Beats(c.device))
  <2>1. Stock(dq, Tail(s), Tail(db), Head(s), 1, Head(db))
    BY <1>1, <1>4, <1>5, StockNext
  <2> QED
    BY <1>4, <2>1
<1> HIDE DEF c
<1>9. PartLeft(hq, Tail(s), Tail(hb), c.id, c.host)
  BY <1>3, <1>7, PartStart
<1>10. PartLeft(dq, Tail(s), Tail(db), c.id, c.device)
  BY <1>3, <1>8, PartStart
<1>11. ReadOK(Tail(cs), hq, dq, "sHost", c, count)
  BY <1>3, <1>4, <1>6, <1>9, <1>10 DEF ReadOK, Resting
<1> QED
  BY <1>11 DEF c

(* Host: a beat of the host part is read.                                  *)
LEMMA ReadsHost ==
  ASSUME NEW cs, NEW hq, NEW dq, NEW mr, NEW count, ReadTyped(cs, hq, dq, "sHost", mr, count),
         ReadOK(cs, hq, dq, "sHost", mr, count), hq # <<>>
  PROVE  /\ mr.host > 64 =>
              \A nr : nr.id = mr.id /\ nr.host = mr.host - 64 /\ nr.device = mr.device =>
                ReadOK(cs, Tail(hq), dq, "sHost", nr, count)
         /\ ~(mr.host > 64) /\ mr.device = 0 => ReadOK(cs, Tail(hq), dq, "sDelay", mr, count)
         /\ ~(mr.host > 64) /\ mr.device # 0 => ReadOK(cs, Tail(hq), dq, "sDevice", mr, count)
<1> DEFINE s == Ids(cs)
           hb == HostBeats(cs)
           db == DeviceBeats(cs)
<1>1. /\ hq \in Seq(Cells) /\ mr.id \in Nat /\ mr.host \in Nat /\ mr.device \in Nat
      /\ s \in Seq(Nat) /\ hb \in Seq(Nat) /\ db \in Seq(Nat)
      /\ Len(hb) = Len(s) /\ Len(db) = Len(s)
  BY ReadTypes
<1>2. /\ OrderOK(cs, mr.id, count) /\ mr.host > 0
      /\ PartLeft(hq, s, hb, mr.id, mr.host) /\ PartLeft(dq, s, db, mr.id, mr.device)
  BY DEF ReadOK
<1>3. Sorted(s, mr.id)
  BY <1>2 DEF OrderOK
<1> HIDE DEF s, hb, db
<1>4. /\ mr.host > 64 => PartLeft(Tail(hq), s, hb, mr.id, mr.host - 64)
      /\ ~(mr.host > 64) => Stock(Tail(hq), s, hb, mr.id, 1, 0)
  BY <1>1, <1>2, <1>3, PartPop
<1>5. ASSUME mr.host > 64, NEW nr, nr.id = mr.id, nr.host = mr.host - 64, nr.device = mr.device
      PROVE  ReadOK(cs, Tail(hq), dq, "sHost", nr, count)
  <2>1. nr.host > 0
    BY <1>1, <1>5
  <2> QED
    BY <1>2, <1>4, <1>5, <2>1 DEF ReadOK, Resting, s, hb, db
<1>6. ASSUME ~(mr.host > 64), mr.device = 0 PROVE ReadOK(cs, Tail(hq), dq, "sDelay", mr, count)
  <2>1. Stock(dq, s, db, mr.id, 1, 0)
    BY <1>2, <1>6, PartDone
  <2> QED
    BY <1>2, <1>4, <1>6, <2>1 DEF ReadOK, Resting, s, hb, db
<1>7. ASSUME ~(mr.host > 64), mr.device # 0 PROVE ReadOK(cs, Tail(hq), dq, "sDevice", mr, count)
  <2>1. mr.device > 0
    BY <1>1, <1>7
  <2> QED
    BY <1>2, <1>4, <1>7, <2>1 DEF ReadOK, Resting, s, hb, db
<1> QED
  BY <1>5, <1>6, <1>7

(* Device: a beat of the device part is read.                              *)
LEMMA ReadsDevice ==
  ASSUME NEW cs, NEW hq, NEW dq, NEW mr, NEW count, ReadTyped(cs, hq, dq, "sDevice", mr, count),
         ReadOK(cs, hq, dq, "sDevice", mr, count), dq # <<>>
  PROVE  /\ mr.device > 64 =>
              \A nr : nr.id = mr.id /\ nr.device = mr.device - 64 =>
                ReadOK(cs, hq, Tail(dq), "sDevice", nr, count)
         /\ ~(mr.device > 64) => ReadOK(cs, hq, Tail(dq), "sDelay", mr, count)
<1> DEFINE s == Ids(cs)
           hb == HostBeats(cs)
           db == DeviceBeats(cs)
<1>1. /\ dq \in Seq(Cells) /\ mr.id \in Nat /\ mr.device \in Nat
      /\ s \in Seq(Nat) /\ db \in Seq(Nat) /\ Len(db) = Len(s)
  BY ReadTypes
<1>2. /\ OrderOK(cs, mr.id, count) /\ mr.device > 0
      /\ Stock(hq, s, hb, mr.id, 1, 0) /\ PartLeft(dq, s, db, mr.id, mr.device)
  BY DEF ReadOK
<1>3. Sorted(s, mr.id)
  BY <1>2 DEF OrderOK
<1> HIDE DEF s, hb, db
<1>4. /\ mr.device > 64 => PartLeft(Tail(dq), s, db, mr.id, mr.device - 64)
      /\ ~(mr.device > 64) => Stock(Tail(dq), s, db, mr.id, 1, 0)
  BY <1>1, <1>2, <1>3, PartPop
<1>5. ASSUME mr.device > 64, NEW nr, nr.id = mr.id, nr.device = mr.device - 64
      PROVE  ReadOK(cs, hq, Tail(dq), "sDevice", nr, count)
  <2>1. nr.device > 0
    BY <1>1, <1>5
  <2> QED
    BY <1>2, <1>4, <1>5, <2>1 DEF ReadOK, Resting, s, hb, db
<1>6. ASSUME ~(mr.device > 64) PROVE ReadOK(cs, hq, Tail(dq), "sDelay", mr, count)
  BY <1>2, <1>4, <1>6 DEF ReadOK, Resting, s, hb, db
<1> QED
  BY <1>5, <1>6

(* A lane that is done reading stays so until it takes the next command.   *)
LEMMA ReadRest ==
  ASSUME NEW cs, NEW hq, NEW dq, NEW st \in Resting, NEW mr, NEW count, NEW u \in Resting,
         ReadOK(cs, hq, dq, st, mr, count)
  PROVE  ReadOK(cs, hq, dq, u, mr, count)
<1>1. /\ st \notin {"sHost", "sDevice"} /\ st # "sHost" /\ u \notin {"sHost", "sDevice"}
      /\ u # "sHost" /\ u # "sDevice"
  BY DEF Resting
<1> QED
  BY <1>1 DEF ReadOK

-----------------------------------------------------------------------------
(* The same for the states of the specification.                           *)

DataTypes == host_data_in \in [Lanes -> Seq(Cells)] /\ device_data_in \in [Lanes -> Seq(Cells)]

LaneRead(l) ==
  ReadOK(meta_in[l], host_data_in[l], device_data_in[l], state[l], meta_reg[l], Len(cmds))

ReadInv == DataTypes /\ \A l \in Lanes : LaneRead(l)

LEMMA InitRead == Init => ReadInv
<1> SUFFICES ASSUME Init PROVE ReadInv
  OBVIOUS
<1>1. <<>> \in Seq(Cells) /\ <<>> \in Seq(Cmds) /\ Len(<<>>) = 0 /\ 1..0 = {}
  OBVIOUS
<1>2. /\ host_data_in = [l \in Lanes |-> <<>>] /\ device_data_in = [l \in Lanes |-> <<>>]
      /\ meta_in = [l \in Lanes |-> <<>>] /\ state = [l \in Lanes |-> "sIdle"]
      /\ meta_reg = [l \in Lanes |-> [id |-> 0, host |-> 0, device |-> 0]] /\ cmds = <<>>
  BY DEF Init, Ser!Init, Lanes
<1>3. DataTypes
  BY <1>1, <1>2 DEF DataTypes
<1>4. ASSUME NEW l \in Lanes PROVE LaneRead(l)
  <2> DEFINE mr == [id |-> 0, host |-> 0, device |-> 0]
  <2>1. mr.id = 0
    OBVIOUS
  <2> HIDE DEF mr
  <2>2. Ids(<<>>) = <<>> /\ HostBeats(<<>>) = <<>> /\ DeviceBeats(<<>>) = <<>>
    BY <1>1 DEF Ids, HostBeats, DeviceBeats
  <2>3. OrderOK(<<>>, 0, 0)
    BY <1>1, <2>2 DEF OrderOK, Sorted
  <2>4. Stock(<<>>, <<>>, <<>>, 0, 1, 0)
    BY <1>1 DEF Stock, InOrder, Awaited
  <2>5. ReadOK(<<>>, <<>>, <<>>, "sIdle", mr, 0)
    BY <2>1, <2>2, <2>3, <2>4 DEF ReadOK, Resting
  <2> QED
    BY <1>1, <1>2, <2>5 DEF LaneRead, mr
<1> QED
  BY <1>3, <1>4 DEF ReadInv

LEMMA LaneReads ==
  ASSUME TypeOK, ReadInv, NEW l \in Lanes
  PROVE  /\ ReadTyped(meta_in[l], host_data_in[l], device_data_in[l], state[l], meta_reg[l], Len(cmds))
         /\ ReadOK(meta_in[l], host_data_in[l], device_data_in[l], state[l], meta_reg[l], Len(cmds))
<1>1. host_data_in[l] \in Seq(Cells) /\ device_data_in[l] \in Seq(Cells)
  BY DEF ReadInv, DataTypes
<1>2. meta_in[l] \in Seq(Cmds) /\ state[l] \in States /\ meta_reg[l] \in Reg
  BY LaneValues
<1>3. Len(cmds) \in Nat
  BY DEF TypeOK
<1> QED
  BY <1>1, <1>2, <1>3 DEF ReadTyped, ReadInv, LaneRead

OthersRead(l) ==
  \A j \in Lanes : j # l =>
    /\ meta_in'[j] = meta_in[j] /\ host_data_in'[j] = host_data_in[j]
    /\ device_data_in'[j] = device_data_in[j] /\ state'[j] = state[j] /\ meta_reg'[j] = meta_reg[j]

LEMMA ReadFrame ==
  ASSUME ReadInv, NEW l \in Lanes, cmds' = cmds, DataTypes', OthersRead(l), LaneRead(l)'
  PROVE  ReadInv'
<1>1. ASSUME NEW j \in Lanes PROVE LaneRead(j)'
  <2>1. CASE j = l
    BY <2>1
  <2>2. CASE j # l
    BY <2>2 DEF OthersRead, LaneRead, ReadInv
  <2> QED
    BY <2>1, <2>2
<1> QED
  BY <1>1 DEF ReadInv

LEMMA ReadStepIdle ==
  ASSUME TypeOK, ReadInv, NEW l \in Lanes, Ser!Idle(l), cmds' = cmds PROVE ReadInv'
<1>1. /\ state[l] = "sIdle" /\ meta_in[l] # <<>>
      /\ meta_reg' = [meta_reg EXCEPT ![l] = Head(meta_in[l])]
      /\ meta_in' = [meta_in EXCEPT ![l] = Tail(meta_in[l])]
      /\ state' = [state EXCEPT ![l] = "sHost"]
      /\ host_data_in' = host_data_in /\ device_data_in' = device_data_in
  BY DEF Ser!Idle, Ser!Goto
<1>2. meta_reg \in [Lanes -> Reg] /\ meta_in \in [Lanes -> Seq(Cmds)] /\ state \in [Lanes -> States]
  BY DEF TypeOK
<1>3. /\ meta_reg'[l] = Head(meta_in[l]) /\ meta_in'[l] = Tail(meta_in[l]) /\ state'[l] = "sHost"
      /\ OthersRead(l)
  BY <1>1, <1>2 DEF OthersRead
<1>4. ReadOK(Tail(meta_in[l]), host_data_in[l], device_data_in[l], "sHost", Head(meta_in[l]), Len(cmds))
  BY <1>1, LaneReads, ReadIdle
<1>5. LaneRead(l)'
  BY <1>1, <1>3, <1>4 DEF LaneRead
<1>6. DataTypes'
  BY <1>1 DEF ReadInv, DataTypes
<1> QED
  BY <1>3, <1>5, <1>6, ReadFrame

LEMMA ReadStepHost ==
  ASSUME TypeOK, ReadInv, NEW l \in Lanes, Ser!Host(l), cmds' = cmds PROVE ReadInv'
<1> DEFINE mr == meta_reg[l]
<1>1. /\ state[l] = "sHost" /\ host_data_in[l] # <<>>
      /\ host_data_in' = [host_data_in EXCEPT ![l] = Tail(host_data_in[l])]
      /\ meta_in' = meta_in /\ device_data_in' = device_data_in
  BY DEF Ser!Host
<1>2. /\ meta_reg \in [Lanes -> Reg] /\ state \in [Lanes -> States]
      /\ host_data_in \in [Lanes -> Seq(Cells)] /\ device_data_in \in [Lanes -> Seq(Cells)]
  BY DEF TypeOK, ReadInv, DataTypes
<1>3. Tail(host_data_in[l]) \in Seq(Cells)
  BY <1>1, <1>2, Pop
<1>4. DataTypes' /\ host_data_in'[l] = Tail(host_data_in[l])
      /\ \A j \in Lanes : j # l => host_data_in'[j] = host_data_in[j]
  BY <1>1, <1>2, <1>3 DEF DataTypes
<1>5. /\ ReadTyped(meta_in[l], host_data_in[l], device_data_in[l], "sHost", mr, Len(cmds))
      /\ ReadOK(meta_in[l], host_data_in[l], device_data_in[l], "sHost", mr, Len(cmds))
  BY <1>1, LaneReads
<1> DEFINE After64(st, nr) == ReadOK(meta_in[l], Tail(host_data_in[l]), device_data_in[l], st, nr, Len(cmds))
<1>6. /\ mr.host > 64 => \A nr : nr.id = mr.id /\ nr.host = mr.host - 64 /\ nr.device = mr.device =>
                           After64("sHost", nr)
      /\ ~(mr.host > 64) /\ mr.device = 0 => After64("sDelay", mr)
      /\ ~(mr.host > 64) /\ mr.device # 0 => After64("sDevice", mr)
  BY <1>1, <1>5, ReadsHost
<1>7. After64(state'[l], meta_reg'[l]) => LaneRead(l)'
  BY <1>1, <1>4 DEF LaneRead
<1> HIDE DEF After64
<1>8. CASE /\ mr.host > 64 /\ state' = state
           /\ meta_reg' = [meta_reg EXCEPT ![l].host = mr.host - 64]
  <2>1. mr \in Reg
    BY <1>2
  <2>2. meta_reg' = [meta_reg EXCEPT ![l] = [mr EXCEPT !.host = mr.host - 64]]
    BY <1>2, <1>8
  <2>3. /\ meta_reg'[l] = [mr EXCEPT !.host = mr.host - 64]
        /\ \A j \in Lanes : j # l => meta_reg'[j] = meta_reg[j]
    BY <1>2, <2>2
  <2>4. meta_reg'[l].id = mr.id /\ meta_reg'[l].host = mr.host - 64 /\ meta_reg'[l].device = mr.device
    BY <2>1, <2>3 DEF Reg
  <2>5. After64("sHost", meta_reg'[l])
    BY <1>6, <1>8, <2>4
  <2>6. LaneRead(l)'
    BY <1>1, <1>7, <1>8, <2>5
  <2>7. OthersRead(l)
    BY <1>1, <1>4, <1>8, <2>3 DEF OthersRead
  <2> QED
    BY <1>4, <2>6, <2>7, ReadFrame
<1>9. ASSUME NEW st \in States, After64(st, mr), state' = [state EXCEPT ![l] = st], meta_reg' = meta_reg
      PROVE  ReadInv'
  <2>1. state'[l] = st /\ \A j \in Lanes : j # l => state'[j] = state[j]
    BY <1>2, <1>9
  <2>2. LaneRead(l)'
    BY <1>7, <1>9, <2>1
  <2>3. OthersRead(l)
    BY <1>1, <1>4, <1>9, <2>1 DEF OthersRead
  <2> QED
    BY <1>4, <2>2, <2>3, ReadFrame
<1>10. CASE ~(mr.host > 64) /\ mr.device = 0 /\ state' = [state EXCEPT ![l] = "sDelay"] /\ meta_reg' = meta_reg
  BY <1>6, <1>9, <1>10 DEF States
<1>11. CASE ~(mr.host > 64) /\ mr.device # 0 /\ state' = [state EXCEPT ![l] = "sDevice"] /\ meta_reg' = meta_reg
  BY <1>6, <1>9, <1>11 DEF States
<1> QED
  BY <1>8, <1>10, <1>11 DEF Ser!Host, Ser!MoreBeats, Ser!Goto

LEMMA ReadStepDevice ==
  ASSUME TypeOK, ReadInv, NEW l \in Lanes, Ser!Device(l), cmds' = cmds PROVE ReadInv'
<1> DEFINE mr == meta_reg[l]
<1>1. /\ state[l] = "sDevice" /\ device_data_in[l] # <<>>
      /\ device_data_in' = [device_data_in EXCEPT ![l] = Tail(device_data_in[l])]
      /\ meta_in' = meta_in /\ host_data_in' = host_data_in
  BY DEF Ser!Device
<1>2. /\ meta_reg \in [Lanes -> Reg] /\ state \in [Lanes -> States]
      /\ host_data_in \in [Lanes -> Seq(Cells)] /\ device_data_in \in [Lanes -> Seq(Cells)]
  BY DEF TypeOK, ReadInv, DataTypes
<1>3. Tail(device_data_in[l]) \in Seq(Cells)
  BY <1>1, <1>2, Pop
<1>4. DataTypes' /\ device_data_in'[l] = Tail(device_data_in[l])
      /\ \A j \in Lanes : j # l => device_data_in'[j] = device_data_in[j]
  BY <1>1, <1>2, <1>3 DEF DataTypes
<1>5. /\ ReadTyped(meta_in[l], host_data_in[l], device_data_in[l], "sDevice", mr, Len(cmds))
      /\ ReadOK(meta_in[l], host_data_in[l], device_data_in[l], "sDevice", mr, Len(cmds))
  BY <1>1, LaneReads
<1> DEFINE After64(st, nr) == ReadOK(meta_in[l], host_data_in[l], Tail(device_data_in[l]), st, nr, Len(cmds))
<1>6. /\ mr.device > 64 => \A nr : nr.id = mr.id /\ nr.device = mr.device - 64 => After64("sDevice", nr)
      /\ ~(mr.device > 64) => After64("sDelay", mr)
  BY <1>1, <1>5, ReadsDevice
<1>7. After64(state'[l], meta_reg'[l]) => LaneRead(l)'
  BY <1>1, <1>4 DEF LaneRead
<1> HIDE DEF After64
<1>8. CASE /\ mr.device > 64 /\ state' = state
           /\ meta_reg' = [meta_reg EXCEPT ![l].device = mr.device - 64]
  <2>1. mr \in Reg
    BY <1>2
  <2>2. meta_reg' = [meta_reg EXCEPT ![l] = [mr EXCEPT !.device = mr.device - 64]]
    BY <1>2, <1>8
  <2>3. /\ meta_reg'[l] = [mr EXCEPT !.device = mr.device - 64]
        /\ \A j \in Lanes : j # l => meta_reg'[j] = meta_reg[j]
    BY <1>2, <2>2
  <2>4. meta_reg'[l].id = mr.id /\ meta_reg'[l].device = mr.device - 64
    BY <2>1, <2>3 DEF Reg
  <2>5. After64("sDevice", meta_reg'[l])
    BY <1>6, <1>8, <2>4
  <2>6. LaneRead(l)'
    BY <1>1, <1>7, <1>8, <2>5
  <2>7. OthersRead(l)
    BY <1>1, <1>4, <1>8, <2>3 DEF OthersRead
  <2> QED
    BY <1>4, <2>6, <2>7, ReadFrame
<1>9. CASE ~(mr.device > 64) /\ state' = [state EXCEPT ![l] = "sDelay"] /\ meta_reg' = meta_reg
  <2>1. state'[l] = "sDelay" /\ \A j \in Lanes : j # l => state'[j] = state[j]
    BY <1>2, <1>9
  <2>2. LaneRead(l)'
    BY <1>6, <1>7, <1>9, <2>1
  <2>3. OthersRead(l)
    BY <1>1, <1>4, <1>9, <2>1 DEF OthersRead
  <2> QED
    BY <1>4, <2>2, <2>3, ReadFrame
<1> QED
  BY <1>8, <1>9 DEF Ser!Device, Ser!MoreBeats, Ser!Goto

(* The other steps of a lane happen while it is done reading.              *)
LEMMA ReadStepRest ==
  ASSUME TypeOK, ReadInv, NEW l \in Lanes, Ser!Delay(l) \/ Ser!SendMeta(l) \/ Ser!SendData(l), cmds' = cmds
  PROVE  ReadInv'
<1>1. /\ UNCHANGED <<meta_in, host_data_in, device_data_in, meta_reg>>
      /\ state[l] \in Resting
      /\ \E st \in Resting : state' = [state EXCEPT ![l] = st]
  <2>0. state \in [Lanes -> States]
    BY DEF TypeOK
  <2>1. CASE Ser!Delay(l)
    <3>1. state[l] = "sDelay" /\ (state' = state \/ state' = [state EXCEPT ![l] = "sSendMeta"])
      BY <2>1 DEF Ser!Delay, Ser!Goto
    <3>2. state = [state EXCEPT ![l] = state[l]]
      BY <2>0
    <3> QED
      BY <2>1, <3>1, <3>2 DEF Ser!Delay, Ser!in_q, Resting
  <2>2. CASE Ser!SendMeta(l)
    BY <2>2 DEF Ser!SendMeta, Ser!Goto, Ser!in_q, Resting
  <2>3. CASE Ser!SendData(l)
    <3>1. /\ state[l] = "sSendData"
          /\ \/ state' = [state EXCEPT ![l] = "sIdle"]
             \/ state' = [state EXCEPT ![l] = "sSendData"]
      BY <2>3 DEF Ser!SendData, Ser!Goto
    <3> QED
      BY <2>3, <3>1 DEF Ser!SendData, Ser!in_q, Resting
  <2> QED
    BY <2>1, <2>2, <2>3
<1>2. PICK st \in Resting : state' = [state EXCEPT ![l] = st]
  BY <1>1
<1>3. state \in [Lanes -> States]
  BY DEF TypeOK
<1>4. state'[l] = st /\ \A j \in Lanes : j # l => state'[j] = state[j]
  BY <1>2, <1>3
<1>5. ReadOK(meta_in[l], host_data_in[l], device_data_in[l], st, meta_reg[l], Len(cmds))
  BY <1>1, LaneReads, ReadRest
<1>6. LaneRead(l)'
  BY <1>1, <1>4, <1>5 DEF LaneRead
<1>7. DataTypes' /\ OthersRead(l)
  BY <1>1, <1>4 DEF ReadInv, DataTypes, OthersRead
<1> QED
  BY <1>6, <1>7, ReadFrame

LEMMA ReadStepCommand ==
  ASSUME TypeOK, ReadInv, NEW l \in Lanes, NEW h \in HostLens, NEW d \in DeviceLens, Command(l, h, d)
  PROVE  ReadInv'
<1> DEFINE c == [id |-> Len(cmds) + 1, host |-> h, device |-> d]
           hq == host_data_in[l] \o [k \in 1..Beats(c.host) |-> <<c.id, k>>]
           dq == device_data_in[l] \o [k \in 1..Beats(c.device) |-> <<c.id, k>>]
           n == Len(cmds)
<1>1. /\ cmds' = Append(cmds, c)
      /\ meta_in' = [meta_in EXCEPT ![l] = Append(meta_in[l], c)]
      /\ host_data_in' = [host_data_in EXCEPT ![l] = hq]
      /\ device_data_in' = [device_data_in EXCEPT ![l] = dq]
      /\ state' = state /\ meta_reg' = meta_reg
  BY DEF Command
<1>2. /\ cmds \in Seq(Cmds) /\ meta_in \in [Lanes -> Seq(Cmds)]
      /\ host_data_in \in [Lanes -> Seq(Cells)] /\ device_data_in \in [Lanes -> Seq(Cells)]
  BY DEF TypeOK, ReadInv, DataTypes
<1>3. c \in Cmds /\ c.id = n + 1 /\ n \in Nat
  BY <1>2 DEF Cmds
<1>4. c.id \in Nat /\ Beats(c.host) \in Nat /\ Beats(c.device) \in Nat
  BY <1>3, CmdTypes
<1> HIDE DEF c
<1>5. Len(cmds') = n + 1
  BY <1>1, <1>2, <1>3, Push
<1>6. /\ ReadTyped(meta_in[l], host_data_in[l], device_data_in[l], state[l], meta_reg[l], n)
      /\ ReadOK(meta_in[l], host_data_in[l], device_data_in[l], state[l], meta_reg[l], n)
  BY LaneReads
<1>7. ReadOK(Append(meta_in[l], c), hq, dq, state[l], meta_reg[l], n + 1)
  <2> HIDE DEF n
  <2> QED
    BY <1>3, <1>6, ReadCommand
<1>8. hq \in Seq(Cells) /\ dq \in Seq(Cells)
  <2>1. \A m \in Nat : \A k \in 1..m : <<c.id, k>> \in Cells
    BY <1>4 DEF Cells
  <2>2. \A m \in Nat : [k \in 1..m |-> <<c.id, k>>] \in Seq(Cells)
    BY <2>1
  <2>3. host_data_in[l] \in Seq(Cells) /\ device_data_in[l] \in Seq(Cells)
    BY <1>2
  <2> QED
    BY <1>4, <2>2, <2>3, Concat
<1> HIDE DEF hq, dq, n
<1>9. DataTypes'
  BY <1>1, <1>2, <1>8 DEF DataTypes
<1>10. /\ meta_in'[l] = Append(meta_in[l], c) /\ host_data_in'[l] = hq /\ device_data_in'[l] = dq
       /\ \A j \in Lanes : j # l => /\ meta_in'[j] = meta_in[j] /\ host_data_in'[j] = host_data_in[j]
                                    /\ device_data_in'[j] = device_data_in[j]
  BY <1>1, <1>2
<1>11. ASSUME NEW j \in Lanes PROVE LaneRead(j)'
  <2>1. CASE j = l
    BY <1>1, <1>5, <1>7, <1>10, <2>1 DEF LaneRead
  <2>2. CASE j # l
    <3>1. ReadOK(meta_in[j], host_data_in[j], device_data_in[j], state[j], meta_reg[j], n + 1)
      BY LaneReads, ReadMore DEF n
    <3> QED
      BY <1>1, <1>5, <1>10, <2>2, <3>1 DEF LaneRead
  <2> QED
    BY <2>1, <2>2
<1> QED
  BY <1>9, <1>11 DEF ReadInv

LEMMA ReadStep == TypeOK /\ ReadInv /\ [Next]_vars => ReadInv'
<1> SUFFICES ASSUME TypeOK, ReadInv, [Next]_vars PROVE ReadInv'
  OBVIOUS
<1>1. ASSUME UNCHANGED <<cmds, meta_in, host_data_in, device_data_in, state, meta_reg>> PROVE ReadInv'
  BY <1>1 DEF ReadInv, DataTypes, LaneRead
<1>2. CASE \E l \in Lanes, h \in HostLens, d \in DeviceLens : Command(l, h, d)
  BY <1>2, ReadStepCommand
<1>3. CASE \E l \in Lanes : SerStep(l)
  <2>1. PICK l \in Lanes : SerStep(l)
    BY <1>3
  <2>2. cmds' = cmds /\ Ser!Lane(l)
    BY <2>1 DEF SerStep
  <2> QED
    BY <2>2, ReadStepIdle, ReadStepHost, ReadStepDevice, ReadStepRest DEF Ser!Lane
<1>4. CASE \E l \in Lanes : PassMeta(l)
  BY <1>1, <1>4 DEF PassMeta, ser_vars
<1>5. CASE PassData
  BY <1>1, <1>5 DEF PassData, ser_vars
<1>6. CASE NetStep
  BY <1>1, <1>6 DEF NetStep, ser_vars
<1>7. CASE TxStart
  BY <1>1, <1>7 DEF TxStart, ser_vars
<1>8. CASE TxBeat
  BY <1>1, <1>8 DEF TxBeat, ser_vars
<1>9. CASE UNCHANGED vars
  BY <1>1, <1>9 DEF vars, ser_vars
<1> QED
  BY <1>2, <1>3, <1>4, <1>5, <1>6, <1>7, <1>8, <1>9 DEF Next

LEMMA ReadWhole == TypeOK /\ ReadInv => ObjectsReadWhole
<1> SUFFICES ASSUME TypeOK, ReadInv, NEW l \in Lanes, state[l] \in Resting
             PROVE  LET cs == meta_in[l] IN
                    /\ ToSet(host_data_in[l]) = PartBeats(cs, [i \in 1..Len(cs) |-> cs[i].host])
                    /\ ToSet(device_data_in[l]) = PartBeats(cs, [i \in 1..Len(cs) |-> cs[i].device])
                    /\ InOrder(host_data_in[l]) /\ InOrder(device_data_in[l])
  BY DEF ObjectsReadWhole, Resting
<1> DEFINE cs == meta_in[l]
           hl == [i \in 1..Len(cs) |-> cs[i].host]
           dl == [i \in 1..Len(cs) |-> cs[i].device]
           o  == meta_reg[l].id
<1>1. /\ ReadTyped(cs, host_data_in[l], device_data_in[l], state[l], meta_reg[l], Len(cmds))
      /\ ReadOK(cs, host_data_in[l], device_data_in[l], state[l], meta_reg[l], Len(cmds))
  BY LaneReads
<1>2. cs \in Seq(Cmds) /\ host_data_in[l] \in Seq(Cells) /\ device_data_in[l] \in Seq(Cells)
  BY <1>1 DEF ReadTyped
<1>3. /\ Stock(host_data_in[l], Ids(cs), HostBeats(cs), o, 1, 0)
      /\ Stock(device_data_in[l], Ids(cs), DeviceBeats(cs), o, 1, 0)
  BY <1>1 DEF ReadOK, Resting
<1>4. /\ Len(Ids(cs)) = Len(cs)
      /\ \A i \in 1..Len(cs) : /\ Ids(cs)[i] = cs[i].id /\ HostBeats(cs)[i] = Beats(cs[i].host)
                               /\ DeviceBeats(cs)[i] = Beats(cs[i].device)
  BY <1>2, ListTypes
<1>5. \A i \in 1..Len(cs) : hl[i] = cs[i].host /\ dl[i] = cs[i].device
  OBVIOUS
<1> HIDE DEF cs, hl, dl, o
<1> DEFINE s  == Ids(cs)
           hb == HostBeats(cs)
           db == DeviceBeats(cs)
           hq == host_data_in[l]
           dq == device_data_in[l]
<1> HIDE DEF s, hb, db, hq, dq
<1>6. /\ hq \in Seq(Cells) /\ dq \in Seq(Cells)
      /\ Stock(hq, s, hb, o, 1, 0) /\ Stock(dq, s, db, o, 1, 0)
  BY <1>2, <1>3 DEF s, hb, db, hq, dq
<1>7. Lists(cs, hl, s, hb)
  BY <1>4, <1>5 DEF Lists, s, hb
<1>8. Lists(cs, dl, s, db)
  BY <1>4, <1>5 DEF Lists, s, db
<1>9. ToSet(hq) = PartBeats(cs, hl) /\ InOrder(hq)
  BY <1>2, <1>6, <1>7, StockParts
<1>10. ToSet(dq) = PartBeats(cs, dl) /\ InOrder(dq)
  BY <1>2, <1>6, <1>8, StockParts
<1> QED
  BY <1>9, <1>10 DEF cs, hl, dl, hq, dq

LEMMA TypesOfInv == IInv => TypeOK
  BY DEF IInv

(* The two streams a serializer reads never drift apart from its commands: *)
(* when Host and Device have decremented the length registers to the end,  *)
(* what waits in either stream is exactly the parts of the objects still   *)
(* to come, beat by beat and in their order, so no object is put together  *)
(* from the beats of another.                                              *)
THEOREM ObjectsReadToTheEnd == Spec => []ObjectsReadWhole
  BY InitInv, StepInv, TypesOfInv, InitRead, ReadStep, ReadWhole, PTL DEF Spec

=============================================================================
