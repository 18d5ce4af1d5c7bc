-------------------------- MODULE RpcReceiveProofs --------------------------
(* Proofs about the receive side, for every package size, every set of     *)
(* message lengths, every depth of its queues and every number of lanes.   *)
(*                                                                         *)
(* The first part is about NetToMem alone: the two queues between writer   *)
(* and reader stay in step, so the reader cuts the stream of beats where   *)
(* the messages end.  The second part is about RpcReceive.                 *)
EXTENDS RpcReceive, FifoLemmas, FiniteSetTheorems

(* The newest message is arriving while Busy; the lengths of messages      *)
(* 1..Done have been pushed, those of 1..Read taken by the reader, and     *)
(* First is the oldest one with beats in the data queue.                   *)
BeatsOf(ms, n) == Beats(ms[n])
Busy   == rx.msg + rx.pkg > 0
Newest == Len(msgs)
Done   == IF Busy THEN Newest - 1 ELSE Newest
Read   == Done - Len(msg_length_fifo)
First  == IF state_r = "sIdle" THEN Read + 1 ELSE Read

TypeOK ==
  /\ msgs \in Seq(MsgLens) /\ Len(msgs) <= MaxMsg
  /\ rx \in [msg: Nat, pkg: Nat, sent: Nat]
  /\ recv_meta \in [last_pkg: BOOLEAN, length: Nat] /\ recv_length \in Nat
  /\ state_aw \in {"sIdle", "sWrite"}
  /\ recv_data_fifo \in Seq(RawBeats) /\ Len(recv_data_fifo) <= RX_DEPTH
  /\ msg_length_fifo \in Seq(MsgLens) /\ Len(msg_length_fifo) <= LEN_DEPTH
  /\ state_r \in {"sIdle", "sSendMeta", "sWrite"} /\ r_length \in Nat
  /\ meta_fifo \in Seq(1..MaxMsg) /\ data_fifo \in Seq(RawBeats)

(* The writer: the bytes announced, pending and sent add up to the newest  *)
(* message, and so does the sum recv_length with the package at hand.      *)
WriterOK ==
  /\ rx.msg % 64 = 0 /\ rx.pkg % 64 = 0
  /\ state_aw = "sWrite" <=> rx.pkg > 0
  /\ rx.pkg > 0 => /\ recv_meta.last_pkg <=> rx.msg = 0
                   /\ rx.pkg <= recv_meta.length
  /\ Busy => /\ Newest > 0
             /\ rx.msg + rx.pkg + 64 * rx.sent = msgs[Newest]
             /\ rx.msg + recv_length + (IF rx.pkg > 0 THEN recv_meta.length ELSE 0) = msgs[Newest]
  /\ ~Busy => recv_length = 0

(* The reader: the lengths that wait are those of the next messages.       *)
ReaderOK ==
  /\ Read \in Nat
  /\ \A i \in 1..Len(msg_length_fifo) : msg_length_fifo[i] = msgs[Read + i]
  /\ state_r # "sIdle" => Read > 0 /\ r_length % 64 = 0 /\ r_length \in 64..msgs[Read]
  /\ state_r = "sSendMeta" => r_length = msgs[Read]

(* The stream of beats: places <<rpc, k>>, the place after each, the place *)
(* of the next beat to arrive and of the next one to leave.                *)
Places == Nat \X Nat
Key  == [b \in RawBeats |-> <<b.rpc, b.k>>]
Succ(ms) == [c \in Places |-> IF c[2] = BeatsOf(ms, c[1]) THEN <<c[1] + 1, 1>> ELSE <<c[1], c[2] + 1>>]
In   == IF Busy THEN <<Newest, rx.sent + 1>> ELSE <<Newest + 1, 1>>
Out  == IF state_r = "sIdle" THEN <<Read + 1, 1>>
        ELSE <<Read, BeatsOf(msgs, Read) + 1 - r_length \div 64>>

(* Gap is a lower bound of the number of beats from place c to place z: no *)
(* message has fewer than MinBeats, which is Fewest while none is Short.   *)
Fewest == (RX_DEPTH + LEN_DEPTH - 1) \div LEN_DEPTH
AllLong(ms) == \A n \in 1..Len(ms) : ~Short(ms[n])
MinBeats(ms) == IF AllLong(ms) THEN Fewest ELSE 0
Gap(c, ms, z) ==
  IF c[1] < z[1] THEN (z[1] - c[1] - 1) * MinBeats(ms) + z[2] + BeatsOf(ms, c[1]) - c[2]
                 ELSE z[2] - c[2]

(* The data queue: every beat is one of a message, marked last if and only *)
(* if it is, in the order of the stream, and with it are all the beats up  *)
(* to the place of the writer; the end of every complete message that the  *)
(* reader has not finished is in the queue.                                *)
Right(b, ms) == /\ b.rpc \in 1..Len(ms) /\ b.k \in 1..BeatsOf(ms, b.rpc)
                /\ b.last <=> b.k = BeatsOf(ms, b.rpc)
QueueOK(q, ms, z) ==
  /\ \A i \in 1..Len(q) : /\ Right(q[i], ms) /\ Before(Key[q[i]], z)
                          /\ Len(q) + 1 - i >= Gap(Key[q[i]], ms, z)
  /\ \A i, j \in 1..Len(q) : i < j => Before(Key[q[i]], Key[q[j]])
EndsOK == \A n \in First..Done : \E i \in 1..Len(recv_data_fifo) :
             recv_data_fifo[i].rpc = n /\ recv_data_fifo[i].last
DataOK == /\ QueueOK(recv_data_fifo, msgs, In)
          /\ Chain(recv_data_fifo, Key, Succ(msgs), Out, In)
          /\ EndsOK
SentOK == \A i \in 1..Len(data_fifo) : Right(data_fifo[i], msgs)

IInv == TypeOK /\ WriterOK /\ ReaderOK /\ DataOK /\ SentOK

-----------------------------------------------------------------------------
(* Messages are whole beats; one that is not Short has at least Fewest.    *)
LEMMA MinFacts ==
  /\ Fewest \in Nat
  /\ Fewest * LEN_DEPTH >= RX_DEPTH
  /\ \A b \in Nat : b * LEN_DEPTH >= RX_DEPTH => b >= Fewest
<1> DEFINE x == RX_DEPTH + LEN_DEPTH - 1
           r == x % LEN_DEPTH
<1>0. RX_DEPTH \in Nat /\ LEN_DEPTH \in Nat \ {0}
  BY NetToMemAssumption
<1>1. x \in Nat
  BY <1>0
<1>2. x = LEN_DEPTH * Fewest + r /\ r \in 0..(LEN_DEPTH - 1) /\ Fewest \in Nat
  BY <1>0, <1>1, DivMod DEF Fewest
<1> HIDE DEF r
<1>3. LEN_DEPTH * Fewest = Fewest * LEN_DEPTH
  BY <1>0, <1>2
<1>4. Fewest * LEN_DEPTH >= RX_DEPTH
  BY <1>0, <1>2, <1>3
<1>5. ASSUME NEW b \in Nat, b * LEN_DEPTH >= RX_DEPTH PROVE b >= Fewest
  <2> SUFFICES ASSUME b < Fewest PROVE FALSE
    BY <1>2
  <2>1. LEN_DEPTH * b + LEN_DEPTH <= LEN_DEPTH * Fewest
    BY <1>0, <1>2, Mult
  <2>2. LEN_DEPTH * b = b * LEN_DEPTH
    BY <1>0
  <2> QED
    BY <1>0, <1>2, <1>5, <2>1, <2>2
<1> QED
  BY <1>2, <1>4, <1>5

LEMMA OneMore == \A d \in Int, m \in Nat : (d + 1) * m = d * m + m
  OBVIOUS

LEMMA MsgBeats ==
  \A m \in MsgLens : /\ m \in Nat /\ m > 0 /\ m % 64 = 0
                     /\ Beats(m) \in Nat /\ Beats(m) > 0 /\ m = 64 * Beats(m)
                     /\ ~Short(m) => Beats(m) >= Fewest
<1> SUFFICES ASSUME NEW m \in MsgLens
             PROVE  /\ m \in Nat /\ m > 0 /\ m % 64 = 0
                    /\ Beats(m) \in Nat /\ Beats(m) > 0 /\ m = 64 * Beats(m)
                    /\ ~Short(m) => Beats(m) >= Fewest
  OBVIOUS
<1>1. m \in Nat /\ m > 0 /\ m % 64 = 0
  BY NetToMemAssumption
<1>2. Beats(m) \in Nat /\ Beats(m) > 0 /\ m = 64 * Beats(m)
  BY <1>1 DEF Beats
<1>3. ASSUME ~Short(m) PROVE Beats(m) >= Fewest
  <2>1. Beats(m) * LEN_DEPTH \in Nat /\ RX_DEPTH \in Nat
    BY <1>2, NetToMemAssumption
  <2>2. Beats(m) * LEN_DEPTH >= RX_DEPTH
    BY <1>3, <2>1 DEF Short
  <2> QED
    BY <1>2, <2>2, MinFacts
<1> QED
  BY <1>1, <1>2, <1>3

LEMMA BeatsFacts ==
  ASSUME NEW ms \in Seq(MsgLens), NEW n \in 1..Len(ms)
  PROVE  /\ ms[n] \in MsgLens /\ ms[n] \in Nat /\ ms[n] > 0
         /\ BeatsOf(ms, n) \in Nat /\ BeatsOf(ms, n) > 0 /\ ms[n] = 64 * BeatsOf(ms, n)
         /\ BeatsOf(ms, n) >= MinBeats(ms)
<1>1. ms[n] \in MsgLens
  OBVIOUS
<1>2. /\ ms[n] \in Nat /\ ms[n] > 0 /\ BeatsOf(ms, n) \in Nat /\ BeatsOf(ms, n) > 0
      /\ ms[n] = 64 * BeatsOf(ms, n) /\ (~Short(ms[n]) => BeatsOf(ms, n) >= Fewest)
  BY <1>1, MsgBeats DEF BeatsOf
<1>3. BeatsOf(ms, n) >= MinBeats(ms)
  BY <1>2 DEF MinBeats, AllLong
<1> QED
  BY <1>1, <1>2, <1>3

LEMMA MinIsNat == \A ms : MinBeats(ms) \in Nat /\ MinBeats(ms) <= Fewest
  BY MinFacts DEF MinBeats

LEMMA KeyFacts ==
  \A b \in RawBeats : /\ Key[b] = <<b.rpc, b.k>> /\ Key[b][1] = b.rpc /\ Key[b][2] = b.k
                      /\ b.rpc \in Nat /\ b.rpc > 0 /\ b.k \in Nat /\ b.k > 0
                      /\ b.last \in BOOLEAN
<1>1. MaxMsg \in Nat
  BY NetToMemAssumption
<1> QED
  BY <1>1 DEF Key, RawBeats

-----------------------------------------------------------------------------
(* The data queue: a beat pushed in turn, a beat popped, a new message.    *)
LEMMA QueuePush ==
  ASSUME NEW ms \in Seq(MsgLens), NEW q \in Seq(RawBeats), NEW x \in RawBeats,
         NEW z, NEW w, QueueOK(q, ms, z),
         Right(x, ms), Key[x] = z,
         w = IF x.last THEN <<x.rpc + 1, 1>> ELSE <<x.rpc, x.k + 1>>
  PROVE  QueueOK(Append(q, x), ms, w)
<1> DEFINE r == Append(q, x)
           L == Len(q)
           n == x.rpc
           k == x.k
<1>1. /\ L \in Nat /\ Len(r) = L + 1 /\ r[L + 1] = x
      /\ \A i \in 1..L : r[i] = q[i] /\ q[i] \in RawBeats
  BY Push
<1>2. /\ z = <<n, k>> /\ z[1] = n /\ z[2] = k /\ n \in Nat /\ k \in Nat /\ k > 0
  BY KeyFacts
<1>3. n \in 1..Len(ms) /\ k <= BeatsOf(ms, n) /\ BeatsOf(ms, n) \in Nat /\ BeatsOf(ms, n) >= MinBeats(ms)
      /\ (x.last <=> k = BeatsOf(ms, n)) /\ MinBeats(ms) \in Nat
  BY BeatsFacts, MinIsNat DEF Right
<1>4. \/ w[1] = n + 1 /\ w[2] = 1 /\ k = BeatsOf(ms, n)
      \/ w[1] = n /\ w[2] = k + 1
  BY <1>3
<1> HIDE DEF r, L, n, k
<1>5. ASSUME NEW i \in 1..L
      PROVE  /\ Right(q[i], ms) /\ Before(Key[q[i]], z) /\ L + 1 - i >= Gap(Key[q[i]], ms, z)
  BY <1>5 DEF QueueOK, L
<1>6. ASSUME NEW i \in 1..L PROVE Before(Key[q[i]], w) /\ L + 2 - i >= Gap(Key[q[i]], ms, w)
  <2> DEFINE a == q[i].rpc
             b == q[i].k
             c == Key[q[i]]
             B == BeatsOf(ms, a)
             s == (n - a - 1) * MinBeats(ms)
  <2>1. /\ c[1] = a /\ c[2] = b /\ a \in Nat /\ b \in Nat /\ b > 0
    BY <1>1, KeyFacts
  <2>2. a \in 1..Len(ms) /\ b <= B /\ B \in Nat
    <3>1. a \in 1..Len(ms) /\ b \in 1..B
      BY <1>5 DEF Right
    <3> HIDE DEF a, b
    <3>2. B \in Nat
      BY <3>1, BeatsFacts, Zenon
    <3> HIDE DEF B
    <3> QED
      BY <3>1, <3>2, Between, Zenon
  <2>3. (n + 1 - a - 1) * MinBeats(ms) = s + MinBeats(ms) /\ s \in Int
    <3>1. n - a - 1 \in Int /\ n + 1 - a - 1 = (n - a - 1) + 1
      BY <1>2, <2>1
    <3>2. s \in Int
      BY <1>3, <3>1
    <3>3. ((n - a - 1) + 1) * MinBeats(ms) = s + MinBeats(ms)
      BY <1>3, <3>1, OneMore, Zenon
    <3> QED
      BY <3>1, <3>2, <3>3, Zenon
  <2> HIDE DEF a, b, c, B, s
  <2>4. Before(c, z) /\ L + 1 - i >= Gap(c, ms, z)
    BY <1>5 DEF c
  <2>5. a < n \/ (a = n /\ b < k)
    BY <1>2, <2>1, <2>4 DEF Before
  <2>6. CASE a < n
    <3>1. L + 1 - i >= s + k + B - b
      BY <1>2, <2>1, <2>4, <2>6 DEF Gap, B, s
    <3>2. CASE w[1] = n + 1 /\ w[2] = 1 /\ k = BeatsOf(ms, n)
      <4>1. Gap(c, ms, w) = (n + 1 - a - 1) * MinBeats(ms) + 1 + B - b
        BY <1>2, <2>1, <2>6, <3>2 DEF Gap, B
      <4>2. Before(c, w)
        BY <1>2, <2>1, <2>6, <3>2 DEF Before
      <4>3. /\ L \in Int /\ i \in Int /\ s \in Int /\ k \in Int /\ b \in Int /\ B \in Int
            /\ MinBeats(ms) \in Int /\ k >= MinBeats(ms)
        BY <1>1, <1>2, <1>3, <2>1, <2>2, <2>3, <3>2
      <4>4. Gap(c, ms, w) = s + MinBeats(ms) + 1 + B - b
        BY <2>3, <4>1
      <4>5. L + 2 - i >= Gap(c, ms, w)
        BY <3>1, <4>3, <4>4
      <4> QED
        BY <4>2, <4>5 DEF c
    <3>3. CASE w[1] = n /\ w[2] = k + 1
      <4>1. Gap(c, ms, w) = s + (k + 1) + B - b
        BY <1>2, <2>1, <2>6, <3>3 DEF Gap, B, s
      <4>2. Before(c, w)
        BY <1>2, <2>1, <2>6, <3>3 DEF Before
      <4>3. /\ L \in Int /\ i \in Int /\ s \in Int /\ k \in Int /\ b \in Int /\ B \in Int
        BY <1>1, <1>2, <2>1, <2>2, <2>3
      <4>4. L + 2 - i >= Gap(c, ms, w)
        BY <3>1, <4>1, <4>3
      <4> QED
        BY <4>2, <4>4 DEF c
    <3> QED
      BY <1>4, <3>2, <3>3
  <2>7. CASE a = n /\ b < k
    <3>1. L + 1 - i >= k - b
      BY <1>2, <2>1, <2>4, <2>7 DEF Gap
    <3>2. CASE w[1] = n + 1 /\ w[2] = 1 /\ k = BeatsOf(ms, n)
      <4>1. Gap(c, ms, w) = (n + 1 - a - 1) * MinBeats(ms) + 1 + B - b
        BY <1>2, <2>1, <2>7, <3>2 DEF Gap, B
      <4>2. Before(c, w) /\ (n + 1 - a - 1) * MinBeats(ms) = 0
        BY <1>2, <1>3, <2>1, <2>7, <3>2 DEF Before
      <4>3. B = k
        BY <2>7, <3>2 DEF B
      <4>4. L \in Int /\ i \in Int /\ k \in Int /\ b \in Int
        BY <1>1, <1>2, <2>1
      <4>5. Gap(c, ms, w) = 0 + 1 + k - b
        BY <4>1, <4>2, <4>3
      <4>6. L + 2 - i >= Gap(c, ms, w)
        BY <3>1, <4>4, <4>5
      <4> QED
        BY <4>2, <4>6 DEF c
    <3>3. CASE w[1] = n /\ w[2] = k + 1
      <4>1. Gap(c, ms, w) = (k + 1) - b
        BY <1>2, <2>1, <2>7, <3>3 DEF Gap
      <4>2. Before(c, w)
        BY <1>2, <2>1, <2>7, <3>3 DEF Before
      <4>3. L \in Int /\ i \in Int /\ k \in Int /\ b \in Int
        BY <1>1, <1>2, <2>1
      <4>4. L + 2 - i >= Gap(c, ms, w)
        BY <3>1, <4>1, <4>3
      <4> QED
        BY <4>2, <4>4 DEF c
    <3> QED
      BY <1>4, <3>2, <3>3
  <2> QED
    BY <2>5, <2>6, <2>7
<1>7. Before(z, w) /\ 1 >= Gap(z, ms, w)
  <2>1. Before(z, w)
    BY <1>2, <1>4 DEF Before
  <2>2. CASE w[1] = n + 1 /\ w[2] = 1 /\ k = BeatsOf(ms, n)
    <3>1. Gap(z, ms, w) = (n + 1 - n - 1) * MinBeats(ms) + 1 + BeatsOf(ms, n) - k
      BY <1>2, <2>2 DEF Gap
    <3>2. (n + 1 - n - 1) * MinBeats(ms) = 0
      BY <1>2, <1>3
    <3> QED
      BY <1>2, <1>3, <2>1, <2>2, <3>1, <3>2
  <2>3. CASE w[1] = n /\ w[2] = k + 1
    BY <1>2, <2>1, <2>3 DEF Gap
  <2> QED
    BY <1>4, <2>2, <2>3
<1>8. ASSUME NEW i \in 1..Len(r)
      PROVE  Right(r[i], ms) /\ Before(Key[r[i]], w) /\ Len(r) + 1 - i >= Gap(Key[r[i]], ms, w)
  <2>1. CASE i \in 1..L
    <3>1. Len(r) + 1 - i = L + 2 - i
      BY <1>1
    <3> QED
      BY <1>1, <1>5, <1>6, <2>1, <3>1
  <2>2. CASE i = L + 1
    <3>1. Len(r) + 1 - i = 1
      BY <1>1, <2>2
    <3> QED
      BY <1>1, <1>7, <2>2, <3>1
  <2> QED
    BY <1>1, <2>1, <2>2
<1>9. ASSUME NEW i \in 1..Len(r), NEW j \in 1..Len(r), i < j PROVE Before(Key[r[i]], Key[r[j]])
  <2>1. i \in 1..L
    BY <1>1, <1>9
  <2>2. CASE j \in 1..L
    BY <1>1, <1>9, <2>1, <2>2 DEF QueueOK, L
  <2>3. CASE j = L + 1
    BY <1>1, <1>5, <2>1, <2>3
  <2> QED
    BY <1>1, <2>2, <2>3
<1>10. QueueOK(r, ms, w)
  BY <1>8, <1>9 DEF QueueOK
<1> QED
  BY <1>10 DEF r

LEMMA QueuePop ==
  ASSUME NEW ms \in Seq(MsgLens), NEW q \in Seq(RawBeats), q # <<>>, NEW z, QueueOK(q, ms, z)
  PROVE  QueueOK(Tail(q), ms, z)
<1> DEFINE r == Tail(q)
<1>1. /\ Len(q) \in Nat /\ Len(q) > 0 /\ Len(r) = Len(q) - 1
      /\ \A i \in 1..Len(r) : r[i] = q[i + 1]
  BY Pop
<1> HIDE DEF r
<1>2. ASSUME NEW i \in 1..Len(r)
      PROVE  Right(r[i], ms) /\ Before(Key[r[i]], z) /\ Len(r) + 1 - i >= Gap(Key[r[i]], ms, z)
  <2>0. i \in Int /\ i + 1 \in 1..Len(q) /\ r[i] = q[i + 1]
    BY <1>1
  <2>1a. \A l, j \in Int : (l - 1) + 1 - j = l + 1 - (j + 1)
    OBVIOUS
  <2>1. i + 1 \in 1..Len(q) /\ r[i] = q[i + 1] /\ Len(r) + 1 - i = Len(q) + 1 - (i + 1)
    <3>1. Len(q) \in Int /\ Len(r) = Len(q) - 1
      BY <1>1
    <3> QED
      BY <2>0, <2>1a, <3>1, Zenon
  <2>2. Right(q[i + 1], ms) /\ Before(Key[q[i + 1]], z)
        /\ Len(q) + 1 - (i + 1) >= Gap(Key[q[i + 1]], ms, z)
    BY <2>1, Zenon DEF QueueOK
  <2> QED
    BY <2>1, <2>2, Zenon
<1>3. ASSUME NEW i \in 1..Len(r), NEW j \in 1..Len(r), i < j PROVE Before(Key[r[i]], Key[r[j]])
  <2>1. i + 1 \in 1..Len(q) /\ j + 1 \in 1..Len(q) /\ i + 1 < j + 1 /\ r[i] = q[i + 1] /\ r[j] = q[j + 1]
    BY <1>1, <1>3
  <2> QED
    BY <2>1, Zenon DEF QueueOK
<1>4. QueueOK(r, ms, z)
  BY <1>2, <1>3 DEF QueueOK
<1> QED
  BY <1>4 DEF r

LEMMA RightGrows ==
  ASSUME NEW ms \in Seq(MsgLens), NEW len \in MsgLens, NEW b \in RawBeats, Right(b, ms)
  PROVE  Right(b, Append(ms, len)) /\ BeatsOf(Append(ms, len), b.rpc) = BeatsOf(ms, b.rpc)
<1>1. b.rpc \in 1..Len(ms) /\ Append(ms, len)[b.rpc] = ms[b.rpc] /\ Len(Append(ms, len)) = Len(ms) + 1
      /\ Len(ms) \in Nat
  BY Push DEF Right
<1>2. BeatsOf(Append(ms, len), b.rpc) = BeatsOf(ms, b.rpc)
  BY <1>1 DEF BeatsOf
<1>3. b.rpc \in 1..Len(Append(ms, len))
  BY <1>1
<1> QED
  BY <1>2, <1>3 DEF Right

LEMMA QueueGrows ==
  ASSUME NEW ms \in Seq(MsgLens), NEW len \in MsgLens, NEW q \in Seq(RawBeats), NEW z \in Nat \X Nat,
         QueueOK(q, ms, z)
  PROVE  QueueOK(q, Append(ms, len), z)
<1>1. ASSUME NEW i \in 1..Len(q)
      PROVE  Right(q[i], Append(ms, len))
             /\ Len(q) + 1 - i >= Gap(Key[q[i]], Append(ms, len), z)
  <2>1. q[i] \in RawBeats /\ Right(q[i], ms)
    BY DEF QueueOK
  <2>2. Right(q[i], Append(ms, len)) /\ BeatsOf(Append(ms, len), q[i].rpc) = BeatsOf(ms, q[i].rpc)
    BY <2>1, RightGrows
  <2> DEFINE c == Key[q[i]]
             B == BeatsOf(ms, q[i].rpc)
             M == MinBeats(ms)
             N == MinBeats(Append(ms, len))
  <2>3. /\ c[1] = q[i].rpc /\ c[2] = q[i].k /\ c[1] \in Nat /\ c[2] \in Nat
        /\ B \in Nat /\ M \in Nat /\ N \in Nat
    BY <2>1, KeyFacts, BeatsFacts, MinIsNat DEF Right
  <2>4. N <= M
    <3>1. \A n \in 1..Len(ms) : n \in 1..Len(Append(ms, len)) /\ Append(ms, len)[n] = ms[n]
      BY Push
    <3>2. AllLong(Append(ms, len)) => AllLong(ms)
      BY <3>1 DEF AllLong
    <3> QED
      BY <3>2, MinFacts DEF MinBeats
  <2>5. Before(c, z) /\ Len(q) + 1 - i >= Gap(c, ms, z) /\ Len(q) \in Nat
    BY DEF QueueOK
  <2> HIDE DEF c, B, M, N
  <2>6. CASE c[1] < z[1]
    <3> DEFINE d == z[1] - c[1] - 1
    <3>1. Gap(c, ms, z) = d * M + z[2] + B - c[2] /\ Gap(c, Append(ms, len), z) = d * N + z[2] + B - c[2]
      BY <2>2, <2>3, <2>6 DEF Gap, B, M, N
    <3>2. d \in Nat
      BY <2>3, <2>6
    <3> HIDE DEF d
    <3>3. d * N <= d * M /\ d * N \in Nat /\ d * M \in Nat
      <4>1. d * N \in Nat /\ d * M \in Nat
        BY <2>3, <3>2
      <4>2. CASE d = 0
        BY <2>3, <4>2
      <4>3. CASE d > 0 /\ N < M
        <5>1. d * N + d <= d * M
          BY <2>3, <3>2, <4>3, Mult
        <5> QED
          BY <3>2, <4>1, <5>1
      <4>4. CASE N = M
        BY <4>1, <4>4
      <4> QED
        BY <2>3, <2>4, <3>2, <4>1, <4>2, <4>3, <4>4
    <3>4. Len(q) + 1 - i >= Gap(c, Append(ms, len), z)
      <4>1. z[2] \in Int /\ Len(q) + 1 - i \in Int /\ Gap(c, ms, z) \in Int
        BY <2>3, <2>5, <3>1, <3>3, SMTT(20)
      <4> QED
        <5>1. \A x, u, v, y, b, w \in Int :
                x >= u + y + b - w /\ v <= u => x >= v + y + b - w
          OBVIOUS
        <5>2. Len(q) + 1 - i >= d * M + z[2] + B - c[2]
          BY <2>5, <3>1
        <5>3. Len(q) + 1 - i >= d * N + z[2] + B - c[2]
          <6> DEFINE u == d * M
                     v == d * N
          <6>1. u \in Int /\ v \in Int /\ v <= u /\ B \in Int /\ c[2] \in Int
            BY <2>3, <3>3
          <6>2. Len(q) + 1 - i >= u + z[2] + B - c[2]
            BY <5>2
          <6> HIDE DEF u, v
          <6>3. Len(q) + 1 - i >= v + z[2] + B - c[2]
            BY <4>1, <5>1, <6>1, <6>2
          <6> QED
            BY <6>3 DEF v
        <5> QED
          BY <3>1, <5>3
    <3> QED
      BY <2>2, <3>4 DEF c
  <2>7. CASE ~(c[1] < z[1])
    BY <2>2, <2>5, <2>7 DEF Gap, c
  <2> QED
    BY <2>6, <2>7
<1> QED
  BY <1>1 DEF QueueOK

-----------------------------------------------------------------------------
LEMMA NetInit == Init => IInv
<1> SUFFICES ASSUME Init PROVE IInv
  OBVIOUS
<1>1. TypeOK
  BY NetToMemAssumption DEF Init, TypeOK, NoMeta
<1>2. Len(msgs) = 0 /\ Len(recv_data_fifo) = 0 /\ Len(msg_length_fifo) = 0 /\ Len(data_fifo) = 0
      /\ rx.msg = 0 /\ rx.pkg = 0
  BY DEF Init
<1>3. ~Busy /\ Newest = 0 /\ Done = 0 /\ Read = 0 /\ First = 1 /\ In = <<1, 1>> /\ Out = <<1, 1>>
  BY <1>2 DEF Init, Busy, Newest, Done, Read, First, In, Out
<1>4. WriterOK
  BY <1>2, <1>3 DEF Init, WriterOK
<1>5. ReaderOK
  BY <1>2, <1>3 DEF Init, ReaderOK
<1>6. DataOK
  BY <1>2, <1>3 DEF DataOK, QueueOK, Chain, EndsOK
<1>7. SentOK
  BY <1>2 DEF SentOK
<1> QED
  BY <1>1, <1>4, <1>5, <1>6, <1>7 DEF IInv

(* What the typing says of the lengths and counters the invariant uses.    *)
LEMMA Typed ==
  ASSUME IInv
  PROVE  /\ Newest \in Nat /\ Len(msg_length_fifo) \in Nat /\ Len(recv_data_fifo) \in Nat
         /\ rx.msg \in Nat /\ rx.pkg \in Nat /\ rx.sent \in Nat /\ r_length \in Nat
         /\ recv_length \in Nat /\ recv_meta.length \in Nat /\ recv_meta.last_pkg \in BOOLEAN
         /\ Done \in Nat /\ Done <= Newest /\ Read \in Nat /\ Read <= Done /\ First \in Nat
         /\ Done = Read + Len(msg_length_fifo)
<1>1. /\ Newest \in Nat /\ Len(msg_length_fifo) \in Nat /\ Len(recv_data_fifo) \in Nat
      /\ rx.msg \in Nat /\ rx.pkg \in Nat /\ rx.sent \in Nat /\ r_length \in Nat
      /\ recv_length \in Nat /\ recv_meta.length \in Nat /\ recv_meta.last_pkg \in BOOLEAN
  BY DEF IInv, TypeOK, Newest
<1>2. Read \in Nat /\ (Busy => Newest > 0)
  BY DEF IInv, ReaderOK, WriterOK
<1> QED
  BY <1>1, <1>2 DEF Done, Read, First

-----------------------------------------------------------------------------
(* The meta of a package: the bytes of the package and those left.         *)
Cut(left) == IF left > MTU THEN MTU ELSE left

LEMMA CutFacts ==
  \A left \in Nat : left > 0 /\ left % 64 = 0 =>
     /\ Cut(left) \in Nat /\ Cut(left) > 0 /\ Cut(left) % 64 = 0 /\ Cut(left) <= left
     /\ left - Cut(left) \in Nat /\ (left - Cut(left)) % 64 = 0
     /\ (left - Cut(left) = 0 <=> Cut(left) = left)
<1>1. MTU \in Nat /\ MTU > 0 /\ MTU % 64 = 0
  BY NetToMemAssumption
<1> QED
  BY <1>1 DEF Cut

LEMMA MetaEffect ==
  ASSUME IInv, RecvMeta
  PROVE  /\ rx' \in [msg: Nat, pkg: Nat, sent: Nat]
         /\ rx'.pkg > 0 /\ rx'.pkg % 64 = 0 /\ rx'.msg % 64 = 0
         /\ recv_meta' \in [last_pkg: BOOLEAN, length: Nat]
         /\ recv_meta'.length = rx'.pkg /\ (recv_meta'.last_pkg <=> rx'.msg = 0)
         /\ rx.pkg = 0
         /\ \/ /\ Busy /\ msgs' = msgs /\ rx'.msg + rx'.pkg = rx.msg /\ rx'.sent = rx.sent
            \/ /\ ~Busy /\ Len(msgs) < MaxMsg
               /\ \E len \in MsgLens : /\ msgs' = Append(msgs, len)
                                       /\ rx'.msg + rx'.pkg = len /\ rx'.sent = 0
<1>1. rx.msg \in Nat /\ rx.pkg = 0 /\ rx.sent \in Nat /\ rx.msg % 64 = 0
  BY DEF IInv, TypeOK, WriterOK, RecvMeta
<1>2. CASE rx.msg > 0 /\ Package(rx.msg, rx.sent) /\ UNCHANGED msgs
  <2>1. /\ recv_meta' = [last_pkg |-> Cut(rx.msg) = rx.msg, length |-> Cut(rx.msg)]
        /\ rx' = [msg |-> rx.msg - Cut(rx.msg), pkg |-> Cut(rx.msg), sent |-> rx.sent]
    BY <1>2 DEF Package, Cut
  <2>2. /\ Cut(rx.msg) \in Nat /\ Cut(rx.msg) > 0 /\ Cut(rx.msg) % 64 = 0
        /\ rx.msg - Cut(rx.msg) \in Nat /\ (rx.msg - Cut(rx.msg)) % 64 = 0
        /\ (rx.msg - Cut(rx.msg) = 0 <=> Cut(rx.msg) = rx.msg)
    BY <1>1, <1>2, CutFacts
  <2>3. Busy
    BY <1>1, <1>2 DEF Busy
  <2>4. rx'.msg + rx'.pkg = rx.msg /\ rx'.sent = rx.sent
    BY <1>1, <2>1, <2>2
  <2> QED
    BY <1>1, <1>2, <2>1, <2>2, <2>3, <2>4
<1>3. CASE /\ rx.msg = 0 /\ Len(msgs) < MaxMsg
           /\ \E len \in MsgLens : Package(len, 0) /\ msgs' = Append(msgs, len)
  <2>1. PICK len \in MsgLens : Package(len, 0) /\ msgs' = Append(msgs, len)
    BY <1>3
  <2>2. /\ recv_meta' = [last_pkg |-> Cut(len) = len, length |-> Cut(len)]
        /\ rx' = [msg |-> len - Cut(len), pkg |-> Cut(len), sent |-> 0]
    BY <2>1 DEF Package, Cut
  <2>3. /\ Cut(len) \in Nat /\ Cut(len) > 0 /\ Cut(len) % 64 = 0 /\ len \in Nat
        /\ len - Cut(len) \in Nat /\ (len - Cut(len)) % 64 = 0
        /\ (len - Cut(len) = 0 <=> Cut(len) = len)
    BY MsgBeats, CutFacts
  <2>4. ~Busy
    BY <1>1, <1>3 DEF Busy
  <2>5. rx'.msg + rx'.pkg = len /\ rx'.sent = 0
    BY <2>2, <2>3
  <2> QED
    BY <1>1, <1>3, <2>1, <2>2, <2>3, <2>4, <2>5
<1> QED
  BY <1>2, <1>3 DEF RecvMeta

(* A new message changes no earlier one.                                   *)
LEMMA MetaKeeps ==
  ASSUME IInv, RecvMeta
  PROVE  /\ msgs' \in Seq(MsgLens) /\ Len(msgs') <= MaxMsg /\ Len(msgs') \in Nat
         /\ Busy' /\ Newest' > 0 /\ rx'.msg + rx'.pkg + 64 * rx'.sent = msgs'[Newest']
         /\ \A n \in 1..Newest : msgs'[n] = msgs[n] /\ BeatsOf(msgs', n) = BeatsOf(msgs, n)
         /\ Done' = Done /\ Read' = Read /\ First' = First /\ In' = In /\ Out' = Out
<1>1. /\ msgs \in Seq(MsgLens) /\ Len(msgs) <= MaxMsg /\ Len(msgs) \in Nat /\ MaxMsg \in Nat
      /\ rx'.msg \in Nat /\ rx'.pkg \in Nat /\ rx'.pkg > 0 /\ rx'.sent \in Nat /\ rx.pkg = 0
  <2>1. msgs \in Seq(MsgLens) /\ Len(msgs) <= MaxMsg /\ Len(msgs) \in Nat /\ MaxMsg \in Nat
    BY NetToMemAssumption DEF IInv, TypeOK
  <2>2. rx' \in [msg: Nat, pkg: Nat, sent: Nat] /\ rx'.pkg > 0 /\ rx.pkg = 0
    BY MetaEffect, Zenon
  <2> QED
    BY <2>1, <2>2
<1>2. Busy'
  BY <1>1 DEF Busy
<1>3. msg_length_fifo' = msg_length_fifo /\ state_r' = state_r /\ r_length' = r_length
  BY DEF RecvMeta, reader
<1>4. CASE Busy /\ msgs' = msgs /\ rx'.msg + rx'.pkg = rx.msg /\ rx'.sent = rx.sent
  <2>1. Newest' = Newest /\ Done' = Done /\ Read' = Read /\ First' = First /\ In' = In /\ Out' = Out
    BY <1>2, <1>3, <1>4 DEF Newest, Done, Read, First, In, Out, BeatsOf
  <2>2. Newest > 0 /\ rx.msg + rx.pkg + 64 * rx.sent = msgs[Newest] /\ rx.msg \in Nat
    BY <1>4, Typed DEF IInv, WriterOK
  <2>3. rx'.msg + rx'.pkg + 64 * rx'.sent = msgs'[Newest']
    BY <1>1, <1>4, <2>1, <2>2
  <2> QED
    BY <1>1, <1>2, <1>4, <2>1, <2>2, <2>3
<1>5. CASE ~Busy /\ Len(msgs) < MaxMsg
           /\ \E len \in MsgLens : msgs' = Append(msgs, len) /\ rx'.msg + rx'.pkg = len /\ rx'.sent = 0
  <2>1. PICK len \in MsgLens : msgs' = Append(msgs, len) /\ rx'.msg + rx'.pkg = len /\ rx'.sent = 0
    BY <1>5
  <2>2. /\ msgs' \in Seq(MsgLens) /\ Len(msgs') = Len(msgs) + 1
        /\ \A n \in 1..Len(msgs) : msgs'[n] = msgs[n]
        /\ msgs'[Len(msgs) + 1] = len
    BY <1>1, <2>1, Push
  <2>3. Newest' = Newest + 1 /\ Done' = Done
    BY <1>1, <1>2, <1>5, <2>2 DEF Newest, Done
  <2>4. Read' = Read /\ First' = First /\ In' = In
    BY <1>1, <1>2, <1>3, <1>5, <2>1, <2>3 DEF Read, First, In
  <2>5. rx'.msg + rx'.pkg + 64 * rx'.sent = msgs'[Newest']
    BY <1>1, <2>1, <2>2, <2>3 DEF Newest
  <2>6. \A n \in 1..Newest : msgs'[n] = msgs[n] /\ BeatsOf(msgs', n) = BeatsOf(msgs, n)
    BY <2>2 DEF Newest, BeatsOf
  <2>7. state_r # "sIdle" => Read \in 1..Newest
    BY Typed DEF IInv, ReaderOK
  <2>8. Out' = Out
    BY <1>3, <2>4, <2>6, <2>7 DEF Out
  <2>9. Len(msgs') <= MaxMsg /\ Newest' > 0
    BY <1>1, <1>5, <2>2, <2>3 DEF Newest
  <2> QED
    BY <1>1, <1>2, <2>2, <2>3, <2>4, <2>5, <2>6, <2>8, <2>9
<1> QED
  BY <1>4, <1>5, MetaEffect

(* The next package of a message, or the first one of a new message.       *)
LEMMA StepRecvMeta == ASSUME IInv, RecvMeta PROVE IInv'
<1>1. /\ rx' \in [msg: Nat, pkg: Nat, sent: Nat]
      /\ rx'.pkg > 0 /\ rx'.pkg % 64 = 0 /\ rx'.msg % 64 = 0
      /\ recv_meta' \in [last_pkg: BOOLEAN, length: Nat]
      /\ recv_meta'.length = rx'.pkg /\ (recv_meta'.last_pkg <=> rx'.msg = 0)
      /\ rx.pkg = 0
  BY MetaEffect
<1>2. /\ msgs' \in Seq(MsgLens) /\ Len(msgs') <= MaxMsg
      /\ Busy' /\ Newest' > 0 /\ rx'.msg + rx'.pkg + 64 * rx'.sent = msgs'[Newest']
      /\ \A n \in 1..Newest : msgs'[n] = msgs[n] /\ BeatsOf(msgs', n) = BeatsOf(msgs, n)
      /\ Done' = Done /\ Read' = Read /\ First' = First /\ In' = In /\ Out' = Out
  BY MetaKeeps
<1>3. /\ state_aw' = "sWrite" /\ recv_length' = recv_length
      /\ recv_data_fifo' = recv_data_fifo /\ msg_length_fifo' = msg_length_fifo
      /\ state_r' = state_r /\ r_length' = r_length /\ meta_fifo' = meta_fifo /\ data_fifo' = data_fifo
  BY DEF RecvMeta, reader, out
<1>4. TypeOK'
  BY <1>1, <1>2, <1>3 DEF IInv, TypeOK
<1>5. WriterOK'
  <2>1. rx'.msg + recv_length' + (IF rx'.pkg > 0 THEN recv_meta'.length ELSE 0) = msgs'[Newest']
    <3>1. CASE Busy /\ msgs' = msgs /\ rx'.msg + rx'.pkg = rx.msg
      <4>1. rx.msg + recv_length = msgs[Newest]
        <5>1. rx.msg + recv_length + (IF rx.pkg > 0 THEN recv_meta.length ELSE 0) = msgs[Newest]
          BY <3>1 DEF IInv, WriterOK
        <5>2. rx.msg + recv_length + 0 = msgs[Newest]
          BY <1>1, <5>1
        <5> QED
          BY <5>2, Typed
      <4>2. Newest' = Newest
        BY <3>1 DEF Newest
      <4>3. rx'.msg \in Nat /\ rx'.pkg \in Nat /\ recv_length \in Nat
        BY <1>1, Typed
      <4>4. rx'.msg + recv_length + rx'.pkg = msgs[Newest]
        BY <3>1, <4>1, <4>3
      <4> QED
        BY <1>1, <1>3, <3>1, <4>2, <4>4
    <3>2. CASE ~Busy /\ \E len \in MsgLens : msgs' = Append(msgs, len) /\ rx'.msg + rx'.pkg = len /\ rx'.sent = 0
      <4>1. recv_length = 0
        BY <3>2 DEF IInv, WriterOK
      <4>2. rx'.msg \in Nat /\ rx'.pkg \in Nat /\ rx'.sent = 0
        BY <1>1, <3>2
      <4> QED
        BY <1>1, <1>2, <1>3, <4>1, <4>2
    <3> QED
      BY <3>1, <3>2, MetaEffect
  <2>2. rx'.pkg <= recv_meta'.length
    BY <1>1
  <2> QED
    BY <1>1, <1>2, <1>3, <2>1, <2>2 DEF WriterOK
<1>6. ReaderOK'
  <2>1. /\ \A i \in 1..Len(msg_length_fifo) : msg_length_fifo[i] = msgs[Read + i] /\ Read + i \in 1..Newest
    BY Typed DEF IInv, ReaderOK
  <2>2. state_r # "sIdle" => Read \in 1..Newest
    BY Typed DEF IInv, ReaderOK
  <2>3. \A i \in 1..Len(msg_length_fifo') : msg_length_fifo'[i] = msgs'[Read' + i]
    BY <1>2, <1>3, <2>1
  <2>4. /\ state_r' # "sIdle" => Read' > 0 /\ r_length' % 64 = 0 /\ r_length' \in 64..msgs'[Read']
        /\ state_r' = "sSendMeta" => r_length' = msgs'[Read']
    BY <1>2, <1>3, <2>2 DEF IInv, ReaderOK
  <2> QED
    BY <1>2, <2>3, <2>4, Typed DEF ReaderOK
<1>7. DataOK'
  <2>1. /\ msgs \in Seq(MsgLens) /\ recv_data_fifo \in Seq(RawBeats)
        /\ QueueOK(recv_data_fifo, msgs, In) /\ Chain(recv_data_fifo, Key, Succ(msgs), Out, In)
    BY DEF IInv, TypeOK, DataOK
  <2>2. QueueOK(recv_data_fifo, msgs', In)
    <3>1. CASE msgs' = msgs
      BY <2>1, <3>1
    <3>2. CASE \E len \in MsgLens : msgs' = Append(msgs, len)
      <4>1. In \in Nat \X Nat
        <5>1. Newest \in Nat /\ Newest + 1 \in Nat /\ rx.sent + 1 \in Nat /\ 1 \in Nat
          BY Typed, SMTT(20)
        <5> QED
          BY <5>1, Zenon DEF In
      <4> QED
        BY <2>1, <3>2, <4>1, QueueGrows
    <3> QED
      BY <3>1, <3>2, MetaEffect
  <2>3. ASSUME NEW i \in 1..Len(recv_data_fifo)
        PROVE  Succ(msgs)[Key[recv_data_fifo[i]]] = Succ(msgs')[Key[recv_data_fifo[i]]]
    <3> DEFINE b == recv_data_fifo[i]
    <3>1. b \in RawBeats /\ Right(b, msgs)
      BY <2>1 DEF QueueOK
    <3>2. BeatsOf(msgs', b.rpc) = BeatsOf(msgs, b.rpc)
      BY <1>2, <3>1 DEF Right, Newest
    <3>3. Key[b] \in Places /\ Key[b][1] = b.rpc /\ Key[b][2] = b.k
      <4>1. b.rpc \in Nat /\ b.k \in Nat /\ Key[b] = <<b.rpc, b.k>>
        BY <3>1, KeyFacts
      <4> QED
        BY <4>1 DEF Places
    <3> QED
      BY <3>2, <3>3 DEF Succ
  <2>4. Chain(recv_data_fifo, Key, Succ(msgs'), Out, In)
    BY <2>1, <2>3, ChainSame
  <2>5. EndsOK'
    BY <1>2, <1>3 DEF IInv, DataOK, EndsOK
  <2> QED
    BY <1>2, <1>3, <2>2, <2>4, <2>5 DEF DataOK
<1>8. SentOK'
  <2>1. /\ msgs \in Seq(MsgLens) /\ data_fifo \in Seq(RawBeats)
        /\ \A i \in 1..Len(data_fifo) : data_fifo[i] \in RawBeats /\ Right(data_fifo[i], msgs)
    BY DEF IInv, TypeOK, SentOK
  <2>2. \A i \in 1..Len(data_fifo) : Right(data_fifo[i], msgs')
    BY <2>1, MetaEffect, RightGrows
  <2> QED
    BY <1>3, <2>2 DEF SentOK
<1> QED
  BY <1>4, <1>5, <1>6, <1>7, <1>8 DEF IInv

-----------------------------------------------------------------------------
(* ReadLength: the message at the head of the data queue becomes the one   *)
(* being served; the reader's place in the stream does not move.           *)
LEMMA StepReadLength ==
  ASSUME IInv, ReadLength
  PROVE  IInv' /\ Read' = Read + 1 /\ Out' = Out
<1>1. /\ state_r = "sIdle" /\ state_r' = "sSendMeta" /\ msg_length_fifo # <<>>
      /\ r_length' = Head(msg_length_fifo) /\ msg_length_fifo' = Tail(msg_length_fifo)
      /\ msgs' = msgs /\ rx' = rx /\ recv_meta' = recv_meta /\ recv_length' = recv_length
      /\ state_aw' = state_aw /\ recv_data_fifo' = recv_data_fifo
      /\ meta_fifo' = meta_fifo /\ data_fifo' = data_fifo
  BY DEF ReadLength, writer, out
<1>2. /\ msg_length_fifo \in Seq(MsgLens) /\ Len(msg_length_fifo) <= LEN_DEPTH /\ LEN_DEPTH \in Nat
      /\ msgs \in Seq(MsgLens)
  BY NetToMemAssumption DEF IInv, TypeOK
<1>3. /\ msg_length_fifo' \in Seq(MsgLens) /\ Len(msg_length_fifo) > 0
      /\ Len(msg_length_fifo') = Len(msg_length_fifo) - 1
      /\ r_length' \in MsgLens /\ r_length' = msg_length_fifo[1]
      /\ \A i \in 1..Len(msg_length_fifo') : msg_length_fifo'[i] = msg_length_fifo[i + 1]
  BY <1>1, <1>2, Pop
<1>4. Busy' = Busy /\ Newest' = Newest /\ Done' = Done /\ In' = In
  BY <1>1 DEF Busy, Newest, Done, In
<1>5. Read' = Read + 1 /\ First' = First
  BY <1>1, <1>3, <1>4, Typed DEF Read, First
<1>6. r_length' = msgs[Read + 1] /\ Read + 1 \in 1..Newest
  BY <1>3, Typed DEF IInv, ReaderOK
<1>7. r_length' = 64 * BeatsOf(msgs, Read + 1) /\ BeatsOf(msgs, Read + 1) \in Nat
      /\ BeatsOf(msgs, Read + 1) > 0
  BY <1>2, <1>6, BeatsFacts DEF Newest
<1>8. TypeOK'
  <2>1. r_length' \in Nat
    BY <1>3, MsgBeats
  <2>2. Len(msg_length_fifo') <= LEN_DEPTH
    BY <1>2, <1>3
  <2> QED
    BY <1>1, <1>3, <2>1, <2>2 DEF IInv, TypeOK
<1>9. WriterOK'
  BY <1>1, <1>4 DEF IInv, WriterOK
<1>10. ReaderOK'
  <2>1. ASSUME NEW i \in 1..Len(msg_length_fifo') PROVE msg_length_fifo'[i] = msgs'[Read' + i]
    <3>1. i + 1 \in 1..Len(msg_length_fifo) /\ msg_length_fifo'[i] = msg_length_fifo[i + 1]
          /\ Read' + i = Read + (i + 1)
      <4>1. Read \in Nat /\ Len(msg_length_fifo) \in Nat
        BY Typed
      <4>2. i \in Int /\ i + 1 \in 1..Len(msg_length_fifo)
        BY <1>3, <4>1
      <4>3. (Read + 1) + i = Read + (i + 1)
        BY <4>1, <4>2
      <4> QED
        BY <1>3, <1>5, <4>2, <4>3
    <3>2. msg_length_fifo[i + 1] = msgs[Read + (i + 1)]
      BY <3>1 DEF IInv, ReaderOK
    <3> QED
      BY <1>1, <3>1, <3>2
  <2>2. r_length' % 64 = 0 /\ r_length' \in 64..msgs'[Read'] /\ r_length' = msgs'[Read']
    BY <1>1, <1>5, <1>6, <1>7
  <2>3. Read' \in Nat /\ Read' > 0
    BY <1>5, Typed
  <2> QED
    BY <2>1, <2>2, <2>3 DEF ReaderOK
<1>11. Out' = Out
  <2>1. r_length' \div 64 = BeatsOf(msgs, Read + 1)
    BY <1>7
  <2>2. BeatsOf(msgs, Read + 1) + 1 - BeatsOf(msgs, Read + 1) = 1
    BY <1>7
  <2> QED
    BY <1>1, <1>5, <2>1, <2>2 DEF Out
<1>12. DataOK'
  BY <1>1, <1>4, <1>5, <1>11 DEF IInv, DataOK, EndsOK
<1>13. SentOK'
  BY <1>1 DEF IInv, SentOK
<1> QED
  BY <1>5, <1>8, <1>9, <1>10, <1>11, <1>12, <1>13 DEF IInv

-----------------------------------------------------------------------------
(* The beat at the head is the next one of the message being served, and   *)
(* the reader's count marks it as the last if and only if it is.           *)
LEMMA HeadServed ==
  ASSUME IInv, state_r # "sIdle", recv_data_fifo # <<>>
  PROVE  /\ Head(recv_data_fifo) \in RawBeats /\ Right(Head(recv_data_fifo), msgs)
         /\ Head(recv_data_fifo).rpc = Read /\ Read \in 1..Newest
         /\ r_length = 64 * (BeatsOf(msgs, Read) + 1 - Head(recv_data_fifo).k)
         /\ Head(recv_data_fifo).k \in 1..BeatsOf(msgs, Read) /\ BeatsOf(msgs, Read) \in Nat
         /\ Head(recv_data_fifo).last <=> LastOfMessage
         /\ Head(recv_data_fifo) = recv_data_fifo[1] /\ 1 \in 1..Len(recv_data_fifo)
         /\ Out = Key[Head(recv_data_fifo)]
<1> DEFINE b == Head(recv_data_fifo)
           B == BeatsOf(msgs, Read)
<1>1. /\ recv_data_fifo \in Seq(RawBeats) /\ msgs \in Seq(MsgLens) /\ r_length \in Nat
      /\ QueueOK(recv_data_fifo, msgs, In) /\ Chain(recv_data_fifo, Key, Succ(msgs), Out, In)
  BY DEF IInv, TypeOK, DataOK
<1>2. b \in RawBeats /\ b = recv_data_fifo[1] /\ 1 \in 1..Len(recv_data_fifo)
  BY <1>1, Pop
<1>3. Right(b, msgs)
  BY <1>1, <1>2 DEF QueueOK
<1>4. Key[b] = Out
  BY <1>1, ChainPop
<1>5. Read \in 1..Newest /\ r_length % 64 = 0 /\ r_length >= 64 /\ r_length <= msgs[Read]
  BY Typed DEF IInv, ReaderOK
<1>6. B \in Nat /\ msgs[Read] = 64 * B
  BY <1>1, <1>5, BeatsFacts DEF Newest
<1>7. Out = <<Read, B + 1 - r_length \div 64>>
  BY DEF Out
<1>8. b.rpc = Read /\ b.k = B + 1 - r_length \div 64
  BY <1>2, <1>4, <1>7, KeyFacts
<1>9. b.k \in 1..B /\ (b.last <=> b.k = B)
  BY <1>3, <1>8 DEF Right
<1> HIDE DEF b, B
<1>10. r_length = 64 * (r_length \div 64) /\ r_length \div 64 \in Nat
  BY <1>1, <1>5
<1>11. r_length = 64 * (B + 1 - b.k)
  BY <1>6, <1>8, <1>9, <1>10
<1>12. r_length <= 64 <=> b.k = B
  BY <1>6, <1>9, <1>11
<1> QED
  BY <1>2, <1>3, <1>4, <1>5, <1>6, <1>8, <1>9, <1>11, <1>12 DEF b, B, LastOfMessage

(* One beat leaves: the reader's place moves to the next beat.             *)
LEMMA StepForward ==
  ASSUME IInv, state_r # "sIdle", Forward, meta_fifo' \in Seq(1..MaxMsg)
  PROVE  /\ IInv' /\ Read' = Read /\ Out' = Succ(msgs)[Out]
         /\ data_fifo' = Append(data_fifo, Head(recv_data_fifo))
<1> DEFINE b == Head(recv_data_fifo)
           B == BeatsOf(msgs, Read)
           last == LastOfMessage
<1>1. /\ recv_data_fifo # <<>> /\ recv_data_fifo' = Tail(recv_data_fifo)
      /\ data_fifo' = Append(data_fifo, [b EXCEPT !.last = last])
      /\ msgs' = msgs /\ rx' = rx /\ recv_meta' = recv_meta /\ recv_length' = recv_length
      /\ state_aw' = state_aw /\ msg_length_fifo' = msg_length_fifo
  BY DEF Forward, writer
<1>2. \/ last /\ state_r' = "sIdle" /\ r_length' = r_length
      \/ ~last /\ state_r' = "sWrite" /\ r_length' = r_length - 64
  BY DEF Forward
<1>3. /\ recv_data_fifo \in Seq(RawBeats) /\ msgs \in Seq(MsgLens) /\ r_length \in Nat
      /\ data_fifo \in Seq(RawBeats) /\ Len(recv_data_fifo) <= RX_DEPTH /\ RX_DEPTH \in Nat
      /\ QueueOK(recv_data_fifo, msgs, In) /\ Chain(recv_data_fifo, Key, Succ(msgs), Out, In)
  BY NetToMemAssumption DEF IInv, TypeOK, DataOK
<1>4. /\ b \in RawBeats /\ Right(b, msgs) /\ b.rpc = Read /\ Read \in 1..Newest
      /\ r_length = 64 * (B + 1 - b.k) /\ b.k \in 1..B /\ B \in Nat
      /\ (b.last <=> last) /\ b = recv_data_fifo[1] /\ Out = Key[b]
  BY <1>1, HeadServed
<1>4a. r_length = 64 * (B + 1 - b.k) /\ b.k \in 1..B /\ B \in Nat
  BY <1>4
<1>5. /\ Tail(recv_data_fifo) \in Seq(RawBeats) /\ Len(recv_data_fifo) > 0
      /\ Len(Tail(recv_data_fifo)) = Len(recv_data_fifo) - 1
      /\ \A i \in 1..Len(Tail(recv_data_fifo)) : Tail(recv_data_fifo)[i] = recv_data_fifo[i + 1]
  BY <1>1, <1>3, Pop
<1> HIDE DEF b, B, last
<1>6. Busy' = Busy /\ Newest' = Newest /\ Done' = Done /\ In' = In /\ Read' = Read
  BY <1>1 DEF Busy, Newest, Done, In, Read
<1>7. [b EXCEPT !.last = last] = b
  BY <1>4 DEF RawBeats, last, LastOfMessage
<1>8. r_length' \in Nat /\ state_r' \in {"sIdle", "sWrite"}
      /\ (state_r' # "sIdle" => r_length' % 64 = 0 /\ r_length' >= 64 /\ r_length' <= r_length)
  <2>1. ~last => b.k < B
    BY <1>4 DEF Right, B
  <2>2. CASE last
    BY <1>2, <1>3, <2>2
  <2>3. CASE ~last
    <3>0. b.k \in Int /\ b.k < B
      BY <1>4, <2>1, <2>3
    <3>1. B - b.k \in Nat /\ B - b.k >= 1 /\ r_length - 64 = 64 * (B - b.k)
      BY <1>4a, <3>0
    <3>2. \A d \in Nat : d >= 1 => 64 * d \in Nat /\ (64 * d) % 64 = 0 /\ 64 * d >= 64
      OBVIOUS
    <3>3. r_length - 64 \in Nat /\ (r_length - 64) % 64 = 0 /\ r_length - 64 >= 64
      BY <3>1, <3>2, Zenon
    <3>4. state_r' = "sWrite" /\ r_length' = r_length - 64
      BY <1>2, <2>3
    <3>5. r_length - 64 <= r_length
      BY <1>3
    <3> QED
      BY <3>3, <3>4, <3>5, Zenon
  <2> QED
    BY <2>2, <2>3
<1>9. TypeOK'
  <2>1. data_fifo' \in Seq(RawBeats)
    BY <1>1, <1>3, <1>4, <1>7, Push
  <2>2. Len(recv_data_fifo') <= RX_DEPTH
    BY <1>1, <1>3, <1>5
  <2> QED
    BY <1>1, <1>5, <1>8, <2>1, <2>2 DEF IInv, TypeOK
<1>10. WriterOK'
  BY <1>1, <1>6 DEF IInv, WriterOK
<1>11. ReaderOK'
  <2>1. r_length <= msgs[Read] /\ msgs[Read] \in Nat
    <3>1. msgs[Read] \in Nat
      BY <1>3, <1>4, BeatsFacts DEF Newest
    <3>2. r_length \in 64..msgs[Read]
      BY DEF IInv, ReaderOK
    <3> QED
      BY <3>1, <3>2
  <2>2. state_r' # "sIdle" => r_length' \in 64..msgs'[Read']
    BY <1>1, <1>3, <1>6, <1>8, <2>1
  <2> QED
    BY <1>1, <1>4, <1>6, <1>8, <2>2 DEF IInv, ReaderOK
<1>12. Out' = Succ(msgs)[Out]
  <2>1. Key[b] = <<Read, b.k>> /\ <<Read, b.k>> \in Places
    <3>1. Key[b] = <<b.rpc, b.k>> /\ b.rpc \in Nat /\ b.k \in Nat
      BY <1>4, KeyFacts
    <3> QED
      BY <1>4, <3>1 DEF Places
  <2>2. Succ(msgs)[Out] = IF b.k = B THEN <<Read + 1, 1>> ELSE <<Read, b.k + 1>>
    <3> DEFINE c == <<Read, b.k>>
    <3>1. c \in Places /\ c[1] = Read /\ c[2] = b.k /\ Out = c
      BY <1>4, <2>1
    <3> HIDE DEF c
    <3>2. Succ(msgs)[c] = IF c[2] = BeatsOf(msgs, c[1]) THEN <<c[1] + 1, 1>> ELSE <<c[1], c[2] + 1>>
      BY <3>1 DEF Succ
    <3> QED
      BY <3>1, <3>2 DEF B
  <2>3. b.k = B <=> last
    BY <1>4 DEF Right, B
  <2>4. CASE last
    BY <1>2, <1>6, <2>2, <2>3, <2>4 DEF Out
  <2>5. CASE ~last
    <3>1. state_r' = "sWrite" /\ r_length' = r_length - 64
      BY <1>2, <2>5
    <3>2. r_length' \div 64 = B - b.k
      <4>1. r_length' = 64 * (B - b.k) /\ B - b.k \in Nat
        <5>1. r_length - 64 = 64 * (B - b.k) /\ B - b.k \in Nat
          BY <1>4a
        <5> QED
          BY <3>1, <5>1, Zenon
      <4>2. \A d \in Nat : (64 * d) \div 64 = d
        OBVIOUS
      <4> QED
        BY <4>1, <4>2, Zenon
    <3>3. B + 1 - r_length' \div 64 = b.k + 1
      BY <1>4, <3>2
    <3>4. Out' = <<Read, B + 1 - r_length' \div 64>>
      BY <1>1, <1>6, <3>1 DEF Out, B
    <3> QED
      BY <2>2, <2>3, <2>5, <3>3, <3>4
  <2> QED
    BY <2>4, <2>5
<1>13. EndsOK'
  <2> SUFFICES ASSUME NEW n \in First'..Done'
               PROVE  \E i \in 1..Len(recv_data_fifo') : recv_data_fifo'[i].rpc = n /\ recv_data_fifo'[i].last
    BY DEF EndsOK
  <2>1. First = Read /\ First' = (IF last THEN Read + 1 ELSE Read) /\ Read \in Nat /\ Done \in Nat
    BY <1>2, <1>6, Typed DEF First
  <2>2. n \in First..Done
    BY <1>6, <2>1
  <2>3. PICK i \in 1..Len(recv_data_fifo) : recv_data_fifo[i].rpc = n /\ recv_data_fifo[i].last
    BY <2>2 DEF IInv, DataOK, EndsOK
  <2>4. i # 1
    <3> SUFFICES ASSUME i = 1 PROVE FALSE
      OBVIOUS
    <3>1. n = Read /\ last
      BY <1>4, <2>3
    <3> QED
      BY <1>6, <2>1, <3>1
  <2>5. i - 1 \in 1..Len(recv_data_fifo') /\ recv_data_fifo'[i - 1] = recv_data_fifo[i]
    BY <1>1, <1>5, <2>4
  <2> QED
    BY <2>3, <2>5
<1>14. DataOK'
  <2>1. QueueOK(Tail(recv_data_fifo), msgs, In)
    BY <1>1, <1>3, QueuePop
  <2>2. Chain(Tail(recv_data_fifo), Key, Succ(msgs), Succ(msgs)[Out], In)
    BY <1>1, <1>3, ChainPop
  <2> QED
    BY <1>1, <1>6, <1>12, <1>13, <2>1, <2>2 DEF DataOK
<1>15. SentOK'
  <2>1. /\ Len(data_fifo') = Len(data_fifo) + 1 /\ Len(data_fifo) \in Nat
        /\ \A i \in 1..Len(data_fifo) : data_fifo'[i] = data_fifo[i]
        /\ data_fifo'[Len(data_fifo) + 1] = b
    <3>1. data_fifo \in Seq(RawBeats) /\ b \in RawBeats /\ data_fifo' = Append(data_fifo, b)
      BY <1>1, <1>3, <1>4, <1>7
    <3>2. Len(data_fifo) \in Nat
      BY <3>1
    <3> HIDE DEF b
    <3> QED
      BY <3>1, <3>2, Push
  <2>2. \A i \in 1..Len(data_fifo) : Right(data_fifo[i], msgs)
    BY DEF IInv, SentOK
  <2>3. Right(b, msgs) /\ UNCHANGED msgs
    BY <1>1, <1>4
  <2>4. ASSUME NEW i \in 1..Len(data_fifo') PROVE Right(data_fifo'[i], msgs)
    <3>1. i \in 1..Len(data_fifo) \/ i = Len(data_fifo) + 1
      BY <2>1
    <3> QED
      BY <2>1, <2>2, <2>3, <3>1, Zenon
  <2> QED
    BY <2>3, <2>4 DEF SentOK
<1> QED
  BY <1>1, <1>6, <1>7, <1>9, <1>10, <1>11, <1>12, <1>14, <1>15 DEF IInv, b

-----------------------------------------------------------------------------
(* The beat the writer pushes is the next one of the newest message, and   *)
(* last_pkg on the last beat of a package is the end of the message.       *)
LEMMA BeatServed ==
  ASSUME IInv, RecvData
  PROVE  LET last == rx.pkg <= 64
             beat == [rpc |-> Newest, k |-> rx.sent + 1, last |-> last /\ recv_meta.last_pkg]
         IN  /\ beat \in RawBeats /\ Right(beat, msgs) /\ Key[beat] = In /\ Busy
             /\ Newest \in 1..Len(msgs) /\ rx.pkg >= 64 /\ rx.pkg % 64 = 0
             /\ (last => rx.pkg = 64)
             /\ (last /\ recv_meta.last_pkg <=> rx.msg = 0 /\ rx.pkg = 64)
<1> DEFINE last == rx.pkg <= 64
           beat == [rpc |-> Newest, k |-> rx.sent + 1, last |-> last /\ recv_meta.last_pkg]
           B == BeatsOf(msgs, Newest)
<1>1. /\ msgs \in Seq(MsgLens) /\ Len(msgs) <= MaxMsg /\ MaxMsg \in Nat
      /\ rx.msg \in Nat /\ rx.pkg \in Nat /\ rx.sent \in Nat
      /\ rx.pkg > 0 /\ rx.pkg % 64 = 0 /\ rx.msg % 64 = 0
      /\ (recv_meta.last_pkg <=> rx.msg = 0) /\ recv_meta.last_pkg \in BOOLEAN
  BY Typed, NetToMemAssumption DEF IInv, TypeOK, WriterOK, RecvData, DataReady
<1>2. Busy
  BY <1>1 DEF Busy
<1>3. Newest \in 1..Len(msgs) /\ rx.msg + rx.pkg + 64 * rx.sent = msgs[Newest]
  BY <1>2, Typed DEF IInv, WriterOK, Newest
<1>4. B \in Nat /\ msgs[Newest] = 64 * B
  BY <1>1, <1>3, BeatsFacts
<1>5. rx.pkg >= 64 /\ (last => rx.pkg = 64)
  BY <1>1
<1>6. last /\ recv_meta.last_pkg <=> rx.msg = 0 /\ rx.pkg = 64
  BY <1>1, <1>5
<1> HIDE DEF B
<1>7. rx.sent + 1 <= B /\ (rx.msg = 0 /\ rx.pkg = 64 <=> rx.sent + 1 = B)
  <2>1. rx.msg \in Nat /\ rx.pkg \in Nat /\ rx.sent \in Nat /\ B \in Nat /\ rx.pkg >= 64
        /\ rx.msg + rx.pkg + 64 * rx.sent = 64 * B
    BY <1>1, <1>3, <1>4, <1>5
  <2>2. \A m, p, s, b \in Nat : p >= 64 /\ m + p + 64 * s = 64 * b =>
           s + 1 <= b /\ (m = 0 /\ p = 64 <=> s + 1 = b)
    OBVIOUS
  <2> QED
    BY <2>1, <2>2
<1>8. Newest \in 1..MaxMsg
  BY <1>1, <1>3
<1>9. beat \in RawBeats
  BY <1>1, <1>8 DEF RawBeats
<1>10. beat.rpc = Newest /\ beat.k = rx.sent + 1 /\ (beat.last <=> last /\ recv_meta.last_pkg)
  OBVIOUS
<1>11. Right(beat, msgs)
  <2>1. rx.sent + 1 \in 1..B
    BY <1>1, <1>4, <1>7
  <2> QED
    BY <1>3, <1>6, <1>7, <1>10, <2>1 DEF Right, B
<1>12. Key[beat] = In
  BY <1>2, <1>9, <1>10, KeyFacts DEF In
<1> QED
  BY <1>1, <1>2, <1>3, <1>5, <1>6, <1>9, <1>11, <1>12

(* The length of a message always finds room: the data queue is not full,  *)
(* and every message whose length waits has its beats in it.               *)
LEMMA RoomForLength ==
  ASSUME IInv, RecvData, rx.msg = 0, rx.pkg = 64, AllLong(msgs)
  PROVE  Len(msg_length_fifo) < LEN_DEPTH
<1> DEFINE B == BeatsOf(msgs, Newest)
           L == Len(msg_length_fifo)
           q == recv_data_fifo
           D == Len(q)
           f == BeatsOf(msgs, q[1].rpc)
<1>1. /\ msgs \in Seq(MsgLens) /\ q \in Seq(RawBeats) /\ L \in Nat /\ D \in Nat /\ Newest \in Nat
      /\ Read \in Nat /\ Done = Read + L /\ rx.sent \in Nat
      /\ QueueOK(q, msgs, In) /\ Chain(q, Key, Succ(msgs), Out, In)
  BY Typed DEF IInv, TypeOK, DataOK
<1>2. Busy /\ Newest \in 1..Len(msgs)
  BY BeatServed
<1>3. Done = Newest - 1 /\ In = <<Newest, rx.sent + 1>> /\ In[1] = Newest /\ In[2] = rx.sent + 1
  BY <1>2 DEF Done, In
<1>4. B \in Nat /\ B >= MinBeats(msgs) /\ rx.sent + 1 = B
  <2>1. B \in Nat /\ B >= MinBeats(msgs) /\ msgs[Newest] = 64 * B
    BY <1>1, <1>2, BeatsFacts
  <2>2. 0 + 64 + 64 * rx.sent = msgs[Newest]
    BY <1>2 DEF IInv, WriterOK
  <2>3. rx.sent \in Nat
    BY <1>1
  <2>4. \A t, b \in Nat : 0 + 64 + 64 * t = 64 * b => t + 1 = b
    OBVIOUS
  <2> HIDE DEF B
  <2> QED
    BY <2>1, <2>2, <2>3, <2>4, Zenon
<1>5. D < RX_DEPTH /\ RX_DEPTH \in Nat /\ LEN_DEPTH \in Nat /\ LEN_DEPTH > 0
  BY NetToMemAssumption DEF RecvData, DataReady
<1>6. MinBeats(msgs) \in Nat /\ MinBeats(msgs) * LEN_DEPTH >= RX_DEPTH
  BY MinFacts DEF MinBeats
<1>7. CASE L = 0
  BY <1>5, <1>7
<1>8. CASE L > 0
  <2>1. Out[1] \in {Read, Read + 1} /\ (Out[1] = Read + 1 => Out[2] = 1)
    BY <1>1 DEF Out
  <2>2. q # <<>>
    <3> SUFFICES ASSUME q = <<>> PROVE FALSE
      OBVIOUS
    <3>1. Out = In
      BY <1>1, ChainHead
    <3> QED
      BY <1>1, <1>3, <1>8, <2>1, <3>1
  <2>3. /\ q[1] \in RawBeats /\ Key[q[1]] = Out /\ 1 \in 1..D
    BY <1>1, <2>2, ChainHead, Pop
  <2>4. Right(q[1], msgs) /\ D + 1 - 1 >= Gap(Out, msgs, In)
    BY <1>1, <2>3 DEF QueueOK
  <2>5. /\ Out[1] = q[1].rpc /\ Out[2] = q[1].k /\ q[1].rpc \in 1..Len(msgs)
        /\ q[1].k \in 1..f
    BY <2>3, <2>4, KeyFacts DEF Right
  <2>6. f \in Nat /\ f >= MinBeats(msgs)
    BY <1>1, <2>5, BeatsFacts
  <2> DEFINE s == (Newest - Out[1] - 1) * MinBeats(msgs)
  <2>7. Out[1] < Newest /\ Out[1] \in Nat
    <3>1. Newest = Read + L + 1
      BY <1>1, <1>3
    <3>2. Read \in Nat /\ L \in Nat /\ L > 0
      BY <1>1, <1>8
    <3> HIDE DEF L
    <3> QED
      BY <2>1, <3>1, <3>2
  <2>8. Gap(Out, msgs, In) = s + B + f - Out[2]
    BY <1>3, <1>4, <2>5, <2>7 DEF Gap
  <2>9. D >= s + B + f - Out[2] /\ Out[2] <= f /\ Out[2] \in Nat /\ s \in Int
    <3>1. s \in Int
      BY <1>1, <1>6, <2>7
    <3>2. Out[2] <= f /\ Out[2] \in Nat
      BY <2>5, <2>6
    <3> QED
      BY <1>1, <2>4, <2>8, <3>1, <3>2
  <2>10. D + 1 >= MinBeats(msgs) * L + MinBeats(msgs)
    <3>1. CASE Out[1] = Read
      <4>1. Newest - Out[1] - 1 = L
        BY <1>1, <1>3, <3>1
      <4>2. s = MinBeats(msgs) * L
        <5>1. s = L * MinBeats(msgs)
          BY <4>1
        <5> QED
          BY <1>1, <1>6, <5>1
      <4> DEFINE t == MinBeats(msgs) * L
      <4>3. /\ D \in Int /\ B \in Int /\ f \in Int /\ Out[2] \in Int /\ MinBeats(msgs) \in Int
            /\ B >= MinBeats(msgs) /\ t \in Int
        BY <1>1, <1>4, <1>6, <2>6, <2>9
      <4> HIDE DEF s, f, B, D, t
      <4>4. D + 1 >= t + MinBeats(msgs)
        <5>1. \A d, b, c, o, m, u \in Int :
                d >= u + b + c - o /\ o <= c /\ b >= m => d + 1 >= u + m
          OBVIOUS
        <5>2. D >= t + B + f - Out[2] /\ Out[2] <= f
          BY <2>9, <4>2 DEF t
        <5> QED
          BY <4>3, <5>1, <5>2
      <4> QED
        BY <4>4 DEF t
    <3>2. CASE Out[1] = Read + 1
      <4>1. Newest - Out[1] - 1 = L - 1
        BY <1>1, <1>3, <3>2
      <4>2. s = (L - 1) * MinBeats(msgs) /\ L - 1 \in Int
        BY <1>1, <4>1
      <4>3. ((L - 1) + 1) * MinBeats(msgs) = (L - 1) * MinBeats(msgs) + MinBeats(msgs)
        BY <1>6, <4>2, OneMore, Zenon
      <4>4. s + MinBeats(msgs) = MinBeats(msgs) * L
        BY <1>1, <1>6, <4>2, <4>3
      <4>5. Out[2] = 1
        BY <2>1, <3>2
      <4> HIDE DEF s, f, B
      <4> QED
        BY <1>1, <1>4, <1>6, <2>6, <2>9, <4>4, <4>5
    <3> QED
      BY <2>1, <3>1, <3>2
  <2>11. MinBeats(msgs) > 0
    BY <1>5, <1>6
  <2> QED
    <3> SUFFICES ASSUME LEN_DEPTH <= L PROVE FALSE
      BY <1>1, <1>5
    <3>1. MinBeats(msgs) * L >= MinBeats(msgs) * LEN_DEPTH
      <4>1. CASE LEN_DEPTH = L
        BY <1>1, <1>6, <4>1
      <4>2. CASE LEN_DEPTH < L
        <5>1. MinBeats(msgs) \in Nat \ {0} /\ LEN_DEPTH \in Int /\ L \in Int
          BY <1>1, <1>5, <1>6, <2>11
        <5>2. MinBeats(msgs) * LEN_DEPTH + MinBeats(msgs) <= MinBeats(msgs) * L
          BY <4>2, <5>1, Mult, Zenon
        <5>3. MinBeats(msgs) * L \in Int /\ MinBeats(msgs) * LEN_DEPTH \in Int
          BY <5>1
        <5> QED
          BY <1>6, <5>2, <5>3
      <4> QED
        BY <1>1, <1>5, <4>1, <4>2
    <3>2. MinBeats(msgs) * L \in Int /\ MinBeats(msgs) * LEN_DEPTH \in Int
      BY <1>1, <1>5, <1>6
    <3> QED
      BY <1>1, <1>5, <1>6, <2>10, <2>11, <3>1, <3>2
<1> QED
  BY <1>1, <1>7, <1>8

(* One beat arrives; with the last one of a message its length.            *)
LEMMA StepRecvData ==
  ASSUME IInv, RecvData, ~lost_length' PROVE IInv' /\ Read' = Read /\ Out' = Out
<1> DEFINE last == rx.pkg <= 64
           beat == [rpc |-> Newest, k |-> rx.sent + 1, last |-> last /\ recv_meta.last_pkg]
           end == last /\ recv_meta.last_pkg
<1>1. /\ recv_data_fifo' = Append(recv_data_fifo, beat)
      /\ rx' = [rx EXCEPT !.pkg = IF last THEN 0 ELSE @ - 64, !.sent = @ + 1]
      /\ state_aw' = IF last THEN "sIdle" ELSE "sWrite"
      /\ recv_length' = IF ~last THEN recv_length
                        ELSE IF recv_meta.last_pkg THEN 0 ELSE recv_length + recv_meta.length
      /\ msg_length_fifo' = IF end THEN Pushed(msg_length_fifo, recv_length + recv_meta.length)
                            ELSE msg_length_fifo
      /\ end => lost_length' = (lost_length \/ LengthsFull)
      /\ msgs' = msgs /\ recv_meta' = recv_meta /\ state_r' = state_r /\ r_length' = r_length
      /\ meta_fifo' = meta_fifo /\ data_fifo' = data_fifo
      /\ Len(recv_data_fifo) < RX_DEPTH
  BY DEF RecvData, DataReady, Newest, SumReset, MessageLength, reader, out
<1>2. /\ beat \in RawBeats /\ Right(beat, msgs) /\ Key[beat] = In /\ Busy
      /\ Newest \in 1..Len(msgs) /\ rx.pkg >= 64 /\ rx.pkg % 64 = 0
      /\ (last => rx.pkg = 64)
      /\ (end <=> rx.msg = 0 /\ rx.pkg = 64)
  BY BeatServed
<1>3. /\ msgs \in Seq(MsgLens) /\ recv_data_fifo \in Seq(RawBeats) /\ msg_length_fifo \in Seq(MsgLens)
      /\ rx \in [msg: Nat, pkg: Nat, sent: Nat] /\ Len(recv_data_fifo) \in Nat
      /\ QueueOK(recv_data_fifo, msgs, In) /\ Chain(recv_data_fifo, Key, Succ(msgs), Out, In)
      /\ RX_DEPTH \in Nat /\ LEN_DEPTH \in Nat
  BY NetToMemAssumption DEF IInv, TypeOK, DataOK
<1>4. /\ rx' \in [msg: Nat, pkg: Nat, sent: Nat] /\ rx'.msg = rx.msg /\ rx'.sent = rx.sent + 1
      /\ rx'.pkg = (IF last THEN 0 ELSE rx.pkg - 64)
  <2>1. rx.pkg \in Nat /\ rx.sent \in Nat /\ (~last => rx.pkg - 64 \in Nat)
    BY <1>2, <1>3
  <2>2. CASE last
    <3>1. rx' = [rx EXCEPT !.pkg = 0, !.sent = @ + 1]
      BY <1>1, <2>2
    <3>2. rx \in [msg: Nat, pkg: Nat, sent: Nat]
      BY <1>3
    <3>3. rx'.msg = rx.msg /\ rx'.sent = rx.sent + 1 /\ rx'.pkg = 0
      BY <3>1, <3>2
    <3>4. rx' = [msg |-> rx.msg, pkg |-> 0, sent |-> rx.sent + 1]
      BY <3>1, <3>2
    <3>5. rx.msg \in Nat /\ rx.sent + 1 \in Nat /\ 0 \in Nat
      BY <2>1, <2>2, <3>2
    <3>6. rx' \in [msg: Nat, pkg: Nat, sent: Nat]
      BY <3>4, <3>5
    <3> QED
      BY <2>2, <3>3, <3>6
  <2>3. CASE ~last
    <3>1. rx' = [rx EXCEPT !.pkg = @ - 64, !.sent = @ + 1]
      BY <1>1, <2>3
    <3>2. rx \in [msg: Nat, pkg: Nat, sent: Nat]
      BY <1>3
    <3>3. rx'.msg = rx.msg /\ rx'.sent = rx.sent + 1 /\ rx'.pkg = rx.pkg - 64
      BY <3>1, <3>2
    <3>4. rx' = [msg |-> rx.msg, pkg |-> rx.pkg - 64, sent |-> rx.sent + 1]
      BY <3>1, <3>2
    <3>5. rx.msg \in Nat /\ rx.sent + 1 \in Nat /\ rx.pkg - 64 \in Nat
      BY <2>1, <2>3, <3>2
    <3>6. rx' \in [msg: Nat, pkg: Nat, sent: Nat]
      BY <3>4, <3>5
    <3> QED
      BY <2>3, <3>3, <3>6
  <2> QED
    BY <2>2, <2>3
<1>5. /\ rx.msg \in Nat /\ rx.pkg \in Nat /\ rx.sent \in Nat /\ Newest \in Nat
      /\ recv_length \in Nat /\ recv_meta.length \in Nat /\ recv_meta.last_pkg \in BOOLEAN
  BY Typed
<1>6. /\ (recv_meta.last_pkg <=> rx.msg = 0) /\ rx.pkg <= recv_meta.length
      /\ rx.msg + rx.pkg + 64 * rx.sent = msgs[Newest]
      /\ rx.msg + recv_length + recv_meta.length = msgs[Newest]
      /\ rx.msg % 64 = 0
  BY <1>2, <1>5 DEF IInv, WriterOK
<1>7. beat.rpc = Newest /\ beat.k = rx.sent + 1 /\ beat.last = end
  OBVIOUS
<1> HIDE DEF beat
<1>8. Busy' <=> ~end
  <2>1. CASE last
    <3>1. rx'.msg = rx.msg /\ rx'.pkg = 0
      BY <1>4, <2>1
    <3>2. Busy' <=> rx.msg + 0 > 0
      BY <3>1 DEF Busy
    <3>3. end <=> rx.msg = 0
      BY <1>2, <2>1
    <3> QED
      BY <1>5, <3>2, <3>3
  <2>2. CASE ~last
    BY <1>2, <1>4, <1>5, <2>2 DEF Busy
  <2> QED
    BY <2>1, <2>2
<1>9. Newest' = Newest
  BY <1>1 DEF Newest
<1>10. In' = IF beat.last THEN <<beat.rpc + 1, 1>> ELSE <<beat.rpc, beat.k + 1>>
  BY <1>4, <1>7, <1>8, <1>9 DEF In
<1>11. end => /\ msg_length_fifo' = Append(msg_length_fifo, msgs[Newest])
              /\ Len(msg_length_fifo) < LEN_DEPTH
  <2> SUFFICES ASSUME end PROVE /\ msg_length_fifo' = Append(msg_length_fifo, msgs[Newest])
                                /\ Len(msg_length_fifo) < LEN_DEPTH
    OBVIOUS
  <2>0. ~LengthsFull
    BY <1>1, Zenon
  <2>1. Len(msg_length_fifo) < LEN_DEPTH
    BY <1>3, <2>0, Typed DEF LengthsFull
  <2>2. recv_length + recv_meta.length = msgs[Newest]
    BY <1>2, <1>5, <1>6
  <2> QED
    BY <1>1, <2>1, <2>2 DEF Pushed
<1>12. msgs[Newest] \in MsgLens
  BY <1>2, <1>3
<1>13. /\ end => /\ msg_length_fifo' \in Seq(MsgLens)
                 /\ Len(msg_length_fifo') = Len(msg_length_fifo) + 1
                 /\ \A i \in 1..Len(msg_length_fifo) : msg_length_fifo'[i] = msg_length_fifo[i]
                 /\ msg_length_fifo'[Len(msg_length_fifo) + 1] = msgs[Newest]
       /\ ~end => msg_length_fifo' = msg_length_fifo
  <2>1. CASE end
    <3>1. msg_length_fifo' = Append(msg_length_fifo, msgs[Newest])
      BY <1>11, <2>1
    <3> QED
      BY <1>3, <1>12, <2>1, <3>1, Push
  <2>2. CASE ~end
    BY <1>1, <2>2
  <2> QED
    BY <2>1, <2>2
<1>14. /\ Done = Newest - 1 /\ Done' = (IF end THEN Done + 1 ELSE Done) /\ Read' = Read /\ First' = First
       /\ Done = Read + Len(msg_length_fifo)
  <2>1. Len(msg_length_fifo) \in Nat /\ Read \in Nat /\ Done = Read + Len(msg_length_fifo)
    BY Typed
  <2>2. Done = Newest - 1 /\ Done' = (IF end THEN Newest ELSE Newest - 1)
    BY <1>2, <1>8, <1>9 DEF Done
  <2>3. CASE end
    <3>1. Len(msg_length_fifo') = Len(msg_length_fifo) + 1 /\ Done' = Newest
      BY <1>13, <2>2, <2>3
    <3>2. Read' = Read
      BY <1>5, <2>1, <2>2, <3>1 DEF Read
    <3> QED
      BY <1>1, <1>5, <2>1, <2>2, <2>3, <3>1, <3>2 DEF First
  <2>4. CASE ~end
    BY <1>1, <1>13, <2>1, <2>2, <2>4 DEF Read, First
  <2> QED
    BY <2>3, <2>4
<1>15. /\ recv_data_fifo' \in Seq(RawBeats) /\ Len(recv_data_fifo') = Len(recv_data_fifo) + 1
       /\ \A i \in 1..Len(recv_data_fifo) : recv_data_fifo'[i] = recv_data_fifo[i]
       /\ recv_data_fifo'[Len(recv_data_fifo) + 1] = beat
  BY <1>1, <1>2, <1>3, Push
<1>16. TypeOK'
  <2>1. recv_length' \in Nat
    BY <1>1, <1>5
  <2>2. Len(recv_data_fifo') <= RX_DEPTH
    BY <1>1, <1>3, <1>15
  <2>3. msg_length_fifo' \in Seq(MsgLens) /\ Len(msg_length_fifo') <= LEN_DEPTH
    <3>1. CASE end
      BY <1>3, <1>11, <1>13, <3>1
    <3>2. CASE ~end
      BY <1>13, <3>2 DEF IInv, TypeOK
    <3> QED
      BY <3>1, <3>2
  <2>4. state_aw' \in {"sIdle", "sWrite"}
    BY <1>1
  <2> QED
    BY <1>1, <1>4, <1>15, <2>1, <2>2, <2>3, <2>4 DEF IInv, TypeOK
<1>17. WriterOK'
  <2>1. rx'.msg % 64 = 0 /\ rx'.pkg % 64 = 0 /\ (state_aw' = "sWrite" <=> rx'.pkg > 0)
    <3>1. ~last => rx.pkg - 64 > 0 /\ (rx.pkg - 64) % 64 = 0
      BY <1>2, <1>5
    <3> QED
      BY <1>1, <1>4, <1>6, <3>1
  <2>2. rx'.pkg > 0 => ~last /\ rx'.pkg = rx.pkg - 64
    BY <1>4
  <2>3. rx'.pkg > 0 => (recv_meta'.last_pkg <=> rx'.msg = 0) /\ rx'.pkg <= recv_meta'.length
    <3>1. recv_meta' = recv_meta /\ rx'.msg = rx.msg
      BY <1>1, <1>4
    <3>2. rx.pkg - 64 <= recv_meta.length
      BY <1>5, <1>6
    <3> QED
      BY <1>6, <2>2, <3>1, <3>2
  <2>4. Busy' => Newest' > 0 /\ rx'.msg + rx'.pkg + 64 * rx'.sent = msgs'[Newest']
    <3>1. Newest > 0
      BY <1>2, <1>5
    <3>2. rx'.msg + rx'.pkg + 64 * rx'.sent = msgs[Newest]
      <4>1. rx'.msg = rx.msg /\ rx'.sent = rx.sent + 1 /\ rx'.pkg = rx.pkg - 64
        BY <1>2, <1>4
      <4>2. rx.msg + (rx.pkg - 64) + 64 * (rx.sent + 1) = rx.msg + rx.pkg + 64 * rx.sent
        BY <1>5
      <4> QED
        BY <1>6, <4>1, <4>2
    <3> QED
      BY <1>1, <1>9, <3>1, <3>2
  <2>5. Busy' => rx'.msg + recv_length' + (IF rx'.pkg > 0 THEN recv_meta'.length ELSE 0) = msgs'[Newest']
    <3> SUFFICES ASSUME ~end
                 PROVE  rx.msg + recv_length' + (IF rx'.pkg > 0 THEN recv_meta.length ELSE 0) = msgs[Newest]
      BY <1>1, <1>4, <1>8, <1>9
    <3>1. CASE last
      <4>1. rx'.pkg = 0 /\ recv_length' = recv_length + recv_meta.length
        BY <1>1, <1>4, <3>1
      <4>2. rx.msg + (recv_length + recv_meta.length) + 0 = msgs[Newest]
        BY <1>5, <1>6
      <4> QED
        BY <4>1, <4>2
    <3>2. CASE ~last
      <4>1. rx'.pkg = rx.pkg - 64 /\ recv_length' = recv_length
        BY <1>1, <1>4, <3>2
      <4>2. rx.pkg - 64 > 0
        BY <1>5, <3>2
      <4> QED
        BY <1>6, <4>1, <4>2
    <3> QED
      BY <3>1, <3>2
  <2>6. ~Busy' => recv_length' = 0
    BY <1>1, <1>8
  <2> QED
    BY <2>1, <2>3, <2>4, <2>5, <2>6 DEF WriterOK
<1>18. ReaderOK'
  <2>1. ASSUME NEW i \in 1..Len(msg_length_fifo') PROVE msg_length_fifo'[i] = msgs'[Read' + i]
    <3>1. Len(msg_length_fifo) \in Nat /\ Read \in Nat
      BY Typed
    <3>2. CASE i \in 1..Len(msg_length_fifo)
      BY <1>1, <1>13, <1>14, <3>2 DEF IInv, ReaderOK
    <3>3. CASE i \notin 1..Len(msg_length_fifo)
      <4>1. end /\ i = Len(msg_length_fifo) + 1
        BY <1>13, <3>1, <3>3
      <4>2. Read + i = Newest
        BY <1>5, <1>14, <3>1, <4>1
      <4> QED
        BY <1>1, <1>13, <1>14, <4>1, <4>2
    <3> QED
      BY <3>2, <3>3
  <2> QED
    BY <1>1, <1>14, <2>1 DEF IInv, ReaderOK
<1>19. Out' = Out
  BY <1>1, <1>14 DEF Out
<1>20. EndsOK'
  <2> SUFFICES ASSUME NEW n \in First'..Done'
               PROVE  \E i \in 1..Len(recv_data_fifo') : recv_data_fifo'[i].rpc = n /\ recv_data_fifo'[i].last
    BY DEF EndsOK
  <2>1. First \in Nat /\ Done \in Nat
    BY Typed
  <2>2. CASE n \in First..Done
    <3>1. PICK i \in 1..Len(recv_data_fifo) : recv_data_fifo[i].rpc = n /\ recv_data_fifo[i].last
      BY <2>2 DEF IInv, DataOK, EndsOK
    <3>2. i \in 1..Len(recv_data_fifo') /\ recv_data_fifo'[i] = recv_data_fifo[i]
      BY <1>3, <1>15
    <3> QED
      BY <3>1, <3>2
  <2>3. CASE n \notin First..Done
    <3>1. end /\ n = Newest
      BY <1>5, <1>14, <2>1, <2>3
    <3>2. Len(recv_data_fifo) + 1 \in 1..Len(recv_data_fifo')
      BY <1>3, <1>15
    <3> QED
      BY <1>7, <1>15, <3>1, <3>2
  <2> QED
    BY <2>2, <2>3
<1>21. DataOK'
  <2>1. QueueOK(recv_data_fifo', msgs, In')
    BY <1>1, <1>2, <1>3, <1>10, QueuePush
  <2>2. Succ(msgs)[In] = In'
    <3> DEFINE c == Key[beat]
    <3>1. c[1] = beat.rpc /\ c[2] = beat.k /\ c \in Places
      <4>1. c = <<beat.rpc, beat.k>> /\ beat.rpc \in Nat /\ beat.k \in Nat
        BY <1>2, KeyFacts
      <4> QED
        BY <4>1 DEF Places
    <3>2. beat.last <=> beat.k = BeatsOf(msgs, beat.rpc)
      BY <1>2 DEF Right
    <3> HIDE DEF c
    <3>3. Succ(msgs)[c] = IF c[2] = BeatsOf(msgs, c[1]) THEN <<c[1] + 1, 1>> ELSE <<c[1], c[2] + 1>>
      BY <3>1 DEF Succ
    <3>4. Succ(msgs)[c] = In'
      BY <1>10, <3>1, <3>2, <3>3
    <3> QED
      BY <1>2, <3>4 DEF c
  <2>3. Chain(recv_data_fifo', Key, Succ(msgs), Out, In')
    <3>1. Chain(Append(recv_data_fifo, beat), Key, Succ(msgs), Out, Succ(msgs)[In])
      <4>1. /\ recv_data_fifo \in Seq(RawBeats) /\ beat \in RawBeats /\ Key[beat] = In
            /\ Chain(recv_data_fifo, Key, Succ(msgs), Out, In)
        BY <1>2, <1>3
      <4> QED
        BY <4>1, ChainPush, Zenon
    <3> QED
      BY <1>1, <2>2, <3>1
  <2> QED
    BY <1>1, <1>19, <1>20, <2>1, <2>3 DEF DataOK
<1>22. SentOK'
  BY <1>1 DEF IInv, SentOK
<1> QED
  BY <1>14, <1>16, <1>17, <1>18, <1>19, <1>21, <1>22 DEF IInv

-----------------------------------------------------------------------------
LEMMA StepSendMeta ==
  ASSUME IInv, SendMeta
  PROVE  /\ IInv' /\ Read' = Read /\ Out' = Succ(msgs)[Out]
         /\ data_fifo' = Append(data_fifo, Head(recv_data_fifo))
<1>1. state_r # "sIdle" /\ Forward /\ meta_fifo' = Append(meta_fifo, Head(recv_data_fifo).rpc)
      /\ recv_data_fifo # <<>>
  BY DEF SendMeta, Forward
<1>2. Head(recv_data_fifo).rpc \in 1..MaxMsg /\ meta_fifo \in Seq(1..MaxMsg)
  BY <1>1, HeadServed DEF IInv, TypeOK, RawBeats
<1>3. meta_fifo' \in Seq(1..MaxMsg)
  BY <1>1, <1>2, Push
<1> QED
  BY <1>1, <1>3, StepForward

LEMMA StepSendData ==
  ASSUME IInv, SendData
  PROVE  /\ IInv' /\ Read' = Read /\ Out' = Succ(msgs)[Out]
         /\ data_fifo' = Append(data_fifo, Head(recv_data_fifo))
<1>1. state_r # "sIdle" /\ Forward /\ meta_fifo' \in Seq(1..MaxMsg)
  BY DEF SendData, IInv, TypeOK
<1> QED
  BY <1>1, StepForward

(* What the component behind takes is of no concern to the two queues.     *)
LEMMA StepTake ==
  ASSUME IInv, TakeMeta \/ TakeData \/ UNCHANGED vars PROVE IInv' /\ Read' = Read /\ Out' = Out
<1>1. /\ msgs' = msgs /\ rx' = rx /\ recv_meta' = recv_meta /\ recv_length' = recv_length
      /\ state_aw' = state_aw /\ recv_data_fifo' = recv_data_fifo /\ msg_length_fifo' = msg_length_fifo
      /\ state_r' = state_r /\ r_length' = r_length
  BY DEF TakeMeta, TakeData, vars, writer, reader
<1>2. Busy' = Busy /\ Newest' = Newest /\ Done' = Done /\ Read' = Read /\ First' = First
      /\ In' = In /\ Out' = Out
  BY <1>1 DEF Busy, Newest, Done, Read, First, In, Out
<1>3. WriterOK' /\ ReaderOK' /\ DataOK'
  BY <1>1, <1>2 DEF IInv, WriterOK, ReaderOK, DataOK, EndsOK
<1>4. meta_fifo' \in Seq(1..MaxMsg)
  <2>1. meta_fifo \in Seq(1..MaxMsg)
    BY DEF IInv, TypeOK
  <2>2. meta_fifo' = meta_fifo \/ (meta_fifo # <<>> /\ meta_fifo' = Tail(meta_fifo))
    BY DEF TakeMeta, TakeData, vars, out
  <2> QED
    BY <2>1, <2>2, Pop
<1>5. data_fifo' \in Seq(RawBeats) /\ SentOK'
  <2>1. data_fifo \in Seq(RawBeats) /\ \A i \in 1..Len(data_fifo) : Right(data_fifo[i], msgs)
    BY DEF IInv, TypeOK, SentOK
  <2>2. CASE data_fifo' = data_fifo
    BY <1>1, <2>1, <2>2 DEF SentOK
  <2>3. CASE data_fifo # <<>> /\ data_fifo' = Tail(data_fifo)
    <3>1. /\ Tail(data_fifo) \in Seq(RawBeats) /\ Len(data_fifo) \in Nat
          /\ Len(Tail(data_fifo)) = Len(data_fifo) - 1
          /\ \A i \in 1..Len(Tail(data_fifo)) : Tail(data_fifo)[i] = data_fifo[i + 1]
      BY <2>1, <2>3, Pop
    <3>2. ASSUME NEW i \in 1..Len(Tail(data_fifo)) PROVE Right(Tail(data_fifo)[i], msgs)
      <4>1. i + 1 \in 1..Len(data_fifo)
        BY <3>1
      <4> QED
        BY <2>1, <3>1, <4>1
    <3> QED
      BY <1>1, <2>3, <3>1, <3>2 DEF SentOK
  <2> QED
    BY <2>2, <2>3 DEF TakeMeta, TakeData, vars, out
<1>6. TypeOK'
  BY <1>1, <1>4, <1>5 DEF IInv, TypeOK
<1> QED
  BY <1>2, <1>3, <1>5, <1>6 DEF IInv

(* Once a length is lost, it stays so; only RecvData loses one.            *)
LEMMA LossStays == ASSUME [Next]_vars PROVE lost_length => lost_length'
  BY DEF Next, vars, RecvMeta, RecvData, ReadLength, SendMeta, SendData, Forward, TakeMeta, TakeData

(* While no length has been lost, the invariant of the two queues holds at *)
(* every step, in whatever order writer, reader and the component behind   *)
(* move (NetToMem.scala 76-144).                                           *)
Sound == ~lost_length => IInv

THEOREM QueuesInStep == Spec => []Sound
<1>1. ASSUME Sound, [Next]_vars PROVE Sound'
  <2> SUFFICES ASSUME ~lost_length' PROVE IInv'
    BY DEF Sound
  <2>1. IInv
    BY <1>1, LossStays DEF Sound
  <2> QED
    BY <1>1, <2>1, StepRecvMeta, StepRecvData, StepReadLength, StepSendMeta, StepSendData, StepTake
    DEF Next
<1>2. Init => Sound
  BY NetInit DEF Sound
<1> QED
  BY <1>1, <1>2, PTL DEF Spec

(* LengthLostOnlyShort for every instance and without an assumption on the *)
(* lengths: while every message that has come has at least RX_DEPTH beats  *)
(* per LEN_DEPTH, the push into msg_length_fifo, which does not look at    *)
(* ready, finds room, because recv_data_fifo is full first                 *)
(* (NetToMem.scala 75, 93-97).                                             *)
THEOREM LossOnlyShort == Spec => []LengthLostOnlyShort
<1> DEFINE Inv == msgs \in Seq(MsgLens) /\ LengthLostOnlyShort
<1>1. Init => Inv
  BY DEF Init, LengthLostOnlyShort
<1>2. ASSUME Sound, Inv, [Next]_vars PROVE Inv'
  <2>1. CASE RecvMeta
    <3>1. lost_length' = lost_length
      BY <2>1 DEF RecvMeta
    <3>2. CASE msgs' = msgs
      BY <1>2, <3>1, <3>2 DEF LengthLostOnlyShort
    <3>3. CASE \E len \in MsgLens : msgs' = Append(msgs, len)
      <4>1. PICK len \in MsgLens : msgs' = Append(msgs, len)
        BY <3>3
      <4>2. /\ msgs' \in Seq(MsgLens)
            /\ \A n \in 1..Len(msgs) : n \in 1..Len(msgs') /\ msgs'[n] = msgs[n]
        BY <1>2, <4>1, Push
      <4>3. LengthLostOnlyShort'
        BY <1>2, <3>1, <4>2 DEF LengthLostOnlyShort
      <4> QED
        BY <4>2, <4>3
    <3> QED
      BY <2>1, <3>2, <3>3 DEF RecvMeta
  <2>2. CASE RecvData
    <3>1. msgs' = msgs
      BY <2>2 DEF RecvData
    <3>2. CASE ~lost_length'
      BY <1>2, <3>1, <3>2 DEF LengthLostOnlyShort
    <3>3. CASE lost_length' /\ lost_length
      BY <1>2, <3>1, <3>3 DEF LengthLostOnlyShort
    <3>4. CASE lost_length' /\ ~lost_length
      <4>1. rx.pkg <= 64 /\ recv_meta.last_pkg /\ LengthsFull
        BY <2>2, <3>4, Zenon DEF RecvData
      <4>2. IInv
        BY <1>2, <3>4 DEF Sound
      <4>3. rx.msg = 0 /\ rx.pkg = 64
        BY <2>2, <4>1, <4>2, BeatServed
      <4>4. Len(msg_length_fifo) \in Nat /\ LEN_DEPTH \in Nat
        BY <4>2, Typed, NetToMemAssumption
      <4>5. ~AllLong(msgs)
        BY <2>2, <4>1, <4>2, <4>3, <4>4, RoomForLength DEF LengthsFull
      <4> QED
        BY <1>2, <3>1, <4>5 DEF LengthLostOnlyShort, AllLong
    <3> QED
      BY <3>2, <3>3, <3>4
  <2>3. CASE ~RecvMeta /\ ~RecvData
    <3>1. msgs' = msgs /\ lost_length' = lost_length
      BY <1>2, <2>3 DEF Next, vars, ReadLength, SendMeta, SendData, Forward, TakeMeta, TakeData
    <3> QED
      BY <1>2, <3>1 DEF LengthLostOnlyShort
  <2> QED
    BY <2>1, <2>2, <2>3
<1> QED
  BY <1>1, <1>2, QueuesInStep, PTL DEF Spec

(* OutputFramed for every instance: the reader takes a meta only from the  *)
(* first beat of a message and marks exactly the last beat of each,        *)
(* however the messages were cut into packages and however the two sides   *)
(* interleave, until a length is lost (NetToMem.scala 112-144).            *)
THEOREM OutputAlwaysFramed == Spec => []OutputFramed
<1>1. ASSUME IInv PROVE OutputFramed
  <2>1. ASSUME state_r = "sSendMeta", recv_data_fifo # <<>> PROVE Head(recv_data_fifo).k = 1
    <3> DEFINE k == Head(recv_data_fifo).k
               B == BeatsOf(msgs, Read)
    <3>1. r_length = 64 * (B + 1 - k) /\ k \in 1..B /\ Read \in 1..Newest
      BY <1>1, <2>1, HeadServed
    <3>2. r_length = msgs[Read] /\ msgs \in Seq(MsgLens)
      BY <1>1, <2>1 DEF IInv, ReaderOK, TypeOK
    <3>3. msgs[Read] = 64 * B /\ B \in Nat
      BY <3>1, <3>2, BeatsFacts DEF Newest
    <3> HIDE DEF k, B
    <3>4. k = 1
      BY <3>1, <3>2, <3>3
    <3> QED
      BY <3>4 DEF k
  <2>2. \A i \in 1..Len(data_fifo) : data_fifo[i].last <=> data_fifo[i].k = Beats(msgs[data_fifo[i].rpc])
    BY <1>1 DEF IInv, SentOK, Right, BeatsOf
  <2> QED
    BY <2>1, <2>2 DEF OutputFramed
<1>2. Sound => OutputFramed
  BY <1>1 DEF Sound, OutputFramed
<1> QED
  BY QueuesInStep, <1>2, PTL

(* LengthsMatchData for every instance: writer and reader agree on the     *)
(* messages in the data queue and on what is left of the one being served, *)
(* as long as the push into msg_length_fifo, which does not look at ready, *)
(* has lost none (NetToMem.scala 85-103, 105-144).                         *)
THEOREM LengthsInStep == Spec => []LengthsMatchData
<1>1. ASSUME IInv PROVE LengthsMatchData
  <2> DEFINE q == recv_data_fifo
             ends == {i \in 1..Len(q) : q[i].last}
             held == (IF state_r = "sIdle" THEN Read + 1 ELSE Read)..Done
  <2>1. /\ q \in Seq(RawBeats) /\ msgs \in Seq(MsgLens) /\ QueueOK(q, msgs, In)
        /\ Chain(q, Key, Succ(msgs), Out, In) /\ EndsOK
    BY <1>1 DEF IInv, TypeOK, DataOK
  <2>2. held = First..Done
    BY DEF First
  <2>3. ASSUME NEW i \in ends PROVE q[i].rpc \in First..Done
    <3>1. i \in 1..Len(q) /\ q[i] \in RawBeats /\ q[i].last
      BY <2>1, <2>3
    <3>2. Right(q[i], msgs) /\ Before(Key[q[i]], In)
      BY <2>1, <3>1 DEF QueueOK
    <3>3. /\ q[i].rpc \in 1..Newest /\ q[i].k = BeatsOf(msgs, q[i].rpc) /\ q[i].k \in Nat
      BY <3>1, <3>2, KeyFacts DEF Right, Newest
    <3>4. q[i].rpc <= Done
      <4>1. CASE ~Busy
        <5>1. Done = Newest /\ Newest \in Nat
          BY <1>1, <4>1, Typed DEF Done
        <5>2. q[i].rpc <= Newest
          BY <3>3, <5>1, Between, Zenon
        <5> QED
          BY <5>1, <5>2, Zenon
      <4>2. CASE Busy
        <5>1. In = <<Newest, rx.sent + 1>> /\ Done = Newest - 1
          BY <4>2 DEF In, Done
        <5>2. Newest \in 1..Len(msgs) /\ rx.msg + rx.pkg + 64 * rx.sent = msgs[Newest]
          BY <1>1, <4>2, Typed DEF IInv, WriterOK, Newest
        <5>3. msgs[Newest] = 64 * BeatsOf(msgs, Newest) /\ BeatsOf(msgs, Newest) \in Nat
          BY <2>1, <5>2, BeatsFacts
        <5>4. rx.msg \in Nat /\ rx.pkg \in Nat /\ rx.sent \in Nat /\ rx.msg + rx.pkg > 0
          BY <1>1, <4>2, Typed DEF Busy
        <5>5. rx.sent + 1 <= BeatsOf(msgs, Newest)
          <6>1. \A m, p, t, b \in Nat : m + p > 0 /\ m + p + 64 * t = 64 * b => t + 1 <= b
            OBVIOUS
          <6> QED
            BY <5>2, <5>3, <5>4, <6>1
        <5>6. q[i].rpc < Newest \/ (q[i].rpc = Newest /\ q[i].k < rx.sent + 1)
          BY <3>1, <3>2, <5>1, KeyFacts DEF Before
        <5>7. q[i].rpc # Newest
          <6> SUFFICES ASSUME q[i].rpc = Newest PROVE FALSE
            OBVIOUS
          <6>1. q[i].k = BeatsOf(msgs, Newest)
            BY <3>3
          <6>2. Newest \in Nat /\ ~(Newest < Newest)
            BY <1>1, Typed
          <6>3. q[i].k < rx.sent + 1
            BY <5>6, <6>2
          <6>4. \A s, b \in Nat : s + 1 <= b => ~(b < s + 1)
            OBVIOUS
          <6> QED
            BY <5>3, <5>4, <5>5, <6>1, <6>3, <6>4, Zenon
        <5> QED
          <6>1. Newest \in Nat
            BY <1>1, Typed
          <6> QED
            BY <3>3, <5>1, <5>7, <6>1
      <4> QED
        BY <4>1, <4>2
    <3>5. First <= q[i].rpc
      <4>1. q # <<>> /\ 1 \in 1..Len(q) /\ q[1] \in RawBeats
        BY <2>1, <3>1
      <4>2. Key[q[1]] = Out /\ Out[1] = First
        BY <2>1, <4>1, ChainHead DEF Out, First
      <4>3. q[1].rpc = First
        BY <4>1, <4>2, KeyFacts
      <4>4. CASE i = 1
        BY <1>1, <4>3, <4>4, Typed
      <4>5. CASE i # 1
        <5>1. Before(Key[q[1]], Key[q[i]])
          BY <2>1, <3>1, <4>1, <4>5 DEF QueueOK
        <5>2. Key[q[1]][1] = First /\ Key[q[i]][1] = q[i].rpc /\ q[i].rpc \in Nat
          BY <3>1, <4>1, <4>3, KeyFacts
        <5>3. First \in Nat
          BY <1>1, Typed
        <5> QED
          BY <5>1, <5>2, <5>3 DEF Before
      <4> QED
        BY <4>4, <4>5
    <3> QED
      BY <1>1, <3>3, <3>4, <3>5, Typed
  <2>4. ASSUME NEW n \in First..Done PROVE \E i \in ends : q[i].rpc = n
    BY <2>1, <2>4 DEF EndsOK
  <2>5. held = {q[i].rpc : i \in ends}
    BY <2>2, <2>3, <2>4
  <2>6. ASSUME state_r # "sIdle"
        PROVE  Head(q).rpc = Read /\ r_length = msgs[Read] - 64 * (Head(q).k - 1)
    <3>1. Read \in First..Done
      BY <1>1, <2>6, Typed DEF First
    <3>2. q # <<>>
      BY <2>1, <2>4, <3>1
    <3> DEFINE k == Head(q).k
               B == BeatsOf(msgs, Read)
    <3>3. Head(q).rpc = Read /\ r_length = 64 * (B + 1 - k) /\ k \in 1..B /\ Read \in 1..Newest
      BY <1>1, <2>6, <3>2, HeadServed
    <3>4. msgs[Read] = 64 * B /\ B \in Nat
      BY <2>1, <3>3, BeatsFacts DEF Newest
    <3> HIDE DEF k, B
    <3>5. r_length = msgs[Read] - 64 * (k - 1)
      BY <3>3, <3>4
    <3> QED
      BY <3>3, <3>5 DEF k
  <2>7. \A i \in 1..Len(msg_length_fifo) : msg_length_fifo[i] = msgs[Read + i]
    BY <1>1 DEF IInv, ReaderOK
  <2> QED
    BY <2>5, <2>6, <2>7 DEF LengthsMatchData, Read, Done, Busy, Newest
<1>2. Sound => LengthsMatchData
  BY <1>1 DEF Sound, LengthsMatchData
<1> QED
  BY QueuesInStep, <1>2, PTL

-----------------------------------------------------------------------------
(* The whole receive side.  Metas up to Emitted have left NetToMem, those  *)
(* up to Taken the queue of SplitDe; Front is the next beat SplitDe sees.  *)
Emitted == IF state_r = "sSendMeta" THEN Read - 1 ELSE Read
Taken   == Emitted - Len(meta_fifo)
Front   == IF data_fifo = <<>> THEN Out ELSE Key[data_fifo[1]]
Moving  == split \in {"sSendData", "sDropData"}

(* The two queues of SplitDe continue the two streams, and their heads     *)
(* belong together; a drop is decided under load.                          *)
DispatchOK ==
  /\ Taken \in Nat
  /\ \A i \in 1..Len(meta_fifo) : meta_fifo[i] = Taken + i
  /\ Chain(data_fifo, Key, Succ(msgs), Front, Out)
  /\ IF Moving THEN Front[1] = Taken ELSE Front = <<Taken + 1, 1>>
  /\ split = "sDropMeta" => Len(meta_fifo) > DROP_LIMIT

LaneStates == {"sIdle", "sDelay", "sSendMeta", "sSendDevice", "sSendHost"}
Metas == [rpc: Nat, host_length: Nat, device_length: Nat]

RegsOK ==
  /\ split \in {"sIdle", "sSendMeta", "sSendData", "sDropMeta", "sDropData"}
  /\ lane \in 0..(ACTIVE - 1) /\ de_idle \subseteq 0..(ACTIVE - 1) /\ dropped \in Seq(Nat)
  /\ lane_meta \in [Lanes -> Seq(Nat)] /\ lane_data \in [Lanes -> Seq(RawBeats)]
  /\ lane_state \in [Lanes -> LaneStates] /\ meta_reg \in [Lanes -> Nat]
  /\ device_length \in [Lanes -> Nat] /\ delay_cnt \in [Lanes -> Nat]
  /\ meta_out \in [Lanes -> Seq(Metas)] /\ device_data_out \in [Lanes -> Seq(RawBeats)]
  /\ host_data_out \in [Lanes -> Seq(Nat)]

(* The places of all beats, of the beats of some messages, and of the last *)
(* n beats of message o.                                                   *)
Elems(q)         == {q[i] : i \in 1..Len(q)}
Cells(ms)        == UNION {{<<r, k>> : k \in 1..BeatsOf(ms, r)} : r \in 1..Len(ms)}
CellsOf(ms, R)   == {c \in Cells(ms) : c[1] \in R}
Rest(ms, o, n)   == {c \in Cells(ms) : c[1] = o /\ c[2] > BeatsOf(ms, o) - n}
Ahead(S, f)      == {c \in S : Before(c, f)}

(* Queue q holds exactly the beats at the places S, in order.              *)
Holds(q, S) ==
  /\ \A i \in 1..Len(q) : Key[q[i]] \in S
  /\ \A c \in S : \E i \in 1..Len(q) : Key[q[i]] = c
  /\ \A i, j \in 1..Len(q) : i < j => Before(Key[q[i]], Key[q[j]])

(* A lane in state st that works on message o, with metas w waiting and    *)
(* metas mo announced: the numbers of its messages grow, none is above T.  *)
Rising(q) == \A i, j \in 1..Len(q) : i < j => q[i] < q[j]
Told(mo)  == [i \in 1..Len(mo) |-> mo[i].rpc]
OrderOK(st, w, o, mo, T) ==
  /\ Rising(w) /\ Rising(Told(mo))
  /\ \A r \in Elems(Told(mo)) : \A s \in Elems(w) : r < s
  /\ Elems(w) \subseteq 1..T /\ Elems(Told(mo)) \subseteq 1..T /\ o \in 0..T
  /\ st \in {"sDelay", "sSendMeta"} =>
       /\ o > 0 /\ \A r \in Elems(Told(mo)) : r < o
       /\ \A s \in Elems(w) : o < s
  /\ st \in {"sSendDevice", "sSendHost"} => Len(mo) > 0 /\ mo[Len(mo)].rpc = o

(* It still has n beats of message o to pass.                              *)
Left(st, dl) == IF st \in {"sIdle", "sSendHost"} THEN 0 ELSE dl \div 64
CountOK(ms, st, o, dl, mo) ==
  /\ st \in {"sDelay", "sSendMeta"} => dl = 64 * BeatsOf(ms, o)
  /\ st = "sSendDevice" => \E n \in 1..BeatsOf(ms, o) : dl = 64 * n
  /\ \A i \in 1..Len(mo) : mo[i].device_length = 64 * BeatsOf(ms, mo[i].rpc)

(* What a lane has still to get or to pass; its queue holds what the       *)
(* dispatcher, which is at place f, has already passed of it.              *)
Owed(ms, w, o, n) == Rest(ms, o, n) \cup CellsOf(ms, Elems(w))
StockOK(ms, w, o, n, q, f) == Holds(q, Ahead(Owed(ms, w, o, n), f))

(* What a lane has put out is what it announced, without what is left.     *)
LogOK(ms, mo, o, n, p) == Holds(p, CellsOf(ms, Elems(Told(mo))) \ Rest(ms, o, n))

(* All of it, for a lane with these registers, queues and outputs, whose   *)
(* headers have cost no beat.                                              *)
Lane(ms, T, f, st, w, o, dl, q, mo, p) ==
  /\ OrderOK(st, w, o, mo, T)
  /\ CountOK(ms, st, o, dl, mo)
  /\ StockOK(ms, w, o, Left(st, dl), q, f)
  /\ LogOK(ms, mo, o, Left(st, dl), p)

(* What holds whatever the headers say: what a lane has put out and what   *)
(* waits in its queue, s, is what the dispatcher, which is at place f, has *)
(* passed of the messages G.                                               *)
StreamOK(ms, G, f, s) == Holds(s, Ahead(CellsOf(ms, G), f))

LaneOK(l) ==
  /\ OrderOK(lane_state[l], lane_meta[l], meta_reg[l], meta_out[l], Taken)
  /\ StreamOK(msgs, Elems(GivenTo(l)), Front, device_data_out[l] \o lane_data[l])
  /\ lane_state[l] = "sIdle" => meta_reg[l] = 0 \/ meta_reg[l] \in Elems(Told(meta_out[l]))
  /\ InStep(l) =>
       Lane(msgs, Taken, Front, lane_state[l], lane_meta[l], meta_reg[l], device_length[l],
            lane_data[l], meta_out[l], device_data_out[l])

(* The headers: each message is longer than its header says, by the header *)
(* and what the last beat leaves unused.                                   *)
HeadersOK ==
  /\ lost_length \in BOOLEAN /\ lens \in Seq(Nat) /\ Len(lens) = Len(msgs)
  /\ \A n \in 1..Len(msgs) : msgs[n] - lens[n] \in 8..71

(* While SplitDe moves the beats of message Taken, the lane it serves and  *)
(* no other was given that message.                                        *)
ServeOK ==
  Moving => \A l \in Lanes : Taken \in Elems(GivenTo(l)) <=> (split = "sSendData" /\ l = lane)

ReceiveInv ==
  IInv /\ HeadersOK /\ RegsOK /\ DispatchOK /\ (\A l \in Lanes : LaneOK(l)) /\ ServeOK

-----------------------------------------------------------------------------
(* Places and their order.                                                 *)
LEMMA CellFacts ==
  ASSUME NEW ms \in Seq(MsgLens), NEW c
  PROVE  c \in Cells(ms) <=>
           c \in Places /\ c[1] \in 1..Len(ms) /\ c[2] \in 1..BeatsOf(ms, c[1])
<1>0. \A r \in 1..Len(ms) : r \in Nat /\ BeatsOf(ms, r) \in Nat
  BY BeatsFacts
<1>1. ASSUME c \in Cells(ms)
      PROVE  c \in Places /\ c[1] \in 1..Len(ms) /\ c[2] \in 1..BeatsOf(ms, c[1])
  <2>1. PICK r \in 1..Len(ms) : \E k \in 1..BeatsOf(ms, r) : c = <<r, k>>
    BY <1>1 DEF Cells
  <2>2. PICK k \in 1..BeatsOf(ms, r) : c = <<r, k>>
    BY <2>1
  <2>3. r \in Nat /\ k \in Nat /\ c[1] = r /\ c[2] = k
    BY <1>0, <2>2
  <2> QED
    BY <2>2, <2>3 DEF Places
<1>2. ASSUME c \in Places, c[1] \in 1..Len(ms), c[2] \in 1..BeatsOf(ms, c[1])
      PROVE  c \in Cells(ms)
  <2>1. c = <<c[1], c[2]>>
    BY <1>2 DEF Places
  <2> QED
    BY <1>2, <2>1 DEF Cells
<1> QED
  BY <1>1, <1>2

LEMMA BeforeFacts ==
  ASSUME NEW c \in Places, NEW d \in Places
  PROVE  /\ ~Before(c, c)
         /\ Before(c, d) => ~Before(d, c)
         /\ c = d \/ Before(c, d) \/ Before(d, c)
<1>1. c[1] \in Nat /\ c[2] \in Nat /\ d[1] \in Nat /\ d[2] \in Nat
      /\ c = <<c[1], c[2]>> /\ d = <<d[1], d[2]>>
  BY DEF Places
<1> QED
  BY <1>1 DEF Before

LEMMA BeforeTrans ==
  ASSUME NEW c \in Places, NEW d \in Places, NEW e \in Places, Before(c, d), Before(d, e)
  PROVE  Before(c, e)
<1>1. c[1] \in Nat /\ c[2] \in Nat /\ d[1] \in Nat /\ d[2] \in Nat /\ e[1] \in Nat /\ e[2] \in Nat
  BY DEF Places
<1> QED
  BY <1>1 DEF Before

LEMMA SuccFacts ==
  ASSUME NEW ms \in Seq(MsgLens), NEW c \in Cells(ms)
  PROVE  /\ Succ(ms)[c] = IF c[2] = BeatsOf(ms, c[1]) THEN <<c[1] + 1, 1>> ELSE <<c[1], c[2] + 1>>
         /\ Succ(ms)[c] \in Places
         /\ \A d \in Cells(ms) : Before(d, Succ(ms)[c]) <=> Before(d, c) \/ d = c
<1>1. c \in Places /\ c[1] \in Nat /\ c[2] \in Nat /\ BeatsOf(ms, c[1]) \in Nat
      /\ c[2] <= BeatsOf(ms, c[1]) /\ c = <<c[1], c[2]>>
  BY CellFacts, BeatsFacts DEF Places
<1> DEFINE B == BeatsOf(ms, c[1])
           s == Succ(ms)[c]
<1>2. s = IF c[2] = B THEN <<c[1] + 1, 1>> ELSE <<c[1], c[2] + 1>>
  BY <1>1 DEF Succ
<1>3. s \in Places
  BY <1>1, <1>2 DEF Places
<1>4. ASSUME NEW d \in Cells(ms) PROVE Before(d, s) <=> Before(d, c) \/ d = c
  <2>1. d[1] \in Nat /\ d[2] \in Nat /\ d[2] <= BeatsOf(ms, d[1]) /\ d = <<d[1], d[2]>>
        /\ BeatsOf(ms, d[1]) \in Nat /\ d[2] > 0
    BY CellFacts, BeatsFacts DEF Places
  <2>2. d[1] = c[1] => d[2] <= B
    BY <2>1
  <2>3. s[1] = (IF c[2] = B THEN c[1] + 1 ELSE c[1]) /\ s[2] = (IF c[2] = B THEN 1 ELSE c[2] + 1)
    BY <1>2
  <2>4. d = c <=> d[1] = c[1] /\ d[2] = c[2]
    BY <1>1, <2>1
  <2> HIDE DEF B, s
  <2>5. c[2] <= B /\ B \in Nat
    BY <1>1 DEF B
  <2> QED
    BY <1>1, <2>1, <2>2, <2>3, <2>4, <2>5 DEF Before
<1> QED
  BY <1>2, <1>3, <1>4

-----------------------------------------------------------------------------
LEMMA HoldsPush ==
  ASSUME NEW q \in Seq(RawBeats), NEW x \in RawBeats, NEW S, Holds(q, S),
         \A c \in S : Before(c, Key[x])
  PROVE  Holds(Append(q, x), S \cup {Key[x]})
<1> DEFINE r == Append(q, x)
<1>1. /\ Len(q) \in Nat /\ Len(r) = Len(q) + 1
      /\ \A i \in 1..Len(q) : r[i] = q[i]
      /\ r[Len(q) + 1] = x
  BY Push
<1> HIDE DEF r
<1>2. \A i \in 1..Len(r) : i \in 1..Len(q) \/ i = Len(q) + 1
  BY <1>1
<1>3. \A i \in 1..Len(q) : i \in 1..Len(r)
  BY <1>1
<1>4. \A i \in 1..Len(r) : Key[r[i]] \in S \cup {Key[x]}
  BY <1>1, <1>2 DEF Holds
<1>5. \A c \in S \cup {Key[x]} : \E i \in 1..Len(r) : Key[r[i]] = c
  <2>1. Len(q) + 1 \in 1..Len(r)
    BY <1>1
  <2> QED
    BY <1>1, <1>3, <2>1 DEF Holds
<1>6. ASSUME NEW i \in 1..Len(r), NEW j \in 1..Len(r), i < j PROVE Before(Key[r[i]], Key[r[j]])
  <2>1. i \in 1..Len(q)
    BY <1>1, <1>6
  <2>2. CASE j \in 1..Len(q)
    BY <1>1, <1>6, <2>1, <2>2 DEF Holds
  <2>3. CASE j = Len(q) + 1
    BY <1>1, <2>1, <2>3 DEF Holds
  <2> QED
    BY <1>2, <2>2, <2>3
<1>7. Holds(r, S \cup {Key[x]})
  BY <1>4, <1>5, <1>6 DEF Holds
<1> QED
  BY <1>7 DEF r

LEMMA HoldsPop ==
  ASSUME NEW q \in Seq(RawBeats), q # <<>>, NEW S, Holds(q, S), S \subseteq Places
  PROVE  /\ Head(q) \in RawBeats /\ Key[Head(q)] \in S
         /\ \A c \in S : c = Key[Head(q)] \/ Before(Key[Head(q)], c)
         /\ Holds(Tail(q), S \ {Key[Head(q)]})
<1> DEFINE r == Tail(q)
<1>1. /\ Len(q) \in Nat /\ Len(q) > 0 /\ Len(r) = Len(q) - 1
      /\ Head(q) \in RawBeats /\ Head(q) = q[1]
      /\ \A i \in 1..Len(r) : r[i] = q[i + 1]
  BY Pop
<1> HIDE DEF r
<1>2. 1 \in 1..Len(q) /\ (\A i \in 1..Len(q) : i = 1 \/ i > 1)
      /\ \A i \in 1..Len(r) : i + 1 \in 1..Len(q) /\ i + 1 > 1
  BY <1>1
<1>3. Key[q[1]] \in S
  BY <1>2 DEF Holds
<1>4. \A c \in S : c = Key[q[1]] \/ Before(Key[q[1]], c)
  BY <1>2 DEF Holds
<1>5. ASSUME NEW i \in 1..Len(r) PROVE Key[r[i]] \in S \ {Key[q[1]]}
  <2>1. i + 1 \in 1..Len(q) /\ i + 1 > 1 /\ r[i] = q[i + 1]
    BY <1>1, <1>2
  <2>2. Key[r[i]] \in S /\ Before(Key[q[1]], Key[r[i]])
    BY <1>2, <2>1 DEF Holds
  <2>3. Key[r[i]] # Key[q[1]]
    BY <1>3, <2>2, BeforeFacts
  <2> QED
    BY <2>2, <2>3
<1>6. ASSUME NEW c \in S \ {Key[q[1]]} PROVE \E i \in 1..Len(r) : Key[r[i]] = c
  <2>1. PICK j \in 1..Len(q) : Key[q[j]] = c
    BY DEF Holds
  <2>2. j # 1
    BY <1>6, <2>1
  <2>3. j - 1 \in 1..Len(r) /\ (j - 1) + 1 = j
    BY <1>1, <2>2
  <2> QED
    BY <1>1, <2>1, <2>3
<1>7. ASSUME NEW i \in 1..Len(r), NEW j \in 1..Len(r), i < j PROVE Before(Key[r[i]], Key[r[j]])
  <2>1. i + 1 \in 1..Len(q) /\ j + 1 \in 1..Len(q) /\ i + 1 < j + 1
    BY <1>1, <1>7
  <2> QED
    BY <1>1, <2>1 DEF Holds
<1>8. Holds(r, S \ {Key[q[1]]})
  BY <1>5, <1>6, <1>7 DEF Holds
<1> QED
  BY <1>1, <1>3, <1>4, <1>8 DEF r

(* Of the beats that the dispatcher has passed, the lane gets the first    *)
(* one it waits for.                                                       *)
LEMMA FirstOwed ==
  ASSUME NEW q \in Seq(RawBeats), q # <<>>, NEW S, S \subseteq Places, NEW f \in Places,
         Holds(q, Ahead(S, f)), NEW d \in S, \A c \in S : c = d \/ Before(d, c)
  PROVE  /\ Head(q) \in RawBeats /\ Key[Head(q)] = d /\ Before(d, f)
         /\ Holds(Tail(q), Ahead(S \ {d}, f))
<1> DEFINE h == Key[Head(q)]
<1>1. Ahead(S, f) \subseteq Places
  BY DEF Ahead
<1>2. /\ Head(q) \in RawBeats /\ h \in Ahead(S, f)
      /\ \A c \in Ahead(S, f) : c = h \/ Before(h, c)
      /\ Holds(Tail(q), Ahead(S, f) \ {h})
  BY <1>1, HoldsPop
<1> HIDE DEF h
<1>3. h \in S /\ h \in Places /\ Before(h, f) /\ d \in Places
  BY <1>2 DEF Ahead
<1>4. Before(d, f)
  BY <1>3, BeforeTrans
<1>5. d = h
  <2>1. d \in Ahead(S, f)
    BY <1>4 DEF Ahead
  <2>2. d = h \/ (Before(h, d) /\ Before(d, h))
    BY <1>2, <1>3, <2>1
  <2> QED
    BY <1>3, <2>2, BeforeFacts
<1>6. Ahead(S, f) \ {h} = Ahead(S \ {d}, f)
  BY <1>5 DEF Ahead
<1> QED
  BY <1>2, <1>4, <1>5, <1>6 DEF h

-----------------------------------------------------------------------------
(* The elements of a queue after a push and after a pop.                   *)
LEMMA ElemsPush ==
  ASSUME NEW T, NEW q \in Seq(T), NEW x \in T
  PROVE  Elems(Append(q, x)) = Elems(q) \cup {x}
<1> DEFINE r == Append(q, x)
<1>1. /\ Len(q) \in Nat /\ Len(r) = Len(q) + 1
      /\ \A i \in 1..Len(q) : r[i] = q[i]
      /\ r[Len(q) + 1] = x
  BY Push
<1> HIDE DEF r
<1>2. \A i \in 1..Len(r) : i \in 1..Len(q) \/ i = Len(q) + 1
  BY <1>1
<1>3. Len(q) + 1 \in 1..Len(r) /\ \A i \in 1..Len(q) : i \in 1..Len(r)
  BY <1>1
<1>4. Elems(r) = Elems(q) \cup {x}
  BY <1>1, <1>2, <1>3 DEF Elems
<1> QED
  BY <1>4 DEF r

LEMMA ElemsPop ==
  ASSUME NEW T, NEW q \in Seq(T), q # <<>>
  PROVE  Elems(q) = Elems(Tail(q)) \cup {Head(q)} /\ Head(q) \in Elems(q)
<1> DEFINE r == Tail(q)
<1>1. /\ Len(q) \in Nat /\ Len(q) > 0 /\ Len(r) = Len(q) - 1
      /\ Head(q) = q[1]
      /\ \A i \in 1..Len(r) : r[i] = q[i + 1]
  BY Pop
<1> HIDE DEF r
<1>2. \A i \in 1..Len(q) : i = 1 \/ (i - 1 \in 1..Len(r) /\ (i - 1) + 1 = i)
  BY <1>1
<1>3. 1 \in 1..Len(q) /\ \A i \in 1..Len(r) : i + 1 \in 1..Len(q)
  BY <1>1
<1>4. ASSUME NEW i \in 1..Len(q) PROVE q[i] \in Elems(r) \cup {q[1]}
  <2>1. CASE i = 1
    BY <2>1
  <2>2. CASE i # 1
    <3>1. i - 1 \in 1..Len(r) /\ r[i - 1] = q[i]
      BY <1>1, <1>2, <2>2
    <3> QED
      BY <3>1 DEF Elems
  <2> QED
    BY <2>1, <2>2
<1>5. Elems(r) \cup {q[1]} \subseteq Elems(q)
  BY <1>1, <1>3 DEF Elems
<1> QED
  BY <1>1, <1>3, <1>4, <1>5 DEF r, Elems

LEMMA RisingPush ==
  ASSUME NEW q \in Seq(Nat), NEW x \in Nat, Rising(q), \A r \in Elems(q) : r < x
  PROVE  Rising(Append(q, x))
<1> DEFINE s == Append(q, x)
<1>1. /\ Len(q) \in Nat /\ Len(s) = Len(q) + 1
      /\ \A i \in 1..Len(q) : s[i] = q[i]
      /\ s[Len(q) + 1] = x
  BY Push
<1> HIDE DEF s
<1>2. ASSUME NEW i \in 1..Len(s), NEW j \in 1..Len(s), i < j PROVE s[i] < s[j]
  <2>1. i \in 1..Len(q) /\ (j \in 1..Len(q) \/ j = Len(q) + 1)
    BY <1>1, <1>2
  <2> QED
    BY <1>1, <1>2, <2>1 DEF Rising, Elems
<1> QED
  BY <1>2 DEF Rising, s

LEMMA RisingPop ==
  ASSUME NEW q \in Seq(Nat), q # <<>>, Rising(q)
  PROVE  Rising(Tail(q)) /\ \A r \in Elems(Tail(q)) : Head(q) < r
<1> DEFINE s == Tail(q)
<1>1. /\ Len(q) \in Nat /\ Len(q) > 0 /\ Len(s) = Len(q) - 1
      /\ Head(q) = q[1]
      /\ \A i \in 1..Len(s) : s[i] = q[i + 1]
  BY Pop
<1> HIDE DEF s
<1>2. 1 \in 1..Len(q) /\ \A i \in 1..Len(s) : i + 1 \in 1..Len(q) /\ 1 < i + 1
  BY <1>1
<1>3. ASSUME NEW i \in 1..Len(s), NEW j \in 1..Len(s), i < j PROVE s[i] < s[j]
  <2>1. i + 1 \in 1..Len(q) /\ j + 1 \in 1..Len(q) /\ i + 1 < j + 1
    BY <1>1, <1>3
  <2> QED
    BY <1>1, <2>1 DEF Rising
<1>4. \A r \in Elems(s) : q[1] < r
  BY <1>1, <1>2 DEF Rising, Elems
<1> QED
  BY <1>1, <1>3, <1>4 DEF Rising, s

(* The last of a rising list is its greatest.                              *)
LEMMA RisingLast ==
  ASSUME NEW q \in Seq(Nat), Len(q) > 0, Rising(q)
  PROVE  /\ q[Len(q)] \in Elems(q) /\ q[Len(q)] \in Nat
         /\ \A r \in Elems(q) : r = q[Len(q)] \/ r < q[Len(q)]
<1>1. Len(q) \in Nat /\ Len(q) \in 1..Len(q) /\ \A i \in 1..Len(q) : i = Len(q) \/ i < Len(q)
  OBVIOUS
<1> QED
  BY <1>1 DEF Rising, Elems

LEMMA ToldFacts ==
  ASSUME NEW mo \in Seq(Metas)
  PROVE  /\ Told(mo) \in Seq(Nat) /\ Len(Told(mo)) = Len(mo)
         /\ \A i \in 1..Len(mo) : Told(mo)[i] = mo[i].rpc
         /\ \A m \in Metas : Told(Append(mo, m)) = Append(Told(mo), m.rpc)
<1>0. \A m \in Metas : m.rpc \in Nat
  BY DEF Metas
<1>1. Len(mo) \in Nat /\ \A i \in 1..Len(mo) : mo[i] \in Metas /\ mo[i].rpc \in Nat
  BY <1>0, EmptyQueue
<1>2. Told(mo) \in Seq(Nat) /\ Len(Told(mo)) = Len(mo) /\ \A i \in 1..Len(mo) : Told(mo)[i] = mo[i].rpc
  BY <1>1 DEF Told
<1>3. ASSUME NEW m \in Metas PROVE Told(Append(mo, m)) = Append(Told(mo), m.rpc)
  <2> DEFINE a == Append(mo, m)
             s == Told(mo)
             b == Append(s, m.rpc)
  <2>1. /\ a \in Seq(Metas) /\ Len(a) = Len(mo) + 1 /\ \A i \in 1..Len(mo) : a[i] = mo[i]
        /\ a[Len(mo) + 1] = m
    BY Push
  <2>2. m.rpc \in Nat /\ s \in Seq(Nat) /\ Len(s) = Len(mo)
    BY <1>2 DEF Metas
  <2>3. /\ b \in Seq(Nat) /\ Len(b) = Len(s) + 1 /\ \A i \in 1..Len(s) : b[i] = s[i]
        /\ b[Len(s) + 1] = m.rpc
    BY <2>2, Push
  <2> HIDE DEF a, b, s
  <2>4. Told(a) = [i \in 1..Len(a) |-> a[i].rpc]
    BY DEF Told
  <2>5. b = [i \in 1..Len(b) |-> b[i]]
    BY <2>3
  <2>6. Len(b) = Len(a)
    BY <2>1, <2>2, <2>3
  <2>7. \A i \in 1..Len(a) : a[i].rpc = b[i]
    <3>1. \A i \in 1..Len(a) : i \in 1..Len(mo) \/ i = Len(mo) + 1
      BY <1>1, <2>1
    <3>2. \A i \in 1..Len(mo) : a[i].rpc = mo[i].rpc /\ b[i] = mo[i].rpc
      BY <1>2, <2>1, <2>2, <2>3 DEF s
    <3> QED
      BY <2>1, <2>2, <2>3, <3>1, <3>2
  <2>8. Told(a) = b
    BY <2>4, <2>5, <2>6, <2>7
  <2> QED
    BY <2>8 DEF a, b, s
<1> QED
  BY <1>2, <1>3

-----------------------------------------------------------------------------
(* The order of a lane's messages: a meta given, taken, announced.         *)
LEMMA OrderGive ==
  ASSUME NEW st, NEW w \in Seq(Nat), NEW o, NEW mo \in Seq(Metas), NEW T \in Nat,
         OrderOK(st, w, o, mo, T)
  PROVE  OrderOK(st, Append(w, T + 1), o, mo, T + 1)
<1>1. Elems(Append(w, T + 1)) = Elems(w) \cup {T + 1}
  BY ElemsPush
<1>2. \A r \in Elems(w) \cup Elems(Told(mo)) : r \in 1..T /\ r < T + 1 /\ r \in 1..(T + 1)
  <2>1. \A r \in 1..T : r < T + 1 /\ r \in 1..(T + 1)
    OBVIOUS
  <2> QED
    BY <2>1 DEF OrderOK
<1>3. Rising(Append(w, T + 1))
  <2>1. T + 1 \in Nat /\ Rising(w) /\ \A r \in Elems(w) : r < T + 1
    BY <1>2 DEF OrderOK
  <2> QED
    BY <2>1, RisingPush
<1>4. T + 1 \in 1..(T + 1) /\ \A x \in 0..T : x \in 0..(T + 1) /\ x < T + 1
  OBVIOUS
<1>5. /\ \A r \in Elems(Told(mo)) : \A s \in Elems(w) \cup {T + 1} : r < s
      /\ Elems(w) \cup {T + 1} \subseteq 1..(T + 1) /\ Elems(Told(mo)) \subseteq 1..(T + 1)
  BY <1>2, <1>4 DEF OrderOK
<1>6. st \in {"sDelay", "sSendMeta"} =>
         /\ o > 0 /\ \A r \in Elems(Told(mo)) : r < o
         /\ \A s \in Elems(w) \cup {T + 1} : o < s
  BY <1>4 DEF OrderOK
<1>7. Rising(Told(mo)) /\ o \in 0..(T + 1)
      /\ (st \in {"sSendDevice", "sSendHost"} => Len(mo) > 0 /\ mo[Len(mo)].rpc = o)
  BY <1>4 DEF OrderOK
<1> QED
  BY <1>1, <1>3, <1>5, <1>6, <1>7 DEF OrderOK

LEMMA OrderGrow ==
  ASSUME NEW st, NEW w, NEW o, NEW mo, NEW T \in Nat, NEW U \in Nat, T <= U,
         OrderOK(st, w, o, mo, T)
  PROVE  OrderOK(st, w, o, mo, U)
<1>1. 1..T \subseteq 1..U /\ 0..T \subseteq 0..U
  OBVIOUS
<1>2. Elems(w) \subseteq 1..U /\ Elems(Told(mo)) \subseteq 1..U /\ o \in 0..U
  BY <1>1 DEF OrderOK
<1> QED
  BY <1>2 DEF OrderOK

LEMMA OrderTake ==
  ASSUME NEW w \in Seq(Nat), w # <<>>, NEW o, NEW mo \in Seq(Metas), NEW T \in Nat,
         OrderOK("sIdle", w, o, mo, T)
  PROVE  OrderOK("sDelay", Tail(w), Head(w), mo, T) /\ Head(w) \in 1..T
<1>1. Elems(w) = Elems(Tail(w)) \cup {Head(w)} /\ Head(w) \in Elems(w)
  BY ElemsPop
<1>2. Rising(Tail(w)) /\ \A r \in Elems(Tail(w)) : Head(w) < r
  BY RisingPop DEF OrderOK
<1>3. Head(w) \in 1..T
  BY <1>1 DEF OrderOK
<1>4. Head(w) \in 0..T /\ Head(w) > 0
  BY <1>3
<1>5. /\ \A r \in Elems(Told(mo)) : r < Head(w) /\ \A s \in Elems(Tail(w)) : r < s
      /\ Elems(Tail(w)) \subseteq 1..T /\ Elems(Told(mo)) \subseteq 1..T /\ Rising(Told(mo))
  BY <1>1 DEF OrderOK
<1>6. OrderOK("sDelay", Tail(w), Head(w), mo, T)
  BY <1>2, <1>4, <1>5 DEF OrderOK
<1> QED
  BY <1>3, <1>6

LEMMA OrderTell ==
  ASSUME NEW w, NEW o, NEW mo \in Seq(Metas), NEW T \in Nat, NEW m \in Metas, m.rpc = o,
         OrderOK("sSendMeta", w, o, mo, T)
  PROVE  OrderOK("sSendDevice", w, o, Append(mo, m), T) /\ o \in 1..T
<1> DEFINE t == Told(mo)
           mo2 == Append(mo, m)
<1>1. t \in Seq(Nat) /\ Told(mo2) = Append(t, o)
  BY ToldFacts
<1>2. o \in Nat /\ o > 0 /\ o \in 0..T /\ Rising(t) /\ \A r \in Elems(t) : r < o
  BY DEF OrderOK
<1>3. o \in 1..T
  BY <1>2
<1>4. Rising(Told(mo2)) /\ Elems(Told(mo2)) = Elems(t) \cup {o}
  BY <1>1, <1>2, RisingPush, ElemsPush
<1>5. Len(mo2) > 0 /\ mo2[Len(mo2)].rpc = o
  <2>1. Len(mo) \in Nat /\ Len(mo2) = Len(mo) + 1 /\ mo2[Len(mo) + 1] = m
    BY Push
  <2>2. Len(mo2) > 0
    BY <2>1
  <2> QED
    BY <2>1, <2>2
<1>6. \A s \in Elems(w) : o < s
  BY DEF OrderOK
<1> HIDE DEF mo2
<1>7. OrderOK("sSendDevice", w, o, mo2, T)
  BY <1>2, <1>3, <1>4, <1>5, <1>6 DEF OrderOK
<1> QED
  BY <1>3, <1>7 DEF mo2

LEMMA OrderNext ==
  ASSUME NEW w, NEW o, NEW mo, NEW T
  PROVE  /\ OrderOK("sDelay", w, o, mo, T) => OrderOK("sSendMeta", w, o, mo, T)
         /\ OrderOK("sSendDevice", w, o, mo, T) => OrderOK("sSendHost", w, o, mo, T)
         /\ OrderOK("sSendHost", w, o, mo, T) => OrderOK("sIdle", w, o, mo, T)
  BY DEF OrderOK

(* The message in work comes before those that wait, and is the last one   *)
(* announced once it is announced.                                         *)
LEMMA InWork ==
  ASSUME NEW st, NEW w, NEW o, NEW mo \in Seq(Metas), NEW T \in Nat,
         OrderOK(st, w, o, mo, T), st \in {"sDelay", "sSendMeta", "sSendDevice", "sSendHost"}
  PROVE  /\ o \in 1..T /\ \A s \in Elems(w) : o < s
         /\ st \in {"sSendDevice", "sSendHost"} =>
              o \in Elems(Told(mo)) /\ \A r \in Elems(Told(mo)) : r = o \/ r < o
<1>1. CASE st \in {"sDelay", "sSendMeta"}
  <2>1. o \in 0..T /\ o > 0 /\ \A s \in Elems(w) : o < s
    BY <1>1 DEF OrderOK
  <2>2. o \in 1..T
    BY <2>1
  <2> QED
    BY <1>1, <2>1, <2>2
<1>2. CASE st \in {"sSendDevice", "sSendHost"}
  <2> DEFINE t == Told(mo)
  <2>1. t \in Seq(Nat) /\ Len(t) = Len(mo) /\ \A i \in 1..Len(mo) : t[i] = mo[i].rpc
    BY ToldFacts
  <2>2. Len(mo) > 0 /\ mo[Len(mo)].rpc = o /\ Rising(t) /\ Elems(t) \subseteq 1..T
        /\ \A r \in Elems(t) : \A s \in Elems(w) : r < s
    BY <1>2 DEF OrderOK
  <2> HIDE DEF t
  <2>3. t[Len(t)] \in Elems(t) /\ \A r \in Elems(t) : r = t[Len(t)] \/ r < t[Len(t)]
    BY <2>1, <2>2, RisingLast
  <2>4. t[Len(t)] = o
    <3>1. Len(mo) \in 1..Len(mo)
      BY <2>1, <2>2
    <3> QED
      BY <2>1, <2>2, <3>1
  <2> QED
    BY <2>2, <2>3, <2>4 DEF t
<1> QED
  BY <1>1, <1>2

-----------------------------------------------------------------------------
(* What a lane has still to pass: nothing of a message that is done, all   *)
(* of one that is not begun, and one beat less with every beat passed.     *)
LEMMA CellsTyped ==
  ASSUME NEW ms \in Seq(MsgLens), NEW w, NEW o, NEW n
  PROVE  Cells(ms) \subseteq Places /\ Owed(ms, w, o, n) \subseteq Cells(ms)
<1>1. Cells(ms) \subseteq Places
  BY CellFacts
<1> QED
  BY <1>1 DEF Owed, Rest, CellsOf

LEMMA RestFacts ==
  ASSUME NEW ms \in Seq(MsgLens), NEW o
  PROVE  Rest(ms, o, 0) = {} /\ Rest(ms, o, BeatsOf(ms, o)) = CellsOf(ms, {o})
<1>1. ASSUME NEW c \in Cells(ms), c[1] = o
      PROVE  ~(c[2] > BeatsOf(ms, o) - 0) /\ c[2] > BeatsOf(ms, o) - BeatsOf(ms, o)
  <2>1. c[1] \in 1..Len(ms) /\ c[2] \in 1..BeatsOf(ms, c[1])
    BY CellFacts
  <2>2. BeatsOf(ms, o) \in Nat /\ c[2] \in 1..BeatsOf(ms, o)
    BY <1>1, <2>1, BeatsFacts
  <2> QED
    BY <2>2
<1> QED
  BY <1>1 DEF Rest, CellsOf

LEMMA RestStep ==
  ASSUME NEW ms \in Seq(MsgLens), NEW o \in 1..Len(ms), NEW n \in 1..BeatsOf(ms, o)
  PROVE  LET d == <<o, BeatsOf(ms, o) - n + 1>> IN
         /\ d \in Rest(ms, o, n) /\ Rest(ms, o, n - 1) = Rest(ms, o, n) \ {d}
         /\ \A c \in Rest(ms, o, n) : c = d \/ Before(d, c)
         /\ \A c \in Cells(ms) : c[1] = o => (c \in Rest(ms, o, n) \/ Before(c, d))
<1> DEFINE B == BeatsOf(ms, o)
           d == <<o, B - n + 1>>
<1>1. B \in Nat /\ o \in Nat /\ n \in 1..B
  BY BeatsFacts
<1>1a. n \in Nat /\ n <= B /\ n > 0
  BY <1>1
<1>2. d \in Places /\ d[1] = o /\ d[2] = B - n + 1 /\ d[2] \in 1..B /\ d[2] > B - n
      /\ ~(d[2] > B - (n - 1))
  <2> HIDE DEF B
  <2>1. B - n + 1 \in Nat /\ B - n + 1 \in 1..B /\ B - n + 1 > B - n /\ ~(B - n + 1 > B - (n - 1))
    BY <1>1, <1>1a
  <2> QED
    BY <1>1, <2>1 DEF Places
<1>3. d \in Cells(ms)
  BY <1>2, CellFacts
<1>4. ASSUME NEW c \in Cells(ms), c[1] = o
      PROVE  /\ c[2] \in Nat /\ c = <<o, c[2]>>
             /\ c[2] > B - n <=> c = d \/ c[2] > B - (n - 1)
             /\ c[2] > B - n => c = d \/ Before(d, c)
             /\ c[2] > B - n \/ Before(c, d)
  <2>1. c \in Places /\ c[2] \in Nat /\ c = <<o, c[2]>>
    <3>1. c \in Places
      BY CellFacts
    <3>2. c = <<c[1], c[2]>> /\ c[2] \in Nat
      BY <3>1 DEF Places
    <3> QED
      BY <1>4, <3>1, <3>2
  <2>2. c = d <=> c[2] = B - n + 1
    BY <2>1
  <2> HIDE DEF d, B
  <2>3. c[2] > B - n <=> c[2] = B - n + 1 \/ c[2] > B - (n - 1)
    BY <1>1, <1>1a, <2>1
  <2>4. c[2] > B - n => c[2] = B - n + 1 \/ B - n + 1 < c[2]
    BY <1>1, <1>1a, <2>1
  <2>5. c[2] > B - n \/ c[2] < B - n + 1
    BY <1>1, <1>1a, <2>1
  <2> QED
    BY <1>2, <1>4, <2>1, <2>2, <2>3, <2>4, <2>5 DEF Before
<1> HIDE DEF d
<1>5. d \in Rest(ms, o, n)
  BY <1>2, <1>3 DEF Rest
<1>6. Rest(ms, o, n - 1) = Rest(ms, o, n) \ {d}
  <2>1. d \notin Rest(ms, o, n - 1)
    BY <1>2 DEF Rest
  <2> QED
    BY <1>4, <2>1 DEF Rest
<1>7. \A c \in Rest(ms, o, n) : c = d \/ Before(d, c)
  BY <1>4 DEF Rest
<1>8. \A c \in Cells(ms) : c[1] = o => (c \in Rest(ms, o, n) \/ Before(c, d))
  BY <1>4 DEF Rest
<1> QED
  BY <1>5, <1>6, <1>7, <1>8 DEF d

(* A lane that takes the next meta owes the same as before.                *)
LEMMA OwedTake ==
  ASSUME NEW ms \in Seq(MsgLens), NEW w \in Seq(Nat), w # <<>>, NEW o
  PROVE  Owed(ms, Tail(w), Head(w), BeatsOf(ms, Head(w))) = Owed(ms, w, o, 0)
<1>1. Elems(w) = Elems(Tail(w)) \cup {Head(w)}
  BY ElemsPop
<1>2. CellsOf(ms, Elems(w)) = CellsOf(ms, Elems(Tail(w))) \cup CellsOf(ms, {Head(w)})
  BY <1>1 DEF CellsOf
<1>3. Rest(ms, o, 0) = {} /\ Rest(ms, Head(w), BeatsOf(ms, Head(w))) = CellsOf(ms, {Head(w)})
  BY RestFacts
<1> QED
  BY <1>2, <1>3 DEF Owed

(* A lane that passes a beat owes it no longer; it was the first it owed.  *)
LEMMA OwedPass ==
  ASSUME NEW ms \in Seq(MsgLens), NEW w, NEW o \in 1..Len(ms), NEW n \in 1..BeatsOf(ms, o),
         \A s \in Elems(w) : o < s
  PROVE  LET d == <<o, BeatsOf(ms, o) - n + 1>> IN
         /\ d \in Owed(ms, w, o, n) /\ Owed(ms, w, o, n - 1) = Owed(ms, w, o, n) \ {d}
         /\ \A c \in Owed(ms, w, o, n) : c = d \/ Before(d, c)
<1> DEFINE d == <<o, BeatsOf(ms, o) - n + 1>>
<1>1. /\ d \in Rest(ms, o, n) /\ Rest(ms, o, n - 1) = Rest(ms, o, n) \ {d}
      /\ \A c \in Rest(ms, o, n) : c = d \/ Before(d, c)
  BY RestStep
<1>2. d[1] = o /\ o \in Nat
  OBVIOUS
<1> HIDE DEF d
<1>3. ASSUME NEW c \in CellsOf(ms, Elems(w)) PROVE c # d /\ Before(d, c)
  <2>1. c[1] \in Elems(w) /\ c[1] \in Nat
    BY CellFacts DEF CellsOf
  <2> QED
    BY <1>2, <2>1 DEF Before
<1> QED
  BY <1>1, <1>3 DEF Owed, d

(* A lane with nothing in work owes first the first beat of the next       *)
(* message.                                                                *)
LEMMA OwedFirst ==
  ASSUME NEW ms \in Seq(MsgLens), NEW w \in Seq(Nat), w # <<>>, NEW o, Rising(w),
         Head(w) \in 1..Len(ms)
  PROVE  /\ <<Head(w), 1>> \in Owed(ms, w, o, 0)
         /\ \A c \in Owed(ms, w, o, 0) : c = <<Head(w), 1>> \/ Before(<<Head(w), 1>>, c)
<1> DEFINE h == Head(w)
           B == BeatsOf(ms, h)
<1>1. B \in Nat /\ B > 0
  BY BeatsFacts
<1>2. \A s \in Elems(Tail(w)) : h < s
  BY RisingPop
<1>3. B - B + 1 = 1 /\ B \in 1..B
  <2> HIDE DEF B
  <2> QED
    BY <1>1
<1>4. Owed(ms, Tail(w), h, B) = Owed(ms, w, o, 0)
  BY OwedTake
<1>5. LET d == <<h, B - B + 1>> IN
      /\ d \in Owed(ms, Tail(w), h, B) /\ Owed(ms, Tail(w), h, B - 1) = Owed(ms, Tail(w), h, B) \ {d}
      /\ \A c \in Owed(ms, Tail(w), h, B) : c = d \/ Before(d, c)
  BY <1>2, <1>3, OwedPass
<1> QED
  BY <1>3, <1>4, <1>5

(* Messages that arrive later do not change what is owed.                  *)
Longer(ms, ns) == Len(ms) <= Len(ns) /\ \A r \in 1..Len(ms) : ns[r] = ms[r]

LEMMA CellsGrow ==
  ASSUME NEW ms \in Seq(MsgLens), NEW ns \in Seq(MsgLens), Longer(ms, ns)
  PROVE  /\ \A R : R \subseteq 1..Len(ms) => CellsOf(ns, R) = CellsOf(ms, R)
         /\ \A o \in 0..Len(ms) : \A n : Rest(ns, o, n) = Rest(ms, o, n)
         /\ \A r \in 1..Len(ms) : BeatsOf(ns, r) = BeatsOf(ms, r)
         /\ \A c \in Cells(ms) : c \in Cells(ns)
<1>1. /\ 1..Len(ms) \subseteq 1..Len(ns)
      /\ \A r \in 1..Len(ms) : BeatsOf(ns, r) = BeatsOf(ms, r)
  BY DEF Longer, BeatsOf
<1>2. ASSUME NEW c, c[1] \in 1..Len(ms) PROVE c \in Cells(ns) <=> c \in Cells(ms)
  BY <1>1, <1>2, CellFacts
<1>3. ASSUME NEW R, R \subseteq 1..Len(ms) PROVE CellsOf(ns, R) = CellsOf(ms, R)
  BY <1>2, <1>3 DEF CellsOf
<1>4. ASSUME NEW o \in 0..Len(ms), NEW n PROVE Rest(ns, o, n) = Rest(ms, o, n)
  <2>1. CASE o = 0
    <3>1. \A c : c \in Cells(ns) \/ c \in Cells(ms) => c[1] # 0
      BY CellFacts
    <3> QED
      BY <2>1, <3>1 DEF Rest
  <2>2. CASE o \in 1..Len(ms)
    BY <1>1, <1>2, <2>2 DEF Rest
  <2> QED
    BY <2>1, <2>2
<1>5. \A c \in Cells(ms) : c \in Cells(ns)
  BY <1>2, CellFacts
<1> QED
  BY <1>1, <1>3, <1>4, <1>5

-----------------------------------------------------------------------------
(* The steps of a lane, one by one.                                        *)
LEMMA LaneTake ==
  ASSUME NEW ms \in Seq(MsgLens), NEW T \in 0..Len(ms), NEW f, NEW w \in Seq(Nat), w # <<>>,
         NEW o, NEW dl, NEW q, NEW mo \in Seq(Metas), NEW p,
         Lane(ms, T, f, "sIdle", w, o, dl, q, mo, p)
  PROVE  LET B == BeatsOf(ms, Head(w)) IN
         /\ Lane(ms, T, f, "sDelay", Tail(w), Head(w), 64 * B, q, mo, p)
         /\ Owed(ms, Tail(w), Head(w), Left("sDelay", 64 * B)) = Owed(ms, w, o, Left("sIdle", dl))
         /\ Head(w) \in 1..T
<1> DEFINE B == BeatsOf(ms, Head(w))
           h == Head(w)
<1>1. /\ OrderOK("sIdle", w, o, mo, T) /\ CountOK(ms, "sIdle", o, dl, mo)
      /\ StockOK(ms, w, o, 0, q, f) /\ LogOK(ms, mo, o, 0, p) /\ Left("sIdle", dl) = 0
  BY DEF Lane, Left
<1>2. OrderOK("sDelay", Tail(w), h, mo, T) /\ h \in 1..T /\ T \in Nat
  BY <1>1, OrderTake
<1>3. B \in Nat /\ h \in 1..Len(ms)
  BY <1>2, BeatsFacts
<1>4. Left("sDelay", 64 * B) = B
  <2> HIDE DEF B
  <2>1. (64 * B) \div 64 = B
    BY <1>3
  <2> QED
    BY <2>1 DEF Left
<1>5. CountOK(ms, "sDelay", h, 64 * B, mo)
  BY <1>1 DEF CountOK
<1>6. Owed(ms, Tail(w), h, B) = Owed(ms, w, o, 0)
  BY OwedTake
<1>7. StockOK(ms, Tail(w), h, B, q, f)
  BY <1>1, <1>6 DEF StockOK
<1>8. LogOK(ms, mo, h, B, p)
  <2>1. Rest(ms, o, 0) = {} /\ Rest(ms, h, B) = CellsOf(ms, {h})
    BY RestFacts
  <2>2. h \in Nat /\ \A r \in Elems(Told(mo)) : r < h
    BY <1>2 DEF OrderOK
  <2>3. h \notin Elems(Told(mo))
    BY <2>2
  <2>4. CellsOf(ms, Elems(Told(mo))) \ Rest(ms, h, B) = CellsOf(ms, Elems(Told(mo))) \ Rest(ms, o, 0)
    BY <2>1, <2>3 DEF CellsOf
  <2> QED
    BY <1>1, <2>4 DEF LogOK
<1> HIDE DEF B, h
<1>9. Lane(ms, T, f, "sDelay", Tail(w), h, 64 * B, q, mo, p)
  BY <1>2, <1>4, <1>5, <1>7, <1>8 DEF Lane
<1> QED
  BY <1>1, <1>2, <1>4, <1>6, <1>9 DEF B, h

LEMMA LaneDelay ==
  ASSUME NEW ms, NEW T, NEW f, NEW w, NEW o, NEW dl, NEW q, NEW mo, NEW p,
         Lane(ms, T, f, "sDelay", w, o, dl, q, mo, p)
  PROVE  Lane(ms, T, f, "sSendMeta", w, o, dl, q, mo, p) /\ Left("sSendMeta", dl) = Left("sDelay", dl)
<1>1. Left("sSendMeta", dl) = Left("sDelay", dl)
  BY DEF Left
<1>2. CountOK(ms, "sSendMeta", o, dl, mo)
  BY DEF Lane, CountOK
<1>3. OrderOK("sSendMeta", w, o, mo, T)
  BY OrderNext DEF Lane
<1> QED
  BY <1>1, <1>2, <1>3 DEF Lane

LEMMA LaneTell ==
  ASSUME NEW ms \in Seq(MsgLens), NEW T \in 0..Len(ms), NEW f, NEW w,
         NEW o \in Nat, NEW dl \in Nat, NEW q, NEW mo \in Seq(Metas), NEW p,
         Lane(ms, T, f, "sSendMeta", w, o, dl, q, mo, p),
         NEW m \in Metas, m.rpc = o, m.device_length = dl
  PROVE  Lane(ms, T, f, "sSendDevice", w, o, dl, q, Append(mo, m), p)
         /\ Left("sSendDevice", dl) = Left("sSendMeta", dl)
<1> DEFINE B == BeatsOf(ms, o)
           mo2 == Append(mo, m)
<1>1. /\ OrderOK("sSendMeta", w, o, mo, T) /\ CountOK(ms, "sSendMeta", o, dl, mo)
      /\ StockOK(ms, w, o, dl \div 64, q, f) /\ LogOK(ms, mo, o, dl \div 64, p)
      /\ Left("sSendDevice", dl) = dl \div 64 /\ Left("sSendMeta", dl) = dl \div 64
  BY DEF Lane, Left
<1>0. T \in Nat
  OBVIOUS
<1>2. OrderOK("sSendDevice", w, o, mo2, T) /\ o \in 1..T
  BY <1>0, <1>1, OrderTell
<1>3. o \in 1..Len(ms)
  BY <1>2
<1>4. B \in Nat /\ B > 0 /\ dl = 64 * B
  BY <1>1, <1>3, BeatsFacts DEF CountOK
<1>5. /\ Len(mo) \in Nat /\ Len(mo2) = Len(mo) + 1 /\ (\A i \in 1..Len(mo) : mo2[i] = mo[i])
      /\ mo2[Len(mo) + 1] = m
  BY Push
<1>6. Told(mo2) = Append(Told(mo), o) /\ Told(mo) \in Seq(Nat)
  BY ToldFacts
<1>7. Elems(Told(mo2)) = Elems(Told(mo)) \cup {o}
  BY <1>6, ElemsPush
<1>8. Rest(ms, o, B) = CellsOf(ms, {o})
  BY RestFacts
<1> HIDE DEF mo2
<1>9. CountOK(ms, "sSendDevice", o, dl, mo2)
  <2>1. \A i \in 1..Len(mo2) : i \in 1..Len(mo) \/ i = Len(mo) + 1
    BY <1>5
  <2>2. \A i \in 1..Len(mo2) : mo2[i].device_length = 64 * BeatsOf(ms, mo2[i].rpc)
    BY <1>1, <1>4, <1>5, <2>1 DEF CountOK
  <2>3. \E n \in 1..B : dl = 64 * n
    <3> HIDE DEF B
    <3> QED
      BY <1>4
  <2> QED
    BY <2>2, <2>3 DEF CountOK
<1>10. dl \div 64 = B
  <2> HIDE DEF B
  <2> QED
    BY <1>4
<1>11. LogOK(ms, mo2, o, B, p)
  <2>1. CellsOf(ms, Elems(Told(mo2))) \ Rest(ms, o, B) = CellsOf(ms, Elems(Told(mo))) \ Rest(ms, o, B)
    BY <1>7, <1>8 DEF CellsOf
  <2> QED
    BY <1>1, <1>10, <2>1 DEF LogOK
<1> HIDE DEF B
<1>12. Lane(ms, T, f, "sSendDevice", w, o, dl, q, mo2, p)
  BY <1>1, <1>2, <1>9, <1>10, <1>11 DEF Lane
<1> QED
  BY <1>1, <1>12 DEF mo2

LEMMA LanePass ==
  ASSUME NEW ms \in Seq(MsgLens), NEW T \in 0..Len(ms), NEW f \in Places, NEW w \in Seq(Nat),
         NEW o \in Nat, NEW dl \in Nat, NEW q \in Seq(RawBeats), q # <<>>,
         NEW mo \in Seq(Metas), NEW p \in Seq(RawBeats),
         Lane(ms, T, f, "sSendDevice", w, o, dl, q, mo, p)
  PROVE  /\ Head(q) \in RawBeats /\ o \in 1..T
         /\ \E n \in 1..BeatsOf(ms, o) :
              /\ dl = 64 * n /\ Left("sSendDevice", dl) = n
              /\ Key[Head(q)] = <<o, BeatsOf(ms, o) - n + 1>> /\ Before(Key[Head(q)], f)
              /\ Owed(ms, w, o, n - 1) = Owed(ms, w, o, n) \ {Key[Head(q)]}
              /\ n = 1 => Lane(ms, T, f, "sSendHost", w, o, dl, Tail(q), mo, Append(p, Head(q)))
              /\ n > 1 => Lane(ms, T, f, "sSendDevice", w, o, dl - 64, Tail(q), mo, Append(p, Head(q)))
<1> DEFINE B == BeatsOf(ms, o)
<1>1. /\ OrderOK("sSendDevice", w, o, mo, T) /\ CountOK(ms, "sSendDevice", o, dl, mo)
      /\ StockOK(ms, w, o, dl \div 64, q, f) /\ LogOK(ms, mo, o, dl \div 64, p)
      /\ Left("sSendDevice", dl) = dl \div 64
  BY DEF Lane, Left
<1>2. T \in Nat
  OBVIOUS
<1>3. /\ o \in 1..T /\ (\A s \in Elems(w) : o < s)
      /\ o \in Elems(Told(mo)) /\ \A r \in Elems(Told(mo)) : r = o \/ r < o
  BY <1>1, <1>2, InWork
<1>4. o \in 1..Len(ms) /\ B \in Nat
  <2>1. o \in 1..Len(ms)
    BY <1>3
  <2> QED
    BY <2>1, BeatsFacts
<1>5. PICK n \in 1..B : dl = 64 * n
  BY <1>1 DEF CountOK
<1> DEFINE d == <<o, B - n + 1>>
           S == Owed(ms, w, o, n)
           C == CellsOf(ms, Elems(Told(mo)))
<1>6. n \in Nat /\ n > 0 /\ n <= B /\ dl \div 64 = n
  <2> HIDE DEF B
  <2> QED
    BY <1>4, <1>5
<1>7. /\ d \in S /\ Owed(ms, w, o, n - 1) = S \ {d}
      /\ \A c \in S : c = d \/ Before(d, c)
  BY <1>3, <1>4, OwedPass
<1>8. S \subseteq Places /\ Cells(ms) \subseteq Places
  BY CellsTyped
<1>9. /\ d \in Rest(ms, o, n) /\ Rest(ms, o, n - 1) = Rest(ms, o, n) \ {d}
      /\ \A c \in Cells(ms) : c[1] = o => (c \in Rest(ms, o, n) \/ Before(c, d))
  BY <1>4, RestStep
<1>10. Holds(q, Ahead(S, f)) /\ Holds(p, C \ Rest(ms, o, n))
  BY <1>1, <1>6 DEF StockOK, LogOK
<1>10a. d[1] = o
  OBVIOUS
<1> HIDE DEF d, S
<1>11. Head(q) \in RawBeats /\ Key[Head(q)] = d /\ Before(d, f) /\ Holds(Tail(q), Ahead(S \ {d}, f))
  BY <1>7, <1>8, <1>10, FirstOwed
<1>12. StockOK(ms, w, o, n - 1, Tail(q), f)
  BY <1>7, <1>11 DEF StockOK, S
<1>13. LogOK(ms, mo, o, n - 1, Append(p, Head(q)))
  <2>1. ASSUME NEW c \in C \ Rest(ms, o, n) PROVE Before(c, d)
    <3>1. c \in Cells(ms) /\ c[1] \in Elems(Told(mo)) /\ c \notin Rest(ms, o, n)
      BY DEF CellsOf
    <3>2. CASE c[1] = o
      BY <1>9, <3>1, <3>2
    <3>3. CASE c[1] < o
      BY <1>10a, <3>3 DEF Before
    <3> QED
      BY <1>3, <3>1, <3>2, <3>3
  <2>2. \A c \in C \ Rest(ms, o, n) : Before(c, Key[Head(q)])
    BY <1>11, <2>1
  <2>3. Holds(Append(p, Head(q)), (C \ Rest(ms, o, n)) \cup {d})
    BY <1>10, <1>11, <2>2, HoldsPush
  <2>4. d \in C
    <3>1. d \in Cells(ms)
      BY <1>9 DEF Rest
    <3> QED
      BY <1>3, <1>10a, <3>1 DEF CellsOf
  <2>5. (C \ Rest(ms, o, n)) \cup {d} = C \ Rest(ms, o, n - 1)
    BY <1>9, <2>4
  <2> QED
    BY <2>3, <2>5 DEF LogOK
<1>14. \A i \in 1..Len(mo) : mo[i].device_length = 64 * BeatsOf(ms, mo[i].rpc)
  BY <1>1 DEF CountOK
<1>15. ASSUME n = 1
       PROVE  Lane(ms, T, f, "sSendHost", w, o, dl, Tail(q), mo, Append(p, Head(q)))
  <2>1. Left("sSendHost", dl) = n - 1
    BY <1>15 DEF Left
  <2>2. CountOK(ms, "sSendHost", o, dl, mo)
    BY <1>14 DEF CountOK
  <2>3. OrderOK("sSendHost", w, o, mo, T)
    BY <1>1, OrderNext
  <2> QED
    BY <1>12, <1>13, <2>1, <2>2, <2>3 DEF Lane
<1>16. ASSUME n > 1
       PROVE  Lane(ms, T, f, "sSendDevice", w, o, dl - 64, Tail(q), mo, Append(p, Head(q)))
  <2>1. dl - 64 = 64 * (n - 1) /\ n - 1 \in 1..B /\ (dl - 64) \div 64 = n - 1
    <3> HIDE DEF B
    <3>1. n - 1 \in 1..B /\ n - 1 \in Nat
      BY <1>4, <1>6, <1>16
    <3>2. dl - 64 = 64 * (n - 1)
      BY <1>5, <1>6
    <3>3. (64 * (n - 1)) \div 64 = n - 1
      BY <3>1
    <3> QED
      BY <3>1, <3>2, <3>3
  <2>2. Left("sSendDevice", dl - 64) = n - 1
    BY <2>1 DEF Left
  <2>3. CountOK(ms, "sSendDevice", o, dl - 64, mo)
    BY <1>14, <2>1 DEF CountOK
  <2> QED
    BY <1>1, <1>12, <1>13, <2>2, <2>3 DEF Lane
<1>17. Owed(ms, w, o, n - 1) = Owed(ms, w, o, n) \ {Key[Head(q)]} /\ Left("sSendDevice", dl) = n
  BY <1>1, <1>6, <1>7, <1>11 DEF S
<1>18. Key[Head(q)] = <<o, B - n + 1>> /\ Before(Key[Head(q)], f)
  BY <1>11 DEF d
<1> QED
  BY <1>3, <1>5, <1>11, <1>15, <1>16, <1>17, <1>18

LEMMA LaneHost ==
  ASSUME NEW ms, NEW T, NEW f, NEW w, NEW o, NEW dl, NEW q, NEW mo, NEW p,
         Lane(ms, T, f, "sSendHost", w, o, dl, q, mo, p)
  PROVE  Lane(ms, T, f, "sIdle", w, o, dl, q, mo, p) /\ Left("sIdle", dl) = Left("sSendHost", dl)
<1>1. Left("sIdle", dl) = Left("sSendHost", dl)
  BY DEF Left
<1>2. CountOK(ms, "sIdle", o, dl, mo)
  BY DEF Lane, CountOK
<1>3. OrderOK("sIdle", w, o, mo, T)
  BY OrderNext DEF Lane
<1> QED
  BY <1>1, <1>2, <1>3 DEF Lane

-----------------------------------------------------------------------------
(* What the dispatcher and the network do to a lane: a new message that    *)
(* arrives, a meta taken for another lane, a meta given, a beat that is    *)
(* not for the lane, a beat that is.                                       *)
LEMMA LaneGrow ==
  ASSUME NEW ms \in Seq(MsgLens), NEW ns \in Seq(MsgLens), Longer(ms, ns),
         NEW T \in 0..Len(ms), NEW U \in Nat, T <= U, NEW f, NEW st, NEW w, NEW o, NEW dl,
         NEW q, NEW mo \in Seq(Metas), NEW p, Lane(ms, T, f, st, w, o, dl, q, mo, p)
  PROVE  /\ Lane(ns, U, f, st, w, o, dl, q, mo, p)
         /\ Owed(ns, w, o, Left(st, dl)) = Owed(ms, w, o, Left(st, dl))
<1> DEFINE n == Left(st, dl)
<1>1. /\ OrderOK(st, w, o, mo, T) /\ CountOK(ms, st, o, dl, mo)
      /\ StockOK(ms, w, o, n, q, f) /\ LogOK(ms, mo, o, n, p)
  BY DEF Lane
<1>2. T \in Nat /\ 1..T \subseteq 1..Len(ms) /\ 0..T \subseteq 0..Len(ms)
  OBVIOUS
<1>3. /\ Elems(w) \subseteq 1..Len(ms) /\ Elems(Told(mo)) \subseteq 1..Len(ms) /\ o \in 0..Len(ms)
      /\ (st \in {"sDelay", "sSendMeta", "sSendDevice"} => o \in 1..Len(ms))
  <2>1. st \in {"sDelay", "sSendMeta", "sSendDevice"} => o \in 1..T
    BY <1>1, <1>2, InWork
  <2> QED
    BY <1>1, <1>2, <2>1 DEF OrderOK
<1>4. OrderOK(st, w, o, mo, U)
  BY <1>1, <1>2, OrderGrow
<1>5. /\ \A R : R \subseteq 1..Len(ms) => CellsOf(ns, R) = CellsOf(ms, R)
      /\ \A r \in 0..Len(ms) : \A k : Rest(ns, r, k) = Rest(ms, r, k)
      /\ \A r \in 1..Len(ms) : BeatsOf(ns, r) = BeatsOf(ms, r)
  BY CellsGrow
<1>6. Owed(ns, w, o, n) = Owed(ms, w, o, n)
  BY <1>3, <1>5 DEF Owed
<1>7. CountOK(ns, st, o, dl, mo)
  <2>1. \A i \in 1..Len(mo) : mo[i].rpc \in 1..Len(ms)
    <3>1. \A i \in 1..Len(mo) : Told(mo)[i] = mo[i].rpc /\ i \in 1..Len(Told(mo))
      BY ToldFacts
    <3> QED
      BY <1>3, <3>1 DEF Elems
  <2> QED
    BY <1>1, <1>3, <1>5, <2>1 DEF CountOK
<1>8. StockOK(ns, w, o, n, q, f)
  BY <1>1, <1>6 DEF StockOK
<1>9. LogOK(ns, mo, o, n, p)
  BY <1>1, <1>3, <1>5 DEF LogOK
<1> QED
  BY <1>4, <1>6, <1>7, <1>8, <1>9 DEF Lane

LEMMA LaneGive ==
  ASSUME NEW ms \in Seq(MsgLens), NEW T \in Nat, T + 1 <= Len(ms), NEW f, f = <<T + 1, 1>>,
         NEW st, NEW w \in Seq(Nat), NEW o, NEW dl, NEW q, NEW mo \in Seq(Metas), NEW p,
         Lane(ms, T, f, st, w, o, dl, q, mo, p)
  PROVE  /\ Lane(ms, T + 1, f, st, Append(w, T + 1), o, dl, q, mo, p)
         /\ f \in Owed(ms, Append(w, T + 1), o, Left(st, dl))
<1> DEFINE n == Left(st, dl)
           v == Append(w, T + 1)
           X == CellsOf(ms, {T + 1})
<1>1. /\ OrderOK(st, w, o, mo, T) /\ CountOK(ms, st, o, dl, mo)
      /\ StockOK(ms, w, o, n, q, f) /\ LogOK(ms, mo, o, n, p)
  BY DEF Lane
<1>2. OrderOK(st, v, o, mo, T + 1)
  BY <1>1, OrderGive
<1>3. Elems(v) = Elems(w) \cup {T + 1}
  BY ElemsPush
<1>4. Owed(ms, v, o, n) = Owed(ms, w, o, n) \cup X
  BY <1>3 DEF Owed, CellsOf
<1>5. ASSUME NEW c \in X PROVE ~Before(c, f)
  <2>1. c[1] = T + 1 /\ c \in Cells(ms)
    BY DEF CellsOf
  <2>2. c[2] \in 1..BeatsOf(ms, T + 1)
    BY <2>1, CellFacts
  <2>3. T + 1 \in 1..Len(ms)
    OBVIOUS
  <2>4. c[2] \in Nat /\ c[2] >= 1
    BY <2>2, <2>3, BeatsFacts
  <2>5. f[1] = T + 1 /\ f[2] = 1
    OBVIOUS
  <2> QED
    BY <2>1, <2>4, <2>5 DEF Before
<1>6. Ahead(Owed(ms, v, o, n), f) = Ahead(Owed(ms, w, o, n), f)
  BY <1>4, <1>5 DEF Ahead
<1>7. StockOK(ms, v, o, n, q, f)
  BY <1>1, <1>6 DEF StockOK
<1>8. f \in X
  <2>1. T + 1 \in 1..Len(ms) /\ T + 1 \in Nat
    OBVIOUS
  <2>2. 1 \in 1..BeatsOf(ms, T + 1)
    BY <2>1, BeatsFacts
  <2>3. f[1] = T + 1 /\ f[2] = 1 /\ f \in Places
    BY <2>1 DEF Places
  <2>4. f \in Cells(ms)
    BY <2>1, <2>2, <2>3, CellFacts
  <2> QED
    BY <2>3, <2>4 DEF CellsOf
<1> HIDE DEF v, X, n
<1>9. Lane(ms, T + 1, f, st, v, o, dl, q, mo, p)
  BY <1>1, <1>2, <1>7 DEF Lane, n
<1>10. f \in Owed(ms, v, o, n)
  BY <1>4, <1>8
<1> QED
  BY <1>9, <1>10 DEF v, n

LEMMA LaneSkip ==
  ASSUME NEW ms \in Seq(MsgLens), NEW T, NEW f \in Cells(ms),
         NEW st, NEW w, NEW o, NEW dl, NEW q, NEW mo, NEW p,
         Lane(ms, T, f, st, w, o, dl, q, mo, p), f \notin Owed(ms, w, o, Left(st, dl))
  PROVE  Lane(ms, T, Succ(ms)[f], st, w, o, dl, q, mo, p)
<1> DEFINE S == Owed(ms, w, o, Left(st, dl))
<1>1. \A d \in Cells(ms) : Before(d, Succ(ms)[f]) <=> Before(d, f) \/ d = f
  BY SuccFacts
<1>2. S \subseteq Cells(ms)
  BY CellsTyped
<1>3. Ahead(S, Succ(ms)[f]) = Ahead(S, f)
  BY <1>1, <1>2 DEF Ahead
<1>4. StockOK(ms, w, o, Left(st, dl), q, Succ(ms)[f])
  BY <1>3 DEF Lane, StockOK
<1> QED
  BY <1>4 DEF Lane

LEMMA LaneBeat ==
  ASSUME NEW ms \in Seq(MsgLens), NEW T, NEW x \in RawBeats, NEW f \in Cells(ms), f = Key[x],
         NEW st, NEW w, NEW o, NEW dl, NEW q \in Seq(RawBeats), NEW mo, NEW p,
         Lane(ms, T, f, st, w, o, dl, q, mo, p), f \in Owed(ms, w, o, Left(st, dl))
  PROVE  Lane(ms, T, Succ(ms)[f], st, w, o, dl, Append(q, x), mo, p)
<1> DEFINE S == Owed(ms, w, o, Left(st, dl))
<1>1. \A d \in Cells(ms) : Before(d, Succ(ms)[f]) <=> Before(d, f) \/ d = f
  BY SuccFacts
<1>2. S \subseteq Cells(ms)
  BY CellsTyped
<1>3. Ahead(S, Succ(ms)[f]) = Ahead(S, f) \cup {f}
  BY <1>1, <1>2 DEF Ahead
<1>4. Holds(q, Ahead(S, f))
  BY DEF Lane, StockOK
<1>5. \A c \in Ahead(S, f) : Before(c, Key[x])
  BY DEF Ahead
<1> HIDE DEF S
<1>6. Holds(Append(q, x), Ahead(S, f) \cup {f})
  BY <1>4, <1>5, HoldsPush
<1>7. StockOK(ms, w, o, Left(st, dl), Append(q, x), Succ(ms)[f])
  BY <1>3, <1>6 DEF StockOK, S
<1> QED
  BY <1>7 DEF Lane

-----------------------------------------------------------------------------
(* What a lane in state st was given: the messages it announced, the one   *)
(* it has in work, and the ones that wait.                                 *)
InHand(st, o)       == IF st \in {"sDelay", "sSendMeta"} THEN <<o>> ELSE <<>>
Given(st, o, w, mo) == Told(mo) \o InHand(st, o) \o w

(* Two sequences joined.                                                   *)
LEMMA Joined ==
  ASSUME NEW S, NEW s \in Seq(S), NEW t \in Seq(S)
  PROVE  /\ s \o t \in Seq(S) /\ Len(s \o t) = Len(s) + Len(t)
         /\ \A i \in 1..Len(s) : (s \o t)[i] = s[i]
         /\ \A i \in 1..Len(t) : (s \o t)[Len(s) + i] = t[i]
  OBVIOUS

LEMMA SameSeq ==
  ASSUME NEW S, NEW s \in Seq(S), NEW t \in Seq(S), Len(s) = Len(t),
         \A i \in 1..Len(s) : s[i] = t[i]
  PROVE  s = t
  OBVIOUS

LEMMA JoinAppend ==
  ASSUME NEW S, NEW s \in Seq(S), NEW t \in Seq(S), NEW x \in S
  PROVE  /\ s \o Append(t, x) = Append(s \o t, x)
         /\ (s \o <<x>>) \o t = s \o (<<x>> \o t)
         /\ s \o <<x>> = Append(s, x)
         /\ s \o <<>> = s /\ <<>> \o s = s
  OBVIOUS

LEMMA JoinHead ==
  ASSUME NEW S, NEW t \in Seq(S), t # <<>>
  PROVE  <<Head(t)>> \o Tail(t) = t
  OBVIOUS

LEMMA JoinElems ==
  ASSUME NEW S, NEW s \in Seq(S), NEW t \in Seq(S)
  PROVE  Elems(s \o t) = Elems(s) \cup Elems(t)
<1> DEFINE u == s \o t
<1>1. /\ u \in Seq(S) /\ Len(u) = Len(s) + Len(t) /\ Len(s) \in Nat /\ Len(t) \in Nat
      /\ \A i \in 1..Len(s) : u[i] = s[i]
      /\ \A i \in 1..Len(t) : u[Len(s) + i] = t[i]
  BY Joined
<1> HIDE DEF u
<1>2. \A i \in 1..Len(u) : i \in 1..Len(s) \/ (i - Len(s) \in 1..Len(t) /\ Len(s) + (i - Len(s)) = i)
  BY <1>1
<1>3. /\ \A i \in 1..Len(s) : i \in 1..Len(u)
      /\ \A i \in 1..Len(t) : Len(s) + i \in 1..Len(u)
  BY <1>1
<1>4. ASSUME NEW i \in 1..Len(u) PROVE u[i] \in Elems(s) \cup Elems(t)
  <2>1. CASE i \in 1..Len(s)
    BY <1>1, <2>1 DEF Elems
  <2>2. CASE i - Len(s) \in 1..Len(t) /\ Len(s) + (i - Len(s)) = i
    <3>1. u[i] = t[i - Len(s)]
      BY <1>1, <2>2
    <3> QED
      BY <2>2, <3>1 DEF Elems
  <2> QED
    BY <1>2, <2>1, <2>2
<1>5. Elems(s) \cup Elems(t) \subseteq Elems(u)
  <2>1. \A i \in 1..Len(s) : s[i] \in Elems(u)
    BY <1>1, <1>3 DEF Elems
  <2>2. \A i \in 1..Len(t) : t[i] \in Elems(u)
    BY <1>1, <1>3 DEF Elems
  <2> QED
    BY <2>1, <2>2 DEF Elems
<1> QED
  BY <1>4, <1>5 DEF Elems, u

(* What a lane was given grows when a meta is pushed, and stays the same   *)
(* when the lane takes, announces or finishes a message.                   *)
LEMMA GivenTyped ==
  ASSUME NEW st, NEW o \in Nat, NEW w \in Seq(Nat), NEW mo \in Seq(Metas)
  PROVE  /\ Given(st, o, w, mo) \in Seq(Nat)
         /\ Elems(Given(st, o, w, mo)) = Elems(Told(mo)) \cup Elems(InHand(st, o)) \cup Elems(w)
         /\ Elems(InHand(st, o)) = IF st \in {"sDelay", "sSendMeta"} THEN {o} ELSE {}
<1> DEFINE t == Told(mo)
           i == InHand(st, o)
<1>1. t \in Seq(Nat) /\ i \in Seq(Nat)
  BY ToldFacts DEF InHand
<1>2. Elems(i) = IF st \in {"sDelay", "sSendMeta"} THEN {o} ELSE {}
  <2>1. Elems(<<o>>) = {o} /\ Elems(<<>>) = {}
    BY DEF Elems
  <2> QED
    BY <2>1 DEF InHand
<1> HIDE DEF t, i
<1>3. t \o i \in Seq(Nat) /\ Elems(t \o i) = Elems(t) \cup Elems(i)
  BY <1>1, Joined, JoinElems
<1> DEFINE u == t \o i
<1>4. u \in Seq(Nat)
  BY <1>3
<1> HIDE DEF u
<1>5. u \o w \in Seq(Nat) /\ Elems(u \o w) = Elems(u) \cup Elems(w)
  BY <1>4, Joined, JoinElems
<1> QED
  BY <1>2, <1>3, <1>5 DEF Given, t, i, u

LEMMA GivenPush ==
  ASSUME NEW st, NEW o \in Nat, NEW w \in Seq(Nat), NEW mo \in Seq(Metas), NEW x \in Nat
  PROVE  Given(st, o, Append(w, x), mo) = Append(Given(st, o, w, mo), x)
<1> DEFINE s == Told(mo) \o InHand(st, o)
<1>1. Told(mo) \in Seq(Nat) /\ InHand(st, o) \in Seq(Nat)
  BY ToldFacts DEF InHand
<1>2. s \in Seq(Nat)
  BY <1>1, Joined
<1> HIDE DEF s
<1>3. s \o Append(w, x) = Append(s \o w, x)
  BY <1>2, JoinAppend
<1> QED
  BY <1>3 DEF Given, s

LEMMA GivenStays ==
  ASSUME NEW o \in Nat, NEW w \in Seq(Nat), NEW mo \in Seq(Metas)
  PROVE  /\ w # <<>> => \A p \in Nat : Given("sDelay", Head(w), Tail(w), mo) = Given("sIdle", p, w, mo)
         /\ Given("sSendMeta", o, w, mo) = Given("sDelay", o, w, mo)
         /\ \A m \in Metas : m.rpc = o =>
              Given("sSendDevice", o, w, Append(mo, m)) = Given("sSendMeta", o, w, mo)
         /\ Given("sSendHost", o, w, mo) = Given("sSendDevice", o, w, mo)
         /\ Given("sIdle", o, w, mo) = Given("sSendHost", o, w, mo)
<1> DEFINE t == Told(mo)
<1>1. t \in Seq(Nat)
  BY ToldFacts
<1>2. /\ \A x \in Nat : InHand("sDelay", x) = <<x>> /\ InHand("sSendMeta", x) = <<x>>
      /\ \A x \in Nat : InHand("sIdle", x) = <<>> /\ InHand("sSendDevice", x) = <<>>
                        /\ InHand("sSendHost", x) = <<>>
  BY DEF InHand
<1>3. ASSUME w # <<>>, NEW p \in Nat PROVE Given("sDelay", Head(w), Tail(w), mo) = Given("sIdle", p, w, mo)
  <2>1. Head(w) \in Nat /\ Tail(w) \in Seq(Nat)
    BY <1>3, Pop
  <2> HIDE DEF t
  <2>2. (t \o <<Head(w)>>) \o Tail(w) = t \o (<<Head(w)>> \o Tail(w))
    BY <1>1, <2>1, JoinAppend
  <2>3. <<Head(w)>> \o Tail(w) = w /\ t \o <<>> = t
    BY <1>1, <1>3, JoinHead, JoinAppend
  <2> QED
    BY <1>2, <2>1, <2>2, <2>3 DEF Given, t
<1>4. ASSUME NEW m \in Metas, m.rpc = o
      PROVE  Given("sSendDevice", o, w, Append(mo, m)) = Given("sSendMeta", o, w, mo)
  <2>1. Told(Append(mo, m)) = Append(t, o)
    BY <1>4, ToldFacts
  <2> HIDE DEF t
  <2>2. Append(t, o) \in Seq(Nat) /\ t \o <<o>> = Append(t, o)
    BY <1>1, Push, JoinAppend
  <2>3. Append(t, o) \o <<>> = Append(t, o)
    BY <2>2, JoinAppend
  <2> QED
    BY <1>2, <2>1, <2>2, <2>3 DEF Given, t
<1> QED
  BY <1>2, <1>3, <1>4 DEF Given

-----------------------------------------------------------------------------
(* The stream of a lane: a new message that arrives, a message given, a    *)
(* beat that is not for the lane, a beat that is.                          *)
LEMMA StreamGrow ==
  ASSUME NEW ms \in Seq(MsgLens), NEW ns \in Seq(MsgLens), Longer(ms, ns),
         NEW G, G \subseteq 1..Len(ms), NEW f, NEW s, StreamOK(ms, G, f, s)
  PROVE  StreamOK(ns, G, f, s)
<1>1. CellsOf(ns, G) = CellsOf(ms, G)
  BY CellsGrow
<1> QED
  BY <1>1 DEF StreamOK

LEMMA StreamGive ==
  ASSUME NEW ms \in Seq(MsgLens), NEW T \in Nat, T + 1 <= Len(ms), NEW f, f = <<T + 1, 1>>,
         NEW G, NEW s, StreamOK(ms, G, f, s)
  PROVE  StreamOK(ms, G \cup {T + 1}, f, s)
<1>1. ASSUME NEW c \in CellsOf(ms, {T + 1}) PROVE ~Before(c, f)
  <2>1. c[1] = T + 1 /\ c \in Cells(ms) /\ T + 1 \in 1..Len(ms)
    BY DEF CellsOf
  <2>2. c[2] \in 1..BeatsOf(ms, T + 1)
    BY <2>1, CellFacts
  <2>3. c[2] \in Nat /\ c[2] >= 1 /\ f[1] = T + 1 /\ f[2] = 1
    BY <2>1, <2>2, BeatsFacts
  <2> QED
    BY <2>1, <2>3 DEF Before
<1>2. CellsOf(ms, G \cup {T + 1}) = CellsOf(ms, G) \cup CellsOf(ms, {T + 1})
  BY DEF CellsOf
<1>3. Ahead(CellsOf(ms, G \cup {T + 1}), f) = Ahead(CellsOf(ms, G), f)
  BY <1>1, <1>2 DEF Ahead
<1> QED
  BY <1>3 DEF StreamOK

LEMMA StreamSkip ==
  ASSUME NEW ms \in Seq(MsgLens), NEW f \in Cells(ms), NEW G, f[1] \notin G, NEW s,
         StreamOK(ms, G, f, s)
  PROVE  StreamOK(ms, G, Succ(ms)[f], s)
<1>1. \A d \in Cells(ms) : Before(d, Succ(ms)[f]) <=> Before(d, f) \/ d = f
  BY SuccFacts
<1>2. Ahead(CellsOf(ms, G), Succ(ms)[f]) = Ahead(CellsOf(ms, G), f)
  BY <1>1 DEF Ahead, CellsOf
<1> QED
  BY <1>2 DEF StreamOK

LEMMA StreamBeat ==
  ASSUME NEW ms \in Seq(MsgLens), NEW x \in RawBeats, NEW f \in Cells(ms), f = Key[x],
         NEW G, f[1] \in G, NEW s \in Seq(RawBeats), StreamOK(ms, G, f, s)
  PROVE  StreamOK(ms, G, Succ(ms)[f], Append(s, x))
<1> DEFINE S == CellsOf(ms, G)
<1>1. \A d \in Cells(ms) : Before(d, Succ(ms)[f]) <=> Before(d, f) \/ d = f
  BY SuccFacts
<1>2. Ahead(S, Succ(ms)[f]) = Ahead(S, f) \cup {f}
  BY <1>1 DEF Ahead, CellsOf
<1>3. Holds(s, Ahead(S, f)) /\ \A c \in Ahead(S, f) : Before(c, Key[x])
  BY DEF StreamOK, Ahead
<1> HIDE DEF S
<1>4. Holds(Append(s, x), Ahead(S, f) \cup {f})
  BY <1>3, HoldsPush
<1> QED
  BY <1>2, <1>4 DEF StreamOK, S

(* The messages a lane was given are all taken, and their numbers grow.    *)
LEMMA GivenBelow ==
  ASSUME NEW st, NEW o \in Nat, NEW w \in Seq(Nat), NEW mo \in Seq(Metas), NEW T \in Nat,
         OrderOK(st, w, o, mo, T)
  PROVE  Elems(Given(st, o, w, mo)) \subseteq 1..T
<1>1. Elems(Given(st, o, w, mo)) = Elems(Told(mo)) \cup Elems(InHand(st, o)) \cup Elems(w)
      /\ Elems(InHand(st, o)) = IF st \in {"sDelay", "sSendMeta"} THEN {o} ELSE {}
  BY GivenTyped
<1>2. Elems(Told(mo)) \subseteq 1..T /\ Elems(w) \subseteq 1..T
  BY DEF OrderOK
<1>3. st \in {"sDelay", "sSendMeta"} => o \in 1..T
  BY InWork
<1> QED
  BY <1>1, <1>2, <1>3

LEMMA RisingJoin ==
  ASSUME NEW s \in Seq(Nat), NEW t \in Seq(Nat), Rising(s), Rising(t),
         \A a \in Elems(s) : \A b \in Elems(t) : a < b
  PROVE  Rising(s \o t)
<1> DEFINE u == s \o t
<1>1. /\ Len(u) = Len(s) + Len(t) /\ Len(s) \in Nat /\ Len(t) \in Nat
      /\ \A i \in 1..Len(s) : u[i] = s[i]
      /\ \A i \in 1..Len(t) : u[Len(s) + i] = t[i]
  BY Joined
<1> HIDE DEF u
<1>2. ASSUME NEW i \in 1..Len(u)
      PROVE  i \in 1..Len(s) \/ (i - Len(s) \in 1..Len(t) /\ u[i] = t[i - Len(s)])
  <2>1. i \in 1..Len(s) \/ (i - Len(s) \in 1..Len(t) /\ Len(s) + (i - Len(s)) = i)
    BY <1>1
  <2> QED
    BY <1>1, <2>1
<1>3. ASSUME NEW i \in 1..Len(u), NEW j \in 1..Len(u), i < j PROVE u[i] < u[j]
  <2>1. CASE i \in 1..Len(s) /\ j \in 1..Len(s)
    BY <1>1, <1>3, <2>1 DEF Rising
  <2>2. CASE i \in 1..Len(s) /\ j \notin 1..Len(s)
    <3>1. j - Len(s) \in 1..Len(t) /\ u[j] = t[j - Len(s)] /\ u[i] = s[i]
      BY <1>1, <1>2, <2>2
    <3>2. u[i] \in Elems(s) /\ u[j] \in Elems(t)
      BY <2>2, <3>1 DEF Elems
    <3> QED
      BY <3>2
  <2>3. CASE i \notin 1..Len(s)
    <3>1. j \notin 1..Len(s)
      BY <1>1, <1>3, <2>3
    <3>2. /\ i - Len(s) \in 1..Len(t) /\ u[i] = t[i - Len(s)]
          /\ j - Len(s) \in 1..Len(t) /\ u[j] = t[j - Len(s)]
      BY <1>2, <2>3, <3>1
    <3>3. i - Len(s) < j - Len(s)
      BY <1>1, <1>3
    <3> QED
      BY <3>2, <3>3 DEF Rising
  <2> QED
    BY <2>1, <2>2, <2>3
<1> QED
  BY <1>3 DEF Rising, u

LEMMA GivenRising ==
  ASSUME NEW st, NEW o \in Nat, NEW w \in Seq(Nat), NEW mo \in Seq(Metas), NEW T \in Nat,
         OrderOK(st, w, o, mo, T)
  PROVE  Rising(Given(st, o, w, mo))
<1> DEFINE t == Told(mo)
           h == InHand(st, o)
<1>1. t \in Seq(Nat) /\ h \in Seq(Nat)
  BY ToldFacts DEF InHand
<1>2. Elems(h) = (IF st \in {"sDelay", "sSendMeta"} THEN {o} ELSE {}) /\ Rising(h)
  <2>1. Rising(<<o>>) /\ Rising(<<>>)
    BY DEF Rising
  <2> QED
    BY <2>1, GivenTyped DEF InHand
<1>3. /\ Rising(t) /\ Rising(w) /\ \A a \in Elems(t) : \A b \in Elems(w) : a < b
      /\ \A a \in Elems(t) : \A b \in Elems(h) : a < b
      /\ \A a \in Elems(h) : \A b \in Elems(w) : a < b
  BY <1>2 DEF OrderOK
<1> DEFINE u == t \o h
<1> HIDE DEF t, h
<1>4. u \in Seq(Nat) /\ Rising(u) /\ Elems(u) = Elems(t) \cup Elems(h)
  BY <1>1, <1>2, <1>3, Joined, RisingJoin, JoinElems
<1>5. \A a \in Elems(u) : \A b \in Elems(w) : a < b
  BY <1>3, <1>4
<1> HIDE DEF u
<1>6. Rising(u \o w)
  BY <1>3, <1>4, <1>5, RisingJoin
<1> QED
  BY <1>6 DEF Given, t, h, u

(* A lane in step owes the beat at the place of the dispatcher if and only *)
(* if it was given the beat's message.                                     *)
LEMMA OwedIff ==
  ASSUME NEW ms \in Seq(MsgLens), NEW T \in 0..Len(ms), NEW f \in Cells(ms), NEW st \in LaneStates,
         NEW w \in Seq(Nat), NEW o \in Nat, NEW dl \in Nat, NEW q \in Seq(RawBeats),
         NEW mo \in Seq(Metas), NEW p \in Seq(RawBeats), Lane(ms, T, f, st, w, o, dl, q, mo, p),
         StreamOK(ms, Elems(Given(st, o, w, mo)), f, p \o q)
  PROVE  f \in Owed(ms, w, o, Left(st, dl)) <=> f[1] \in Elems(Given(st, o, w, mo))
<1> DEFINE n == Left(st, dl)
           G == Elems(Given(st, o, w, mo))
           E == Elems(Told(mo))
<1>1. /\ OrderOK(st, w, o, mo, T) /\ CountOK(ms, st, o, dl, mo) /\ LogOK(ms, mo, o, n, p)
  BY DEF Lane
<1>2. G = E \cup (IF st \in {"sDelay", "sSendMeta"} THEN {o} ELSE {}) \cup Elems(w)
  <2>1. /\ G = E \cup Elems(InHand(st, o)) \cup Elems(w)
        /\ Elems(InHand(st, o)) = IF st \in {"sDelay", "sSendMeta"} THEN {o} ELSE {}
    BY GivenTyped
  <2> QED
    BY <2>1
<1>3. T \in Nat /\ f \in Places /\ ~Before(f, f)
  BY CellFacts, BeforeFacts
<1>4. ASSUME f \in Owed(ms, w, o, n) PROVE f[1] \in G
  <2>1. CASE f \in CellsOf(ms, Elems(w))
    BY <1>2, <2>1 DEF CellsOf
  <2>2. CASE f \in Rest(ms, o, n)
    <3>1. f[1] = o
      BY <2>2 DEF Rest
    <3>2. CASE st \in {"sIdle", "sSendHost"}
      <4>1. n = 0
        BY <3>2 DEF Left
      <4> QED
        BY <2>2, <4>1, RestFacts
    <3>3. CASE st \in {"sDelay", "sSendMeta"}
      BY <1>2, <3>1, <3>3
    <3>4. CASE st = "sSendDevice"
      BY <1>1, <1>2, <1>3, <3>1, <3>4, InWork
    <3> QED
      BY <3>2, <3>3, <3>4 DEF LaneStates
  <2> QED
    BY <1>4, <2>1, <2>2 DEF Owed
<1>5. ASSUME f[1] \in G PROVE f \in Owed(ms, w, o, n)
  <2>1. CASE f[1] \in Elems(w)
    BY <2>1 DEF Owed, CellsOf
  <2>2. CASE st \in {"sDelay", "sSendMeta"} /\ f[1] = o
    <3>1. o \in 1..Len(ms) /\ dl = 64 * BeatsOf(ms, o)
      BY <1>1, <2>2, CellFacts DEF CountOK
    <3>2. BeatsOf(ms, o) \in Nat
      BY <3>1, BeatsFacts
    <3>3. \A b \in Nat : (64 * b) \div 64 = b
      OBVIOUS
    <3>4. n = BeatsOf(ms, o)
      BY <2>2, <3>1, <3>2, <3>3 DEF Left
    <3> QED
      BY <2>2, <3>4, RestFacts DEF Owed, CellsOf
  <2>3. CASE f[1] \in E
    <3>1. f \in CellsOf(ms, E)
      BY <2>3 DEF CellsOf
    <3>2. SUFFICES ASSUME f \notin Rest(ms, o, n) PROVE FALSE
      BY DEF Owed
    <3>3. PICK i \in 1..Len(p) : Key[p[i]] = f
      BY <1>1, <3>1, <3>2 DEF LogOK, Holds
    <3>4. i \in 1..Len(p \o q) /\ (p \o q)[i] = p[i]
      BY Joined
    <3>5. f \in Ahead(CellsOf(ms, G), f)
      BY <3>3, <3>4 DEF StreamOK, Holds
    <3> QED
      BY <1>3, <3>5 DEF Ahead
  <2> QED
    BY <1>2, <1>5, <2>1, <2>2, <2>3
<1> QED
  BY <1>4, <1>5

-----------------------------------------------------------------------------
(* The queues of the dispatcher.                                           *)
LEMMA OutFacts ==
  ASSUME IInv
  PROVE  /\ Out \in Places /\ Emitted \in Nat /\ Emitted <= Read
         /\ state_r # "sIdle" => Out \in Cells(msgs) /\ Out[1] = Read /\ Read > 0
         /\ state_r = "sSendMeta" => Out = <<Read, 1>>
<1>1. /\ Read \in Nat /\ Newest \in Nat /\ Read <= Newest /\ r_length \in Nat /\ Newest = Len(msgs)
      /\ msgs \in Seq(MsgLens)
  BY Typed DEF IInv, TypeOK, Newest
<1>2. CASE state_r = "sIdle"
  <2>1. Out = <<Read + 1, 1>> /\ Emitted = Read
    BY <1>2 DEF Out, Emitted
  <2> QED
    BY <1>1, <1>2, <2>1 DEF Places
<1>3. CASE state_r # "sIdle"
  <2> DEFINE B == BeatsOf(msgs, Read)
             k == B + 1 - r_length \div 64
  <2>1. Read > 0 /\ r_length % 64 = 0 /\ r_length \in 64..msgs[Read]
        /\ (state_r = "sSendMeta" => r_length = msgs[Read])
    BY <1>3 DEF IInv, ReaderOK
  <2>2. Read \in 1..Len(msgs)
    BY <1>1, <2>1
  <2>3. B \in Nat /\ msgs[Read] = 64 * B
    BY <1>1, <2>2, BeatsFacts
  <2>4. Out = <<Read, k>>
    BY <1>3 DEF Out
  <2>5. k \in 1..B /\ k \in Nat /\ (state_r = "sSendMeta" => k = 1)
    <3> HIDE DEF B
    <3>1. r_length \div 64 \in 1..B /\ (state_r = "sSendMeta" => r_length \div 64 = B)
      BY <1>1, <2>1, <2>3
    <3> QED
      BY <2>3, <3>1
  <2> HIDE DEF k
  <2>6. Out \in Places /\ Out[1] = Read /\ Out[2] = k
    BY <1>1, <2>4, <2>5 DEF Places
  <2>7. Out \in Cells(msgs)
    BY <1>1, <2>2, <2>5, <2>6, CellFacts
  <2>8. Emitted \in Nat /\ Emitted <= Read
    BY <1>1, <2>1 DEF Emitted
  <2> QED
    BY <1>3, <2>1, <2>4, <2>5, <2>6, <2>7, <2>8
<1> QED
  BY <1>2, <1>3

LEMMA FrontFacts ==
  ASSUME IInv, DispatchOK
  PROVE  /\ Taken \in 0..Len(msgs) /\ Len(meta_fifo) \in Nat /\ Taken + Len(meta_fifo) = Emitted
         /\ Taken + Len(meta_fifo) <= Len(msgs)
         /\ Front \in Places
         /\ data_fifo # <<>> => /\ Head(data_fifo) \in RawBeats /\ Front = Key[Head(data_fifo)]
                                /\ Front \in Cells(msgs)
                                /\ Head(data_fifo).last <=> Front[2] = BeatsOf(msgs, Front[1])
<1>1. /\ Read \in Nat /\ Newest \in Nat /\ Read <= Newest /\ Newest = Len(msgs)
      /\ msgs \in Seq(MsgLens) /\ meta_fifo \in Seq(1..MaxMsg) /\ data_fifo \in Seq(RawBeats)
      /\ Taken \in Nat /\ Len(meta_fifo) \in Nat
  BY Typed DEF IInv, TypeOK, Newest, DispatchOK
<1>2. Out \in Places /\ Emitted \in Nat /\ Emitted <= Read
  BY OutFacts
<1>3. Taken \in 0..Len(msgs) /\ Taken + Len(meta_fifo) = Emitted /\ Taken + Len(meta_fifo) <= Len(msgs)
  <2>1. Taken = Emitted - Len(meta_fifo)
    BY DEF Taken
  <2> QED
    BY <1>1, <1>2, <2>1
<1>4. ASSUME data_fifo # <<>>
      PROVE  /\ Head(data_fifo) \in RawBeats /\ Front = Key[Head(data_fifo)]
             /\ Front \in Cells(msgs)
             /\ Head(data_fifo).last <=> Front[2] = BeatsOf(msgs, Front[1])
  <2> DEFINE h == Head(data_fifo)
  <2>1. h \in RawBeats /\ h = data_fifo[1] /\ 1 \in 1..Len(data_fifo)
    BY <1>1, <1>4, Pop
  <2>2. Front = Key[h]
    BY <1>4, <2>1 DEF Front
  <2>3. Right(h, msgs)
    BY <2>1 DEF IInv, SentOK
  <2> HIDE DEF h
  <2>4. Key[h] = <<h.rpc, h.k>> /\ Key[h][1] = h.rpc /\ Key[h][2] = h.k /\ h.rpc \in Nat /\ h.k \in Nat
    BY <2>1, KeyFacts
  <2>5. Key[h] \in Places
    BY <2>4 DEF Places
  <2>6. Front \in Cells(msgs)
    BY <1>1, <2>2, <2>3, <2>4, <2>5, CellFacts DEF Right
  <2> QED
    BY <2>1, <2>2, <2>3, <2>4, <2>6 DEF Right, h
<1>5. Front \in Places
  <2>1. CASE data_fifo = <<>>
    BY <1>2, <2>1 DEF Front
  <2>2. CASE data_fifo # <<>>
    BY <1>1, <1>4, <2>2, CellFacts
  <2> QED
    BY <2>1, <2>2
<1> QED
  BY <1>1, <1>3, <1>4, <1>5

(* The steps of NetToMem that do not touch the two queues.                 *)
LEMMA DispatchStays ==
  ASSUME IInv, DispatchOK, IInv', Out' = Out, Emitted' = Emitted, Longer(msgs, msgs'),
         split' = split, meta_fifo' = meta_fifo, data_fifo' = data_fifo
  PROVE  DispatchOK' /\ Taken' = Taken /\ Front' = Front
<1>1. Taken' = Taken /\ Front' = Front /\ Moving' = Moving
  BY DEF Taken, Front, Moving
<1>2. Chain(data_fifo, Key, Succ(msgs'), Front, Out)
  <2>1. /\ data_fifo \in Seq(RawBeats) /\ msgs \in Seq(MsgLens) /\ msgs' \in Seq(MsgLens)
        /\ \A i \in 1..Len(data_fifo) : Right(data_fifo[i], msgs)
    BY DEF IInv, TypeOK, SentOK
  <2>2. ASSUME NEW i \in 1..Len(data_fifo)
        PROVE  Succ(msgs)[Key[data_fifo[i]]] = Succ(msgs')[Key[data_fifo[i]]]
    <3> DEFINE c == Key[data_fifo[i]]
    <3>1. data_fifo[i] \in RawBeats /\ Right(data_fifo[i], msgs)
      BY <2>1, EmptyQueue
    <3>2. c = <<data_fifo[i].rpc, data_fifo[i].k>> /\ c[1] = data_fifo[i].rpc
          /\ data_fifo[i].rpc \in Nat /\ data_fifo[i].k \in Nat
      BY <3>1, KeyFacts
    <3>3. c \in Places /\ c[1] \in 1..Len(msgs)
      BY <3>1, <3>2 DEF Places, Right
    <3> HIDE DEF c
    <3>4. BeatsOf(msgs', c[1]) = BeatsOf(msgs, c[1])
      BY <3>3 DEF Longer, BeatsOf
    <3>5. Succ(msgs)[c] = Succ(msgs')[c]
      BY <3>3, <3>4 DEF Succ
    <3> QED
      BY <3>5 DEF c
  <2>3. Chain(data_fifo, Key, Succ(msgs), Front, Out)
    BY DEF DispatchOK
  <2> QED
    BY <2>1, <2>2, <2>3, ChainSame
<1>3. Chain(data_fifo', Key, Succ(msgs'), Front', Out')
  BY <1>1, <1>2
<1> QED
  BY <1>1, <1>3 DEF DispatchOK

LEMMA DispatchFed ==
  ASSUME IInv, DispatchOK, IInv', SendMeta \/ SendData, split' = split
  PROVE  DispatchOK' /\ Taken' = Taken /\ Front' = Front /\ msgs' = msgs
<1> DEFINE b == Head(recv_data_fifo)
<1>1. /\ Read' = Read /\ Out' = Succ(msgs)[Out]
      /\ data_fifo' = Append(data_fifo, b)
  BY StepSendMeta, StepSendData
<1>2. /\ state_r \in {"sSendMeta", "sWrite"} /\ state_r' \in {"sIdle", "sWrite"} /\ msgs' = msgs
      /\ recv_data_fifo # <<>>
  BY DEF SendMeta, SendData, Forward
<1>3. b \in RawBeats /\ b.rpc = Read /\ Out = Key[b]
  BY <1>2, HeadServed
<1>4. /\ meta_fifo \in Seq(1..MaxMsg) /\ data_fifo \in Seq(RawBeats) /\ Taken \in Nat
      /\ Len(meta_fifo) \in Nat /\ Read \in Nat
  BY Typed DEF IInv, TypeOK, DispatchOK
<1>5. Taken + Len(meta_fifo) = Emitted
  BY FrontFacts
<1>6. Emitted' = Read
  BY <1>1, <1>2 DEF Emitted
<1>7. /\ Taken' = Taken /\ Len(meta_fifo') \in Nat
      /\ Len(meta_fifo') >= Len(meta_fifo)
      /\ \A i \in 1..Len(meta_fifo') : meta_fifo'[i] = Taken + i
  <2>1. CASE SendMeta
    <3>1. state_r = "sSendMeta" /\ meta_fifo' = Append(meta_fifo, b.rpc)
      BY <2>1 DEF SendMeta
    <3>2. Emitted = Read - 1
      BY <3>1 DEF Emitted
    <3>3. b.rpc \in 1..MaxMsg
      BY <1>3 DEF RawBeats
    <3>4. /\ Len(meta_fifo') = Len(meta_fifo) + 1
          /\ (\A i \in 1..Len(meta_fifo) : meta_fifo'[i] = meta_fifo[i])
          /\ meta_fifo'[Len(meta_fifo) + 1] = Read
      BY <1>3, <1>4, <3>1, <3>3, Push
    <3>5. Taken + (Len(meta_fifo) + 1) = Read /\ Taken' = Taken
      <4>1. Taken' = Read - (Len(meta_fifo) + 1)
        BY <1>6, <3>4 DEF Taken
      <4> QED
        BY <1>4, <1>5, <3>2, <4>1
    <3>6. ASSUME NEW i \in 1..Len(meta_fifo') PROVE meta_fifo'[i] = Taken + i
      <4>1. i \in 1..Len(meta_fifo) \/ i = Len(meta_fifo) + 1
        BY <1>4, <3>4
      <4> QED
        BY <3>4, <3>5, <4>1 DEF DispatchOK
    <3> QED
      BY <1>4, <3>4, <3>5, <3>6
  <2>2. CASE SendData
    <3>1. state_r = "sWrite" /\ meta_fifo' = meta_fifo
      BY <2>2 DEF SendData
    <3>2. Emitted = Read
      BY <3>1 DEF Emitted
    <3>3. Taken' = Taken
      BY <1>6, <3>1, <3>2 DEF Taken
    <3> QED
      BY <1>4, <3>1, <3>3 DEF DispatchOK
  <2> QED
    BY <2>1, <2>2
<1>8. Front' = Front
  <2>1. /\ Len(data_fifo') = Len(data_fifo) + 1 /\ Len(data_fifo) \in Nat
        /\ (\A i \in 1..Len(data_fifo) : data_fifo'[i] = data_fifo[i])
        /\ data_fifo'[Len(data_fifo) + 1] = b /\ data_fifo' \in Seq(RawBeats)
    BY <1>1, <1>3, <1>4, Push
  <2>2. data_fifo' # <<>>
    BY <2>1, EmptyQueue
  <2>3. CASE data_fifo = <<>>
    <3>1. Len(data_fifo) = 0
      BY <2>3
    <3>2. data_fifo'[1] = b
      BY <2>1, <3>1
    <3> QED
      BY <1>3, <2>2, <2>3, <3>2 DEF Front
  <2>4. CASE data_fifo # <<>>
    <3>1. 1 \in 1..Len(data_fifo)
      BY <1>4, <2>4, Pop
    <3> QED
      BY <2>1, <2>2, <2>4, <3>1 DEF Front
  <2> QED
    BY <2>3, <2>4
<1>9. Chain(data_fifo', Key, Succ(msgs'), Front', Out')
  <2>1. Chain(data_fifo, Key, Succ(msgs), Front, Out)
    BY DEF DispatchOK
  <2>2. Chain(Append(data_fifo, b), Key, Succ(msgs), Front, Succ(msgs)[Out])
    BY <1>3, <1>4, <2>1, ChainPush
  <2> QED
    BY <1>1, <1>2, <1>8, <2>2
<1>10. split = "sDropMeta" => Len(meta_fifo') > DROP_LIMIT
  BY <1>4, <1>7, ReceiveAssumption DEF DispatchOK
<1>11. Moving' = Moving
  BY DEF Moving
<1> QED
  BY <1>2, <1>4, <1>7, <1>8, <1>9, <1>10, <1>11 DEF DispatchOK

-----------------------------------------------------------------------------
(* The steps of NetToMem leave the lanes alone, and what they wait for.    *)
LEMMA LaneTyped ==
  ASSUME RegsOK, NEW l \in Lanes
  PROVE  /\ lane_meta[l] \in Seq(Nat) /\ lane_data[l] \in Seq(RawBeats)
         /\ lane_state[l] \in LaneStates /\ meta_reg[l] \in Nat /\ device_length[l] \in Nat
         /\ meta_out[l] \in Seq(Metas) /\ device_data_out[l] \in Seq(RawBeats)
         /\ delay_cnt[l] \in Nat /\ host_data_out[l] \in Seq(Nat)
  BY DEF RegsOK

LEMMA ActiveLanes ==
  Lanes = 0..(LANES - 1) /\ 0..(ACTIVE - 1) \subseteq Lanes /\ 0 \in 0..(ACTIVE - 1)
  BY ReceiveAssumption DEF Lanes, Deser!Lanes

-----------------------------------------------------------------------------
(* What each lane was given, in the state and after a step.                *)
LEMMA GivenToIs ==
  ASSUME NEW l
  PROVE  /\ GivenTo(l) = Given(lane_state[l], meta_reg[l], lane_meta[l], meta_out[l])
         /\ GivenTo(l)' = Given(lane_state'[l], meta_reg'[l], lane_meta'[l], meta_out'[l])
  BY DEF GivenTo, Given, Told, InHand

SameGiven == dropped' = dropped /\ Taken' = Taken /\ \A l \in Lanes : GivenTo(l)' = GivenTo(l)

LEMMA GivenIsSeq ==
  ASSUME RegsOK, NEW l \in Lanes PROVE GivenTo(l) \in Seq(Nat)
<1>1. meta_reg[l] \in Nat /\ lane_meta[l] \in Seq(Nat) /\ meta_out[l] \in Seq(Metas)
  BY LaneTyped
<1>2. Given(lane_state[l], meta_reg[l], lane_meta[l], meta_out[l]) \in Seq(Nat)
  BY <1>1, GivenTyped
<1> QED
  BY <1>2, GivenToIs

LEMMA GivenFacts ==
  ASSUME RegsOK, Taken \in Nat, NEW l \in Lanes, LaneOK(l)
  PROVE  /\ GivenTo(l) \in Seq(Nat) /\ Rising(GivenTo(l))
         /\ Elems(GivenTo(l)) \subseteq 1..Taken
<1>1. /\ meta_reg[l] \in Nat /\ lane_meta[l] \in Seq(Nat) /\ meta_out[l] \in Seq(Metas)
      /\ OrderOK(lane_state[l], lane_meta[l], meta_reg[l], meta_out[l], Taken)
  BY LaneTyped DEF LaneOK
<1>2. /\ Rising(Given(lane_state[l], meta_reg[l], lane_meta[l], meta_out[l]))
      /\ Elems(Given(lane_state[l], meta_reg[l], lane_meta[l], meta_out[l])) \subseteq 1..Taken
  BY <1>1, GivenBelow, GivenRising
<1> QED
  BY <1>2, GivenToIs, GivenIsSeq

(* A lane that is in step after a step was in step before it: headers and  *)
(* messages stay, and a message once begun stays begun.                    *)
LEMMA BegunIs ==
  ASSUME NEW l, meta_out[l] \in Seq(Metas), meta_out'[l] \in Seq(Metas)
  PROVE  /\ Begun(l) = Elems(Told(meta_out[l])) \cup {meta_reg[l]}
         /\ Begun(l)' = Elems(Told(meta_out'[l])) \cup {meta_reg'[l]}
<1>1. ASSUME NEW mo \in Seq(Metas) PROVE Elems(Told(mo)) = {mo[i].rpc : i \in 1..Len(mo)}
  <2>1. Len(Told(mo)) = Len(mo) /\ \A i \in 1..Len(mo) : Told(mo)[i] = mo[i].rpc
    BY ToldFacts
  <2> QED
    BY <2>1 DEF Elems
<1> QED
  BY <1>1 DEF Begun

LEMMA StepBack ==
  ASSUME HeadersOK, Longer(msgs, msgs'), Longer(lens, lens'), Len(lens') \in Nat, NEW l,
         Begun(l) \subseteq Begun(l)' \cup {0}, InStep(l)'
  PROVE  InStep(l)
<1> SUFFICES ASSUME NEW n \in Begun(l), Costs(n) PROVE FALSE
  BY DEF InStep
<1>1. n \in 1..Len(lens) /\ msgs[n] - lens[n] >= 64 /\ Len(lens) = Len(msgs) /\ Len(lens) \in Nat
  BY DEF Costs, HeadersOK
<1>2. n \in Begun(l)' /\ n \in 1..Len(lens') /\ msgs'[n] = msgs[n] /\ lens'[n] = lens[n]
  BY <1>1 DEF Longer
<1> QED
  BY <1>1, <1>2 DEF InStep, Costs

(* The headers of the messages stay as they are when no message arrives.   *)
LEMMA SameHeaders ==
  ASSUME HeadersOK, UNCHANGED net_vars
  PROVE  /\ HeadersOK' /\ lost_length' = lost_length /\ msgs' = msgs /\ lens' = lens
         /\ Longer(msgs, msgs') /\ Longer(lens, lens') /\ Len(lens') \in Nat
<1>1. lost_length' = lost_length /\ msgs' = msgs /\ lens' = lens
  BY DEF net_vars
<1>2. Len(lens) \in Nat /\ Len(msgs) \in Nat
  BY DEF HeadersOK
<1> QED
  BY <1>1, <1>2 DEF HeadersOK, Longer

(* The header says how many beats a message has, unless it costs a beat of *)
(* its own.                                                                *)
LEMMA HeaderBeats ==
  ASSUME msgs \in Seq(MsgLens), HeadersOK, NEW r \in 1..Len(msgs)
  PROVE  /\ Deser!Round64(lens[r]) \in Nat
         /\ ~Costs(r) => Deser!Round64(lens[r]) = 64 * BeatsOf(msgs, r)
<1> DEFINE B == BeatsOf(msgs, r)
           s == msgs[r] - lens[r]
<1>1. B \in Nat /\ B > 0 /\ msgs[r] = 64 * B /\ s \in 8..71 /\ lens[r] \in Nat
  BY BeatsFacts DEF HeadersOK
<1>2. Deser!Round64(lens[r]) = ((lens[r] + 63) \div 64) * 64
  BY DEF Deser!Round64
<1>3. ((lens[r] + 63) \div 64) * 64 \in Nat
  BY <1>1
<1>4. ASSUME ~Costs(r) PROVE Deser!Round64(lens[r]) = 64 * B
  <2>1. s < 64
    BY <1>1, <1>4 DEF Costs, HeadersOK
  <2>2. lens[r] = 64 * B - s
    BY <1>1
  <2> HIDE DEF B, s
  <2>3. ((64 * B - s) + 63) \div 64 = B
    BY <1>1, <2>1
  <2>4. B * 64 = 64 * B
    BY <1>1
  <2> QED
    BY <1>2, <2>2, <2>3, <2>4
<1> QED
  BY <1>2, <1>3, <1>4

(* The places of the dispatcher do not move with a lane.                   *)
LEMMA LaneFrame ==
  ASSUME ReceiveInv, UNCHANGED <<net_vars, meta_fifo, data_fifo, split_vars>>
  PROVE  /\ msgs' = msgs /\ split' = split /\ lane' = lane /\ de_idle' = de_idle /\ dropped' = dropped
         /\ Taken' = Taken /\ Front' = Front
         /\ IInv /\ HeadersOK /\ DispatchOK /\ RegsOK /\ msgs \in Seq(MsgLens)
         /\ Taken \in 0..Len(msgs) /\ Front \in Places
<1>1. /\ msgs' = msgs /\ split' = split /\ lane' = lane /\ de_idle' = de_idle /\ dropped' = dropped
      /\ state_r' = state_r /\ meta_fifo' = meta_fifo /\ data_fifo' = data_fifo /\ r_length' = r_length
      /\ rx' = rx /\ msg_length_fifo' = msg_length_fifo
  BY DEF net_vars, split_vars
<1>2. Taken' = Taken /\ Front' = Front
  BY <1>1 DEF Taken, Emitted, Front, Out, Read, Done, Busy, Newest
<1>3. IInv /\ HeadersOK /\ DispatchOK /\ RegsOK /\ msgs \in Seq(MsgLens)
  BY DEF ReceiveInv, IInv, TypeOK
<1> QED
  BY <1>1, <1>2, <1>3, FrontFacts

(* A step of lane l that leaves what it was given as it is, and nothing of *)
(* another lane.                                                           *)
LEMMA LaneMaps ==
  ASSUME ReceiveInv, NEW l \in Lanes, UNCHANGED <<net_vars, meta_fifo, data_fifo, split_vars>>,
         Deser!Idle(l) \/ Deser!Delay(l) \/ Deser!SendMeta(l) \/ Deser!SendDevice(l) \/ Deser!SendHost(l)
  PROVE  SameGiven /\ msgs' = msgs /\ (~Deser!SendDevice(l) => device_data_out' = device_data_out)
<1>1. msgs' = msgs /\ dropped' = dropped /\ Taken' = Taken /\ RegsOK
  BY LaneFrame
<1>2. /\ lane_meta \in [Lanes -> Seq(Nat)] /\ lane_state \in [Lanes -> LaneStates]
      /\ meta_reg \in [Lanes -> Nat] /\ meta_out \in [Lanes -> Seq(Metas)]
      /\ device_length \in [Lanes -> Nat]
  BY <1>1 DEF RegsOK
<1> DEFINE st == lane_state[l]
           o == meta_reg[l]
           w == lane_meta[l]
           mo == meta_out[l]
<1>3. o \in Nat /\ w \in Seq(Nat) /\ mo \in Seq(Metas)
  BY <1>2
<1>4. ASSUME NEW k \in Lanes, k # l PROVE GivenTo(k)' = GivenTo(k)
  <2>1. lane_state'[k] = lane_state[k] /\ meta_reg'[k] = meta_reg[k]
        /\ lane_meta'[k] = lane_meta[k] /\ meta_out'[k] = meta_out[k]
    BY <1>2, <1>4 DEF Deser!Idle, Deser!Delay, Deser!SendMeta, Deser!SendDevice, Deser!SendHost,
                      Deser!fifos, Deser!out_vars
  <2> QED
    BY <2>1, GivenToIs
<1>5. GivenTo(l) = Given(st, o, w, mo)
      /\ GivenTo(l)' = Given(lane_state'[l], meta_reg'[l], lane_meta'[l], meta_out'[l])
  BY GivenToIs
<1>6. CASE Deser!Idle(l)
  <2>1. /\ st = "sIdle" /\ w # <<>> /\ lane_state'[l] = "sDelay" /\ meta_reg'[l] = Head(w)
        /\ lane_meta'[l] = Tail(w) /\ meta_out'[l] = mo /\ device_data_out' = device_data_out
    BY <1>2, <1>6 DEF Deser!Idle, Deser!out_vars
  <2>2. Given("sDelay", Head(w), Tail(w), mo) = Given("sIdle", o, w, mo)
    BY <1>3, <2>1, GivenStays
  <2>3. GivenTo(l)' = GivenTo(l)
    BY <1>5, <2>1, <2>2
  <2> QED
    BY <1>1, <1>4, <2>1, <2>3 DEF SameGiven
<1>7. CASE Deser!Delay(l)
  <2>1. /\ st = "sDelay" /\ lane_state'[l] \in {"sDelay", "sSendMeta"} /\ meta_reg'[l] = o
        /\ lane_meta'[l] = w /\ meta_out'[l] = mo /\ device_data_out' = device_data_out
    BY <1>2, <1>7 DEF Deser!Delay, Deser!fifos, Deser!out_vars
  <2>2. Given("sSendMeta", o, w, mo) = Given("sDelay", o, w, mo)
    BY <1>3, GivenStays
  <2>3. GivenTo(l)' = GivenTo(l)
    BY <1>5, <2>1, <2>2
  <2> QED
    BY <1>1, <1>4, <2>1, <2>3 DEF SameGiven
<1>8. CASE Deser!SendMeta(l)
  <2> DEFINE m == [rpc |-> o, host_length |-> 64, device_length |-> device_length[l]]
  <2>1. /\ st = "sSendMeta" /\ lane_state'[l] = "sSendDevice" /\ meta_reg'[l] = o
        /\ lane_meta'[l] = w /\ meta_out'[l] = Append(mo, m) /\ device_data_out' = device_data_out
    BY <1>2, <1>8 DEF Deser!SendMeta, Deser!fifos
  <2>2. m \in Metas /\ m.rpc = o
    BY <1>2, <1>3 DEF Metas
  <2> HIDE DEF m
  <2>3. Given("sSendDevice", o, w, Append(mo, m)) = Given("sSendMeta", o, w, mo)
    BY <1>3, <2>2, GivenStays
  <2>4. GivenTo(l)' = GivenTo(l)
    BY <1>5, <2>1, <2>3
  <2> QED
    BY <1>1, <1>4, <2>1, <2>4 DEF SameGiven
<1>9. CASE Deser!SendDevice(l)
  <2>1. /\ st = "sSendDevice" /\ lane_state'[l] \in {"sSendDevice", "sSendHost"} /\ meta_reg'[l] = o
        /\ lane_meta'[l] = w /\ meta_out'[l] = mo
    BY <1>2, <1>9 DEF Deser!SendDevice
  <2>2. Given("sSendHost", o, w, mo) = Given("sSendDevice", o, w, mo)
    BY <1>3, GivenStays
  <2>3. GivenTo(l)' = GivenTo(l)
    BY <1>5, <2>1, <2>2
  <2> QED
    BY <1>1, <1>4, <1>9, <2>3 DEF SameGiven
<1>10. CASE Deser!SendHost(l)
  <2>1. /\ st = "sSendHost" /\ lane_state'[l] = "sIdle" /\ meta_reg'[l] = o
        /\ lane_meta'[l] = w /\ meta_out'[l] = mo /\ device_data_out' = device_data_out
    BY <1>2, <1>10 DEF Deser!SendHost, Deser!fifos
  <2>2. Given("sIdle", o, w, mo) = Given("sSendHost", o, w, mo)
    BY <1>3, GivenStays
  <2>3. GivenTo(l)' = GivenTo(l)
    BY <1>5, <2>1, <2>2
  <2> QED
    BY <1>1, <1>4, <2>1, <2>3 DEF SameGiven
<1> QED
  BY <1>6, <1>7, <1>8, <1>9, <1>10

-----------------------------------------------------------------------------
(* A step that leaves the registers and the outputs of lane l alone: what  *)
(* it does to its queues and to the dispatcher's place is enough.          *)
RegsSame(l) ==
  /\ lane_state'[l] = lane_state[l] /\ meta_reg'[l] = meta_reg[l]
  /\ device_length'[l] = device_length[l] /\ meta_out'[l] = meta_out[l]
  /\ device_data_out'[l] = device_data_out[l]

LEMMA LaneKeeps ==
  ASSUME HeadersOK, Longer(msgs, msgs'), Longer(lens, lens'), Len(lens') \in Nat,
         NEW l, LaneOK(l), RegsSame(l),
         OrderOK(lane_state[l], lane_meta'[l], meta_reg[l], meta_out[l], Taken'),
         StreamOK(msgs', Elems(GivenTo(l)'), Front', device_data_out[l] \o lane_data'[l]),
         InStep(l) => Lane(msgs', Taken', Front', lane_state[l], lane_meta'[l], meta_reg[l],
                           device_length[l], lane_data'[l], meta_out[l], device_data_out[l])
  PROVE  LaneOK(l)'
<1>1. /\ lane_state'[l] = lane_state[l] /\ meta_reg'[l] = meta_reg[l]
      /\ device_length'[l] = device_length[l] /\ meta_out'[l] = meta_out[l]
      /\ device_data_out'[l] = device_data_out[l]
  BY DEF RegsSame
<1>2. Begun(l)' = Begun(l)
  BY <1>1 DEF Begun
<1>3. InStep(l)' => InStep(l)
  BY <1>2, StepBack
<1>4. lane_state[l] = "sIdle" => meta_reg[l] = 0 \/ meta_reg[l] \in Elems(Told(meta_out[l]))
  BY DEF LaneOK
<1> QED
  BY <1>1, <1>3, <1>4 DEF LaneOK

LEMMA LanesNet ==
  ASSUME ReceiveInv, NetFrame, IInv', DispatchOK', Taken' = Taken, Front' = Front,
         Longer(msgs, msgs'), HeadersOK', Longer(lens, lens')
  PROVE  ReceiveInv'
<1>1. /\ de_idle' = de_idle /\ split' = split /\ lane' = lane /\ dropped' = dropped
      /\ lane_meta' = lane_meta /\ lane_data' = lane_data /\ lane_state' = lane_state
      /\ meta_reg' = meta_reg /\ device_length' = device_length /\ delay_cnt' = delay_cnt
      /\ meta_out' = meta_out /\ device_data_out' = device_data_out /\ host_data_out' = host_data_out
  BY DEF NetFrame, split_vars, lane_regs, lane_outs
<1>2. RegsOK'
  BY <1>1 DEF ReceiveInv, RegsOK
<1>3. /\ IInv /\ HeadersOK /\ DispatchOK /\ RegsOK /\ ServeOK
      /\ msgs \in Seq(MsgLens) /\ msgs' \in Seq(MsgLens) /\ Len(lens') \in Nat
  BY DEF ReceiveInv, IInv, TypeOK, HeadersOK
<1>4. Taken \in 0..Len(msgs) /\ Taken \in Nat /\ Taken <= Taken
  BY <1>3, FrontFacts
<1>5. \A l \in Lanes : GivenTo(l)' = GivenTo(l)
  BY <1>1, GivenToIs
<1>6. ASSUME NEW l \in Lanes PROVE LaneOK(l)'
  <2>1. meta_out[l] \in Seq(Metas) /\ LaneOK(l)
    BY <1>3, LaneTyped DEF ReceiveInv
  <2>2. RegsSame(l) /\ lane_meta'[l] = lane_meta[l] /\ lane_data'[l] = lane_data[l]
    BY <1>1 DEF RegsSame
  <2>3. Elems(GivenTo(l)) \subseteq 1..Len(msgs)
    <3>1. Elems(GivenTo(l)) \subseteq 1..Taken
      BY <1>3, <1>4, <2>1, GivenFacts
    <3>2. 1..Taken \subseteq 1..Len(msgs)
      BY <1>4
    <3> QED
      BY <3>1, <3>2
  <2>4. StreamOK(msgs', Elems(GivenTo(l)), Front, device_data_out[l] \o lane_data[l])
    BY <1>3, <2>1, <2>3, StreamGrow DEF LaneOK
  <2>5. InStep(l) => Lane(msgs', Taken, Front, lane_state[l], lane_meta[l], meta_reg[l],
                          device_length[l], lane_data[l], meta_out[l], device_data_out[l])
    BY <1>3, <1>4, <2>1, LaneGrow DEF LaneOK
  <2>6. OrderOK(lane_state[l], lane_meta[l], meta_reg[l], meta_out[l], Taken)
    BY <2>1 DEF LaneOK
  <2> QED
    BY <1>3, <1>5, <2>1, <2>2, <2>4, <2>5, <2>6, LaneKeeps
<1>7. ServeOK'
  BY <1>1, <1>3, <1>5 DEF ServeOK, Moving
<1> QED
  BY <1>2, <1>6, <1>7 DEF ReceiveInv

(* A message that begins to arrive brings a header that fits it.           *)
LEMMA HeaderComes ==
  ASSUME HeadersOK, msgs \in Seq(MsgLens), RecvMeta, NewHeader
  PROVE  HeadersOK' /\ Longer(msgs, msgs') /\ Longer(lens, lens')
<1>1. lost_length' = lost_length /\ Len(lens) \in Nat /\ Len(msgs) \in Nat /\ lens \in Seq(Nat)
  BY DEF RecvMeta, HeadersOK
<1>2. CASE msgs' = msgs
  <2>1. lens' = lens
    BY <1>2 DEF NewHeader
  <2> QED
    BY <1>1, <1>2, <2>1 DEF HeadersOK, Longer
<1>3. CASE msgs' # msgs
  <2>1. PICK len \in MsgLens : msgs' = Append(msgs, len)
    BY <1>3 DEF RecvMeta
  <2>2. /\ Len(msgs') = Len(msgs) + 1 /\ \A i \in 1..Len(msgs) : msgs'[i] = msgs[i]
        /\ msgs'[Len(msgs) + 1] = len
    BY <2>1, Push
  <2>3. msgs'[Len(msgs')] = len
    BY <2>2
  <2>4. PICK s \in SLACKS : s < len /\ lens' = Append(lens, len - s)
    BY <1>3, <2>3 DEF NewHeader
  <2>5. s \in 8..71 /\ len \in Nat
    BY ReceiveAssumption, NetToMemAssumption
  <2>6. len - s \in Nat /\ len - (len - s) = s
    BY <2>4, <2>5
  <2>7. /\ Len(lens') = Len(lens) + 1 /\ \A i \in 1..Len(lens) : lens'[i] = lens[i]
        /\ lens'[Len(lens) + 1] = len - s /\ lens' \in Seq(Nat)
    BY <1>1, <2>4, <2>6, Push
  <2>8. Len(lens) = Len(msgs)
    BY DEF HeadersOK
  <2>9. ASSUME NEW n \in 1..Len(msgs') PROVE msgs'[n] - lens'[n] \in 8..71
    <3>1. n \in 1..Len(msgs) \/ n = Len(msgs) + 1
      BY <1>1, <2>2
    <3>2. CASE n \in 1..Len(msgs)
      BY <2>2, <2>7, <2>8, <3>2 DEF HeadersOK
    <3>3. CASE n = Len(msgs) + 1
      BY <2>2, <2>5, <2>6, <2>7, <2>8, <3>3, ZenonT(40)
    <3> QED
      BY <3>1, <3>2, <3>3
  <2>10. Longer(msgs, msgs') /\ Longer(lens, lens')
    BY <1>1, <2>2, <2>7 DEF Longer
  <2> QED
    BY <1>1, <2>2, <2>7, <2>8, <2>9, <2>10 DEF HeadersOK
<1> QED
  BY <1>2, <1>3

LEMMA StepNet ==
  ASSUME ReceiveInv, ~lost_length', NetWrite \/ NetRead PROVE ReceiveInv' /\ Taken' = Taken
<1>1. NetFrame /\ split' = split
  BY DEF NetWrite, NetRead, NetFrame, split_vars
<1>2. IInv /\ HeadersOK /\ DispatchOK /\ msgs \in Seq(MsgLens)
  BY DEF ReceiveInv, IInv, TypeOK
<1>3. CASE RecvMeta /\ NewHeader
  <2>1. IInv' /\ Read' = Read /\ Out' = Out
    BY <1>2, <1>3, StepRecvMeta, MetaKeeps
  <2>2. state_r' = state_r /\ meta_fifo' = meta_fifo /\ data_fifo' = data_fifo
    BY <1>3 DEF RecvMeta, reader, out
  <2>3. HeadersOK' /\ Longer(msgs, msgs') /\ Longer(lens, lens')
    BY <1>2, <1>3, HeaderComes
  <2>4. Emitted' = Emitted
    BY <2>1, <2>2 DEF Emitted
  <2>5. DispatchOK' /\ Taken' = Taken /\ Front' = Front
    BY <1>1, <1>2, <2>1, <2>2, <2>3, <2>4, DispatchStays
  <2> QED
    BY <1>1, <2>1, <2>3, <2>5, LanesNet
<1>4. ASSUME msgs' = msgs, lens' = lens, lost_length' \in BOOLEAN
      PROVE  HeadersOK' /\ Longer(msgs, msgs') /\ Longer(lens, lens')
  <2>1. Len(lens) \in Nat
    BY <1>2 DEF HeadersOK
  <2> QED
    BY <1>2, <1>4, <2>1 DEF HeadersOK, Longer
<1>5. CASE (RecvData /\ NewHeader) \/ (ReadLength /\ lens' = lens)
  <2>1. IInv' /\ Out' = Out
    BY <1>2, <1>5, StepRecvData, StepReadLength
  <2>2. meta_fifo' = meta_fifo /\ data_fifo' = data_fifo /\ msgs' = msgs
    BY <1>5 DEF RecvData, ReadLength, out
  <2>3. lens' = lens
    BY <1>5, <2>2 DEF NewHeader
  <2>3a. lost_length' \in BOOLEAN
    <3>1. lost_length \in BOOLEAN
      BY <1>2 DEF HeadersOK
    <3>2. (lost_length' = lost_length) \/ (lost_length' = (lost_length \/ LengthsFull))
      BY <1>5, Zenon DEF RecvData, ReadLength
    <3> QED
      BY <3>1, <3>2
  <2>4. HeadersOK' /\ Longer(msgs, msgs') /\ Longer(lens, lens')
    BY <1>4, <2>2, <2>3, <2>3a
  <2>5. Emitted' = Emitted
    <3>1. CASE RecvData
      BY <1>2, <3>1, StepRecvData DEF Emitted, RecvData, reader
    <3>2. CASE ReadLength
      <4>1. Read \in Nat /\ Read' = Read + 1 /\ state_r = "sIdle" /\ state_r' = "sSendMeta"
        BY <1>2, <3>2, StepReadLength, Typed DEF ReadLength
      <4> QED
        BY <4>1 DEF Emitted
    <3> QED
      BY <1>5, <3>1, <3>2
  <2>6. DispatchOK' /\ Taken' = Taken /\ Front' = Front
    BY <1>1, <1>2, <2>1, <2>2, <2>4, <2>5, DispatchStays
  <2> QED
    BY <1>1, <2>1, <2>4, <2>6, LanesNet
<1>6. CASE (SendMeta \/ SendData) /\ lens' = lens
  <2>1. IInv'
    BY <1>2, <1>6, StepSendMeta, StepSendData
  <2>2. DispatchOK' /\ Taken' = Taken /\ Front' = Front /\ msgs' = msgs
    BY <1>1, <1>2, <1>6, <2>1, DispatchFed
  <2>3. lost_length' = lost_length
    BY <1>6 DEF SendMeta, SendData, Forward
  <2>4. HeadersOK' /\ Longer(msgs, msgs') /\ Longer(lens, lens')
    BY <1>2, <1>4, <1>6, <2>2, <2>3 DEF HeadersOK
  <2> QED
    BY <1>1, <2>1, <2>2, <2>4, LanesNet
<1> QED
  BY <1>3, <1>5, <1>6 DEF NetWrite, NetRead

-----------------------------------------------------------------------------
LEMMA ReceiveStart == ReceiveInit => ReceiveInv
<1> SUFFICES ASSUME ReceiveInit PROVE ReceiveInv
  OBVIOUS
<1>1. Init /\ lens = <<>> /\ Deser!Init /\ de_idle = {} /\ split = "sIdle" /\ lane = 0 /\ dropped = <<>>
  BY DEF ReceiveInit
<1>2. IInv
  BY <1>1, NetInit
<1>3. /\ lane_meta = [l \in Lanes |-> <<>>] /\ lane_data = [l \in Lanes |-> <<>>]
      /\ lane_state = [l \in Lanes |-> "sIdle"] /\ meta_reg = [l \in Lanes |-> 0]
      /\ device_length = [l \in Lanes |-> 0] /\ delay_cnt = [l \in Lanes |-> 0]
      /\ meta_out = [l \in Lanes |-> <<>>] /\ device_data_out = [l \in Lanes |-> <<>>]
      /\ host_data_out = [l \in Lanes |-> <<>>]
  BY <1>1 DEF Deser!Init, Lanes
<1>4. RegsOK
  <2>1. \A S : <<>> \in Seq(S)
    OBVIOUS
  <2>2. "sIdle" \in LaneStates /\ 0 \in 0..(ACTIVE - 1)
    BY ActiveLanes DEF LaneStates
  <2> QED
    BY <1>1, <1>3, <2>1, <2>2 DEF RegsOK
<1>5. /\ meta_fifo = <<>> /\ data_fifo = <<>> /\ msgs = <<>> /\ state_r = "sIdle"
      /\ msg_length_fifo = <<>> /\ rx.msg = 0 /\ rx.pkg = 0
  BY <1>1 DEF Init
<1>6. Read = 0 /\ Out = <<1, 1>> /\ Emitted = 0 /\ Taken = 0 /\ Front = <<1, 1>>
  <2>1. Len(msgs) = 0 /\ Len(msg_length_fifo) = 0 /\ Len(meta_fifo) = 0
    BY <1>5
  <2>2. Read = 0
    BY <1>5, <2>1 DEF Read, Done, Busy, Newest
  <2>3. Out = <<Read + 1, 1>> /\ Emitted = Read
    BY <1>5 DEF Out, Emitted
  <2>4. Front = Out
    BY <1>5 DEF Front
  <2>5. Taken = Emitted - Len(meta_fifo)
    BY DEF Taken
  <2>6. 0 + 1 = 1 /\ 0 - 0 = 0
    OBVIOUS
  <2> QED
    BY <2>1, <2>2, <2>3, <2>4, <2>5, <2>6
<1>7. ~Moving
  BY <1>1 DEF Moving
<1>8. DispatchOK
  BY <1>1, <1>5, <1>6, <1>7 DEF DispatchOK, Chain
<1>9. ASSUME NEW l \in Lanes PROVE LaneOK(l)
  <2>1. /\ lane_meta[l] = <<>> /\ lane_data[l] = <<>> /\ lane_state[l] = "sIdle" /\ meta_reg[l] = 0
        /\ meta_out[l] = <<>> /\ device_data_out[l] = <<>>
    BY <1>3
  <2>2. Cells(msgs) = {}
    BY <1>5 DEF Cells
  <2>3. Elems(<<>>) = {} /\ Elems(Told(<<>>)) = {} /\ Rising(<<>>) /\ Rising(Told(<<>>))
    BY DEF Elems, Told, Rising
  <2>4. OrderOK("sIdle", <<>>, 0, <<>>, Taken)
    BY <1>6, <2>3 DEF OrderOK
  <2>5. CountOK(msgs, "sIdle", 0, device_length[l], <<>>)
    BY DEF CountOK
  <2>6. Holds(<<>>, {})
    BY DEF Holds
  <2>7. StockOK(msgs, <<>>, 0, Left("sIdle", device_length[l]), <<>>, Front)
    BY <2>2, <2>6 DEF StockOK, Owed, Rest, CellsOf, Ahead
  <2>8. LogOK(msgs, <<>>, 0, Left("sIdle", device_length[l]), <<>>)
    BY <2>2, <2>6 DEF LogOK, CellsOf
  <2>9. /\ GivenTo(l) = <<>>
        /\ device_data_out[l] \o lane_data[l] = <<>>
    <3>1. GivenTo(l) = Given("sIdle", 0, <<>>, <<>>)
      BY <2>1, GivenToIs
    <3>2. \A S : <<>> \in Seq(S) /\ Len(<<>>) = 0
      OBVIOUS
    <3>3. Told(<<>>) = <<>>
      BY DEF Told
    <3> QED
      BY <2>1, <3>1, <3>2, <3>3 DEF Given, InHand
  <2>10. StreamOK(msgs, {}, Front, <<>>)
    BY <2>2, <2>6 DEF StreamOK, CellsOf, Ahead
  <2>11. Lane(msgs, Taken, Front, "sIdle", <<>>, 0, device_length[l], <<>>, <<>>, <<>>)
    BY <2>4, <2>5, <2>7, <2>8 DEF Lane
  <2> QED
    BY <2>1, <2>3, <2>4, <2>9, <2>10, <2>11 DEF LaneOK
<1>10. ServeOK
  BY <1>1, <1>7 DEF ServeOK
<1>11. HeadersOK
  <2>1. lost_length = FALSE
    BY <1>1 DEF Init
  <2>2. Len(lens) = 0 /\ Len(msgs) = 0 /\ lens \in Seq(Nat)
    BY <1>1, <1>5
  <2>3. \A n \in 1..Len(msgs) : msgs[n] - lens[n] \in 8..71
    BY <2>2
  <2>4. lost_length \in BOOLEAN
    BY <2>1
  <2> QED
    BY <2>2, <2>3, <2>4 DEF HeadersOK
<1> QED
  BY <1>2, <1>4, <1>8, <1>9, <1>10, <1>11 DEF ReceiveInv

-----------------------------------------------------------------------------
(* The steps of SplitDe: what they take from the queues of NetToMem is     *)
(* what the component behind may take.                                     *)
LEMMA SplitNet ==
  ASSUME IInv, SplitFrame,
         \/ meta_fifo' = meta_fifo /\ data_fifo' = data_fifo
         \/ meta_fifo # <<>> /\ meta_fifo' = Tail(meta_fifo) /\ data_fifo' = data_fifo
         \/ data_fifo # <<>> /\ data_fifo' = Tail(data_fifo) /\ meta_fifo' = meta_fifo
  PROVE  IInv' /\ Out' = Out /\ Emitted' = Emitted /\ msgs' = msgs
<1>1. /\ msgs' = msgs /\ rx' = rx /\ recv_meta' = recv_meta /\ recv_length' = recv_length
      /\ state_aw' = state_aw /\ recv_data_fifo' = recv_data_fifo /\ msg_length_fifo' = msg_length_fifo
      /\ state_r' = state_r /\ r_length' = r_length /\ lost_length' = lost_length
  BY DEF SplitFrame, net_vars
<1>2. TakeMeta \/ TakeData \/ UNCHANGED vars
  BY <1>1 DEF TakeMeta, TakeData, vars, writer, reader, out
<1>3. IInv' /\ Read' = Read /\ Out' = Out
  BY <1>2, StepTake
<1> QED
  BY <1>1, <1>3 DEF Emitted

(* The dispatcher's registers, when the queues stay.                       *)
LEMMA StepChoose ==
  ASSUME ReceiveInv, SplitFrame, Split!SampleIdle \/ Split!Choose PROVE ReceiveInv'
<1>1. /\ meta_fifo' = meta_fifo /\ data_fifo' = data_fifo /\ dropped' = dropped
      /\ lane_meta' = lane_meta /\ lane_data' = lane_data
  BY DEF Split!SampleIdle, Split!Choose, Split!lane_vars
<1>2. /\ lane_state' = lane_state /\ meta_reg' = meta_reg /\ device_length' = device_length
      /\ delay_cnt' = delay_cnt /\ meta_out' = meta_out /\ device_data_out' = device_data_out
      /\ host_data_out' = host_data_out
  BY DEF SplitFrame, lane_regs, lane_outs
<1>3. IInv /\ HeadersOK /\ RegsOK /\ DispatchOK /\ ServeOK /\ msgs \in Seq(MsgLens)
  BY DEF ReceiveInv, IInv, TypeOK
<1>4. IInv' /\ Out' = Out /\ Emitted' = Emitted /\ msgs' = msgs
  BY <1>1, <1>3, SplitNet
<1>5. Taken' = Taken /\ Front' = Front
  BY <1>1, <1>4 DEF Taken, Front
<1>6. /\ split' \in {"sIdle", "sSendMeta", "sSendData", "sDropMeta", "sDropData"}
      /\ lane' \in 0..(ACTIVE - 1) /\ de_idle' \subseteq 0..(ACTIVE - 1)
      /\ Moving' = Moving /\ (Moving => split' = split /\ lane' = lane)
      /\ (split' = "sDropMeta" => split = "sDropMeta" \/ Len(meta_fifo) > DROP_LIMIT)
  <2>1. CASE Split!SampleIdle
    <3>1. split' = split /\ lane' = lane /\ de_idle' = Split!idle_out
      BY <2>1 DEF Split!SampleIdle
    <3>2. Split!idle_out \subseteq 0..(ACTIVE - 1)
      BY ReceiveAssumption DEF Split!idle_out, Split!Lanes
    <3> QED
      BY <1>3, <3>1, <3>2 DEF RegsOK, Moving
  <2>2. CASE Split!Choose
    <3>1. split = "sIdle" /\ de_idle' = de_idle
      BY <2>2 DEF Split!Choose
    <3>2. \/ split' = "sSendMeta" /\ lane' \in de_idle
          \/ split' = "sDropMeta" /\ lane' = lane /\ Len(meta_fifo) > DROP_LIMIT
      BY <2>2 DEF Split!Choose, Split!MayDrop
    <3>3. ~Moving /\ ~Moving'
      BY <3>1, <3>2 DEF Moving
    <3>4. Moving' = Moving
      BY <3>3 DEF Moving
    <3>5. lane' \in 0..(ACTIVE - 1) /\ de_idle' \subseteq 0..(ACTIVE - 1)
      BY <1>3, <3>1, <3>2 DEF RegsOK
    <3> QED
      BY <3>1, <3>2, <3>3, <3>4, <3>5
  <2> QED
    BY <2>1, <2>2
<1>7. RegsOK'
  BY <1>1, <1>2, <1>3, <1>6 DEF RegsOK
<1>8. DispatchOK'
  BY <1>1, <1>3, <1>4, <1>5, <1>6 DEF DispatchOK
<1>9. /\ HeadersOK' /\ Longer(msgs, msgs') /\ Longer(lens, lens') /\ Len(lens') \in Nat
      /\ lens' = lens
  BY <1>3, SameHeaders DEF SplitFrame
<1>10. \A l \in Lanes : GivenTo(l)' = GivenTo(l)
  BY <1>1, <1>2, GivenToIs
<1>11. ASSUME NEW l \in Lanes PROVE LaneOK(l)'
  <2>1. LaneOK(l) /\ RegsSame(l) /\ lane_meta'[l] = lane_meta[l] /\ lane_data'[l] = lane_data[l]
    BY <1>1, <1>2 DEF ReceiveInv, RegsSame
  <2>2. /\ OrderOK(lane_state[l], lane_meta[l], meta_reg[l], meta_out[l], Taken)
        /\ StreamOK(msgs, Elems(GivenTo(l)), Front, device_data_out[l] \o lane_data[l])
        /\ InStep(l) => Lane(msgs, Taken, Front, lane_state[l], lane_meta[l], meta_reg[l],
                             device_length[l], lane_data[l], meta_out[l], device_data_out[l])
    BY <2>1 DEF LaneOK
  <2> QED
    BY <1>3, <1>4, <1>5, <1>9, <1>10, <2>1, <2>2, LaneKeeps
<1>12. ServeOK'
  <2>1. Moving' => Moving /\ split' = split /\ lane' = lane
    BY <1>6
  <2> QED
    BY <1>3, <1>5, <1>10, <2>1 DEF ServeOK
<1> QED
  BY <1>4, <1>7, <1>8, <1>9, <1>11, <1>12 DEF ReceiveInv

(* A meta leaves the dispatcher's queue: the place of the data stays.      *)
LEMMA MetaTaken ==
  ASSUME IInv, DispatchOK, ~Moving, meta_fifo # <<>>, meta_fifo' = Tail(meta_fifo),
         data_fifo' = data_fifo, msgs' = msgs, Out' = Out, Emitted' = Emitted, Moving',
         split' # "sDropMeta"
  PROVE  /\ Head(meta_fifo) = Taken + 1 /\ Taken' = Taken + 1 /\ Front' = Front
         /\ Front = <<Taken + 1, 1>> /\ Taken + 1 <= Len(msgs)
         /\ DispatchOK'
<1>1. meta_fifo \in Seq(1..MaxMsg) /\ Taken \in Nat /\ Emitted \in Nat
  BY OutFacts DEF IInv, TypeOK, DispatchOK
<1>2. /\ Len(meta_fifo) \in Nat /\ Len(meta_fifo) > 0 /\ Len(meta_fifo') = Len(meta_fifo) - 1
      /\ Head(meta_fifo) = meta_fifo[1]
      /\ \A i \in 1..Len(meta_fifo') : meta_fifo'[i] = meta_fifo[i + 1]
  BY <1>1, Pop
<1>3. Taken + Len(meta_fifo) = Emitted /\ Taken + Len(meta_fifo) <= Len(msgs)
  BY FrontFacts
<1>4. Head(meta_fifo) = Taken + 1
  BY <1>2 DEF DispatchOK
<1>5. Taken' = Taken + 1
  <2>1. Taken' = Emitted - (Len(meta_fifo) - 1)
    BY <1>2 DEF Taken
  <2> QED
    BY <1>1, <1>2, <1>3, <2>1
<1>6. Front' = Front /\ Front = <<Taken + 1, 1>>
  BY DEF Front, DispatchOK
<1>7. Front'[1] = Taken'
  BY <1>5, <1>6
<1>8. ASSUME NEW i \in 1..Len(meta_fifo') PROVE meta_fifo'[i] = Taken' + i
  <2>1. i + 1 \in 1..Len(meta_fifo) /\ i \in Int
    BY <1>2
  <2>2. meta_fifo[i + 1] = Taken + (i + 1) /\ Taken + (i + 1) = (Taken + 1) + i
    BY <1>1, <2>1 DEF DispatchOK
  <2> QED
    BY <1>2, <1>5, <2>2
<1>9. Taken' \in Nat
  BY <1>1, <1>5
<1>10. Chain(data_fifo', Key, Succ(msgs'), Front', Out')
  BY <1>6 DEF DispatchOK
<1>11. DispatchOK'
  BY <1>7, <1>8, <1>9, <1>10 DEF DispatchOK
<1>12. Taken + 1 <= Len(msgs)
  <2>1. Len(msgs) \in Nat
    BY DEF IInv, TypeOK
  <2> QED
    BY <1>1, <1>2, <1>3, <2>1
<1> QED
  BY <1>4, <1>5, <1>6, <1>11, <1>12

(* A beat leaves the dispatcher's queue: the data moves one place on, to   *)
(* the next message after the beat that is marked.                         *)
LEMMA BeatTaken ==
  ASSUME IInv, DispatchOK, Moving, data_fifo # <<>>, data_fifo' = Tail(data_fifo),
         meta_fifo' = meta_fifo, msgs' = msgs, Out' = Out, Emitted' = Emitted,
         split' = IF Head(data_fifo).last THEN "sIdle" ELSE split
  PROVE  /\ Taken' = Taken /\ Front' = Succ(msgs)[Front] /\ Front \in Cells(msgs)
         /\ Front = Key[Head(data_fifo)] /\ Head(data_fifo) \in RawBeats /\ Front[1] = Taken
         /\ Moving' <=> ~Head(data_fifo).last
         /\ Moving' => Front'[1] = Taken
         /\ DispatchOK'
<1> DEFINE h == Head(data_fifo)
<1>1. /\ h \in RawBeats /\ Front = Key[h] /\ Front \in Cells(msgs)
      /\ h.last <=> Front[2] = BeatsOf(msgs, Front[1])
  BY FrontFacts
<1>2. data_fifo \in Seq(RawBeats) /\ msgs \in Seq(MsgLens) /\ Taken \in Nat /\ Front[1] = Taken
  BY DEF IInv, TypeOK, DispatchOK
<1>3. Taken' = Taken
  BY DEF Taken
<1>4. Chain(Tail(data_fifo), Key, Succ(msgs), Succ(msgs)[Front], Out)
  BY <1>2, ChainPop DEF DispatchOK
<1>5. Front' = Succ(msgs)[Front]
  <2>1. Tail(data_fifo) \in Seq(RawBeats)
    BY <1>2, Pop
  <2>2. Succ(msgs)[Front] = IF Tail(data_fifo) = <<>> THEN Out ELSE Key[Tail(data_fifo)[1]]
    BY <1>4, <2>1, ChainHead
  <2> QED
    BY <2>2 DEF Front
<1>6. Succ(msgs)[Front] = IF Front[2] = BeatsOf(msgs, Front[1]) THEN <<Front[1] + 1, 1>>
                          ELSE <<Front[1], Front[2] + 1>>
  BY <1>1, <1>2, SuccFacts
<1> HIDE DEF h
<1>7. Moving' <=> ~h.last
  BY DEF Moving, h
<1>8. CASE h.last
  <2>1. ~Moving' /\ Front' = <<Taken + 1, 1>>
    BY <1>1, <1>2, <1>5, <1>6, <1>7, <1>8
  <2>2. split' # "sDropMeta"
    BY <1>8 DEF h
  <2>3. DispatchOK'
    BY <1>2, <1>3, <1>4, <1>5, <2>1, <2>2 DEF DispatchOK
  <2> QED
    BY <1>1, <1>2, <1>3, <1>5, <1>7, <2>1, <2>3 DEF h
<1>9. CASE ~h.last
  <2>1. Moving' /\ Front'[1] = Taken
    BY <1>1, <1>2, <1>5, <1>6, <1>7, <1>9
  <2>2. split' # "sDropMeta"
    BY <2>1 DEF Moving
  <2>3. DispatchOK'
    BY <1>2, <1>3, <1>4, <1>5, <2>1, <2>2 DEF DispatchOK
  <2> QED
    BY <1>1, <1>2, <1>3, <1>5, <1>7, <2>1, <2>3 DEF h
<1> QED
  BY <1>8, <1>9

(* A lane the dispatcher passes by when it takes a meta.                   *)
LEMMA LanePasses ==
  ASSUME HeadersOK, Longer(msgs, msgs'), Longer(lens, lens'), Len(lens') \in Nat,
         msgs \in Seq(MsgLens), msgs' = msgs, RegsOK, Taken \in 0..Len(msgs),
         Taken' = Taken + 1, Front' = Front, NEW l \in Lanes, LaneOK(l), RegsSame(l),
         lane_meta'[l] = lane_meta[l], lane_data'[l] = lane_data[l], GivenTo(l)' = GivenTo(l)
  PROVE  LaneOK(l)'
<1>1. Taken \in Nat /\ Taken + 1 \in Nat /\ Taken <= Taken + 1 /\ meta_out[l] \in Seq(Metas)
  BY LaneTyped
<1>2. OrderOK(lane_state[l], lane_meta[l], meta_reg[l], meta_out[l], Taken + 1)
  BY <1>1, OrderGrow DEF LaneOK
<1>3. StreamOK(msgs, Elems(GivenTo(l)), Front, device_data_out[l] \o lane_data[l])
  BY DEF LaneOK
<1>4. InStep(l) => Lane(msgs, Taken + 1, Front, lane_state[l], lane_meta[l], meta_reg[l],
                        device_length[l], lane_data[l], meta_out[l], device_data_out[l])
  BY <1>1, LaneGrow DEF LaneOK
<1> QED
  BY <1>2, <1>3, <1>4, LaneKeeps

(* A meta that leaves the dispatcher, for the lane it serves or for none.  *)
LEMMA StepGive ==
  ASSUME ReceiveInv, SplitFrame, Split!SendMeta PROVE ReceiveInv'
<1>1. /\ split = "sSendMeta" /\ meta_fifo # <<>> /\ meta_fifo' = Tail(meta_fifo)
      /\ lane_meta' = [lane_meta EXCEPT ![lane] = Append(@, Head(meta_fifo))]
      /\ split' = "sSendData" /\ data_fifo' = data_fifo /\ de_idle' = de_idle /\ lane' = lane
      /\ lane_data' = lane_data /\ dropped' = dropped
  BY DEF Split!SendMeta
<1>2. /\ lane_state' = lane_state /\ meta_reg' = meta_reg /\ device_length' = device_length
      /\ delay_cnt' = delay_cnt /\ meta_out' = meta_out /\ device_data_out' = device_data_out
      /\ host_data_out' = host_data_out
  BY DEF SplitFrame, lane_regs, lane_outs
<1>3. IInv /\ HeadersOK /\ RegsOK /\ DispatchOK /\ msgs \in Seq(MsgLens) /\ lane \in Lanes
  BY ActiveLanes DEF ReceiveInv, IInv, TypeOK, RegsOK
<1>4. IInv' /\ Out' = Out /\ Emitted' = Emitted /\ msgs' = msgs
  BY <1>1, <1>3, SplitNet
<1>5. ~Moving /\ Moving'
  BY <1>1 DEF Moving
<1>6. /\ Head(meta_fifo) = Taken + 1 /\ Taken' = Taken + 1 /\ Front' = Front
      /\ Front = <<Taken + 1, 1>> /\ Taken + 1 <= Len(msgs) /\ DispatchOK'
  BY <1>1, <1>3, <1>4, <1>5, MetaTaken
<1>7. Taken \in 0..Len(msgs) /\ Taken \in Nat /\ Taken + 1 \in Nat /\ Taken <= Taken + 1
  BY <1>3, FrontFacts
<1>8. /\ lane_meta'[lane] = Append(lane_meta[lane], Taken + 1)
      /\ \A l \in Lanes : l # lane => lane_meta'[l] = lane_meta[l]
      /\ lane_meta' \in [Lanes -> Seq(Nat)]
  <2>1. lane_meta \in [Lanes -> Seq(Nat)] /\ lane_meta[lane] \in Seq(Nat)
    BY <1>3 DEF RegsOK
  <2>2. Append(lane_meta[lane], Taken + 1) \in Seq(Nat)
    BY <1>7, <2>1, Push
  <2> QED
    BY <1>1, <1>3, <1>6, <2>1, <2>2
<1>9. RegsOK'
  BY <1>1, <1>2, <1>3, <1>8 DEF RegsOK
<1>10. /\ HeadersOK' /\ Longer(msgs, msgs') /\ Longer(lens, lens') /\ Len(lens') \in Nat
  BY <1>3, SameHeaders DEF SplitFrame
<1>11. ASSUME NEW l \in Lanes, l = lane
       PROVE  LaneOK(l)' /\ Elems(GivenTo(l)') = Elems(GivenTo(l)) \cup {Taken + 1}
  <2> DEFINE w == lane_meta[l]
             v == Append(w, Taken + 1)
  <2>1. /\ w \in Seq(Nat) /\ meta_out[l] \in Seq(Metas) /\ meta_reg[l] \in Nat /\ LaneOK(l)
        /\ RegsSame(l) /\ lane_meta'[l] = v /\ lane_data'[l] = lane_data[l]
    BY <1>1, <1>2, <1>3, <1>8, <1>11, LaneTyped DEF ReceiveInv, RegsSame
  <2>2. OrderOK(lane_state[l], v, meta_reg[l], meta_out[l], Taken + 1)
    BY <1>7, <2>1, OrderGive DEF LaneOK
  <2>3. Elems(GivenTo(l)') = Elems(GivenTo(l)) \cup {Taken + 1}
    <3>1. GivenTo(l)' = Append(GivenTo(l), Taken + 1)
      <4>1. Given(lane_state[l], meta_reg[l], v, meta_out[l])
              = Append(Given(lane_state[l], meta_reg[l], w, meta_out[l]), Taken + 1)
        BY <1>7, <2>1, GivenPush
      <4> QED
        BY <1>2, <2>1, <4>1, GivenToIs
    <3>2. GivenTo(l) \in Seq(Nat)
      BY <1>3, GivenIsSeq
    <3> QED
      BY <1>7, <3>1, <3>2, ElemsPush
  <2>4. StreamOK(msgs, Elems(GivenTo(l)) \cup {Taken + 1}, Front, device_data_out[l] \o lane_data[l])
    BY <1>3, <1>6, <1>7, <2>1, StreamGive DEF LaneOK
  <2>5. InStep(l) => Lane(msgs, Taken + 1, Front, lane_state[l], v, meta_reg[l], device_length[l],
                          lane_data[l], meta_out[l], device_data_out[l])
    BY <1>3, <1>6, <1>7, <2>1, LaneGive DEF LaneOK
  <2> HIDE DEF v
  <2> QED
    BY <1>3, <1>4, <1>6, <1>10, <2>1, <2>2, <2>3, <2>4, <2>5, LaneKeeps
<1>12. ASSUME NEW l \in Lanes, l # lane PROVE LaneOK(l)' /\ GivenTo(l)' = GivenTo(l)
  <2>1. /\ LaneOK(l) /\ RegsSame(l) /\ lane_meta'[l] = lane_meta[l] /\ lane_data'[l] = lane_data[l]
    BY <1>1, <1>2, <1>8, <1>12 DEF ReceiveInv, RegsSame
  <2>2. GivenTo(l)' = GivenTo(l)
    BY <1>2, <2>1, GivenToIs
  <2> QED
    BY <1>3, <1>4, <1>6, <1>7, <1>10, <2>1, <2>2, LanePasses
<1>13. ServeOK'
  <2>1. ASSUME NEW l \in Lanes, l # lane PROVE Taken + 1 \notin Elems(GivenTo(l)')
    <3>1. LaneOK(l)
      BY DEF ReceiveInv
    <3>2. Elems(GivenTo(l)) \subseteq 1..Taken
      BY <1>3, <1>7, <3>1, GivenFacts
    <3>3. Taken + 1 \notin 1..Taken
      BY <1>7
    <3> QED
      BY <1>12, <2>1, <3>2, <3>3
  <2>2. ASSUME NEW l \in Lanes PROVE Taken + 1 \in Elems(GivenTo(l)') <=> l = lane
    BY <1>11, <2>1
  <2> QED
    BY <1>1, <1>6, <2>2 DEF ServeOK
<1> QED
  BY <1>4, <1>6, <1>9, <1>10, <1>11, <1>12, <1>13 DEF ReceiveInv

LEMMA StepDropMeta ==
  ASSUME ReceiveInv, SplitFrame, Split!DropMeta PROVE ReceiveInv'
<1>1. /\ split = "sDropMeta" /\ meta_fifo # <<>> /\ meta_fifo' = Tail(meta_fifo)
      /\ dropped' = Append(dropped, Head(meta_fifo))
      /\ split' = "sDropData" /\ data_fifo' = data_fifo /\ de_idle' = de_idle /\ lane' = lane
      /\ lane_data' = lane_data /\ lane_meta' = lane_meta
  BY DEF Split!DropMeta, Split!lane_vars
<1>2. /\ lane_state' = lane_state /\ meta_reg' = meta_reg /\ device_length' = device_length
      /\ delay_cnt' = delay_cnt /\ meta_out' = meta_out /\ device_data_out' = device_data_out
      /\ host_data_out' = host_data_out
  BY DEF SplitFrame, lane_regs, lane_outs
<1>3. IInv /\ HeadersOK /\ RegsOK /\ DispatchOK /\ msgs \in Seq(MsgLens) /\ lane \in Lanes
  BY ActiveLanes DEF ReceiveInv, IInv, TypeOK, RegsOK
<1>4. IInv' /\ Out' = Out /\ Emitted' = Emitted /\ msgs' = msgs
  BY <1>1, <1>3, SplitNet
<1>5. ~Moving /\ Moving'
  BY <1>1 DEF Moving
<1>6. /\ Head(meta_fifo) = Taken + 1 /\ Taken' = Taken + 1 /\ Front' = Front
      /\ Front = <<Taken + 1, 1>> /\ Taken + 1 <= Len(msgs) /\ DispatchOK'
  BY <1>1, <1>3, <1>4, <1>5, MetaTaken
<1>7. Taken \in 0..Len(msgs) /\ Taken \in Nat /\ Taken + 1 \in Nat /\ Taken <= Taken + 1
  BY <1>3, FrontFacts
<1>8. dropped' \in Seq(Nat)
  BY <1>1, <1>3, <1>6, <1>7, Push DEF RegsOK
<1>9. RegsOK'
  BY <1>1, <1>2, <1>3, <1>8 DEF RegsOK
<1>10. /\ HeadersOK' /\ Longer(msgs, msgs') /\ Longer(lens, lens') /\ Len(lens') \in Nat
  BY <1>3, SameHeaders DEF SplitFrame
<1>11. ASSUME NEW l \in Lanes PROVE LaneOK(l)' /\ GivenTo(l)' = GivenTo(l)
  <2>1. /\ LaneOK(l) /\ RegsSame(l) /\ lane_meta'[l] = lane_meta[l] /\ lane_data'[l] = lane_data[l]
    BY <1>1, <1>2 DEF ReceiveInv, RegsSame
  <2>2. GivenTo(l)' = GivenTo(l)
    BY <1>2, <2>1, GivenToIs
  <2> QED
    BY <1>3, <1>4, <1>6, <1>7, <1>10, <2>1, <2>2, LanePasses
<1>12. ServeOK'
  <2>1. ASSUME NEW l \in Lanes PROVE Taken + 1 \notin Elems(GivenTo(l)')
    <3>1. LaneOK(l)
      BY DEF ReceiveInv
    <3>2. Elems(GivenTo(l)) \subseteq 1..Taken
      BY <1>3, <1>7, <3>1, GivenFacts
    <3>3. Taken + 1 \notin 1..Taken
      BY <1>7
    <3> QED
      BY <1>11, <3>2, <3>3
  <2> QED
    BY <1>1, <1>6, <2>1 DEF ServeOK
<1> QED
  BY <1>4, <1>6, <1>9, <1>10, <1>11, <1>12 DEF ReceiveInv

(* A beat that leaves the dispatcher, for the lane it serves or for none.  *)
LEMMA StepMoveBeat ==
  ASSUME ReceiveInv, SplitFrame, Split!SendData \/ Split!DropData PROVE ReceiveInv'
<1> DEFINE h == Head(data_fifo)
<1>1. /\ Moving /\ data_fifo # <<>> /\ data_fifo' = Tail(data_fifo)
      /\ meta_fifo' = meta_fifo /\ de_idle' = de_idle /\ lane' = lane /\ dropped' = dropped
      /\ lane_meta' = lane_meta
      /\ split' = IF h.last THEN "sIdle" ELSE split
      /\ split = "sSendData" => lane_data' = [lane_data EXCEPT ![lane] = Append(@, h)]
      /\ split # "sSendData" => lane_data' = lane_data
  BY DEF Split!SendData, Split!DropData, Split!EndsRpc, Split!DropNext, Split!lane_vars, Moving
<1>2. /\ lane_state' = lane_state /\ meta_reg' = meta_reg /\ device_length' = device_length
      /\ delay_cnt' = delay_cnt /\ meta_out' = meta_out /\ device_data_out' = device_data_out
      /\ host_data_out' = host_data_out
  BY DEF SplitFrame, lane_regs, lane_outs
<1>3. IInv /\ HeadersOK /\ RegsOK /\ DispatchOK /\ ServeOK /\ msgs \in Seq(MsgLens) /\ lane \in Lanes
  BY ActiveLanes DEF ReceiveInv, IInv, TypeOK, RegsOK
<1>4. IInv' /\ Out' = Out /\ Emitted' = Emitted /\ msgs' = msgs
  BY <1>1, <1>3, SplitNet
<1>5. /\ Taken' = Taken /\ Front' = Succ(msgs)[Front] /\ Front \in Cells(msgs)
      /\ Front = Key[h] /\ h \in RawBeats /\ Front[1] = Taken
      /\ Moving' <=> ~h.last
      /\ Moving' => Front'[1] = Taken
      /\ DispatchOK'
  BY <1>1, <1>3, <1>4, BeatTaken
<1> HIDE DEF h
<1>6. /\ split = "sSendData" => lane_data'[lane] = Append(lane_data[lane], h)
      /\ \A l \in Lanes : ~(split = "sSendData" /\ l = lane) => lane_data'[l] = lane_data[l]
      /\ lane_data' \in [Lanes -> Seq(RawBeats)]
  <2>1. lane_data \in [Lanes -> Seq(RawBeats)] /\ lane_data[lane] \in Seq(RawBeats)
    BY <1>3 DEF RegsOK
  <2>2. Append(lane_data[lane], h) \in Seq(RawBeats)
    BY <1>5, <2>1, Push
  <2>3. CASE split = "sSendData"
    <3>1. lane_data' = [lane_data EXCEPT ![lane] = Append(@, h)]
      BY <1>1, <2>3
    <3> QED
      BY <1>3, <2>1, <2>2, <2>3, <3>1
  <2>4. CASE split # "sSendData"
    BY <1>1, <2>1, <2>4
  <2> QED
    BY <2>3, <2>4
<1>7. RegsOK'
  <2>1. split' \in {"sIdle", "sSendMeta", "sSendData", "sDropMeta", "sDropData"}
    BY <1>1, <1>3 DEF RegsOK
  <2> QED
    BY <1>1, <1>2, <1>3, <1>6, <2>1 DEF RegsOK
<1>8. \A l \in Lanes : GivenTo(l)' = GivenTo(l)
  BY <1>1, <1>2, GivenToIs
<1>9. /\ HeadersOK' /\ Longer(msgs, msgs') /\ Longer(lens, lens') /\ Len(lens') \in Nat
  BY <1>3, SameHeaders DEF SplitFrame
<1>10. Taken \in 0..Len(msgs)
  BY <1>3, FrontFacts
<1>11. ASSUME NEW l \in Lanes PROVE LaneOK(l)'
  <2> DEFINE st == lane_state[l]
             w == lane_meta[l]
             o == meta_reg[l]
             dl == device_length[l]
             q == lane_data[l]
             mo == meta_out[l]
             p == device_data_out[l]
             G == Elems(GivenTo(l))
             mine == split = "sSendData" /\ l = lane
  <2>1. /\ w \in Seq(Nat) /\ q \in Seq(RawBeats) /\ st \in LaneStates /\ o \in Nat /\ dl \in Nat
        /\ mo \in Seq(Metas) /\ p \in Seq(RawBeats) /\ p \o q \in Seq(RawBeats)
    BY <1>3, LaneTyped, Joined
  <2>2. LaneOK(l) /\ RegsSame(l) /\ lane_meta'[l] = w
    BY <1>1, <1>2 DEF ReceiveInv, RegsSame
  <2>3. /\ OrderOK(st, w, o, mo, Taken) /\ StreamOK(msgs, G, Front, p \o q)
        /\ InStep(l) => Lane(msgs, Taken, Front, st, w, o, dl, q, mo, p)
    BY <2>2 DEF LaneOK
  <2>4. Front[1] \in G <=> mine
    BY <1>1, <1>3, <1>5 DEF ServeOK
  <2>5. ASSUME InStep(l) PROVE Front \in Owed(msgs, w, o, Left(st, dl)) <=> mine
    <3>1. G = Elems(Given(st, o, w, mo))
      BY GivenToIs
    <3>2. Front \in Owed(msgs, w, o, Left(st, dl)) <=> Front[1] \in Elems(Given(st, o, w, mo))
      BY <1>3, <1>5, <1>10, <2>1, <2>3, <2>5, <3>1, OwedIff
    <3> QED
      BY <2>4, <3>1, <3>2
  <2>6. /\ mine => lane_data'[l] = Append(q, h)
        /\ ~mine => lane_data'[l] = q
    BY <1>6
  <2> HIDE DEF st, w, o, dl, q, mo, p, G, mine
  <2>7. CASE mine
    <3>1. StreamOK(msgs, G, Succ(msgs)[Front], Append(p \o q, h))
      BY <1>3, <1>5, <2>1, <2>3, <2>4, <2>7, StreamBeat
    <3>2. p \o Append(q, h) = Append(p \o q, h)
      BY <1>5, <2>1, JoinAppend
    <3>3. InStep(l) => Lane(msgs, Taken, Succ(msgs)[Front], st, w, o, dl, Append(q, h), mo, p)
      BY <1>3, <1>5, <2>1, <2>3, <2>5, <2>7, LaneBeat
    <3>4. /\ StreamOK(msgs', Elems(GivenTo(l)'), Front', p \o lane_data'[l])
          /\ OrderOK(st, w, o, mo, Taken')
          /\ InStep(l) => Lane(msgs', Taken', Front', st, w, o, dl, lane_data'[l], mo, p)
      BY <1>4, <1>5, <1>8, <2>3, <2>6, <2>7, <3>1, <3>2, <3>3 DEF G
    <3> QED
      BY <1>3, <1>9, <2>2, <3>4, LaneKeeps DEF st, w, o, dl, mo, p
  <2>8. CASE ~mine
    <3>1. StreamOK(msgs, G, Succ(msgs)[Front], p \o q)
      BY <1>3, <1>5, <2>3, <2>4, <2>8, StreamSkip
    <3>2. InStep(l) => Lane(msgs, Taken, Succ(msgs)[Front], st, w, o, dl, q, mo, p)
      BY <1>3, <1>5, <2>3, <2>5, <2>8, LaneSkip
    <3>3. /\ StreamOK(msgs', Elems(GivenTo(l)'), Front', p \o lane_data'[l])
          /\ OrderOK(st, w, o, mo, Taken')
          /\ InStep(l) => Lane(msgs', Taken', Front', st, w, o, dl, lane_data'[l], mo, p)
      BY <1>4, <1>5, <1>8, <2>3, <2>6, <2>8, <3>1, <3>2 DEF G
    <3> QED
      BY <1>3, <1>9, <2>2, <3>3, LaneKeeps DEF st, w, o, dl, mo, p
  <2> QED
    BY <2>7, <2>8
<1>12. ServeOK'
  <2>1. Moving' => Moving /\ split' = split
    BY <1>1, <1>5
  <2> QED
    BY <1>1, <1>3, <1>5, <1>8, <2>1 DEF ServeOK
<1> QED
  BY <1>4, <1>5, <1>7, <1>9, <1>11, <1>12 DEF ReceiveInv

-----------------------------------------------------------------------------
(* The steps of a lane: the other lanes and the dispatcher do not move,    *)
(* and the lane keeps what it was given.                                   *)
LaneVars(l) == <<lane_state[l], lane_meta[l], meta_reg[l], device_length[l], lane_data[l],
                 meta_out[l], device_data_out[l]>>

LEMMA LanesStep ==
  ASSUME ReceiveInv, NEW l \in Lanes, UNCHANGED <<net_vars, meta_fifo, data_fifo, split_vars>>,
         RegsOK', SameGiven,
         OrderOK(lane_state'[l], lane_meta'[l], meta_reg'[l], meta_out'[l], Taken),
         device_data_out'[l] \o lane_data'[l] = device_data_out[l] \o lane_data[l],
         lane_state'[l] = "sIdle" => meta_reg'[l] = 0 \/ meta_reg'[l] \in Elems(Told(meta_out'[l])),
         Begun(l) \subseteq Begun(l)' \cup {0},
         InStep(l) /\ InStep(l)' =>
           Lane(msgs, Taken, Front, lane_state'[l], lane_meta'[l], meta_reg'[l], device_length'[l],
                lane_data'[l], meta_out'[l], device_data_out'[l]),
         \A k \in Lanes : k # l => LaneVars(k)' = LaneVars(k)
  PROVE  ReceiveInv'
<1>1. /\ msgs' = msgs /\ rx' = rx /\ recv_meta' = recv_meta /\ recv_length' = recv_length
      /\ state_aw' = state_aw /\ recv_data_fifo' = recv_data_fifo /\ msg_length_fifo' = msg_length_fifo
      /\ state_r' = state_r /\ r_length' = r_length /\ meta_fifo' = meta_fifo /\ data_fifo' = data_fifo
      /\ de_idle' = de_idle /\ split' = split /\ lane' = lane /\ dropped' = dropped
      /\ lost_length' = lost_length
  BY DEF net_vars, split_vars
<1>2. IInv /\ HeadersOK /\ DispatchOK /\ ServeOK
  BY DEF ReceiveInv
<1>3. IInv' /\ Out' = Out /\ Read' = Read
  <2>1. UNCHANGED vars
    BY <1>1 DEF vars, writer, reader, out
  <2> QED
    BY <1>2, <2>1, StepTake
<1>4. Emitted' = Emitted /\ Taken' = Taken /\ Front' = Front /\ Moving' = Moving
  BY <1>1, <1>3 DEF Emitted, Taken, Front, Moving
<1>5. DispatchOK'
  BY <1>1, <1>2, <1>3, <1>4 DEF DispatchOK
<1>6. /\ HeadersOK' /\ Longer(msgs, msgs') /\ Longer(lens, lens') /\ Len(lens') \in Nat
  BY <1>2, SameHeaders
<1>7. \A k \in Lanes : GivenTo(k)' = GivenTo(k)
  BY DEF SameGiven
<1>8. ASSUME NEW k \in Lanes, k # l PROVE LaneOK(k)'
  <2>1. /\ LaneOK(k) /\ RegsSame(k) /\ lane_meta'[k] = lane_meta[k] /\ lane_data'[k] = lane_data[k]
    BY <1>8 DEF ReceiveInv, LaneVars, RegsSame
  <2>2. /\ OrderOK(lane_state[k], lane_meta[k], meta_reg[k], meta_out[k], Taken)
        /\ StreamOK(msgs, Elems(GivenTo(k)), Front, device_data_out[k] \o lane_data[k])
        /\ InStep(k) => Lane(msgs, Taken, Front, lane_state[k], lane_meta[k], meta_reg[k],
                             device_length[k], lane_data[k], meta_out[k], device_data_out[k])
    BY <2>1 DEF LaneOK
  <2> QED
    BY <1>1, <1>2, <1>4, <1>6, <1>7, <2>1, <2>2, LaneKeeps
<1>9. LaneOK(l)'
  <2>1. InStep(l)' => InStep(l)
    BY <1>2, <1>6, StepBack
  <2>2. StreamOK(msgs, Elems(GivenTo(l)), Front, device_data_out[l] \o lane_data[l])
    BY DEF ReceiveInv, LaneOK
  <2> QED
    BY <1>1, <1>4, <1>7, <2>1, <2>2 DEF LaneOK
<1>10. ServeOK'
  BY <1>1, <1>2, <1>4, <1>7 DEF ServeOK
<1> QED
  BY <1>3, <1>5, <1>6, <1>8, <1>9, <1>10 DEF ReceiveInv

LEMMA StepTakeMeta ==
  ASSUME ReceiveInv, NEW l \in Lanes, UNCHANGED <<net_vars, meta_fifo, data_fifo, split_vars>>,
         Deser!Idle(l)
  PROVE  ReceiveInv'
<1> DEFINE w == lane_meta[l]
           r == Head(w)
           dl == Deser!Round64(lens[r])
<1>1. /\ lane_state[l] = "sIdle" /\ w # <<>>
      /\ meta_reg' = [meta_reg EXCEPT ![l] = r]
      /\ lane_meta' = [lane_meta EXCEPT ![l] = Tail(@)]
      /\ lane_state' = [lane_state EXCEPT ![l] = "sDelay"]
      /\ device_length' = [device_length EXCEPT ![l] = dl]
      /\ lane_data' = lane_data /\ delay_cnt' = delay_cnt /\ meta_out' = meta_out
      /\ device_data_out' = device_data_out /\ host_data_out' = host_data_out
  BY DEF Deser!Idle, Deser!out_vars
<1>2. /\ msgs' = msgs /\ split' = split /\ lane' = lane /\ de_idle' = de_idle /\ dropped' = dropped
      /\ HeadersOK /\ RegsOK /\ msgs \in Seq(MsgLens) /\ Taken \in 0..Len(msgs) /\ Taken \in Nat
  BY LaneFrame
<1>3. w \in Seq(Nat) /\ meta_out[l] \in Seq(Metas) /\ meta_reg[l] \in Nat /\ LaneOK(l)
  BY <1>2, LaneTyped DEF ReceiveInv
<1>4. OrderOK("sDelay", Tail(w), r, meta_out[l], Taken) /\ r \in 1..Taken
  BY <1>1, <1>2, <1>3, OrderTake DEF LaneOK
<1>5. r \in 1..Len(msgs) /\ r \in Nat
  BY <1>2, <1>4
<1>6. dl \in Nat /\ (~Costs(r) => dl = 64 * BeatsOf(msgs, r))
  BY <1>2, <1>5, HeaderBeats
<1>7. Tail(w) \in Seq(Nat) /\ "sDelay" \in LaneStates
  BY <1>1, <1>3, Pop DEF LaneStates
<1> HIDE DEF dl, r
<1>8. RegsOK'
  <2>1. /\ meta_reg \in [Lanes -> Nat] /\ lane_meta \in [Lanes -> Seq(Nat)]
        /\ lane_state \in [Lanes -> LaneStates] /\ device_length \in [Lanes -> Nat]
    BY <1>2 DEF RegsOK
  <2>2. meta_reg' \in [Lanes -> Nat] /\ device_length' \in [Lanes -> Nat]
    BY <1>1, <1>5, <1>6, <2>1
  <2>3. lane_meta' \in [Lanes -> Seq(Nat)] /\ lane_state' \in [Lanes -> LaneStates]
    BY <1>1, <1>7, <2>1
  <2> QED
    BY <1>1, <1>2, <2>2, <2>3 DEF RegsOK
<1>9. /\ meta_reg'[l] = r /\ lane_meta'[l] = Tail(w) /\ lane_state'[l] = "sDelay"
      /\ device_length'[l] = dl
  BY <1>1, <1>2 DEF RegsOK
<1>10. \A k \in Lanes : k # l => LaneVars(k)' = LaneVars(k)
  BY <1>1, <1>2 DEF RegsOK, LaneVars
<1>11. /\ Begun(l) = Elems(Told(meta_out[l])) \cup {meta_reg[l]}
       /\ Begun(l)' = Elems(Told(meta_out[l])) \cup {r}
  BY <1>1, <1>3, <1>9, BegunIs
<1>12. Begun(l) \subseteq Begun(l)' \cup {0}
  BY <1>1, <1>3, <1>11 DEF LaneOK
<1>13. ASSUME InStep(l), InStep(l)'
       PROVE  Lane(msgs, Taken, Front, "sDelay", Tail(w), r, dl, lane_data[l], meta_out[l],
                   device_data_out[l])
  <2>1. ~Costs(r)
    <3>1. lens' = lens
      BY <1>2, SameHeaders
    <3>2. \A n \in Begun(l)' : ~(n \in 1..Len(lens') /\ msgs'[n] - lens'[n] >= 64)
      BY <1>13 DEF InStep, Costs
    <3> QED
      BY <1>2, <1>11, <3>1, <3>2 DEF Costs
  <2>2. Lane(msgs, Taken, Front, "sIdle", w, meta_reg[l], device_length[l], lane_data[l], meta_out[l],
             device_data_out[l])
    BY <1>1, <1>3, <1>13 DEF LaneOK
  <2>3. Lane(msgs, Taken, Front, "sDelay", Tail(w), r, 64 * BeatsOf(msgs, r), lane_data[l],
             meta_out[l], device_data_out[l])
    BY <1>1, <1>2, <1>3, <2>2, LaneTake DEF r
  <2> QED
    BY <1>6, <2>1, <2>3
<1>14. SameGiven
  BY LaneMaps
<1> QED
  BY <1>1, <1>4, <1>8, <1>9, <1>10, <1>12, <1>13, <1>14, LanesStep

LEMMA StepDelay ==
  ASSUME ReceiveInv, NEW l \in Lanes, UNCHANGED <<net_vars, meta_fifo, data_fifo, split_vars>>,
         Deser!Delay(l)
  PROVE  ReceiveInv'
<1>1. /\ lane_state[l] = "sDelay"
      /\ lane_data' = lane_data /\ lane_meta' = lane_meta /\ meta_out' = meta_out
      /\ meta_reg' = meta_reg /\ device_length' = device_length
      /\ device_data_out' = device_data_out /\ host_data_out' = host_data_out
  BY DEF Deser!Delay, Deser!fifos, Deser!out_vars
<1>2. /\ msgs' = msgs /\ split' = split /\ lane' = lane /\ de_idle' = de_idle /\ dropped' = dropped
      /\ Taken' = Taken /\ Front' = Front /\ HeadersOK /\ RegsOK
  BY LaneFrame
<1>3. \/ lane_state' = [lane_state EXCEPT ![l] = "sSendMeta"]
         /\ delay_cnt' = [delay_cnt EXCEPT ![l] = 0]
      \/ lane_state' = lane_state /\ delay_cnt' = [delay_cnt EXCEPT ![l] = @ + 1]
  BY DEF Deser!Delay
<1>4. RegsOK'
  <2>1. "sSendMeta" \in LaneStates /\ delay_cnt[l] + 1 \in Nat
    BY <1>2, LaneTyped DEF LaneStates
  <2>2. lane_state' \in [Lanes -> LaneStates] /\ delay_cnt' \in [Lanes -> Nat]
    <3>1. lane_state \in [Lanes -> LaneStates] /\ delay_cnt \in [Lanes -> Nat]
      BY <1>2 DEF RegsOK
    <3>2. lane_state' \in [Lanes -> LaneStates]
      BY <1>3, <2>1, <3>1
    <3>3. delay_cnt' = [delay_cnt EXCEPT ![l] = 0] \/ delay_cnt' = [delay_cnt EXCEPT ![l] = @ + 1]
      BY <1>3
    <3> HIDE <1>3
    <3>4. delay_cnt' \in [Lanes -> Nat]
      BY <2>1, <3>1, <3>3
    <3> QED
      BY <3>2, <3>4
  <2> QED
    BY <1>1, <1>2, <2>2 DEF RegsOK
<1>5. /\ \A k \in Lanes : k # l => lane_state'[k] = lane_state[k]
      /\ lane_state'[l] \in {"sDelay", "sSendMeta"}
  BY <1>1, <1>2, <1>3 DEF RegsOK
<1>6. \A k \in Lanes : k # l => LaneVars(k)' = LaneVars(k)
  BY <1>1, <1>5 DEF LaneVars
<1>7. OrderOK("sDelay", lane_meta[l], meta_reg[l], meta_out[l], Taken)
      /\ OrderOK("sSendMeta", lane_meta[l], meta_reg[l], meta_out[l], Taken)
  BY <1>1, OrderNext DEF ReceiveInv, LaneOK
<1>8. ASSUME InStep(l)
      PROVE  /\ Lane(msgs, Taken, Front, "sDelay", lane_meta[l], meta_reg[l], device_length[l],
                     lane_data[l], meta_out[l], device_data_out[l])
             /\ Lane(msgs, Taken, Front, "sSendMeta", lane_meta[l], meta_reg[l], device_length[l],
                     lane_data[l], meta_out[l], device_data_out[l])
  BY <1>1, <1>8, LaneDelay DEF ReceiveInv, LaneOK
<1>9. /\ OrderOK(lane_state'[l], lane_meta'[l], meta_reg'[l], meta_out'[l], Taken)
      /\ InStep(l) => Lane(msgs, Taken, Front, lane_state'[l], lane_meta'[l], meta_reg'[l],
                           device_length'[l], lane_data'[l], meta_out'[l], device_data_out'[l])
      /\ lane_state'[l] # "sIdle"
  <2>1. CASE lane_state'[l] = "sDelay"
    BY <1>1, <1>7, <1>8, <2>1
  <2>2. CASE lane_state'[l] = "sSendMeta"
    BY <1>1, <1>7, <1>8, <2>2
  <2> QED
    BY <1>5, <2>1, <2>2
<1>10. Begun(l)' = Begun(l) /\ SameGiven
  BY <1>1, LaneMaps DEF Begun
<1> QED
  BY <1>1, <1>4, <1>6, <1>9, <1>10, LanesStep

LEMMA StepAnnounce ==
  ASSUME ReceiveInv, NEW l \in Lanes, UNCHANGED <<net_vars, meta_fifo, data_fifo, split_vars>>,
         Deser!SendMeta(l)
  PROVE  ReceiveInv'
<1> DEFINE m == [rpc |-> meta_reg[l], host_length |-> 64, device_length |-> device_length[l]]
<1>1. /\ lane_state[l] = "sSendMeta" /\ lane_state' = [lane_state EXCEPT ![l] = "sSendDevice"]
      /\ meta_out' = [meta_out EXCEPT ![l] = Append(@, m)]
      /\ lane_data' = lane_data /\ lane_meta' = lane_meta /\ delay_cnt' = delay_cnt
      /\ meta_reg' = meta_reg /\ device_length' = device_length
      /\ device_data_out' = device_data_out /\ host_data_out' = host_data_out
  BY DEF Deser!SendMeta, Deser!fifos
<1>2. /\ msgs' = msgs /\ split' = split /\ lane' = lane /\ de_idle' = de_idle /\ dropped' = dropped
      /\ Taken' = Taken /\ Front' = Front /\ RegsOK /\ msgs \in Seq(MsgLens) /\ Taken \in 0..Len(msgs)
  BY LaneFrame
<1>3. meta_reg[l] \in Nat /\ device_length[l] \in Nat /\ meta_out[l] \in Seq(Metas)
  BY <1>2, LaneTyped
<1>4. m \in Metas /\ m.rpc = meta_reg[l] /\ m.device_length = device_length[l]
  BY <1>3 DEF Metas
<1> HIDE DEF m
<1>5. Append(meta_out[l], m) \in Seq(Metas) /\ "sSendDevice" \in LaneStates
  BY <1>3, <1>4, Push DEF LaneStates
<1>6. RegsOK'
  <2>1. lane_state' \in [Lanes -> LaneStates] /\ meta_out' \in [Lanes -> Seq(Metas)]
    BY <1>1, <1>2, <1>5 DEF RegsOK
  <2> QED
    BY <1>1, <1>2, <2>1 DEF RegsOK
<1>7. lane_state'[l] = "sSendDevice" /\ meta_out'[l] = Append(meta_out[l], m)
  BY <1>1, <1>2 DEF RegsOK
<1>8. \A k \in Lanes : k # l => LaneVars(k)' = LaneVars(k)
  BY <1>1, <1>2 DEF LaneVars, RegsOK
<1>9. LaneOK(l) /\ OrderOK("sSendMeta", lane_meta[l], meta_reg[l], meta_out[l], Taken)
  BY <1>1 DEF ReceiveInv, LaneOK
<1>10. OrderOK("sSendDevice", lane_meta[l], meta_reg[l], Append(meta_out[l], m), Taken)
  <2>1. Taken \in Nat
    BY <1>2
  <2> QED
    BY <1>3, <1>4, <1>9, <2>1, OrderTell
<1>11. InStep(l) => Lane(msgs, Taken, Front, "sSendDevice", lane_meta[l], meta_reg[l],
                         device_length[l], lane_data[l], Append(meta_out[l], m), device_data_out[l])
  BY <1>1, <1>2, <1>3, <1>4, <1>9, LaneTell DEF LaneOK
<1>12. Begun(l) \subseteq Begun(l)' \cup {0}
  <2>1. /\ Begun(l) = Elems(Told(meta_out[l])) \cup {meta_reg[l]}
        /\ Begun(l)' = Elems(Told(Append(meta_out[l], m))) \cup {meta_reg[l]}
    BY <1>1, <1>3, <1>5, <1>7, BegunIs
  <2>2. Elems(Told(meta_out[l])) \subseteq Elems(Told(Append(meta_out[l], m)))
    <3>1. Told(Append(meta_out[l], m)) = Append(Told(meta_out[l]), m.rpc) /\ Told(meta_out[l]) \in Seq(Nat)
      BY <1>3, <1>4, ToldFacts
    <3> QED
      BY <1>3, <1>4, <3>1, ElemsPush
  <2> QED
    BY <2>1, <2>2
<1>13. SameGiven
  BY LaneMaps
<1> QED
  BY <1>1, <1>6, <1>7, <1>8, <1>10, <1>11, <1>12, <1>13, LanesStep

LEMMA StepPass ==
  ASSUME ReceiveInv, NEW l \in Lanes, UNCHANGED <<net_vars, meta_fifo, data_fifo, split_vars>>,
         Deser!SendDevice(l)
  PROVE  ReceiveInv'
<1> DEFINE h == Head(lane_data[l])
           dl == device_length[l]
           o == meta_reg[l]
           q == lane_data[l]
           p == device_data_out[l]
<1>1. /\ lane_state[l] = "sSendDevice" /\ lane_data[l] # <<>>
      /\ device_data_out' = [device_data_out EXCEPT ![l] = Append(@, h)]
      /\ lane_data' = [lane_data EXCEPT ![l] = Tail(@)]
      /\ lane_meta' = lane_meta /\ delay_cnt' = delay_cnt /\ meta_reg' = meta_reg
      /\ meta_out' = meta_out /\ host_data_out' = host_data_out
      /\ \/ dl <= 64 /\ lane_state' = [lane_state EXCEPT ![l] = "sSendHost"]
                     /\ device_length' = device_length
         \/ ~(dl <= 64) /\ device_length' = [device_length EXCEPT ![l] = @ - 64]
                        /\ lane_state' = lane_state
  BY DEF Deser!SendDevice, Deser!LastDeviceBeat
<1>2. /\ msgs' = msgs /\ split' = split /\ lane' = lane /\ de_idle' = de_idle /\ dropped' = dropped
      /\ Taken' = Taken /\ Front' = Front /\ RegsOK /\ msgs \in Seq(MsgLens) /\ Taken \in 0..Len(msgs)
      /\ Front \in Places
  BY LaneFrame
<1>3. /\ o \in Nat /\ dl \in Nat /\ meta_out[l] \in Seq(Metas) /\ lane_meta[l] \in Seq(Nat)
      /\ q \in Seq(RawBeats) /\ p \in Seq(RawBeats) /\ LaneOK(l)
  BY <1>2, LaneTyped DEF ReceiveInv
<1>4. h \in RawBeats /\ Tail(q) \in Seq(RawBeats)
  BY <1>1, <1>3, Pop
<1>5. ASSUME InStep(l)
      PROVE  /\ dl <= 64 => Lane(msgs, Taken, Front, "sSendHost", lane_meta[l], o, dl, Tail(q),
                                 meta_out[l], Append(p, h))
             /\ ~(dl <= 64) => Lane(msgs, Taken, Front, "sSendDevice", lane_meta[l], o, dl - 64,
                                    Tail(q), meta_out[l], Append(p, h))
  <2>1. Lane(msgs, Taken, Front, "sSendDevice", lane_meta[l], o, dl, q, meta_out[l], p)
    BY <1>1, <1>3, <1>5 DEF LaneOK
  <2>2. /\ o \in 1..Taken
        /\ \E n \in 1..BeatsOf(msgs, o) :
             /\ dl = 64 * n
             /\ n = 1 => Lane(msgs, Taken, Front, "sSendHost", lane_meta[l], o, dl, Tail(q),
                              meta_out[l], Append(p, h))
             /\ n > 1 => Lane(msgs, Taken, Front, "sSendDevice", lane_meta[l], o, dl - 64,
                              Tail(q), meta_out[l], Append(p, h))
    <3>1. /\ o \in 1..Taken
          /\ \E n \in 1..BeatsOf(msgs, o) :
               /\ dl = 64 * n /\ Left("sSendDevice", dl) = n
               /\ Key[h] = <<o, BeatsOf(msgs, o) - n + 1>> /\ Before(Key[h], Front)
               /\ Owed(msgs, lane_meta[l], o, n - 1) = Owed(msgs, lane_meta[l], o, n) \ {Key[h]}
               /\ n = 1 => Lane(msgs, Taken, Front, "sSendHost", lane_meta[l], o, dl, Tail(q),
                                meta_out[l], Append(p, h))
               /\ n > 1 => Lane(msgs, Taken, Front, "sSendDevice", lane_meta[l], o, dl - 64,
                                Tail(q), meta_out[l], Append(p, h))
      BY <1>1, <1>2, <1>3, <2>1, LanePass
    <3> QED
      BY <3>1
  <2>3. PICK n \in 1..BeatsOf(msgs, o) :
             /\ dl = 64 * n
             /\ n = 1 => Lane(msgs, Taken, Front, "sSendHost", lane_meta[l], o, dl, Tail(q),
                              meta_out[l], Append(p, h))
             /\ n > 1 => Lane(msgs, Taken, Front, "sSendDevice", lane_meta[l], o, dl - 64,
                              Tail(q), meta_out[l], Append(p, h))
    BY <2>2
  <2>4. n \in Int /\ n >= 1
    OBVIOUS
  <2>5. (dl <= 64 <=> n = 1) /\ (~(dl <= 64) <=> n > 1)
    BY <2>3, <2>4
  <2> QED
    BY <2>3, <2>5
<1> HIDE DEF h
<1>6. Append(p, h) \in Seq(RawBeats) /\ "sSendHost" \in LaneStates /\ (~(dl <= 64) => dl - 64 \in Nat)
  <2>1. Append(p, h) \in Seq(RawBeats)
    BY <1>3, <1>4, Push
  <2>2. ~(dl <= 64) => dl - 64 \in Nat
    BY <1>3
  <2> QED
    BY <2>1, <2>2 DEF LaneStates
<1>7. RegsOK'
  <2>1. /\ lane_state' \in [Lanes -> LaneStates] /\ device_length' \in [Lanes -> Nat]
        /\ lane_data' \in [Lanes -> Seq(RawBeats)] /\ device_data_out' \in [Lanes -> Seq(RawBeats)]
    BY <1>1, <1>2, <1>4, <1>6 DEF RegsOK
  <2> QED
    BY <1>1, <1>2, <2>1 DEF RegsOK
<1>8. lane_data'[l] = Tail(q) /\ device_data_out'[l] = Append(p, h)
  BY <1>1, <1>2 DEF RegsOK
<1>9. \A k \in Lanes : k # l => LaneVars(k)' = LaneVars(k)
  <2>1. \A k \in Lanes : k # l =>
          /\ lane_state'[k] = lane_state[k] /\ device_length'[k] = device_length[k]
          /\ lane_data'[k] = lane_data[k] /\ device_data_out'[k] = device_data_out[k]
    BY <1>1, <1>2 DEF RegsOK
  <2> QED
    BY <1>1, <2>1 DEF LaneVars
<1>10. \/ dl <= 64 /\ lane_state'[l] = "sSendHost" /\ device_length'[l] = dl
       \/ ~(dl <= 64) /\ lane_state'[l] = "sSendDevice" /\ device_length'[l] = dl - 64
  BY <1>1, <1>2 DEF RegsOK
<1>11. Append(p, h) \o Tail(q) = p \o q
  <2>1. <<h>> \o Tail(q) = q
    BY <1>1, <1>3, JoinHead DEF h
  <2> DEFINE t == Tail(q)
  <2>1a. p \in Seq(RawBeats) /\ t \in Seq(RawBeats) /\ h \in RawBeats
    BY <1>3, <1>4
  <2> HIDE DEF p, t
  <2>2. (p \o <<h>>) \o t = p \o (<<h>> \o t) /\ p \o <<h>> = Append(p, h)
    BY <2>1a, JoinAppend
  <2> QED
    BY <2>1, <2>2 DEF t
<1>12. OrderOK(lane_state'[l], lane_meta[l], o, meta_out[l], Taken) /\ lane_state'[l] # "sIdle"
  <2>1. OrderOK("sSendDevice", lane_meta[l], o, meta_out[l], Taken)
    BY <1>1, <1>3 DEF LaneOK
  <2>2. OrderOK("sSendHost", lane_meta[l], o, meta_out[l], Taken)
    BY <2>1, OrderNext
  <2> QED
    BY <1>10, <2>1, <2>2
<1>13. InStep(l) => Lane(msgs, Taken, Front, lane_state'[l], lane_meta[l], o, device_length'[l],
                         Tail(q), meta_out[l], Append(p, h))
  BY <1>5, <1>10
<1>14. Begun(l)' = Begun(l) /\ SameGiven
  BY <1>1, LaneMaps DEF Begun
<1>15. lane_meta'[l] = lane_meta[l] /\ meta_reg'[l] = o /\ meta_out'[l] = meta_out[l]
  BY <1>1
<1> QED
  BY <1>7, <1>8, <1>9, <1>11, <1>12, <1>13, <1>14, <1>15, LanesStep

LEMMA StepHost ==
  ASSUME ReceiveInv, NEW l \in Lanes, UNCHANGED <<net_vars, meta_fifo, data_fifo, split_vars>>,
         Deser!SendHost(l)
  PROVE  ReceiveInv'
<1>1. /\ lane_state[l] = "sSendHost" /\ lane_state' = [lane_state EXCEPT ![l] = "sIdle"]
      /\ host_data_out' = [host_data_out EXCEPT ![l] = Append(@, meta_reg[l])]
      /\ lane_data' = lane_data /\ lane_meta' = lane_meta /\ delay_cnt' = delay_cnt
      /\ meta_reg' = meta_reg /\ device_length' = device_length
      /\ device_data_out' = device_data_out /\ meta_out' = meta_out
  BY DEF Deser!SendHost, Deser!fifos
<1>2. /\ msgs' = msgs /\ split' = split /\ lane' = lane /\ de_idle' = de_idle /\ dropped' = dropped
      /\ Taken' = Taken /\ Front' = Front /\ RegsOK
  BY LaneFrame
<1>3. Append(host_data_out[l], meta_reg[l]) \in Seq(Nat) /\ "sIdle" \in LaneStates
  BY <1>2, LaneTyped, Push DEF LaneStates
<1>4. RegsOK'
  <2>1. lane_state' \in [Lanes -> LaneStates] /\ host_data_out' \in [Lanes -> Seq(Nat)]
    BY <1>1, <1>2, <1>3 DEF RegsOK
  <2> QED
    BY <1>1, <1>2, <2>1 DEF RegsOK
<1>5. lane_state'[l] = "sIdle"
  BY <1>1, <1>2 DEF RegsOK
<1>6. \A k \in Lanes : k # l => LaneVars(k)' = LaneVars(k)
  BY <1>1, <1>2 DEF LaneVars, RegsOK
<1>7. LaneOK(l) /\ OrderOK("sSendHost", lane_meta[l], meta_reg[l], meta_out[l], Taken)
  BY <1>1 DEF ReceiveInv, LaneOK
<1>8. OrderOK("sIdle", lane_meta[l], meta_reg[l], meta_out[l], Taken)
  BY <1>7, OrderNext
<1>9. InStep(l) => Lane(msgs, Taken, Front, "sIdle", lane_meta[l], meta_reg[l], device_length[l],
                        lane_data[l], meta_out[l], device_data_out[l])
  BY <1>1, <1>7, LaneHost DEF LaneOK
<1>10. meta_reg[l] \in Elems(Told(meta_out[l]))
  <2>1. meta_out[l] \in Seq(Metas) /\ Taken \in Nat
    BY <1>2, LaneFrame, LaneTyped
  <2> QED
    BY <1>7, <2>1, InWork
<1>11. Begun(l)' = Begun(l) /\ SameGiven
  BY <1>1, LaneMaps DEF Begun
<1> QED
  BY <1>1, <1>4, <1>5, <1>6, <1>8, <1>9, <1>10, <1>11, LanesStep

(* Steps of one lane, whatever its state.                                  *)
LEMMA StepLane ==
  ASSUME ReceiveInv, NEW l \in Lanes, LaneStep(l) PROVE ReceiveInv'
  BY StepTakeMeta, StepDelay, StepAnnounce, StepPass, StepHost DEF LaneStep

LEMMA StepSplit ==
  ASSUME ReceiveInv, SplitSample \/ SplitMove PROVE ReceiveInv'
  BY StepChoose, StepGive, StepDropMeta, StepMoveBeat DEF SplitSample, SplitMove

LEMMA StepNone ==
  ASSUME ReceiveInv, UNCHANGED receive_vars PROVE ReceiveInv'
<1>1. NetFrame /\ UNCHANGED vars /\ UNCHANGED net_vars
  BY DEF receive_vars, NetFrame, net_vars, vars, writer, reader, out
<1>2. /\ meta_fifo' = meta_fifo /\ data_fifo' = data_fifo /\ state_r' = state_r /\ split' = split
  BY DEF receive_vars, net_vars, split_vars
<1>3. IInv /\ HeadersOK /\ DispatchOK
  BY DEF ReceiveInv
<1>4. IInv' /\ Out' = Out /\ Read' = Read
  BY <1>1, <1>3, StepTake
<1>5. HeadersOK' /\ Longer(msgs, msgs') /\ Longer(lens, lens')
  BY <1>1, <1>3, SameHeaders
<1>6. Emitted' = Emitted
  BY <1>2, <1>4 DEF Emitted
<1>7. DispatchOK' /\ Taken' = Taken /\ Front' = Front
  BY <1>2, <1>3, <1>4, <1>5, <1>6, DispatchStays
<1> QED
  BY <1>1, <1>4, <1>5, <1>7, LanesNet

(* Once a length is lost it stays lost; only NetWrite loses one.           *)
LEMMA ReceiveLoss ==
  ASSUME [ReceiveNext]_receive_vars
  PROVE  /\ lost_length => lost_length'
         /\ ~NetWrite => lost_length' = lost_length
<1>1. CASE NetWrite
  <2>1. CASE RecvMeta
    BY <1>1, <2>1 DEF RecvMeta
  <2>2. CASE RecvData
    BY <1>1, <2>2, Zenon DEF RecvData
  <2> QED
    BY <1>1, <2>1, <2>2 DEF NetWrite
<1>2. CASE NetRead
  BY <1>2 DEF NetRead, ReadLength, SendMeta, SendData, Forward
<1>3. CASE SplitSample \/ SplitMove
  BY <1>3 DEF SplitSample, SplitMove, SplitFrame, net_vars
<1>4. CASE (\E l \in Lanes : LaneStep(l)) \/ UNCHANGED receive_vars
  BY <1>4 DEF LaneStep, receive_vars, net_vars
<1> QED
  BY <1>1, <1>2, <1>3, <1>4 DEF ReceiveNext

(* The invariant of the receive side holds at every step, however NetToMem,*)
(* SplitDe and the lanes interleave, until a length is lost                *)
(* (FpgaCloudMulTop.scala 270-318).                                        *)
ReceiveSound == ~lost_length => ReceiveInv

THEOREM ReceiveInStep == ReceiveSpec => []ReceiveSound
<1>1. ASSUME ReceiveSound, [ReceiveNext]_receive_vars PROVE ReceiveSound'
  <2> SUFFICES ASSUME ~lost_length' PROVE ReceiveInv'
    BY DEF ReceiveSound
  <2>1. ReceiveInv
    BY <1>1, ReceiveLoss DEF ReceiveSound
  <2> QED
    BY <1>1, <2>1, StepNet, StepSplit, StepLane, StepNone DEF ReceiveNext
<1>2. ReceiveInit => ReceiveSound
  BY ReceiveStart DEF ReceiveSound
<1> QED
  BY <1>1, <1>2, PTL DEF ReceiveSpec

-----------------------------------------------------------------------------
(* What the invariant says of an idle lane with beats in its queue: a      *)
(* message waits whose first beat is the head of the queue.                *)
LEMMA IdleStock ==
  ASSUME NEW ms \in Seq(MsgLens), NEW T \in 0..Len(ms), NEW f \in Places, NEW w \in Seq(Nat),
         NEW o \in Nat, NEW dl \in Nat, NEW q \in Seq(RawBeats), q # <<>>,
         NEW mo \in Seq(Metas), NEW p \in Seq(RawBeats),
         Lane(ms, T, f, "sIdle", w, o, dl, q, mo, p)
  PROVE  /\ Head(q) \in RawBeats /\ w # <<>>
         /\ Key[Head(q)] = <<Head(w), 1>>
<1> DEFINE S == Owed(ms, w, o, 0)
<1>1. Holds(q, Ahead(S, f)) /\ Rising(w) /\ Elems(w) \subseteq 1..T
  BY DEF Lane, StockOK, OrderOK, Left
<1>2. S \subseteq Places
  BY CellsTyped
<1>3. w # <<>>
  <2>1. SUFFICES ASSUME w = <<>> PROVE FALSE
    OBVIOUS
  <2>2. Elems(w) = {}
    BY <2>1 DEF Elems
  <2>3. S = {}
    BY <2>2, RestFacts DEF Owed, CellsOf
  <2>4. Ahead(S, f) = {}
    BY <2>3 DEF Ahead
  <2>5. Len(q) \in Nat /\ Len(q) > 0 /\ 1 \in 1..Len(q)
    BY EmptyQueue
  <2> QED
    BY <1>1, <2>4, <2>5 DEF Holds
<1>4. Head(w) \in 1..Len(ms)
  <2>1. Head(w) \in Elems(w)
    BY <1>3, ElemsPop
  <2>2. Head(w) \in 1..T
    BY <1>1, <2>1
  <2> QED
    BY <2>2
<1>5. <<Head(w), 1>> \in S /\ \A c \in S : c = <<Head(w), 1>> \/ Before(<<Head(w), 1>>, c)
  BY <1>1, <1>3, <1>4, OwedFirst
<1> HIDE DEF S
<1>6. Head(q) \in RawBeats /\ Key[Head(q)] = <<Head(w), 1>>
  BY <1>1, <1>2, <1>5, FirstOwed
<1> QED
  BY <1>3, <1>6

(* IdleLaneClean holds for any number of lanes, any depths, any message    *)
(* lengths and any lengths in the headers: a lane that goes to sIdle       *)
(* (DeserializerSimple.scala 78-120) has nothing left of an old message,   *)
(* until a header costs it a beat.                                         *)
THEOREM IdleLaneAlwaysClean == ReceiveSpec => []IdleLaneClean
<1>1. ASSUME ReceiveSound PROVE IdleLaneClean
  <2>1. SUFFICES ASSUME ~lost_length, NEW l \in Lanes, InStep(l),
                        lane_state[l] = "sIdle", lane_data[l] # <<>>
                 PROVE  /\ Head(lane_data[l]).k = 1
                        /\ lane_meta[l] # <<>> /\ Head(lane_data[l]).rpc = Head(lane_meta[l])
    BY DEF IdleLaneClean, Clean
  <2>2. IInv /\ DispatchOK /\ RegsOK /\ LaneOK(l)
    BY <1>1, <2>1 DEF ReceiveSound, ReceiveInv
  <2>2a. msgs \in Seq(MsgLens)
    BY <2>2 DEF IInv, TypeOK
  <2>3. Taken \in 0..Len(msgs) /\ Front \in Places
    BY <2>2, FrontFacts
  <2>4. /\ lane_meta[l] \in Seq(Nat) /\ lane_data[l] \in Seq(RawBeats) /\ meta_out[l] \in Seq(Metas)
        /\ meta_reg[l] \in Nat /\ device_length[l] \in Nat /\ device_data_out[l] \in Seq(RawBeats)
    BY <2>2, LaneTyped
  <2>5. Lane(msgs, Taken, Front, "sIdle", lane_meta[l], meta_reg[l], device_length[l],
             lane_data[l], meta_out[l], device_data_out[l])
    BY <2>1, <2>2 DEF LaneOK
  <2> DEFINE w == lane_meta[l]
             q == lane_data[l]
             o == meta_reg[l]
             dl == device_length[l]
             mo == meta_out[l]
             p == device_data_out[l]
  <2>6. /\ w \in Seq(Nat) /\ q \in Seq(RawBeats) /\ q # <<>> /\ o \in Nat /\ dl \in Nat
        /\ mo \in Seq(Metas) /\ p \in Seq(RawBeats)
        /\ Lane(msgs, Taken, Front, "sIdle", w, o, dl, q, mo, p)
    BY <2>1, <2>4, <2>5
  <2> HIDE DEF w, q, o, dl, mo, p
  <2>7. Head(q) \in RawBeats /\ w # <<>> /\ Key[Head(q)] = <<Head(w), 1>>
    BY <2>2a, <2>3, <2>6, IdleStock
  <2>8. Key[Head(q)] = <<Head(q).rpc, Head(q).k>>
    BY <2>7, KeyFacts
  <2> QED
    BY <2>7, <2>8 DEF q, w
<1> QED
  BY ReceiveInStep, <1>1, PTL

-----------------------------------------------------------------------------

(* What a lane's log says of a beat announced before one that is out.      *)
LEMMA NoGap ==
  ASSUME NEW ms \in Seq(MsgLens), NEW T \in 0..Len(ms), NEW st \in LaneStates, NEW w \in Seq(Nat),
         NEW o \in Nat, NEW n \in Nat, NEW mo \in Seq(Metas), OrderOK(st, w, o, mo, T),
         st \in {"sIdle", "sSendHost"} => n = 0,
         NEW c \in CellsOf(ms, Elems(Told(mo))) \ Rest(ms, o, n),
         NEW b \in CellsOf(ms, Elems(Told(mo))), Before(b, c)
  PROVE  b \notin Rest(ms, o, n)
<1> SUFFICES ASSUME b \in Rest(ms, o, n) PROVE FALSE
  OBVIOUS
<1>1. b[1] = o /\ o \in Elems(Told(mo)) /\ c[1] \in Elems(Told(mo))
      /\ b \in Cells(ms) /\ c \in Cells(ms) /\ c \notin Rest(ms, o, n)
  BY DEF Rest, CellsOf
<1>2. b[1] \in Nat /\ b[2] \in Nat /\ c[1] \in Nat /\ c[2] \in Nat
  BY <1>1, CellFacts DEF Places
<1>3. CASE st \in {"sIdle", "sSendHost"}
  BY <1>3, RestFacts
<1>4. CASE st \in {"sDelay", "sSendMeta"}
  <2>1. o < o
    BY <1>1, <1>4 DEF OrderOK
  <2> QED
    BY <2>1
<1>5. CASE st = "sSendDevice"
  <2>0. T \in Nat
    OBVIOUS
  <2>1. c[1] = o \/ c[1] < o
    BY <1>1, <1>5, <2>0, InWork
  <2>2. c[1] = o /\ b[2] < c[2]
    BY <1>1, <1>2, <2>1 DEF Before
  <2>3. b[2] > BeatsOf(ms, o) - n
    BY DEF Rest
  <2>4. BeatsOf(ms, o) \in Nat
    BY <1>1, <2>2, CellFacts, BeatsFacts
  <2>5. c[2] > BeatsOf(ms, o) - n
    BY <1>2, <2>2, <2>3, <2>4
  <2> QED
    BY <1>1, <2>2, <2>5 DEF Rest
<1> QED
  BY <1>3, <1>4, <1>5 DEF LaneStates

(* The beats announced in the metas mo.                                    *)
BeatsIn(mo) ==
  UNION {{<<mo[i].rpc, k>> : k \in 1..(mo[i].device_length \div 64)} : i \in 1..Len(mo)}

(* The beats a lane announces are the beats of the messages it names.      *)
LEMMA AnnouncedCells ==
  ASSUME NEW ms \in Seq(MsgLens), NEW mo \in Seq(Metas), Elems(Told(mo)) \subseteq 1..Len(ms),
         \A i \in 1..Len(mo) : mo[i].device_length = 64 * BeatsOf(ms, mo[i].rpc)
  PROVE  BeatsIn(mo) = CellsOf(ms, Elems(Told(mo)))
<1> DEFINE E == Elems(Told(mo))
<1>1. E = {mo[i].rpc : i \in 1..Len(mo)}
  <2>1. Len(Told(mo)) = Len(mo) /\ \A i \in 1..Len(mo) : Told(mo)[i] = mo[i].rpc
    BY ToldFacts
  <2> QED
    BY <2>1 DEF Elems
<1>2. \A r \in E : r \in 1..Len(ms) /\ BeatsOf(ms, r) \in Nat
  BY BeatsFacts
<1>3. \A n \in Nat : (64 * n) \div 64 = n
  OBVIOUS
<1>4. ASSUME NEW i \in 1..Len(mo)
      PROVE  mo[i].rpc \in E /\ mo[i].device_length \div 64 = BeatsOf(ms, mo[i].rpc)
  <2>1. mo[i].rpc \in E
    BY <1>1
  <2>2. BeatsOf(ms, mo[i].rpc) \in Nat
    BY <1>2, <2>1
  <2> QED
    BY <1>3, <2>1, <2>2
<1> HIDE DEF E
<1>5. UNION {{<<mo[i].rpc, k>> : k \in 1..(mo[i].device_length \div 64)} : i \in 1..Len(mo)}
        = UNION {{<<r, k>> : k \in 1..BeatsOf(ms, r)} : r \in E}
  <2> DEFINE I(i) == {<<mo[i].rpc, k>> : k \in 1..(mo[i].device_length \div 64)}
             R(r) == {<<r, k>> : k \in 1..BeatsOf(ms, r)}
  <2>1. \A i \in 1..Len(mo) : I(i) = R(mo[i].rpc)
    BY <1>4
  <2> HIDE DEF I, R
  <2>2. UNION {I(i) : i \in 1..Len(mo)} = UNION {R(r) : r \in E}
    BY <1>1, <2>1
  <2> QED
    BY <2>2 DEF I, R
<1>6. UNION {{<<r, k>> : k \in 1..BeatsOf(ms, r)} : r \in E} = CellsOf(ms, E)
  <2>1. ASSUME NEW r \in E, NEW k \in 1..BeatsOf(ms, r) PROVE <<r, k>> \in CellsOf(ms, E)
    <3>1. <<r, k>>[1] = r /\ r \in 1..Len(ms)
      BY <1>2
    <3> QED
      BY <3>1 DEF CellsOf, Cells
  <2>2. ASSUME NEW c \in CellsOf(ms, E)
        PROVE  \E r \in E : \E k \in 1..BeatsOf(ms, r) : c = <<r, k>>
    <3>1. c \in Cells(ms) /\ c[1] \in E
      BY DEF CellsOf
    <3>2. c \in Places /\ c[2] \in 1..BeatsOf(ms, c[1])
      BY <3>1, CellFacts
    <3>3. c = <<c[1], c[2]>>
      BY <3>2 DEF Places
    <3> QED
      BY <3>1, <3>2, <3>3
  <2> QED
    BY <2>1, <2>2
<1> QED
  BY <1>5, <1>6 DEF E, BeatsIn

(* The promise of a lane in state st that has put out the metas mo and the *)
(* beats p.                                                                *)
KeepsPromise(st, mo, p) ==
  /\ \A i, j \in 1..Len(mo) : i < j => mo[i].rpc < mo[j].rpc
  /\ \A i, j \in 1..Len(p) : i < j => Before(Key[p[i]], Key[p[j]])
  /\ \A i \in 1..Len(p) :
       /\ Key[p[i]] \in BeatsIn(mo)
       /\ \A b \in BeatsIn(mo) : Before(b, Key[p[i]]) => \E j \in 1..Len(p) : Key[p[j]] = b
  /\ st \in {"sSendHost", "sIdle"} => \A b \in BeatsIn(mo) : \E j \in 1..Len(p) : Key[p[j]] = b

(* A lane whose state the invariant describes keeps its promise.           *)
LEMMA LanePromise ==
  ASSUME NEW ms \in Seq(MsgLens), NEW T \in 0..Len(ms), NEW f \in Places, NEW st \in LaneStates,
         NEW w \in Seq(Nat), NEW o \in Nat, NEW dl \in Nat, NEW q \in Seq(RawBeats),
         NEW mo \in Seq(Metas), NEW p \in Seq(RawBeats),
         Lane(ms, T, f, st, w, o, dl, q, mo, p)
  PROVE  KeepsPromise(st, mo, p)
<1> DEFINE A == BeatsIn(mo)
           C == CellsOf(ms, Elems(Told(mo)))
           n == Left(st, dl)
<1>1. OrderOK(st, w, o, mo, T) /\ CountOK(ms, st, o, dl, mo) /\ Holds(p, C \ Rest(ms, o, n))
  BY DEF Lane, LogOK
<1>2. A = C
  <2>1. Elems(Told(mo)) \subseteq 1..T /\ 1..T \subseteq 1..Len(ms)
    BY <1>1 DEF OrderOK
  <2>2. \A i \in 1..Len(mo) : mo[i].device_length = 64 * BeatsOf(ms, mo[i].rpc)
    BY <1>1 DEF CountOK
  <2>3. Elems(Told(mo)) \subseteq 1..Len(ms)
    BY <2>1
  <2> QED
    BY <2>2, <2>3, AnnouncedCells
<1>3. n \in Nat /\ (st \in {"sIdle", "sSendHost"} => n = 0)
  BY DEF Left
<1>4. \A i, j \in 1..Len(mo) : i < j => mo[i].rpc < mo[j].rpc
  <2>1. Len(Told(mo)) = Len(mo) /\ \A i \in 1..Len(mo) : Told(mo)[i] = mo[i].rpc
    BY ToldFacts
  <2> QED
    BY <1>1, <2>1 DEF OrderOK, Rising
<1> HIDE DEF A, n
<1>5. \A i, j \in 1..Len(p) : i < j => Before(Key[p[i]], Key[p[j]])
  BY <1>1 DEF Holds
<1>6. \A i \in 1..Len(p) : Key[p[i]] \in C \ Rest(ms, o, n)
  BY <1>1 DEF Holds
<1>7. \A b \in C \ Rest(ms, o, n) : \E j \in 1..Len(p) : Key[p[j]] = b
  BY <1>1 DEF Holds
<1>8. ASSUME NEW i \in 1..Len(p), NEW b \in C, Before(b, Key[p[i]])
      PROVE  \E j \in 1..Len(p) : Key[p[j]] = b
  <2> DEFINE c == Key[p[i]]
  <2>1. c \in C \ Rest(ms, o, n) /\ Before(b, c)
    BY <1>6, <1>8
  <2> HIDE DEF c
  <2>2. b \notin Rest(ms, o, n)
    BY <1>1, <1>3, <2>1, NoGap
  <2> QED
    BY <1>7, <2>2
<1>9. ASSUME st \in {"sSendHost", "sIdle"}, NEW b \in C
      PROVE  \E j \in 1..Len(p) : Key[p[j]] = b
  <2>1. Rest(ms, o, n) = {}
    BY <1>3, <1>9, RestFacts
  <2> QED
    BY <1>7, <2>1
<1>10. /\ \A i \in 1..Len(p) :
            /\ Key[p[i]] \in A
            /\ \A b \in A : Before(b, Key[p[i]]) => \E j \in 1..Len(p) : Key[p[j]] = b
       /\ st \in {"sSendHost", "sIdle"} => \A b \in A : \E j \in 1..Len(p) : Key[p[j]] = b
  BY <1>2, <1>6, <1>8, <1>9
<1> QED
  BY <1>4, <1>5, <1>10 DEF A, KeepsPromise

(* LaneKeepsPromise holds for any number of lanes, any depths, any message *)
(* lengths and any lengths in the headers: what a lane puts out on         *)
(* device_data_out is what it announced on meta_out, in that order         *)
(* (DeserializerSimple.scala 78-120), until a header costs it a beat.      *)
THEOREM PromiseKept == ReceiveSpec => []LaneKeepsPromise
<1>1. ASSUME ReceiveSound PROVE LaneKeepsPromise
  <2>1. SUFFICES ASSUME ~lost_length, NEW l \in Lanes, InStep(l) PROVE Promise(l)
    BY DEF LaneKeepsPromise
  <2>2. IInv /\ DispatchOK /\ RegsOK /\ LaneOK(l)
    BY <1>1, <2>1 DEF ReceiveSound, ReceiveInv
  <2>3. msgs \in Seq(MsgLens) /\ Taken \in 0..Len(msgs) /\ Front \in Places
    BY <2>2, FrontFacts DEF IInv, TypeOK
  <2> DEFINE st == lane_state[l]
             w == lane_meta[l]
             o == meta_reg[l]
             dl == device_length[l]
             q == lane_data[l]
             mo == meta_out[l]
             p == device_data_out[l]
             put == [i \in 1..Len(p) |-> <<p[i].rpc, p[i].k>>]
             A == BeatsIn(mo)
  <2>4. /\ st \in LaneStates /\ w \in Seq(Nat) /\ o \in Nat /\ dl \in Nat /\ q \in Seq(RawBeats)
        /\ mo \in Seq(Metas) /\ p \in Seq(RawBeats)
    BY <2>2, LaneTyped
  <2>5. Lane(msgs, Taken, Front, st, w, o, dl, q, mo, p)
    BY <2>1, <2>2 DEF LaneOK
  <2>6. A = Announced(l)
    BY DEF Announced, BeatsIn
  <2> HIDE DEF st, w, o, dl, q, mo, p
  <2>7. KeepsPromise(st, mo, p)
    BY <2>3, <2>4, <2>5, LanePromise
  <2>8. Len(p) \in Nat /\ Len(put) = Len(p) /\ \A i \in 1..Len(p) : put[i] = Key[p[i]]
    BY <2>4, KeyFacts
  <2> HIDE DEF put
  <2>9. /\ \A i, j \in 1..Len(mo) : i < j => mo[i].rpc < mo[j].rpc
        /\ \A i, j \in 1..Len(put) : i < j => Before(put[i], put[j])
        /\ \A i \in 1..Len(put) :
             /\ put[i] \in A
             /\ \A b \in A : Before(b, put[i]) => \E j \in 1..Len(put) : put[j] = b
        /\ st \in {"sSendHost", "sIdle"} => \A b \in A : \E j \in 1..Len(put) : put[j] = b
    BY <2>7, <2>8 DEF KeepsPromise, A
  <2>10. /\ \A i \in 1..Len(put) :
              /\ put[i] \in Announced(l)
              /\ \A b \in Announced(l) : Before(b, put[i]) => \E j \in 1..Len(put) : put[j] = b
         /\ st \in {"sSendHost", "sIdle"} =>
              \A b \in Announced(l) : \E j \in 1..Len(put) : put[j] = b
    BY <2>6, <2>9
  <2> QED
    BY <2>9, <2>10 DEF put, p, mo, st, Promise
<1> QED
  BY ReceiveInStep, <1>1, PTL

-----------------------------------------------------------------------------
(* The refinement of RpcDelivery.                                          *)
(* The state of RpcDelivery: the sizes of the messages and the beats out.  *)
SizesOf(ms) == [n \in 1..Len(ms) |-> ms[n] \div 64]
PutOut(p)   == [i \in 1..Len(p) |-> <<p[i].rpc, p[i].k>>]

(* Beat b follows the beats z, for messages of sizes sd given as g says.   *)
Follow(b, sd, g, z) ==
  IF z = <<>> THEN g # <<>> /\ b = <<Head(g), 1>>
  ELSE LET last == z[Len(z)] IN
       IF last[2] < sd[last[1]] THEN b = <<last[1], last[2] + 1>>
       ELSE \E i \in 2..Len(g) : g[i - 1] = last[1] /\ b = <<g[i], 1>>

LEMMA SizesFacts ==
  ASSUME NEW ms \in Seq(MsgLens)
  PROVE  /\ \A r \in 1..Len(ms) : SizesOf(ms)[r] = BeatsOf(ms, r)
         /\ Len(SizesOf(ms)) = Len(ms)
         /\ \A m \in MsgLens : /\ m \div 64 \in 1..RX_DEPTH
                               /\ SizesOf(Append(ms, m)) = Append(SizesOf(ms), m \div 64)
<1>0. Len(ms) \in Nat /\ \A m \in MsgLens : m \div 64 \in 1..RX_DEPTH
  <2>1. ASSUME NEW m \in MsgLens PROVE m \div 64 \in 1..RX_DEPTH
    <3>1. m \in Nat /\ m > 0 /\ m % 64 = 0 /\ m \div 64 <= RX_DEPTH /\ RX_DEPTH \in Nat
      BY NetToMemAssumption
    <3>2. m \div 64 \in Nat /\ m \div 64 > 0
      BY <3>1
    <3> QED
      BY <3>1, <3>2
  <2> QED
    BY <2>1
<1>1. ASSUME NEW r \in 1..Len(ms) PROVE SizesOf(ms)[r] = BeatsOf(ms, r)
  <2>1. ms[r] = 64 * BeatsOf(ms, r) /\ BeatsOf(ms, r) \in Nat
    BY BeatsFacts
  <2>2. \A n \in Nat : (64 * n) \div 64 = n
    OBVIOUS
  <2>3. SizesOf(ms)[r] = ms[r] \div 64
    BY DEF SizesOf
  <2> QED
    BY <2>1, <2>2, <2>3
<1>2. Len(SizesOf(ms)) = Len(ms) /\ SizesOf(ms) \in Seq(Nat)
  <2>1. \A r \in 1..Len(ms) : ms[r] \div 64 \in Nat
    BY <1>0, EmptyQueue
  <2> QED
    BY <1>0, <2>1 DEF SizesOf
<1>3. ASSUME NEW m \in MsgLens PROVE SizesOf(Append(ms, m)) = Append(SizesOf(ms), m \div 64)
  <2> DEFINE a == Append(ms, m)
             x == m \div 64
             s == SizesOf(ms)
  <2>1. /\ a \in Seq(MsgLens) /\ Len(a) = Len(ms) + 1 /\ \A i \in 1..Len(ms) : a[i] = ms[i]
        /\ a[Len(ms) + 1] = m
    BY Push
  <2>2. \A i \in 1..Len(a) : i \in 1..Len(ms) \/ i = Len(ms) + 1
    BY <1>0, <2>1
  <2>3. x \in Nat /\ s \in Seq(Nat) /\ Len(s) = Len(ms) /\ \A i \in 1..Len(ms) : s[i] = ms[i] \div 64
    BY <1>0, <1>2 DEF SizesOf
  <2>4. \A i \in 1..Len(a) : a[i] \div 64 \in Nat
    BY <1>0, <2>1, EmptyQueue
  <2> HIDE DEF a, s
  <2>5. SizesOf(a) \in Seq(Nat) /\ Len(SizesOf(a)) = Len(a) /\ \A i \in 1..Len(a) : SizesOf(a)[i] = a[i] \div 64
    BY <1>0, <2>1, <2>4 DEF SizesOf
  <2> HIDE DEF x
  <2>6. /\ Append(s, x) \in Seq(Nat) /\ Len(Append(s, x)) = Len(s) + 1
        /\ \A i \in 1..Len(s) : Append(s, x)[i] = s[i]
        /\ Append(s, x)[Len(s) + 1] = x
    BY <2>3, Push
  <2>7. ASSUME NEW i \in 1..Len(a) PROVE SizesOf(a)[i] = Append(s, x)[i]
    <3>1. CASE i \in 1..Len(ms)
      BY <2>1, <2>3, <2>5, <2>6, <3>1
    <3>2. CASE i = Len(ms) + 1
      BY <2>1, <2>3, <2>5, <2>6, <3>2 DEF x
    <3> QED
      BY <2>2, <3>1, <3>2
  <2>8. SizesOf(a) = Append(s, x)
    BY <2>1, <2>3, <2>5, <2>6, <2>7, SameSeq
  <2> QED
    BY <2>8 DEF a, s, x
<1> QED
  BY <1>0, <1>1, <1>2, <1>3

LEMMA PutFacts ==
  ASSUME NEW p \in Seq(RawBeats)
  PROVE  /\ Len(PutOut(p)) = Len(p) /\ (PutOut(p) = <<>> <=> p = <<>>)
         /\ \A i \in 1..Len(p) : PutOut(p)[i] = Key[p[i]]
         /\ \A h \in RawBeats : PutOut(Append(p, h)) = Append(PutOut(p), Key[h])
<1>1. Len(p) \in Nat /\ \A i \in 1..Len(p) : p[i] \in RawBeats
  BY EmptyQueue
<1>2. ASSUME NEW b \in RawBeats PROVE Key[b] = <<b.rpc, b.k>> /\ Key[b] \in Places
  <2>1. Key[b] = <<b.rpc, b.k>> /\ b.rpc \in Nat /\ b.k \in Nat
    BY KeyFacts
  <2> QED
    BY <2>1 DEF Places
<1>3. /\ PutOut(p) \in Seq(Places) /\ Len(PutOut(p)) = Len(p)
      /\ \A i \in 1..Len(p) : PutOut(p)[i] = Key[p[i]]
  BY <1>1, <1>2 DEF PutOut
<1>4. PutOut(p) = <<>> <=> p = <<>>
  BY <1>1, <1>3, EmptyQueue
<1>5. ASSUME NEW h \in RawBeats PROVE PutOut(Append(p, h)) = Append(PutOut(p), Key[h])
  <2> DEFINE a == Append(p, h)
             s == PutOut(p)
  <2>1. /\ a \in Seq(RawBeats) /\ Len(a) = Len(p) + 1 /\ \A i \in 1..Len(p) : a[i] = p[i]
        /\ a[Len(p) + 1] = h
    BY Push
  <2>2. \A i \in 1..Len(a) : a[i] \in RawBeats /\ (i \in 1..Len(p) \/ i = Len(p) + 1)
    BY <1>1, <2>1, EmptyQueue
  <2> HIDE DEF a
  <2>3. PutOut(a) \in Seq(Places) /\ Len(PutOut(a)) = Len(a) /\ \A i \in 1..Len(a) : PutOut(a)[i] = Key[a[i]]
    <3>1. Len(a) \in Nat
      BY <1>1, <2>1
    <3> QED
      BY <1>2, <2>2, <3>1 DEF PutOut
  <2> HIDE DEF s
  <2>4. s \in Seq(Places) /\ Len(s) = Len(p) /\ (\A i \in 1..Len(p) : s[i] = Key[p[i]]) /\ Key[h] \in Places
    BY <1>2, <1>3 DEF s
  <2>5. /\ Append(s, Key[h]) \in Seq(Places) /\ Len(Append(s, Key[h])) = Len(s) + 1
        /\ \A i \in 1..Len(s) : Append(s, Key[h])[i] = s[i]
        /\ Append(s, Key[h])[Len(s) + 1] = Key[h]
    BY <2>4, Push
  <2>6. ASSUME NEW i \in 1..Len(a) PROVE PutOut(a)[i] = Append(s, Key[h])[i]
    BY <2>1, <2>2, <2>3, <2>4, <2>5
  <2>7. PutOut(a) = Append(s, Key[h])
    BY <2>1, <2>3, <2>4, <2>5, <2>6, SameSeq
  <2> QED
    BY <2>7 DEF a, s
<1> QED
  BY <1>3, <1>4, <1>5

(* The beat at the head of q is the one RpcDelivery expects after p.       *)
NextOut(ms, g, p, q) ==
  \E n \in Elems(g) : \E k \in 1..SizesOf(ms)[n] :
    Key[Head(q)] = <<n, k>> /\ Follow(<<n, k>>, SizesOf(ms), g, PutOut(p))

(* The next beat of a stream: the beats p are out, those of q wait, and    *)
(* together they are what has been passed of the messages g.  The head of  *)
(* q is the beat RpcDelivery expects after p.                              *)
LEMMA FollowStream ==
  ASSUME NEW ms \in Seq(MsgLens), NEW g \in Seq(Nat), Rising(g), Elems(g) \subseteq 1..Len(ms),
         NEW f \in Places, NEW p \in Seq(RawBeats), NEW q \in Seq(RawBeats), q # <<>>,
         StreamOK(ms, Elems(g), f, p \o q)
  PROVE  Head(q) \in RawBeats /\ NextOut(ms, g, p, q)
<1> SUFFICES /\ Head(q) \in RawBeats
             /\ \E n \in Elems(g) : \E k \in 1..SizesOf(ms)[n] :
                  Key[Head(q)] = <<n, k>> /\ Follow(<<n, k>>, SizesOf(ms), g, PutOut(p))
  BY DEF NextOut
<1> DEFINE G == Elems(g)
           C == CellsOf(ms, G)
           s == p \o q
           d == Key[Head(q)]
           m == Len(p)
           sd == SizesOf(ms)
           P == PutOut(p)
<1>1. /\ s \in Seq(RawBeats) /\ Len(s) = m + Len(q) /\ m \in Nat /\ Len(q) \in Nat /\ Len(q) > 0
      /\ \A i \in 1..m : s[i] = p[i]
      /\ s[m + 1] = Head(q) /\ Head(q) \in RawBeats
  <2>1. Len(q) \in Nat /\ Len(q) > 0 /\ 1 \in 1..Len(q) /\ Head(q) = q[1] /\ Head(q) \in RawBeats
    BY EmptyQueue, Pop
  <2> QED
    BY <2>1, Joined
<1>2. /\ \A i \in 1..Len(s) : Key[s[i]] \in C /\ Before(Key[s[i]], f)
      /\ \A c \in C : Before(c, f) => \E i \in 1..Len(s) : Key[s[i]] = c
      /\ \A i, j \in 1..Len(s) : i < j => Before(Key[s[i]], Key[s[j]])
  BY DEF StreamOK, Holds, Ahead
<1>3. \A c \in C : /\ c \in Places /\ c[1] \in G /\ c[1] \in 1..Len(ms) /\ c[2] \in 1..BeatsOf(ms, c[1])
                    /\ c[1] \in Nat /\ c[2] \in Nat /\ c[2] > 0 /\ c = <<c[1], c[2]>>
  <2> SUFFICES ASSUME NEW c \in C
               PROVE  /\ c \in Places /\ c[1] \in G /\ c[1] \in 1..Len(ms) /\ c[2] \in 1..BeatsOf(ms, c[1])
                      /\ c[1] \in Nat /\ c[2] \in Nat /\ c[2] > 0 /\ c = <<c[1], c[2]>>
    OBVIOUS
  <2>1. c \in Cells(ms) /\ c[1] \in G
    BY DEF CellsOf
  <2>2. c \in Places /\ c[1] \in 1..Len(ms) /\ c[2] \in 1..BeatsOf(ms, c[1])
    BY <2>1, CellFacts
  <2>3. BeatsOf(ms, c[1]) \in Nat
    BY <2>2, BeatsFacts
  <2>4. c[1] \in Nat /\ c = <<c[1], c[2]>>
    BY <2>2 DEF Places
  <2> QED
    BY <2>1, <2>2, <2>3, <2>4
<1>4. ASSUME NEW r \in G, NEW k \in 1..BeatsOf(ms, r)
      PROVE  <<r, k>> \in C /\ <<r, k>>[1] = r /\ <<r, k>>[2] = k
  <2>1. r \in 1..Len(ms)
    OBVIOUS
  <2>2. <<r, k>> \in Cells(ms)
    BY <2>1 DEF Cells
  <2> QED
    BY <2>2 DEF CellsOf
<1>5. \A r \in G : r \in Nat /\ BeatsOf(ms, r) \in Nat /\ BeatsOf(ms, r) > 0 /\ sd[r] = BeatsOf(ms, r)
                    /\ 1 \in 1..BeatsOf(ms, r)
  <2>1. \A r \in 1..Len(ms) : BeatsOf(ms, r) \in Nat /\ BeatsOf(ms, r) > 0 /\ sd[r] = BeatsOf(ms, r)
    BY BeatsFacts, SizesFacts
  <2>2. \A r \in 1..Len(ms) : r \in Nat
    OBVIOUS
  <2> QED
    BY <2>1, <2>2
<1>6. Len(g) \in Nat /\ G = {g[i] : i \in 1..Len(g)} /\ \A i \in 1..Len(g) : g[i] \in G /\ g[i] \in Nat
  <2>1. Len(g) \in Nat /\ \A i \in 1..Len(g) : g[i] \in Nat
    OBVIOUS
  <2>2. G = {g[i] : i \in 1..Len(g)}
    BY Zenon DEF Elems
  <2> QED
    BY <2>1, <2>2
<1>7. \A i, j \in 1..Len(g) : i < j => g[i] < g[j]
  BY DEF Rising
<1>8. Len(P) = m /\ (P = <<>> <=> p = <<>>) /\ \A i \in 1..m : P[i] = Key[p[i]]
  BY PutFacts
<1>9. p # <<>> => m > 0
  BY EmptyQueue
<1>9a. p = <<>> => m = 0
  OBVIOUS
<1> HIDE DEF C, s, G, m, sd, P, d
<1>10. d \in C /\ Before(d, f) /\ d = Key[s[m + 1]] /\ m + 1 \in 1..Len(s)
  BY <1>1, <1>2 DEF d
<1>11. ASSUME NEW c \in C, Before(c, d) PROVE \E i \in 1..m : c = Key[p[i]] /\ c = Key[s[i]]
  <2>1. c \in Places /\ d \in Places
    BY <1>3, <1>10
  <2>2. Before(c, f)
    BY <1>10, <1>11, <2>1, BeforeTrans
  <2>3. PICK i \in 1..Len(s) : Key[s[i]] = c
    BY <1>2, <2>2
  <2>4. i # m + 1
    BY <1>10, <1>11, <2>1, <2>3, BeforeFacts
  <2>5. ~(m + 1 < i)
    BY <1>2, <1>10, <1>11, <2>1, <2>3, BeforeFacts
  <2>6. i \in 1..m
    BY <1>1, <2>4, <2>5
  <2> QED
    BY <1>1, <2>3, <2>6
<1>12. d[1] \in G /\ d[1] \in Nat /\ d[2] \in Nat /\ d[2] > 0 /\ d[2] \in 1..sd[d[1]] /\ d = <<d[1], d[2]>>
       /\ d[2] <= BeatsOf(ms, d[1])
  <2>1. /\ d[1] \in G /\ d[1] \in Nat /\ d[2] \in Nat /\ d[2] > 0 /\ d = <<d[1], d[2]>>
        /\ d[2] \in 1..BeatsOf(ms, d[1])
    BY <1>3, <1>10
  <2> QED
    BY <1>5, <2>1
<1>13. PICK b \in 1..Len(g) : d[1] = g[b]
  BY <1>6, <1>12
<1>14. CASE p = <<>>
  <2> DEFINE c == <<g[1], 1>>
  <2>1. 1 \in 1..Len(g) /\ g # <<>> /\ Head(g) = g[1]
    <3>1. Len(g) > 0
      BY <1>6
    <3> QED
      BY <1>6, <3>1, EmptyQueue, Pop
  <2>2. c \in C /\ c[1] = g[1] /\ c[2] = 1 /\ g[1] \in Nat
    BY <1>4, <1>5, <1>6, <2>1
  <2>3. ~Before(c, d)
    <3>1. 1..m = {}
      BY <1>9a, <1>14
    <3> QED
      BY <1>11, <2>2, <3>1
  <2>4. g[1] = g[b] \/ g[1] < g[b]
    BY <1>6, <1>7, <2>1
  <2> HIDE DEF c
  <2>5. ~Before(d, c)
    BY <1>12, <1>13, <2>2, <2>4 DEF Before
  <2>6. d = c
    BY <1>3, <1>10, <2>2, <2>3, <2>5, BeforeFacts
  <2>7. d = <<Head(g), 1>>
    BY <2>1, <2>6 DEF c
  <2>8. Follow(d, sd, g, P)
    BY <1>8, <1>14, <2>1, <2>7 DEF Follow
  <2> QED
    BY <1>1, <1>12, <2>8 DEF d, G, sd, P
<1>15. CASE p # <<>>
  <2> DEFINE z == Key[p[m]]
             B == BeatsOf(ms, z[1])
  <2>1. m \in 1..m /\ m \in 1..Len(s) /\ m < m + 1 /\ z = Key[s[m]]
    <3>1. m \in Nat /\ m > 0 /\ m < Len(s) /\ Len(s) \in Nat
      BY <1>1, <1>9, <1>15
    <3>2. m \in 1..m
      BY <3>1
    <3>3. s[m] = p[m]
      BY <1>1, <3>2
    <3> QED
      BY <3>1, <3>2, <3>3
  <2>2. z \in C /\ Before(z, d)
    BY <1>2, <1>10, <2>1
  <2>3. /\ z[1] \in G /\ z[1] \in Nat /\ z[2] \in Nat /\ z[2] <= B /\ B \in Nat /\ z \in Places
        /\ z[2] > 0 /\ sd[z[1]] = B
    <3>1. /\ z[1] \in G /\ z[1] \in Nat /\ z[2] \in Nat /\ z \in Places
          /\ z[2] > 0 /\ z[2] \in 1..B
      BY <1>3, <2>2
    <3> QED
      BY <1>5, <3>1
  <2>4. P # <<>> /\ P[Len(P)] = z
    BY <1>8, <1>15, <2>1
  <2> HIDE DEF z
  <2>5. ASSUME NEW c \in C, Before(z, c) PROVE ~Before(c, d)
    <3> SUFFICES ASSUME Before(c, d) PROVE FALSE
      OBVIOUS
    <3>1. PICK i \in 1..m : c = Key[s[i]]
      BY <1>11
    <3>2. i = m \/ i < m
      BY <1>1
    <3>3. i \in 1..Len(s)
      BY <1>1
    <3>4. c \in Places
      BY <1>3
    <3>5. c = z \/ Before(c, z)
      BY <1>2, <2>1, <3>1, <3>2, <3>3
    <3> QED
      BY <2>3, <2>5, <3>4, <3>5, BeforeFacts
  <2>6. CASE z[2] < B
    <3> DEFINE c == <<z[1], z[2] + 1>>
    <3>1. z[2] + 1 \in 1..B
      BY <2>3, <2>6
    <3>2. c \in C /\ c[1] = z[1] /\ c[2] = z[2] + 1
      BY <1>4, <2>3, <3>1
    <3> HIDE DEF B
    <3>3. Before(z, c)
      BY <2>3, <3>2 DEF Before
    <3>4. ~Before(c, d)
      BY <2>5, <3>2, <3>3
    <3> HIDE DEF c
    <3>5. ~Before(d, c)
      BY <1>12, <2>2, <2>3, <3>2 DEF Before
    <3>6. d = c
      BY <1>3, <1>10, <3>2, <3>4, <3>5, BeforeFacts
    <3>7. Follow(d, sd, g, P)
      BY <2>3, <2>4, <2>6, <3>6 DEF Follow, c
    <3> QED
      BY <1>1, <1>12, <3>7 DEF d, G, sd, P
  <2>7. CASE ~(z[2] < B)
    <3>1. PICK a \in 1..Len(g) : z[1] = g[a]
      BY <1>6, <2>3
    <3>2. z[1] < d[1]
      <4>1. z[2] = B
        BY <2>3, <2>7
      <4>2. z[1] = d[1] => d[2] <= B
        BY <1>12
      <4> HIDE DEF B
      <4> QED
        BY <1>12, <2>2, <2>3, <4>1, <4>2 DEF Before
    <3>3. a < b
      <4>1. a = b \/ a < b \/ b < a
        BY <1>6
      <4>2. g[a] \in Nat /\ g[b] \in Nat /\ g[a] < g[b]
        BY <1>6, <1>13, <3>1, <3>2
      <4> QED
        BY <1>7, <4>1, <4>2
    <3>4. /\ a + 1 \in 1..Len(g) /\ a + 1 \in 2..Len(g) /\ a + 1 - 1 = a /\ a < a + 1
          /\ a + 1 = b \/ a + 1 < b
      BY <1>6, <3>3
    <3> DEFINE e == g[a + 1]
               c == <<e, 1>>
    <3>5. e \in G /\ e \in Nat /\ g[a] < e /\ (e = g[b] \/ e < g[b])
      BY <1>6, <1>7, <3>4
    <3>6. c \in C /\ c[1] = e /\ c[2] = 1
      BY <1>4, <1>5, <3>5
    <3> HIDE DEF e
    <3>7. Before(z, c)
      BY <2>3, <3>1, <3>5, <3>6 DEF Before
    <3>8. ~Before(c, d)
      BY <2>5, <3>6, <3>7
    <3> HIDE DEF c
    <3>9. ~Before(d, c)
      BY <1>12, <1>13, <3>5, <3>6, SMTT(20) DEF Before
    <3>10. d = c
      BY <1>3, <1>10, <3>6, <3>8, <3>9, BeforeFacts
    <3>11. g[a + 1 - 1] = z[1] /\ d = <<g[a + 1], 1>>
      BY <3>1, <3>4, <3>10 DEF c, e
    <3>12. \E i \in 2..Len(g) : g[i - 1] = z[1] /\ d = <<g[i], 1>>
      BY <3>4, <3>11
    <3>13. Follow(d, sd, g, P)
      BY <2>3, <2>4, <2>7, <3>12 DEF Follow
    <3> QED
      BY <1>1, <1>12, <3>13 DEF d, G, sd, P
  <2> QED
    BY <2>6, <2>7
<1> QED
  BY <1>14, <1>15

-----------------------------------------------------------------------------
(* What the steps do to what the lanes were given and have put out.        *)
LEMMA NetMaps ==
  ASSUME ReceiveInv, ~lost_length', NetWrite \/ NetRead
  PROVE  /\ SameGiven /\ device_data_out' = device_data_out
         /\ msgs' = msgs \/ \E m \in MsgLens : msgs' = Append(msgs, m)
<1>1. /\ dropped' = dropped /\ lane_meta' = lane_meta /\ lane_state' = lane_state
      /\ meta_reg' = meta_reg /\ meta_out' = meta_out /\ device_data_out' = device_data_out
  BY DEF NetWrite, NetRead, NetFrame, split_vars, lane_regs, lane_outs
<1>2. Taken' = Taken
  BY StepNet
<1>3. \A l \in Lanes : GivenTo(l)' = GivenTo(l)
  BY <1>1, GivenToIs
<1>4. msgs' = msgs \/ \E m \in MsgLens : msgs' = Append(msgs, m)
  BY DEF NetWrite, NetRead, RecvMeta, RecvData, ReadLength, SendMeta, SendData, Forward
<1> QED
  BY <1>1, <1>2, <1>3, <1>4 DEF SameGiven

LEMMA SplitRegs ==
  ASSUME SplitFrame
  PROVE  /\ lane_state' = lane_state /\ meta_reg' = meta_reg /\ meta_out' = meta_out
         /\ device_data_out' = device_data_out /\ msgs' = msgs
  BY DEF SplitFrame, lane_regs, lane_outs, net_vars

LEMMA QuietMaps ==
  ASSUME ReceiveInv, SplitFrame,
         Split!SampleIdle \/ Split!Choose \/ Split!SendData \/ Split!DropData
  PROVE  SameGiven /\ device_data_out' = device_data_out /\ msgs' = msgs
<1>1. /\ meta_fifo' = meta_fifo /\ dropped' = dropped /\ lane_meta' = lane_meta
      /\ data_fifo' = data_fifo \/ (data_fifo # <<>> /\ data_fifo' = Tail(data_fifo))
  BY DEF Split!SampleIdle, Split!Choose, Split!SendData, Split!DropData, Split!lane_vars
<1>2. Emitted' = Emitted
  BY <1>1, SplitNet DEF ReceiveInv
<1>3. Taken' = Taken
  BY <1>1, <1>2 DEF Taken
<1>4. \A l \in Lanes : GivenTo(l)' = GivenTo(l)
  BY <1>1, SplitRegs, GivenToIs
<1> QED
  BY <1>1, <1>3, <1>4, SplitRegs DEF SameGiven

LEMMA GiveMaps ==
  ASSUME ReceiveInv, SplitFrame, Split!SendMeta
  PROVE  /\ Taken \in Nat /\ Taken + 1 <= Len(msgs) /\ Taken' = Taken + 1 /\ dropped' = dropped
         /\ lane \in 0..(ACTIVE - 1)
         /\ \A l \in Lanes : GivenTo(l)' = IF l = lane THEN Append(GivenTo(l), Taken + 1) ELSE GivenTo(l)
         /\ device_data_out' = device_data_out /\ msgs' = msgs
<1>1. /\ split = "sSendMeta" /\ meta_fifo # <<>> /\ meta_fifo' = Tail(meta_fifo)
      /\ lane_meta' = [lane_meta EXCEPT ![lane] = Append(@, Head(meta_fifo))]
      /\ split' = "sSendData" /\ data_fifo' = data_fifo /\ dropped' = dropped
  BY DEF Split!SendMeta
<1>2. IInv /\ RegsOK /\ DispatchOK /\ lane \in Lanes /\ lane \in 0..(ACTIVE - 1)
  BY ActiveLanes DEF ReceiveInv, RegsOK
<1>3. Out' = Out /\ Emitted' = Emitted /\ msgs' = msgs
  BY <1>1, <1>2, SplitNet
<1>4. ~Moving /\ Moving'
  BY <1>1 DEF Moving
<1>5. Head(meta_fifo) = Taken + 1 /\ Taken' = Taken + 1 /\ Taken + 1 <= Len(msgs) /\ Taken \in Nat
  BY <1>1, <1>2, <1>3, <1>4, MetaTaken DEF DispatchOK
<1>6. ASSUME NEW l \in Lanes
      PROVE  GivenTo(l)' = IF l = lane THEN Append(GivenTo(l), Taken + 1) ELSE GivenTo(l)
  <2>1. lane_meta'[l] = IF l = lane THEN Append(lane_meta[l], Taken + 1) ELSE lane_meta[l]
    BY <1>1, <1>2, <1>5 DEF RegsOK
  <2>2. meta_reg[l] \in Nat /\ lane_meta[l] \in Seq(Nat) /\ meta_out[l] \in Seq(Metas) /\ Taken + 1 \in Nat
    BY <1>2, <1>5, LaneTyped
  <2>3. Given(lane_state[l], meta_reg[l], Append(lane_meta[l], Taken + 1), meta_out[l])
          = Append(Given(lane_state[l], meta_reg[l], lane_meta[l], meta_out[l]), Taken + 1)
    BY <2>2, GivenPush
  <2> QED
    BY <2>1, <2>3, SplitRegs, GivenToIs
<1> QED
  BY <1>1, <1>2, <1>5, <1>6, SplitRegs

LEMMA DropMaps ==
  ASSUME ReceiveInv, SplitFrame, Split!DropMeta
  PROVE  /\ Taken \in Nat /\ Taken + 1 <= Len(msgs) /\ Taken' = Taken + 1
         /\ dropped' = Append(dropped, Taken + 1)
         /\ Len(msgs) - Taken > DROP_LIMIT
         /\ \A l \in Lanes : GivenTo(l)' = GivenTo(l)
         /\ device_data_out' = device_data_out /\ msgs' = msgs
<1>1. /\ split = "sDropMeta" /\ meta_fifo # <<>> /\ meta_fifo' = Tail(meta_fifo)
      /\ dropped' = Append(dropped, Head(meta_fifo))
      /\ split' = "sDropData" /\ data_fifo' = data_fifo /\ lane_meta' = lane_meta
  BY DEF Split!DropMeta, Split!lane_vars
<1>2. IInv /\ RegsOK /\ DispatchOK /\ msgs \in Seq(MsgLens)
  BY DEF ReceiveInv, IInv, TypeOK
<1>3. Out' = Out /\ Emitted' = Emitted /\ msgs' = msgs
  BY <1>1, <1>2, SplitNet
<1>4. ~Moving /\ Moving'
  BY <1>1 DEF Moving
<1>5. Head(meta_fifo) = Taken + 1 /\ Taken' = Taken + 1 /\ Taken + 1 <= Len(msgs) /\ Taken \in Nat
  BY <1>1, <1>2, <1>3, <1>4, MetaTaken DEF DispatchOK
<1>6. \A l \in Lanes : GivenTo(l)' = GivenTo(l)
  BY <1>1, SplitRegs, GivenToIs
<1>7. Len(msgs) - Taken > DROP_LIMIT
  <2>1. Len(meta_fifo) > DROP_LIMIT /\ DROP_LIMIT \in Nat
    BY <1>1, <1>2, ReceiveAssumption DEF DispatchOK
  <2>2. Len(meta_fifo) \in Nat /\ Taken + Len(meta_fifo) <= Len(msgs) /\ Len(msgs) \in Nat
    BY <1>2, FrontFacts
  <2> QED
    BY <1>5, <2>1, <2>2
<1> QED
  BY <1>1, <1>5, <1>6, <1>7, SplitRegs

(* The beat a lane passes is one RpcDelivery lets it put out.              *)
LEMMA PassMaps ==
  ASSUME ReceiveInv, NEW l \in Lanes, Deser!SendDevice(l)
  PROVE  \E n \in Elems(GivenTo(l)) : \E k \in 1..SizesOf(msgs)[n] :
           /\ Follow(<<n, k>>, SizesOf(msgs), GivenTo(l), PutOut(device_data_out[l]))
           /\ PutOut(device_data_out'[l]) = Append(PutOut(device_data_out[l]), <<n, k>>)
           /\ \A m \in Lanes : m # l => device_data_out'[m] = device_data_out[m]
<1> DEFINE q == lane_data[l]
           p == device_data_out[l]
           g == GivenTo(l)
<1>1. /\ q # <<>>
      /\ device_data_out' = [device_data_out EXCEPT ![l] = Append(@, Head(q))]
  BY DEF Deser!SendDevice
<1>2. IInv /\ DispatchOK /\ RegsOK /\ LaneOK(l)
  BY DEF ReceiveInv
<1>3. msgs \in Seq(MsgLens) /\ Taken \in 0..Len(msgs) /\ Front \in Places
  BY <1>2, FrontFacts DEF IInv, TypeOK
<1>4. q \in Seq(RawBeats) /\ p \in Seq(RawBeats)
  BY <1>2, LaneTyped
<1>5. Taken \in Nat /\ 1..Taken \subseteq 1..Len(msgs)
  BY <1>3
<1>6. g \in Seq(Nat) /\ Rising(g) /\ Elems(g) \subseteq 1..Len(msgs)
  BY <1>2, <1>5, GivenFacts
<1>7. StreamOK(msgs, Elems(g), Front, p \o q)
  BY <1>2 DEF LaneOK
<1>8. /\ device_data_out'[l] = Append(p, Head(q))
      /\ \A m \in Lanes : m # l => device_data_out'[m] = device_data_out[m]
  BY <1>1, <1>2 DEF RegsOK
<1> HIDE DEF q, p, g
<1>9. /\ Head(q) \in RawBeats
      /\ \E n \in Elems(g) : \E k \in 1..SizesOf(msgs)[n] :
           Key[Head(q)] = <<n, k>> /\ Follow(<<n, k>>, SizesOf(msgs), g, PutOut(p))
  <2> DEFINE ms == msgs
             f == Front
  <2>1. /\ ms \in Seq(MsgLens) /\ g \in Seq(Nat) /\ Rising(g) /\ Elems(g) \subseteq 1..Len(ms)
        /\ f \in Places /\ p \in Seq(RawBeats) /\ q \in Seq(RawBeats) /\ q # <<>>
        /\ StreamOK(ms, Elems(g), f, p \o q)
    BY <1>1, <1>3, <1>4, <1>6, <1>7
  <2> HIDE DEF ms, f
  <2>2. Head(q) \in RawBeats /\ NextOut(ms, g, p, q)
    BY <2>1, FollowStream
  <2> QED
    BY <2>2 DEF ms, NextOut
<1>10. PutOut(Append(p, Head(q))) = Append(PutOut(p), Key[Head(q)])
  BY <1>4, <1>9, PutFacts
<1>11. PICK n \in Elems(g) : \E k \in 1..SizesOf(msgs)[n] :
         Key[Head(q)] = <<n, k>> /\ Follow(<<n, k>>, SizesOf(msgs), g, PutOut(p))
  BY <1>9
<1>11a. PICK k \in 1..SizesOf(msgs)[n] :
         Key[Head(q)] = <<n, k>> /\ Follow(<<n, k>>, SizesOf(msgs), g, PutOut(p))
  BY <1>11
<1>12. PutOut(device_data_out'[l]) = Append(PutOut(p), <<n, k>>)
  BY <1>8, <1>10, <1>11a
<1> QED
  BY <1>8, <1>11a, <1>12 DEF p, g

-----------------------------------------------------------------------------
(* Every message whose meta SplitDe has taken was given to a lane or lost. *)
AllGiven == UNION {Elems(GivenTo(l)) : l \in Lanes}
GivenOrLost == Elems(dropped) \cup AllGiven = 1..Taken

LEMMA GivenOrLostStart == ASSUME ReceiveInit PROVE GivenOrLost
<1>1. /\ dropped = <<>> /\ Taken = 0
      /\ \A l \in Lanes : lane_state[l] = "sIdle" /\ lane_meta[l] = <<>> /\ meta_out[l] = <<>>
  <2>1. dropped = <<>> /\ \A l \in Lanes : lane_state[l] = "sIdle" /\ lane_meta[l] = <<>> /\ meta_out[l] = <<>>
    BY DEF ReceiveInit, Deser!Init, Lanes
  <2>2. ReceiveInv
    BY ReceiveStart
  <2>3. IInv /\ DispatchOK
    BY <2>2 DEF ReceiveInv
  <2>4. Taken \in 0..Len(msgs) /\ msgs = <<>>
    BY <2>3, FrontFacts DEF ReceiveInit, Init
  <2> QED
    BY <2>1, <2>4
<1>2. ASSUME NEW l \in Lanes PROVE Elems(GivenTo(l)) = {}
  <2>1. GivenTo(l) = Given("sIdle", meta_reg[l], <<>>, <<>>)
    BY <1>1, GivenToIs
  <2>2. Told(<<>>) = <<>>
    BY DEF Told
  <2>3. Given("sIdle", meta_reg[l], <<>>, <<>>) = <<>>
    BY <2>2 DEF Given, InHand
  <2> QED
    BY <2>1, <2>3 DEF Elems
<1>3. Elems(dropped) = {} /\ 1..Taken = {}
  BY <1>1 DEF Elems
<1> QED
  BY <1>2, <1>3 DEF GivenOrLost, AllGiven
LEMMA SameAll == ASSUME GivenOrLost, SameGiven PROVE GivenOrLost'
<1>1. AllGiven' = UNION {Elems(GivenTo(l)') : l \in Lanes}
  BY DEF AllGiven, Lanes, Deser!Lanes, Elems
<1>2. AllGiven' = AllGiven
  BY <1>1 DEF SameGiven, AllGiven
<1>3. Elems(dropped') = Elems(dropped)
  BY DEF SameGiven
<1>4. Elems(dropped)' = Elems(dropped')
  BY DEF Elems
<1> QED
  BY <1>2, <1>3, <1>4 DEF GivenOrLost, SameGiven

LEMMA GiveAll ==
  ASSUME ReceiveInv, GivenOrLost, SplitFrame, Split!SendMeta PROVE GivenOrLost'
<1>1. /\ Taken \in Nat /\ Taken' = Taken + 1 /\ dropped' = dropped /\ lane \in 0..(ACTIVE - 1)
      /\ \A l \in Lanes : GivenTo(l)' = IF l = lane THEN Append(GivenTo(l), Taken + 1) ELSE GivenTo(l)
  BY GiveMaps
<1>2. lane \in Lanes /\ RegsOK
  BY <1>1, ActiveLanes DEF ReceiveInv
<1>3. ASSUME NEW l \in Lanes
      PROVE  Elems(GivenTo(l)') = IF l = lane THEN Elems(GivenTo(l)) \cup {Taken + 1} ELSE Elems(GivenTo(l))
  <2>1. GivenTo(l) \in Seq(Nat) /\ Taken + 1 \in Nat
    BY <1>1, <1>2, GivenIsSeq
  <2>2. Elems(Append(GivenTo(l), Taken + 1)) = Elems(GivenTo(l)) \cup {Taken + 1}
    BY <2>1, ElemsPush
  <2> QED
    BY <1>1, <2>2
<1>4. AllGiven' = UNION {Elems(GivenTo(l)') : l \in Lanes}
  BY DEF AllGiven, Lanes, Deser!Lanes, Elems
<1>5. AllGiven' = AllGiven \cup {Taken + 1}
  BY <1>2, <1>3, <1>4 DEF AllGiven
<1>6. Elems(dropped)' = Elems(dropped)
  BY <1>1 DEF Elems
<1>7. 1..(Taken + 1) = (1..Taken) \cup {Taken + 1}
  BY <1>1
<1> QED
  BY <1>1, <1>5, <1>6, <1>7 DEF GivenOrLost

LEMMA DropAll ==
  ASSUME ReceiveInv, GivenOrLost, SplitFrame, Split!DropMeta PROVE GivenOrLost'
<1>1. /\ Taken \in Nat /\ Taken' = Taken + 1 /\ dropped' = Append(dropped, Taken + 1)
      /\ \A l \in Lanes : GivenTo(l)' = GivenTo(l)
  BY DropMaps
<1>2. dropped \in Seq(Nat) /\ Taken + 1 \in Nat
  BY <1>1 DEF ReceiveInv, RegsOK
<1>3. Elems(dropped)' = Elems(dropped) \cup {Taken + 1}
  <2>1. Elems(Append(dropped, Taken + 1)) = Elems(dropped) \cup {Taken + 1}
    BY <1>2, ElemsPush
  <2>2. Elems(dropped)' = Elems(dropped')
    BY DEF Elems
  <2> QED
    BY <1>1, <2>1, <2>2
<1>4. AllGiven' = UNION {Elems(GivenTo(l)') : l \in Lanes}
  BY DEF AllGiven, Lanes, Deser!Lanes, Elems
<1>5. AllGiven' = AllGiven
  BY <1>1, <1>4 DEF AllGiven
<1>6. 1..(Taken + 1) = (1..Taken) \cup {Taken + 1}
  BY <1>1
<1> QED
  BY <1>1, <1>3, <1>5, <1>6 DEF GivenOrLost

(* No message is forgotten between the queue of SplitDe and the lanes,     *)
(* until a length is lost.                                                 *)
DeliverySound == ~lost_length => ReceiveInv /\ GivenOrLost

THEOREM NoneForgotten == ReceiveSpec => []DeliverySound
<1>1. ASSUME ReceiveInv, GivenOrLost, ~lost_length', [ReceiveNext]_receive_vars PROVE GivenOrLost'
  <2>1. CASE NetWrite \/ NetRead
    BY <1>1, <2>1, NetMaps, SameAll
  <2>2. CASE SplitSample \/ SplitMove
    <3>1. SplitFrame
      BY <2>2 DEF SplitSample, SplitMove
    <3> QED
      BY <1>1, <2>2, <3>1, QuietMaps, SameAll, GiveAll, DropAll DEF SplitSample, SplitMove
  <2>3. ASSUME NEW l \in Lanes, LaneStep(l) PROVE GivenOrLost'
    BY <1>1, <2>3, LaneMaps, SameAll DEF LaneStep
  <2>4. CASE UNCHANGED receive_vars
    <3>1. /\ dropped' = dropped /\ lane_state' = lane_state /\ meta_reg' = meta_reg
          /\ lane_meta' = lane_meta /\ meta_out' = meta_out
      BY <2>4 DEF receive_vars, split_vars, lane_regs, lane_outs
    <3>2. UNCHANGED <<net_vars, meta_fifo, data_fifo, split_vars>>
      BY <2>4 DEF receive_vars
    <3>3. Taken' = Taken
      BY <1>1, <3>2, LaneFrame
    <3>4. SameGiven
      BY <3>1, <3>3, GivenToIs DEF SameGiven
    <3> QED
      BY <1>1, <3>4, SameAll
  <2> QED
    BY <1>1, <2>1, <2>2, <2>3, <2>4 DEF ReceiveNext
<1>2. ASSUME ReceiveSound', DeliverySound, [ReceiveNext]_receive_vars PROVE DeliverySound'
  <2> SUFFICES ASSUME ~lost_length' PROVE ReceiveInv' /\ GivenOrLost'
    BY DEF DeliverySound
  <2>1. ReceiveInv /\ GivenOrLost
    BY <1>2, ReceiveLoss DEF DeliverySound
  <2> QED
    BY <1>1, <1>2, <2>1 DEF ReceiveSound
<1>3. ReceiveInit => DeliverySound
  BY ReceiveStart, GivenOrLostStart DEF DeliverySound
<1> QED
  BY ReceiveInStep, <1>2, <1>3, PTL DEF ReceiveSpec

-----------------------------------------------------------------------------
(* The state of RpcDelivery in the words of the lemmas above.              *)
PutBy(l) == PutOut(device_data_out[l])

LEMMA WaitingIs ==
  ASSUME ReceiveInv, GivenOrLost
  PROVE  Delivery!Waiting = (Taken + 1)..Len(msgs)
<1>1. Taken \in 0..Len(msgs) /\ Len(msgs) \in Nat /\ msgs \in Seq(MsgLens)
  BY FrontFacts DEF ReceiveInv, IInv, TypeOK
<1>2. Delivery!Waiting = (1..Len(SizesOf(msgs))) \ (Elems(dropped) \cup AllGiven)
  BY DEF Delivery!Waiting, Delivery!Elements, SizesOf, Elems, AllGiven
<1>3. Len(SizesOf(msgs)) = Len(msgs)
  BY <1>1, SizesFacts
<1>4. Delivery!Waiting = (1..Len(msgs)) \ (1..Taken)
  BY <1>2, <1>3 DEF GivenOrLost
<1>5. (1..Len(msgs)) \ (1..Taken) = (Taken + 1)..Len(msgs)
  BY <1>1
<1> QED
  BY <1>4, <1>5

LEMMA NextIs ==
  ASSUME ReceiveInv, GivenOrLost, Taken \in Nat, Taken + 1 <= Len(msgs)
  PROVE  Taken + 1 \in Delivery!Waiting /\ Delivery!IsNext(Taken + 1)
<1>1. Delivery!Waiting = (Taken + 1)..Len(msgs)
  BY WaitingIs
<1>2. Taken + 1 \in (Taken + 1)..Len(msgs) /\ \A m \in (Taken + 1)..Len(msgs) : Taken + 1 <= m
  BY DEF ReceiveInv, IInv, TypeOK
<1> QED
  BY <1>1, <1>2 DEF Delivery!IsNext

SentMap  == SizesOf(msgs)
GivenMap == [l \in Lanes |-> GivenTo(l)]
GotMap   == [l \in Lanes |-> PutBy(l)]

LEMMA MapsPrimed ==
  /\ GivenMap' = [l \in Lanes |-> GivenTo(l)'] /\ GotMap' = [l \in Lanes |-> PutOut(device_data_out'[l])]
  /\ SentMap' = SizesOf(msgs')
  BY DEF GivenMap, GotMap, SentMap, PutBy, PutOut, SizesOf, Lanes, Deser!Lanes

LEMMA GivenKept == ASSUME SameGiven PROVE GivenMap' = GivenMap
  BY MapsPrimed DEF SameGiven, GivenMap

LEMMA GotKept == ASSUME device_data_out' = device_data_out PROVE GotMap' = GotMap
  BY MapsPrimed DEF GotMap, PutBy

LEMMA StutterMaps ==
  ASSUME GivenMap' = GivenMap, GotMap' = GotMap, SentMap' = SentMap, dropped' = dropped
  PROVE  /\ UNCHANGED Delivery!beats
         /\ lost_length' = lost_length => UNCHANGED Delivery!vars
<1>1. UNCHANGED Delivery!beats
  BY DEF Delivery!beats, GivenMap, GotMap, SentMap, SizesOf, PutBy, PutOut
<1> QED
  BY <1>1 DEF Delivery!vars

LEMMA SendRefines ==
  ASSUME msgs \in Seq(MsgLens), NEW m \in MsgLens, msgs' = Append(msgs, m),
         GivenMap' = GivenMap, GotMap' = GotMap, dropped' = dropped
  PROVE  Delivery!Send
<1>1. m \div 64 \in 1..RX_DEPTH /\ SentMap' = Append(SentMap, m \div 64)
  <2>1. m \div 64 \in 1..RX_DEPTH /\ SizesOf(Append(msgs, m)) = Append(SizesOf(msgs), m \div 64)
    BY SizesFacts
  <2> QED
    BY <2>1, MapsPrimed DEF SentMap
<1>2. \E k \in 1..RX_DEPTH : SentMap' = Append(SentMap, k)
  BY <1>1
<1> QED
  BY <1>2 DEF Delivery!Send, GivenMap, GotMap, SentMap, SizesOf, PutBy, PutOut

LEMMA GiveRefines ==
  ASSUME ReceiveInv, GivenOrLost, SplitFrame, Split!SendMeta
  PROVE  lane \in 0..(ACTIVE - 1) /\ Delivery!Give(lane)
<1>1. /\ Taken \in Nat /\ Taken + 1 <= Len(msgs) /\ dropped' = dropped
      /\ lane \in 0..(ACTIVE - 1)
      /\ \A l \in Lanes : GivenTo(l)' = IF l = lane THEN Append(GivenTo(l), Taken + 1) ELSE GivenTo(l)
      /\ device_data_out' = device_data_out /\ msgs' = msgs
  BY GiveMaps
<1>2. Taken + 1 \in Delivery!Waiting /\ Delivery!IsNext(Taken + 1)
  BY <1>1, NextIs
<1>3. GivenMap' = [GivenMap EXCEPT ![lane] = Append(@, Taken + 1)]
  BY <1>1, MapsPrimed DEF GivenMap
<1>4. GotMap' = GotMap /\ SentMap' = SentMap
  BY <1>1, GotKept, MapsPrimed DEF SentMap
<1>5. \E n \in Delivery!Waiting :
        Delivery!IsNext(n) /\ GivenMap' = [GivenMap EXCEPT ![lane] = Append(@, n)]
  BY <1>2, <1>3
<1> QED
  BY <1>1, <1>4, <1>5 DEF Delivery!Give, GivenMap, GotMap, SentMap, SizesOf, PutBy, PutOut

LEMMA DropRefines ==
  ASSUME ReceiveInv, GivenOrLost, SplitFrame, Split!DropMeta
  PROVE  Delivery!Drop
<1>1. /\ Taken \in Nat /\ Taken + 1 <= Len(msgs) /\ dropped' = Append(dropped, Taken + 1)
      /\ Len(msgs) - Taken > DROP_LIMIT
      /\ \A l \in Lanes : GivenTo(l)' = GivenTo(l)
      /\ device_data_out' = device_data_out /\ msgs' = msgs
  BY DropMaps
<1>2. Taken + 1 \in Delivery!Waiting /\ Delivery!IsNext(Taken + 1)
  BY <1>1, NextIs
<1>3. Cardinality(Delivery!Waiting) > DROP_LIMIT
  <2>1. Delivery!Waiting = (Taken + 1)..Len(msgs) /\ Len(msgs) \in Nat
    BY WaitingIs DEF ReceiveInv, IInv, TypeOK
  <2>2. Cardinality((Taken + 1)..Len(msgs)) = Len(msgs) - (Taken + 1) + 1
    <3>1. Taken + 1 \in Int /\ Len(msgs) \in Int /\ ~(Taken + 1 > Len(msgs))
      BY <1>1, <2>1
    <3> QED
      BY <3>1, FS_Interval
  <2>3. Len(msgs) - (Taken + 1) + 1 = Len(msgs) - Taken
    BY <1>1, <2>1
  <2> QED
    BY <1>1, <2>1, <2>2, <2>3
<1>4. GivenMap' = GivenMap /\ GotMap' = GotMap /\ SentMap' = SentMap
  BY <1>1, GotKept, MapsPrimed DEF SentMap, GivenMap
<1>5. \E n \in Delivery!Waiting : Delivery!IsNext(n) /\ dropped' = Append(dropped, n)
  BY <1>1, <1>2
<1> QED
  BY <1>3, <1>4, <1>5 DEF Delivery!Drop, Delivery!Cardinality, Cardinality, GivenMap, GotMap, SentMap,
                          SizesOf, PutBy, PutOut

LEMMA FollowsIs ==
  ASSUME NEW l \in Lanes, NEW b
  PROVE  Delivery!Follows(b, l) <=> Follow(b, SentMap, GivenMap[l], GotMap[l])
  BY DEF Delivery!Follows, Follow, GivenMap, GotMap, SentMap, SizesOf, PutBy, PutOut

LEMMA PutRefines ==
  ASSUME ReceiveInv, NEW l \in Lanes, UNCHANGED <<net_vars, meta_fifo, data_fifo, split_vars>>,
         Deser!SendDevice(l)
  PROVE  Delivery!Put(l)
<1>1. SameGiven /\ msgs' = msgs
  BY LaneMaps
<1>2. GivenMap' = GivenMap /\ SentMap' = SentMap /\ dropped' = dropped
  BY <1>1, GivenKept, MapsPrimed DEF SameGiven, SentMap
<1>3. PICK n \in Elems(GivenTo(l)) : \E k \in 1..SizesOf(msgs)[n] :
        /\ Follow(<<n, k>>, SizesOf(msgs), GivenTo(l), PutOut(device_data_out[l]))
        /\ PutOut(device_data_out'[l]) = Append(PutOut(device_data_out[l]), <<n, k>>)
        /\ \A m \in Lanes : m # l => device_data_out'[m] = device_data_out[m]
  BY PassMaps
<1>4. PICK k \in 1..SizesOf(msgs)[n] :
        /\ Follow(<<n, k>>, SizesOf(msgs), GivenTo(l), PutOut(device_data_out[l]))
        /\ PutOut(device_data_out'[l]) = Append(PutOut(device_data_out[l]), <<n, k>>)
        /\ \A m \in Lanes : m # l => device_data_out'[m] = device_data_out[m]
  BY <1>3
<1>5. GivenMap[l] = GivenTo(l) /\ GotMap[l] = PutOut(device_data_out[l]) /\ SentMap = SizesOf(msgs)
  BY DEF GivenMap, GotMap, SentMap, PutBy
<1>6. Delivery!Follows(<<n, k>>, l)
  BY <1>4, <1>5, FollowsIs
<1>7. GotMap' = [GotMap EXCEPT ![l] = Append(@, <<n, k>>)]
  BY <1>4, <1>5, MapsPrimed DEF GotMap, PutBy
<1>8. n \in Elems(GivenMap[l]) /\ k \in 1..SentMap[n]
  BY <1>5
<1>9. \E i \in Elems(GivenMap[l]) : \E j \in 1..SentMap[i] :
        Delivery!Follows(<<i, j>>, l) /\ GotMap' = [GotMap EXCEPT ![l] = Append(@, <<i, j>>)]
  BY <1>6, <1>7, <1>8
<1> QED
  BY <1>2, <1>9 DEF Delivery!Put, GivenMap, GotMap, SentMap, PutBy, SizesOf, PutOut,
     Delivery!Elements, Elems

(* The step that loses a length, and so breaks the promise, comes after a  *)
(* short message.                                                          *)
LEMMA BreakRefines ==
  ASSUME ReceiveInv, ~lost_length, lost_length', NetWrite
  PROVE  Delivery!Break
<1>1. CASE RecvMeta
  <2>1. lost_length' = lost_length
    BY <1>1 DEF RecvMeta
  <2> QED
    BY <2>1
<1>2. CASE RecvData
  <2>1. rx.pkg <= 64 /\ recv_meta.last_pkg /\ LengthsFull
    BY <1>2, Zenon DEF RecvData
  <2>2. IInv /\ msgs \in Seq(MsgLens)
    BY DEF ReceiveInv, IInv, TypeOK
  <2>3. rx.msg = 0 /\ rx.pkg = 64
    BY <1>2, <2>1, <2>2, BeatServed
  <2>4. Len(msg_length_fifo) \in Nat /\ LEN_DEPTH \in Nat
    BY <2>2, Typed, NetToMemAssumption
  <2>5. ~AllLong(msgs)
    BY <1>2, <2>1, <2>2, <2>3, <2>4, RoomForLength DEF LengthsFull
  <2>6. PICK n \in 1..Len(msgs) : Short(msgs[n])
    BY <2>5 DEF AllLong
  <2>7. Len(SentMap) = Len(msgs) /\ SentMap[n] = Beats(msgs[n])
    <3>1. Len(SizesOf(msgs)) = Len(msgs) /\ SizesOf(msgs)[n] = BeatsOf(msgs, n)
      BY <2>2, SizesFacts
    <3> QED
      BY <3>1 DEF SentMap, BeatsOf
  <2>8. \E i \in 1..Len(SentMap) : SentMap[i] * LEN_DEPTH < RX_DEPTH
    BY <2>6, <2>7 DEF Short
  <2>9. /\ dropped' = dropped /\ lane_meta' = lane_meta /\ lane_state' = lane_state
        /\ meta_reg' = meta_reg /\ meta_out' = meta_out /\ device_data_out' = device_data_out
    BY DEF NetWrite, NetFrame, split_vars, lane_regs, lane_outs
  <2>10. msgs' = msgs
    BY <1>2 DEF RecvData
  <2>11. \A l \in Lanes : GivenTo(l)' = GivenTo(l)
    BY <2>9, GivenToIs
  <2>12. GivenMap' = GivenMap /\ GotMap' = GotMap /\ SentMap' = SentMap
    BY <2>9, <2>10, <2>11, GotKept, MapsPrimed DEF SentMap, GivenMap
  <2>13. UNCHANGED Delivery!beats
    BY <2>9, <2>12, StutterMaps
  <2> QED
    BY <2>8, <2>13 DEF Delivery!Break, SentMap, SizesOf
<1> QED
  BY <1>1, <1>2 DEF NetWrite

(* The receive side implements RpcDelivery, for any number of lanes, any   *)
(* depths and any message lengths: each message goes whole and in order to *)
(* one active lane, or is dropped whole while more than DROP_LIMIT wait,   *)
(* and a lane puts out the stream of what it was given, also when headers  *)
(* cost a beat; only the loss of a length after a short message breaks it  *)
(* (NetToMem.scala 76-144, SplitDeMul.scala 41-120,                        *)
(* DeserializerSimple.scala 60-130).                                       *)
THEOREM RpcsDelivered == ReceiveSpec => DeliversRpcs
<1>1. ReceiveInit => Delivery!Init
  <2>1. SUFFICES ASSUME ReceiveInit PROVE Delivery!Init
    OBVIOUS
  <2>2. /\ msgs = <<>> /\ dropped = <<>> /\ lost_length = FALSE
        /\ \A l \in Lanes : /\ lane_state[l] = "sIdle" /\ lane_meta[l] = <<>> /\ meta_out[l] = <<>>
                            /\ device_data_out[l] = <<>>
    BY <2>1 DEF ReceiveInit, Init, Deser!Init, Lanes
  <2>3. SentMap = <<>>
    BY <2>2 DEF SentMap, SizesOf
  <2>4. ASSUME NEW l \in Lanes PROVE GivenTo(l) = <<>> /\ PutBy(l) = <<>>
    <3>1. GivenTo(l) = Given("sIdle", meta_reg[l], <<>>, <<>>)
      BY <2>2, GivenToIs
    <3>2. Told(<<>>) = <<>> /\ PutOut(<<>>) = <<>>
      BY DEF Told, PutOut
    <3>3. Given("sIdle", meta_reg[l], <<>>, <<>>) = <<>>
      BY <3>2 DEF Given, InHand
    <3> QED
      BY <2>2, <3>1, <3>2, <3>3 DEF PutBy
  <2>5. GivenMap = [l \in Lanes |-> <<>>] /\ GotMap = [l \in Lanes |-> <<>>]
    BY <2>4 DEF GivenMap, GotMap
  <2> QED
    BY <2>2, <2>3, <2>5 DEF Delivery!Init, GivenMap, GotMap, SentMap, SizesOf, PutBy, PutOut
<1>2. DeliverySound /\ DeliverySound' /\ [ReceiveNext]_receive_vars => [Delivery!Next]_(Delivery!vars)
  <2> SUFFICES ASSUME DeliverySound, DeliverySound', [ReceiveNext]_receive_vars
               PROVE  Delivery!Next \/ UNCHANGED Delivery!vars
    OBVIOUS
  <2>1. CASE lost_length
    BY <2>1, ReceiveLoss DEF Delivery!Next, Delivery!Astray
  <2>2. CASE ~lost_length /\ lost_length'
    <3>1. ReceiveInv /\ NetWrite
      BY <2>2, ReceiveLoss DEF DeliverySound
    <3> QED
      BY <2>2, <3>1, BreakRefines DEF Delivery!Next
  <2>3. CASE ~lost_length /\ ~lost_length'
    <3> USE <2>3
    <3>0. /\ ReceiveInv /\ GivenOrLost /\ ReceiveInv' /\ lost_length' = lost_length
      <4>1. ReceiveInv /\ GivenOrLost /\ ReceiveInv'
        BY DEF DeliverySound
      <4>2. lost_length \in BOOLEAN /\ lost_length' \in BOOLEAN
        BY <4>1 DEF ReceiveInv, HeadersOK
      <4> QED
        BY <4>1, <4>2
    <3>1. ASSUME SameGiven, device_data_out' = device_data_out, msgs' = msgs
          PROVE  UNCHANGED Delivery!vars
      <4>1. GivenMap' = GivenMap /\ GotMap' = GotMap /\ SentMap' = SentMap /\ dropped' = dropped
        BY <3>1, GivenKept, GotKept, MapsPrimed DEF SentMap, SameGiven
      <4> QED
        BY <3>0, <4>1, StutterMaps
    <3>2. CASE NetWrite \/ NetRead
      <4>1. /\ SameGiven /\ device_data_out' = device_data_out
            /\ msgs' = msgs \/ \E m \in MsgLens : msgs' = Append(msgs, m)
        BY <3>0, <3>2, NetMaps
      <4>2. ASSUME NEW m \in MsgLens, msgs' = Append(msgs, m) PROVE Delivery!Send
        <5>1. GivenMap' = GivenMap /\ GotMap' = GotMap /\ dropped' = dropped /\ msgs \in Seq(MsgLens)
          BY <3>0, <4>1, GivenKept, GotKept DEF SameGiven, ReceiveInv, IInv, TypeOK
        <5> QED
          BY <4>2, <5>1, SendRefines
      <4> QED
        BY <3>0, <3>1, <4>1, <4>2 DEF Delivery!Next, Delivery!Deliver
    <3>3. CASE SplitSample \/ SplitMove
      <4>1. SplitFrame
        BY <3>3 DEF SplitSample, SplitMove
      <4>2. CASE Split!SampleIdle \/ Split!Choose \/ Split!SendData \/ Split!DropData
        BY <3>0, <3>1, <4>1, <4>2, QuietMaps
      <4>3. CASE Split!SendMeta
        BY <3>0, <4>1, <4>3, GiveRefines DEF Delivery!Next, Delivery!Deliver
      <4>4. CASE Split!DropMeta
        BY <3>0, <4>1, <4>4, DropRefines DEF Delivery!Next, Delivery!Deliver
      <4> QED
        BY <3>3, <4>2, <4>3, <4>4 DEF SplitSample, SplitMove
    <3>4. ASSUME NEW l \in Lanes, LaneStep(l) PROVE Delivery!Next \/ UNCHANGED Delivery!vars
      <4>1. CASE Deser!SendDevice(l)
        BY <3>0, <3>4, <4>1, PutRefines DEF LaneStep, Delivery!Next, Delivery!Deliver
      <4>2. CASE ~Deser!SendDevice(l)
        BY <3>0, <3>1, <3>4, <4>2, LaneMaps DEF LaneStep
      <4> QED
        BY <4>1, <4>2
    <3>5. CASE UNCHANGED receive_vars
      BY <3>5 DEF receive_vars, net_vars, split_vars, lane_regs, lane_outs, Delivery!vars,
                  Delivery!beats, GivenTo
    <3> QED
      BY <3>2, <3>3, <3>4, <3>5 DEF ReceiveNext
  <2> QED
    BY <2>1, <2>2, <2>3
<1> QED
  BY <1>1, <1>2, NoneForgotten, PTL DEF ReceiveSpec, DeliversRpcs, Delivery!Spec

=============================================================================
