--------------------------- MODULE ReadHostProofs ---------------------------
(* Proof that ReadHost routes every beat to the user that asked for it:    *)
(* RoutedToUser, for all lengths, depths and numbers of commands.  The     *)
(* host's data is one stream whose places are numbered <<n, k>>: beat k of *)
(* the n-th read.  Memory sends it from place In, the routing machine cuts *)
(* it at place Out, and host_data_fifo is the Chain between them; a user   *)
(* has exactly the beats of its own reads that lie before Out.             *)
EXTENDS ReadHost, FifoLemmas

Commands == [id: Nat, eng: BOOLEAN, host: Nat, device: Nat]
HostCmds == [id: Nat, eng: BOOLEAN, length: Nat]
Reads    == [id: Nat, beats: Nat, sent: Nat]
Beat     == Nat \X Nat
States   == {"sIdle", "sSer", "sEng"}

TypeOK ==
  /\ cmds \in Seq(Commands) /\ cmd_fifo \in [Users -> Seq(Commands)]
  /\ state \in States /\ reg \in Commands
  /\ host_cmd_fifo \in Seq(HostCmds) /\ reads \in Seq(HostCmds)
  /\ read_q \in Seq(Reads) /\ hbm_q \in [Users -> Seq(Reads)]
  /\ host_data_fifo \in Seq(Beat)
  /\ state_r \in States /\ host_reg \in HostCmds
  /\ data_fifo \in [Users -> Seq(Beat)] /\ cmd_out \in [Users -> Seq(Commands)]
  /\ host_out \in [Users -> Seq(Beat)] /\ device_out \in [Users -> Seq(Beat)]

-----------------------------------------------------------------------------
(* The commands of user u: those it was handed, the one in the register    *)
(* and those that wait are commands the host wrote for it, in this order.  *)
StateOf(u) == IF u = "ser" THEN "sSer" ELSE "sEng"
Written(cm, c, u) ==
  /\ c.id \in 1..Len(cm) /\ cm[c.id] = c /\ User(c) = u
  /\ u = "ser" => c.host > 0
  /\ u = "eng" => c.host = 0 \/ c.device = 0
Rises(s) == \A i, j \in 1..Len(s) : i < j => s[i].id < s[j].id

CmdsOf(u) ==
  /\ \A i \in 1..Len(cmd_fifo[u]) : Written(cmds, cmd_fifo[u][i], u)
  /\ Rises(cmd_fifo[u])
  /\ state = StateOf(u) =>
       Written(cmds, reg, u) /\ \A i \in 1..Len(cmd_fifo[u]) : reg.id < cmd_fifo[u][i].id
  /\ \A i \in 1..Len(cmd_out[u]) :
       /\ Written(cmds, cmd_out[u][i], u)
       /\ state = StateOf(u) => cmd_out[u][i].id < reg.id
       /\ \A j \in 1..Len(cmd_fifo[u]) : cmd_out[u][i].id < cmd_fifo[u][j].id
  /\ Rises(cmd_out[u])
CmdsOK == \A u \in Users : CmdsOf(u)

-----------------------------------------------------------------------------
(* The reads are those of the commands handed out that have a host part;   *)
(* the reads of one user are in the order of its commands.                 *)
ReadOf(rs, u, n, c) == n \in 1..Len(rs) /\ rs[n] = HostCmd(c) /\ User(rs[n]) = u
ReadsMatch(rs, cs, u) ==
  /\ \A n \in 1..Len(rs) : User(rs[n]) = u =>
       rs[n].length > 0 /\ \E i \in 1..Len(cs) : ReadOf(rs, u, n, cs[i])
  /\ \A i \in 1..Len(cs) : cs[i].host > 0 => \E n \in 1..Len(rs) : ReadOf(rs, u, n, cs[i])
ReadsRise(rs, u) ==
  \A m, n \in 1..Len(rs) : User(rs[m]) = u /\ User(rs[n]) = u /\ m < n => rs[m].id < rs[n].id
ReadsOK == \A u \in Users : ReadsMatch(reads, cmd_out[u], u) /\ ReadsRise(reads, u)

-----------------------------------------------------------------------------
(* The places of the stream of host data.                                  *)
Places == Nat \X Nat
BeatsOf(rs, n) == Beats(rs[n].length)
At(rs, id) == CHOOSE n \in 1..Len(rs) : rs[n].id = id
Key(rs) == [b \in Beat |-> <<At(rs, b[1]), b[2]>>]
Succ(rs) == [c \in Places |-> IF c[2] = BeatsOf(rs, c[1]) THEN <<c[1] + 1, 1>> ELSE <<c[1], c[2] + 1>>]

Issued   == Len(reads)
Answered == Issued - Len(read_q)
In       == <<Answered + 1, IF read_q = <<>> THEN 1 ELSE read_q[1].sent + 1>>
Routed   == Issued - Len(host_cmd_fifo)
Done     == (reads[Routed].length - host_reg.length) \div 64
Out      == IF state_r = "sIdle" THEN <<Routed + 1, 1>> ELSE <<Routed, Done + 1>>

SenderOK ==
  /\ Answered \in Nat
  /\ \A i \in 1..Len(read_q) :
       /\ read_q[i].id = reads[Answered + i].id
       /\ read_q[i].beats = BeatsOf(reads, Answered + i)
       /\ read_q[i].sent < read_q[i].beats /\ (i > 1 => read_q[i].sent = 0)

RouterOK ==
  /\ Routed \in Nat
  /\ \A i \in 1..Len(host_cmd_fifo) : host_cmd_fifo[i] = reads[Routed + i]
  /\ state_r # "sIdle" =>
       /\ Routed > 0 /\ host_reg.length > 0 /\ state_r = StateOf(User(reads[Routed]))
       /\ Done \in Nat /\ reads[Routed].length = host_reg.length + 64 * Done

IsBeat(b, rs) == \E n \in 1..Len(rs) : \E k \in 1..BeatsOf(rs, n) : b = <<rs[n].id, k>>
StreamOK ==
  /\ \A i \in 1..Len(host_data_fifo) : IsBeat(host_data_fifo[i], reads)
  /\ Chain(host_data_fifo, Key(reads), Succ(reads), Out, In)

-----------------------------------------------------------------------------
(* What user u has of the host data: the beats of its reads before place   *)
(* c; and of the device data: the beats of its commands before the one the *)
(* HBM sends it next.                                                      *)
HostLogOK(log, rs, u, c) ==
  /\ \A i \in 1..Len(log) : \E n \in 1..Len(rs) : \E k \in 1..BeatsOf(rs, n) :
       User(rs[n]) = u /\ log[i] = <<rs[n].id, k>> /\ Earlier(<<n, k>>, c)
  /\ \A n \in 1..Len(rs) : \A k \in 1..BeatsOf(rs, n) :
       User(rs[n]) = u /\ Earlier(<<n, k>>, c) => \E i \in 1..Len(log) : log[i] = <<rs[n].id, k>>
  /\ \A i, j \in 1..Len(log) : i < j => Earlier(log[i], log[j])
HostOK == \A u \in Users : HostLogOK(host_out[u] \o data_fifo[u], reads, u, Out)

Sent(q, id, k) == q = <<>> \/ Earlier(<<id, k>>, <<q[1].id, q[1].sent + 1>>)
Waits(q, id) == \E j \in 1..Len(q) : q[j].id = id
DeviceLogOK(log, cs, q) ==
  /\ Rises(q)
  /\ \A j \in 1..Len(q) :
       /\ q[j].sent < q[j].beats /\ (j > 1 => q[j].sent = 0)
       /\ \E i \in 1..Len(cs) : cs[i].id = q[j].id /\ Beats(cs[i].device) = q[j].beats
  /\ \A i \in 1..Len(cs) : \A j \in 1..Len(q) :
       cs[i].device > 0 /\ cs[i].id >= q[1].id => Waits(q, cs[i].id)
  /\ \A i \in 1..Len(log) : \E m \in 1..Len(cs) : \E k \in 1..Beats(cs[m].device) :
       log[i] = <<cs[m].id, k>> /\ Sent(q, cs[m].id, k)
  /\ \A m \in 1..Len(cs) : \A k \in 1..Beats(cs[m].device) :
       Sent(q, cs[m].id, k) => \E i \in 1..Len(log) : log[i] = <<cs[m].id, k>>
  /\ \A i, j \in 1..Len(log) : i < j => Earlier(log[i], log[j])
DeviceOK == \A u \in Users : DeviceLogOK(device_out[u], cmd_out[u], hbm_q[u])

IInv == TypeOK /\ CmdsOK /\ ReadsOK /\ SenderOK /\ RouterOK /\ StreamOK /\ HostOK /\ DeviceOK

-----------------------------------------------------------------------------
(* Beats of a length; the serializer's rounding changes nothing.           *)
LEMMA BeatsFacts ==
  /\ \A l \in Nat : Beats(l) \in Nat /\ (l > 0 <=> Beats(l) > 0)
  /\ \A l, d \in Nat : Beats(l + 64 * d) = Beats(l) + d
  /\ \A l \in Nat : l > 0 /\ l <= 64 => Beats(l) = 1
  /\ \A l \in Nat : Beats(((l + 63) \div 64) * 64) = Beats(l)
<1>1. \A l \in Nat : Beats(l) \in Nat /\ (l > 0 <=> Beats(l) > 0)
  BY DEF Beats
<1>2. \A l, d \in Nat : Beats(l + 64 * d) = Beats(l) + d
  BY DEF Beats
<1>3. \A l \in Nat : l > 0 /\ l <= 64 => Beats(l) = 1
  BY DEF Beats
<1>4. \A l \in Nat : Beats(((l + 63) \div 64) * 64) = Beats(l)
  BY DEF Beats
<1> QED
  BY <1>1, <1>2, <1>3, <1>4

LEMMA ReadFacts ==
  ASSUME NEW rs \in Seq(HostCmds)
  PROVE  /\ Len(rs) \in Nat
         /\ \A n \in 1..Len(rs) :
              /\ rs[n].id \in Nat /\ rs[n].length \in Nat /\ BeatsOf(rs, n) \in Nat
              /\ rs[n].length > 0 <=> BeatsOf(rs, n) > 0
<1>1. Len(rs) \in Nat /\ \A n \in 1..Len(rs) : rs[n] \in HostCmds
  BY EmptyQueue
<1>2. \A r \in HostCmds : r.id \in Nat /\ r.length \in Nat
  BY DEF HostCmds
<1>3. ASSUME NEW n \in 1..Len(rs)
      PROVE  /\ rs[n].id \in Nat /\ rs[n].length \in Nat /\ BeatsOf(rs, n) \in Nat
             /\ rs[n].length > 0 <=> BeatsOf(rs, n) > 0
  <2>1. rs[n].id \in Nat /\ rs[n].length \in Nat
    BY <1>1, <1>2
  <2> QED
    BY <2>1, BeatsFacts, Zenon DEF BeatsOf
<1> QED
  BY <1>1, <1>3

(* The place after <<n, k>> has before it what was before <<n, k>>, and    *)
(* <<n, k>>.                                                               *)
Follows(w, n, k, B) == /\ k = B => w = <<n + 1, 1>>
                       /\ k # B => w = <<n, k + 1>>

LEMMA NextPlace ==
  ASSUME NEW n \in Nat, NEW B \in Nat, NEW k \in 1..B, NEW w, Follows(w, n, k, B),
         NEW m \in Nat, NEW j \in Nat, j > 0, m = n => j <= B
  PROVE  Earlier(<<m, j>>, w) <=> Earlier(<<m, j>>, <<n, k>>) \/ (m = n /\ j = k)
<1>1. k \in Nat /\ k > 0 /\ k <= B
  BY Between, Zenon
<1>2. Earlier(<<m, j>>, <<n, k>>) <=> m < n \/ (m = n /\ j < k)
  BY DEF Earlier
<1>3. CASE k = B
  <2>1. Earlier(<<m, j>>, w) <=> m < n + 1 \/ (m = n + 1 /\ j < 1)
    BY <1>3 DEF Earlier, Follows
  <2> QED
    BY <1>1, <1>2, <1>3, <2>1
<1>4. CASE k # B
  <2>1. Earlier(<<m, j>>, w) <=> m < n \/ (m = n /\ j < k + 1)
    BY <1>4 DEF Earlier, Follows
  <2> QED
    BY <1>1, <1>2, <1>4, <2>1
<1> QED
  BY <1>3, <1>4

LEMMA SuccAt ==
  ASSUME NEW rs \in Seq(HostCmds), NEW n \in Nat, NEW k \in Nat
  PROVE  Follows(Succ(rs)[<<n, k>>], n, k, BeatsOf(rs, n))
<1> DEFINE c == <<n, k>>
<1>1. c \in Places /\ c[1] = n /\ c[2] = k
  BY DEF Places
<1> HIDE DEF c
<1>2. Succ(rs)[c] = IF c[2] = BeatsOf(rs, c[1]) THEN <<c[1] + 1, 1>> ELSE <<c[1], c[2] + 1>>
  BY <1>1 DEF Succ
<1> QED
  BY <1>1, <1>2 DEF c, Follows

(* A user is sent the beat at place <<n, k>>: it has the beats before the  *)
(* next place.                                                             *)
LEMMA HostLogTakes ==
  ASSUME NEW rs \in Seq(HostCmds), NEW log \in Seq(Beat), NEW u, ReadsRise(rs, u),
         NEW n \in 1..Len(rs), NEW k \in 1..BeatsOf(rs, n), User(rs[n]) = u,
         HostLogOK(log, rs, u, <<n, k>>)
  PROVE  HostLogOK(Append(log, <<rs[n].id, k>>), rs, u, Succ(rs)[<<n, k>>])
<1> DEFINE x == <<rs[n].id, k>>
           w == Succ(rs)[<<n, k>>]
           B == BeatsOf(rs, n)
           new == Append(log, x)
<1>1. /\ n \in Nat /\ k \in Nat /\ B \in Nat /\ rs[n].id \in Nat /\ x \in Beat
      /\ Len(rs) \in Nat
  BY ReadFacts DEF Beat
<1>2. Follows(w, n, k, B)
  BY <1>1, SuccAt
<1>3. ASSUME NEW m \in 1..Len(rs), NEW j \in 1..BeatsOf(rs, m)
      PROVE  Earlier(<<m, j>>, w) <=> Earlier(<<m, j>>, <<n, k>>) \/ (m = n /\ j = k)
  <2>1. m \in Nat /\ j \in Nat /\ j > 0 /\ (m = n => j <= B)
    BY <1>1, ReadFacts
  <2>2. k \in 1..B
    OBVIOUS
  <2> HIDE DEF w, B
  <2>3. n \in Nat /\ B \in Nat
    BY <1>1
  <2> QED
    BY <1>2, <2>1, <2>2, <2>3, NextPlace, Zenon
<1>4. /\ Len(log) \in Nat /\ Len(new) = Len(log) + 1 /\ new[Len(log) + 1] = x
      /\ \A i \in 1..Len(log) : new[i] = log[i]
  BY <1>1, Push
<1> HIDE DEF w, B, new
<1>5. ASSUME NEW i \in 1..Len(new)
      PROVE  \E m \in 1..Len(rs) : \E j \in 1..BeatsOf(rs, m) :
               User(rs[m]) = u /\ new[i] = <<rs[m].id, j>> /\ Earlier(<<m, j>>, w)
  <2>1. CASE i \in 1..Len(log)
    <3>1. PICK m \in 1..Len(rs) : \E j \in 1..BeatsOf(rs, m) :
             User(rs[m]) = u /\ log[i] = <<rs[m].id, j>> /\ Earlier(<<m, j>>, <<n, k>>)
      BY <2>1 DEF HostLogOK
    <3>2. PICK j \in 1..BeatsOf(rs, m) :
             User(rs[m]) = u /\ log[i] = <<rs[m].id, j>> /\ Earlier(<<m, j>>, <<n, k>>)
      BY <3>1
    <3> QED
      BY <1>3, <1>4, <2>1, <3>2
  <2>2. CASE i = Len(log) + 1
    <3>1. Earlier(<<n, k>>, w)
      BY <1>3
    <3>2. new[i] = <<rs[n].id, k>>
      BY <1>4, <2>2
    <3> QED
      BY <3>1, <3>2
  <2>3. i \in 1..Len(log) \/ i = Len(log) + 1
    BY <1>4
  <2> QED
    BY <2>1, <2>2, <2>3, Zenon
<1>6. ASSUME NEW m \in 1..Len(rs), NEW j \in 1..BeatsOf(rs, m), User(rs[m]) = u, Earlier(<<m, j>>, w)
      PROVE  \E i \in 1..Len(new) : new[i] = <<rs[m].id, j>>
  <2>1. CASE Earlier(<<m, j>>, <<n, k>>)
    <3>1. PICK i \in 1..Len(log) : log[i] = <<rs[m].id, j>>
      BY <1>6, <2>1 DEF HostLogOK
    <3> QED
      BY <1>4, <3>1
  <2>2. CASE m = n /\ j = k
    <3>1. Len(log) + 1 \in 1..Len(new)
      BY <1>4
    <3> QED
      BY <1>4, <2>2, <3>1
  <2> QED
    BY <1>3, <1>6, <2>1, <2>2
<1>7. ASSUME NEW i \in 1..Len(new), NEW j \in 1..Len(new), i < j PROVE Earlier(new[i], new[j])
  <2>1. i \in 1..Len(log)
    BY <1>4, <1>7
  <2>2. CASE j \in 1..Len(log)
    BY <1>4, <1>7, <2>1, <2>2 DEF HostLogOK
  <2>3. CASE j = Len(log) + 1
    <3>1. PICK m \in 1..Len(rs) : \E l \in 1..BeatsOf(rs, m) :
             User(rs[m]) = u /\ log[i] = <<rs[m].id, l>> /\ Earlier(<<m, l>>, <<n, k>>)
      BY <2>1 DEF HostLogOK
    <3>2. PICK l \in 1..BeatsOf(rs, m) :
             User(rs[m]) = u /\ log[i] = <<rs[m].id, l>> /\ Earlier(<<m, l>>, <<n, k>>)
      BY <3>1
    <3>3. m < n \/ (m = n /\ l < k)
      BY <3>2 DEF Earlier
    <3>4. rs[m].id < rs[n].id \/ (rs[m].id = rs[n].id /\ l < k)
      BY <3>2, <3>3 DEF ReadsRise
    <3>5. Earlier(<<rs[m].id, l>>, <<rs[n].id, k>>)
      BY <3>4 DEF Earlier
    <3> QED
      BY <1>4, <2>1, <2>3, <3>2, <3>5
  <2> QED
    BY <1>4, <2>2, <2>3
<1> HIDE DEF x
<1>8. HostLogOK(new, rs, u, w)
  BY <1>5, <1>6, <1>7 DEF HostLogOK
<1> QED
  BY <1>8 DEF new, w, x

(* The beat goes to the other user.                                        *)
LEMMA HostLogSkips ==
  ASSUME NEW rs \in Seq(HostCmds), NEW log \in Seq(Beat), NEW u,
         NEW n \in 1..Len(rs), NEW k \in 1..BeatsOf(rs, n), User(rs[n]) # u,
         HostLogOK(log, rs, u, <<n, k>>)
  PROVE  HostLogOK(log, rs, u, Succ(rs)[<<n, k>>])
<1> DEFINE w == Succ(rs)[<<n, k>>]
           B == BeatsOf(rs, n)
<1>1. n \in Nat /\ k \in Nat /\ B \in Nat /\ Len(rs) \in Nat
  BY ReadFacts
<1>2. Follows(w, n, k, B)
  BY <1>1, SuccAt
<1>3. ASSUME NEW m \in 1..Len(rs), NEW j \in 1..BeatsOf(rs, m), User(rs[m]) = u
      PROVE  Earlier(<<m, j>>, w) <=> Earlier(<<m, j>>, <<n, k>>)
  <2>1. m \in Nat /\ j \in Nat /\ j > 0 /\ (m = n => j <= B)
    BY <1>1, ReadFacts
  <2>2. m # n
    BY <1>3
  <2>3. k \in 1..B
    OBVIOUS
  <2> HIDE DEF w, B
  <2>4. Earlier(<<m, j>>, w) <=> Earlier(<<m, j>>, <<n, k>>) \/ (m = n /\ j = k)
    BY <1>1, <1>2, <2>1, <2>3, NextPlace, Zenon
  <2> QED
    BY <2>2, <2>4, Zenon
<1> HIDE DEF w, B
<1>4. HostLogOK(log, rs, u, w)
  <2>1. ASSUME NEW i \in 1..Len(log)
        PROVE  \E m \in 1..Len(rs) : \E j \in 1..BeatsOf(rs, m) :
                 User(rs[m]) = u /\ log[i] = <<rs[m].id, j>> /\ Earlier(<<m, j>>, w)
    <3>1. PICK m \in 1..Len(rs) : \E j \in 1..BeatsOf(rs, m) :
             User(rs[m]) = u /\ log[i] = <<rs[m].id, j>> /\ Earlier(<<m, j>>, <<n, k>>)
      BY DEF HostLogOK
    <3>2. PICK j \in 1..BeatsOf(rs, m) :
             User(rs[m]) = u /\ log[i] = <<rs[m].id, j>> /\ Earlier(<<m, j>>, <<n, k>>)
      BY <3>1
    <3> QED
      BY <1>3, <3>2
  <2>2. ASSUME NEW m \in 1..Len(rs), NEW j \in 1..BeatsOf(rs, m), User(rs[m]) = u, Earlier(<<m, j>>, w)
        PROVE  \E i \in 1..Len(log) : log[i] = <<rs[m].id, j>>
    <3>1. Earlier(<<m, j>>, <<n, k>>)
      BY <1>3, <2>2
    <3> QED
      BY <2>2, <3>1 DEF HostLogOK
  <2>3. \A i, j \in 1..Len(log) : i < j => Earlier(log[i], log[j])
    BY DEF HostLogOK
  <2> QED
    BY <2>1, <2>2, <2>3 DEF HostLogOK
<1> QED
  BY <1>4 DEF w

(* A new read adds no beat before the place of the router.                 *)
LEMMA HostLogGrows ==
  ASSUME NEW rs \in Seq(HostCmds), NEW x \in HostCmds, NEW log \in Seq(Beat), NEW u, NEW c,
         c[1] \in Nat, c[1] <= Len(rs) \/ (c[1] = Len(rs) + 1 /\ c[2] = 1),
         HostLogOK(log, rs, u, c)
  PROVE  HostLogOK(log, Append(rs, x), u, c)
<1> DEFINE ps == Append(rs, x)
<1>1. /\ Len(rs) \in Nat /\ Len(ps) = Len(rs) + 1 /\ ps \in Seq(HostCmds)
      /\ \A n \in 1..Len(rs) : n \in 1..Len(ps) /\ ps[n] = rs[n] /\ BeatsOf(ps, n) = BeatsOf(rs, n)
      /\ \A n \in 1..Len(ps) : n \in 1..Len(rs) \/ n = Len(rs) + 1
  BY Push DEF BeatsOf
<1> HIDE DEF ps
<1>2. ASSUME NEW k \in 1..BeatsOf(ps, Len(rs) + 1) PROVE ~Earlier(<<Len(rs) + 1, k>>, c)
  <2>1. k \in Nat /\ k > 0
    BY <1>1, ReadFacts
  <2> QED
    BY <1>1, <2>1 DEF Earlier
<1>3. ASSUME NEW i \in 1..Len(log)
      PROVE  \E n \in 1..Len(ps) : \E k \in 1..BeatsOf(ps, n) :
               User(ps[n]) = u /\ log[i] = <<ps[n].id, k>> /\ Earlier(<<n, k>>, c)
  <2>1. PICK n \in 1..Len(rs) : \E k \in 1..BeatsOf(rs, n) :
           User(rs[n]) = u /\ log[i] = <<rs[n].id, k>> /\ Earlier(<<n, k>>, c)
    BY DEF HostLogOK
  <2>2. PICK k \in 1..BeatsOf(rs, n) :
           User(rs[n]) = u /\ log[i] = <<rs[n].id, k>> /\ Earlier(<<n, k>>, c)
    BY <2>1
  <2>3. n \in 1..Len(ps) /\ ps[n] = rs[n] /\ k \in 1..BeatsOf(ps, n)
    BY <1>1
  <2> QED
    BY <2>2, <2>3
<1>4. ASSUME NEW n \in 1..Len(ps), NEW k \in 1..BeatsOf(ps, n), User(ps[n]) = u, Earlier(<<n, k>>, c)
      PROVE  \E i \in 1..Len(log) : log[i] = <<ps[n].id, k>>
  <2>1. n \in 1..Len(rs)
    BY <1>1, <1>2, <1>4
  <2>2. ps[n] = rs[n] /\ k \in 1..BeatsOf(rs, n)
    BY <1>1, <2>1
  <2> QED
    BY <1>4, <2>1, <2>2 DEF HostLogOK
<1>5. HostLogOK(log, ps, u, c)
  BY <1>3, <1>4 DEF HostLogOK
<1> QED
  BY <1>5 DEF ps

(* The beats of a user before a place, in order: it was sent the beats of  *)
(* its commands, each after all earlier ones.                              *)
LEMMA HostLogTaken ==
  ASSUME NEW rs \in Seq(HostCmds), NEW cs \in Seq(Commands), NEW log \in Seq(Beat), NEW u,
         NEW c, c[1] \in Nat, c[2] \in Nat,
         ReadsMatch(rs, cs, u), ReadsRise(rs, u), HostLogOK(log, rs, u, c)
  PROVE  TakenInOrder(log, HostBeats(cs))
<1>1. /\ Len(rs) \in Nat /\ Len(cs) \in Nat /\ \A i \in 1..Len(cs) : cs[i].host \in Nat
      /\ \A n \in 1..Len(rs) : rs[n].id \in Nat
  <2>1. Len(rs) \in Nat /\ \A n \in 1..Len(rs) : rs[n].id \in Nat
    BY ReadFacts
  <2>2. Len(cs) \in Nat /\ \A i \in 1..Len(cs) : cs[i] \in Commands
    BY EmptyQueue
  <2>3. \A x \in Commands : x.host \in Nat
    BY DEF Commands
  <2> QED
    BY <2>1, <2>2, <2>3
<1>2. ASSUME NEW b PROVE b \in HostBeats(cs) <=>
         \E n \in 1..Len(rs) : \E k \in 1..BeatsOf(rs, n) : User(rs[n]) = u /\ b = <<rs[n].id, k>>
  <2>1. ASSUME NEW n \in 1..Len(rs), NEW k \in 1..BeatsOf(rs, n), User(rs[n]) = u, b = <<rs[n].id, k>>
        PROVE  b \in HostBeats(cs)
    <3>1. PICK i \in 1..Len(cs) : rs[n] = HostCmd(cs[i])
      BY <2>1 DEF ReadsMatch, ReadOf
    <3>2. rs[n].id = cs[i].id /\ rs[n].length = cs[i].host
      BY <3>1 DEF HostCmd
    <3> QED
      BY <2>1, <3>2 DEF HostBeats, BeatsOf
  <2>2. ASSUME b \in HostBeats(cs)
        PROVE  \E n \in 1..Len(rs) : \E k \in 1..BeatsOf(rs, n) : User(rs[n]) = u /\ b = <<rs[n].id, k>>
    <3>1. PICK i \in 1..Len(cs) : \E k \in 1..Beats(cs[i].host) : b = <<cs[i].id, k>>
      BY <2>2 DEF HostBeats
    <3>2. PICK k \in 1..Beats(cs[i].host) : b = <<cs[i].id, k>>
      BY <3>1
    <3>3. cs[i].host > 0
      <4>0. cs[i].host \in Nat
        BY <1>1
      <4>1. Beats(cs[i].host) > 0 /\ Beats(cs[i].host) \in Nat
        <5>1. Beats(cs[i].host) \in Nat
          BY <4>0, BeatsFacts, Zenon
        <5> QED
          BY <5>1
      <4> QED
        BY <4>0, <4>1, BeatsFacts, Zenon
    <3>4. PICK n \in 1..Len(rs) : rs[n] = HostCmd(cs[i]) /\ User(rs[n]) = u
      BY <3>3 DEF ReadsMatch, ReadOf
    <3>5. rs[n].id = cs[i].id /\ rs[n].length = cs[i].host
      BY <3>4 DEF HostCmd
    <3> QED
      BY <3>2, <3>4, <3>5 DEF BeatsOf
  <2> QED
    BY <2>1, <2>2
<1>3. \A i \in 1..Len(log) : log[i] \in HostBeats(cs)
  BY <1>2 DEF HostLogOK
<1>4. ASSUME NEW b \in HostBeats(cs), NEW i \in 1..Len(log), Earlier(b, log[i])
      PROVE  \E j \in 1..Len(log) : log[j] = b
  <2>1. PICK n \in 1..Len(rs) : \E k \in 1..BeatsOf(rs, n) : User(rs[n]) = u /\ b = <<rs[n].id, k>>
    BY <1>2
  <2>2. PICK k \in 1..BeatsOf(rs, n) : User(rs[n]) = u /\ b = <<rs[n].id, k>>
    BY <2>1
  <2>3. PICK m \in 1..Len(rs) : \E l \in 1..BeatsOf(rs, m) :
           User(rs[m]) = u /\ log[i] = <<rs[m].id, l>> /\ Earlier(<<m, l>>, c)
    BY DEF HostLogOK
  <2>4. PICK l \in 1..BeatsOf(rs, m) :
           User(rs[m]) = u /\ log[i] = <<rs[m].id, l>> /\ Earlier(<<m, l>>, c)
    BY <2>3
  <2>5. k \in Nat /\ l \in Nat /\ m \in Nat /\ n \in Nat /\ rs[m].id \in Nat /\ rs[n].id \in Nat
    <3>1. BeatsOf(rs, m) \in Nat /\ BeatsOf(rs, n) \in Nat
      BY ReadFacts, Zenon
    <3>2. k \in Nat /\ l \in Nat
      BY <3>1, Between, Zenon
    <3>3. m \in Nat /\ n \in Nat
      BY <1>1, Between, Zenon
    <3> QED
      BY <1>1, <3>2, <3>3, Zenon
  <2>6. rs[n].id < rs[m].id \/ (rs[n].id = rs[m].id /\ k < l)
    BY <1>4, <2>2, <2>4 DEF Earlier
  <2>7. m < n => rs[m].id < rs[n].id
    BY <2>2, <2>4 DEF ReadsRise
  <2>8. n < m \/ (n = m /\ k < l)
    BY <2>5, <2>6, <2>7
  <2>9. Earlier(<<n, k>>, c)
    <3>1. m < c[1] \/ (m = c[1] /\ l < c[2])
      BY <2>4 DEF Earlier
    <3>2. n < c[1] \/ (n = c[1] /\ k < c[2])
      BY <2>5, <2>8, <3>1
    <3> QED
      BY <3>2 DEF Earlier
  <2> QED
    BY <2>2, <2>9 DEF HostLogOK
<1> QED
  BY <1>3, <1>4 DEF TakenInOrder, HostLogOK

-----------------------------------------------------------------------------
(* Memory's queue after it has sent a beat: the read at the head is one    *)
(* beat further, or gone when that was its last.                           *)
LEMMA AdvanceFacts ==
  ASSUME NEW q \in Seq(Reads), q # <<>>
  PROVE  LET r == Advance(q) IN
         /\ r \in Seq(Reads) /\ q[1] \in Reads /\ Head(q) = q[1] /\ Len(q) \in Nat /\ Len(q) > 0
         /\ q[1].sent + 1 >= q[1].beats =>
              Len(r) = Len(q) - 1 /\ \A i \in 1..(Len(q) - 1) : r[i] = q[i + 1]
         /\ ~(q[1].sent + 1 >= q[1].beats) =>
              /\ Len(r) = Len(q) /\ \A i \in 2..Len(q) : r[i] = q[i]
              /\ r[1].id = q[1].id /\ r[1].beats = q[1].beats /\ r[1].sent = q[1].sent + 1
<1> DEFINE x == [q[1] EXCEPT !.sent = @ + 1]
           t == Tail(q)
<1>1. /\ t \in Seq(Reads) /\ Len(q) \in Nat /\ Len(q) > 0 /\ Len(t) = Len(q) - 1
      /\ q[1] \in Reads /\ Head(q) = q[1]
      /\ \A i \in 1..(Len(q) - 1) : t[i] = q[i + 1]
  BY Pop
<1>2. /\ x \in Reads /\ x.id = q[1].id /\ x.beats = q[1].beats /\ x.sent = q[1].sent + 1
  <2>1. q[1].id \in Nat /\ q[1].beats \in Nat /\ q[1].sent \in Nat
    BY <1>1 DEF Reads
  <2>2. x = [id |-> q[1].id, beats |-> q[1].beats, sent |-> q[1].sent + 1]
    BY <1>1 DEF Reads
  <2> HIDE DEF x
  <2> QED
    BY <2>1, <2>2 DEF Reads
<1>3. Advance(q) = IF q[1].sent + 1 >= q[1].beats THEN t ELSE <<x>> \o t
  BY <1>1 DEF Advance
<1> HIDE DEF x, t
<1>4. /\ <<x>> \o t \in Seq(Reads) /\ Len(<<x>> \o t) = Len(q) /\ (<<x>> \o t)[1] = x
      /\ \A i \in 2..Len(q) : (<<x>> \o t)[i] = q[i]
  <2>1. /\ <<x>> \in Seq(Reads) /\ Len(<<x>>) = 1 /\ <<x>>[1] = x
    BY <1>2
  <2>2. /\ <<x>> \o t \in Seq(Reads) /\ Len(<<x>> \o t) = 1 + Len(t) /\ (<<x>> \o t)[1] = x
        /\ \A i \in 2..(1 + Len(t)) : (<<x>> \o t)[i] = t[i - 1]
    BY <1>1, <2>1
  <2>3. ASSUME NEW i \in 2..Len(q) PROVE (<<x>> \o t)[i] = q[i]
    <3>1. i - 1 \in 1..(Len(q) - 1) /\ (i - 1) + 1 = i /\ i \in 2..(1 + Len(t))
      BY <1>1
    <3> QED
      BY <1>1, <2>2, <3>1
  <2> QED
    BY <1>1, <2>2, <2>3
<1>5. CASE q[1].sent + 1 >= q[1].beats
  BY <1>1, <1>3, <1>5
<1>6. CASE ~(q[1].sent + 1 >= q[1].beats)
  <2>1. Advance(q) = <<x>> \o t
    BY <1>3, <1>6
  <2> QED
    BY <1>1, <1>2, <1>4, <1>6, <2>1
<1> QED
  BY <1>5, <1>6

LEMMA CommandFacts ==
  ASSUME NEW cs \in Seq(Commands)
  PROVE  /\ Len(cs) \in Nat
         /\ \A i \in 1..Len(cs) :
              /\ cs[i].id \in Nat /\ cs[i].host \in Nat /\ cs[i].device \in Nat
              /\ Beats(cs[i].device) \in Nat
              /\ cs[i].device > 0 <=> Beats(cs[i].device) > 0
<1>1. Len(cs) \in Nat /\ \A i \in 1..Len(cs) : cs[i] \in Commands
  BY EmptyQueue
<1>2. \A c \in Commands : c.id \in Nat /\ c.host \in Nat /\ c.device \in Nat
  BY DEF Commands
<1>3. ASSUME NEW i \in 1..Len(cs)
      PROVE  /\ cs[i].id \in Nat /\ cs[i].host \in Nat /\ cs[i].device \in Nat
             /\ Beats(cs[i].device) \in Nat
             /\ cs[i].device > 0 <=> Beats(cs[i].device) > 0
  <2>1. cs[i].id \in Nat /\ cs[i].host \in Nat /\ cs[i].device \in Nat
    BY <1>1, <1>2
  <2> QED
    BY <2>1, BeatsFacts, Zenon
<1> QED
  BY <1>1, <1>3

LEMMA QueueFacts ==
  ASSUME NEW q \in Seq(Reads)
  PROVE  /\ Len(q) \in Nat /\ (q = <<>> <=> Len(q) = 0)
         /\ \A j \in 1..Len(q) : q[j].id \in Nat /\ q[j].beats \in Nat /\ q[j].sent \in Nat
<1>1. Len(q) \in Nat /\ (q = <<>> <=> Len(q) = 0) /\ \A j \in 1..Len(q) : q[j] \in Reads
  BY EmptyQueue
<1>2. \A r \in Reads : r.id \in Nat /\ r.beats \in Nat /\ r.sent \in Nat
  BY DEF Reads
<1> QED
  BY <1>1, <1>2

(* HBM sends a user the next beat of the command at the head of its queue. *)
LEMMA DeviceSends ==
  ASSUME NEW log \in Seq(Beat), NEW cs \in Seq(Commands), NEW q \in Seq(Reads), q # <<>>,
         Rises(cs), DeviceLogOK(log, cs, q),
         NEW m \in 1..Len(cs), NEW k \in 1..Beats(cs[m].device)
  PROVE  Sent(Advance(q), cs[m].id, k) <=>
           Sent(q, cs[m].id, k) \/ (cs[m].id = q[1].id /\ k = q[1].sent + 1)
<1> DEFINE r == Advance(q)
           id == cs[m].id
           a == q[1].id
           s == q[1].sent
<1>1. /\ Len(q) \in Nat /\ Len(q) > 0 /\ 1 \in 1..Len(q)
      /\ \A j \in 1..Len(q) : q[j].id \in Nat /\ q[j].beats \in Nat /\ q[j].sent \in Nat
      /\ a \in Nat /\ s \in Nat /\ q[1].beats \in Nat
  BY QueueFacts
<1>2. /\ id \in Nat /\ k \in Nat /\ k > 0 /\ k <= Beats(cs[m].device) /\ cs[m].device > 0
  <2>1. /\ id \in Nat /\ Beats(cs[m].device) \in Nat
        /\ (cs[m].device > 0 <=> Beats(cs[m].device) > 0)
    BY CommandFacts
  <2> QED
    BY <2>1
<1>3. /\ r \in Seq(Reads) /\ s < q[1].beats
      /\ s + 1 >= q[1].beats => Len(r) = Len(q) - 1 /\ \A i \in 1..(Len(q) - 1) : r[i] = q[i + 1]
      /\ ~(s + 1 >= q[1].beats) =>
              Len(r) = Len(q) /\ r[1].id = a /\ r[1].sent = s + 1
  BY <1>1, AdvanceFacts DEF DeviceLogOK
<1>4. id = a => k <= q[1].beats
  <2> SUFFICES ASSUME id = a PROVE k <= q[1].beats
    OBVIOUS
  <2>1. PICK i \in 1..Len(cs) : cs[i].id = a /\ Beats(cs[i].device) = q[1].beats
    BY <1>1 DEF DeviceLogOK
  <2>2. ~(i < m) /\ ~(m < i)
    BY <1>1, <1>2, <2>1 DEF Rises
  <2>3. i = m
    BY <2>2, CommandFacts
  <2> QED
    BY <1>2, <2>1, <2>3
<1>5. id > a => Waits(q, id)
  <2>1. id > a => id >= a
    BY <1>1, <1>2
  <2> QED
    BY <1>1, <1>2, <2>1 DEF DeviceLogOK
<1>6. \A j \in 1..Len(q) : j > 1 => a < q[j].id /\ q[j].sent = 0
  BY <1>1 DEF DeviceLogOK, Rises
<1>7. Sent(q, id, k) <=> id < a \/ (id = a /\ k < s + 1)
  BY DEF Sent, Earlier
<1> HIDE DEF r, id, a, s
<1>8. CASE ~(s + 1 >= q[1].beats)
  <2>1. Sent(r, id, k) <=> id < a \/ (id = a /\ k < s + 2)
    <3>1. r # <<>> /\ r[1].id = a /\ r[1].sent + 1 = s + 2
      BY <1>1, <1>3, <1>8, EmptyQueue
    <3> QED
      BY <3>1 DEF Sent, Earlier
  <2>2. k < s + 2 <=> k < s + 1 \/ k = s + 1
    BY <1>1, <1>2
  <2> QED
    BY <1>7, <2>1, <2>2 DEF r, id, a, s
<1>9. CASE s + 1 >= q[1].beats
  <2>1. Len(r) = Len(q) - 1 /\ \A i \in 1..(Len(q) - 1) : r[i] = q[i + 1]
    BY <1>3, <1>9
  <2>2. id = a => (k < s + 1 \/ k = s + 1)
    BY <1>1, <1>2, <1>4, <1>9
  <2>3. Sent(r, id, k) <=> id <= a
    <3>1. CASE Len(q) = 1
      <4>1. Sent(r, id, k)
        BY <1>3, <2>1, <3>1, EmptyQueue DEF Sent
      <4>2. ~(id > a)
        <5> SUFFICES ASSUME id > a PROVE FALSE
          OBVIOUS
        <5>1. PICK j \in 1..Len(q) : q[j].id = id
          BY <1>5 DEF Waits
        <5>2. j = 1
          BY <3>1
        <5> QED
          BY <1>1, <1>2, <5>1, <5>2 DEF a
      <4> QED
        BY <1>1, <1>2, <4>1, <4>2
    <3>2. CASE Len(q) # 1
      <4>1. 2 \in 1..Len(q) /\ r # <<>> /\ r[1] = q[2]
        BY <1>1, <1>3, <2>1, <3>2, EmptyQueue
      <4>2. a < q[2].id /\ q[2].sent = 0 /\ q[2].id \in Nat
        <5>1. q[2].id \in Nat
          BY <1>1, <4>1
        <5>2. 2 > 1
          OBVIOUS
        <5> QED
          BY <1>6, <4>1, <5>1, <5>2, Zenon
      <4>3. Sent(r, id, k) <=> id < q[2].id \/ (id = q[2].id /\ k < 1)
        BY <4>1, <4>2 DEF Sent, Earlier
      <4>4. id > a => ~(id < q[2].id)
        <5> SUFFICES ASSUME id > a, id < q[2].id PROVE FALSE
          OBVIOUS
        <5>1. PICK j \in 1..Len(q) : q[j].id = id
          BY <1>5 DEF Waits
        <5>2. j # 1 /\ j # 2
          BY <1>1, <1>2, <4>2, <5>1 DEF a
        <5>3. 2 < j
          BY <1>1, <5>2
        <5>4. q[2].id < q[j].id
          BY <4>1, <5>3 DEF DeviceLogOK, Rises
        <5> QED
          BY <1>2, <4>2, <5>1, <5>4
      <4> QED
        BY <1>1, <1>2, <4>2, <4>3, <4>4
    <3> QED
      BY <3>1, <3>2
  <2> QED
    BY <1>1, <1>2, <1>7, <2>2, <2>3 DEF r, id, a, s
<1> QED
  BY <1>8, <1>9

LEMMA DeviceLogTakes ==
  ASSUME NEW log \in Seq(Beat), NEW cs \in Seq(Commands), NEW q \in Seq(Reads), q # <<>>,
         Rises(cs), DeviceLogOK(log, cs, q)
  PROVE  DeviceLogOK(Append(log, NextBeat(q)), cs, Advance(q))
<1> DEFINE x == NextBeat(q)
           r == Advance(q)
           new == Append(log, x)
           last == q[1].sent + 1 >= q[1].beats
<1>1. /\ Len(q) \in Nat /\ Len(q) > 0 /\ 1 \in 1..Len(q)
      /\ \A j \in 1..Len(q) : q[j].id \in Nat /\ q[j].beats \in Nat /\ q[j].sent \in Nat
      /\ q[1].id \in Nat /\ q[1].sent \in Nat /\ q[1].beats \in Nat
  BY QueueFacts
<1>2. /\ r \in Seq(Reads) /\ Head(q) = q[1]
      /\ last => Len(r) = Len(q) - 1 /\ \A i \in 1..(Len(q) - 1) : r[i] = q[i + 1]
      /\ ~last => /\ Len(r) = Len(q) /\ \A i \in 2..Len(q) : r[i] = q[i]
                  /\ r[1].id = q[1].id /\ r[1].beats = q[1].beats /\ r[1].sent = q[1].sent + 1
  BY <1>1, AdvanceFacts
<1>3. x = <<q[1].id, q[1].sent + 1>> /\ x \in Beat
  BY <1>1, <1>2 DEF NextBeat, Beat
<1>4. /\ Len(log) \in Nat /\ Len(new) = Len(log) + 1 /\ new[Len(log) + 1] = x
      /\ \A i \in 1..Len(log) : i \in 1..Len(new) /\ new[i] = log[i]
      /\ Len(log) + 1 \in 1..Len(new)
      /\ \A i \in 1..Len(new) : i \in 1..Len(log) \/ i = Len(log) + 1
  BY <1>3, Push
<1>5. \A m \in 1..Len(cs) : \A k \in 1..Beats(cs[m].device) :
         Sent(r, cs[m].id, k) <=> Sent(q, cs[m].id, k) \/ (cs[m].id = q[1].id /\ k = q[1].sent + 1)
  BY DeviceSends
<1> HIDE DEF x, r, new, last
(* Every read that is left was one of the queue, and at most the first has *)
(* moved.                                                                  *)
<1>6. ASSUME NEW j \in 1..Len(r)
      PROVE  \E i \in 1..Len(q) :
               /\ r[j].id = q[i].id /\ r[j].beats = q[i].beats
               /\ r[j].sent < q[i].beats /\ (j > 1 => r[j].sent = 0)
               /\ (last => i = j + 1) /\ (~last => i = j)
  <2>1. \A i \in 1..Len(q) : q[i].sent < q[i].beats /\ (i > 1 => q[i].sent = 0)
    BY DEF DeviceLogOK
  <2>2. CASE last
    <3>1. j + 1 \in 1..Len(q) /\ j + 1 > 1 /\ r[j] = q[j + 1]
      BY <1>1, <1>2, <2>2
    <3>2. q[j + 1].sent < q[j + 1].beats /\ q[j + 1].sent = 0
      BY <2>1, <3>1
    <3> QED
      BY <2>2, <3>1, <3>2
  <2>3. CASE ~last /\ j = 1
    <3>1. r[1].sent < q[1].beats
      BY <1>1, <1>2, <2>3 DEF last
    <3> QED
      BY <1>1, <1>2, <2>3, <3>1
  <2>4. CASE ~last /\ j # 1
    <3>1. j \in 2..Len(q) /\ j \in 1..Len(q) /\ j > 1 /\ r[j] = q[j]
      BY <1>1, <1>2, <2>4
    <3>2. q[j].sent < q[j].beats /\ q[j].sent = 0
      BY <2>1, <3>1
    <3> QED
      BY <2>4, <3>1, <3>2
  <2> QED
    BY <2>2, <2>3, <2>4
<1>7. Rises(r)
  <2> SUFFICES ASSUME NEW i \in 1..Len(r), NEW j \in 1..Len(r), i < j PROVE r[i].id < r[j].id
    BY DEF Rises
  <2>1. Rises(q)
    BY DEF DeviceLogOK
  <2>2. CASE last
    <3>1. ASSUME NEW k \in 1..Len(r) PROVE k + 1 \in 1..Len(q) /\ r[k].id = q[k + 1].id
      <4>1. k \in 1..(Len(q) - 1)
        BY <1>2, <2>2
      <4> QED
        BY <1>1, <1>2, <2>2, <4>1
    <3>2. i + 1 < j + 1
      OBVIOUS
    <3> QED
      BY <2>1, <3>1, <3>2 DEF Rises
  <2>3. CASE ~last
    <3>1. ASSUME NEW k \in 1..Len(r) PROVE k \in 1..Len(q) /\ r[k].id = q[k].id
      <4>1. k \in 1..Len(q) /\ (k = 1 \/ k \in 2..Len(q))
        BY <1>1, <1>2, <2>3
      <4> QED
        BY <1>2, <2>3, <4>1
    <3> QED
      BY <2>1, <3>1 DEF Rises
  <2> QED
    BY <2>2, <2>3
<1>8. ASSUME NEW j \in 1..Len(r)
      PROVE  /\ r[j].sent < r[j].beats /\ (j > 1 => r[j].sent = 0)
             /\ \E i \in 1..Len(cs) : cs[i].id = r[j].id /\ Beats(cs[i].device) = r[j].beats
  <2>1. PICK a \in 1..Len(q) : /\ r[j].id = q[a].id /\ r[j].beats = q[a].beats
                               /\ r[j].sent < q[a].beats /\ (j > 1 => r[j].sent = 0)
    BY <1>6
  <2>2. \E i \in 1..Len(cs) : cs[i].id = q[a].id /\ Beats(cs[i].device) = q[a].beats
    BY DEF DeviceLogOK
  <2> QED
    BY <2>1, <2>2
<1>9. ASSUME NEW i \in 1..Len(cs), NEW j \in 1..Len(r), cs[i].device > 0, cs[i].id >= r[1].id
      PROVE  Waits(r, cs[i].id)
  <2>0. 1 \in 1..Len(r) /\ cs[i].id \in Nat
    <3>1. Len(r) \in Nat
      BY <1>2, EmptyQueue, Zenon
    <3>2. 1 \in 1..Len(r)
      BY <3>1
    <3>3. cs[i].id \in Nat
      BY CommandFacts, Zenon
    <3> QED
      BY <3>2, <3>3
  <2>1. PICK a \in 1..Len(q) : r[1].id = q[a].id /\ (last => a = 1 + 1) /\ (~last => a = 1)
    BY <1>6, <2>0, Zenon
  <2>2. q[1].id <= q[a].id /\ q[a].id \in Nat /\ (last => q[1].id < q[a].id)
    <3>1. last => 1 < a
      BY <2>1
    <3>2. last => q[1].id < q[a].id
      BY <1>1, <3>1 DEF DeviceLogOK, Rises
    <3>3. ~last => a = 1
      BY <2>1
    <3>4. q[a].id \in Nat
      BY <1>1
    <3> QED
      BY <1>1, <3>2, <3>3, <3>4
  <2>3. cs[i].id >= q[1].id /\ (last => cs[i].id # q[1].id)
    <3>1. cs[i].id >= q[a].id
      BY <1>9, <2>1
    <3>2. \A e, f, g \in Nat : e >= g /\ f <= g => e >= f /\ (f < g => e # f)
      OBVIOUS
    <3> QED
      BY <1>1, <2>0, <2>2, <3>1, <3>2, Zenon
  <2>4. PICK b \in 1..Len(q) : q[b].id = cs[i].id
    <3>1. \A h \in 1..Len(q) : cs[i].device > 0 /\ cs[i].id >= q[1].id => Waits(q, cs[i].id)
      BY DEF DeviceLogOK
    <3>2. Waits(q, cs[i].id)
      BY <1>1, <1>9, <2>3, <3>1, Zenon
    <3> QED
      BY <3>2 DEF Waits
  <2>5. CASE last
    <3>1. b # 1
      BY <2>3, <2>4, <2>5
    <3>2. b - 1 \in 1..(Len(q) - 1) /\ b - 1 \in 1..Len(r) /\ (b - 1) + 1 = b
      BY <1>1, <1>2, <2>5, <3>1
    <3>3. r[b - 1] = q[b]
      BY <1>2, <2>5, <3>2
    <3> QED
      BY <2>4, <3>2, <3>3 DEF Waits
  <2>6. CASE ~last
    <3>1. b \in 1..Len(r) /\ (b = 1 \/ b \in 2..Len(q))
      BY <1>1, <1>2, <2>6
    <3>2. r[b].id = q[b].id
      BY <1>2, <2>6, <3>1
    <3> QED
      BY <2>4, <3>1, <3>2 DEF Waits
  <2> QED
    BY <2>5, <2>6
<1>10. PICK h \in 1..Len(cs) : cs[h].id = q[1].id /\ Beats(cs[h].device) = q[1].beats
  BY <1>1 DEF DeviceLogOK
<1>11. q[1].sent + 1 \in 1..Beats(cs[h].device)
  <2>1. q[1].sent < q[1].beats
    BY <1>1 DEF DeviceLogOK
  <2> QED
    BY <1>1, <1>10, <2>1
<1>12. ASSUME NEW i \in 1..Len(new)
       PROVE  \E m \in 1..Len(cs) : \E k \in 1..Beats(cs[m].device) :
                new[i] = <<cs[m].id, k>> /\ Sent(r, cs[m].id, k)
  <2>1. CASE i \in 1..Len(log)
    <3>1. PICK m \in 1..Len(cs) : \E k \in 1..Beats(cs[m].device) :
             log[i] = <<cs[m].id, k>> /\ Sent(q, cs[m].id, k)
      BY <2>1 DEF DeviceLogOK
    <3>2. PICK k \in 1..Beats(cs[m].device) : log[i] = <<cs[m].id, k>> /\ Sent(q, cs[m].id, k)
      BY <3>1
    <3>3. Sent(r, cs[m].id, k)
      BY <1>5, <3>2
    <3>4. new[i] = log[i]
      BY <1>4, <2>1
    <3> QED
      BY <3>2, <3>3, <3>4
  <2>2. CASE i = Len(log) + 1
    <3>1. Sent(r, cs[h].id, q[1].sent + 1)
      BY <1>5, <1>10, <1>11
    <3>2. new[i] = <<cs[h].id, q[1].sent + 1>>
      BY <1>3, <1>4, <1>10, <2>2
    <3> QED
      BY <1>11, <3>1, <3>2
  <2> QED
    BY <1>4, <2>1, <2>2, Zenon
<1>13. ASSUME NEW m \in 1..Len(cs), NEW k \in 1..Beats(cs[m].device), Sent(r, cs[m].id, k)
       PROVE  \E i \in 1..Len(new) : new[i] = <<cs[m].id, k>>
  <2>1. CASE Sent(q, cs[m].id, k)
    <3>1. PICK i \in 1..Len(log) : log[i] = <<cs[m].id, k>>
      BY <2>1 DEF DeviceLogOK
    <3> QED
      BY <1>4, <3>1
  <2>2. CASE cs[m].id = q[1].id /\ k = q[1].sent + 1
    BY <1>3, <1>4, <2>2
  <2> QED
    BY <1>5, <1>13, <2>1, <2>2
<1>14. ASSUME NEW i \in 1..Len(new), NEW j \in 1..Len(new), i < j PROVE Earlier(new[i], new[j])
  <2>1. i \in 1..Len(log)
    BY <1>4, <1>14
  <2>2. CASE j \in 1..Len(log)
    BY <1>4, <1>14, <2>1, <2>2 DEF DeviceLogOK
  <2>3. CASE j = Len(log) + 1
    <3>1. PICK m \in 1..Len(cs) : \E k \in 1..Beats(cs[m].device) :
             log[i] = <<cs[m].id, k>> /\ Sent(q, cs[m].id, k)
      BY <2>1 DEF DeviceLogOK
    <3>2. PICK k \in 1..Beats(cs[m].device) : log[i] = <<cs[m].id, k>> /\ Sent(q, cs[m].id, k)
      BY <3>1
    <3>3. Earlier(log[i], x)
      BY <1>3, <3>2 DEF Sent
    <3> QED
      BY <1>4, <2>1, <2>3, <3>3
  <2> QED
    BY <1>4, <2>2, <2>3, Zenon
<1>15. DeviceLogOK(new, cs, r)
  BY <1>7, <1>8, <1>9, <1>12, <1>13, <1>14 DEF DeviceLogOK
<1> QED
  BY <1>15 DEF new, r, x

(* The beats the HBM has sent a user are those of its commands, each after *)
(* all earlier ones.                                                       *)
LEMMA DeviceLogTaken ==
  ASSUME NEW log \in Seq(Beat), NEW cs \in Seq(Commands), NEW q \in Seq(Reads),
         DeviceLogOK(log, cs, q)
  PROVE  TakenInOrder(log, DeviceBeats(cs))
<1>1. ASSUME NEW i \in 1..Len(log) PROVE log[i] \in DeviceBeats(cs)
  <2>1. PICK m \in 1..Len(cs) : \E k \in 1..Beats(cs[m].device) : log[i] = <<cs[m].id, k>>
    BY DEF DeviceLogOK
  <2> QED
    BY <2>1 DEF DeviceBeats
<1>2. ASSUME NEW b \in DeviceBeats(cs), NEW i \in 1..Len(log), Earlier(b, log[i])
      PROVE  \E j \in 1..Len(log) : log[j] = b
  <2>1. PICK m \in 1..Len(cs) : \E k \in 1..Beats(cs[m].device) : b = <<cs[m].id, k>>
    BY DEF DeviceBeats
  <2>2. PICK k \in 1..Beats(cs[m].device) : b = <<cs[m].id, k>>
    BY <2>1
  <2>3. PICK n \in 1..Len(cs) : \E l \in 1..Beats(cs[n].device) :
           log[i] = <<cs[n].id, l>> /\ Sent(q, cs[n].id, l)
    BY DEF DeviceLogOK
  <2>4. PICK l \in 1..Beats(cs[n].device) : log[i] = <<cs[n].id, l>> /\ Sent(q, cs[n].id, l)
    BY <2>3
  <2>5. cs[m].id \in Nat /\ cs[n].id \in Nat /\ k \in Nat /\ l \in Nat
    BY CommandFacts
  <2>6. cs[m].id < cs[n].id \/ (cs[m].id = cs[n].id /\ k < l)
    BY <1>2, <2>2, <2>4 DEF Earlier
  <2>7. Sent(q, cs[m].id, k)
    <3>1. CASE q = <<>>
      BY <3>1 DEF Sent
    <3>2. CASE q # <<>>
      <4>1. q[1].id \in Nat /\ q[1].sent \in Nat
        BY <3>2, QueueFacts
      <4>2. cs[n].id < q[1].id \/ (cs[n].id = q[1].id /\ l < q[1].sent + 1)
        BY <2>4, <3>2 DEF Sent, Earlier
      <4>3. cs[m].id < q[1].id \/ (cs[m].id = q[1].id /\ k < q[1].sent + 1)
        <5> DEFINE x == cs[m].id
                   y == cs[n].id
                   z == q[1].id
                   t == q[1].sent
        <5>1. /\ x \in Nat /\ y \in Nat /\ z \in Nat /\ t \in Nat
              /\ x < y \/ (x = y /\ k < l)
              /\ y < z \/ (y = z /\ l < t + 1)
          BY <2>5, <2>6, <4>1, <4>2
        <5> HIDE DEF x, y, z, t
        <5>2. x < z \/ (x = z /\ k < t + 1)
          BY <2>5, <5>1
        <5> QED
          BY <5>2 DEF x, y, z, t
      <4> QED
        BY <4>3 DEF Sent, Earlier
    <3> QED
      BY <3>1, <3>2
  <2> QED
    BY <2>2, <2>7 DEF DeviceLogOK
<1> QED
  BY <1>1, <1>2 DEF TakenInOrder, DeviceLogOK

(* A command with a device part is issued: none of its beats is sent yet,  *)
(* and those of the commands before it are sent or not as they were.       *)
LEMMA DeviceLogIssues ==
  ASSUME NEW log \in Seq(Beat), NEW cs \in Seq(Commands), NEW q \in Seq(Reads), NEW c \in Commands,
         DeviceLogOK(log, cs, q), \A i \in 1..Len(cs) : cs[i].id < c.id, c.device > 0
  PROVE  DeviceLogOK(log, Append(cs, c),
                     Append(q, [id |-> c.id, beats |-> Beats(c.device), sent |-> 0]))
<1> DEFINE x == [id |-> c.id, beats |-> Beats(c.device), sent |-> 0]
           ds == Append(cs, c)
           r == Append(q, x)
<1>1. c.id \in Nat /\ c.device \in Nat /\ Beats(c.device) \in Nat /\ Beats(c.device) > 0
  <2>1. c.id \in Nat /\ c.device \in Nat
    BY DEF Commands
  <2> QED
    BY <2>1, BeatsFacts, Zenon
<1>2. x \in Reads /\ x.id = c.id /\ x.beats = Beats(c.device) /\ x.sent = 0
  BY <1>1 DEF Reads
<1> HIDE DEF x
<1>3. /\ Len(cs) \in Nat /\ Len(ds) = Len(cs) + 1 /\ ds[Len(cs) + 1] = c /\ ds \in Seq(Commands)
      /\ \A i \in 1..Len(cs) : i \in 1..Len(ds) /\ ds[i] = cs[i] /\ cs[i].id \in Nat
      /\ Len(cs) + 1 \in 1..Len(ds)
      /\ \A i \in 1..Len(ds) : i \in 1..Len(cs) \/ i = Len(cs) + 1
  BY Push, CommandFacts
<1>4. /\ Len(q) \in Nat /\ Len(r) = Len(q) + 1 /\ r[Len(q) + 1] = x /\ r \in Seq(Reads) /\ r # <<>>
      /\ \A i \in 1..Len(q) : i \in 1..Len(r) /\ r[i] = q[i] /\ q[i].id \in Nat /\ q[i].sent \in Nat
      /\ Len(q) + 1 \in 1..Len(r)
      /\ \A i \in 1..Len(r) : i \in 1..Len(q) \/ i = Len(q) + 1
  <2>1. /\ Len(q) \in Nat /\ Len(r) = Len(q) + 1 /\ r[Len(q) + 1] = x /\ r \in Seq(Reads)
        /\ \A i \in 1..Len(q) : r[i] = q[i]
    BY <1>2, Push
  <2>2. \A i \in 1..Len(q) : q[i].id \in Nat /\ q[i].sent \in Nat
    BY QueueFacts
  <2> HIDE DEF r
  <2>3. r # <<>>
    BY <2>1
  <2>4. /\ \A i \in 1..Len(q) : i \in 1..Len(r)
        /\ Len(q) + 1 \in 1..Len(r)
        /\ \A i \in 1..Len(r) : i \in 1..Len(q) \/ i = Len(q) + 1
    BY <2>1
  <2> QED
    BY <2>1, <2>2, <2>3, <2>4
<1> HIDE DEF ds, r
<1>5. ASSUME NEW j \in 1..Len(q) PROVE q[j].id < c.id
  <2>1. PICK i \in 1..Len(cs) : cs[i].id = q[j].id
    BY DEF DeviceLogOK
  <2> QED
    BY <2>1
<1>6. q = <<>> => r[1] = x
  <2>1. q = <<>> => Len(q) + 1 = 1
    BY QueueFacts
  <2> QED
    BY <1>4, <2>1
<1>7. q # <<>> => 1 \in 1..Len(q) /\ r[1] = q[1]
  <2>1. q # <<>> => 1 \in 1..Len(q)
    BY <1>4, QueueFacts
  <2> QED
    BY <1>4, <2>1
<1>8. ASSUME NEW m \in 1..Len(cs), NEW k PROVE Sent(r, cs[m].id, k) <=> Sent(q, cs[m].id, k)
  <2>1. CASE q = <<>>
    <3>1. cs[m].id < r[1].id
      BY <1>2, <1>6, <2>1
    <3> QED
      BY <2>1, <3>1 DEF Sent, Earlier
  <2>2. CASE q # <<>>
    BY <1>4, <1>7, <2>2 DEF Sent
  <2> QED
    BY <2>1, <2>2
<1>9. ASSUME NEW k \in 1..Beats(c.device) PROVE ~Sent(r, c.id, k)
  <2>0. k \in Nat /\ k > 0
    BY <1>1
  <2>1. CASE q = <<>>
    <3>1. r[1].id = c.id /\ r[1].sent = 0
      BY <1>2, <1>6, <2>1
    <3> QED
      BY <1>1, <1>4, <2>0, <3>1 DEF Sent, Earlier
  <2>2. CASE q # <<>>
    <3>1. r[1].id < c.id /\ r[1].id \in Nat
      BY <1>4, <1>5, <1>7, <2>2
    <3> QED
      BY <1>1, <1>4, <3>1 DEF Sent, Earlier
  <2> QED
    BY <2>1, <2>2
<1>10. Rises(r)
  <2> SUFFICES ASSUME NEW i \in 1..Len(r), NEW j \in 1..Len(r), i < j PROVE r[i].id < r[j].id
    BY DEF Rises
  <2>1. i \in 1..Len(q)
    BY <1>4
  <2>2. CASE j \in 1..Len(q)
    BY <1>4, <2>1, <2>2 DEF DeviceLogOK, Rises
  <2>3. CASE j = Len(q) + 1
    BY <1>2, <1>4, <1>5, <2>1, <2>3
  <2> QED
    BY <1>4, <2>2, <2>3, Zenon
<1>11. ASSUME NEW j \in 1..Len(r)
       PROVE  /\ r[j].sent < r[j].beats /\ (j > 1 => r[j].sent = 0)
              /\ \E i \in 1..Len(ds) : ds[i].id = r[j].id /\ Beats(ds[i].device) = r[j].beats
  <2>1. CASE j \in 1..Len(q)
    <3>1. /\ q[j].sent < q[j].beats /\ (j > 1 => q[j].sent = 0)
          /\ \E i \in 1..Len(cs) : cs[i].id = q[j].id /\ Beats(cs[i].device) = q[j].beats
      BY <2>1 DEF DeviceLogOK
    <3>2. PICK i \in 1..Len(cs) : cs[i].id = q[j].id /\ Beats(cs[i].device) = q[j].beats
      BY <3>1
    <3>3. i \in 1..Len(ds) /\ ds[i] = cs[i] /\ r[j] = q[j]
      BY <1>3, <1>4, <2>1
    <3> QED
      BY <3>1, <3>2, <3>3
  <2>2. CASE j = Len(q) + 1
    <3>1. r[j].sent < r[j].beats /\ r[j].sent = 0
      BY <1>1, <1>2, <1>4, <2>2
    <3>2. ds[Len(cs) + 1].id = r[j].id /\ Beats(ds[Len(cs) + 1].device) = r[j].beats
      BY <1>2, <1>3, <1>4, <2>2
    <3> QED
      BY <1>3, <3>1, <3>2
  <2> QED
    BY <1>4, <2>1, <2>2, Zenon
<1>12. ASSUME NEW i \in 1..Len(ds), NEW j \in 1..Len(r), ds[i].device > 0, ds[i].id >= r[1].id
       PROVE  Waits(r, ds[i].id)
  <2>1. CASE i \in 1..Len(cs)
    <3>1. ds[i] = cs[i] /\ cs[i].id \in Nat /\ cs[i].id < c.id
      BY <1>3, <2>1
    <3>2. q # <<>>
      <4> SUFFICES ASSUME q = <<>> PROVE FALSE
        OBVIOUS
      <4>1. r[1].id = c.id
        BY <1>2, <1>6
      <4> QED
        BY <1>1, <1>12, <3>1, <4>1
    <3>3. 1 \in 1..Len(q) /\ cs[i].id >= q[1].id /\ cs[i].device > 0
      BY <1>7, <1>12, <3>1, <3>2
    <3>4. PICK a \in 1..Len(q) : q[a].id = cs[i].id
      BY <2>1, <3>3 DEF DeviceLogOK, Waits
    <3> QED
      BY <1>4, <3>1, <3>4 DEF Waits
  <2>2. CASE i = Len(cs) + 1
    BY <1>2, <1>3, <1>4, <2>2 DEF Waits
  <2> QED
    BY <1>3, <2>1, <2>2, Zenon
<1>13. ASSUME NEW i \in 1..Len(log)
       PROVE  \E m \in 1..Len(ds) : \E k \in 1..Beats(ds[m].device) :
                log[i] = <<ds[m].id, k>> /\ Sent(r, ds[m].id, k)
  <2>1. PICK m \in 1..Len(cs) : \E k \in 1..Beats(cs[m].device) :
           log[i] = <<cs[m].id, k>> /\ Sent(q, cs[m].id, k)
    BY DEF DeviceLogOK
  <2>2. PICK k \in 1..Beats(cs[m].device) : log[i] = <<cs[m].id, k>> /\ Sent(q, cs[m].id, k)
    BY <2>1
  <2>3. m \in 1..Len(ds) /\ ds[m] = cs[m] /\ Sent(r, cs[m].id, k)
    BY <1>3, <1>8, <2>2
  <2> QED
    BY <2>2, <2>3
<1>14. ASSUME NEW m \in 1..Len(ds), NEW k \in 1..Beats(ds[m].device), Sent(r, ds[m].id, k)
       PROVE  \E i \in 1..Len(log) : log[i] = <<ds[m].id, k>>
  <2>1. CASE m \in 1..Len(cs)
    <3>1. ds[m] = cs[m] /\ Sent(q, cs[m].id, k) /\ k \in 1..Beats(cs[m].device)
      BY <1>3, <1>8, <1>14, <2>1
    <3> QED
      BY <2>1, <3>1 DEF DeviceLogOK
  <2>2. CASE m = Len(cs) + 1
    <3>1. ds[m] = c
      BY <1>3, <2>2
    <3> QED
      BY <1>9, <1>14, <3>1
  <2> QED
    BY <1>3, <2>1, <2>2, Zenon
<1>15. \A i, j \in 1..Len(log) : i < j => Earlier(log[i], log[j])
  BY DEF DeviceLogOK
<1>16. DeviceLogOK(log, ds, r)
  BY <1>10, <1>11, <1>12, <1>13, <1>14, <1>15 DEF DeviceLogOK
<1> QED
  BY <1>16 DEF ds, r, x

(* A command without a device part adds no beat.                           *)
LEMMA DeviceLogGrows ==
  ASSUME NEW log \in Seq(Beat), NEW cs \in Seq(Commands), NEW q \in Seq(Reads), NEW c \in Commands,
         DeviceLogOK(log, cs, q), c.device = 0
  PROVE  DeviceLogOK(log, Append(cs, c), q)
<1> DEFINE ds == Append(cs, c)
<1>1. /\ Len(cs) \in Nat /\ Len(ds) = Len(cs) + 1 /\ ds[Len(cs) + 1] = c
      /\ \A i \in 1..Len(cs) : i \in 1..Len(ds) /\ ds[i] = cs[i]
      /\ \A i \in 1..Len(ds) : i \in 1..Len(cs) \/ i = Len(cs) + 1
  BY Push, CommandFacts
<1> HIDE DEF ds
<1>2. Beats(c.device) = 0 /\ ~(c.device > 0)
  BY DEF Beats
<1>3. ASSUME NEW j \in 1..Len(q)
      PROVE  /\ q[j].sent < q[j].beats /\ (j > 1 => q[j].sent = 0)
             /\ \E i \in 1..Len(ds) : ds[i].id = q[j].id /\ Beats(ds[i].device) = q[j].beats
  <2>1. /\ q[j].sent < q[j].beats /\ (j > 1 => q[j].sent = 0)
        /\ \E i \in 1..Len(cs) : cs[i].id = q[j].id /\ Beats(cs[i].device) = q[j].beats
    BY DEF DeviceLogOK
  <2>2. PICK i \in 1..Len(cs) : cs[i].id = q[j].id /\ Beats(cs[i].device) = q[j].beats
    BY <2>1
  <2>3. i \in 1..Len(ds) /\ ds[i] = cs[i]
    BY <1>1
  <2> QED
    BY <2>1, <2>2, <2>3
<1>4. ASSUME NEW i \in 1..Len(ds), NEW j \in 1..Len(q), ds[i].device > 0, ds[i].id >= q[1].id
      PROVE  Waits(q, ds[i].id)
  <2>1. i \in 1..Len(cs) /\ ds[i] = cs[i]
    BY <1>1, <1>2, <1>4
  <2> QED
    BY <1>4, <2>1 DEF DeviceLogOK
<1>5. ASSUME NEW i \in 1..Len(log)
      PROVE  \E m \in 1..Len(ds) : \E k \in 1..Beats(ds[m].device) :
               log[i] = <<ds[m].id, k>> /\ Sent(q, ds[m].id, k)
  <2>1. PICK m \in 1..Len(cs) : \E k \in 1..Beats(cs[m].device) :
           log[i] = <<cs[m].id, k>> /\ Sent(q, cs[m].id, k)
    BY DEF DeviceLogOK
  <2>2. m \in 1..Len(ds) /\ ds[m] = cs[m]
    BY <1>1
  <2> QED
    BY <2>1, <2>2
<1>6. ASSUME NEW m \in 1..Len(ds), NEW k \in 1..Beats(ds[m].device), Sent(q, ds[m].id, k)
      PROVE  \E i \in 1..Len(log) : log[i] = <<ds[m].id, k>>
  <2>1. m \in 1..Len(cs) /\ ds[m] = cs[m]
    <3>1. m # Len(cs) + 1
      BY <1>1, <1>2
    <3> QED
      BY <1>1, <3>1
  <2>2. k \in 1..Beats(cs[m].device) /\ Sent(q, cs[m].id, k)
    BY <1>6, <2>1
  <2>3. \E i \in 1..Len(log) : log[i] = <<cs[m].id, k>>
    BY <2>1, <2>2 DEF DeviceLogOK
  <2> QED
    BY <2>1, <2>3
<1>7. DeviceLogOK(log, ds, q)
  <2>1. Rises(q) /\ \A i, j \in 1..Len(log) : i < j => Earlier(log[i], log[j])
    BY DEF DeviceLogOK
  <2> QED
    BY <1>3, <1>4, <1>5, <1>6, <2>1 DEF DeviceLogOK
<1> QED
  BY <1>7 DEF ds

-----------------------------------------------------------------------------
(* A beat queued for a user is the next of what it gets, and taking it out *)
(* of the queue changes nothing of that.                                   *)
LEMMA LogMoves ==
  ASSUME NEW S, NEW a \in Seq(S), NEW b \in Seq(S), b # <<>>
  PROVE  Append(a, Head(b)) \o Tail(b) = a \o b
<1> DEFINE l == Append(a, Head(b)) \o Tail(b)
           r == a \o b
<1>1. /\ Len(b) \in Nat /\ Len(b) > 0 /\ Len(Tail(b)) = Len(b) - 1 /\ Tail(b) \in Seq(S)
      /\ Head(b) = b[1] /\ Head(b) \in S /\ \A i \in 1..Len(Tail(b)) : Tail(b)[i] = b[i + 1]
  BY Pop
<1>2. /\ Append(a, Head(b)) \in Seq(S) /\ Len(Append(a, Head(b))) = Len(a) + 1 /\ Len(a) \in Nat
      /\ \A i \in 1..Len(a) : Append(a, Head(b))[i] = a[i]
      /\ Append(a, Head(b))[Len(a) + 1] = b[1]
  BY <1>1, Push
<1>3. /\ l \in Seq(S) /\ Len(l) = Len(a) + Len(b)
      /\ \A i \in 1..(Len(a) + 1) : l[i] = Append(a, Head(b))[i]
      /\ \A i \in (Len(a) + 2)..(Len(a) + Len(b)) : l[i] = Tail(b)[i - (Len(a) + 1)]
  BY <1>1, <1>2
<1>4. /\ r \in Seq(S) /\ Len(r) = Len(a) + Len(b)
      /\ \A i \in 1..Len(a) : r[i] = a[i]
      /\ \A i \in (Len(a) + 1)..(Len(a) + Len(b)) : r[i] = b[i - Len(a)]
  BY <1>1, <1>2
<1> HIDE DEF l, r
<1>5. ASSUME NEW i \in 1..Len(r) PROVE l[i] = r[i]
  <2>1. CASE i \in 1..Len(a)
    BY <1>2, <1>3, <1>4, <2>1
  <2>2. CASE i = Len(a) + 1
    <3>1. i - Len(a) = 1 /\ i \in (Len(a) + 1)..(Len(a) + Len(b)) /\ i \in 1..(Len(a) + 1)
      BY <1>1, <1>2, <2>2
    <3> QED
      BY <1>2, <1>3, <1>4, <2>2, <3>1
  <2>3. CASE i \in (Len(a) + 2)..(Len(a) + Len(b))
    <3>1. /\ i - (Len(a) + 1) \in 1..Len(Tail(b)) /\ (i - (Len(a) + 1)) + 1 = i - Len(a)
          /\ i \in (Len(a) + 1)..(Len(a) + Len(b))
      BY <1>1, <1>2, <2>3
    <3> QED
      BY <1>1, <1>3, <1>4, <2>3, <3>1
  <2> QED
    BY <1>1, <1>2, <1>4, <2>1, <2>2, <2>3
<1>6. l = r
  BY <1>3, <1>4, <1>5
<1> QED
  BY <1>6 DEF l, r

LEMMA LogAppends ==
  ASSUME NEW S, NEW a \in Seq(S), NEW b \in Seq(S), NEW x \in S
  PROVE  a \o Append(b, x) = Append(a \o b, x) /\ a \o b \in Seq(S)
  OBVIOUS

(* The place of a beat, when no two reads have the same id.                *)
Distinct(rs) == \A m, n \in 1..Len(rs) : rs[m].id = rs[n].id => m = n

LEMMA KeyAt ==
  ASSUME NEW rs \in Seq(HostCmds), Distinct(rs), NEW n \in 1..Len(rs), NEW k \in Nat
  PROVE  Key(rs)[<<rs[n].id, k>>] = <<n, k>> /\ <<rs[n].id, k>> \in Beat
<1> DEFINE b == <<rs[n].id, k>>
<1>1. b \in Beat /\ b[1] = rs[n].id /\ b[2] = k
  BY ReadFacts DEF Beat
<1>2. At(rs, rs[n].id) = n
  BY DEF At, Distinct
<1> HIDE DEF b
<1>3. Key(rs)[b] = <<At(rs, b[1]), b[2]>>
  BY <1>1 DEF Key
<1>4. Key(rs)[b] = <<n, k>>
  BY <1>1, <1>2, <1>3
<1> QED
  BY <1>1, <1>4 DEF b

(* A new read leaves the beats of the reads before it in their places.     *)
LEMMA StreamGrows ==
  ASSUME NEW rs \in Seq(HostCmds), NEW x \in HostCmds, Distinct(rs), Distinct(Append(rs, x)),
         NEW q \in Seq(Beat), \A i \in 1..Len(q) : IsBeat(q[i], rs), NEW a, NEW z,
         Chain(q, Key(rs), Succ(rs), a, z)
  PROVE  /\ \A i \in 1..Len(q) : IsBeat(q[i], Append(rs, x))
         /\ Chain(q, Key(Append(rs, x)), Succ(Append(rs, x)), a, z)
<1> DEFINE ps == Append(rs, x)
<1>1. /\ ps \in Seq(HostCmds) /\ Len(rs) \in Nat /\ Len(ps) = Len(rs) + 1 /\ Len(q) \in Nat
      /\ \A n \in 1..Len(rs) : n \in 1..Len(ps) /\ ps[n] = rs[n] /\ BeatsOf(ps, n) = BeatsOf(rs, n)
  BY Push DEF BeatsOf
<1>2. Distinct(ps)
  OBVIOUS
<1> HIDE DEF ps
<1>3. ASSUME NEW i \in 1..Len(q)
      PROVE  /\ IsBeat(q[i], ps) /\ Key(ps)[q[i]] = Key(rs)[q[i]]
             /\ Succ(ps)[Key(ps)[q[i]]] = Succ(rs)[Key(rs)[q[i]]]
  <2>1. PICK n \in 1..Len(rs) : \E k \in 1..BeatsOf(rs, n) : q[i] = <<rs[n].id, k>>
    BY DEF IsBeat
  <2>2. PICK k \in 1..BeatsOf(rs, n) : q[i] = <<rs[n].id, k>>
    BY <2>1
  <2>3. k \in Nat /\ n \in Nat /\ n \in 1..Len(ps) /\ ps[n] = rs[n] /\ BeatsOf(ps, n) = BeatsOf(rs, n)
    BY <1>1, ReadFacts
  <2>4. Key(rs)[q[i]] = <<n, k>>
    BY <2>2, <2>3, KeyAt
  <2>5. Key(ps)[q[i]] = <<n, k>>
    BY <1>1, <1>2, <2>2, <2>3, KeyAt
  <2>6. Follows(Succ(rs)[<<n, k>>], n, k, BeatsOf(rs, n))
    BY <2>3, SuccAt
  <2>7. Follows(Succ(ps)[<<n, k>>], n, k, BeatsOf(rs, n))
    BY <1>1, <2>3, SuccAt
  <2>8. Succ(ps)[<<n, k>>] = Succ(rs)[<<n, k>>]
    BY <2>6, <2>7 DEF Follows
  <2>9. IsBeat(q[i], ps)
    BY <2>2, <2>3 DEF IsBeat
  <2> QED
    BY <2>4, <2>5, <2>8, <2>9
<1>4. Chain(q, Key(ps), Succ(ps), a, z)
  <2>1. Len(q) = 0 => a = z
    BY DEF Chain
  <2>2. Len(q) > 0 => Key(ps)[q[1]] = a /\ Succ(ps)[Key(ps)[q[Len(q)]]] = z
    <3>1. Len(q) > 0 => 1 \in 1..Len(q) /\ Len(q) \in 1..Len(q)
      BY <1>1
    <3> QED
      BY <1>3, <3>1 DEF Chain
  <2>3. ASSUME NEW i \in 1..Len(q), NEW j \in 1..Len(q), j = i + 1
        PROVE  Key(ps)[q[j]] = Succ(ps)[Key(ps)[q[i]]]
    BY <1>3, <2>3 DEF Chain
  <2> QED
    BY <2>1, <2>2, <2>3 DEF Chain
<1> QED
  BY <1>3, <1>4 DEF ps

-----------------------------------------------------------------------------
(* Two reads with one id would be of one command, and so of one user,      *)
(* whose reads rise.                                                       *)
LEMMA DistinctReads ==
  ASSUME NEW rs \in Seq(HostCmds), NEW co, NEW cm,
         \A u \in Users : ReadsMatch(rs, co[u], u) /\ ReadsRise(rs, u),
         \A u \in Users : \A i \in 1..Len(co[u]) : Written(cm, co[u][i], u)
  PROVE  Distinct(rs)
<1> SUFFICES ASSUME NEW m \in 1..Len(rs), NEW n \in 1..Len(rs), rs[m].id = rs[n].id PROVE m = n
  BY DEF Distinct
<1>1. ASSUME NEW l \in 1..Len(rs)
      PROVE  User(rs[l]) \in Users /\ User(cm[rs[l].id]) = User(rs[l])
  <2>1. User(rs[l]) \in Users
    BY DEF User, Users
  <2>2. PICK i \in 1..Len(co[User(rs[l])]) : rs[l] = HostCmd(co[User(rs[l])][i])
    BY <2>1 DEF ReadsMatch, ReadOf
  <2>3. rs[l].id = co[User(rs[l])][i].id
    BY <2>2 DEF HostCmd
  <2> QED
    BY <2>1, <2>3 DEF Written
<1>2. User(rs[m]) = User(rs[n]) /\ User(rs[m]) \in Users
  BY <1>1
<1>3. ~(m < n) /\ ~(n < m)
  <2>1. rs[m].id \in Nat /\ rs[n].id \in Nat
    BY ReadFacts
  <2> QED
    BY <1>2, <2>1 DEF ReadsRise
<1> QED
  BY <1>3, ReadFacts

(* Every step keeps the types.                                             *)
LEMMA TypeInit == Init => TypeOK
  BY DEF Init, TypeOK, Users, Commands, HostCmds, Reads, Beat, States, NoCmd, NoRead

LEMMA NewCommand ==
  ASSUME TypeOK, NEW c \in NewCmds
  PROVE  /\ c \in Commands /\ c.id = Len(cmds) + 1 /\ User(c) \in Users
         /\ User(c) = "ser" => c.host > 0
         /\ User(c) = "eng" => c.host = 0 \/ c.device = 0
<1>1. Len(cmds) \in Nat
  BY DEF TypeOK
<1>2. HostLens \subseteq Nat \ {0} /\ DeviceLens \subseteq Nat
  BY ReadHostAssumption
<1>3. CASE \E h \in HostLens, d \in DeviceLens :
             c = [id |-> Len(cmds) + 1, eng |-> FALSE, host |-> h, device |-> d]
  BY <1>1, <1>2, <1>3 DEF Commands, User, Users
<1>4. CASE \E h \in HostLens :
             \/ c = [id |-> Len(cmds) + 1, eng |-> TRUE, host |-> h, device |-> 0]
             \/ c = [id |-> Len(cmds) + 1, eng |-> TRUE, host |-> 0, device |-> h]
  <2>1. PICK h \in HostLens :
             \/ c = [id |-> Len(cmds) + 1, eng |-> TRUE, host |-> h, device |-> 0]
             \/ c = [id |-> Len(cmds) + 1, eng |-> TRUE, host |-> 0, device |-> h]
    BY <1>4
  <2>2. h \in Nat
    BY <1>2
  <2>3. /\ c \in Commands /\ c.id = Len(cmds) + 1 /\ c.eng = TRUE
        /\ c.host = 0 \/ c.device = 0
    <3>1. CASE c = [id |-> Len(cmds) + 1, eng |-> TRUE, host |-> h, device |-> 0]
      BY <1>1, <2>2, <3>1 DEF Commands
    <3>2. CASE c = [id |-> Len(cmds) + 1, eng |-> TRUE, host |-> 0, device |-> h]
      BY <1>1, <2>2, <3>2 DEF Commands
    <3> QED
      BY <2>1, <3>1, <3>2
  <2>4. User(c) = "eng"
    BY <2>3 DEF User
  <2> QED
    BY <2>3, <2>4 DEF Users
<1> QED
  BY <1>3, <1>4 DEF NewCmds

(* What one queue of a user gets, the queue of the other does not see.     *)
LEMMA Change ==
  ASSUME NEW S, NEW f \in [Users -> Seq(S)], NEW u \in Users, NEW s \in Seq(S)
  PROVE  LET g == [f EXCEPT ![u] = s] IN
         g \in [Users -> Seq(S)] /\ g[u] = s /\ \A v \in Users : v # u => g[v] = f[v]
  OBVIOUS

LEMMA ReadTypes ==
  ASSUME NEW c \in Commands
  PROVE  /\ HostCmd(c) \in HostCmds
         /\ [id |-> c.id, beats |-> Beats(ReadLength(c)), sent |-> 0] \in Reads
         /\ [id |-> c.id, beats |-> Beats(c.device), sent |-> 0] \in Reads
         /\ Beats(ReadLength(c)) = Beats(c.host)
         /\ HostCmd(c).id = c.id /\ HostCmd(c).length = c.host /\ User(HostCmd(c)) = User(c)
<1>1. c.id \in Nat /\ c.host \in Nat /\ c.device \in Nat /\ c.eng \in BOOLEAN
  BY DEF Commands
<1>2. HostCmd(c) \in HostCmds /\ HostCmd(c).id = c.id /\ HostCmd(c).length = c.host
      /\ HostCmd(c).eng = c.eng
  BY <1>1 DEF HostCmd, HostCmds
<1>3. User(HostCmd(c)) = User(c)
  BY <1>2 DEF User
<1>4. Beats(ReadLength(c)) = Beats(c.host)
  <2>1. CASE c.eng
    BY <2>1 DEF ReadLength
  <2>2. CASE ~c.eng
    <3>1. ReadLength(c) = ((c.host + 63) \div 64) * 64
      BY <2>2 DEF ReadLength
    <3> QED
      BY <1>1, <3>1, BeatsFacts, Zenon
  <2> QED
    BY <2>1, <2>2
<1>5. Beats(c.host) \in Nat /\ Beats(c.device) \in Nat
  BY <1>1, BeatsFacts, Zenon
<1> QED
  BY <1>1, <1>2, <1>3, <1>4, <1>5 DEF Reads

LEMMA HostReadType ==
  ASSUME TypeOK, HostRead(reg)
  PROVE  host_cmd_fifo' \in Seq(HostCmds) /\ reads' \in Seq(HostCmds) /\ read_q' \in Seq(Reads)
<1> DEFINE h == HostCmd(reg)
           r == [id |-> reg.id, beats |-> Beats(ReadLength(reg)), sent |-> 0]
<1>1. h \in HostCmds /\ r \in Reads
  BY ReadTypes DEF TypeOK
<1>2. /\ host_cmd_fifo' = Append(host_cmd_fifo, h) /\ reads' = Append(reads, h)
      /\ read_q' = Append(read_q, r)
  BY DEF HostRead
<1> HIDE DEF h, r
<1>3. host_cmd_fifo \in Seq(HostCmds) /\ reads \in Seq(HostCmds) /\ read_q \in Seq(Reads)
  BY DEF TypeOK
<1> QED
  BY <1>1, <1>2, <1>3, Push

LEMMA DeviceReadEffect ==
  ASSUME TypeOK, NEW u \in Users, User(reg) = u, DeviceRead(reg)
  PROVE  LET r == [id |-> reg.id, beats |-> Beats(reg.device), sent |-> 0] IN
         /\ hbm_q' \in [Users -> Seq(Reads)] /\ \A v \in Users : v # u => hbm_q'[v] = hbm_q[v]
         /\ reg.device = 0 => hbm_q'[u] = hbm_q[u]
         /\ reg.device # 0 => hbm_q'[u] = Append(hbm_q[u], r)
<1> DEFINE r == [id |-> reg.id, beats |-> Beats(reg.device), sent |-> 0]
           s == IF reg.device = 0 THEN hbm_q[u] ELSE Append(hbm_q[u], r)
<1>1. r \in Reads
  BY ReadTypes DEF TypeOK
<1>2. hbm_q \in [Users -> Seq(Reads)]
  BY DEF TypeOK
<1>3. hbm_q' = [hbm_q EXCEPT ![u] = s]
  BY DEF DeviceRead
<1>4. hbm_q[u] \in Seq(Reads)
  BY <1>2
<1> HIDE DEF r
<1>5. s \in Seq(Reads)
  BY <1>1, <1>4, Push
<1>6. reg.device = 0 => s = hbm_q[u]
  OBVIOUS
<1>7. reg.device # 0 => s = Append(hbm_q[u], r)
  OBVIOUS
<1> HIDE DEF s
<1>8. hbm_q' \in [Users -> Seq(Reads)] /\ hbm_q'[u] = s /\ \A v \in Users : v # u => hbm_q'[v] = hbm_q[v]
  BY <1>2, <1>3, <1>5, Change
<1> QED
  BY <1>6, <1>7, <1>8 DEF r

LEMMA IssueType ==
  ASSUME TypeOK, NEW u \in Users, Issue(u)
  PROVE  /\ cmds' = cmds /\ cmd_fifo' = cmd_fifo /\ state' = "sIdle" /\ reg' = reg
         /\ host_data_fifo' = host_data_fifo /\ state_r' = state_r /\ host_reg' = host_reg
         /\ data_fifo' = data_fifo /\ host_out' = host_out /\ device_out' = device_out
         /\ cmd_out' \in [Users -> Seq(Commands)]
         /\ cmd_out'[u] = Append(cmd_out[u], reg)
         /\ \A v \in Users : v # u => cmd_out'[v] = cmd_out[v]
<1>1. cmd_out \in [Users -> Seq(Commands)] /\ reg \in Commands
  BY DEF TypeOK
<1>2. cmd_out' = [cmd_out EXCEPT ![u] = Append(cmd_out[u], reg)]
  BY DEF Issue
<1>3. Append(cmd_out[u], reg) \in Seq(Commands)
  BY <1>1
<1>4. /\ cmd_out' \in [Users -> Seq(Commands)] /\ cmd_out'[u] = Append(cmd_out[u], reg)
      /\ \A v \in Users : v # u => cmd_out'[v] = cmd_out[v]
  BY <1>1, <1>2, <1>3, Change
<1> QED
  BY <1>4 DEF Issue, route_vars

(* What a step that hands out the command in the register does, for either *)
(* user.                                                                   *)
Pushed(c) ==
  \/ /\ c.host > 0
     /\ host_cmd_fifo' = Append(host_cmd_fifo, HostCmd(c))
     /\ reads' = Append(reads, HostCmd(c))
     /\ read_q' = Append(read_q, [id |-> c.id, beats |-> Beats(ReadLength(c)), sent |-> 0])
  \/ c.host = 0 /\ UNCHANGED <<host_cmd_fifo, reads, read_q>>
HandsOut(u) ==
  /\ state = StateOf(u) /\ state' = "sIdle" /\ reg \in Commands
  /\ Written(cmds, reg, u)
  /\ cmd_out'[u] = Append(cmd_out[u], reg) /\ \A v \in Users : v # u => cmd_out'[v] = cmd_out[v]
  /\ Pushed(reg)
  /\ reg.device = 0 => hbm_q'[u] = hbm_q[u]
  /\ reg.device > 0 =>
       hbm_q'[u] = Append(hbm_q[u], [id |-> reg.id, beats |-> Beats(reg.device), sent |-> 0])
  /\ \A v \in Users : v # u => hbm_q'[v] = hbm_q[v]
  /\ UNCHANGED <<cmds, cmd_fifo, reg, host_data_fifo, state_r, host_reg, data_fifo, host_out, device_out>>

LEMMA IssueEffect ==
  ASSUME TypeOK, CmdsOK, NEW u \in Users, \/ SerIssue /\ u = "ser"
                                          \/ EngIssue /\ u = "eng"
  PROVE  TypeOK' /\ HandsOut(u)
<1>1. state = StateOf(u) /\ Issue(u)
  BY DEF SerIssue, EngIssue, StateOf
<1>2. Written(cmds, reg, u)
  BY <1>1 DEF CmdsOK, CmdsOf
<1>3. reg \in Commands /\ reg.host \in Nat /\ reg.device \in Nat
  BY DEF TypeOK, Commands
<1>4. User(reg) = u
  BY <1>2 DEF Written
<1>5. (HostRead(reg) /\ reg.host > 0) \/ (reg.host = 0 /\ UNCHANGED <<host_cmd_fifo, reads, read_q>>)
  <2>1. CASE SerIssue /\ u = "ser"
    BY <1>2, <2>1 DEF SerIssue, Written
  <2>2. CASE EngIssue /\ u = "eng"
    BY <1>3, <2>2 DEF EngIssue
  <2> QED
    BY <2>1, <2>2
<1>6. DeviceRead(reg) \/ (reg.device = 0 /\ UNCHANGED hbm_q)
  <2>1. CASE SerIssue /\ u = "ser"
    BY <2>1 DEF SerIssue
  <2>2. CASE EngIssue /\ u = "eng"
    BY <1>2, <2>2 DEF EngIssue, Written
  <2> QED
    BY <2>1, <2>2
<1>7. Pushed(reg)
  BY <1>5 DEF Pushed, HostRead
<1>8. host_cmd_fifo' \in Seq(HostCmds) /\ reads' \in Seq(HostCmds) /\ read_q' \in Seq(Reads)
  BY <1>5, HostReadType DEF TypeOK
<1>9. /\ hbm_q' \in [Users -> Seq(Reads)] /\ \A v \in Users : v # u => hbm_q'[v] = hbm_q[v]
      /\ reg.device = 0 => hbm_q'[u] = hbm_q[u]
      /\ reg.device # 0 =>
           hbm_q'[u] = Append(hbm_q[u], [id |-> reg.id, beats |-> Beats(reg.device), sent |-> 0])
  <2>1. CASE DeviceRead(reg)
    BY <1>4, <2>1, DeviceReadEffect
  <2>2. CASE reg.device = 0 /\ UNCHANGED hbm_q
    BY <2>2 DEF TypeOK
  <2> QED
    BY <1>6, <2>1, <2>2
<1>10. /\ cmds' = cmds /\ cmd_fifo' = cmd_fifo /\ state' = "sIdle" /\ reg' = reg
       /\ host_data_fifo' = host_data_fifo /\ state_r' = state_r /\ host_reg' = host_reg
       /\ data_fifo' = data_fifo /\ host_out' = host_out /\ device_out' = device_out
       /\ cmd_out' \in [Users -> Seq(Commands)]
       /\ cmd_out'[u] = Append(cmd_out[u], reg)
       /\ \A v \in Users : v # u => cmd_out'[v] = cmd_out[v]
  BY <1>1, IssueType
<1>11. TypeOK'
  <2>1. state' \in States
    BY <1>10 DEF States
  <2> QED
    BY <1>8, <1>9, <1>10, <2>1 DEF TypeOK
<1> QED
  BY <1>1, <1>2, <1>3, <1>7, <1>9, <1>10, <1>11 DEF HandsOut

(* The command handed out is later than those handed out before and        *)
(* earlier than those that wait.                                           *)
LEMMA IssueCmds ==
  ASSUME TypeOK, CmdsOK, NEW u \in Users, HandsOut(u), NEW v \in Users
  PROVE  CmdsOf(v)'
<1>1. /\ CmdsOf(v) /\ cmds' = cmds /\ cmd_fifo' = cmd_fifo /\ reg' = reg /\ state' = "sIdle"
      /\ state = StateOf(u)
  BY DEF CmdsOK, HandsOut
<1>2. state' # StateOf(v)
  BY <1>1 DEF StateOf
<1>3. CASE v # u
  <2>1. cmd_out'[v] = cmd_out[v]
    BY <1>3 DEF HandsOut
  <2> QED
    BY <1>1, <1>2, <2>1 DEF CmdsOf
<1>4. CASE v = u
  <2> DEFINE co == cmd_out[u]
             cn == cmd_out'[u]
  <2>1. co \in Seq(Commands) /\ reg \in Commands /\ cn = Append(co, reg)
    BY DEF TypeOK, HandsOut
  <2>2. /\ Len(co) \in Nat /\ Len(cn) = Len(co) + 1 /\ cn[Len(co) + 1] = reg
        /\ \A i \in 1..Len(co) : cn[i] = co[i]
    BY <2>1, Push
  <2>3. /\ Written(cmds, reg, u)
        /\ \A i \in 1..Len(co) : Written(cmds, co[i], u) /\ co[i].id < reg.id
        /\ \A j \in 1..Len(cmd_fifo[u]) : reg.id < cmd_fifo[u][j].id
        /\ \A i \in 1..Len(co) : \A j \in 1..Len(cmd_fifo[u]) : co[i].id < cmd_fifo[u][j].id
        /\ Rises(co)
    BY <1>1, <1>4 DEF CmdsOf
  <2> HIDE DEF co, cn
  <2>4. ASSUME NEW i \in 1..Len(cn)
        PROVE  /\ Written(cmds, cn[i], u)
               /\ \A j \in 1..Len(cmd_fifo[u]) : cn[i].id < cmd_fifo[u][j].id
    <3>1. i \in 1..Len(co) \/ i = Len(co) + 1
      BY <2>2
    <3> QED
      BY <2>2, <2>3, <3>1, Zenon
  <2>5. Rises(cn)
    <3> SUFFICES ASSUME NEW i \in 1..Len(cn), NEW j \in 1..Len(cn), i < j PROVE cn[i].id < cn[j].id
      BY DEF Rises
    <3>1. i \in 1..Len(co) /\ (j \in 1..Len(co) \/ j = Len(co) + 1)
      BY <2>2
    <3> QED
      BY <2>2, <2>3, <3>1 DEF Rises
  <2> QED
    BY <1>1, <1>2, <1>4, <2>4, <2>5 DEF CmdsOf, cn
<1> QED
  BY <1>3, <1>4

(* The read of the command is the last of its user's reads.                *)
LEMMA MatchIssue ==
  ASSUME NEW rs \in Seq(HostCmds), NEW cs \in Seq(Commands), NEW c \in Commands, NEW u,
         User(c) = u, c.host > 0, ReadsMatch(rs, cs, u), ReadsRise(rs, u),
         \A i \in 1..Len(cs) : cs[i].id < c.id
  PROVE  /\ ReadsMatch(Append(rs, HostCmd(c)), Append(cs, c), u)
         /\ ReadsRise(Append(rs, HostCmd(c)), u)
<1> DEFINE x == HostCmd(c)
           ps == Append(rs, x)
           ds == Append(cs, c)
<1>1. x \in HostCmds /\ x.id = c.id /\ x.length = c.host /\ User(x) = u
  BY ReadTypes
<1>2. /\ Len(rs) \in Nat /\ Len(ps) = Len(rs) + 1 /\ ps[Len(rs) + 1] = x
      /\ \A n \in 1..Len(rs) : ps[n] = rs[n]
  BY <1>1, Push
<1>3. /\ Len(cs) \in Nat /\ Len(ds) = Len(cs) + 1 /\ ds[Len(cs) + 1] = c
      /\ \A i \in 1..Len(cs) : ds[i] = cs[i]
  BY Push
<1> HIDE DEF ps, ds
<1>4. Len(rs) + 1 \in 1..Len(ps) /\ Len(cs) + 1 \in 1..Len(ds)
  BY <1>2, <1>3
<1>5. ReadOf(ps, u, Len(rs) + 1, ds[Len(cs) + 1])
  BY <1>1, <1>2, <1>3, <1>4 DEF ReadOf
<1>6. ASSUME NEW n \in 1..Len(rs), NEW i \in 1..Len(cs), ReadOf(rs, u, n, cs[i])
      PROVE  n \in 1..Len(ps) /\ i \in 1..Len(ds) /\ ReadOf(ps, u, n, ds[i])
  BY <1>2, <1>3, <1>6 DEF ReadOf
<1>7. ASSUME NEW n \in 1..Len(ps), User(ps[n]) = u
      PROVE  ps[n].length > 0 /\ \E i \in 1..Len(ds) : ReadOf(ps, u, n, ds[i])
  <2>1. n \in 1..Len(rs) \/ n = Len(rs) + 1
    BY <1>2
  <2>2. CASE n \in 1..Len(rs)
    <3>1. User(rs[n]) = u /\ ps[n] = rs[n]
      BY <1>2, <1>7, <2>2
    <3>2. rs[n].length > 0 /\ \E i \in 1..Len(cs) : ReadOf(rs, u, n, cs[i])
      BY <2>2, <3>1 DEF ReadsMatch
    <3> QED
      BY <1>6, <2>2, <3>1, <3>2
  <2>3. CASE n = Len(rs) + 1
    BY <1>1, <1>2, <1>4, <1>5, <2>3
  <2> QED
    BY <2>1, <2>2, <2>3
<1>8. ASSUME NEW i \in 1..Len(ds), ds[i].host > 0
      PROVE  \E n \in 1..Len(ps) : ReadOf(ps, u, n, ds[i])
  <2>1. i \in 1..Len(cs) \/ i = Len(cs) + 1
    BY <1>3
  <2>2. CASE i \in 1..Len(cs)
    <3>1. cs[i].host > 0
      BY <1>3, <1>8, <2>2
    <3>2. PICK n \in 1..Len(rs) : ReadOf(rs, u, n, cs[i])
      BY <2>2, <3>1 DEF ReadsMatch
    <3> QED
      BY <1>6, <2>2, <3>2
  <2>3. CASE i = Len(cs) + 1
    BY <1>4, <1>5, <2>3
  <2> QED
    BY <2>1, <2>2, <2>3
<1>9. ASSUME NEW m \in 1..Len(ps), NEW n \in 1..Len(ps), User(ps[m]) = u, User(ps[n]) = u, m < n
      PROVE  ps[m].id < ps[n].id
  <2>1. m \in 1..Len(rs) /\ (n \in 1..Len(rs) \/ n = Len(rs) + 1)
    BY <1>2, <1>9
  <2>2. CASE n \in 1..Len(rs)
    <3>1. User(rs[m]) = u /\ User(rs[n]) = u
      BY <1>2, <1>9, <2>1, <2>2
    <3>2. rs[m].id < rs[n].id
      BY <1>9, <2>1, <2>2, <3>1 DEF ReadsRise
    <3> QED
      BY <1>2, <2>1, <2>2, <3>2
  <2>3. CASE n = Len(rs) + 1
    <3>1. User(rs[m]) = u
      BY <1>2, <1>9, <2>1
    <3>2. PICK i \in 1..Len(cs) : ReadOf(rs, u, m, cs[i])
      BY <2>1, <3>1 DEF ReadsMatch
    <3>3. rs[m].id = cs[i].id
      BY <3>2 DEF ReadOf, HostCmd
    <3> QED
      BY <1>1, <1>2, <2>1, <2>3, <3>3
  <2> QED
    BY <2>1, <2>2, <2>3
<1>10. ReadsMatch(ps, ds, u) /\ ReadsRise(ps, u)
  BY <1>7, <1>8, <1>9 DEF ReadsMatch, ReadsRise
<1> QED
  BY <1>10 DEF ps, ds

(* It is no read of the other user.                                        *)
LEMMA MatchOther ==
  ASSUME NEW rs \in Seq(HostCmds), NEW cs, NEW x \in HostCmds, NEW u,
         User(x) # u, ReadsMatch(rs, cs, u), ReadsRise(rs, u)
  PROVE  ReadsMatch(Append(rs, x), cs, u) /\ ReadsRise(Append(rs, x), u)
<1> DEFINE ps == Append(rs, x)
<1>1. /\ Len(rs) \in Nat /\ Len(ps) = Len(rs) + 1 /\ ps[Len(rs) + 1] = x
      /\ \A n \in 1..Len(rs) : ps[n] = rs[n] /\ n \in 1..Len(ps)
  BY Push
<1> HIDE DEF ps
<1>2. \A n \in 1..Len(ps) : User(ps[n]) = u => n \in 1..Len(rs)
  <2>1. \A n \in 1..Len(ps) : n \in 1..Len(rs) \/ n = Len(rs) + 1
    BY <1>1
  <2> QED
    BY <1>1, <2>1, Zenon
<1>3. ASSUME NEW n \in 1..Len(rs), NEW c PROVE ReadOf(rs, u, n, c) <=> ReadOf(ps, u, n, c)
  BY <1>1 DEF ReadOf
<1>4. ReadsMatch(ps, cs, u)
  BY <1>1, <1>2, <1>3 DEF ReadsMatch
<1>5. ReadsRise(ps, u)
  BY <1>1, <1>2 DEF ReadsRise
<1> QED
  BY <1>4, <1>5 DEF ps

(* A command without a host part has no read.                              *)
LEMMA MatchNone ==
  ASSUME NEW rs, NEW cs \in Seq(Commands), NEW c \in Commands, NEW u,
         c.host = 0, ReadsMatch(rs, cs, u)
  PROVE  ReadsMatch(rs, Append(cs, c), u)
<1> DEFINE ds == Append(cs, c)
<1>1. /\ Len(cs) \in Nat /\ Len(ds) = Len(cs) + 1 /\ ds[Len(cs) + 1] = c
      /\ \A i \in 1..Len(cs) : ds[i] = cs[i] /\ i \in 1..Len(ds)
  BY Push
<1> HIDE DEF ds
<1>2. \A i \in 1..Len(ds) : ds[i].host > 0 => i \in 1..Len(cs)
  <2>1. \A i \in 1..Len(ds) : i \in 1..Len(cs) \/ i = Len(cs) + 1
    BY <1>1
  <2>2. ~(c.host > 0)
    OBVIOUS
  <2> QED
    BY <1>1, <2>1, <2>2, Zenon
<1>3. ReadsMatch(rs, ds, u)
  BY <1>1, <1>2 DEF ReadsMatch
<1> QED
  BY <1>3 DEF ds

LEMMA IssueReads ==
  ASSUME TypeOK, CmdsOK, ReadsOK, NEW u \in Users, HandsOut(u), NEW v \in Users
  PROVE  (ReadsMatch(reads, cmd_out[v], v) /\ ReadsRise(reads, v))'
<1> DEFINE rs == reads
           cs == cmd_out[v]
<1>1. rs \in Seq(HostCmds) /\ cs \in Seq(Commands) /\ reg \in Commands
  BY DEF TypeOK
<1>2. ReadsMatch(rs, cs, v) /\ ReadsRise(rs, v)
  BY DEF ReadsOK
<1>3. User(reg) = u /\ HostCmd(reg) \in HostCmds /\ User(HostCmd(reg)) = u
  BY <1>1, ReadTypes DEF HandsOut, Written
<1>4. /\ v = u => cmd_out'[v] = Append(cs, reg)
      /\ v # u => cmd_out'[v] = cs
  BY DEF HandsOut
<1>5. v = u => \A i \in 1..Len(cs) : cs[i].id < reg.id
  BY DEF HandsOut, CmdsOK, CmdsOf
<1>6. (reg.host > 0 /\ reads' = Append(rs, HostCmd(reg))) \/ (reg.host = 0 /\ reads' = rs)
  BY DEF HandsOut, Pushed
<1> HIDE DEF rs, cs
<1>7. CASE reg.host > 0 /\ reads' = Append(rs, HostCmd(reg)) /\ v = u
  <2>1. /\ ReadsMatch(Append(rs, HostCmd(reg)), Append(cs, reg), v)
        /\ ReadsRise(Append(rs, HostCmd(reg)), v)
    BY <1>1, <1>2, <1>3, <1>5, <1>7, MatchIssue
  <2> QED
    BY <1>4, <1>7, <2>1
<1>8. CASE reg.host > 0 /\ reads' = Append(rs, HostCmd(reg)) /\ v # u
  <2>1. /\ ReadsMatch(Append(rs, HostCmd(reg)), cs, v)
        /\ ReadsRise(Append(rs, HostCmd(reg)), v)
    BY <1>1, <1>2, <1>3, <1>8, MatchOther
  <2> QED
    BY <1>4, <1>8, <2>1
<1>9. CASE reg.host = 0 /\ reads' = rs
  <2>1. ReadsMatch(rs, Append(cs, reg), v)
    BY <1>1, <1>2, <1>9, MatchNone
  <2> QED
    BY <1>2, <1>4, <1>9, <2>1
<1> QED
  BY <1>6, <1>7, <1>8, <1>9

-----------------------------------------------------------------------------
(* Where the router is in the stream.                                      *)
LEMMA OutPlace ==
  ASSUME TypeOK, RouterOK
  PROVE  /\ Issued \in Nat /\ Routed \in Nat /\ Routed <= Issued
         /\ state_r = "sIdle" => Out[1] = Routed + 1 /\ Out[2] = 1
         /\ state_r # "sIdle" => Out[1] = Routed /\ Out[2] = Done + 1 /\ Routed \in 1..Issued /\ Done \in Nat
         /\ Out[1] \in Nat /\ Out[2] \in Nat
         /\ Out[1] <= Issued \/ (Out[1] = Issued + 1 /\ Out[2] = 1)
<1>1. Len(reads) \in Nat /\ Len(host_cmd_fifo) \in Nat
  BY DEF TypeOK
<1>2. Issued \in Nat /\ Routed \in Nat /\ Routed <= Issued
  BY <1>1 DEF Issued, Routed, RouterOK
<1>3. CASE state_r = "sIdle"
  <2>1. Out = <<Routed + 1, 1>>
    BY <1>3 DEF Out
  <2>2. Out[1] = Routed + 1 /\ Out[2] = 1
    BY <2>1
  <2> QED
    BY <1>2, <1>3, <2>2
<1>4. CASE state_r # "sIdle"
  <2>1. Out = <<Routed, Done + 1>>
    BY <1>4 DEF Out
  <2>2. Out[1] = Routed /\ Out[2] = Done + 1
    BY <2>1
  <2>3. Done \in Nat /\ Routed > 0
    BY <1>4 DEF RouterOK
  <2> QED
    BY <1>2, <1>4, <2>2, <2>3
<1> QED
  BY <1>3, <1>4

(* A read that is issued moves neither memory nor the router.              *)
LEMMA IssuePlaces ==
  ASSUME TypeOK, SenderOK, RouterOK, reg \in Commands, Pushed(reg)
  PROVE  /\ Answered' = Answered /\ Routed' = Routed /\ In' = In
         /\ \A n \in 1..Issued : n \in 1..Issued' /\ reads'[n] = reads[n]
         /\ state_r' = state_r /\ host_reg' = host_reg => Done' = Done \/ state_r = "sIdle"
         /\ state_r' = state_r /\ host_reg' = host_reg => Out' = Out
<1>1. CASE reg.host = 0 /\ UNCHANGED <<host_cmd_fifo, reads, read_q>>
  BY <1>1 DEF Issued, Answered, Routed, In, Out, Done
<1>2. CASE reg.host > 0
  <2> DEFINE h == HostCmd(reg)
             r == [id |-> reg.id, beats |-> Beats(ReadLength(reg)), sent |-> 0]
  <2>1. h \in HostCmds /\ r \in Reads /\ r.sent = 0
    BY ReadTypes
  <2>2. /\ host_cmd_fifo' = Append(host_cmd_fifo, h) /\ reads' = Append(reads, h)
        /\ read_q' = Append(read_q, r)
    BY <1>2 DEF Pushed
  <2> HIDE DEF h, r
  <2>3. host_cmd_fifo \in Seq(HostCmds) /\ reads \in Seq(HostCmds) /\ read_q \in Seq(Reads)
    BY DEF TypeOK
  <2>4. /\ Len(host_cmd_fifo) \in Nat /\ Len(reads) \in Nat /\ Len(read_q) \in Nat
        /\ Len(host_cmd_fifo') = Len(host_cmd_fifo) + 1 /\ Len(reads') = Len(reads) + 1
        /\ Len(read_q') = Len(read_q) + 1 /\ read_q'[Len(read_q) + 1] = r
        /\ \A i \in 1..Len(read_q) : read_q'[i] = read_q[i]
        /\ \A n \in 1..Len(reads) : reads'[n] = reads[n]
        /\ read_q' \in Seq(Reads)
    BY <2>1, <2>2, <2>3, Push
  <2>5. Answered' = Answered /\ Routed' = Routed
    BY <2>4 DEF Issued, Answered, Routed
  <2>6. In' = In
    <3>1. CASE read_q = <<>>
      <4>1. Len(read_q) = 0 /\ read_q' # <<>>
        <5>1. Len(read_q) = 0
          BY <3>1
        <5>2. Len(read_q') # 0
          BY <2>4
        <5> QED
          BY <2>4, <5>1, <5>2, EmptyQueue, Zenon
      <4>2. read_q'[1].sent = 0
        BY <2>1, <2>4, <4>1
      <4> QED
        BY <2>5, <3>1, <4>1, <4>2 DEF In
    <3>2. CASE read_q # <<>>
      <4>1. 1 \in 1..Len(read_q) /\ read_q' # <<>>
        BY <2>3, <2>4, <3>2, EmptyQueue
      <4>2. read_q'[1].sent = read_q[1].sent
        BY <2>4, <4>1
      <4> QED
        BY <2>5, <3>2, <4>1, <4>2 DEF In
    <3> QED
      BY <3>1, <3>2
  <2>7. \A n \in 1..Issued : n \in 1..Issued' /\ reads'[n] = reads[n]
    BY <2>4 DEF Issued
  <2>8. ASSUME state_r' = state_r, host_reg' = host_reg, state_r # "sIdle" PROVE Done' = Done
    <3>1. Routed \in 1..Issued
      BY <2>8, OutPlace
    <3>2. reads'[Routed'] = reads[Routed]
      BY <2>5, <2>7, <3>1
    <3> QED
      BY <2>8, <3>2 DEF Done
  <2>9. ASSUME state_r' = state_r, host_reg' = host_reg PROVE Out' = Out
    BY <2>5, <2>8, <2>9 DEF Out
  <2> QED
    BY <2>5, <2>6, <2>7, <2>8, <2>9
<1> QED
  BY <1>1, <1>2 DEF Pushed

LEMMA IssueSender ==
  ASSUME TypeOK, SenderOK, RouterOK, reg \in Commands, Pushed(reg)
  PROVE  SenderOK'
<1>1. Answered' = Answered /\ \A n \in 1..Issued : reads'[n] = reads[n]
  BY IssuePlaces
<1>2. CASE reg.host = 0 /\ UNCHANGED <<host_cmd_fifo, reads, read_q>>
  BY <1>1, <1>2 DEF SenderOK
<1>3. CASE reg.host > 0
  <2> DEFINE h == HostCmd(reg)
             r == [id |-> reg.id, beats |-> Beats(ReadLength(reg)), sent |-> 0]
  <2>1. /\ h \in HostCmds /\ r \in Reads /\ r.sent = 0 /\ r.id = h.id /\ r.beats = Beats(h.length)
        /\ r.sent < r.beats
    <3>1. /\ h \in HostCmds /\ r \in Reads /\ r.sent = 0 /\ r.id = h.id /\ r.beats = Beats(h.length)
          /\ h.length = reg.host
      BY ReadTypes
    <3>2. reg.host \in Nat
      BY DEF Commands
    <3>3. Beats(reg.host) > 0
      BY <1>3, <3>2, BeatsFacts, Zenon
    <3> QED
      BY <3>1, <3>3
  <2>2. reads' = Append(reads, h) /\ read_q' = Append(read_q, r)
    BY <1>3 DEF Pushed
  <2> HIDE DEF h, r
  <2>3. reads \in Seq(HostCmds) /\ read_q \in Seq(Reads)
    BY DEF TypeOK
  <2>4. /\ Len(reads) \in Nat /\ Len(read_q) \in Nat /\ reads'[Len(reads) + 1] = h
        /\ Len(read_q') = Len(read_q) + 1 /\ read_q'[Len(read_q) + 1] = r
        /\ \A i \in 1..Len(read_q) : read_q'[i] = read_q[i]
    BY <2>1, <2>2, <2>3, Push
  <2>5. Answered \in Nat /\ Len(reads) = Answered + Len(read_q)
    BY <2>4 DEF SenderOK, Answered, Issued
  <2>6. ASSUME NEW i \in 1..Len(read_q')
        PROVE  /\ read_q'[i].id = reads'[Answered + i].id
               /\ read_q'[i].beats = BeatsOf(reads', Answered + i)
               /\ read_q'[i].sent < read_q'[i].beats /\ (i > 1 => read_q'[i].sent = 0)
    <3>1. i \in 1..Len(read_q) \/ i = Len(read_q) + 1
      BY <2>4
    <3>2. CASE i \in 1..Len(read_q)
      <4>1. Answered + i \in 1..Issued
        BY <2>4, <2>5, <3>2 DEF Issued
      <4>2. reads'[Answered + i] = reads[Answered + i] /\ read_q'[i] = read_q[i]
        BY <1>1, <2>4, <3>2, <4>1
      <4>3. /\ read_q[i].id = reads[Answered + i].id
            /\ read_q[i].beats = BeatsOf(reads, Answered + i)
            /\ read_q[i].sent < read_q[i].beats /\ (i > 1 => read_q[i].sent = 0)
        BY <3>2 DEF SenderOK
      <4> QED
        BY <4>2, <4>3 DEF BeatsOf
    <3>3. CASE i = Len(read_q) + 1
      <4>1. Answered + i = Len(reads) + 1
        BY <2>4, <2>5, <3>3
      <4> QED
        BY <2>1, <2>4, <3>3, <4>1 DEF BeatsOf
    <3> QED
      BY <3>1, <3>2, <3>3
  <2> QED
    BY <1>1, <2>5, <2>6 DEF SenderOK
<1> QED
  BY <1>2, <1>3 DEF Pushed

LEMMA IssueRouter ==
  ASSUME TypeOK, SenderOK, RouterOK, reg \in Commands, Pushed(reg),
         state_r' = state_r, host_reg' = host_reg
  PROVE  RouterOK'
<1>1. /\ Routed' = Routed /\ \A n \in 1..Issued : reads'[n] = reads[n]
      /\ Done' = Done \/ state_r = "sIdle"
  BY IssuePlaces
<1>2. CASE reg.host = 0 /\ UNCHANGED <<host_cmd_fifo, reads, read_q>>
  BY <1>2, <1>1 DEF RouterOK
<1>3. CASE reg.host > 0
  <2> DEFINE h == HostCmd(reg)
  <2>1. h \in HostCmds
    BY ReadTypes
  <2>2. reads' = Append(reads, h) /\ host_cmd_fifo' = Append(host_cmd_fifo, h)
    BY <1>3 DEF Pushed
  <2> HIDE DEF h
  <2>3. reads \in Seq(HostCmds) /\ host_cmd_fifo \in Seq(HostCmds)
    BY DEF TypeOK
  <2>4. /\ Len(reads) \in Nat /\ Len(host_cmd_fifo) \in Nat /\ reads'[Len(reads) + 1] = h
        /\ Len(host_cmd_fifo') = Len(host_cmd_fifo) + 1 /\ host_cmd_fifo'[Len(host_cmd_fifo) + 1] = h
        /\ \A i \in 1..Len(host_cmd_fifo) : host_cmd_fifo'[i] = host_cmd_fifo[i]
    BY <2>1, <2>2, <2>3, Push
  <2>5. Routed \in Nat /\ Len(reads) = Routed + Len(host_cmd_fifo)
    BY <2>4 DEF RouterOK, Routed, Issued
  <2>6. ASSUME NEW i \in 1..Len(host_cmd_fifo') PROVE host_cmd_fifo'[i] = reads'[Routed + i]
    <3>1. i \in 1..Len(host_cmd_fifo) \/ i = Len(host_cmd_fifo) + 1
      BY <2>4
    <3>2. CASE i \in 1..Len(host_cmd_fifo)
      <4>1. Routed + i \in 1..Issued
        BY <2>4, <2>5, <3>2 DEF Issued
      <4>2. reads'[Routed + i] = reads[Routed + i] /\ host_cmd_fifo'[i] = host_cmd_fifo[i]
        BY <1>1, <2>4, <3>2, <4>1
      <4> QED
        BY <3>2, <4>2 DEF RouterOK
    <3>3. CASE i = Len(host_cmd_fifo) + 1
      <4>1. Routed + i = Len(reads) + 1
        BY <2>4, <2>5, <3>3
      <4> QED
        BY <2>4, <3>3, <4>1
    <3> QED
      BY <3>1, <3>2, <3>3
  <2>7. state_r # "sIdle" => reads'[Routed] = reads[Routed]
    BY <1>1, OutPlace
  <2> QED
    BY <1>1, <2>5, <2>6, <2>7 DEF RouterOK
<1> QED
  BY <1>2, <1>3 DEF Pushed

LEMMA IssueStream ==
  ASSUME IInv, NEW u \in Users, HandsOut(u), TypeOK'
  PROVE  StreamOK' /\ HostOK' /\ DeviceOK'
<1>1. /\ TypeOK /\ CmdsOK /\ ReadsOK /\ SenderOK /\ RouterOK /\ StreamOK /\ HostOK /\ DeviceOK
      /\ Pushed(reg) /\ reg \in Commands /\ state_r' = state_r /\ host_reg' = host_reg
      /\ host_data_fifo' = host_data_fifo /\ data_fifo' = data_fifo /\ host_out' = host_out
      /\ device_out' = device_out /\ cmds' = cmds
  BY DEF IInv, HandsOut
<1>2. In' = In /\ Out' = Out
  BY <1>1, IssuePlaces
<1>3. /\ reads \in Seq(HostCmds) /\ HostCmd(reg) \in HostCmds /\ host_data_fifo \in Seq(Beat)
      /\ reads' \in Seq(HostCmds)
  BY <1>1, ReadTypes DEF TypeOK
<1>4. \A v \in Users : CmdsOf(v)'
  BY <1>1, IssueCmds
<1>5. \A v \in Users : ReadsMatch(reads', cmd_out'[v], v) /\ ReadsRise(reads', v)
  BY <1>1, IssueReads
<1>6. Distinct(reads)
  <2>1. \A v \in Users : \A i \in 1..Len(cmd_out[v]) : Written(cmds, cmd_out[v][i], v)
    BY <1>1 DEF CmdsOK, CmdsOf
  <2>2. \A v \in Users : ReadsMatch(reads, cmd_out[v], v) /\ ReadsRise(reads, v)
    BY <1>1 DEF ReadsOK
  <2> QED
    BY <1>3, <2>1, <2>2, DistinctReads
<1>7. Distinct(reads')
  <2>1. \A v \in Users : \A i \in 1..Len(cmd_out'[v]) : Written(cmds', cmd_out'[v][i], v)
    BY <1>4 DEF CmdsOf
  <2> QED
    BY <1>3, <1>5, <2>1, DistinctReads
<1>8. reads' = reads \/ reads' = Append(reads, HostCmd(reg))
  BY <1>1 DEF Pushed
<1>9. StreamOK'
  <2>1. CASE reads' = reads
    BY <1>1, <1>2, <2>1 DEF StreamOK
  <2>2. CASE reads' = Append(reads, HostCmd(reg))
    <3> DEFINE x == HostCmd(reg)
               q == host_data_fifo
    <3>1. (\A i \in 1..Len(q) : IsBeat(q[i], reads)) /\ Chain(q, Key(reads), Succ(reads), Out, In)
      BY <1>1 DEF StreamOK
    <3> HIDE DEF x, q
    <3>2. x \in HostCmds /\ q \in Seq(Beat) /\ Distinct(Append(reads, x))
      BY <1>3, <1>7, <2>2 DEF x, q
    <3>3. /\ \A i \in 1..Len(q) : IsBeat(q[i], Append(reads, x))
          /\ Chain(q, Key(Append(reads, x)), Succ(Append(reads, x)), Out, In)
      BY <1>3, <1>6, <3>1, <3>2, StreamGrows
    <3>4. /\ \A i \in 1..Len(q) : IsBeat(q[i], reads')
          /\ Chain(q, Key(reads'), Succ(reads'), Out', In')
      BY <1>2, <2>2, <3>3 DEF x
    <3> QED
      BY <1>1, <3>4 DEF StreamOK, q
  <2> QED
    BY <1>8, <2>1, <2>2
<1>10. ASSUME NEW v \in Users PROVE HostLogOK(host_out[v] \o data_fifo[v], reads, v, Out)'
  <2> DEFINE log == host_out[v] \o data_fifo[v]
  <2>1. HostLogOK(log, reads, v, Out)
    BY <1>1 DEF HostOK
  <2>2. log \in Seq(Beat) /\ log' = log
    BY <1>1 DEF TypeOK
  <2> HIDE DEF log
  <2>3. CASE reads' = reads
    BY <1>2, <2>1, <2>2, <2>3 DEF log
  <2>4. CASE reads' = Append(reads, HostCmd(reg))
    <3>1. Out[1] \in Nat /\ (Out[1] <= Len(reads) \/ (Out[1] = Len(reads) + 1 /\ Out[2] = 1))
      BY <1>1, OutPlace DEF Issued
    <3>2. HostLogOK(log, Append(reads, HostCmd(reg)), v, Out)
      BY <1>3, <2>1, <2>2, <3>1, HostLogGrows
    <3> QED
      BY <1>2, <2>2, <2>4, <3>2 DEF log
  <2> QED
    BY <1>8, <2>3, <2>4
<1>11. ASSUME NEW v \in Users PROVE DeviceLogOK(device_out[v], cmd_out[v], hbm_q[v])'
  <2> DEFINE log == device_out[v]
             cs == cmd_out[v]
             q == hbm_q[v]
             r == [id |-> reg.id, beats |-> Beats(reg.device), sent |-> 0]
  <2>1. /\ log \in Seq(Beat) /\ cs \in Seq(Commands) /\ q \in Seq(Reads) /\ DeviceLogOK(log, cs, q)
        /\ device_out'[v] = log
    BY <1>1 DEF TypeOK, DeviceOK
  <2>2. reg.device \in Nat
    BY <1>1 DEF Commands
  <2>3. /\ v # u => cmd_out'[v] = cs /\ hbm_q'[v] = q
        /\ v = u => /\ cmd_out'[v] = Append(cs, reg)
                    /\ reg.device = 0 => hbm_q'[v] = q
                    /\ reg.device > 0 => hbm_q'[v] = Append(q, r)
    BY DEF HandsOut
  <2>4. v = u => \A i \in 1..Len(cs) : cs[i].id < reg.id
    BY <1>1 DEF HandsOut, CmdsOK, CmdsOf
  <2>5. reg.device > 0 /\ v = u => DeviceLogOK(log, Append(cs, reg), Append(q, r))
    <3> HIDE DEF log, cs, q
    <3> QED
      BY <1>1, <2>1, <2>4, DeviceLogIssues
  <2> HIDE DEF log, cs, q, r
  <2>6. reg.device = 0 /\ v = u => DeviceLogOK(log, Append(cs, reg), q)
    BY <1>1, <2>1, DeviceLogGrows
  <2>7. reg.device = 0 \/ reg.device > 0
    BY <2>2
  <2>8. DeviceLogOK(log, cmd_out'[v], hbm_q'[v])
    BY <2>1, <2>3, <2>5, <2>6, <2>7, Zenon
  <2> QED
    BY <2>1, <2>8
<1> QED
  BY <1>9, <1>10, <1>11 DEF HostOK, DeviceOK

LEMMA IssueStep ==
  ASSUME IInv, SerIssue \/ EngIssue PROVE IInv'
<1>1. TypeOK /\ CmdsOK /\ ReadsOK /\ SenderOK /\ RouterOK
  BY DEF IInv
<1>2. PICK u \in Users : (SerIssue /\ u = "ser") \/ (EngIssue /\ u = "eng")
  BY DEF Users
<1>3. TypeOK' /\ HandsOut(u)
  BY <1>1, <1>2, IssueEffect
<1>4. reg \in Commands /\ Pushed(reg) /\ state_r' = state_r /\ host_reg' = host_reg
  BY <1>3 DEF HandsOut
<1>5. \A v \in Users : CmdsOf(v)' /\ (ReadsMatch(reads, cmd_out[v], v) /\ ReadsRise(reads, v))'
  BY <1>1, <1>3, IssueCmds, IssueReads
<1>6. SenderOK' /\ RouterOK'
  BY <1>1, <1>4, IssueSender, IssueRouter
<1>7. StreamOK' /\ HostOK' /\ DeviceOK'
  BY <1>3, IssueStream
<1> QED
  BY <1>3, <1>5, <1>6, <1>7 DEF IInv, CmdsOK, ReadsOK

-----------------------------------------------------------------------------
(* A step of the command machine that issues nothing.                      *)
LEMMA RestSame ==
  ASSUME IInv, UNCHANGED <<host_cmd_fifo, read_vars, host_data_fifo, route_vars, data_fifo, out_vars>>
  PROVE  ReadsOK' /\ SenderOK' /\ RouterOK' /\ StreamOK' /\ HostOK' /\ DeviceOK'
<1>1. /\ host_cmd_fifo' = host_cmd_fifo /\ reads' = reads /\ read_q' = read_q /\ hbm_q' = hbm_q
      /\ host_data_fifo' = host_data_fifo /\ state_r' = state_r /\ host_reg' = host_reg
      /\ data_fifo' = data_fifo /\ cmd_out' = cmd_out /\ host_out' = host_out /\ device_out' = device_out
  BY DEF read_vars, route_vars, out_vars
<1>2. In' = In /\ Out' = Out /\ Answered' = Answered /\ Routed' = Routed /\ Done' = Done
  BY <1>1 DEF In, Out, Answered, Routed, Done, Issued
<1> QED
  BY <1>1, <1>2 DEF IInv, ReadsOK, SenderOK, RouterOK, StreamOK, HostOK, DeviceOK

LEMMA CmdInStep ==
  ASSUME IInv, NEW c \in NewCmds, CmdIn(c) PROVE IInv'
<1> DEFINE u == User(c)
<1>1. TypeOK /\ CmdsOK
  BY DEF IInv
<1>2. /\ c \in Commands /\ c.id = Len(cmds) + 1 /\ u \in Users
      /\ u = "ser" => c.host > 0
      /\ u = "eng" => c.host = 0 \/ c.device = 0
  BY <1>1, NewCommand
<1>3. /\ cmds' = Append(cmds, c) /\ cmd_fifo' = [cmd_fifo EXCEPT ![u] = Append(cmd_fifo[u], c)]
      /\ state' = state /\ reg' = reg /\ cmd_out' = cmd_out
      /\ UNCHANGED <<host_cmd_fifo, read_vars, host_data_fifo, route_vars, data_fifo, out_vars>>
  BY DEF CmdIn, out_vars
<1>4. User(c) = u
  OBVIOUS
<1> HIDE DEF u
<1>5. /\ cmds \in Seq(Commands) /\ cmd_fifo \in [Users -> Seq(Commands)]
      /\ cmd_fifo[u] \in Seq(Commands) /\ cmd_out \in [Users -> Seq(Commands)] /\ reg \in Commands
  BY <1>1, <1>2 DEF TypeOK
<1>6. /\ cmds' \in Seq(Commands) /\ Len(cmds) \in Nat /\ Len(cmds') = Len(cmds) + 1
      /\ cmds'[Len(cmds) + 1] = c /\ \A i \in 1..Len(cmds) : cmds'[i] = cmds[i] /\ i \in 1..Len(cmds')
  BY <1>2, <1>3, <1>5, Push
<1>7. Append(cmd_fifo[u], c) \in Seq(Commands)
  BY <1>2, <1>5, Push
<1>8. /\ cmd_fifo' \in [Users -> Seq(Commands)] /\ cmd_fifo'[u] = Append(cmd_fifo[u], c)
      /\ \A v \in Users : v # u => cmd_fifo'[v] = cmd_fifo[v]
  BY <1>2, <1>3, <1>5, <1>7, Change
<1>9. TypeOK'
  BY <1>1, <1>3, <1>6, <1>8 DEF TypeOK, read_vars, route_vars, out_vars
<1>10. ASSUME NEW d, NEW v, Written(cmds, d, v)
       PROVE  Written(cmds', d, v) /\ d.id < c.id
  BY <1>2, <1>6, <1>10 DEF Written
<1>11. Written(cmds', c, u)
  <2>1. c.id \in 1..Len(cmds') /\ cmds'[c.id] = c
    BY <1>2, <1>6
  <2> QED
    BY <1>2, <1>4, <2>1 DEF Written
<1>12. ASSUME NEW v \in Users PROVE CmdsOf(v)'
  <2>1. CmdsOf(v)
    BY <1>1 DEF CmdsOK
  <2>2. CASE v # u
    <3>1. cmd_fifo'[v] = cmd_fifo[v]
      BY <1>8, <2>2
    <3> QED
      BY <1>3, <1>10, <2>1, <3>1 DEF CmdsOf
  <2>3. CASE v = u
    <3> DEFINE f == cmd_fifo[u]
               g == cmd_fifo'[u]
    <3>1. /\ Len(f) \in Nat /\ Len(g) = Len(f) + 1 /\ g[Len(f) + 1] = c
          /\ \A i \in 1..Len(f) : g[i] = f[i]
      BY <1>2, <1>5, <1>8, Push
    <3>2. /\ \A i \in 1..Len(f) : Written(cmds, f[i], u)
          /\ Rises(f)
          /\ state = StateOf(u) => Written(cmds, reg, u) /\ \A i \in 1..Len(f) : reg.id < f[i].id
          /\ \A i \in 1..Len(cmd_out[u]) :
               /\ Written(cmds, cmd_out[u][i], u)
               /\ state = StateOf(u) => cmd_out[u][i].id < reg.id
               /\ \A j \in 1..Len(f) : cmd_out[u][i].id < f[j].id
          /\ Rises(cmd_out[u])
      BY <2>1, <2>3 DEF CmdsOf
    <3> HIDE DEF f, g
    <3>3. \A i \in 1..Len(g) : i \in 1..Len(f) \/ i = Len(f) + 1
      BY <3>1
    <3>4. \A i \in 1..Len(g) : Written(cmds', g[i], u)
      BY <1>10, <1>11, <3>1, <3>2, <3>3, Zenon
    <3>5. Rises(g)
      <4> SUFFICES ASSUME NEW i \in 1..Len(g), NEW j \in 1..Len(g), i < j PROVE g[i].id < g[j].id
        BY DEF Rises
      <4>1. i \in 1..Len(f) /\ (j \in 1..Len(f) \/ j = Len(f) + 1)
        BY <3>1
      <4> QED
        BY <1>10, <3>1, <3>2, <4>1 DEF Rises
    <3>6. state' = StateOf(u) => Written(cmds', reg', u) /\ \A i \in 1..Len(g) : reg'.id < g[i].id
      BY <1>3, <1>10, <3>1, <3>2, <3>3, Zenon
    <3>7. \A i \in 1..Len(cmd_out'[u]) :
               /\ Written(cmds', cmd_out'[u][i], u)
               /\ state' = StateOf(u) => cmd_out'[u][i].id < reg'.id
               /\ \A j \in 1..Len(g) : cmd_out'[u][i].id < g[j].id
      BY <1>3, <1>10, <3>1, <3>2, <3>3, Zenon
    <3>8. Rises(cmd_out'[u])
      BY <1>3, <3>2
    <3> QED
      BY <2>3, <3>4, <3>5, <3>6, <3>7, <3>8 DEF CmdsOf, g
  <2> QED
    BY <2>2, <2>3
<1> QED
  BY <1>3, <1>9, <1>12, RestSame DEF IInv, CmdsOK

LEMMA IdleStep ==
  ASSUME IInv, NEW u \in Users, Idle(u) PROVE IInv'
<1>1. TypeOK /\ CmdsOK
  BY DEF IInv
<1>2. /\ state = "sIdle" /\ cmd_fifo[u] # <<>> /\ reg' = Head(cmd_fifo[u])
      /\ cmd_fifo' = [cmd_fifo EXCEPT ![u] = Tail(cmd_fifo[u])]
      /\ state' = StateOf(u) /\ cmds' = cmds /\ cmd_out' = cmd_out
      /\ UNCHANGED <<host_cmd_fifo, read_vars, host_data_fifo, route_vars, data_fifo, out_vars>>
  BY DEF Idle, StateOf, out_vars
<1>3. cmd_fifo \in [Users -> Seq(Commands)] /\ cmd_fifo[u] \in Seq(Commands)
  BY <1>1 DEF TypeOK
<1> DEFINE f == cmd_fifo[u]
           g == cmd_fifo'[u]
<1>4. /\ Tail(f) \in Seq(Commands) /\ Len(f) \in Nat /\ Len(f) > 0 /\ Len(Tail(f)) = Len(f) - 1
      /\ reg' \in Commands /\ reg' = f[1] /\ \A i \in 1..Len(Tail(f)) : Tail(f)[i] = f[i + 1]
  BY <1>2, <1>3, Pop
<1>5. /\ cmd_fifo' \in [Users -> Seq(Commands)] /\ g = Tail(f)
      /\ \A v \in Users : v # u => cmd_fifo'[v] = cmd_fifo[v]
  BY <1>2, <1>3, <1>4, Change
<1>6. state' \in States
  BY <1>2 DEF StateOf, States
<1>7. TypeOK'
  BY <1>1, <1>2, <1>4, <1>5, <1>6 DEF TypeOK, read_vars, route_vars, out_vars
<1>8. ASSUME NEW v \in Users PROVE CmdsOf(v)'
  <2>1. CmdsOf(v)
    BY <1>1 DEF CmdsOK
  <2>2. CASE v # u
    <3>1. cmd_fifo'[v] = cmd_fifo[v] /\ state' # StateOf(v)
      BY <1>2, <1>5, <2>2 DEF StateOf, Users
    <3> QED
      BY <1>2, <2>1, <3>1 DEF CmdsOf
  <2>3. CASE v = u
    <3>1. /\ \A i \in 1..Len(f) : Written(cmds, f[i], u)
          /\ Rises(f)
          /\ \A i \in 1..Len(cmd_out[u]) :
               /\ Written(cmds, cmd_out[u][i], u)
               /\ \A j \in 1..Len(f) : cmd_out[u][i].id < f[j].id
          /\ Rises(cmd_out[u])
      BY <2>1, <2>3 DEF CmdsOf
    <3> HIDE DEF f, g
    <3>2. /\ 1 \in 1..Len(f)
          /\ \A i \in 1..Len(g) : i + 1 \in 1..Len(f) /\ i + 1 > 1 /\ g[i] = f[i + 1]
      BY <1>4, <1>5
    <3>3. \A i \in 1..Len(g) : Written(cmds, g[i], u) /\ reg'.id < g[i].id
      <4>1. ASSUME NEW i \in 1..Len(g) PROVE Written(cmds, g[i], u) /\ reg'.id < g[i].id
        BY <1>4, <3>1, <3>2 DEF Rises
      <4> QED
        BY <4>1
    <3>4. Rises(g)
      <4> SUFFICES ASSUME NEW i \in 1..Len(g), NEW j \in 1..Len(g), i < j PROVE g[i].id < g[j].id
        BY DEF Rises
      <4>1. i + 1 < j + 1
        OBVIOUS
      <4> QED
        BY <3>1, <3>2, <4>1 DEF Rises
    <3>5. Written(cmds, reg', u)
      BY <1>4, <3>1, <3>2
    <3>6. \A i \in 1..Len(cmd_out[u]) :
            /\ Written(cmds, cmd_out[u][i], u) /\ cmd_out[u][i].id < reg'.id
            /\ \A j \in 1..Len(g) : cmd_out[u][i].id < g[j].id
      BY <1>4, <3>1, <3>2
    <3> QED
      BY <1>2, <2>3, <3>1, <3>3, <3>4, <3>5, <3>6 DEF CmdsOf, g
  <2> QED
    BY <2>2, <2>3
<1> QED
  BY <1>2, <1>7, <1>8, RestSame DEF IInv, CmdsOK

-----------------------------------------------------------------------------
LEMMA NoTwoReads ==
  ASSUME IInv PROVE reads \in Seq(HostCmds) /\ Distinct(reads)
<1>1. \A v \in Users : \A i \in 1..Len(cmd_out[v]) : Written(cmds, cmd_out[v][i], v)
  BY DEF IInv, CmdsOK, CmdsOf
<1>2. \A v \in Users : ReadsMatch(reads, cmd_out[v], v) /\ ReadsRise(reads, v)
  BY DEF IInv, ReadsOK
<1>3. reads \in Seq(HostCmds)
  BY DEF IInv, TypeOK
<1> QED
  BY <1>1, <1>2, <1>3, DistinctReads

(* The beat that memory sends is the one at place In.                      *)
LEMMA NextIn ==
  ASSUME TypeOK, SenderOK, read_q # <<>>
  PROVE  LET n == Answered + 1 IN
         /\ n \in 1..Len(reads) /\ n \in Nat /\ Len(read_q) \in Nat /\ Len(read_q) > 0
         /\ read_q[1].sent + 1 \in 1..BeatsOf(reads, n) /\ read_q[1].beats = BeatsOf(reads, n)
         /\ read_q[1].sent \in Nat /\ read_q[1].beats \in Nat
         /\ In = <<n, read_q[1].sent + 1>>
         /\ NextBeat(read_q) = <<reads[n].id, read_q[1].sent + 1>>
<1>1. read_q \in Seq(Reads) /\ reads \in Seq(HostCmds)
  BY DEF TypeOK
<1>2. Len(read_q) \in Nat /\ Len(read_q) > 0 /\ Head(read_q) = read_q[1] /\ Len(reads) \in Nat
  BY <1>1
<1>3. read_q[1].sent \in Nat /\ read_q[1].beats \in Nat
  BY <1>1, <1>2, QueueFacts
<1>4. 1 \in 1..Len(read_q)
  BY <1>2
<1>5. /\ read_q[1].id = reads[Answered + 1].id /\ read_q[1].beats = BeatsOf(reads, Answered + 1)
      /\ read_q[1].sent < read_q[1].beats
  BY <1>4 DEF SenderOK
<1>6. Answered \in Nat /\ Len(reads) = Answered + Len(read_q)
  BY <1>2 DEF SenderOK, Answered, Issued
<1>7. Answered + 1 \in 1..Len(reads) /\ Answered + 1 \in Nat
  BY <1>2, <1>6
<1>8. read_q[1].sent + 1 \in 1..BeatsOf(reads, Answered + 1)
  BY <1>3, <1>5
<1>9. In = <<Answered + 1, read_q[1].sent + 1>>
  BY DEF In
<1>10. NextBeat(read_q) = <<reads[Answered + 1].id, read_q[1].sent + 1>>
  BY <1>2, <1>5 DEF NextBeat
<1> QED
  BY <1>2, <1>3, <1>5, <1>7, <1>8, <1>9, <1>10

LEMMA HostBeatSender ==
  ASSUME TypeOK, SenderOK, HostBeat
  PROVE  read_q' \in Seq(Reads) /\ SenderOK' /\ In' = Succ(reads)[In]
<1> DEFINE q == read_q
           r == read_q'
           n == Answered + 1
           k == q[1].sent + 1
           B == BeatsOf(reads, n)
<1>1. q # <<>> /\ r = Advance(q) /\ reads' = reads
  BY DEF HostBeat
<1>2. q \in Seq(Reads) /\ reads \in Seq(HostCmds)
  BY DEF TypeOK
<1>3. /\ n \in 1..Len(reads) /\ n \in Nat /\ Len(q) \in Nat /\ Len(q) > 0 /\ k \in 1..B /\ q[1].beats = B
      /\ q[1].sent \in Nat /\ B \in Nat /\ In = <<n, k>>
  BY <1>1, NextIn
<1>4. /\ r \in Seq(Reads)
      /\ q[1].sent + 1 >= q[1].beats => Len(r) = Len(q) - 1 /\ \A i \in 1..(Len(q) - 1) : r[i] = q[i + 1]
      /\ ~(q[1].sent + 1 >= q[1].beats) =>
           /\ Len(r) = Len(q) /\ \A i \in 2..Len(q) : r[i] = q[i]
           /\ r[1].id = q[1].id /\ r[1].beats = q[1].beats /\ r[1].sent = q[1].sent + 1
  BY <1>1, <1>2, AdvanceFacts
<1>5. Follows(Succ(reads)[In], n, k, B)
  BY <1>2, <1>3, SuccAt
<1>6. /\ Answered \in Nat /\ Len(reads) = Answered + Len(q) /\ Answered' = Len(reads) - Len(r)
      /\ \A i \in 1..Len(q) :
           /\ q[i].id = reads[Answered + i].id /\ q[i].beats = BeatsOf(reads, Answered + i)
           /\ q[i].sent < q[i].beats /\ (i > 1 => q[i].sent = 0)
  BY <1>1, <1>2, <1>3 DEF SenderOK, Answered, Issued
<1>7. CASE k = B
  <2>1. Len(r) = Len(q) - 1 /\ \A i \in 1..(Len(q) - 1) : r[i] = q[i + 1]
    BY <1>3, <1>4, <1>7
  <2>2. Answered' = n
    BY <1>3, <1>6, <2>1
  <2>3. ASSUME NEW i \in 1..Len(r)
        PROVE  /\ r[i].id = reads[n + i].id /\ r[i].beats = BeatsOf(reads, n + i)
               /\ r[i].sent < r[i].beats /\ r[i].sent = 0
    <3>1. i \in 1..(Len(q) - 1) /\ i \in Nat
      BY <2>1
    <3>2. r[i] = q[i + 1]
      BY <2>1, <3>1
    <3>3. i + 1 \in 1..Len(q) /\ i + 1 > 1
      BY <1>3, <3>1
    <3>4. Answered + (i + 1) = n + i
      BY <1>6, <3>1
    <3> QED
      BY <1>6, <3>2, <3>3, <3>4
  <2>4. SenderOK'
    BY <1>1, <1>3, <2>2, <2>3 DEF SenderOK
  <2>5. In' = <<n + 1, 1>>
    <3>1. r # <<>> => r[1].sent = 0
      <4>1. r # <<>> => 1 \in 1..Len(r)
        BY <1>4
      <4> QED
        BY <2>3, <4>1
    <3>2. In' = <<n + 1, IF r = <<>> THEN 1 ELSE r[1].sent + 1>>
      BY <2>2 DEF In
    <3>3. CASE r = <<>>
      BY <3>2, <3>3
    <3>4. CASE r # <<>>
      BY <3>1, <3>2, <3>4
    <3> QED
      BY <3>3, <3>4
  <2>6. Succ(reads)[In] = <<n + 1, 1>>
    BY <1>5, <1>7 DEF Follows
  <2> QED
    BY <1>4, <2>4, <2>5, <2>6
<1>8. CASE k # B
  <2>1. /\ Len(r) = Len(q) /\ \A i \in 2..Len(q) : r[i] = q[i]
        /\ r[1].id = q[1].id /\ r[1].beats = q[1].beats /\ r[1].sent = k
    <3>1. ~(q[1].sent + 1 >= q[1].beats)
      BY <1>3, <1>8
    <3> QED
      BY <1>4, <3>1
  <2>2. Answered' = Answered /\ k < B
    BY <1>3, <1>6, <1>8, <2>1
  <2>3. ASSUME NEW i \in 1..Len(r)
        PROVE  /\ r[i].id = reads[Answered + i].id /\ r[i].beats = BeatsOf(reads, Answered + i)
               /\ r[i].sent < r[i].beats /\ (i > 1 => r[i].sent = 0)
    <3>1. i \in 1..Len(q) /\ (i = 1 \/ (i \in 2..Len(q) /\ i > 1))
      BY <1>3, <2>1
    <3>2. CASE i = 1
      BY <1>3, <1>6, <2>1, <2>2, <3>1, <3>2
    <3>3. CASE i \in 2..Len(q)
      BY <1>6, <2>1, <3>1, <3>3
    <3> QED
      BY <3>1, <3>2, <3>3
  <2>4. SenderOK'
    BY <1>1, <1>6, <2>2, <2>3 DEF SenderOK
  <2>5. In' = <<n, k + 1>>
    <3>1. r # <<>>
      BY <1>3, <1>4, <2>1
    <3> QED
      BY <2>1, <2>2, <3>1 DEF In
  <2>6. Succ(reads)[In] = <<n, k + 1>>
    BY <1>5, <1>8 DEF Follows
  <2> QED
    BY <1>4, <2>4, <2>5, <2>6
<1> QED
  BY <1>7, <1>8

LEMMA HostBeatStep ==
  ASSUME IInv, HostBeat PROVE IInv'
<1>1. TypeOK /\ SenderOK /\ RouterOK /\ StreamOK
  BY DEF IInv
<1>2. /\ read_q # <<>> /\ host_data_fifo' = Append(host_data_fifo, NextBeat(read_q))
      /\ cmds' = cmds /\ cmd_fifo' = cmd_fifo /\ state' = state /\ reg' = reg
      /\ host_cmd_fifo' = host_cmd_fifo /\ reads' = reads /\ hbm_q' = hbm_q
      /\ state_r' = state_r /\ host_reg' = host_reg /\ data_fifo' = data_fifo
      /\ cmd_out' = cmd_out /\ host_out' = host_out /\ device_out' = device_out
  BY DEF HostBeat, cmd_vars, route_vars, out_vars
<1>3. read_q' \in Seq(Reads) /\ SenderOK' /\ In' = Succ(reads)[In]
  BY <1>1, HostBeatSender
<1> DEFINE n == Answered + 1
           k == read_q[1].sent + 1
           x == NextBeat(read_q)
           q == host_data_fifo
<1>4. n \in 1..Len(reads) /\ k \in 1..BeatsOf(reads, n) /\ k \in Nat /\ In = <<n, k>> /\ x = <<reads[n].id, k>>
  BY <1>1, <1>2, NextIn
<1>5. Key(reads)[x] = In /\ x \in Beat
  BY <1>4, NoTwoReads, KeyAt
<1>6. q \in Seq(Beat)
  BY <1>1 DEF TypeOK
<1>7. q' \in Seq(Beat) /\ Len(q) \in Nat /\ Len(q') = Len(q) + 1 /\ q'[Len(q) + 1] = x
      /\ \A i \in 1..Len(q) : q'[i] = q[i]
  BY <1>2, <1>5, <1>6, Push
<1>8. TypeOK'
  BY <1>1, <1>2, <1>3, <1>7 DEF TypeOK
<1>9. Routed' = Routed /\ Done' = Done /\ Out' = Out
  BY <1>2 DEF Routed, Done, Out, Issued
<1>10. IsBeat(x, reads)
  BY <1>4 DEF IsBeat
<1>11. Chain(q', Key(reads), Succ(reads), Out, In')
  <2>1. Chain(q, Key(reads), Succ(reads), Out, In)
    BY <1>1 DEF StreamOK
  <2> HIDE DEF q, x
  <2>2. Chain(Append(q, x), Key(reads), Succ(reads), Out, Succ(reads)[In])
    BY <1>5, <1>6, <2>1, ChainPush
  <2> QED
    BY <1>2, <1>3, <2>2 DEF q, x
<1>12. StreamOK'
  <2>1. \A i \in 1..Len(q') : i \in 1..Len(q) \/ i = Len(q) + 1
    BY <1>7
  <2>2. \A i \in 1..Len(q) : IsBeat(q[i], reads)
    BY <1>1 DEF StreamOK
  <2> HIDE DEF q, x
  <2>3. \A i \in 1..Len(q') : IsBeat(q'[i], reads)
    BY <1>7, <1>10, <2>1, <2>2, Zenon
  <2> QED
    BY <1>2, <1>9, <1>11, <2>3 DEF StreamOK, q
<1>13. CmdsOK' /\ ReadsOK' /\ RouterOK' /\ HostOK' /\ DeviceOK'
  BY <1>2, <1>9 DEF IInv, CmdsOK, CmdsOf, ReadsOK, RouterOK, HostOK, DeviceOK
<1> QED
  BY <1>3, <1>8, <1>12, <1>13 DEF IInv

LEMMA DeviceBeatStep ==
  ASSUME IInv, NEW u \in Users, DeviceBeat(u) PROVE IInv'
<1>1. TypeOK /\ CmdsOK /\ DeviceOK
  BY DEF IInv
<1>2. /\ hbm_q[u] # <<>> /\ hbm_q' = [hbm_q EXCEPT ![u] = Advance(hbm_q[u])]
      /\ device_out' = [device_out EXCEPT ![u] = Append(device_out[u], NextBeat(hbm_q[u]))]
      /\ cmds' = cmds /\ cmd_fifo' = cmd_fifo /\ state' = state /\ reg' = reg
      /\ host_cmd_fifo' = host_cmd_fifo /\ reads' = reads /\ read_q' = read_q
      /\ host_data_fifo' = host_data_fifo
      /\ state_r' = state_r /\ host_reg' = host_reg /\ data_fifo' = data_fifo
      /\ cmd_out' = cmd_out /\ host_out' = host_out
  BY DEF DeviceBeat, cmd_vars, route_vars
<1> DEFINE q == hbm_q[u]
           r == Advance(q)
           x == NextBeat(q)
           log == device_out[u]
<1>3. /\ hbm_q \in [Users -> Seq(Reads)] /\ device_out \in [Users -> Seq(Beat)]
      /\ q \in Seq(Reads) /\ log \in Seq(Beat) /\ cmd_out[u] \in Seq(Commands) /\ q # <<>>
  BY <1>1, <1>2 DEF TypeOK
<1> HIDE DEF q, log
<1>4. r \in Seq(Reads) /\ Head(q) = q[1] /\ Len(q) > 0 /\ Len(q) \in Nat
  BY <1>3, AdvanceFacts
<1>5. x \in Beat
  <2>1. q[1].id \in Nat /\ q[1].sent + 1 \in Nat
    BY <1>3, <1>4, QueueFacts
  <2> QED
    BY <1>4, <2>1 DEF NextBeat, Beat
<1> HIDE DEF r, x
<1>6. Append(log, x) \in Seq(Beat)
  BY <1>3, <1>5
<1>7. /\ hbm_q' \in [Users -> Seq(Reads)] /\ hbm_q'[u] = r
      /\ \A v \in Users : v # u => hbm_q'[v] = hbm_q[v]
  <2>1. hbm_q' = [hbm_q EXCEPT ![u] = r]
    BY <1>2 DEF r, q
  <2> QED
    BY <1>3, <1>4, <2>1, Change
<1>8. /\ device_out' \in [Users -> Seq(Beat)] /\ device_out'[u] = Append(log, x)
      /\ \A v \in Users : v # u => device_out'[v] = device_out[v]
  <2>1. device_out' = [device_out EXCEPT ![u] = Append(log, x)]
    BY <1>2 DEF x, q, log
  <2> QED
    BY <1>3, <1>6, <2>1, Change
<1>9. TypeOK'
  BY <1>1, <1>2, <1>7, <1>8 DEF TypeOK
<1>10. DeviceLogOK(Append(log, x), cmd_out[u], r)
  <2>1. Rises(cmd_out[u]) /\ DeviceLogOK(log, cmd_out[u], q)
    BY <1>1 DEF CmdsOK, CmdsOf, DeviceOK, log, q
  <2> QED
    BY <1>3, <2>1, DeviceLogTakes DEF x, r
<1>11. DeviceOK'
  <2> SUFFICES ASSUME NEW v \in Users PROVE DeviceLogOK(device_out'[v], cmd_out'[v], hbm_q'[v])
    BY DEF DeviceOK
  <2>1. CASE v = u
    BY <1>2, <1>7, <1>8, <1>10, <2>1
  <2>2. CASE v # u
    BY <1>1, <1>2, <1>7, <1>8, <2>2 DEF DeviceOK
  <2> QED
    BY <2>1, <2>2
<1>12. In' = In /\ Out' = Out /\ Answered' = Answered /\ Routed' = Routed /\ Done' = Done
  BY <1>2 DEF In, Out, Answered, Routed, Done, Issued
<1>13. CmdsOK' /\ ReadsOK' /\ SenderOK' /\ RouterOK' /\ StreamOK' /\ HostOK'
  BY <1>2, <1>12 DEF IInv, CmdsOK, CmdsOf, ReadsOK, SenderOK, RouterOK, StreamOK, HostOK
<1> QED
  BY <1>9, <1>11, <1>13 DEF IInv

-----------------------------------------------------------------------------
LEMMA HostOutStep ==
  ASSUME IInv, NEW u \in Users, HostOut(u) PROVE IInv'
<1>1. TypeOK /\ HostOK
  BY DEF IInv
<1>2. /\ data_fifo[u] # <<>> /\ data_fifo' = [data_fifo EXCEPT ![u] = Tail(data_fifo[u])]
      /\ host_out' = [host_out EXCEPT ![u] = Append(host_out[u], Head(data_fifo[u]))]
      /\ cmds' = cmds /\ cmd_fifo' = cmd_fifo /\ state' = state /\ reg' = reg
      /\ host_cmd_fifo' = host_cmd_fifo /\ reads' = reads /\ read_q' = read_q /\ hbm_q' = hbm_q
      /\ host_data_fifo' = host_data_fifo
      /\ state_r' = state_r /\ host_reg' = host_reg
      /\ cmd_out' = cmd_out /\ device_out' = device_out
  BY DEF HostOut, cmd_vars, route_vars, read_vars
<1> DEFINE q == data_fifo[u]
           log == host_out[u]
<1>3. /\ data_fifo \in [Users -> Seq(Beat)] /\ host_out \in [Users -> Seq(Beat)]
      /\ q \in Seq(Beat) /\ log \in Seq(Beat) /\ q # <<>>
  BY <1>1, <1>2 DEF TypeOK
<1>4. Tail(q) \in Seq(Beat) /\ Head(q) \in Beat
  BY <1>3, Pop
<1>5. Append(log, Head(q)) \in Seq(Beat)
  BY <1>3, <1>4
<1>6. /\ data_fifo' \in [Users -> Seq(Beat)] /\ data_fifo'[u] = Tail(q)
      /\ \A v \in Users : v # u => data_fifo'[v] = data_fifo[v]
  BY <1>2, <1>3, <1>4, Change
<1>7. /\ host_out' \in [Users -> Seq(Beat)] /\ host_out'[u] = Append(log, Head(q))
      /\ \A v \in Users : v # u => host_out'[v] = host_out[v]
  BY <1>2, <1>3, <1>5, Change
<1>8. TypeOK'
  BY <1>1, <1>2, <1>6, <1>7 DEF TypeOK
<1>9. In' = In /\ Out' = Out /\ Answered' = Answered /\ Routed' = Routed /\ Done' = Done
  BY <1>2 DEF In, Out, Answered, Routed, Done, Issued
<1>10. ASSUME NEW v \in Users PROVE host_out'[v] \o data_fifo'[v] = host_out[v] \o data_fifo[v]
  <2>1. CASE v = u
    <3> HIDE DEF q, log
    <3>1. Append(log, Head(q)) \o Tail(q) = log \o q
      BY <1>3, LogMoves
    <3> QED
      BY <1>6, <1>7, <2>1, <3>1 DEF q, log
  <2>2. CASE v # u
    BY <1>6, <1>7, <2>2
  <2> QED
    BY <2>1, <2>2
<1>11. HostOK'
  BY <1>1, <1>2, <1>9, <1>10 DEF HostOK
<1>12. CmdsOK' /\ ReadsOK' /\ SenderOK' /\ RouterOK' /\ StreamOK' /\ DeviceOK'
  BY <1>2, <1>9 DEF IInv, CmdsOK, CmdsOf, ReadsOK, SenderOK, RouterOK, StreamOK, DeviceOK
<1> QED
  BY <1>8, <1>11, <1>12 DEF IInv

(* The router takes the next read: it stays at the same place.             *)
LEMMA RouteIdleStep ==
  ASSUME IInv, RouteIdle PROVE IInv'
<1>1. TypeOK /\ ReadsOK /\ RouterOK
  BY DEF IInv
<1>2. /\ state_r = "sIdle" /\ host_cmd_fifo # <<>> /\ host_reg' = Head(host_cmd_fifo)
      /\ host_cmd_fifo' = Tail(host_cmd_fifo)
      /\ state_r' = IF Head(host_cmd_fifo).eng THEN "sEng" ELSE "sSer"
      /\ cmds' = cmds /\ cmd_fifo' = cmd_fifo /\ state' = state /\ reg' = reg
      /\ reads' = reads /\ read_q' = read_q /\ hbm_q' = hbm_q
      /\ host_data_fifo' = host_data_fifo /\ data_fifo' = data_fifo
      /\ cmd_out' = cmd_out /\ host_out' = host_out /\ device_out' = device_out
  BY DEF RouteIdle, cmd_vars, read_vars, out_vars
<1> DEFINE f == host_cmd_fifo
           n == Routed + 1
<1>3. f \in Seq(HostCmds) /\ reads \in Seq(HostCmds) /\ Len(reads) \in Nat
  BY <1>1 DEF TypeOK
<1>4. /\ f' \in Seq(HostCmds) /\ Len(f) \in Nat /\ Len(f) > 0 /\ Len(f') = Len(f) - 1
      /\ host_reg' \in HostCmds /\ host_reg' = f[1]
      /\ \A i \in 1..Len(f') : f'[i] = f[i + 1]
  BY <1>2, <1>3, Pop
<1>5. /\ Routed \in Nat /\ Len(reads) = Routed + Len(f) /\ n \in 1..Len(reads) /\ Routed' = n
  <2>1. Routed \in Nat /\ Routed = Len(reads) - Len(f) /\ Routed' = Len(reads) - Len(f')
    BY <1>1, <1>2 DEF RouterOK, Routed, Issued
  <2> HIDE DEF f
  <2> QED
    BY <1>3, <1>4, <2>1
<1>6. \A i \in 1..Len(f) : f[i] = reads[Routed + i]
  BY <1>1 DEF RouterOK
<1>7. host_reg' = reads[n]
  BY <1>4, <1>6
<1>8. state_r' = StateOf(User(reads[n])) /\ state_r' # "sIdle" /\ state_r' \in States
  BY <1>2, <1>4, <1>7 DEF StateOf, User, States
<1>9. reads[n].length > 0 /\ reads[n].length \in Nat
  <2>1. User(reads[n]) \in Users
    BY DEF User, Users
  <2> QED
    BY <1>1, <1>3, <1>5, <2>1, ReadFacts DEF ReadsOK, ReadsMatch
<1>10. Done' = 0
  <2>1. Done' = (reads[n].length - reads[n].length) \div 64
    BY <1>2, <1>5, <1>7 DEF Done
  <2> QED
    BY <1>9, <2>1
<1>11. TypeOK'
  BY <1>1, <1>2, <1>4, <1>8 DEF TypeOK
<1>12. ASSUME NEW i \in 1..Len(f') PROVE f'[i] = reads[n + i]
  <2> HIDE DEF f
  <2>1. i + 1 \in 1..Len(f) /\ f'[i] = f[i + 1] /\ Routed + (i + 1) = n + i
    BY <1>4, <1>5
  <2> QED
    BY <1>6, <2>1
<1>13. RouterOK'
  <2>1. n > 0 /\ n \in Nat /\ reads[n].length = reads[n].length + 64 * 0
    BY <1>5, <1>9
  <2> QED
    BY <1>2, <1>5, <1>7, <1>8, <1>9, <1>10, <1>12, <2>1 DEF RouterOK
<1>14. Out' = Out
  <2>1. Out' = <<n, 1>>
    BY <1>5, <1>8, <1>10 DEF Out
  <2> QED
    BY <1>2, <2>1 DEF Out
<1>15. In' = In /\ Answered' = Answered
  BY <1>2 DEF In, Answered, Issued
<1>16. CmdsOK' /\ ReadsOK' /\ SenderOK' /\ StreamOK' /\ HostOK' /\ DeviceOK'
  BY <1>2, <1>14, <1>15 DEF IInv, CmdsOK, CmdsOf, ReadsOK, SenderOK, StreamOK, HostOK, DeviceOK
<1> QED
  BY <1>11, <1>13, <1>16 DEF IInv

(* The router passes a beat on: it moves one place.  It is done with the   *)
(* read when the length it has left fits in one beat.                      *)
LEMMA RoutePlace ==
  ASSUME IInv, Route
  PROVE  /\ Routed \in 1..Len(reads) /\ Done + 1 \in 1..BeatsOf(reads, Routed) /\ Done \in Nat
         /\ Out = <<Routed, Done + 1>> /\ Out' = Succ(reads)[Out]
         /\ RouterOK' /\ host_reg' \in HostCmds /\ state_r' \in States
         /\ state_r = StateOf(User(reads[Routed]))
<1>1. TypeOK /\ RouterOK
  BY DEF IInv
<1> DEFINE n == Routed
           d == Done
           l == host_reg.length
           B == BeatsOf(reads, n)
<1>2. /\ state_r # "sIdle" /\ host_cmd_fifo' = host_cmd_fifo /\ reads' = reads
      /\ MoreBeats(l) => host_reg' = [host_reg EXCEPT !.length = l - 64] /\ state_r' = state_r
      /\ ~MoreBeats(l) => host_reg' = host_reg /\ state_r' = "sIdle"
  BY DEF Route, read_vars
<1>3. /\ n > 0 /\ l > 0 /\ d \in Nat /\ reads[n].length = l + 64 * d
      /\ state_r = StateOf(User(reads[n])) /\ n \in Nat
      /\ \A i \in 1..Len(host_cmd_fifo) : host_cmd_fifo[i] = reads[n + i]
  BY <1>1, <1>2 DEF RouterOK
<1>4. host_reg \in HostCmds /\ l \in Nat /\ reads \in Seq(HostCmds) /\ state_r \in States
  BY <1>1 DEF TypeOK, HostCmds
<1>5. n \in 1..Len(reads) /\ Out = <<n, d + 1>>
  BY <1>1, <1>2, OutPlace DEF Out, Issued
<1>6. B = Beats(l) + d /\ Beats(l) \in Nat /\ Beats(l) > 0
  <2> HIDE DEF n, d, l
  <2>0. \A y, z \in Nat : Beats(y + 64 * z) = Beats(y) + z
    BY BeatsFacts, Zenon
  <2>1. Beats(l + 64 * d) = Beats(l) + d
    BY <1>3, <1>4, <2>0, Zenon
  <2>2. Beats(l) \in Nat /\ Beats(l) > 0
    BY <1>3, <1>4, BeatsFacts, Zenon
  <2> QED
    BY <1>3, <2>1, <2>2 DEF BeatsOf
<1>7. Routed' = n
  BY <1>2 DEF Routed, Issued
<1> HIDE DEF B
<1>8. d + 1 \in 1..B /\ B \in Nat
  <2> HIDE DEF d
  <2> QED
    BY <1>3, <1>6
<1>9. Follows(Succ(reads)[<<n, d + 1>>], n, d + 1, B)
  BY <1>3, <1>4, SuccAt DEF B
<1>10. CASE MoreBeats(l)
  <2>1. l > 64 /\ l - 64 \in Nat /\ l - 64 > 0
    BY <1>4, <1>10 DEF MoreBeats
  <2>2. host_reg' \in HostCmds /\ host_reg'.length = l - 64 /\ state_r' = state_r
    BY <1>2, <1>4, <1>10, <2>1 DEF HostCmds
  <2>3. Done' = d + 1
    <3>1. Done' = (reads[n].length - (l - 64)) \div 64
      BY <1>2, <1>7, <2>2 DEF Done
    <3> HIDE DEF n, d, l
    <3>2. reads[n].length - (l - 64) = 64 * (d + 1)
      BY <1>3, <1>4
    <3>3. \A x \in Nat : (64 * x) \div 64 = x
      OBVIOUS
    <3> QED
      BY <1>3, <3>1, <3>2, <3>3
  <2>4. reads[n].length = (l - 64) + 64 * (d + 1) /\ d + 1 \in Nat
    <3> HIDE DEF n, d, l
    <3> QED
      BY <1>3, <1>4
  <2>5. RouterOK'
    BY <1>2, <1>3, <1>7, <2>1, <2>2, <2>3, <2>4 DEF RouterOK
  <2>6. d + 1 # B
    <3> HIDE DEF d, l
    <3>1. Beats(l) > 1
      BY <1>4, <2>1 DEF Beats
    <3> QED
      BY <1>3, <1>6, <3>1
  <2>7. Succ(reads)[Out] = <<n, d + 2>>
    <3>1. (d + 1) + 1 = d + 2
      BY <1>3
    <3> QED
      BY <1>5, <1>9, <2>6, <3>1 DEF Follows
  <2>8. Out' = <<n, d + 2>>
    <3>1. (d + 1) + 1 = d + 2
      BY <1>3
    <3> QED
      BY <1>2, <1>7, <2>2, <2>3, <3>1 DEF Out
  <2> QED
    BY <1>3, <1>4, <1>5, <1>8, <2>2, <2>5, <2>7, <2>8 DEF B
<1>11. CASE ~MoreBeats(l)
  <2>1. l <= 64
    BY <1>4, <1>11 DEF MoreBeats
  <2>2. host_reg' = host_reg /\ state_r' = "sIdle"
    BY <1>2, <1>11
  <2>3. RouterOK'
    BY <1>2, <1>3, <1>7, <2>2 DEF RouterOK
  <2>4. d + 1 = B
    <3> HIDE DEF d, l
    <3>1. Beats(l) = 1
      BY <1>3, <1>4, <2>1, BeatsFacts, Zenon
    <3> QED
      BY <1>3, <1>6, <3>1
  <2>5. Out' = <<n + 1, 1>>
    BY <1>7, <2>2 DEF Out
  <2>6. Succ(reads)[Out] = <<n + 1, 1>>
    BY <1>5, <1>9, <2>4 DEF Follows
  <2>7. state_r' \in States
    BY <2>2 DEF States
  <2> QED
    BY <1>3, <1>4, <1>5, <1>8, <2>2, <2>3, <2>5, <2>6, <2>7 DEF B
<1> QED
  BY <1>10, <1>11

(* The beat at the head of the stream is the one at place Out.             *)
LEMMA HeadIsOut ==
  ASSUME IInv, host_data_fifo # <<>>, NEW n \in 1..Len(reads), NEW k \in 1..BeatsOf(reads, n), Out = <<n, k>>
  PROVE  /\ Head(host_data_fifo) = <<reads[n].id, k>> /\ Head(host_data_fifo) \in Beat
         /\ Tail(host_data_fifo) \in Seq(Beat)
         /\ Chain(Tail(host_data_fifo), Key(reads), Succ(reads), Succ(reads)[Out], In)
         /\ \A i \in 1..Len(Tail(host_data_fifo)) : IsBeat(Tail(host_data_fifo)[i], reads)
<1> DEFINE q == host_data_fifo
<1>1. q \in Seq(Beat) /\ q # <<>>
  BY DEF IInv, TypeOK
<1>2. (\A i \in 1..Len(q) : IsBeat(q[i], reads)) /\ Chain(q, Key(reads), Succ(reads), Out, In)
  BY DEF IInv, StreamOK
<1> HIDE DEF q
<1>3. /\ Tail(q) \in Seq(Beat) /\ Len(q) \in Nat /\ Len(q) > 0 /\ Len(Tail(q)) = Len(q) - 1
      /\ Head(q) \in Beat /\ Head(q) = q[1] /\ \A i \in 1..Len(Tail(q)) : Tail(q)[i] = q[i + 1]
  BY <1>1, Pop
<1>4. Key(reads)[Head(q)] = Out /\ Chain(Tail(q), Key(reads), Succ(reads), Succ(reads)[Out], In)
  BY <1>1, <1>2, ChainPop
<1>5. 1 \in 1..Len(q) /\ \A i \in 1..Len(Tail(q)) : i + 1 \in 1..Len(q)
  BY <1>3
<1>6. PICK m \in 1..Len(reads) : \E j \in 1..BeatsOf(reads, m) : q[1] = <<reads[m].id, j>>
  BY <1>2, <1>5 DEF IsBeat
<1>7. PICK j \in 1..BeatsOf(reads, m) : q[1] = <<reads[m].id, j>>
  BY <1>6
<1>8. Key(reads)[q[1]] = <<m, j>>
  <2>1. j \in Nat
    BY NoTwoReads, ReadFacts
  <2> QED
    BY <1>7, <2>1, NoTwoReads, KeyAt
<1>9. m = n /\ j = k
  BY <1>3, <1>4, <1>8
<1>10. Head(q) = <<reads[n].id, k>>
  BY <1>3, <1>7, <1>9
<1> QED
  BY <1>2, <1>3, <1>4, <1>5, <1>10 DEF q

LEMMA RouteStep ==
  ASSUME IInv, Route PROVE IInv'
<1>1. TypeOK /\ ReadsOK /\ HostOK
  BY DEF IInv
<1> DEFINE n == Routed
           k == Done + 1
           u == User(reads[n])
           x == Head(host_data_fifo)
<1>2. /\ n \in 1..Len(reads) /\ k \in 1..BeatsOf(reads, n)
      /\ Out = <<n, k>> /\ Out' = Succ(reads)[Out]
      /\ RouterOK' /\ host_reg' \in HostCmds /\ state_r' \in States
      /\ state_r = StateOf(u)
  BY RoutePlace
<1>3. u \in Users
  BY DEF User, Users
<1>4. (IF state_r = "sEng" THEN "eng" ELSE "ser") = u
  BY <1>2, <1>3 DEF StateOf, Users
<1>5. /\ host_data_fifo # <<>> /\ host_data_fifo' = Tail(host_data_fifo)
      /\ data_fifo' = [data_fifo EXCEPT ![u] = Append(data_fifo[u], x)]
      /\ cmds' = cmds /\ cmd_fifo' = cmd_fifo /\ state' = state /\ reg' = reg
      /\ host_cmd_fifo' = host_cmd_fifo /\ reads' = reads /\ read_q' = read_q /\ hbm_q' = hbm_q
      /\ cmd_out' = cmd_out /\ host_out' = host_out /\ device_out' = device_out
  BY <1>4 DEF Route, cmd_vars, read_vars, out_vars
<1> HIDE DEF n, k, u
<1>6. /\ x = <<reads[n].id, k>> /\ x \in Beat /\ host_data_fifo' \in Seq(Beat)
      /\ Chain(host_data_fifo', Key(reads), Succ(reads), Out', In)
      /\ \A i \in 1..Len(host_data_fifo') : IsBeat(host_data_fifo'[i], reads)
  BY <1>2, <1>5, HeadIsOut
<1> HIDE DEF x
<1>7. data_fifo \in [Users -> Seq(Beat)] /\ host_out \in [Users -> Seq(Beat)] /\ reads \in Seq(HostCmds)
  BY <1>1 DEF TypeOK
<1>8. Append(data_fifo[u], x) \in Seq(Beat)
  BY <1>3, <1>6, <1>7
<1>9. /\ data_fifo' \in [Users -> Seq(Beat)] /\ data_fifo'[u] = Append(data_fifo[u], x)
      /\ \A v \in Users : v # u => data_fifo'[v] = data_fifo[v]
  BY <1>3, <1>5, <1>7, <1>8, Change
<1>10. TypeOK'
  BY <1>1, <1>2, <1>5, <1>6, <1>9 DEF TypeOK
<1>11. In' = In /\ Answered' = Answered
  BY <1>5 DEF In, Answered, Issued
<1>12. StreamOK'
  BY <1>5, <1>6, <1>11 DEF StreamOK
<1>13. ASSUME NEW v \in Users PROVE HostLogOK(host_out'[v] \o data_fifo'[v], reads, v, Out')
  <2> DEFINE a == host_out[v]
             b == data_fifo[v]
             log == a \o b
  <2>1. a \in Seq(Beat) /\ b \in Seq(Beat)
    BY <1>7
  <2>2. log \in Seq(Beat)
    BY <2>1
  <2>3. HostLogOK(log, reads, v, <<n, k>>) /\ ReadsRise(reads, v)
    BY <1>1, <1>2 DEF HostOK, ReadsOK
  <2> HIDE DEF a, b
  <2>4. CASE v = u
    <3>1. User(reads[n]) = v
      BY <2>4 DEF u
    <3>2. host_out'[v] \o data_fifo'[v] = Append(log, x)
      <4>1. a \o Append(b, x) = Append(a \o b, x)
        BY <1>6, <2>1, LogAppends
      <4> QED
        BY <1>5, <1>9, <2>4, <4>1 DEF a, b
    <3> HIDE DEF log
    <3>3. HostLogOK(Append(log, <<reads[n].id, k>>), reads, v, Succ(reads)[<<n, k>>])
      BY <1>2, <1>7, <2>2, <2>3, <3>1, HostLogTakes
    <3> QED
      BY <1>2, <1>6, <3>2, <3>3
  <2>5. CASE v # u
    <3>1. User(reads[n]) # v
      BY <2>5 DEF u
    <3>2. host_out'[v] \o data_fifo'[v] = log
      BY <1>5, <1>9, <2>5 DEF a, b
    <3> HIDE DEF log
    <3>3. HostLogOK(log, reads, v, Succ(reads)[<<n, k>>])
      BY <1>2, <1>7, <2>2, <2>3, <3>1, HostLogSkips
    <3> QED
      BY <1>2, <3>2, <3>3
  <2> QED
    BY <2>4, <2>5
<1>14. HostOK'
  BY <1>5, <1>13 DEF HostOK
<1>15. CmdsOK' /\ ReadsOK' /\ SenderOK' /\ DeviceOK'
  BY <1>5, <1>11 DEF IInv, CmdsOK, CmdsOf, ReadsOK, SenderOK, DeviceOK
<1> QED
  BY <1>2, <1>10, <1>12, <1>14, <1>15 DEF IInv

-----------------------------------------------------------------------------
LEMMA InitInv == Init => IInv
<1> SUFFICES ASSUME Init PROVE IInv
  OBVIOUS
<1>1. /\ cmds = <<>> /\ cmd_fifo = [u \in Users |-> <<>>] /\ state = "sIdle"
      /\ host_cmd_fifo = <<>> /\ reads = <<>> /\ read_q = <<>> /\ hbm_q = [u \in Users |-> <<>>]
      /\ host_data_fifo = <<>> /\ state_r = "sIdle"
      /\ data_fifo = [u \in Users |-> <<>>] /\ cmd_out = [u \in Users |-> <<>>]
      /\ host_out = [u \in Users |-> <<>>] /\ device_out = [u \in Users |-> <<>>]
  BY DEF Init
<1>2. TypeOK
  BY TypeInit
<1>3. CmdsOK
  BY <1>1 DEF CmdsOK, CmdsOf, Rises, StateOf
<1>4. ReadsOK
  BY <1>1 DEF ReadsOK, ReadsMatch, ReadsRise
<1>5. Answered = 0 /\ Routed = 0
  BY <1>1 DEF Answered, Routed, Issued
<1>6. SenderOK /\ RouterOK
  BY <1>1, <1>5 DEF SenderOK, RouterOK
<1>7. In = <<1, 1>> /\ Out = <<1, 1>>
  BY <1>1, <1>5 DEF In, Out
<1>8. StreamOK
  BY <1>1, <1>7 DEF StreamOK, Chain
<1>9. HostOK
  <2>1. \A u \in Users : host_out[u] \o data_fifo[u] = <<>>
    BY <1>1
  <2> QED
    BY <1>1, <2>1 DEF HostOK, HostLogOK
<1>10. DeviceOK
  BY <1>1 DEF DeviceOK, DeviceLogOK, Rises
<1> QED
  BY <1>2, <1>3, <1>4, <1>6, <1>8, <1>9, <1>10 DEF IInv

LEMMA NextInv == IInv /\ [Next]_vars => IInv'
<1> SUFFICES ASSUME IInv, [Next]_vars PROVE IInv'
  OBVIOUS
<1>1. CASE \E c \in NewCmds : CmdIn(c)
  BY <1>1, CmdInStep
<1>2. CASE SerIssue \/ EngIssue
  BY <1>2, IssueStep
<1>3. CASE HostBeat
  BY <1>3, HostBeatStep
<1>4. CASE RouteIdle
  BY <1>4, RouteIdleStep
<1>5. CASE Route
  BY <1>5, RouteStep
<1>6. CASE \E u \in Users : Idle(u)
  BY <1>6, IdleStep
<1>7. CASE \E u \in Users : DeviceBeat(u)
  BY <1>7, DeviceBeatStep
<1>8. CASE \E u \in Users : HostOut(u)
  BY <1>8, HostOutStep
<1>9. CASE UNCHANGED vars
  <2>1. /\ cmds' = cmds /\ cmd_fifo' = cmd_fifo /\ state' = state /\ reg' = reg
        /\ UNCHANGED <<host_cmd_fifo, read_vars, host_data_fifo, route_vars, data_fifo, out_vars>>
        /\ cmd_out' = cmd_out
    BY <1>9 DEF vars, cmd_vars, out_vars
  <2>2. TypeOK' /\ CmdsOK'
    BY <2>1 DEF IInv, TypeOK, CmdsOK, CmdsOf, read_vars, route_vars, out_vars
  <2> QED
    BY <2>1, <2>2, RestSame DEF IInv
<1> QED
  BY <1>1, <1>2, <1>3, <1>4, <1>5, <1>6, <1>7, <1>8, <1>9 DEF Next

LEMMA RoutedFromInv == IInv => RoutedToUser
<1> SUFFICES ASSUME IInv, NEW u \in Users
             PROVE  /\ \A i \in 1..Len(cmd_out[u]) : User(cmd_out[u][i]) = u
                    /\ \A i, j \in 1..Len(cmd_out[u]) : i < j => cmd_out[u][i].id < cmd_out[u][j].id
                    /\ TakenInOrder(host_out[u] \o data_fifo[u], HostBeats(cmd_out[u]))
                    /\ TakenInOrder(device_out[u], DeviceBeats(cmd_out[u]))
  BY DEF RoutedToUser
<1>1. TypeOK /\ CmdsOK /\ ReadsOK /\ RouterOK /\ HostOK /\ DeviceOK
  BY DEF IInv
<1>2. \A i \in 1..Len(cmd_out[u]) : User(cmd_out[u][i]) = u
  BY <1>1 DEF CmdsOK, CmdsOf, Written
<1>3. \A i, j \in 1..Len(cmd_out[u]) : i < j => cmd_out[u][i].id < cmd_out[u][j].id
  BY <1>1 DEF CmdsOK, CmdsOf, Rises
<1>4. TakenInOrder(host_out[u] \o data_fifo[u], HostBeats(cmd_out[u]))
  <2> DEFINE log == host_out[u] \o data_fifo[u]
             cs == cmd_out[u]
  <2>1. log \in Seq(Beat) /\ cs \in Seq(Commands) /\ reads \in Seq(HostCmds)
    BY <1>1 DEF TypeOK
  <2>2. ReadsMatch(reads, cs, u) /\ ReadsRise(reads, u) /\ HostLogOK(log, reads, u, Out)
    BY <1>1 DEF ReadsOK, HostOK
  <2>3. Out[1] \in Nat /\ Out[2] \in Nat
    BY <1>1, OutPlace
  <2> HIDE DEF log, cs
  <2>4. TakenInOrder(log, HostBeats(cs))
    BY <2>1, <2>2, <2>3, HostLogTaken
  <2> QED
    BY <2>4 DEF log, cs
<1>5. TakenInOrder(device_out[u], DeviceBeats(cmd_out[u]))
  <2>1. /\ device_out[u] \in Seq(Beat) /\ cmd_out[u] \in Seq(Commands) /\ hbm_q[u] \in Seq(Reads)
        /\ DeviceLogOK(device_out[u], cmd_out[u], hbm_q[u])
    BY <1>1 DEF TypeOK, DeviceOK
  <2> QED
    BY <2>1, DeviceLogTaken
<1> QED
  BY <1>2, <1>3, <1>4, <1>5

(* ReadHost hands each user its own commands in the order the host wrote   *)
(* them, and of the one stream in which host data for both comes back      *)
(* every user gets exactly the beats of its own reads, in order, none lost *)
(* or doubled; the same of the device data: ReadHost.scala issues the      *)
(* reads, memory answers them later, and the routing machine cuts the      *)
(* stream by the lengths in host_cmd_fifo.                                 *)
THEOREM DataReachesItsUser == Spec => []RoutedToUser
  BY InitInv, NextInv, RoutedFromInv, PTL DEF Spec

=============================================================================
