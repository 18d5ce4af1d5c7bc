--------------------------- MODULE DerToMemProofs ---------------------------
(* Proofs about DerToMem, for every number of threads, buffers and RPCs    *)
(* and every queue depth.                                                  *)
EXTENDS DerToMem, FifoLemmas

(* Rounding to whole beats: the result is the next multiple of 64.         *)
LEMMA Rounding == \A n \in Nat : /\ Round64(n) \in Nat
                                 /\ Beats(n) \in Nat
                                 /\ Round64(n) = 64 * Beats(n)
                                 /\ (n > 0 => Beats(n) > 0)
  BY DEF Round64, Beats

(* The lengths a deserializer announces; a host part is never empty.       *)
LEMMA Lengths == /\ \A h \in HostLens : h \in Nat /\ h > 0
                 /\ \A d \in DeviceLens : d \in Nat
  BY DerToMemAssumption

LEMMA MetaFields == \A m \in Metas : /\ m.id \in 1..MaxRpc
                                     /\ m.host_length \in HostLens
                                     /\ m.device_length \in DeviceLens
  BY DEF Metas

LEMMA MetaLens == \A m \in Metas : /\ m.id \in 1..MaxRpc
                                   /\ m.host_length \in Nat /\ m.host_length > 0
                                   /\ m.device_length \in Nat
  BY MetaFields, Lengths

LEMMA TypeInit == Init => TypeOK
<1> SUFFICES ASSUME Init PROVE TypeOK
  OBVIOUS
<1>1. InputOK
  BY DerToMemAssumption DEF Init, InputOK
<1>2. FreeOK
  BY DerToMemAssumption DEF Init, FreeOK
<1>3. RegsOK
  BY DerToMemAssumption DEF Init, RegsOK
<1>4. PortOK
  BY DerToMemAssumption DEF Init, PortOK
<1>5. MemOK
  BY DEF Init, MemOK
<1> QED
  BY <1>1, <1>2, <1>3, <1>4, <1>5 DEF TypeOK

(* A part of the type invariant is kept by every step that leaves its      *)
(* variables alone.                                                        *)
LEMMA Untouched ==
  /\ InputOK /\ UNCHANGED <<deser, inq, metas>> => InputOK'
  /\ FreeOK /\ UNCHANGED <<free, alloc>> => FreeOK'
  /\ RegsOK /\ UNCHANGED regs => RegsOK'
  /\ PortOK /\ UNCHANGED port => PortOK'
  /\ MemOK /\ UNCHANGED mem => MemOK'
<1>1. InputOK /\ UNCHANGED <<deser, inq, metas>> => InputOK'
  BY DEF InputOK, inq
<1>2. FreeOK /\ UNCHANGED <<free, alloc>> => FreeOK'
  BY DEF FreeOK, free
<1>3. RegsOK /\ UNCHANGED regs => RegsOK'
  BY DEF RegsOK, regs
<1>4. PortOK /\ UNCHANGED port => PortOK'
  BY DEF PortOK, port
<1>5. MemOK /\ UNCHANGED mem => MemOK'
  BY DEF MemOK, mem
<1> QED
  BY <1>1, <1>2, <1>3, <1>4, <1>5

(* The deserializer's side: a meta, a device beat, a host beat.            *)
LEMMA TypeMetaIn ==
  ASSUME TypeOK, NEW h \in HostLens, NEW d \in DeviceLens, MetaIn(h, d)
  PROVE  TypeOK'
<1> DEFINE m == [id |-> deser.id + 1, host_length |-> h, device_length |-> d]
<1>1. deser.id + 1 \in 1..MaxRpc
  BY DerToMemAssumption DEF MetaIn, TypeOK, InputOK
<1>2. m \in Metas
  BY <1>1 DEF Metas
<1>3. m.host_length = h /\ m.device_length = d /\ m.id = deser.id + 1
  OBVIOUS
<1>4. metas' = Append(metas, m) /\ meta_fifo' = Append(meta_fifo, m)
  BY DEF MetaIn
<1> HIDE DEF m
<1>5. /\ metas' \in Seq(Metas) /\ Len(metas') = Len(metas) + 1
      /\ metas'[Len(metas) + 1] = m
  BY <1>2, <1>4, Push DEF TypeOK, InputOK
<1>6. meta_fifo' \in Seq(Metas) /\ Len(meta_fifo') <= FIFO_DEPTH
  BY <1>2, <1>4, Push, DerToMemAssumption DEF TypeOK, InputOK, MetaIn
<1>7. Beats(h) \in Nat /\ Beats(d) \in Nat
  BY Lengths, Rounding
<1>8. deser' = [id |-> deser.id + 1, host |-> Beats(h), device |-> Beats(d)]
  BY DEF MetaIn
<1>9. InputOK'
  <2>1. /\ deser'.id = deser.id + 1 /\ deser'.host = Beats(h) /\ deser'.device = Beats(d)
        /\ deser' \in [id: 0..MaxRpc, host: Nat, device: Nat]
    BY <1>1, <1>7, <1>8
  <2>2. deser'.id = Len(metas') /\ metas'[deser'.id] = m /\ deser'.id > 0
    BY <1>5, <2>1 DEF TypeOK, InputOK
  <2>3. UNCHANGED <<host_fifo, device_fifo>>
    BY DEF MetaIn
  <2> QED
    BY <1>3, <1>5, <1>6, <1>7, <2>1, <2>2, <2>3 DEF TypeOK, InputOK
<1> QED
  BY <1>9, Untouched DEF TypeOK, MetaIn

LEMMA TypeDataIn ==
  ASSUME TypeOK, DeviceDataIn \/ HostDataIn PROVE TypeOK'
<1>0. /\ deser.id \in 0..MaxRpc /\ deser.host \in Nat /\ deser.device \in Nat
      /\ deser.id = Len(metas)
  BY DEF TypeOK, InputOK
<1>a. deser.id # 0
  BY <1>0 DEF TypeOK, InputOK, DeviceDataIn, HostDataIn
<1>1. /\ deser.id \in 1..MaxRpc /\ metas[deser.id] \in Metas
      /\ deser.host \in Nat /\ deser.device \in Nat
      /\ deser.id = Len(metas)
  BY <1>0, <1>a DEF TypeOK, InputOK
<1> DEFINE hb == Beats(metas[deser.id].host_length)
           db == Beats(metas[deser.id].device_length)
<1>2. hb \in Nat /\ db \in Nat /\ deser.host <= hb /\ deser.device <= db
  <2>1. hb \in Nat /\ db \in Nat
    BY <1>1, MetaLens, Rounding
  <2>2. deser.host <= hb /\ deser.device <= db
    BY <1>1 DEF TypeOK, InputOK
  <2> QED
    BY <2>1, <2>2
<1>3. CASE DeviceDataIn
  <2>1. <<deser.id, db - deser.device + 1>> \in Beat
    BY <1>1, <1>2 DEF Beat
  <2>2. device_fifo' = Append(device_fifo, <<deser.id, db - deser.device + 1>>)
    BY <1>3 DEF DeviceDataIn
  <2>3. device_fifo' \in Seq(Beat) /\ Len(device_fifo') <= FIFO_DEPTH
    BY <1>3, <2>1, <2>2, Push, DerToMemAssumption DEF TypeOK, InputOK, DeviceDataIn
  <2>4. /\ deser' = [id |-> deser.id, host |-> deser.host, device |-> deser.device - 1]
        /\ deser.device > 0 /\ UNCHANGED <<metas, meta_fifo, host_fifo>>
    BY <1>3 DEF DeviceDataIn, hist
  <2>5. InputOK'
    <3>1. /\ deser'.id = deser.id /\ deser'.host = deser.host
          /\ deser'.device = deser.device - 1
          /\ deser' \in [id: 0..MaxRpc, host: Nat, device: Nat]
      BY <1>1, <2>4
    <3> QED
      BY <1>1, <1>2, <2>3, <2>4, <3>1 DEF TypeOK, InputOK
  <2> QED
    BY <1>3, <2>5, Untouched DEF TypeOK, DeviceDataIn, hist
<1>4. CASE HostDataIn
  <2>1. <<deser.id, hb - deser.host + 1>> \in Beat
    BY <1>1, <1>2 DEF Beat
  <2>2. host_fifo' = Append(host_fifo, <<deser.id, hb - deser.host + 1>>)
    BY <1>4 DEF HostDataIn
  <2>3. host_fifo' \in Seq(Beat) /\ Len(host_fifo') <= FIFO_DEPTH
    BY <1>4, <2>1, <2>2, Push, DerToMemAssumption DEF TypeOK, InputOK, HostDataIn
  <2>4. /\ deser' = [id |-> deser.id, host |-> deser.host - 1, device |-> 0]
        /\ deser.host > 0 /\ UNCHANGED <<metas, meta_fifo, device_fifo>>
    BY <1>4 DEF HostDataIn, hist
  <2>5. InputOK'
    <3>1. /\ deser'.id = deser.id /\ deser'.host = deser.host - 1
          /\ deser'.device = 0
          /\ deser' \in [id: 0..MaxRpc, host: Nat, device: Nat]
      BY <1>1, <2>4
    <3> QED
      BY <1>1, <1>2, <2>3, <2>4, <3>1 DEF TypeOK, InputOK
  <2> QED
    BY <1>4, <2>5, Untouched DEF TypeOK, HostDataIn, hist
<1> QED
  BY <1>3, <1>4

(* The free list: a number handed back, a number taken up, the fill.       *)
LEMMA TypeFree ==
  ASSUME TypeOK,
         (\E i \in Entries : FreeIndexIn(i)) \/ FreeListReturn \/ FreeListFill
  PROVE  TypeOK'
<1>1. ASSUME NEW i \in Entries, FreeIndexIn(i) PROVE TypeOK'
  <2>1. free_index_fifo' \in Seq(Entries) /\ Len(free_index_fifo') <= RETURN_DEPTH
    BY <1>1, Push, DerToMemAssumption DEF FreeIndexIn, TypeOK, FreeOK
  <2>2. returned' \in 0..MaxReturn
    BY <1>1, DerToMemAssumption DEF FreeIndexIn, TypeOK, FreeOK
  <2>3. FreeOK'
    BY <1>1, <2>1, <2>2 DEF FreeIndexIn, TypeOK, FreeOK, hist
  <2> QED
    BY <1>1, <2>3, Untouched DEF FreeIndexIn, TypeOK, hist
<1>2. CASE FreeListReturn
  <2>1. /\ Head(free_index_fifo) \in Entries
        /\ free_index_fifo' \in Seq(Entries) /\ Len(free_index_fifo') <= RETURN_DEPTH
    BY <1>2, Pop, DerToMemAssumption DEF FreeListReturn, TypeOK, FreeOK
  <2>2. Head(free_index_fifo) % ENTRY_MOD \in Entries
    BY <2>1, DerToMemAssumption DEF Entries
  <2>3. free_list' \in Seq(Entries) /\ Len(free_list') <= DDR_BUFFER_NUM
    BY <1>2, <2>2, Push, DerToMemAssumption DEF FreeListReturn, TypeOK, FreeOK
  <2>4. FreeOK'
    BY <1>2, <2>1, <2>3 DEF FreeListReturn, TypeOK, FreeOK, hist
  <2> QED
    BY <1>2, <2>4, Untouched DEF FreeListReturn, TypeOK, hist
<1>3. CASE FreeListFill
  <2>1. freelist_index % ENTRY_MOD \in Entries
    BY DerToMemAssumption DEF Entries, TypeOK, FreeOK
  <2>2. free_list' \in Seq(Entries) /\ Len(free_list') <= DDR_BUFFER_NUM
    BY <1>3, <2>1, Push, DerToMemAssumption DEF FreeListFill, TypeOK, FreeOK
  <2>3. freelist_index' \in 0..(INDEX_MOD - 1)
    BY <1>3, DerToMemAssumption DEF FreeListFill, FillNext, TypeOK, FreeOK
  <2>4. FreeOK'
    BY <1>3, <2>2, <2>3 DEF FreeListFill, TypeOK, FreeOK, hist
  <2> QED
    BY <1>3, <2>4, Untouched DEF FreeListFill, TypeOK, hist
<1> QED
  BY <1>1, <1>2, <1>3

(* The state machine, state by state.                                      *)
LEMMA TypeIdle == ASSUME TypeOK, Idle PROVE TypeOK'
<1>1. /\ Head(meta_fifo) \in Metas
      /\ meta_fifo' \in Seq(Metas) /\ Len(meta_fifo') <= FIFO_DEPTH
  BY Pop, DerToMemAssumption DEF Idle, TypeOK, InputOK
<1>2. InputOK'
  BY <1>1 DEF Idle, TypeOK, InputOK, hist
<1>3. RegsOK'
  BY <1>1 DEF Idle, TypeOK, RegsOK
<1> QED
  BY <1>2, <1>3, Untouched DEF Idle, TypeOK, hist

LEMMA TypeNewBuffer == ASSUME TypeOK, NewBuffer PROVE TypeOK'
<1> DEFINE idx == Head(free_list)
           len == Round64(meta_reg.host_length)
           cmd == [kind |-> "data", rpc |-> meta_reg.id, addr |-> BufferAddr(idx), len |-> len]
           aw  == [rpc |-> meta_reg.id, addr |-> BufferAddr(idx),
                   len |-> Round64(meta_reg.device_length)]
<1>1. /\ meta_reg.id \in 1..MaxRpc
      /\ len \in Nat /\ Round64(meta_reg.device_length) \in Nat
  BY MetaLens, Rounding DEF NewBuffer, TypeOK, RegsOK
<1>2. /\ idx \in Entries
      /\ free_list' \in Seq(Entries) /\ Len(free_list') <= DDR_BUFFER_NUM
  BY Pop, DerToMemAssumption DEF NewBuffer, TypeOK, FreeOK
<1>3. BufferAddr(idx) \in Nat
  BY <1>2, DerToMemAssumption DEF BufferAddr, Entries
<1>4. cmd \in Commands /\ aw \in HbmWrites
  BY <1>1, <1>3 DEF Commands, HbmWrites
<1>5. /\ cmd_q' = Append(cmd_q, cmd) /\ alloc' = Append(alloc, idx)
      /\ aw_q' = aw_q \o DeviceAw(meta_reg, idx) /\ host_length' = len
  BY DEF NewBuffer
<1>6. DeviceAw(meta_reg, idx) \in {<<>>, <<aw>>}
  BY DEF DeviceAw
<1> HIDE DEF idx, len, cmd, aw
<1>7. cmd_q' \in Seq(Commands) /\ Len(cmd_q') <= PORT_DEPTH
  BY <1>4, <1>5, Push, DerToMemAssumption DEF NewBuffer, TypeOK, PortOK
<1>8. aw_q' \in Seq(HbmWrites) /\ Len(aw_q') <= PORT_DEPTH
  <2>1. CASE DeviceAw(meta_reg, idx) = <<>>
    BY <1>5, <2>1 DEF TypeOK, PortOK
  <2>2. CASE DeviceAw(meta_reg, idx) = <<aw>>
    BY <1>4, <1>5, <2>2, DerToMemAssumption DEF NewBuffer, TypeOK, PortOK
  <2> QED
    BY <1>6, <2>1, <2>2
<1>9. FreeOK'
  <2>1. alloc' \in Seq(Entries)
    BY <1>2, <1>5, Push DEF TypeOK, FreeOK
  <2> QED
    BY <1>2, <2>1 DEF NewBuffer, TypeOK, FreeOK
<1>10. RegsOK'
  BY <1>1, <1>5 DEF NewBuffer, TypeOK, RegsOK
<1>11. PortOK'
  BY <1>7, <1>8 DEF NewBuffer, TypeOK, PortOK
<1> QED
  BY <1>9, <1>10, <1>11, Untouched DEF NewBuffer, TypeOK

LEMMA TypeWrite == ASSUME TypeOK, Write PROVE TypeOK'
<1> DEFINE b == [data |-> Head(host_fifo), count |-> 0, last |-> LastBeat(host_length)]
<1>1. /\ Head(host_fifo) \in Beat
      /\ host_fifo' \in Seq(Beat) /\ Len(host_fifo') <= FIFO_DEPTH
  BY Pop, DerToMemAssumption DEF Write, TypeOK, InputOK
<1>2. LastBeat(host_length) \in BOOLEAN
  BY DEF LastBeat
<1>3. b \in DataBeats
  BY <1>1, <1>2 DEF DataBeats
<1>4. data_q' = Append(data_q, b)
  BY DEF Write
<1> HIDE DEF b
<1>5. data_q' \in Seq(DataBeats) /\ Len(data_q') <= PORT_DEPTH
  BY <1>3, <1>4, Push, DerToMemAssumption DEF Write, TypeOK, PortOK
<1>6. InputOK'
  BY <1>1 DEF Write, TypeOK, InputOK, hist
<1>7. RegsOK'
  <2>1. host_length \in Nat /\ state = "sWrite" /\ UNCHANGED <<meta_reg, notice_flag, notice_cnt>>
    BY DEF Write, TypeOK, RegsOK
  <2>2. host_length' \in Nat /\ state' \in {"sWrite", "sNotice"}
    BY <2>1 DEF Write, LastBeat
  <2> QED
    BY <2>1, <2>2 DEF TypeOK, RegsOK
<1>8. PortOK'
  BY <1>5 DEF Write, TypeOK, PortOK
<1> QED
  BY <1>6, <1>7, <1>8, Untouched DEF Write, TypeOK, hist

LEMMA TypeNotice == ASSUME TypeOK, Notice PROVE TypeOK'
<1> DEFINE c == [kind |-> "notice", rpc |-> meta_reg.id, addr |-> notice_flag, len |-> 64]
           b == [data |-> <<meta_reg.id, 0>>, count |-> notice_cnt[notice_flag], last |-> TRUE]
<1>1. meta_reg.id \in 1..MaxRpc
  BY MetaLens DEF Notice, TypeOK, RegsOK
<1>2. notice_flag \in 0..15 /\ notice_cnt[notice_flag] \in Nat
  BY DerToMemAssumption DEF TypeOK, RegsOK
<1>3. c \in Commands
  BY <1>1, <1>2 DEF Commands
<1>4. b \in DataBeats
  BY <1>1, <1>2 DEF DataBeats, Beat
<1>5. cmd_q' = Append(cmd_q, c) /\ data_q' = Append(data_q, b)
  BY DEF Notice
<1> HIDE DEF c, b
<1>6. cmd_q' \in Seq(Commands) /\ Len(cmd_q') <= PORT_DEPTH
  BY <1>3, <1>5, Push, DerToMemAssumption DEF Notice, TypeOK, PortOK
<1>7. data_q' \in Seq(DataBeats) /\ Len(data_q') <= PORT_DEPTH
  BY <1>4, <1>5, Push, DerToMemAssumption DEF Notice, TypeOK, PortOK
<1>8. PortOK'
  BY <1>6, <1>7 DEF Notice, TypeOK, PortOK
<1>9. notice_cnt' \in [0..15 -> Nat] /\ notice_flag' \in 0..(THREAD_NUM - 1)
  <2>1. notice_cnt' = [notice_cnt EXCEPT ![notice_flag] = notice_cnt[notice_flag] + 1]
    BY DEF Notice, CountUp
  <2>2. notice_cnt' \in [0..15 -> Nat]
    BY <1>2, <2>1 DEF TypeOK, RegsOK
  <2>3. notice_flag' = IF notice_flag >= THREAD_NUM - 1 THEN 0 ELSE notice_flag + 1
    BY DEF Notice, NextThread
  <2>4. notice_flag' \in 0..(THREAD_NUM - 1)
    BY <2>3, DerToMemAssumption DEF TypeOK, RegsOK
  <2> QED
    BY <2>2, <2>4
<1>10. RegsOK'
  BY <1>9 DEF Notice, TypeOK, RegsOK
<1> QED
  BY <1>8, <1>10, Untouched DEF Notice, TypeOK, hist

(* Behind the ports.                                                       *)
LEMMA TypeDmaBeat == ASSUME TypeOK, DmaBeat PROVE TypeOK'
<1>1. /\ Head(cmd_q) \in Commands
      /\ Tail(cmd_q) \in Seq(Commands) /\ Len(Tail(cmd_q)) <= PORT_DEPTH
  BY Pop, DerToMemAssumption DEF DmaBeat, TypeOK, PortOK
<1>2. /\ Head(data_q) \in DataBeats
      /\ Tail(data_q) \in Seq(DataBeats) /\ Len(Tail(data_q)) <= PORT_DEPTH
  BY Pop, DerToMemAssumption DEF DmaBeat, TypeOK, PortOK
<1>3. Head(data_q).data \in Beat /\ Head(data_q).count \in Nat
  BY <1>2 DEF DataBeats
<1>4. PortOK'
  <2>1. /\ data_q' = Tail(data_q) /\ UNCHANGED <<aw_q, hbm_off>>
        /\ \/ cmd_q' = Tail(cmd_q) /\ dma_off' = 0
           \/ dma_off' = dma_off + 64 /\ UNCHANGED cmd_q
    BY DEF DmaBeat
  <2>2. cmd_q' \in Seq(Commands) /\ Len(cmd_q') <= PORT_DEPTH
    BY <1>1, <2>1 DEF TypeOK, PortOK
  <2>3. dma_off' \in Nat
    BY <2>1 DEF TypeOK, PortOK
  <2> QED
    BY <1>2, <2>1, <2>2, <2>3 DEF TypeOK, PortOK
<1>5. MemOK'
  BY <1>3 DEF DmaBeat, TypeOK, MemOK
<1> QED
  BY <1>4, <1>5, Untouched DEF DmaBeat, TypeOK, hist

LEMMA TypeHbmBeat == ASSUME TypeOK, HbmBeat PROVE TypeOK'
<1>1. Tail(aw_q) \in Seq(HbmWrites) /\ Len(Tail(aw_q)) <= PORT_DEPTH
  BY Pop, DerToMemAssumption DEF HbmBeat, TypeOK, PortOK
<1>2. device_fifo' \in Seq(Beat) /\ Len(device_fifo') <= FIFO_DEPTH
  BY Pop, DerToMemAssumption DEF HbmBeat, TypeOK, InputOK
<1>3. InputOK'
  BY <1>2 DEF HbmBeat, TypeOK, InputOK, hist
<1>4. PortOK'
  <2>1. /\ UNCHANGED <<cmd_q, data_q, dma_off>>
        /\ \/ aw_q' = Tail(aw_q) /\ hbm_off' = 0
           \/ hbm_off' = hbm_off + 64 /\ UNCHANGED aw_q
    BY DEF HbmBeat
  <2>2. aw_q' \in Seq(HbmWrites) /\ Len(aw_q') <= PORT_DEPTH
    BY <1>1, <2>1 DEF TypeOK, PortOK
  <2>3. hbm_off' \in Nat
    BY <2>1 DEF TypeOK, PortOK
  <2> QED
    BY <2>1, <2>2, <2>3 DEF TypeOK, PortOK
<1> QED
  BY <1>3, <1>4, Untouched DEF HbmBeat, TypeOK, hist

LEMMA TypeStep == ASSUME TypeOK, [Next]_vars PROVE TypeOK'
<1>1. CASE UNCHANGED vars
  BY <1>1, Untouched DEF TypeOK, vars, hist
<1>2. CASE Environment
  BY <1>2, TypeMetaIn, TypeDataIn, TypeFree, TypeDmaBeat, TypeHbmBeat DEF Environment, Entries
<1>3. CASE Component
  BY <1>3, TypeFree, TypeIdle, TypeNewBuffer, TypeWrite, TypeNotice DEF Component
<1> QED
  BY <1>1, <1>2, <1>3 DEF Next

(* Every register keeps its type and every queue its depth, whatever the   *)
(* order in which the ports of DerToMem fire (DerToMem.scala 50-165).      *)
THEOREM TypeCorrect == Spec => []TypeOK
  BY TypeInit, TypeStep, PTL DEF Spec

-----------------------------------------------------------------------------
(* The ring of buffers.  As long as the host has returned nothing, the     *)
(* free list holds the numbers that follow the last one handed out, in     *)
(* order, and the fill counter stands behind the last of them.             *)
Served == Len(alloc)

RingInv ==
  returned = 0 =>
    /\ free_index_fifo = <<>>
    /\ freelist_index = (Served + Len(free_list)) % INDEX_MOD
    /\ \A i \in 1..Len(free_list) : free_list[i] = (Served + i - 1) % ENTRY_MOD
    /\ \A n \in 1..Served : alloc[n] = (n - 1) % ENTRY_MOD

LEMMA RingFill ==
  ASSUME TypeOK, RingInv, FreeListFill PROVE RingInv'
<1> SUFFICES ASSUME returned = 0 PROVE RingInv'
  BY DEF RingInv, FreeListFill
<1>1. /\ Served \in Nat /\ Len(free_list) \in Nat
      /\ INDEX_MOD \in Nat \ {0} /\ ENTRY_MOD \in Nat \ {0} /\ INDEX_MOD % ENTRY_MOD = 0
  BY DerToMemAssumption DEF TypeOK, FreeOK, Served
<1> DEFINE s == Served + Len(free_list)
<1>2. s \in Nat /\ freelist_index = s % INDEX_MOD
  BY <1>1 DEF RingInv
<1>3. freelist_index' = (s + 1) % INDEX_MOD
  BY <1>1, <1>2, ModStep DEF FreeListFill, FillNext
<1>4. freelist_index % ENTRY_MOD = s % ENTRY_MOD
  BY <1>1, <1>2, ModMod
<1>5. freelist_index % ENTRY_MOD \in Entries
  BY DerToMemAssumption DEF Entries, TypeOK, FreeOK
<1>6. /\ Len(free_list') = Len(free_list) + 1
      /\ \A i \in 1..Len(free_list) : free_list'[i] = free_list[i]
      /\ free_list'[Len(free_list) + 1] = s % ENTRY_MOD
  BY <1>4, <1>5, Push DEF FreeListFill, TypeOK, FreeOK
<1>7. UNCHANGED <<free_index_fifo, returned, alloc>> /\ Served' = Served
  BY DEF FreeListFill, hist, Served
<1>8. ASSUME NEW i \in 1..Len(free_list')
      PROVE  free_list'[i] = (Served + i - 1) % ENTRY_MOD
  <2>1. CASE i \in 1..Len(free_list)
    BY <1>6, <2>1 DEF RingInv
  <2>2. CASE i = Len(free_list) + 1
    <3>1. Served + i - 1 = s
      BY <1>1, <2>2
    <3> QED
      BY <1>6, <2>2, <3>1
  <2> QED
    BY <1>1, <1>6, <2>1, <2>2
<1>9. freelist_index' = (Served + Len(free_list')) % INDEX_MOD
  <2>1. s + 1 = Served + Len(free_list')
    BY <1>1, <1>6
  <2> QED
    BY <1>3, <2>1
<1> QED
  BY <1>7, <1>8, <1>9 DEF RingInv

LEMMA RingPop ==
  ASSUME TypeOK, RingInv, NewBuffer PROVE RingInv'
<1> SUFFICES ASSUME returned = 0 PROVE RingInv'
  BY DEF RingInv, NewBuffer
<1>1. /\ Served \in Nat /\ Len(free_list) \in Nat /\ Len(free_list) > 0
      /\ Head(free_list) \in Entries /\ Head(free_list) = free_list[1]
      /\ Len(free_list') = Len(free_list) - 1
      /\ \A i \in 1..Len(free_list') : free_list'[i] = free_list[i + 1]
  BY Pop DEF NewBuffer, TypeOK, FreeOK, Served
<1>2. /\ Served' = Served + 1
      /\ \A n \in 1..Served : alloc'[n] = alloc[n]
      /\ alloc'[Served + 1] = free_list[1]
  BY <1>1, Push DEF NewBuffer, TypeOK, FreeOK, Served
<1>3. UNCHANGED <<free_index_fifo, freelist_index, returned>>
  BY DEF NewBuffer
<1>4. freelist_index = (Served' + Len(free_list')) % INDEX_MOD
  <2>1. Served' + Len(free_list') = Served + Len(free_list)
    BY <1>1, <1>2
  <2> QED
    BY <2>1 DEF RingInv
<1>5. ASSUME NEW i \in 1..Len(free_list')
      PROVE  free_list'[i] = (Served' + i - 1) % ENTRY_MOD
  <2>1. i + 1 \in 1..Len(free_list) /\ Served + (i + 1) - 1 = Served' + i - 1
    BY <1>1, <1>2
  <2>2. free_list[i + 1] = (Served + (i + 1) - 1) % ENTRY_MOD
    BY <2>1 DEF RingInv
  <2> QED
    BY <1>1, <2>1, <2>2
<1>6. ASSUME NEW n \in 1..Served' PROVE alloc'[n] = (n - 1) % ENTRY_MOD
  <2>1. CASE n \in 1..Served
    BY <1>2, <2>1 DEF RingInv
  <2>2. CASE n = Served + 1
    <3>1. 1 \in 1..Len(free_list) /\ Served + 1 - 1 = n - 1
      BY <1>1, <2>2
    <3>2. free_list[1] = (Served + 1 - 1) % ENTRY_MOD
      BY <3>1 DEF RingInv
    <3> QED
      BY <1>2, <2>2, <3>1, <3>2
  <2> QED
    BY <1>1, <1>2, <2>1, <2>2
<1> QED
  BY <1>3, <1>4, <1>5, <1>6 DEF RingInv

(* While the host gives no buffer number back, RPC n gets buffer n - 1     *)
(* modulo the entry width (free_list, DerToMem.scala 97-110), however the  *)
(* fill, the pops and the arrival of RPCs interleave and however often     *)
(* the 7 bit counter and the 6 bit entries wrap.                           *)
THEOREM BuffersInRingOrder == Spec => []RingOrder
<1>1. Init => RingInv
  BY DerToMemAssumption DEF Init, RingInv, Served
<1>2. TypeOK /\ RingInv /\ [Next]_vars => RingInv'
  <2> SUFFICES ASSUME TypeOK, RingInv, [Next]_vars PROVE RingInv'
    OBVIOUS
  <2>1. CASE UNCHANGED <<free, alloc>>
    BY <2>1 DEF RingInv, Served, free
  <2>2. ASSUME NEW i \in Entries, FreeIndexIn(i) PROVE RingInv'
    BY <2>2 DEF FreeIndexIn, RingInv, TypeOK, FreeOK
  <2>3. CASE FreeListReturn
    BY <2>3 DEF FreeListReturn, RingInv
  <2>4. CASE FreeListFill
    BY <2>4, RingFill
  <2>5. CASE NewBuffer
    BY <2>5, RingPop
  <2>6. CASE Idle \/ Write \/ Notice \/ UNCHANGED vars
    BY <2>1, <2>6 DEF Idle, Write, Notice, vars, hist
  <2>7. CASE DeviceDataIn \/ HostDataIn \/ DmaBeat \/ HbmBeat
    BY <2>1, <2>7 DEF DeviceDataIn, HostDataIn, DmaBeat, HbmBeat, hist
  <2>8. ASSUME NEW h \in HostLens, NEW d \in DeviceLens, MetaIn(h, d) PROVE RingInv'
    BY <2>1, <2>8 DEF MetaIn
  <2> QED
    BY <2>2, <2>3, <2>4, <2>5, <2>6, <2>7, <2>8 DEF Next, Environment, Component, Entries
<1>3. RingInv => RingOrder
  BY DEF RingInv, RingOrder, Served
<1> QED
  BY TypeCorrect, <1>1, <1>2, <1>3, PTL DEF Spec

-----------------------------------------------------------------------------
(* The streams DerToMem keeps in step: metas, host beats, C2H commands,    *)
(* C2H beats and notices.  Each queue holds the part of its stream between *)
(* the place its reader has reached and the place its writer has reached,  *)
(* and the writer of one queue is the reader of the queue before it.       *)

Known == Len(metas)
HostBeatsOf(ms, n) == Beats(ms[n].host_length)
HB(n) == HostBeatsOf(metas, n)

(* The metas.  The component has served all but those that wait, and the   *)
(* register holds the meta of the RPC in work.                             *)
Waiting == Len(meta_fifo) + (IF state = "sNewBuffer" THEN 1 ELSE 0)
Busy    == state \in {"sWrite", "sNotice"}
MetasOK ==
  /\ \A i \in 1..Known : metas[i].id = i
  /\ Served + Waiting = Known
  /\ \A i \in 1..Len(meta_fifo) : meta_fifo[i] = metas[Known - Len(meta_fifo) + i]
  /\ state = "sNewBuffer" => meta_reg = metas[Served + 1]
  /\ Busy => Served > 0 /\ meta_reg = metas[Served]

LEMMA Sizes ==
  ASSUME TypeOK
  PROVE  /\ Served \in Nat /\ Known \in Nat /\ Len(meta_fifo) \in Nat
         /\ Waiting \in Nat /\ Waiting >= Len(meta_fifo)
         /\ \A n \in 1..Known : metas[n] \in Metas /\ HB(n) \in Nat /\ HB(n) > 0
<1>1. /\ Served \in Nat /\ Known \in Nat /\ Len(meta_fifo) \in Nat
      /\ \A n \in 1..Known : metas[n] \in Metas
  BY DEF TypeOK, InputOK, FreeOK, Served, Known
<1>2. Waiting \in Nat /\ Waiting >= Len(meta_fifo)
  BY <1>1 DEF Waiting
<1>3. \A n \in 1..Known : HB(n) \in Nat /\ HB(n) > 0
  BY <1>1, MetaLens, Rounding DEF HB, HostBeatsOf
<1> QED
  BY <1>1, <1>2, <1>3

LEMMA MetasMetaIn ==
  ASSUME TypeOK, MetasOK, NEW h \in HostLens, NEW d \in DeviceLens, MetaIn(h, d)
  PROVE  /\ MetasOK' /\ Known' = Known + 1
         /\ \A n \in 1..Known : metas'[n] = metas[n]
         /\ metas'[Known + 1].host_length = h /\ metas'[Known + 1].device_length = d
<1> DEFINE m == [id |-> deser.id + 1, host_length |-> h, device_length |-> d]
<1>1. /\ m \in Metas /\ m.id = Known + 1 /\ m.host_length = h /\ m.device_length = d
      /\ metas' = Append(metas, m) /\ meta_fifo' = Append(meta_fifo, m)
      /\ UNCHANGED <<state, meta_reg, alloc>>
  BY DerToMemAssumption DEF MetaIn, TypeOK, InputOK, Metas, Known, regs
<1> HIDE DEF m
<1>2. /\ Known' = Known + 1
      /\ \A n \in 1..Known : metas'[n] = metas[n]
      /\ metas'[Known + 1] = m
  BY <1>1, Push DEF TypeOK, InputOK, Known
<1>3. /\ Len(meta_fifo') = Len(meta_fifo) + 1
      /\ \A n \in 1..Len(meta_fifo) : meta_fifo'[n] = meta_fifo[n]
      /\ meta_fifo'[Len(meta_fifo) + 1] = m
  BY <1>1, Push DEF TypeOK, InputOK
<1>4. Served' = Served /\ Waiting' = Waiting + 1 /\ Busy' = Busy
  BY <1>1, <1>3, Sizes DEF Served, Waiting, Busy
<1>5. ASSUME NEW i \in 1..Known' PROVE metas'[i].id = i
  <2>1. CASE i \in 1..Known
    BY <1>2, <2>1 DEF MetasOK
  <2>2. CASE i = Known + 1
    BY <1>1, <1>2, <2>2
  <2> QED
    BY <1>2, <2>1, <2>2, Sizes
<1>6. ASSUME NEW i \in 1..Len(meta_fifo')
      PROVE  meta_fifo'[i] = metas'[Known' - Len(meta_fifo') + i]
  <2>1. Known' - Len(meta_fifo') = Known - Len(meta_fifo)
    BY <1>2, <1>3, Sizes
  <2>2. CASE i \in 1..Len(meta_fifo)
    <3>1. Known - Len(meta_fifo) + i \in 1..Known
      BY <2>2, Sizes DEF MetasOK
    <3> QED
      BY <1>2, <1>3, <2>1, <2>2, <3>1 DEF MetasOK
  <2>3. CASE i = Len(meta_fifo) + 1
    <3>1. Known - Len(meta_fifo) + i = Known + 1
      BY <2>3, Sizes
    <3> QED
      BY <1>2, <1>3, <2>1, <2>3, <3>1
  <2> QED
    BY <1>3, <2>2, <2>3, Sizes
<1>7. Served' + Waiting' = Known'
  BY <1>2, <1>4, Sizes DEF MetasOK
<1>8. state' = "sNewBuffer" => meta_reg' = metas'[Served' + 1]
  <2>1. state = "sNewBuffer" => Served + 1 \in 1..Known
    BY Sizes DEF MetasOK, Waiting
  <2> QED
    BY <1>1, <1>2, <1>4, <2>1 DEF MetasOK
<1>9. Busy' => Served' > 0 /\ meta_reg' = metas'[Served']
  <2>1. Busy => Served \in 1..Known
    BY Sizes DEF MetasOK
  <2> QED
    BY <1>1, <1>2, <1>4, <2>1 DEF MetasOK
<1> QED
  BY <1>1, <1>2, <1>5, <1>6, <1>7, <1>8, <1>9 DEF MetasOK

LEMMA MetasIdle == ASSUME TypeOK, MetasOK, Idle PROVE MetasOK'
<1>1. /\ Len(meta_fifo') = Len(meta_fifo) - 1 /\ Len(meta_fifo) > 0
      /\ \A i \in 1..Len(meta_fifo') : meta_fifo'[i] = meta_fifo[i + 1]
      /\ meta_reg' = meta_fifo[1]
  BY Pop DEF Idle, TypeOK, InputOK
<1>2. UNCHANGED <<metas, alloc>> /\ Known' = Known /\ Served' = Served
      /\ state = "sIdle" /\ state' = "sNewBuffer"
  BY DEF Idle, hist, Known, Served
<1>3. Waiting' = Waiting /\ Waiting = Len(meta_fifo)
  BY <1>1, <1>2, Sizes DEF Waiting
<1>4. meta_reg' = metas'[Served' + 1]
  <2>1. Known - Len(meta_fifo) + 1 = Served + 1 /\ 1 \in 1..Len(meta_fifo)
    BY <1>1, <1>3, Sizes DEF MetasOK
  <2> QED
    BY <1>1, <1>2, <2>1 DEF MetasOK
<1>5. ASSUME NEW i \in 1..Len(meta_fifo')
      PROVE  meta_fifo'[i] = metas'[Known' - Len(meta_fifo') + i]
  <2>1. /\ Known' - Len(meta_fifo') + i = Known - Len(meta_fifo) + (i + 1)
        /\ i + 1 \in 1..Len(meta_fifo)
    BY <1>1, <1>2, Sizes
  <2>2. meta_fifo[i + 1] = metas[Known - Len(meta_fifo) + (i + 1)]
    BY <2>1 DEF MetasOK
  <2> QED
    BY <1>1, <1>2, <2>1, <2>2
<1> QED
  BY <1>2, <1>3, <1>4, <1>5 DEF MetasOK, Busy

LEMMA MetasNewBuffer ==
  ASSUME TypeOK, MetasOK, NewBuffer
  PROVE  /\ MetasOK' /\ Served' = Served + 1 /\ Served < Known
         /\ \A n \in 1..Served : alloc'[n] = alloc[n]
         /\ alloc'[Served + 1] = Head(free_list) /\ Head(free_list) \in Entries
<1>1. Head(free_list) \in Entries
  BY Pop DEF NewBuffer, TypeOK, FreeOK
<1>2. /\ Served' = Served + 1 /\ \A n \in 1..Served : alloc'[n] = alloc[n]
      /\ alloc'[Served + 1] = Head(free_list)
  BY <1>1, Push DEF NewBuffer, TypeOK, FreeOK, Served
<1>3. /\ UNCHANGED <<metas, meta_fifo, meta_reg>> /\ Known' = Known
      /\ state = "sNewBuffer" /\ state' = "sWrite"
  BY DEF NewBuffer, inq, Known
<1>4. Waiting = Waiting' + 1
  BY <1>3, Sizes DEF Waiting
<1>5. Served' + Waiting' = Known' /\ Served < Known
  <2>1. Waiting' \in Nat
    BY <1>3, Sizes DEF Waiting
  <2>2. Served + Waiting = Known /\ Served \in Nat
    BY Sizes DEF MetasOK
  <2> QED
    BY <1>2, <1>3, <1>4, <2>1, <2>2
<1>6. MetasOK'
  BY <1>2, <1>3, <1>5, Sizes DEF MetasOK, Busy
<1> QED
  BY <1>1, <1>2, <1>5, <1>6

LEMMA MetasKept ==
  ASSUME TypeOK, MetasOK, UNCHANGED <<metas, meta_fifo, alloc, meta_reg>>,
         \/ UNCHANGED state
         \/ state = "sWrite" /\ state' = "sNotice"
         \/ state = "sNotice" /\ state' = "sIdle"
  PROVE  MetasOK'
<1>1. Known' = Known /\ Served' = Served /\ Waiting' = Waiting
  BY DEF Known, Served, Waiting
<1> QED
  BY <1>1 DEF MetasOK, Busy

(* Steps that leave the metas, or all streams, alone.                      *)
Others == FreeListReturn \/ FreeListFill \/ (\E i \in Entries : FreeIndexIn(i))
            \/ DeviceDataIn \/ HbmBeat \/ UNCHANGED vars

LEMMA OthersKeep ==
  ASSUME Others
  PROVE  /\ UNCHANGED <<metas, meta_fifo, alloc, regs, host_fifo, cmd_q, data_q, dma_off, mem>>
         /\ deser'.host = deser.host
<1>1. CASE FreeListReturn \/ FreeListFill \/ UNCHANGED vars
  BY <1>1 DEF FreeListReturn, FreeListFill, vars, inq, regs, port, mem, hist
<1>2. ASSUME NEW i \in Entries, FreeIndexIn(i)
      PROVE  /\ UNCHANGED <<metas, meta_fifo, alloc, regs, host_fifo, cmd_q, data_q, dma_off, mem>>
             /\ deser'.host = deser.host
  BY <1>2 DEF FreeIndexIn, inq, port, hist
<1>3. CASE DeviceDataIn \/ HbmBeat
  BY <1>3 DEF DeviceDataIn, HbmBeat, port, hist
<1> QED
  BY <1>1, <1>2, <1>3 DEF Others

LEMMA NextCases ==
  ASSUME [Next]_vars
  PROVE  \/ \E h \in HostLens, d \in DeviceLens : MetaIn(h, d)
         \/ HostDataIn \/ Idle \/ NewBuffer \/ Write \/ Notice \/ DmaBeat \/ Others
  BY DEF Next, Environment, Component, Others, Entries

LEMMA MetasStep == ASSUME TypeOK, MetasOK, [Next]_vars PROVE MetasOK'
<1>1. ASSUME NEW h \in HostLens, NEW d \in DeviceLens, MetaIn(h, d) PROVE MetasOK'
  BY <1>1, MetasMetaIn
<1>2. CASE Idle
  BY <1>2, MetasIdle
<1>3. CASE NewBuffer
  BY <1>3, MetasNewBuffer
<1>4. CASE Write \/ Notice \/ HostDataIn \/ DmaBeat
  BY <1>4, MetasKept DEF Write, Notice, HostDataIn, DmaBeat, inq, regs, hist
<1>5. CASE Others
  BY <1>5, OthersKeep, MetasKept DEF regs
<1> QED
  BY <1>1, <1>2, <1>3, <1>4, <1>5, NextCases

-----------------------------------------------------------------------------
(* The host beats.  <<n, k>> is the place of the k-th host beat of RPC n.  *)
Places   == Nat \X Nat
Itself   == [c \in Places |-> c]
HostNext == [c \in Places |-> IF c[2] = HB(c[1]) THEN <<c[1] + 1, 1>> ELSE <<c[1], c[2] + 1>>]
Left     == host_length \div 64
HostOut  == IF state = "sWrite" THEN <<Served, HB(Served) - Left + 1>> ELSE <<Served + 1, 1>>
HostIn   == IF deser.host > 0 THEN <<Known, HB(Known) - deser.host + 1>> ELSE <<Known + 1, 1>>
LeftOK   == state = "sWrite" => host_length = 64 * Left /\ Left \in 1..HB(Served)
HostOK   ==
  /\ LeftOK
  /\ \A i \in 1..Len(host_fifo) : host_fifo[i][1] \in 1..Known
                                  /\ host_fifo[i][2] \in 1..HB(host_fifo[i][1])
  /\ Chain(host_fifo, Itself, HostNext, HostOut, HostIn)

LEMMA HostNextAt ==
  \A n, k \in Nat : HostNext[<<n, k>>] = IF k = HB(n) THEN <<n + 1, 1>> ELSE <<n, k + 1>>
  BY DEF HostNext, Places

(* What the queue in front of the component holds, as beats.               *)
LEMMA HostBeats ==
  ASSUME TypeOK
  PROVE  /\ host_fifo \in Seq(Beat)
         /\ \A b \in Beat : /\ b[1] \in 1..MaxRpc /\ b[2] \in Nat /\ b = <<b[1], b[2]>>
                            /\ b \in Places /\ Itself[b] = b
<1>1. host_fifo \in Seq(Beat)
  BY DEF TypeOK, InputOK
<1>2. \A b \in Beat : /\ b[1] \in 1..MaxRpc /\ b[2] \in Nat /\ b = <<b[1], b[2]>> /\ b \in Places
  BY DerToMemAssumption DEF Beat, Places
<1>3. \A b \in Places : Itself[b] = b
  BY DEF Itself
<1> QED
  BY <1>1, <1>2, <1>3

(* A push onto the host queue.                                             *)
LEMMA HostPush ==
  ASSUME TypeOK, MetasOK, HostOK, HostDataIn PROVE HostOK'
<1> DEFINE hb == HB(Known)
           x  == <<Known, hb - deser.host + 1>>
<1>1. /\ deser.host \in Nat /\ deser.host > 0 /\ deser.id = Known /\ deser.id > 0
      /\ deser.host <= hb
  BY DEF TypeOK, InputOK, HostDataIn, Known, HB, HostBeatsOf
<1>2. Known \in 1..Known /\ hb \in Nat /\ x = HostIn
  BY <1>1, Sizes DEF HostIn
<1>3. x \in Beat /\ x[1] = Known /\ x[2] = hb - deser.host + 1
  BY <1>1, <1>2 DEF Beat, TypeOK, InputOK
<1>4. /\ host_fifo' = Append(host_fifo, x)
      /\ deser' = [id |-> deser.id, host |-> deser.host - 1, device |-> 0]
      /\ UNCHANGED <<state, host_length, metas, alloc>>
  BY <1>1 DEF HostDataIn, hist, regs, HB, HostBeatsOf
<1>5. deser'.host = deser.host - 1
  BY <1>4
<1>6. /\ Known' = Known /\ Served' = Served /\ HostNext' = HostNext
      /\ HostOut' = HostOut /\ (LeftOK => LeftOK') /\ \A n : HB(n)' = HB(n)
  BY <1>4 DEF Known, Served, HostNext, HB, HostBeatsOf, HostOut, Left, LeftOK
<1>7. HostNext[x] = HostIn'
  <2>1. HostNext[x] = IF hb - deser.host + 1 = hb THEN <<Known + 1, 1>>
                                                  ELSE <<Known, hb - deser.host + 2>>
    BY <1>1, <1>2, HostNextAt
  <2>2. HostIn' = IF deser.host - 1 > 0 THEN <<Known, hb - (deser.host - 1) + 1>>
                                        ELSE <<Known + 1, 1>>
    BY <1>5, <1>6 DEF HostIn
  <2> QED
    BY <1>1, <1>2, <2>1, <2>2
<1>8. Chain(host_fifo', Itself, HostNext, HostOut, HostIn')
  <2>1. Chain(host_fifo, Itself, HostNext, HostOut, x) /\ Itself[x] = x
    BY <1>2, <1>3, HostBeats DEF HostOK
  <2>2. Chain(Append(host_fifo, x), Itself, HostNext, HostOut, HostNext[x])
    BY <1>3, <2>1, HostBeats, ChainPush
  <2> QED
    BY <1>4, <1>7, <2>2
<1>9. ASSUME NEW i \in 1..Len(host_fifo')
      PROVE  host_fifo'[i][1] \in 1..Known /\ host_fifo'[i][2] \in 1..HB(host_fifo'[i][1])
  <2>1. /\ Len(host_fifo') = Len(host_fifo) + 1 /\ Len(host_fifo) \in Nat
        /\ \A j \in 1..Len(host_fifo) : host_fifo'[j] = host_fifo[j]
        /\ host_fifo'[Len(host_fifo) + 1] = x
    BY <1>3, <1>4, HostBeats, Push
  <2>2. CASE i \in 1..Len(host_fifo)
    BY <2>1, <2>2 DEF HostOK
  <2>3. CASE i = Len(host_fifo) + 1
    BY <1>1, <1>2, <1>3, <2>1, <2>3
  <2> QED
    BY <2>1, <2>2, <2>3
<1> QED
  BY <1>6, <1>8, <1>9 DEF HostOK

(* A pop, and the register that counts what is left.                       *)
LEMMA HostPop ==
  ASSUME TypeOK, MetasOK, HostOK, Write
  PROVE  /\ HostOK' /\ Head(host_fifo) = <<Served, HB(Served) - Left + 1>>
         /\ LastBeat(host_length) <=> Left = 1
         /\ ~LastBeat(host_length) => Left' = Left - 1
<1> DEFINE hb == HB(Served)
           x  == <<Served, hb - Left + 1>>
<1>1. /\ state = "sWrite" /\ host_fifo # <<>> /\ host_fifo' = Tail(host_fifo)
      /\ IF LastBeat(host_length)
         THEN state' = "sNotice" /\ UNCHANGED host_length
         ELSE host_length' = host_length - 64 /\ UNCHANGED state
      /\ UNCHANGED <<deser, metas, alloc>>
  BY DEF Write, hist
<1>2. Served \in 1..Known /\ hb \in Nat /\ HostOut = x
  BY <1>1, Sizes DEF MetasOK, Busy, HostOut
<1>3. host_length = 64 * Left /\ Left \in 1..hb
  BY <1>1 DEF HostOK, LeftOK
<1>4. LastBeat(host_length) <=> Left = 1
  BY <1>2, <1>3 DEF LastBeat
<1>5. ~LastBeat(host_length) => Left' = Left - 1 /\ host_length' = 64 * (Left - 1)
  <2>1. ~LastBeat(host_length) => host_length' = 64 * (Left - 1)
    BY <1>1, <1>2, <1>3
  <2>2. (64 * (Left - 1)) \div 64 = Left - 1
    BY <1>2, <1>3
  <2> QED
    BY <2>1, <2>2 DEF Left
<1>6. /\ Known' = Known /\ Served' = Served /\ HostNext' = HostNext
      /\ HostIn' = HostIn /\ \A n : HB(n)' = HB(n)
  BY <1>1 DEF Known, Served, HostNext, HB, HostBeatsOf, HostIn
<1>7. LeftOK'
  <2>1. CASE LastBeat(host_length)
    BY <1>1, <2>1 DEF LeftOK
  <2>2. CASE ~LastBeat(host_length)
    BY <1>2, <1>3, <1>4, <1>5, <1>6, <2>2 DEF LeftOK
  <2> QED
    BY <2>1, <2>2
<1>8. HostNext[x] = HostOut'
  <2>1. HostNext[x] = IF hb - Left + 1 = hb THEN <<Served + 1, 1>> ELSE <<Served, hb - Left + 2>>
    BY <1>2, <1>3, HostNextAt
  <2>2. CASE LastBeat(host_length)
    BY <1>1, <1>2, <1>3, <1>4, <1>6, <2>1, <2>2 DEF HostOut
  <2>3. CASE ~LastBeat(host_length)
    <3>1. HostOut' = <<Served, hb - (Left - 1) + 1>>
      BY <1>1, <1>5, <1>6, <2>3 DEF HostOut
    <3> QED
      BY <1>2, <1>3, <1>4, <2>1, <2>3, <3>1
  <2> QED
    BY <2>2, <2>3
<1>9. Head(host_fifo) \in Beat /\ Len(host_fifo') = Len(host_fifo) - 1 /\ Len(host_fifo) \in Nat
      /\ \A i \in 1..Len(host_fifo') : host_fifo'[i] = host_fifo[i + 1]
  BY <1>1, HostBeats, Pop
<1>10. Head(host_fifo) = x /\ Chain(host_fifo', Itself, HostNext, HostOut', HostIn)
  <2>1. Chain(host_fifo, Itself, HostNext, x, HostIn)
    BY <1>2 DEF HostOK
  <2>2. /\ Itself[Head(host_fifo)] = x
        /\ Chain(Tail(host_fifo), Itself, HostNext, HostNext[x], HostIn)
    BY <1>1, <2>1, HostBeats, ChainPop
  <2> QED
    BY <1>1, <1>8, <1>9, <2>2, HostBeats
<1>11. ASSUME NEW i \in 1..Len(host_fifo')
       PROVE  host_fifo'[i][1] \in 1..Known /\ host_fifo'[i][2] \in 1..HB(host_fifo'[i][1])
  <2>1. host_fifo'[i] = host_fifo[i + 1] /\ i + 1 \in 1..Len(host_fifo)
    BY <1>9
  <2> QED
    BY <2>1 DEF HostOK
<1> QED
  BY <1>4, <1>5, <1>6, <1>7, <1>10, <1>11 DEF HostOK

(* A new meta continues the stream; the beats in the queue keep their      *)
(* successors, as their RPCs are known already.                            *)
LEMMA HostMetaIn ==
  ASSUME TypeOK, MetasOK, HostOK, NEW h \in HostLens, NEW d \in DeviceLens, MetaIn(h, d)
  PROVE  HostOK' /\ HostOut' = HostOut
<1> DEFINE HN(n) == HostBeatsOf(metas', n)
<1>1. /\ Known' = Known + 1 /\ \A n \in 1..Known : metas'[n] = metas[n]
      /\ metas'[Known + 1].host_length = h
  BY MetasMetaIn
<1>2. /\ UNCHANGED <<host_fifo, state, host_length, alloc>> /\ deser.host = 0
      /\ deser' = [id |-> deser.id + 1, host |-> Beats(h), device |-> Beats(d)]
  BY DEF MetaIn, regs
<1>3. deser'.host = Beats(h) /\ Beats(h) \in Nat /\ Beats(h) > 0
  BY <1>2, Lengths, Rounding
<1>4. HN(Known + 1) = Beats(h) /\ \A n \in 1..Known : HN(n) = HB(n)
  BY <1>1 DEF HB, HostBeatsOf
<1>5. HostIn = <<Known + 1, 1>> /\ HostIn' = HostIn
  <2>1. HostIn = <<Known + 1, 1>>
    BY <1>2 DEF HostIn
  <2>2. HostIn' = <<Known + 1, HN(Known + 1) - Beats(h) + 1>>
    BY <1>1, <1>3 DEF HostIn, HB
  <2> QED
    BY <1>3, <1>4, <2>1, <2>2
<1>6. Served' = Served /\ Left' = Left /\ (state = "sWrite" => Served \in 1..Known)
  BY <1>2, Sizes DEF Served, Left, MetasOK, Busy
<1>7. state = "sWrite" => HN(Served) = HB(Served)
  BY <1>4, <1>6
<1>8. HostOut' = HostOut /\ LeftOK'
  <2>1. HostOut' = IF state = "sWrite" THEN <<Served, HN(Served) - Left + 1>> ELSE <<Served + 1, 1>>
    BY <1>2, <1>6 DEF HostOut, HB
  <2>2. LeftOK' <=> (state = "sWrite" => host_length = 64 * Left /\ Left \in 1..HN(Served))
    BY <1>2, <1>6 DEF LeftOK, HB
  <2> QED
    BY <1>7, <2>1, <2>2 DEF HostOut, HostOK, LeftOK
<1>9. ASSUME NEW i \in 1..Len(host_fifo)
      PROVE  /\ host_fifo[i][1] \in 1..(Known + 1) /\ host_fifo[i][2] \in 1..HN(host_fifo[i][1])
             /\ HostNext[Itself[host_fifo[i]]] = HostNext'[Itself[host_fifo[i]]]
  <2>1. PICK n, k : host_fifo[i] = <<n, k>> /\ n \in 1..Known /\ k \in 1..HB(n)
    <3>1. host_fifo[i] = <<host_fifo[i][1], host_fifo[i][2]>>
      BY HostBeats
    <3> QED
      BY <3>1 DEF HostOK
  <2>2. n \in Nat /\ k \in Nat /\ Itself[host_fifo[i]] = <<n, k>> /\ HN(n) = HB(n)
    <3>1. HB(n) \in Nat /\ Known \in Nat
      BY <2>1, Sizes
    <3>2. Itself[host_fifo[i]] = host_fifo[i]
      BY HostBeats
    <3>3. HN(n) = HB(n)
      BY <1>4, <2>1
    <3> QED
      BY <2>1, <3>1, <3>2, <3>3
  <2>3. HostNext'[<<n, k>>] = IF k = HN(n) THEN <<n + 1, 1>> ELSE <<n, k + 1>>
    BY <2>2 DEF HostNext, Places, HB
  <2>4. HostNext[<<n, k>>] = HostNext'[<<n, k>>]
    BY <2>1, <2>2, <2>3, HostNextAt
  <2>5. n \in 1..(Known + 1)
    BY <2>1, Sizes
  <2> QED
    BY <2>1, <2>2, <2>4, <2>5
<1>10. Chain(host_fifo, Itself, HostNext', HostOut, HostIn)
  <2>1. Chain(host_fifo, Itself, HostNext, HostOut, HostIn)
    BY DEF HostOK
  <2> QED
    BY <1>9, <2>1, HostBeats, ChainSame
<1>11. \A i \in 1..Len(host_fifo') : host_fifo'[i][1] \in 1..Known'
                                      /\ host_fifo'[i][2] \in 1..HN(host_fifo'[i][1])
  BY <1>1, <1>2, <1>9
<1> QED
  BY <1>2, <1>5, <1>8, <1>10, <1>11 DEF HostOK, HB

(* Taking a buffer starts the next RPC at its first beat.                  *)
LEMMA HostNewBuffer ==
  ASSUME TypeOK, MetasOK, HostOK, NewBuffer
  PROVE  HostOK' /\ HostOut' = <<Served + 1, 1>> /\ Left' = HB(Served + 1)
<1>1. Served' = Served + 1 /\ Served + 1 \in 1..Known
  BY MetasNewBuffer, Sizes
<1>2. /\ UNCHANGED <<host_fifo, deser, metas, meta_reg>> /\ meta_reg = metas[Served + 1]
      /\ state = "sNewBuffer" /\ state' = "sWrite"
      /\ host_length' = Round64(meta_reg.host_length)
  BY DEF NewBuffer, inq, MetasOK
<1>3. host_length' = 64 * HB(Served + 1) /\ HB(Served + 1) \in Nat /\ HB(Served + 1) > 0
  BY <1>1, <1>2, Rounding, MetaLens, Sizes DEF HB, HostBeatsOf
<1>4. Left' = HB(Served + 1)
  <2>1. (64 * HB(Served + 1)) \div 64 = HB(Served + 1)
    BY <1>3
  <2> QED
    BY <1>3, <2>1 DEF Left
<1>5. /\ Known' = Known /\ HostNext' = HostNext /\ HostIn' = HostIn
      /\ \A n : HB(n)' = HB(n)
  BY <1>2 DEF Known, HostNext, HB, HostIn
<1>6. HB(Served)' = HB(Served + 1)
  BY <1>1, <1>2 DEF HB
<1>7. HostOut' = <<Served + 1, 1>> /\ HostOut = <<Served + 1, 1>>
  <2>1. HB(Served + 1) - HB(Served + 1) + 1 = 1
    BY <1>3
  <2>2. HostOut' = <<Served + 1, HB(Served + 1) - HB(Served + 1) + 1>>
    BY <1>1, <1>2, <1>4, <1>6 DEF HostOut, HB, HostBeatsOf
  <2> QED
    BY <1>2, <2>1, <2>2 DEF HostOut
<1>8. LeftOK'
  BY <1>2, <1>3, <1>4, <1>6 DEF LeftOK
<1> QED
  BY <1>2, <1>4, <1>5, <1>7, <1>8 DEF HostOK

LEMMA HostKept ==
  ASSUME HostOK, UNCHANGED <<metas, alloc, host_fifo>>, deser'.host = deser.host,
         \/ UNCHANGED <<state, host_length>>
         \/ state # "sWrite" /\ state' # "sWrite"
  PROVE  HostOK' /\ HostOut' = HostOut
<1>1. /\ Known' = Known /\ HostNext' = HostNext /\ HostIn' = HostIn
      /\ \A n : HB(n)' = HB(n)
  BY DEF Known, HostNext, HB, HostBeatsOf, HostIn
<1>2. HostOut' = HostOut /\ LeftOK'
  BY <1>1 DEF Served, HostOut, HostOK, LeftOK, Left
<1> QED
  BY <1>1, <1>2 DEF HostOK

LEMMA HostStep == ASSUME TypeOK, MetasOK, HostOK, [Next]_vars PROVE HostOK'
<1>1. ASSUME NEW h \in HostLens, NEW d \in DeviceLens, MetaIn(h, d) PROVE HostOK'
  BY <1>1, HostMetaIn
<1>2. CASE HostDataIn
  BY <1>2, HostPush
<1>3. CASE NewBuffer
  BY <1>3, HostNewBuffer
<1>4. CASE Write
  BY <1>4, HostPop
<1>5. CASE Idle \/ Notice \/ DmaBeat
  BY <1>5, HostKept DEF Idle, Notice, DmaBeat, inq, regs, hist
<1>6. CASE Others
  BY <1>6, OthersKeep, HostKept DEF regs
<1> QED
  BY <1>1, <1>2, <1>3, <1>4, <1>5, <1>6, NextCases

-----------------------------------------------------------------------------
(* The threads are told in turn.  v counts what thread t has got out of c  *)
(* turns when v rounds and t are the first turn of that thread not before  *)
(* turn c.                                                                 *)
Turn(v, t, c) == v * THREAD_NUM + t \in c..(c + THREAD_NUM - 1)

(* Giving turn c to thread c modulo the number of threads.                 *)
LEMMA TakeTurn ==
  ASSUME NEW c \in Nat, NEW t \in 0..(THREAD_NUM - 1), NEW v \in Int, Turn(v, t, c)
  PROVE  /\ t = c % THREAD_NUM => v = c \div THREAD_NUM /\ Turn(v + 1, t, c + 1)
         /\ t # c % THREAD_NUM => Turn(v, t, c + 1)
<1> DEFINE x == v * THREAD_NUM + t
           q == c \div THREAD_NUM
           r == c % THREAD_NUM
<1>0. THREAD_NUM \in Nat \ {0}
  BY DerToMemAssumption
<1>1. x \in Nat /\ x >= c /\ x <= c + THREAD_NUM - 1 /\ x = THREAD_NUM * v + t
  BY <1>0 DEF Turn
<1>2. c = THREAD_NUM * q + r /\ r \in 0..(THREAD_NUM - 1) /\ q \in Nat
  BY <1>0, DivMod
<1>3. t = x % THREAD_NUM
  BY <1>0, <1>1, Unique
<1> HIDE DEF q, r
<1>4. CASE t = r
  <2>1. ~(v < q)
    <3> SUFFICES ASSUME v < q PROVE FALSE
      OBVIOUS
    <3>1. THREAD_NUM * v + THREAD_NUM <= THREAD_NUM * q
      BY <1>0, <1>2, Mult
    <3> QED
      BY <1>0, <1>1, <1>2, <1>4, <3>1
  <2>2. ~(q < v)
    <3> SUFFICES ASSUME q < v PROVE FALSE
      OBVIOUS
    <3>1. THREAD_NUM * q + THREAD_NUM <= THREAD_NUM * v
      BY <1>0, <1>2, Mult
    <3> QED
      BY <1>0, <1>1, <1>2, <1>4, <3>1
  <2>3. v = q
    BY <1>2, <2>1, <2>2
  <2>4. (v + 1) * THREAD_NUM + t = c + THREAD_NUM
    BY <1>0, <1>2, <1>4, <2>3
  <2> QED
    BY <1>0, <1>4, <2>3, <2>4 DEF Turn, q, r
<1>5. CASE t # r
  <2>1. x # c
    BY <1>3, <1>5 DEF r
  <2> QED
    BY <1>0, <1>1, <1>5, <2>1 DEF Turn, r
<1> QED
  BY <1>4, <1>5

(* The next thread is the next turn modulo the number of threads.          *)
LEMMA NextTurn ==
  ASSUME NEW c \in Nat PROVE NextThread(c % THREAD_NUM) = (c + 1) % THREAD_NUM
<1>1. THREAD_NUM \in Nat \ {0} /\ c % THREAD_NUM \in 0..(THREAD_NUM - 1)
  BY DerToMemAssumption
<1>2. ((c % THREAD_NUM) + 1) % THREAD_NUM = (c + 1) % THREAD_NUM
  BY <1>1, ModStep
<1> DEFINE r == c % THREAD_NUM
<1>3. NextThread(r) = (r + 1) % THREAD_NUM
  <2> HIDE DEF r
  <2>0. r \in 0..(THREAD_NUM - 1)
    BY <1>1 DEF r
  <2>1. CASE r + 1 = THREAD_NUM
    BY <1>1, <2>0, <2>1 DEF NextThread
  <2>2. CASE r + 1 < THREAD_NUM
    BY <1>1, <2>0, <2>2 DEF NextThread
  <2> QED
    BY <1>1, <2>0, <2>1, <2>2
<1> QED
  BY <1>2, <1>3

(* The registers that choose the thread and count for it: Told RPCs have   *)
(* had their notice issued.                                                *)
Told == IF Busy THEN Served - 1 ELSE Served
CountOK ==
  /\ notice_flag = Told % THREAD_NUM
  /\ \A t \in 0..(THREAD_NUM - 1) : Turn(notice_cnt[t] - 1, t, Told)

LEMMA CountNotice ==
  ASSUME TypeOK, MetasOK, CountOK, Notice
  PROVE  /\ CountOK' /\ Told = Served - 1 /\ Told \in Nat
         /\ notice_cnt[notice_flag] = Told \div THREAD_NUM + 1
<1>1. /\ state = "sNotice" /\ state' = "sIdle" /\ UNCHANGED alloc
      /\ notice_flag' = NextThread(notice_flag)
      /\ notice_cnt' = [notice_cnt EXCEPT ![notice_flag] = notice_cnt[notice_flag] + 1]
  BY DEF Notice, CountUp, hist
<1>2. Told = Served - 1 /\ Told \in Nat /\ Told' = Told + 1
  BY <1>1, Sizes DEF Told, Busy, MetasOK, Served
<1>3. notice_flag = Told % THREAD_NUM /\ notice_flag \in 0..(THREAD_NUM - 1)
  BY DEF CountOK, TypeOK, RegsOK
<1>4. \A t \in 0..(THREAD_NUM - 1) : t \in 0..15 /\ notice_cnt[t] \in Nat
  BY DerToMemAssumption DEF TypeOK, RegsOK
<1>5. notice_cnt[notice_flag] = Told \div THREAD_NUM + 1
  <2>1. notice_cnt[notice_flag] - 1 = Told \div THREAD_NUM
    BY <1>2, <1>3, <1>4, TakeTurn DEF CountOK
  <2> QED
    BY <1>3, <1>4, <2>1
<1>6. ASSUME NEW t \in 0..(THREAD_NUM - 1) PROVE Turn(notice_cnt'[t] - 1, t, Told')
  <2>1. Turn(notice_cnt[t] - 1, t, Told) /\ notice_cnt[t] \in Nat
    BY <1>4 DEF CountOK
  <2>2. CASE t = notice_flag
    <3>1. Turn(notice_cnt[t] - 1 + 1, t, Told + 1)
      BY <1>2, <1>3, <2>1, <2>2, TakeTurn
    <3>2. notice_cnt'[t] - 1 = notice_cnt[t] - 1 + 1
      BY <1>1, <1>4, <2>1, <2>2 DEF TypeOK, RegsOK
    <3> QED
      BY <1>2, <3>1, <3>2
  <2>3. CASE t # notice_flag
    <3>1. notice_cnt'[t] = notice_cnt[t]
      BY <1>1, <1>4, <2>3 DEF TypeOK, RegsOK
    <3>2. Turn(notice_cnt[t] - 1, t, Told + 1)
      BY <1>2, <1>3, <2>1, <2>3, TakeTurn
    <3> QED
      BY <1>2, <3>1, <3>2
  <2> QED
    BY <2>2, <2>3
<1>7. notice_flag' = Told' % THREAD_NUM
  BY <1>1, <1>2, <1>3, NextTurn
<1> QED
  BY <1>2, <1>5, <1>6, <1>7 DEF CountOK

LEMMA CountKept ==
  ASSUME CountOK, UNCHANGED <<notice_flag, notice_cnt>>, Told' = Told PROVE CountOK'
  BY DEF CountOK

LEMMA CountStep == ASSUME TypeOK, MetasOK, CountOK, [Next]_vars PROVE CountOK'
<1>1. CASE Notice
  BY <1>1, CountNotice
<1>2. CASE NewBuffer
  <2>1. Served' = Served + 1 /\ Served \in Nat
    BY <1>2, MetasNewBuffer, Sizes
  <2>2. Told' = Told
    BY <1>2, <2>1 DEF NewBuffer, Told, Busy
  <2> QED
    BY <1>2, <2>2, CountKept DEF NewBuffer
<1>3. CASE Write \/ Idle \/ HostDataIn \/ DmaBeat
  <2>1. Told' = Told
    BY <1>3 DEF Write, Idle, HostDataIn, DmaBeat, regs, hist, Told, Busy, Served
  <2> QED
    BY <1>3, <2>1, CountKept DEF Write, Idle, HostDataIn, DmaBeat, regs
<1>4. ASSUME NEW h \in HostLens, NEW d \in DeviceLens, MetaIn(h, d) PROVE CountOK'
  BY <1>4, CountKept DEF MetaIn, regs, Told, Busy, Served
<1>5. CASE Others
  BY <1>5, OthersKeep, CountKept DEF regs, Told, Busy, Served
<1> QED
  BY <1>1, <1>2, <1>3, <1>4, <1>5, NextCases

-----------------------------------------------------------------------------
(* The C2H commands: of every RPC the data command, then the notice.       *)
CmdKey  == [c \in Commands |-> <<c.rpc, c.kind>>]
CmdNext == [c \in Nat \X {"data", "notice"} |->
              IF c[2] = "data" THEN <<c[1], "notice">> ELSE <<c[1] + 1, "data">>]
CmdIn   == IF Busy THEN <<Served, "notice">> ELSE <<Served + 1, "data">>
CmdOut  == IF cmd_q = <<>> THEN CmdIn ELSE CmdKey[cmd_q[1]]
CmdRight(c, al, ms) ==
  /\ c.rpc \in 1..Len(al)
  /\ c.kind = "data" => c.addr = BufferAddr(al[c.rpc]) /\ c.len = 64 * HostBeatsOf(ms, c.rpc)
  /\ c.kind = "notice" => c.addr = ThreadOf(c.rpc) /\ c.len = 64
CmdOK ==
  /\ \A i \in 1..Len(cmd_q) : CmdRight(cmd_q[i], alloc, metas)
  /\ Chain(cmd_q, CmdKey, CmdNext, CmdOut, CmdIn)

LEMMA CmdNextAt ==
  \A n \in Nat : CmdNext[<<n, "data">>] = <<n, "notice">> /\ CmdNext[<<n, "notice">>] = <<n + 1, "data">>
  BY DEF CmdNext

LEMMA CmdKeyAt ==
  \A c \in Commands : /\ CmdKey[c] = <<c.rpc, c.kind>> /\ c.rpc \in 1..MaxRpc
                      /\ c.kind \in {"data", "notice"} /\ c.addr \in Nat /\ c.len \in Nat
  BY DEF CmdKey, Commands

(* More RPCs served or known: what was right stays right.                  *)
LEMMA CmdStaysRight ==
  ASSUME NEW al, NEW bl, NEW ms, NEW ns, Len(al) \in Nat, Len(bl) \in Nat,
         Len(al) <= Len(bl), \A n \in 1..Len(al) : bl[n] = al[n] /\ ns[n] = ms[n],
         NEW c, CmdRight(c, al, ms)
  PROVE  CmdRight(c, bl, ns)
  BY DEF CmdRight, HostBeatsOf

LEMMA CmdGrow ==
  ASSUME TypeOK, CmdOK, \E x \in Commands : cmd_q' = Append(cmd_q, x) /\ CmdKey[x] = CmdIn,
         CmdIn' = CmdNext[CmdIn]
  PROVE  Chain(cmd_q', CmdKey, CmdNext, CmdOut', CmdIn') /\ CmdOut' = CmdOut
<1>0. cmd_q \in Seq(Commands)
  BY DEF TypeOK, PortOK
<1>1. PICK x \in Commands : cmd_q' = Append(cmd_q, x) /\ CmdKey[x] = CmdIn
  OBVIOUS
<1>2. Chain(cmd_q, CmdKey, CmdNext, CmdOut, CmdIn)
  BY DEF CmdOK
<1>3. Chain(Append(cmd_q, x), CmdKey, CmdNext, CmdOut, CmdNext[CmdIn])
  BY <1>0, <1>1, <1>2, ChainPush
<1>4. Chain(cmd_q', CmdKey, CmdNext, CmdOut, CmdIn') /\ cmd_q' \in Seq(Commands)
  BY <1>0, <1>1, <1>3, Push
<1>5. CmdOut = IF cmd_q' = <<>> THEN CmdIn' ELSE CmdKey[cmd_q'[1]]
  BY <1>4, ChainHead
<1> QED
  BY <1>4, <1>5 DEF CmdOut

LEMMA CmdNewBuffer ==
  ASSUME TypeOK, MetasOK, CmdOK, NewBuffer
  PROVE  CmdOK' /\ CmdOut' = CmdOut
<1> DEFINE idx == Head(free_list)
           len == Round64(meta_reg.host_length)
           x == [kind |-> "data", rpc |-> meta_reg.id, addr |-> BufferAddr(idx), len |-> len]
<1>1. /\ Served' = Served + 1 /\ Served \in Nat /\ Served + 1 \in 1..Known
      /\ \A n \in 1..Served : alloc'[n] = alloc[n]
      /\ alloc'[Served + 1] = idx /\ idx \in Entries
  BY MetasNewBuffer, Sizes
<1>2. /\ state = "sNewBuffer" /\ state' = "sWrite" /\ cmd_q' = Append(cmd_q, x)
      /\ meta_reg = metas[Served + 1] /\ UNCHANGED metas /\ meta_reg \in Metas
  BY DEF NewBuffer, MetasOK, TypeOK, RegsOK
<1>3. /\ meta_reg.id = Served + 1 /\ len \in Nat /\ meta_reg.id \in 1..MaxRpc
      /\ len = 64 * HostBeatsOf(metas, Served + 1)
  BY <1>1, <1>2, MetaLens, Rounding DEF MetasOK, HostBeatsOf
<1>4. BufferAddr(idx) \in Nat
  BY <1>1, DerToMemAssumption DEF BufferAddr, Entries
<1>5. /\ x \in Commands /\ x.rpc = Served + 1 /\ x.kind = "data"
      /\ x.addr = BufferAddr(idx) /\ x.len = len
  BY <1>3, <1>4 DEF Commands
<1> HIDE DEF x
<1>6. CmdIn = <<Served + 1, "data">> /\ CmdIn' = <<Served + 1, "notice">>
  BY <1>1, <1>2 DEF CmdIn, Busy
<1>7. CmdKey[x] = CmdIn /\ CmdIn' = CmdNext[CmdIn]
  <2>1. CmdKey[x] = <<Served + 1, "data">>
    BY <1>5, CmdKeyAt
  <2>2. Served + 1 \in Nat
    BY <1>1
  <2>3. CmdNext[<<Served + 1, "data">>] = <<Served + 1, "notice">>
    BY <2>2, CmdNextAt, Zenon
  <2> QED
    BY <1>6, <2>1, <2>3, Zenon
<1>8. Chain(cmd_q', CmdKey, CmdNext, CmdOut', CmdIn') /\ CmdOut' = CmdOut
  BY <1>2, <1>5, <1>7, CmdGrow
<1>9. ASSUME NEW i \in 1..Len(cmd_q') PROVE CmdRight(cmd_q'[i], alloc', metas')
  <2>1. /\ Len(cmd_q') = Len(cmd_q) + 1 /\ Len(cmd_q) \in Nat
        /\ \A j \in 1..Len(cmd_q) : cmd_q'[j] = cmd_q[j]
        /\ cmd_q'[Len(cmd_q) + 1] = x
    BY <1>2, <1>5, Push DEF TypeOK, PortOK
  <2>2. CASE i \in 1..Len(cmd_q)
    <3>1. CmdRight(cmd_q[i], alloc, metas) /\ cmd_q'[i] = cmd_q[i]
      BY <2>1, <2>2 DEF CmdOK
    <3>2. Len(alloc) \in Nat /\ Len(alloc') \in Nat /\ Len(alloc) <= Len(alloc')
          /\ \A n \in 1..Len(alloc) : alloc'[n] = alloc[n] /\ metas'[n] = metas[n]
      BY <1>1, <1>2 DEF Served
    <3> QED
      BY <3>1, <3>2, CmdStaysRight
  <2>3. CASE i = Len(cmd_q) + 1
    <3>1. CmdRight(x, alloc', metas')
      BY <1>1, <1>2, <1>3, <1>5 DEF CmdRight, Served
    <3> QED
      BY <2>1, <2>3, <3>1
  <2> QED
    BY <2>1, <2>2, <2>3
<1> QED
  BY <1>8, <1>9 DEF CmdOK

LEMMA CmdNotice ==
  ASSUME TypeOK, MetasOK, CountOK, CmdOK, Notice
  PROVE  CmdOK' /\ CmdOut' = CmdOut
<1> DEFINE x == [kind |-> "notice", rpc |-> meta_reg.id, addr |-> notice_flag, len |-> 64]
<1>1. /\ state = "sNotice" /\ state' = "sIdle" /\ cmd_q' = Append(cmd_q, x)
      /\ UNCHANGED <<metas, alloc>> /\ meta_reg \in Metas
  BY DEF Notice, hist, TypeOK, RegsOK
<1>2. Served \in 1..Known /\ meta_reg = metas[Served] /\ Served' = Served
  BY <1>1, Sizes DEF MetasOK, Busy, Served
<1>3. meta_reg.id = Served /\ meta_reg.id \in 1..MaxRpc
  BY <1>1, <1>2, MetaLens DEF MetasOK
<1>4. notice_flag = ThreadOf(Served) /\ notice_flag \in Nat
  BY CountNotice DEF CountOK, ThreadOf, TypeOK, RegsOK
<1>5. /\ x \in Commands /\ x.rpc = Served /\ x.kind = "notice"
      /\ x.addr = ThreadOf(Served) /\ x.len = 64
  BY <1>3, <1>4 DEF Commands
<1> HIDE DEF x
<1>6. CmdIn = <<Served, "notice">> /\ CmdIn' = <<Served + 1, "data">>
  BY <1>1, <1>2 DEF CmdIn, Busy
<1>7. CmdKey[x] = CmdIn /\ CmdIn' = CmdNext[CmdIn]
  BY <1>2, <1>5, <1>6, CmdKeyAt, CmdNextAt, Sizes
<1>8. Chain(cmd_q', CmdKey, CmdNext, CmdOut', CmdIn') /\ CmdOut' = CmdOut
  BY <1>1, <1>5, <1>7, CmdGrow
<1>9. ASSUME NEW i \in 1..Len(cmd_q') PROVE CmdRight(cmd_q'[i], alloc, metas)
  <2>1. /\ Len(cmd_q') = Len(cmd_q) + 1 /\ Len(cmd_q) \in Nat
        /\ \A j \in 1..Len(cmd_q) : cmd_q'[j] = cmd_q[j]
        /\ cmd_q'[Len(cmd_q) + 1] = x
    BY <1>1, <1>5, Push DEF TypeOK, PortOK
  <2>2. CASE i \in 1..Len(cmd_q)
    BY <2>1, <2>2 DEF CmdOK
  <2>3. CASE i = Len(cmd_q) + 1
    <3>1. CmdRight(x, alloc, metas)
      BY <1>2, <1>5, Sizes DEF CmdRight, Served
    <3> QED
      BY <2>1, <2>3, <3>1
  <2> QED
    BY <2>1, <2>2, <2>3
<1> QED
  BY <1>1, <1>8, <1>9 DEF CmdOK

(* The DMA ends a command, or goes on with it.                             *)
LEMMA CmdDma ==
  ASSUME TypeOK, CmdOK, DmaBeat
  PROVE  /\ CmdOK' /\ Head(cmd_q) = cmd_q[1] /\ cmd_q[1] \in Commands
         /\ CmdOut = <<cmd_q[1].rpc, cmd_q[1].kind>>
         /\ CmdRight(cmd_q[1], alloc, metas)
         /\ CmdOut' = IF Head(data_q).last THEN CmdNext[CmdOut] ELSE CmdOut
         /\ cmd_q' # <<>> => CmdOut'[1] \in 1..Served
<1>1. /\ cmd_q \in Seq(Commands) /\ cmd_q # <<>> /\ UNCHANGED <<metas, alloc, state>>
      /\ IF Head(data_q).last THEN cmd_q' = Tail(cmd_q) ELSE UNCHANGED cmd_q
  BY DEF TypeOK, PortOK, DmaBeat, hist, regs
<1>2. Head(cmd_q) = cmd_q[1] /\ cmd_q[1] \in Commands /\ 1 \in 1..Len(cmd_q)
  BY <1>1, Pop
<1>3. CmdOut = <<cmd_q[1].rpc, cmd_q[1].kind>> /\ CmdRight(cmd_q[1], alloc, metas)
  BY <1>1, <1>2, CmdKeyAt DEF CmdOut, CmdOK
<1>4. CmdIn' = CmdIn
  BY <1>1 DEF CmdIn, Busy, Served
<1>5. CASE Head(data_q).last
  <2>1. Chain(cmd_q, CmdKey, CmdNext, CmdOut, CmdIn)
    BY DEF CmdOK
  <2>2. Chain(Tail(cmd_q), CmdKey, CmdNext, CmdNext[CmdOut], CmdIn)
    BY <1>1, <2>1, ChainPop
  <2>3. /\ Chain(cmd_q', CmdKey, CmdNext, CmdNext[CmdOut], CmdIn')
        /\ cmd_q' \in Seq(Commands) /\ Len(cmd_q') = Len(cmd_q) - 1 /\ Len(cmd_q) \in Nat
        /\ \A i \in 1..Len(cmd_q') : cmd_q'[i] = cmd_q[i + 1]
    <3>1. cmd_q' = Tail(cmd_q)
      BY <1>1, <1>5
    <3>2. /\ cmd_q' \in Seq(Commands) /\ Len(cmd_q') = Len(cmd_q) - 1 /\ Len(cmd_q) \in Nat
          /\ \A i \in 1..Len(cmd_q') : cmd_q'[i] = cmd_q[i + 1]
      BY <1>1, <3>1, Pop
    <3> QED
      BY <1>4, <2>2, <3>1, <3>2
  <2>4. CmdNext[CmdOut] = IF cmd_q' = <<>> THEN CmdIn' ELSE CmdKey[cmd_q'[1]]
    BY <2>3, ChainHead
  <2>5. CmdOut' = CmdNext[CmdOut]
    BY <2>4 DEF CmdOut
  <2>6. ASSUME NEW i \in 1..Len(cmd_q') PROVE CmdRight(cmd_q'[i], alloc', metas')
    <3>1. cmd_q'[i] = cmd_q[i + 1] /\ i + 1 \in 1..Len(cmd_q)
      BY <2>3
    <3> QED
      BY <1>1, <3>1 DEF CmdOK
  <2>7. cmd_q' # <<>> => CmdOut'[1] \in 1..Served
    <3> SUFFICES ASSUME cmd_q' # <<>> PROVE CmdOut'[1] \in 1..Served
      OBVIOUS
    <3>1. cmd_q'[1] \in Commands /\ 1 \in 1..Len(cmd_q')
      BY <2>3, Pop
    <3>2. CmdOut' = <<cmd_q'[1].rpc, cmd_q'[1].kind>>
      BY <3>1, CmdKeyAt DEF CmdOut
    <3>3. CmdRight(cmd_q'[1], alloc, metas)
      BY <1>1, <2>6, <3>1
    <3> QED
      BY <3>2, <3>3 DEF CmdRight, Served
  <2> QED
    BY <1>2, <1>3, <1>5, <2>3, <2>5, <2>6, <2>7 DEF CmdOK
<1>6. CASE ~Head(data_q).last
  <2>1. UNCHANGED cmd_q
    BY <1>1, <1>6
  <2>2. CmdOut' = CmdOut /\ CmdOK'
    BY <1>1, <1>4, <2>1 DEF CmdOut, CmdOK
  <2>3. CmdOut[1] \in 1..Served
    BY <1>3 DEF CmdRight, Served
  <2> QED
    BY <1>2, <1>3, <1>6, <2>2, <2>3
<1> QED
  BY <1>5, <1>6

LEMMA CmdKept ==
  ASSUME CmdOK, UNCHANGED <<metas, alloc, cmd_q, Busy>> PROVE CmdOK' /\ CmdOut' = CmdOut
<1>1. CmdIn' = CmdIn
  BY DEF CmdIn, Served
<1>2. CmdOut' = CmdOut
  BY <1>1 DEF CmdOut
<1> QED
  BY <1>1, <1>2 DEF CmdOK

LEMMA CmdMetaIn ==
  ASSUME TypeOK, MetasOK, CmdOK, NEW h \in HostLens, NEW d \in DeviceLens, MetaIn(h, d)
  PROVE  CmdOK' /\ CmdOut' = CmdOut
<1>1. /\ \A n \in 1..Known : metas'[n] = metas[n]
      /\ UNCHANGED <<cmd_q, alloc, state>>
  BY MetasMetaIn DEF MetaIn, port, regs
<1>2. /\ Len(alloc) \in Nat /\ \A n \in 1..Len(alloc) : metas'[n] = metas[n]
  BY <1>1, Sizes DEF MetasOK, Served
<1>3. ASSUME NEW i \in 1..Len(cmd_q) PROVE CmdRight(cmd_q[i], alloc, metas')
  <2>1. CmdRight(cmd_q[i], alloc, metas)
    BY DEF CmdOK
  <2> QED
    BY <1>2, <2>1 DEF CmdRight, HostBeatsOf
<1>4. CmdIn' = CmdIn
  BY <1>1 DEF CmdIn, Busy, Served
<1>5. CmdOut' = CmdOut
  BY <1>1, <1>4 DEF CmdOut
<1> QED
  BY <1>1, <1>3, <1>4, <1>5 DEF CmdOK

LEMMA CmdStep == ASSUME TypeOK, MetasOK, CountOK, CmdOK, [Next]_vars PROVE CmdOK'
<1>1. ASSUME NEW h \in HostLens, NEW d \in DeviceLens, MetaIn(h, d) PROVE CmdOK'
  BY <1>1, CmdMetaIn
<1>2. CASE NewBuffer
  BY <1>2, CmdNewBuffer
<1>3. CASE Notice
  BY <1>3, CmdNotice
<1>4. CASE DmaBeat
  BY <1>4, CmdDma
<1>5. CASE Idle \/ Write \/ HostDataIn
  BY <1>5, CmdKept DEF Idle, Write, HostDataIn, port, regs, hist, Busy
<1>6. CASE Others
  BY <1>6, OthersKeep, CmdKept DEF regs, Busy
<1> QED
  BY <1>1, <1>2, <1>3, <1>4, <1>5, <1>6, NextCases

-----------------------------------------------------------------------------
(* The C2H beats: of every RPC the host beats, then <<n, 0>>, the notice.  *)
(* The reader is the DMA, at the offset it has reached in its command.     *)
ThreadCount(n) == (n - 1) \div THREAD_NUM + 1
BeatNext == [c \in Places |-> IF c[2] = 0 THEN <<c[1] + 1, 1>>
                              ELSE IF c[2] = HB(c[1]) THEN <<c[1], 0>> ELSE <<c[1], c[2] + 1>>]
BeatKey  == [b \in DataBeats |-> b.data]
Writer   == IF state = "sNotice" THEN <<Served, 0>> ELSE HostOut
Off      == dma_off \div 64
Dma      == IF CmdOut[2] = "data" THEN <<CmdOut[1], Off + 1>> ELSE <<CmdOut[1], 0>>
DmaOK    ==
  /\ dma_off = 64 * Off
  /\ (cmd_q = <<>> \/ CmdOut[2] = "notice") => dma_off = 0
  /\ (cmd_q # <<>> /\ CmdOut[2] = "data") => Off < HB(CmdOut[1])
BeatRight(b, served, ms) ==
  /\ b.data[1] \in 1..served /\ b.data[2] \in 0..HostBeatsOf(ms, b.data[1])
  /\ b.last <=> (b.data[2] = 0 \/ b.data[2] = HostBeatsOf(ms, b.data[1]))
  /\ b.data[2] = 0 => b.count = ThreadCount(b.data[1])
BeatOK ==
  /\ DmaOK
  /\ \A i \in 1..Len(data_q) : BeatRight(data_q[i], Served, metas)
  /\ Chain(data_q, BeatKey, BeatNext, Dma, Writer)

LEMMA BeatNextAt ==
  \A n, k \in Nat : BeatNext[<<n, k>>] =
    IF k = 0 THEN <<n + 1, 1>> ELSE IF k = HB(n) THEN <<n, 0>> ELSE <<n, k + 1>>
  BY DEF BeatNext, Places

LEMMA BeatKeyAt ==
  \A b \in DataBeats : /\ BeatKey[b] = b.data /\ b.data = <<b.data[1], b.data[2]>>
                       /\ b.data[1] \in 1..MaxRpc /\ b.data[2] \in Nat
                       /\ b.last \in BOOLEAN /\ b.count \in Nat
  BY DEF BeatKey, DataBeats, Beat

LEMMA CmdOutIs ==
  ASSUME TypeOK, MetasOK, CmdOK
  PROVE  /\ CmdOut[1] \in 1..(Served + 1) /\ CmdOut[2] \in {"data", "notice"}
         /\ CmdOut = <<CmdOut[1], CmdOut[2]>>
         /\ cmd_q # <<>> => CmdOut[1] \in 1..Served
         /\ cmd_q = <<>> => CmdOut = CmdIn
<1>1. CASE cmd_q = <<>>
  BY <1>1, Sizes DEF CmdOut, CmdIn, MetasOK
<1>2. CASE cmd_q # <<>>
  <2>1. cmd_q[1] \in Commands /\ 1 \in 1..Len(cmd_q)
    BY <1>2, Pop DEF TypeOK, PortOK
  <2>2. CmdOut = <<cmd_q[1].rpc, cmd_q[1].kind>> /\ cmd_q[1].kind \in {"data", "notice"}
    BY <1>2, <2>1, CmdKeyAt DEF CmdOut
  <2>3. cmd_q[1].rpc \in 1..Served
    BY <2>1 DEF CmdOK, CmdRight, Served
  <2> QED
    BY <1>2, <2>2, <2>3, Sizes
<1> QED
  BY <1>1, <1>2

(* A push of a beat that belongs at the writer's place.                    *)
Pushes(x) == /\ data_q' = Append(data_q, x) /\ x.data = Writer
             /\ BeatRight(x, Served, metas)

LEMMA BeatGrow ==
  ASSUME TypeOK, BeatOK, \E x \in DataBeats : Pushes(x), UNCHANGED <<metas, alloc>>,
         Dma' = Dma, Writer' = BeatNext[Writer], DmaOK'
  PROVE  BeatOK'
<1>0. data_q \in Seq(DataBeats)
  BY DEF TypeOK, PortOK
<1>1. PICK x \in DataBeats : Pushes(x)
  OBVIOUS
<1>2. BeatKey[x] = Writer /\ data_q' = Append(data_q, x) /\ BeatRight(x, Served, metas)
  BY <1>1, BeatKeyAt DEF Pushes
<1>3. Chain(data_q, BeatKey, BeatNext, Dma, Writer)
  BY DEF BeatOK
<1>4. Chain(Append(data_q, x), BeatKey, BeatNext, Dma, BeatNext[Writer])
  BY <1>0, <1>2, <1>3, ChainPush
<1>5. BeatNext' = BeatNext /\ Served' = Served
  BY DEF BeatNext, HB, Served
<1>6. /\ Len(data_q') = Len(data_q) + 1 /\ Len(data_q) \in Nat
      /\ \A i \in 1..Len(data_q) : data_q'[i] = data_q[i]
      /\ data_q'[Len(data_q) + 1] = x
  BY <1>0, <1>2, Push
<1>7. ASSUME NEW i \in 1..Len(data_q') PROVE BeatRight(data_q'[i], Served, metas)
  <2>1. CASE i \in 1..Len(data_q)
    BY <1>6, <2>1 DEF BeatOK
  <2>2. CASE i = Len(data_q) + 1
    BY <1>2, <1>6, <2>2
  <2> QED
    BY <1>6, <2>1, <2>2
<1> QED
  BY <1>2, <1>4, <1>5, <1>7 DEF BeatOK

LEMMA BeatWrite ==
  ASSUME TypeOK, MetasOK, HostOK, CmdOK, BeatOK, Write PROVE BeatOK'
<1> DEFINE hb == HB(Served)
           k  == hb - Left + 1
           x  == [data |-> Head(host_fifo), count |-> 0, last |-> LastBeat(host_length)]
<1>1. /\ state = "sWrite" /\ data_q' = Append(data_q, x)
      /\ IF LastBeat(host_length) THEN state' = "sNotice" ELSE UNCHANGED state
      /\ UNCHANGED <<metas, alloc, cmd_q, dma_off>> /\ host_fifo # <<>>
  BY DEF Write, hist
<1>2. /\ Head(host_fifo) = <<Served, k>> /\ (LastBeat(host_length) <=> Left = 1)
      /\ ~LastBeat(host_length) => Left' = Left - 1
  BY HostPop
<1>3. Served \in 1..Known /\ hb \in Nat /\ hb > 0 /\ Left \in 1..hb
  BY <1>1, Sizes DEF MetasOK, Busy, HostOK, LeftOK
<1>4. k \in 1..hb /\ (k = hb <=> LastBeat(host_length))
  BY <1>2, <1>3
<1>5. x \in DataBeats /\ x.data = <<Served, k>> /\ x.last = LastBeat(host_length)
  <2>1. Head(host_fifo) \in Beat
    BY <1>1, Pop, HostBeats
  <2>2. LastBeat(host_length) \in BOOLEAN
    BY DEF LastBeat
  <2> QED
    BY <1>2, <2>1, <2>2 DEF DataBeats
<1> HIDE DEF x
<1>6. Writer = <<Served, k>>
  BY <1>1 DEF Writer, HostOut
<1>7. BeatRight(x, Served, metas)
  <2>1. x.data[1] = Served /\ x.data[2] = k
    BY <1>5
  <2>2. HostBeatsOf(metas, Served) = hb
    BY DEF HB
  <2>3. x.last <=> (k = 0 \/ k = hb)
    BY <1>3, <1>4, <1>5
  <2> QED
    BY <1>3, <1>4, <2>1, <2>2, <2>3 DEF BeatRight
<1>8. Writer' = BeatNext[Writer]
  <2>1. BeatNext[<<Served, k>>] = IF k = hb THEN <<Served, 0>> ELSE <<Served, k + 1>>
    <3>1. Served \in Nat /\ k \in Nat /\ k # 0
      BY <1>3, <1>4, Sizes
    <3> HIDE DEF k
    <3> QED
      BY <3>1, BeatNextAt
  <2>2. Served' = Served /\ HB(Served)' = hb
    BY <1>1 DEF Served, HB
  <2>3. CASE LastBeat(host_length)
    BY <1>1, <1>4, <1>6, <2>1, <2>2, <2>3 DEF Writer
  <2>4. CASE ~LastBeat(host_length)
    <3>1. Writer' = <<Served, hb - (Left - 1) + 1>>
      BY <1>1, <1>2, <2>2, <2>4 DEF Writer, HostOut
    <3>2. hb - (Left - 1) + 1 = k + 1
      BY <1>3
    <3> QED
      BY <1>4, <1>6, <2>1, <2>4, <3>1, <3>2
  <2> QED
    BY <2>3, <2>4
<1>9. CmdOut' = CmdOut
  BY <1>1, CmdKept DEF Busy
<1>10. Dma' = Dma /\ DmaOK'
  BY <1>1, <1>9 DEF Dma, Off, DmaOK, HB, BeatOK
<1>11. \E y \in DataBeats : Pushes(y)
  BY <1>1, <1>5, <1>6, <1>7 DEF Pushes
<1> QED
  BY <1>1, <1>8, <1>10, <1>11, BeatGrow

LEMMA BeatNotice ==
  ASSUME TypeOK, MetasOK, CountOK, CmdOK, BeatOK, Notice PROVE BeatOK'
<1> DEFINE x == [data |-> <<meta_reg.id, 0>>, count |-> notice_cnt[notice_flag], last |-> TRUE]
<1>1. /\ state = "sNotice" /\ state' = "sIdle" /\ data_q' = Append(data_q, x)
      /\ UNCHANGED <<metas, alloc, dma_off>> /\ meta_reg \in Metas
  BY DEF Notice, hist, TypeOK, RegsOK
<1>2. Served \in 1..Known /\ meta_reg = metas[Served] /\ Served' = Served
      /\ HB(Served) \in Nat
  BY <1>1, Sizes DEF MetasOK, Busy, Served
<1>3. meta_reg.id = Served /\ meta_reg.id \in 1..MaxRpc
  BY <1>1, <1>2, MetaLens DEF MetasOK
<1>4. notice_cnt[notice_flag] = ThreadCount(Served) /\ notice_cnt[notice_flag] \in Nat
  BY CountNotice, DerToMemAssumption DEF ThreadCount, TypeOK, RegsOK
<1>5. /\ x \in DataBeats /\ x.data = <<Served, 0>> /\ x.count = ThreadCount(Served)
      /\ x.last
  BY <1>3, <1>4 DEF DataBeats, Beat
<1> HIDE DEF x
<1>6. Writer = <<Served, 0>> /\ Writer' = <<Served + 1, 1>>
  BY <1>1, <1>2 DEF Writer, HostOut
<1>7. BeatRight(x, Served, metas)
  BY <1>2, <1>5, Sizes DEF BeatRight, HB
<1>8. Writer' = BeatNext[Writer]
  BY <1>2, <1>6, BeatNextAt, Sizes
<1>9. CmdOut' = CmdOut /\ CmdOK'
  BY CmdNotice
<1>10. cmd_q = <<>> => CmdOut = <<Served, "notice">>
  BY <1>1, CmdOutIs DEF CmdIn, Busy
<1>11. Dma' = Dma /\ DmaOK'
  <2>1. cmd_q' # <<>>
    BY DEF Notice, TypeOK, PortOK
  <2>2. Off' = Off /\ Dma' = Dma
    BY <1>1, <1>9 DEF Off, Dma
  <2>3. HB(CmdOut[1])' = HB(CmdOut[1])
    BY <1>1, <1>9 DEF HB
  <2> QED
    BY <1>1, <1>9, <1>10, <2>1, <2>2, <2>3 DEF DmaOK, BeatOK
<1>12. \E y \in DataBeats : Pushes(y)
  BY <1>1, <1>5, <1>6, <1>7 DEF Pushes
<1> QED
  BY <1>1, <1>8, <1>11, <1>12, BeatGrow

(* What the DMA has at hand when it takes a beat.                          *)
LEMMA AtTheDma ==
  ASSUME TypeOK, MetasOK, CmdOK, BeatOK, cmd_q # <<>>, data_q # <<>>
  PROVE  \E n \in 1..Served :
           /\ CmdOut \in {<<n, "data">>, <<n, "notice">>} /\ CmdOut[1] = n
           /\ Head(cmd_q) = cmd_q[1] /\ cmd_q[1].rpc = n /\ cmd_q[1].kind = CmdOut[2]
           /\ CmdRight(cmd_q[1], alloc, metas)
           /\ n \in 1..Known /\ HB(n) \in Nat /\ HB(n) > 0 /\ Off \in Nat
           /\ Head(data_q).data = Dma /\ BeatRight(Head(data_q), Served, metas)
           /\ Head(data_q).last \in BOOLEAN
<1>1. cmd_q \in Seq(Commands) /\ data_q \in Seq(DataBeats) /\ dma_off \in Nat
  BY DEF TypeOK, PortOK
<1>2. Head(cmd_q) = cmd_q[1] /\ cmd_q[1] \in Commands /\ 1 \in 1..Len(cmd_q)
  BY <1>1, Pop
<1>3. Head(data_q) = data_q[1] /\ data_q[1] \in DataBeats /\ 1 \in 1..Len(data_q)
  BY <1>1, Pop
<1> DEFINE n == cmd_q[1].rpc
<1>4. CmdOut = <<n, cmd_q[1].kind>> /\ CmdRight(cmd_q[1], alloc, metas)
      /\ cmd_q[1].kind \in {"data", "notice"}
  BY <1>1, <1>2, CmdKeyAt DEF CmdOut, CmdOK
<1>5. n \in 1..Served /\ n \in 1..Known
  BY <1>4, Sizes DEF CmdRight, MetasOK, Served
<1>6. HB(n) \in Nat /\ HB(n) > 0 /\ Off \in Nat
  <2>1. Off \in Nat
    BY <1>1 DEF Off
  <2> HIDE DEF n
  <2>2. HB(n) \in Nat /\ HB(n) > 0
    BY <1>5, Sizes, Zenon
  <2> QED
    BY <2>1, <2>2
<1>7. Head(data_q).data = Dma /\ BeatRight(Head(data_q), Served, metas)
      /\ Head(data_q).last \in BOOLEAN
  <2>1. Chain(data_q, BeatKey, BeatNext, Dma, Writer)
    BY DEF BeatOK
  <2>2. BeatKey[Head(data_q)] = Dma
    BY <1>1, <2>1, ChainPop
  <2> QED
    BY <1>3, <2>2, BeatKeyAt DEF BeatOK
<1> QED
  BY <1>2, <1>4, <1>5, <1>6, <1>7

(* The beat the DMA takes is the last of its command exactly when it       *)
(* completes the length.                                                   *)
LEMMA LastIsLast ==
  ASSUME TypeOK, MetasOK, CmdOK, BeatOK, cmd_q # <<>>, data_q # <<>>
  PROVE  /\ CmdOut[2] = "data" => (Head(data_q).last <=> Off + 1 = HB(CmdOut[1]))
         /\ CmdOut[2] = "notice" => Head(data_q).last
         /\ Head(data_q).last <=> dma_off + 64 = Head(cmd_q).len
<1>1. PICK n \in 1..Served :
           /\ CmdOut \in {<<n, "data">>, <<n, "notice">>} /\ CmdOut[1] = n
           /\ Head(cmd_q) = cmd_q[1] /\ cmd_q[1].rpc = n /\ cmd_q[1].kind = CmdOut[2]
           /\ CmdRight(cmd_q[1], alloc, metas)
           /\ n \in 1..Known /\ HB(n) \in Nat /\ HB(n) > 0 /\ Off \in Nat
           /\ Head(data_q).data = Dma /\ BeatRight(Head(data_q), Served, metas)
           /\ Head(data_q).last \in BOOLEAN
  BY AtTheDma
<1>2. dma_off = 64 * Off /\ (CmdOut[2] = "notice" => dma_off = 0)
  BY DEF BeatOK, DmaOK
<1>3. CASE CmdOut = <<n, "data">>
  <2>1. Head(data_q).data[1] = n /\ Head(data_q).data[2] = Off + 1 /\ CmdOut[2] = "data"
    BY <1>1, <1>3 DEF Dma
  <2>2. Head(data_q).last <=> Off + 1 = HB(n)
    BY <1>1, <2>1 DEF BeatRight, HB
  <2>3. Head(cmd_q).len = 64 * HB(n)
    BY <1>1, <2>1 DEF CmdRight, HB
  <2>4. dma_off + 64 = Head(cmd_q).len <=> Off + 1 = HB(n)
    BY <1>1, <1>2, <2>3
  <2> QED
    BY <1>1, <2>1, <2>2, <2>4
<1>4. CASE CmdOut = <<n, "notice">>
  <2>1. Head(data_q).data[2] = 0 /\ CmdOut[2] = "notice"
    BY <1>1, <1>4 DEF Dma
  <2>2. Head(data_q).last /\ Head(cmd_q).len = 64
    BY <1>1, <2>1 DEF BeatRight, CmdRight
  <2> QED
    BY <1>2, <2>1, <2>2
<1> QED
  BY <1>1, <1>3, <1>4

LEMMA BeatDma ==
  ASSUME TypeOK, MetasOK, CmdOK, BeatOK, DmaBeat
  PROVE  BeatOK' /\ Dma' = BeatNext[Dma]
<1> DEFINE last == Head(data_q).last
<1>0. /\ cmd_q # <<>> /\ data_q # <<>> /\ data_q \in Seq(DataBeats)
      /\ UNCHANGED <<metas, alloc, state, host_length>> /\ data_q' = Tail(data_q)
      /\ IF last THEN dma_off' = 0 ELSE dma_off' = dma_off + 64 /\ UNCHANGED cmd_q
  BY DEF DmaBeat, TypeOK, PortOK, hist, regs
<1>a. PICK n \in 1..Served :
      /\ CmdOut \in {<<n, "data">>, <<n, "notice">>} /\ CmdOut[1] = n
      /\ HB(n) \in Nat /\ HB(n) > 0 /\ Off \in Nat /\ last \in BOOLEAN
  BY <1>0, AtTheDma
<1>1. /\ CmdOut \in {<<n, "data">>, <<n, "notice">>} /\ CmdOut[1] = n /\ n \in Nat
      /\ HB(n) \in Nat /\ HB(n) > 0 /\ Off \in Nat /\ last \in BOOLEAN
  BY <1>a, Sizes
<1>2. /\ CmdOut[2] = "data" => (last <=> Off + 1 = HB(n))
      /\ CmdOut[2] = "notice" => last
  BY <1>0, <1>a, LastIsLast
<1>3. /\ CmdOut' = IF last THEN CmdNext[CmdOut] ELSE CmdOut
      /\ cmd_q' # <<>> => CmdOut'[1] \in 1..Served
  BY CmdDma
<1>4. /\ \A m : HB(m)' = HB(m) /\ BeatNext' = BeatNext /\ Served' = Served
      /\ Writer' = Writer
  BY <1>0 DEF HB, BeatNext, Served, Writer, HostOut, Left
<1>5. dma_off = 64 * Off /\ (CmdOut[2] = "notice" => dma_off = 0)
  BY DEF BeatOK, DmaOK
<1>6. Dma' = BeatNext[Dma] /\ DmaOK'
  <2>0. last => Off' = 0 /\ dma_off' = 0
    BY <1>0 DEF Off
  <2>1. CASE CmdOut = <<n, "notice">>
    <3>1. last /\ Dma = <<n, 0>> /\ CmdOut' = <<n + 1, "data">>
      <4>1. CmdOut[2] = "notice" /\ CmdOut[2] # "data" /\ CmdOut[1] = n
        BY <2>1
      <4>2. CmdNext[CmdOut] = <<n + 1, "data">>
        BY <1>1, <2>1, CmdNextAt
      <4> QED
        BY <1>2, <1>3, <4>1, <4>2 DEF Dma
    <3>2. Dma' = <<n + 1, 1>>
      BY <2>0, <3>1 DEF Dma
    <3>3. BeatNext[<<n, 0>>] = <<n + 1, 1>>
      BY <1>1, BeatNextAt
    <3>4. cmd_q' # <<>> => HB(n + 1) > 0
      <4>1. cmd_q' # <<>> => n + 1 \in 1..Known
        BY <1>1, <1>3, <3>1, Sizes DEF MetasOK
      <4> QED
        BY <4>1, Sizes
    <3> QED
      BY <2>0, <3>1, <3>2, <3>3, <3>4, <1>4 DEF DmaOK
  <2>2. CASE CmdOut = <<n, "data">> /\ last
    <3>1. Dma = <<n, HB(n)>> /\ CmdOut' = <<n, "notice">>
      <4>1. CmdOut[2] = "data" /\ CmdOut[1] = n
        BY <2>2
      <4>2. CmdNext[CmdOut] = <<n, "notice">>
        BY <1>1, <2>2, CmdNextAt
      <4> QED
        BY <1>2, <1>3, <2>2, <4>1, <4>2 DEF Dma
    <3>2. Dma' = <<n, 0>>
      BY <3>1 DEF Dma
    <3>3. BeatNext[<<n, HB(n)>>] = <<n, 0>>
      <4>1. n \in Nat /\ HB(n) \in Nat /\ HB(n) # 0
        BY <1>1
      <4> QED
        BY <4>1, BeatNextAt
    <3> QED
      BY <2>0, <2>2, <3>1, <3>2, <3>3 DEF DmaOK
  <2>3. CASE CmdOut = <<n, "data">> /\ ~last
    <3>1. CmdOut' = <<n, "data">> /\ dma_off' = 64 * (Off + 1) /\ cmd_q' # <<>>
      BY <1>0, <1>1, <1>3, <1>5, <2>3
    <3>2. Off' = Off + 1
      <4>1. (64 * (Off + 1)) \div 64 = Off + 1
        BY <1>1
      <4> QED
        BY <3>1, <4>1 DEF Off
    <3>3. Dma = <<n, Off + 1>> /\ Dma' = <<n, Off + 2>>
      BY <1>1, <2>3, <3>1, <3>2 DEF Dma
    <3>4. Off + 1 < HB(n)
      <4>1. CmdOut[2] = "data"
        BY <2>3
      <4>2. Off < HB(n) /\ Off + 1 # HB(n)
        BY <1>0, <1>2, <2>3, <4>1 DEF BeatOK, DmaOK
      <4> QED
        BY <1>1, <4>2
    <3>5. BeatNext[<<n, Off + 1>>] = <<n, Off + 2>>
      <4>1. n \in Nat /\ Off + 1 \in Nat /\ Off + 1 # 0 /\ Off + 1 # HB(n)
            /\ (Off + 1) + 1 = Off + 2
        BY <1>1, <3>4
      <4> QED
        BY <4>1, BeatNextAt
    <3>6. DmaOK'
      <4>1. HB(CmdOut[1])' = HB(n)
        BY <1>0, <3>1 DEF HB
      <4> QED
        BY <3>1, <3>2, <3>4, <4>1 DEF DmaOK
    <3> QED
      BY <3>3, <3>5, <3>6
  <2> QED
    BY <1>1, <2>1, <2>2, <2>3
<1>7. Chain(data_q', BeatKey, BeatNext, BeatNext[Dma], Writer)
  <2>1. Chain(data_q, BeatKey, BeatNext, Dma, Writer)
    BY DEF BeatOK
  <2>2. Chain(Tail(data_q), BeatKey, BeatNext, BeatNext[Dma], Writer)
    BY <1>0, <2>1, ChainPop
  <2> QED
    BY <1>0, <2>2
<1>8. ASSUME NEW i \in 1..Len(data_q') PROVE BeatRight(data_q'[i], Served, metas)
  <2>1. data_q'[i] = data_q[i + 1] /\ i + 1 \in 1..Len(data_q)
    BY <1>0, Pop
  <2> QED
    BY <2>1 DEF BeatOK
<1> QED
  BY <1>0, <1>4, <1>6, <1>7, <1>8 DEF BeatOK

LEMMA BeatMetaIn ==
  ASSUME TypeOK, MetasOK, HostOK, CmdOK, BeatOK, NEW h \in HostLens, NEW d \in DeviceLens,
         MetaIn(h, d)
  PROVE  BeatOK' /\ Dma' = Dma
<1>1. /\ \A n \in 1..Known : metas'[n] = metas[n]
      /\ UNCHANGED <<cmd_q, data_q, dma_off, alloc, state>>
  BY MetasMetaIn DEF MetaIn, port, regs
<1>2. HostOut' = HostOut /\ CmdOut' = CmdOut /\ Served' = Served /\ Off' = Off
  BY <1>1, HostMetaIn, CmdMetaIn DEF Served, Off
<1>3. Writer' = Writer /\ Dma' = Dma
  BY <1>1, <1>2 DEF Writer, Dma
<1>4. \A n \in 1..Served : HostBeatsOf(metas', n) = HB(n) /\ n \in Nat
  BY <1>1, Sizes DEF MetasOK, HB, HostBeatsOf
<1>5. DmaOK'
  <2>1. cmd_q # <<>> => HostBeatsOf(metas', CmdOut[1]) = HB(CmdOut[1])
    BY <1>4, CmdOutIs
  <2> QED
    BY <1>1, <1>2, <2>1 DEF DmaOK, BeatOK, HB
<1>6. ASSUME NEW i \in 1..Len(data_q)
      PROVE  /\ BeatRight(data_q[i], Served, metas')
             /\ BeatNext[BeatKey[data_q[i]]] = BeatNext'[BeatKey[data_q[i]]]
  <2>1. data_q[i] \in DataBeats /\ BeatRight(data_q[i], Served, metas)
    BY EmptyQueue DEF BeatOK, TypeOK, PortOK
  <2>2. PICK n, k : data_q[i].data = <<n, k>> /\ n \in 1..Served /\ k \in Nat
    BY <2>1, BeatKeyAt DEF BeatRight
  <2>3. HostBeatsOf(metas', n) = HB(n) /\ n \in Nat
    BY <1>4, <2>2
  <2>4. BeatRight(data_q[i], Served, metas')
    BY <2>1, <2>2, <2>3 DEF BeatRight, HB
  <2>5. BeatNext'[<<n, k>>] = IF k = 0 THEN <<n + 1, 1>>
                              ELSE IF k = HostBeatsOf(metas', n) THEN <<n, 0>> ELSE <<n, k + 1>>
    BY <2>2, <2>3 DEF BeatNext, Places, HB
  <2>6. BeatNext[<<n, k>>] = BeatNext'[<<n, k>>]
    BY <2>2, <2>3, <2>5, BeatNextAt
  <2> QED
    BY <2>1, <2>2, <2>4, <2>6, BeatKeyAt
<1>7. Chain(data_q, BeatKey, BeatNext', Dma, Writer)
  <2>1. Chain(data_q, BeatKey, BeatNext, Dma, Writer) /\ data_q \in Seq(DataBeats)
    BY DEF BeatOK, TypeOK, PortOK
  <2> QED
    BY <1>6, <2>1, ChainSame
<1> QED
  BY <1>1, <1>2, <1>3, <1>5, <1>6, <1>7 DEF BeatOK

LEMMA BeatNewBuffer ==
  ASSUME TypeOK, MetasOK, HostOK, CmdOK, BeatOK, NewBuffer
  PROVE  /\ BeatOK' /\ Dma' = Dma /\ cmd_q' # <<>>
         /\ cmd_q = <<>> => Dma = <<Served + 1, 1>>
<1>1. /\ UNCHANGED <<metas, data_q, dma_off>> /\ cmd_q' # <<>>
      /\ state = "sNewBuffer" /\ state' = "sWrite"
  BY DEF NewBuffer, TypeOK, PortOK
<1>2. CmdOut' = CmdOut /\ Served' = Served + 1 /\ Served \in Nat /\ Served + 1 \in 1..Known
  BY CmdNewBuffer, MetasNewBuffer, Sizes
<1>3. Writer = <<Served + 1, 1>> /\ Writer' = Writer
  BY <1>1, HostNewBuffer DEF Writer, HostOut
<1>4. Off' = Off /\ Dma' = Dma /\ BeatNext' = BeatNext /\ \A n : HB(n)' = HB(n)
  BY <1>1, <1>2 DEF Off, Dma, BeatNext, HB
<1>5. cmd_q = <<>> => CmdOut = <<Served + 1, "data">> /\ dma_off = 0 /\ Off = 0
  <2>1. cmd_q = <<>> => CmdOut = <<Served + 1, "data">> /\ dma_off = 0
    BY <1>1, CmdOutIs DEF CmdIn, Busy, BeatOK, DmaOK
  <2> QED
    BY <2>1 DEF Off
<1>6. DmaOK'
  <2>1. HB(CmdOut[1])' = HB(CmdOut[1])
    BY <1>1, <1>2 DEF HB
  <2>2. HB(Served + 1) > 0
    BY <1>2, Sizes
  <2> QED
    BY <1>1, <1>2, <1>4, <1>5, <2>1, <2>2 DEF DmaOK, BeatOK
<1>7. \A i \in 1..Len(data_q) : BeatRight(data_q[i], Served + 1, metas)
  BY <1>2 DEF BeatOK, BeatRight
<1>8. cmd_q = <<>> => Dma = <<Served + 1, 1>>
  BY <1>5 DEF Dma
<1> QED
  BY <1>1, <1>2, <1>3, <1>4, <1>6, <1>7, <1>8 DEF BeatOK

LEMMA BeatKept ==
  ASSUME HostOK, CmdOK, BeatOK, UNCHANGED <<metas, alloc, host_fifo, cmd_q, data_q, dma_off>>,
         deser'.host = deser.host,
         UNCHANGED <<state, host_length>> \/ (state = "sIdle" /\ state' = "sNewBuffer")
  PROVE  BeatOK' /\ Dma' = Dma
<1>1. HostOut' = HostOut /\ CmdOut' = CmdOut
  BY HostKept, CmdKept DEF Busy
<1>2. /\ Writer' = Writer /\ Off' = Off /\ Dma' = Dma /\ BeatNext' = BeatNext
      /\ Served' = Served
  BY <1>1 DEF Writer, Off, Dma, BeatNext, HB, Served
<1>3. HB(CmdOut[1])' = HB(CmdOut[1])
  BY <1>1 DEF HB
<1>4. DmaOK'
  BY <1>1, <1>2, <1>3 DEF DmaOK, BeatOK
<1> QED
  BY <1>2, <1>4 DEF BeatOK

LEMMA BeatStep ==
  ASSUME TypeOK, MetasOK, HostOK, CountOK, CmdOK, BeatOK, [Next]_vars PROVE BeatOK'
<1>1. ASSUME NEW h \in HostLens, NEW d \in DeviceLens, MetaIn(h, d) PROVE BeatOK'
  BY <1>1, BeatMetaIn
<1>2. CASE NewBuffer
  BY <1>2, BeatNewBuffer
<1>3. CASE Write
  BY <1>3, BeatWrite
<1>4. CASE Notice
  BY <1>4, BeatNotice
<1>5. CASE DmaBeat
  BY <1>5, BeatDma
<1>6. CASE Idle
  BY <1>6, BeatKept DEF Idle, port, hist
<1>7. CASE Others
  BY <1>7, OthersKeep, BeatKept DEF regs
<1>8. CASE HostDataIn
  <2>1. HostOut' = HostOut /\ CmdOut' = CmdOut
    <3>1. UNCHANGED <<metas, alloc, state, host_length, cmd_q>>
      BY <1>8 DEF HostDataIn, hist, regs, port
    <3> QED
      BY <3>1, CmdKept DEF HostOut, Served, HB, Left, Busy
  <2>2. UNCHANGED <<metas, alloc, state, cmd_q, data_q, dma_off>>
    BY <1>8 DEF HostDataIn, hist, regs, port
  <2>3. /\ Writer' = Writer /\ Off' = Off /\ Dma' = Dma /\ BeatNext' = BeatNext
        /\ Served' = Served /\ HB(CmdOut[1])' = HB(CmdOut[1])
    BY <2>1, <2>2 DEF Writer, Off, Dma, BeatNext, HB, Served
  <2>4. DmaOK'
    BY <2>1, <2>2, <2>3 DEF DmaOK, BeatOK
  <2> QED
    BY <2>2, <2>3, <2>4 DEF BeatOK
<1> QED
  BY <1>1, <1>2, <1>3, <1>4, <1>5, <1>6, <1>7, <1>8, NextCases

(* The streams together, in the order in which each rests on the ones      *)
(* before it.                                                              *)
StreamInv == TypeOK /\ MetasOK /\ HostOK /\ CountOK /\ CmdOK /\ BeatOK

LEMMA StreamInit == Init => StreamInv
<1> SUFFICES ASSUME Init PROVE StreamInv
  OBVIOUS
<1>1. TypeOK
  BY TypeInit
<1>2. Served = 0 /\ Known = 0 /\ Waiting = 0 /\ ~Busy /\ state = "sIdle"
  BY DEF Init, Served, Known, Waiting, Busy
<1>3. MetasOK
  BY <1>2 DEF Init, MetasOK
<1>4. HostOut = <<1, 1>> /\ HostIn = <<1, 1>> /\ CmdIn = <<1, "data">> /\ CmdOut = <<1, "data">>
  BY <1>2 DEF Init, HostOut, HostIn, CmdIn, CmdOut
<1>5. HostOK
  BY <1>2, <1>4 DEF Init, HostOK, LeftOK, Chain
<1>6. CountOK
  <2>1. Told = 0 /\ 0 % THREAD_NUM = 0 /\ THREAD_NUM \in 1..16
    BY <1>2, DerToMemAssumption DEF Told
  <2>2. ASSUME NEW t \in 0..(THREAD_NUM - 1) PROVE Turn(notice_cnt[t] - 1, t, Told)
    <3>1. notice_cnt[t] - 1 = 0
      BY <2>1 DEF Init
    <3>2. 0 * THREAD_NUM + t \in 0..(0 + THREAD_NUM - 1)
      BY <2>1
    <3> QED
      BY <2>1, <3>1, <3>2 DEF Turn
  <2> QED
    BY <2>1, <2>2 DEF Init, CountOK
<1>7. CmdOK
  BY <1>4 DEF Init, CmdOK, Chain
<1>8. BeatOK
  <2>1. Off = 0
    BY DEF Init, Off
  <2>2. Dma = <<1, 1>> /\ Writer = <<1, 1>>
    BY <1>2, <1>4, <2>1 DEF Dma, Writer
  <2> QED
    BY <2>1, <2>2, <1>4 DEF Init, BeatOK, DmaOK, Chain
<1> QED
  BY <1>1, <1>3, <1>5, <1>6, <1>7, <1>8 DEF StreamInv

LEMMA StreamStep == ASSUME StreamInv, [Next]_vars PROVE StreamInv'
  BY TypeStep, MetasStep, HostStep, CountStep, CmdStep, BeatStep DEF StreamInv

(* The four streams of DerToMem (metas, host beats, commands and beats to  *)
(* the DMA) hold consecutive pieces of what arrived, whatever the order in *)
(* which its ports fire (DerToMem.scala 92-166).                           *)
THEOREM StreamsInOrder == Spec => []StreamInv
  BY StreamInit, StreamStep, PTL DEF Spec

(* The DMA's two inputs never part: under every interleaving of the ports  *)
(* the beat marked last is the one that completes the length of the        *)
(* command at the head (DerToMem.scala, sNewBuffer, sWrite and sNotice).   *)
THEOREM CommandsFramed == Spec => []C2HFraming
<1>1. StreamInv => C2HFraming
  BY LastIsLast DEF StreamInv, C2HFraming
<1> QED
  BY <1>1, StreamsInOrder, PTL

-----------------------------------------------------------------------------
(* What has reached the host: the count in the slot of a thread, and the   *)
(* beats in the buffers.  Only a beat taken by the DMA changes either, or  *)
(* moves the place the DMA has reached.                                    *)
LEMMA DmaStandsStill ==
  ASSUME StreamInv, [Next]_vars, ~DmaBeat
  PROVE  CmdOut' = CmdOut /\ Dma' = Dma /\ UNCHANGED mem
<1>1. ASSUME NEW h \in HostLens, NEW d \in DeviceLens, MetaIn(h, d)
      PROVE  CmdOut' = CmdOut /\ Dma' = Dma /\ UNCHANGED mem
  BY <1>1, CmdMetaIn, BeatMetaIn DEF StreamInv, MetaIn
<1>2. CASE NewBuffer
  BY <1>2, CmdNewBuffer, BeatNewBuffer DEF StreamInv, NewBuffer
<1>3. CASE Notice
  <2>1. CmdOut' = CmdOut /\ UNCHANGED <<dma_off, mem>>
    BY <1>3, CmdNotice DEF StreamInv, Notice
  <2> QED
    BY <2>1 DEF Dma, Off
<1>4. CASE Idle \/ Write \/ HostDataIn
  <2>1. CmdOut' = CmdOut /\ UNCHANGED <<dma_off, mem>>
    BY <1>4, CmdKept DEF StreamInv, Idle, Write, HostDataIn, port, regs, hist, Busy
  <2> QED
    BY <2>1 DEF Dma, Off
<1>5. CASE Others
  <2>1. CmdOut' = CmdOut /\ UNCHANGED <<dma_off, mem>>
    BY <1>5, OthersKeep, CmdKept DEF StreamInv, regs, Busy
  <2> QED
    BY <2>1 DEF Dma, Off
<1> QED
  BY <1>1, <1>2, <1>3, <1>4, <1>5, NextCases

SlotOK ==
  /\ \A t \in 0..(THREAD_NUM - 1) : Turn(notice_mem[t], t, CmdOut[1] - 1)
  /\ \A t \in THREAD_NUM..15 : notice_mem[t] = 0

LEMMA SlotDma == ASSUME StreamInv, SlotOK, DmaBeat PROVE SlotOK'
<1> USE DEF StreamInv
<1>0. /\ cmd_q # <<>> /\ data_q # <<>>
      /\ IF Head(cmd_q).kind = "data" THEN UNCHANGED notice_mem
         ELSE notice_mem' = [notice_mem EXCEPT ![Head(cmd_q).addr] = Head(data_q).count]
  BY DEF DmaBeat
<1>1. PICK n \in 1..Served :
        /\ CmdOut \in {<<n, "data">>, <<n, "notice">>} /\ CmdOut[1] = n
        /\ Head(cmd_q) = cmd_q[1] /\ cmd_q[1].rpc = n /\ cmd_q[1].kind = CmdOut[2]
        /\ CmdRight(cmd_q[1], alloc, metas)
        /\ Head(data_q).data = Dma /\ BeatRight(Head(data_q), Served, metas)
        /\ Head(data_q).last \in BOOLEAN
  BY <1>0, AtTheDma
<1>2. n \in Nat /\ n - 1 \in Nat
  BY Sizes
<1>3. CmdOut' = IF Head(data_q).last THEN CmdNext[CmdOut] ELSE CmdOut
  BY CmdDma
<1>4. CASE CmdOut = <<n, "data">>
  <2>1. CmdOut'[1] = n
    <3>1. CmdNext[<<n, "data">>] = <<n, "notice">>
      BY <1>2, CmdNextAt
    <3>2. CmdOut' \in {<<n, "notice">>, <<n, "data">>}
      BY <1>3, <1>4, <3>1
    <3> QED
      BY <3>2
  <2>2. UNCHANGED notice_mem
    BY <1>0, <1>1, <1>4
  <2> QED
    BY <1>1, <2>1, <2>2 DEF SlotOK
<1>5. CASE CmdOut = <<n, "notice">>
  <2> DEFINE f == (n - 1) % THREAD_NUM
             q == (n - 1) \div THREAD_NUM
  <2>0. CmdOut[2] = "notice" /\ Dma = <<n, 0>>
    BY <1>1, <1>5 DEF Dma
  <2>1. CmdOut'[1] = n + 1
    <3>1. Head(data_q).last
      BY <1>0, <2>0, LastIsLast
    <3>2. CmdNext[<<n, "notice">>] = <<n + 1, "data">>
      BY <1>2, CmdNextAt
    <3>3. CmdOut' = <<n + 1, "data">>
      BY <1>3, <1>5, <3>1, <3>2
    <3> QED
      BY <3>3
  <2>2. notice_mem' = [notice_mem EXCEPT ![f] = q + 1]
    <3>1. Head(cmd_q).kind = "notice" /\ Head(cmd_q).addr = f
      BY <1>1, <2>0 DEF CmdRight, ThreadOf
    <3>2. Head(data_q).count = q + 1
      BY <1>1, <2>0 DEF BeatRight, ThreadCount
    <3> QED
      BY <1>0, <3>1, <3>2
  <2>3. f \in 0..(THREAD_NUM - 1) /\ THREAD_NUM \in 1..16
    BY <1>2, DerToMemAssumption
  <2>4. notice_mem \in [0..15 -> Nat]
    BY DEF TypeOK, MemOK
  <2> HIDE DEF f, q
  <2>5. \A t \in 0..15 : notice_mem'[t] = IF t = f THEN q + 1 ELSE notice_mem[t]
    BY <2>2, <2>4
  <2>6. ASSUME NEW t \in 0..(THREAD_NUM - 1) PROVE Turn(notice_mem'[t], t, CmdOut'[1] - 1)
    <3>1. Turn(notice_mem[t], t, n - 1) /\ notice_mem[t] \in Int
      BY <1>1, <2>3, <2>4 DEF SlotOK
    <3>2. CmdOut'[1] - 1 = (n - 1) + 1 /\ t \in 0..15
      BY <1>2, <2>1, <2>3
    <3>3. CASE t = f
      <4>1. notice_mem[t] = q /\ Turn(notice_mem[t] + 1, t, (n - 1) + 1)
        BY <1>2, <3>1, <3>3, TakeTurn DEF f, q
      <4> QED
        BY <2>5, <3>2, <3>3, <4>1
    <3>4. CASE t # f
      <4>1. Turn(notice_mem[t], t, (n - 1) + 1)
        BY <1>2, <3>1, <3>4, TakeTurn DEF f
      <4> QED
        BY <2>5, <3>2, <3>4, <4>1
    <3> QED
      BY <3>3, <3>4
  <2>7. ASSUME NEW t \in THREAD_NUM..15 PROVE notice_mem'[t] = 0
    <3>1. t \in 0..15 /\ t # f
      BY <2>3
    <3> QED
      BY <2>5, <3>1 DEF SlotOK
  <2> QED
    BY <2>6, <2>7 DEF SlotOK
<1> QED
  BY <1>1, <1>4, <1>5

LEMMA SlotStep == ASSUME StreamInv, SlotOK, [Next]_vars PROVE SlotOK'
<1>1. CASE DmaBeat
  BY <1>1, SlotDma
<1>2. CASE ~DmaBeat
  <2>1. CmdOut' = CmdOut /\ UNCHANGED mem
    BY <1>2, DmaStandsStill
  <2> QED
    BY <2>1 DEF SlotOK, mem
<1> QED
  BY <1>1, <1>2

(* Two threads in the same window of turns are at most one round apart.    *)
LEMMA OneRound ==
  ASSUME NEW c \in Nat, NEW t \in 0..(THREAD_NUM - 1), NEW u \in 0..(THREAD_NUM - 1), t < u,
         NEW v \in Int, NEW w \in Int, Turn(v, t, c), Turn(w, u, c)
  PROVE  v - w \in {0, 1}
<1>0. THREAD_NUM \in Nat \ {0}
  BY DerToMemAssumption
<1>1. /\ THREAD_NUM * v + t >= c /\ THREAD_NUM * v + t <= c + THREAD_NUM - 1
      /\ THREAD_NUM * w + u >= c /\ THREAD_NUM * w + u <= c + THREAD_NUM - 1
      /\ THREAD_NUM * v \in Int /\ THREAD_NUM * w \in Int
  BY <1>0 DEF Turn
<1>2. ~(v < w)
  <2> SUFFICES ASSUME v < w PROVE FALSE
    OBVIOUS
  <2>1. THREAD_NUM * v + THREAD_NUM <= THREAD_NUM * w
    BY <1>0, Mult
  <2> QED
    BY <1>0, <1>1, <2>1
<1>3. ~(w + 1 < v)
  <2> SUFFICES ASSUME w + 1 < v PROVE FALSE
    OBVIOUS
  <2>1. THREAD_NUM * (w + 1) + THREAD_NUM <= THREAD_NUM * v
    BY <1>0, Mult
  <2>2. THREAD_NUM * (w + 1) = THREAD_NUM * w + THREAD_NUM
    BY <1>0
  <2> QED
    BY <1>0, <1>1, <2>1, <2>2
<1> QED
  BY <1>2, <1>3

LEMMA SlotInit == Init => SlotOK
<1> SUFFICES ASSUME Init PROVE SlotOK
  OBVIOUS
<1>1. CmdOut[1] - 1 = 0
  BY DEF Init, CmdOut, CmdIn, Busy, Served
<1>2. THREAD_NUM \in 1..16
  BY DerToMemAssumption
<1>3. ASSUME NEW t \in 0..(THREAD_NUM - 1) PROVE Turn(notice_mem[t], t, CmdOut[1] - 1)
  <2>1. notice_mem[t] = 0
    BY <1>2 DEF Init
  <2>2. 0 * THREAD_NUM + t \in 0..(0 + THREAD_NUM - 1)
    BY <1>2
  <2> QED
    BY <1>1, <2>1, <2>2 DEF Turn
<1>4. \A t \in THREAD_NUM..15 : notice_mem[t] = 0
  BY <1>2 DEF Init
<1> QED
  BY <1>3, <1>4 DEF SlotOK

(* The threads are told in turn (notice_flag, DerToMem.scala sNotice): at  *)
(* the host no thread is ever more than one notice ahead of a later one,   *)
(* for every number of threads and of RPCs.                                *)
THEOREM ThreadsInTurn == Spec => []NoticeRoundRobin
<1>1. StreamInv /\ SlotOK => NoticeRoundRobin
  <2> SUFFICES ASSUME StreamInv, SlotOK PROVE NoticeRoundRobin
    OBVIOUS
  <2>1. CmdOut[1] - 1 \in Nat
    BY CmdOutIs, Sizes DEF StreamInv
  <2>2. \A t \in 0..(THREAD_NUM - 1) : notice_mem[t] \in Int /\ Turn(notice_mem[t], t, CmdOut[1] - 1)
    BY DerToMemAssumption DEF StreamInv, TypeOK, MemOK, SlotOK
  <2>3. ASSUME NEW t \in 0..(THREAD_NUM - 1), NEW u \in 0..(THREAD_NUM - 1), t < u
        PROVE  notice_mem[t] - notice_mem[u] \in {0, 1}
    BY <2>1, <2>2, <2>3, OneRound
  <2> QED
    BY <2>3 DEF NoticeRoundRobin, SlotOK
<1> QED
  BY <1>1, StreamsInOrder, SlotInit, SlotStep, PTL DEF Spec

-----------------------------------------------------------------------------
(* The buffers in host memory.                                             *)
Spot(a, k) == a * BUF_BYTES + 64 * (k - 1)
BeatsPerBuffer == BUF_BYTES \div 64

(* A host part fits its buffer, rounded up as it is.                       *)
LEMMA FitsBuffer ==
  /\ BeatsPerBuffer \in Nat \ {0} /\ BUF_BYTES = 64 * BeatsPerBuffer
  /\ \A h \in HostLens : Beats(h) <= BeatsPerBuffer
<1>1. BUF_BYTES \in Nat \ {0} /\ BUF_BYTES % 64 = 0 /\ HostLens \subseteq 1..BUF_BYTES
  BY DerToMemAssumption
<1>2. BeatsPerBuffer \in Nat \ {0} /\ BUF_BYTES = 64 * BeatsPerBuffer
  BY <1>1 DEF BeatsPerBuffer
<1> HIDE DEF BeatsPerBuffer
<1>3. ASSUME NEW h \in HostLens PROVE Beats(h) <= BeatsPerBuffer
  <2>1. h \in Nat /\ h <= 64 * BeatsPerBuffer
    BY <1>1, <1>2
  <2> QED
    BY <1>2, <2>1 DEF Beats, Round64
<1> QED
  BY <1>2, <1>3

(* Spots of different buffers, or of different beats, are different.       *)
LEMMA SpotUnique ==
  ASSUME NEW a \in Entries, NEW b \in Entries,
         NEW j \in 1..BeatsPerBuffer, NEW k \in 1..BeatsPerBuffer
  PROVE  /\ Spot(a, j) \in Addrs
         /\ Spot(a, j) = Spot(b, k) => a = b /\ j = k
<1> DEFINE g == BeatsPerBuffer
<1>1. g \in Nat \ {0} /\ BUF_BYTES = 64 * g /\ ENTRY_MOD \in Nat \ {0}
  BY FitsBuffer, DerToMemAssumption
<1>2. a \in 0..(ENTRY_MOD - 1) /\ b \in 0..(ENTRY_MOD - 1) /\ j \in 1..g /\ k \in 1..g
  BY DEF Entries
<1>3. Addrs = {64 * i : i \in 0..(ENTRY_MOD * g - 1)}
  BY DEF Addrs, BeatsPerBuffer
<1> HIDE DEF g
<1>4. a * BUF_BYTES = 64 * (g * a) /\ b * BUF_BYTES = 64 * (g * b) /\ g * a \in Nat /\ g * b \in Nat
  BY <1>1, <1>2
<1>5. Spot(a, j) = 64 * (g * a + (j - 1)) /\ Spot(b, k) = 64 * (g * b + (k - 1))
  BY <1>1, <1>2, <1>4 DEF Spot
<1>6. Spot(a, j) \in Addrs
  <2>1. g * a + g <= g * ENTRY_MOD
    BY <1>1, <1>2, Mult
  <2>2. g * ENTRY_MOD = ENTRY_MOD * g /\ ENTRY_MOD * g \in Nat
    BY <1>1
  <2>3. g * a + (j - 1) \in 0..(ENTRY_MOD * g - 1)
    BY <1>1, <1>2, <1>4, <2>1, <2>2
  <2> QED
    BY <1>3, <1>5, <2>3
<1>7. ASSUME Spot(a, j) = Spot(b, k) PROVE a = b /\ j = k
  <2> DEFINE x == g * a + (j - 1)
  <2>1. x = g * b + (k - 1) /\ x \in Nat /\ j - 1 \in 0..(g - 1) /\ k - 1 \in 0..(g - 1)
    BY <1>1, <1>2, <1>4, <1>5, <1>7
  <2>2. x = g * a + (j - 1) /\ a \in Int /\ b \in Int /\ g \in Nat \ {0}
    BY <1>1, <1>2
  <2> HIDE DEF x
  <2>3. a = x \div g /\ j - 1 = x % g
    BY <2>1, <2>2, Unique, Zenon
  <2>4. b = x \div g /\ k - 1 = x % g
    BY <2>1, <2>2, Unique, Zenon
  <2> QED
    BY <1>1, <1>2, <2>3, <2>4
<1> QED
  BY <1>6, <1>7

(* The beats the DMA has passed, and what host memory holds of them: all   *)
(* of an RPC whose buffer has not been handed out again.                   *)
Passed(n, k) == n < Dma[1] \/ (n = Dma[1] /\ (Dma[2] = 0 \/ k < Dma[2]))
Current(n)   == \A m \in (n + 1)..Served : alloc[m] # alloc[n]
InPlace ==
  \A n \in 1..Served : Current(n) =>
    \A k \in 1..HB(n) : Passed(n, k) => host_mem[Spot(alloc[n], k)] = <<n, k>>

(* A data beat goes to its spot and to no other one that counts.           *)
LEMMA InPlaceDma == ASSUME StreamInv, InPlace, DmaBeat PROVE InPlace'
<1> USE DEF StreamInv
<1>0. /\ cmd_q # <<>> /\ data_q # <<>> /\ UNCHANGED <<metas, alloc>>
      /\ IF Head(cmd_q).kind = "data"
         THEN host_mem' = [host_mem EXCEPT ![Head(cmd_q).addr + dma_off] = Head(data_q).data]
         ELSE UNCHANGED host_mem
  BY DEF DmaBeat, hist
<1>1. PICK c \in 1..Served :
        /\ CmdOut \in {<<c, "data">>, <<c, "notice">>} /\ CmdOut[1] = c
        /\ Head(cmd_q) = cmd_q[1] /\ cmd_q[1].rpc = c /\ cmd_q[1].kind = CmdOut[2]
        /\ CmdRight(cmd_q[1], alloc, metas)
        /\ c \in 1..Known /\ HB(c) \in Nat /\ HB(c) > 0 /\ Off \in Nat
        /\ Head(data_q).data = Dma
  BY <1>0, AtTheDma
<1>2. Dma' = BeatNext[Dma] /\ Served' = Served /\ \A n : HB(n)' = HB(n)
  BY <1>0, BeatDma DEF Served, HB
<1>3. Served \in Nat /\ Served <= Known /\ \A n \in 1..Served : alloc[n] \in Entries
  BY Sizes DEF MetasOK, TypeOK, FreeOK, Served
<1>4. \A n \in 1..Served : HB(n) \in Nat /\ HB(n) <= BeatsPerBuffer
  BY <1>3, Sizes, FitsBuffer, MetaFields DEF HB, HostBeatsOf
<1>5. CASE CmdOut = <<c, "notice">>
  <2>1. Dma = <<c, 0>> /\ UNCHANGED host_mem
    BY <1>0, <1>1, <1>5 DEF Dma
  <2>2. Dma' = <<c + 1, 1>>
    <3>1. c \in Nat
      BY <1>3
    <3>2. BeatNext[<<c, 0>>] = <<c + 1, 1>>
      BY <3>1, BeatNextAt
    <3> QED
      BY <1>2, <2>1, <3>2
  <2>3. ASSUME NEW n \in 1..Served, NEW k \in 1..HB(n), Passed(n, k)' PROVE Passed(n, k)
    <3>1. n < c + 1 \/ (n = c + 1 /\ (1 = 0 \/ k < 1))
      BY <2>2, <2>3 DEF Passed
    <3>2. n <= c
      BY <1>3, <1>4, <3>1
    <3> QED
      BY <1>3, <2>1, <3>2 DEF Passed
  <2> QED
    BY <1>0, <1>2, <2>1, <2>3 DEF InPlace, Current
<1>6. CASE CmdOut = <<c, "data">>
  <2> DEFINE j == Off + 1
  <2>1. Dma = <<c, j>> /\ CmdOut[2] = "data"
    BY <1>1, <1>6 DEF Dma
  <2>2. j \in 1..HB(c) /\ j \in 1..BeatsPerBuffer /\ j \in Nat /\ j # 0
    <3>1. Off < HB(c)
      BY <1>0, <1>1, <2>1 DEF BeatOK, DmaOK
    <3> QED
      BY <1>1, <1>4, <3>1, FitsBuffer
  <2>3. dma_off = 64 * (j - 1) /\ Head(cmd_q).addr = alloc[c] * BUF_BYTES /\ Head(cmd_q).kind = "data"
    BY <1>1, <2>1 DEF BeatOK, DmaOK, CmdRight, BufferAddr
  <2> HIDE DEF j
  <2>4. host_mem' = [host_mem EXCEPT ![Spot(alloc[c], j)] = <<c, j>>]
    <3>1. alloc[c] * BUF_BYTES + 64 * (j - 1) = Spot(alloc[c], j)
      BY DEF Spot
    <3> QED
      BY <1>0, <1>1, <2>1, <2>3, <3>1
  <2>5. Dma'[1] = c /\ (Dma'[2] = 0 => j = HB(c)) /\ (Dma'[2] # 0 => Dma'[2] = j + 1)
    <3>1. BeatNext[<<c, j>>] = IF j = HB(c) THEN <<c, 0>> ELSE <<c, j + 1>>
      <4>1. c \in Nat
        BY <1>3
      <4> QED
        BY <2>2, <4>1, BeatNextAt
    <3>2. Dma' \in {<<c, 0>>, <<c, j + 1>>} /\ (Dma' = <<c, 0>> => j = HB(c) \/ j + 1 = 0)
      BY <1>2, <2>1, <3>1
    <3> QED
      BY <2>2, <3>2
  <2>6. ASSUME NEW n \in 1..Served, Current(n), NEW k \in 1..HB(n), Passed(n, k)'
        PROVE  host_mem'[Spot(alloc[n], k)] = <<n, k>>
    <3>1. /\ alloc[n] \in Entries /\ alloc[c] \in Entries /\ k \in 1..BeatsPerBuffer
          /\ HB(n) \in Nat /\ n \in Nat /\ c \in Nat
      BY <1>3, <1>4, FitsBuffer
    <3>2. Spot(alloc[n], k) \in Addrs /\ Spot(alloc[c], j) \in Addrs
      BY <2>2, <3>1, SpotUnique
    <3>3. n <= c
      BY <2>5, <2>6, <3>1 DEF Passed
    <3>4. CASE n = c /\ k = j
      BY <2>4, <3>2, <3>4 DEF TypeOK, MemOK
    <3>5. CASE ~(n = c /\ k = j)
      <4>1. Spot(alloc[n], k) # Spot(alloc[c], j)
        <5>1. CASE n = c
          BY <2>2, <3>1, <3>5, <5>1, SpotUnique
        <5>2. CASE n < c
          <6>1. c \in (n + 1)..Served
            BY <1>3, <3>1, <5>2
          <6>2. alloc[n] # alloc[c]
            BY <2>6, <6>1 DEF Current
          <6> QED
            BY <2>2, <3>1, <6>2, SpotUnique
        <5> QED
          BY <3>1, <3>3, <5>1, <5>2
      <4>2. host_mem'[Spot(alloc[n], k)] = host_mem[Spot(alloc[n], k)]
        BY <2>4, <3>2, <4>1 DEF TypeOK, MemOK
      <4>3. Passed(n, k)
        <5>1. CASE n < c
          BY <2>1, <5>1 DEF Passed
        <5>2. CASE n = c
          <6>1. Dma'[2] = 0 \/ k < Dma'[2]
            BY <2>5, <2>6, <3>1, <5>2 DEF Passed
          <6>2. k < j
            BY <2>2, <2>5, <3>1, <3>5, <5>2, <6>1
          <6> QED
            BY <2>1, <5>2, <6>2 DEF Passed
        <5> QED
          BY <3>1, <3>3, <5>1, <5>2
      <4> QED
        BY <2>6, <4>2, <4>3 DEF InPlace
    <3> QED
      BY <3>4, <3>5
  <2>7. \A n \in 1..Served : Current(n)' => Current(n)
    BY <1>0, <1>2 DEF Current
  <2> QED
    BY <1>0, <1>2, <2>6, <2>7 DEF InPlace
<1> QED
  BY <1>1, <1>5, <1>6

LEMMA InPlaceNewBuffer == ASSUME StreamInv, InPlace, NewBuffer PROVE InPlace'
<1> USE DEF StreamInv
<1>1. /\ Served' = Served + 1 /\ Served \in Nat /\ \A n \in 1..Served : alloc'[n] = alloc[n]
      /\ UNCHANGED <<metas, mem>>
  BY MetasNewBuffer, Sizes DEF NewBuffer
<1>2. Dma' = Dma /\ (cmd_q = <<>> => Dma = <<Served + 1, 1>>)
  BY BeatNewBuffer
<1>3. cmd_q # <<>> => Dma[1] \in 1..Served
  BY CmdOutIs DEF Dma
<1>4. \A n \in 1..Served : Current(n)' => Current(n)
  <2> SUFFICES ASSUME NEW n \in 1..Served, Current(n)', NEW m \in (n + 1)..Served
               PROVE  alloc[m] # alloc[n]
    BY DEF Current
  <2>1. m \in (n + 1)..(Served + 1) /\ m \in 1..Served
    BY <1>1
  <2> QED
    BY <1>1, <2>1 DEF Current
<1>5. ASSUME NEW n \in 1..Served', Current(n)', NEW k \in 1..HB(n), Passed(n, k)
      PROVE  host_mem[Spot(alloc'[n], k)] = <<n, k>>
  <2>1. CASE n \in 1..Served
    BY <1>1, <1>4, <1>5, <2>1 DEF InPlace
  <2>2. CASE n = Served + 1
    <3>1. ~(n < Dma[1]) /\ ~(n = Dma[1] /\ (Dma[2] = 0 \/ k < Dma[2]))
      <4>1. CASE cmd_q = <<>>
        BY <1>1, <1>2, <2>2, <4>1
      <4>2. CASE cmd_q # <<>>
        BY <1>1, <1>3, <2>2, <4>2
      <4> QED
        BY <4>1, <4>2
    <3> QED
      BY <1>5, <3>1 DEF Passed
  <2> QED
    BY <1>1, <2>1, <2>2
<1>6. /\ \A n : HB(n)' = HB(n)
      /\ \A n, k : Passed(n, k)' = Passed(n, k)
      /\ UNCHANGED host_mem
  BY <1>1, <1>2 DEF HB, Passed, mem
<1> QED
  BY <1>5, <1>6 DEF InPlace

LEMMA InPlaceStep == ASSUME StreamInv, InPlace, [Next]_vars PROVE InPlace'
<1> USE DEF StreamInv
<1>1. CASE DmaBeat
  BY <1>1, InPlaceDma
<1>2. CASE NewBuffer
  BY <1>2, InPlaceNewBuffer
<1>3. CASE ~DmaBeat /\ ~NewBuffer
  <2>1. Dma' = Dma /\ UNCHANGED host_mem
    BY <1>3, DmaStandsStill DEF mem
  <2>2. UNCHANGED alloc /\ \A n \in 1..Served : metas'[n] = metas[n]
    <3>1. ASSUME NEW h \in HostLens, NEW d \in DeviceLens, MetaIn(h, d)
          PROVE  UNCHANGED alloc /\ \A n \in 1..Served : metas'[n] = metas[n]
      <4>1. UNCHANGED alloc /\ \A n \in 1..Known : metas'[n] = metas[n]
        BY <3>1, MetasMetaIn DEF MetaIn
      <4>2. \A n \in 1..Served : n \in 1..Known
        BY Sizes DEF MetasOK
      <4> QED
        BY <4>1, <4>2
    <3>2. CASE Others
      BY <3>2, OthersKeep
    <3>3. CASE Idle \/ Write \/ Notice \/ HostDataIn
      BY <3>3 DEF Idle, Write, Notice, HostDataIn, hist
    <3> QED
      BY <1>3, <3>1, <3>2, <3>3, NextCases
  <2>3. Served' = Served /\ \A n \in 1..Served : Current(n)' = Current(n)
    BY <2>2 DEF Served, Current
  <2>4. \A n \in 1..Served : HostBeatsOf(metas', n) = HB(n)
    BY <2>2 DEF HB, HostBeatsOf
  <2>5. \A n, k : Passed(n, k)' = Passed(n, k)
    BY <2>1 DEF Passed
  <2>6. ASSUME NEW n \in 1..Served, Current(n), NEW k \in 1..HB(n), Passed(n, k)
        PROVE  host_mem'[Spot(alloc'[n], k)] = <<n, k>>
    BY <2>1, <2>2, <2>6 DEF InPlace
  <2> QED
    BY <2>3, <2>4, <2>5, <2>6 DEF InPlace, HB
<1> QED
  BY <1>1, <1>2, <1>3

(* Seeing the notice of an RPC means that the DMA is past all its beats.   *)
LEMMA NoticeMeansPassed ==
  ASSUME StreamInv, SlotOK, NEW n \in 1..Served, Noticed(n)
  PROVE  n < Dma[1]
<1> USE DEF StreamInv
<1> DEFINE c == CmdOut[1] - 1
           t == (n - 1) % THREAD_NUM
           q == (n - 1) \div THREAD_NUM
           v == notice_mem[t]
<1>1. c \in Nat /\ CmdOut[1] \in Nat /\ Dma[1] = CmdOut[1] /\ n \in Nat /\ n - 1 \in Nat
  BY CmdOutIs, Sizes DEF Dma
<1>2. THREAD_NUM \in Nat \ {0} /\ THREAD_NUM \in 1..16
  BY DerToMemAssumption
<1>3. n - 1 = THREAD_NUM * q + t /\ t \in 0..(THREAD_NUM - 1) /\ q \in Nat
  BY <1>1, <1>2, DivMod
<1>4. v \in Nat /\ v >= q + 1 /\ Turn(v, t, c)
  <2>1. v >= q + 1
    BY DEF Noticed, ThreadOf
  <2>2. v \in Nat
    BY <1>2, <1>3 DEF TypeOK, MemOK
  <2>3. Turn(v, t, c)
    BY <1>3 DEF SlotOK
  <2> QED
    BY <2>1, <2>2, <2>3
<1> HIDE DEF c, t, q, v
<1>5. THREAD_NUM * q + THREAD_NUM <= THREAD_NUM * v
  BY <1>2, <1>3, <1>4, Mult
<1>6. THREAD_NUM * v + t <= c + THREAD_NUM - 1 /\ THREAD_NUM * v \in Int /\ THREAD_NUM * q \in Int
  BY <1>1, <1>2, <1>3, <1>4 DEF Turn
<1>7. n - 1 < c
  BY <1>1, <1>2, <1>3, <1>5, <1>6
<1> QED
  BY <1>1, <1>7 DEF c

(* Once the host can see the notice of an RPC, its host part lies complete *)
(* and in order in the buffer taken for it, until that buffer is handed    *)
(* out again: for every number of threads, buffers and RPCs, every queue   *)
(* depth and every order in which the DMA, the host and the component move *)
(* (DerToMem.scala, sNewBuffer to sNotice).                                *)
THEOREM NoticeMeansData == Spec => []NoticedDataInPlace
<1>1. Init => InPlace
  BY DEF Init, InPlace, Served
<1>2. StreamInv /\ SlotOK /\ InPlace => NoticedDataInPlace
  <2> SUFFICES ASSUME StreamInv, SlotOK, InPlace,
                      NEW n \in 1..Len(alloc), Noticed(n),
                      \A m \in (n + 1)..Len(alloc) : alloc[m] # alloc[n],
                      NEW k \in 1..Beats(metas[n].host_length)
               PROVE  host_mem[alloc[n] * BUF_BYTES + 64 * (k - 1)] = <<n, k>>
    BY DEF NoticedDataInPlace
  <2>1. n \in 1..Served /\ Current(n) /\ k \in 1..HB(n)
    BY DEF Served, Current, HB, HostBeatsOf
  <2>2. Passed(n, k)
    BY <2>1, NoticeMeansPassed DEF Passed
  <2> QED
    BY <2>1, <2>2 DEF InPlace, Spot
<1> QED
  BY <1>1, <1>2, StreamsInOrder, SlotInit, SlotStep, InPlaceStep, PTL DEF Spec

-----------------------------------------------------------------------------
(* The device path of DerToMem.  Device beats reach the HBM port without   *)
(* passing the state machine; only the addresses do.  The beats that are   *)
(* still to be written are exactly the beats for which an address is still *)
(* to come or has not been used up, and both sides are in the same order.  *)

DeviceBeatsOf(ms, n) == Beats(ms[n].device_length)
DB(n) == DeviceBeatsOf(metas, n)

In(q, c) == \E i \in 1..Len(q) : q[i] = c
Before(b, c) == b[1] < c[1] \/ (b[1] = c[1] /\ b[2] < c[2])

(* Membership under a push and under a pop of a queue without repeats.     *)
LEMMA InPush ==
  ASSUME NEW S, NEW q \in Seq(S), NEW x \in S, NEW c
  PROVE  In(Append(q, x), c) <=> In(q, c) \/ c = x
<1>1. /\ Len(q) \in Nat /\ Len(Append(q, x)) = Len(q) + 1
      /\ \A i \in 1..Len(q) : Append(q, x)[i] = q[i]
      /\ Append(q, x)[Len(q) + 1] = x
  BY Push
<1>2. ASSUME In(q, c) \/ c = x PROVE In(Append(q, x), c)
  <2>1. CASE c = x
    <3>1. Len(q) + 1 \in 1..Len(Append(q, x))
      BY <1>1
    <3> QED
      BY <1>1, <2>1, <3>1 DEF In
  <2>2. CASE In(q, c)
    <3>1. PICK i \in 1..Len(q) : q[i] = c
      BY <2>2 DEF In
    <3>2. i \in 1..Len(Append(q, x)) /\ Append(q, x)[i] = c
      BY <1>1, <3>1
    <3> QED
      BY <3>2 DEF In
  <2> QED
    BY <1>2, <2>1, <2>2
<1>3. ASSUME In(Append(q, x), c) PROVE In(q, c) \/ c = x
  <2>1. PICK i \in 1..Len(Append(q, x)) : Append(q, x)[i] = c
    BY <1>3 DEF In
  <2>2. i \in 1..Len(q) \/ i = Len(q) + 1
    BY <1>1
  <2> QED
    BY <1>1, <2>1, <2>2 DEF In
<1> QED
  BY <1>2, <1>3

LEMMA InPop ==
  ASSUME NEW S, NEW q \in Seq(S), q # <<>>, NEW c,
         \A i, j \in 1..Len(q) : i < j => q[i] # q[j]
  PROVE  In(Tail(q), c) <=> In(q, c) /\ c # Head(q)
<1>1. /\ Len(q) \in Nat /\ Len(q) > 0 /\ Len(Tail(q)) = Len(q) - 1 /\ Head(q) = q[1]
      /\ \A i \in 1..Len(Tail(q)) : Tail(q)[i] = q[i + 1]
  BY Pop
<1>2. ASSUME In(Tail(q), c) PROVE In(q, c) /\ c # Head(q)
  <2>1. PICK i \in 1..Len(Tail(q)) : Tail(q)[i] = c
    BY <1>2 DEF In
  <2>2. i + 1 \in 1..Len(q) /\ q[i + 1] = c /\ 1 \in 1..Len(q) /\ 1 < i + 1
    BY <1>1, <2>1
  <2> QED
    BY <1>1, <2>2 DEF In
<1>3. ASSUME In(q, c), c # Head(q) PROVE In(Tail(q), c)
  <2>1. PICK i \in 1..Len(q) : q[i] = c
    BY <1>3 DEF In
  <2>2. i # 1
    BY <1>1, <1>3, <2>1
  <2>3. i - 1 \in 1..Len(Tail(q)) /\ (i - 1) + 1 = i
    BY <1>1, <2>2
  <2>4. Tail(q)[i - 1] = c
    BY <1>1, <2>1, <2>3
  <2> QED
    BY <2>3, <2>4 DEF In
<1> QED
  BY <1>2, <1>3

-----------------------------------------------------------------------------
HOff       == hbm_off \div 64
Sent(n, k) == n < Known \/ (n = Known /\ k <= DB(Known) - deser.device)

(* A beat that is in the queue or has not been sent yet ...                *)
Pending(n, k) == In(device_fifo, <<n, k>>) \/ ~Sent(n, k)

(* ... and one that waits for its buffer, or whose address is there and    *)
(* has not been used for it yet.                                           *)
Addressed(n, k) == n > Served \/ \E i \in 1..Len(aw_q) : aw_q[i].rpc = n /\ (i = 1 => k > HOff)

DeviceOK ==
  /\ \A i \in 1..Len(device_fifo) :
       /\ device_fifo[i][1] \in 1..Known
       /\ device_fifo[i][2] \in 1..DB(device_fifo[i][1])
       /\ Sent(device_fifo[i][1], device_fifo[i][2])
  /\ \A i, j \in 1..Len(device_fifo) : i < j => Before(device_fifo[i], device_fifo[j])

AwRight(w, al, ms) ==
  /\ w.rpc \in 1..Len(al) /\ DeviceBeatsOf(ms, w.rpc) > 0
  /\ w.addr = BufferAddr(al[w.rpc]) /\ w.len = 64 * DeviceBeatsOf(ms, w.rpc)

AwOK ==
  /\ \A i \in 1..Len(aw_q) : AwRight(aw_q[i], alloc, metas)
  /\ \A i, j \in 1..Len(aw_q) : i < j => aw_q[i].rpc < aw_q[j].rpc
  /\ hbm_off = 64 * HOff
  /\ aw_q = <<>> => hbm_off = 0
  /\ aw_q # <<>> => HOff < DB(aw_q[1].rpc)

Agree == \A n \in 1..Known : \A k \in 1..DB(n) : Pending(n, k) <=> Addressed(n, k)

HbmOK == DeviceOK /\ AwOK /\ Agree

LEMMA DeviceSizes ==
  ASSUME TypeOK, MetasOK
  PROVE  /\ Served \in Nat /\ Known \in Nat /\ Served <= Known
         /\ deser.device \in Nat /\ hbm_off \in Nat /\ HOff \in Nat
         /\ \A n \in 1..Known : DB(n) \in Nat
         /\ Known > 0 => deser.device <= DB(Known)
         /\ Known = 0 => deser.device = 0
         /\ device_fifo \in Seq(Beat) /\ aw_q \in Seq(HbmWrites)
         /\ \A i \in 1..Len(device_fifo) :
              device_fifo[i] = <<device_fifo[i][1], device_fifo[i][2]>>
<1>1. Served \in Nat /\ Known \in Nat /\ Served <= Known
  BY Sizes DEF MetasOK
<1>2. /\ deser.device \in Nat /\ hbm_off \in Nat
      /\ device_fifo \in Seq(Beat) /\ aw_q \in Seq(HbmWrites) /\ deser.id = Known
  BY DEF TypeOK, InputOK, PortOK, Known
<1>3. HOff \in Nat
  BY <1>2 DEF HOff
<1>4. \A n \in 1..Known : DB(n) \in Nat
  BY Sizes, MetaLens, Rounding DEF DB, DeviceBeatsOf
<1>5. (Known > 0 => deser.device <= DB(Known)) /\ (Known = 0 => deser.device = 0)
  BY <1>2 DEF TypeOK, InputOK, DB, DeviceBeatsOf
<1>6. \A i \in 1..Len(device_fifo) : device_fifo[i] = <<device_fifo[i][1], device_fifo[i][2]>>
  BY <1>2, HostBeats
<1> QED
  BY <1>1, <1>2, <1>3, <1>4, <1>5, <1>6

(* The first beat waiting is the one the first address is waiting for.     *)
LEMMA HeadMeetsHead ==
  ASSUME TypeOK, MetasOK, HbmOK, aw_q # <<>>, device_fifo # <<>>
  PROVE  /\ Head(device_fifo) = <<aw_q[1].rpc, HOff + 1>> /\ AwRight(aw_q[1], alloc, metas)
         /\ Head(aw_q) = aw_q[1] /\ Head(device_fifo) = device_fifo[1]
<1> DEFINE b == device_fifo[1]
           r == aw_q[1].rpc
<1>1. /\ 1 \in 1..Len(device_fifo) /\ Head(device_fifo) = b /\ b \in Beat
      /\ Len(device_fifo) \in Nat
  BY DeviceSizes, Pop
<1>2. /\ 1 \in 1..Len(aw_q) /\ Head(aw_q) = aw_q[1] /\ aw_q[1] \in HbmWrites
      /\ Len(aw_q) \in Nat
  BY DeviceSizes, Pop
<1>3. AwRight(aw_q[1], alloc, metas) /\ HOff < DB(r)
  BY <1>2 DEF HbmOK, AwOK
<1>4. r \in 1..Served /\ r \in 1..Known /\ DB(r) \in Nat /\ HOff \in Nat
      /\ Served \in Nat /\ Known \in Nat /\ r \in Nat
  <2>1. r \in 1..Served
    BY <1>3 DEF AwRight, Served
  <2> QED
    BY <2>1, DeviceSizes
<1>5. b[1] \in 1..Known /\ b[2] \in 1..DB(b[1]) /\ Sent(b[1], b[2]) /\ b = <<b[1], b[2]>>
      /\ DB(b[1]) \in Nat /\ b[1] \in Nat /\ b[2] \in Nat
  <2>1. b[1] \in 1..Known /\ b[2] \in 1..DB(b[1]) /\ Sent(b[1], b[2])
    BY <1>1 DEF HbmOK, DeviceOK
  <2>2. b = <<b[1], b[2]>> /\ \A n \in 1..Known : DB(n) \in Nat
    BY <1>1, DeviceSizes
  <2> HIDE DEF b
  <2>3. DB(b[1]) \in Nat
    BY <2>1, <2>2, Zenon
  <2> QED
    BY <1>4, <2>1, <2>2, <2>3
<1>6. ~Before(b, <<r, HOff + 1>>)
  <2> SUFFICES ASSUME b[1] < r \/ (b[1] = r /\ b[2] < HOff + 1) PROVE FALSE
    BY DEF Before
  <2>1. Pending(b[1], b[2])
    BY <1>1, <1>5 DEF Pending, In
  <2>2. Addressed(b[1], b[2])
    BY <1>5, <2>1 DEF HbmOK, Agree
  <2>3. PICK i \in 1..Len(aw_q) : aw_q[i].rpc = b[1] /\ (i = 1 => b[2] > HOff)
    BY <1>4, <1>5, <2>2 DEF Addressed
  <2>4. CASE i = 1
    BY <1>4, <1>5, <2>3, <2>4
  <2>5. CASE i # 1
    <3>1. 1 < i
      BY <1>2, <2>5
    <3>2. r < b[1]
      BY <1>2, <2>3, <3>1 DEF HbmOK, AwOK
    <3> QED
      BY <1>4, <1>5, <3>2
  <2> QED
    BY <2>4, <2>5
<1>7. Pending(r, HOff + 1)
  <2>1. HOff + 1 \in 1..DB(r)
    BY <1>3, <1>4
  <2>2. HOff + 1 > HOff
    BY <1>4
  <2>3. Addressed(r, HOff + 1)
    BY <1>2, <2>2 DEF Addressed
  <2> QED
    BY <1>4, <2>1, <2>3 DEF HbmOK, Agree
<1>8. b = <<r, HOff + 1>>
  <2>1. CASE In(device_fifo, <<r, HOff + 1>>)
    <3>1. PICK j \in 1..Len(device_fifo) : device_fifo[j] = <<r, HOff + 1>>
      BY <2>1 DEF In
    <3>2. j = 1 \/ 1 < j
      BY <1>1
    <3>3. 1 < j => Before(b, <<r, HOff + 1>>)
      BY <1>1, <3>1 DEF HbmOK, DeviceOK
    <3> QED
      BY <1>6, <3>1, <3>2, <3>3, Zenon
  <2>2. CASE ~Sent(r, HOff + 1)
    <3>1. r = Known /\ HOff + 1 > DB(Known) - deser.device /\ deser.device \in Nat
      <4>1. ~(r < Known) /\ ~(r = Known /\ HOff + 1 <= DB(Known) - deser.device)
        BY <2>2 DEF Sent
      <4>2. r = Known
        BY <1>4, <4>1
      <4>3. deser.device \in Nat /\ DB(Known) \in Nat
        BY <1>4, <4>2, DeviceSizes
      <4> QED
        BY <1>4, <4>1, <4>2, <4>3
    <3>2. b[1] < r \/ (b[1] = r /\ b[2] < HOff + 1)
      BY <1>4, <1>5, <3>1 DEF Sent
    <3>3. Before(b, <<r, HOff + 1>>)
      BY <3>2 DEF Before
    <3> QED
      BY <1>6, <3>3
  <2> QED
    BY <1>7, <2>1, <2>2 DEF Pending
<1> QED
  BY <1>1, <1>2, <1>3, <1>8

-----------------------------------------------------------------------------
LEMMA HbmKept ==
  ASSUME HbmOK, UNCHANGED <<metas, alloc, device_fifo, aw_q, hbm_off>>,
         deser'.device = deser.device
  PROVE  HbmOK'
<1>1. Known' = Known /\ Served' = Served /\ HOff' = HOff
  BY DEF Known, Served, HOff
<1>2. \A n : DB(n)' = DB(n)
  BY DEF DB
<1>3. /\ DB(Known)' = DB(Known)
      /\ aw_q # <<>> => DB(aw_q[1].rpc)' = DB(aw_q[1].rpc)
  BY <1>1 DEF DB
<1>4. \A n, k : Sent(n, k)' = Sent(n, k)
  BY <1>1, <1>3 DEF Sent
<1>5. \A n, k : Pending(n, k)' = Pending(n, k) /\ Addressed(n, k)' = Addressed(n, k)
  BY <1>1, <1>4 DEF Pending, Addressed
<1>6. Agree'
  BY <1>1, <1>2, <1>5 DEF HbmOK, Agree
<1>7. AwOK'
  BY <1>1, <1>3 DEF HbmOK, AwOK
<1>8. DeviceOK'
  BY <1>1, <1>2, <1>4 DEF HbmOK, DeviceOK, Sent, DB
<1> QED
  BY <1>6, <1>7, <1>8 DEF HbmOK

LEMMA HbmMetaIn ==
  ASSUME TypeOK, MetasOK, HbmOK, NEW h \in HostLens, NEW d \in DeviceLens, MetaIn(h, d)
  PROVE  HbmOK'
<1> DEFINE DN(n) == DeviceBeatsOf(metas', n)
           N == Known + 1
<1>1. /\ Known' = N /\ \A n \in 1..Known : metas'[n] = metas[n]
      /\ metas'[N].device_length = d
  BY MetasMetaIn
<1>2. /\ UNCHANGED <<device_fifo, aw_q, hbm_off, alloc>> /\ deser.device = 0
      /\ deser'.device = Beats(d) /\ Beats(d) \in Nat
  BY Lengths, Rounding DEF MetaIn, port
<1>3. DN(N) = Beats(d) /\ \A n \in 1..Known : DN(n) = DB(n)
  BY <1>1 DEF DB, DeviceBeatsOf
<1>4. /\ Served \in Nat /\ Known \in Nat /\ Served <= Known /\ Served' = Served /\ HOff' = HOff
      /\ \A n \in 1..Known : DB(n) \in Nat
  BY <1>2, DeviceSizes DEF Served, HOff
<1>5. \A n \in 1..Known : \A k : Sent(n, k)'
  BY <1>1, <1>4 DEF Sent
<1>6. \A n \in 1..Known : \A k \in 1..DB(n) : Sent(n, k)
  BY <1>2, <1>4 DEF Sent
<1>7. \A n, k : Addressed(n, k)' = Addressed(n, k)
  BY <1>2, <1>4 DEF Addressed
<1>8. ASSUME NEW n \in 1..Known', NEW k \in 1..DN(n) PROVE Pending(n, k)' <=> Addressed(n, k)'
  <2>1. CASE n \in 1..Known
    <3>1. k \in 1..DB(n) /\ Sent(n, k) /\ Sent(n, k)'
      BY <1>3, <1>5, <1>6, <2>1
    <3>2. Pending(n, k)' <=> Pending(n, k)
      BY <1>2, <3>1 DEF Pending
    <3> QED
      BY <1>7, <2>1, <3>1, <3>2 DEF HbmOK, Agree
  <2>2. CASE n = N
    <3>1. Sent(n, k)' <=> (n < N \/ (n = N /\ k <= DN(N) - Beats(d)))
      BY <1>1, <1>2 DEF Sent, DB
    <3>2. ~Sent(n, k)'
      BY <1>2, <1>3, <1>4, <2>2, <3>1
    <3>3. n > Served'
      BY <1>4, <2>2
    <3> QED
      BY <3>2, <3>3 DEF Pending, Addressed
  <2> QED
    BY <1>1, <1>4, <2>1, <2>2
<1>9. Agree'
  BY <1>8 DEF Agree, DB
<1>10. AwOK'
  <2>1. ASSUME NEW i \in 1..Len(aw_q)
        PROVE  AwRight(aw_q[i], alloc, metas') /\ DN(aw_q[i].rpc) = DB(aw_q[i].rpc)
    <3>1. AwRight(aw_q[i], alloc, metas)
      BY DEF HbmOK, AwOK
    <3>2. aw_q[i].rpc \in 1..Known
      BY <1>4, <3>1 DEF AwRight, Served
    <3>3. DN(aw_q[i].rpc) = DB(aw_q[i].rpc)
      BY <1>3, <3>2
    <3> QED
      BY <3>1, <3>3 DEF AwRight, DB
  <2>2. aw_q # <<>> => HOff < DN(aw_q[1].rpc)
    <3>1. aw_q # <<>> => 1 \in 1..Len(aw_q)
      BY DeviceSizes, Pop
    <3> QED
      BY <2>1, <3>1 DEF HbmOK, AwOK
  <2> QED
    BY <1>2, <1>4, <2>1, <2>2 DEF HbmOK, AwOK, DB
<1>11. DeviceOK'
  <2>1. ASSUME NEW i \in 1..Len(device_fifo)
        PROVE  /\ device_fifo[i][1] \in 1..Known' /\ device_fifo[i][2] \in 1..DN(device_fifo[i][1])
               /\ device_fifo[i][1] < Known'
    <3>1. device_fifo[i][1] \in 1..Known /\ device_fifo[i][2] \in 1..DB(device_fifo[i][1])
      BY DEF HbmOK, DeviceOK
    <3> QED
      BY <1>1, <1>3, <1>4, <3>1
  <2> QED
    BY <1>2, <2>1 DEF HbmOK, DeviceOK, DB, Sent
<1> QED
  BY <1>9, <1>10, <1>11 DEF HbmOK

LEMMA HbmDataIn == ASSUME TypeOK, MetasOK, HbmOK, DeviceDataIn PROVE HbmOK'
<1> DEFINE k0 == DB(Known) - deser.device + 1
           x == <<Known, k0>>
<1>1. /\ deser.device > 0 /\ device_fifo' = Append(device_fifo, x)
      /\ deser'.device = deser.device - 1
      /\ UNCHANGED <<metas, alloc, aw_q, hbm_off>> /\ deser.id = Known
  BY DEF DeviceDataIn, port, hist, TypeOK, InputOK, DB, DeviceBeatsOf, Known
<1>2. /\ Known \in 1..Known /\ Known \in Nat /\ DB(Known) \in Nat /\ deser.device \in Nat
      /\ deser.device <= DB(Known) /\ \A n \in 1..Known : DB(n) \in Nat
  <2>1. /\ Known \in Nat /\ deser.device \in Nat /\ \A n \in 1..Known : DB(n) \in Nat
        /\ Known > 0 => deser.device <= DB(Known)
        /\ Known = 0 => deser.device = 0
    BY DeviceSizes, Zenon
  <2>2. Known > 0 /\ Known \in 1..Known
    BY <1>1, <2>1
  <2>3. DB(Known) \in Nat
    BY <2>1, <2>2, Zenon
  <2> QED
    BY <2>1, <2>2, <2>3
<1>3. k0 \in 1..DB(Known)
  <2>1. /\ deser.device > 0 /\ deser.device \in Nat /\ DB(Known) \in Nat
        /\ deser.device <= DB(Known)
    BY <1>1, <1>2
  <2> QED
    BY <2>1, NextOf, Zenon
<1>4. x \in Beat
  <2>1. Known \in 1..MaxRpc
    <3>1. deser \in [id: 0..MaxRpc, host: Nat, device: Nat]
      BY DEF TypeOK, InputOK
    <3> QED
      BY <1>1, <1>2, <3>1
  <2>2. k0 \in Nat
    BY <1>2, <1>3, Between, Zenon
  <2> HIDE DEF k0
  <2> QED
    BY <2>1, <2>2 DEF Beat
<1>5. Known' = Known /\ Served' = Served /\ HOff' = HOff /\ DB(Known)' = DB(Known)
  BY <1>1 DEF Known, Served, HOff, DB
<1>6. \A n : DB(n)' = DB(n)
  BY <1>1 DEF DB
<1>7. \A n \in 1..Known : \A k \in 1..DB(n) : Sent(n, k)' <=> Sent(n, k) \/ <<n, k>> = x
  <2> SUFFICES ASSUME NEW n \in 1..Known, NEW k \in 1..DB(n)
               PROVE  Sent(n, k)' <=> Sent(n, k) \/ <<n, k>> = x
    OBVIOUS
  <2>1. Sent(n, k)' <=> (n < Known \/ (n = Known /\ k <= DB(Known) - (deser.device - 1)))
    BY <1>1, <1>5 DEF Sent
  <2>2. DB(n) \in Nat /\ k \in Nat /\ n \in Nat
    BY <1>2
  <2> QED
    BY <1>2, <2>1, <2>2 DEF Sent
<1>8. ~Sent(Known, k0)
  BY <1>1, <1>2 DEF Sent
<1> HIDE DEF k0
<1>9. \A c : In(device_fifo', c) <=> In(device_fifo, c) \/ c = x
  BY <1>1, <1>4, DeviceSizes, InPush
<1>10. Agree'
  <2>1. ASSUME NEW n \in 1..Known, NEW k \in 1..DB(n) PROVE Pending(n, k)' <=> Pending(n, k)
    <3>1. Pending(n, k)' <=> (In(device_fifo, <<n, k>>) \/ <<n, k>> = x) \/ ~(Sent(n, k) \/ <<n, k>> = x)
      BY <1>7, <1>9 DEF Pending
    <3>2. <<n, k>> = x => ~Sent(n, k)
      BY <1>8
    <3> QED
      BY <3>1, <3>2 DEF Pending
  <2>2. \A n, k : Addressed(n, k)' = Addressed(n, k)
    BY <1>1, <1>5 DEF Addressed
  <2> QED
    BY <1>5, <1>6, <2>1, <2>2 DEF HbmOK, Agree
<1>11. AwOK'
  BY <1>1, <1>5 DEF HbmOK, AwOK, DB
<1>12. DeviceOK'
  <2>1. /\ Len(device_fifo') = Len(device_fifo) + 1 /\ Len(device_fifo) \in Nat
        /\ \A i \in 1..Len(device_fifo) : device_fifo'[i] = device_fifo[i]
        /\ device_fifo'[Len(device_fifo) + 1] = x
    BY <1>1, <1>4, DeviceSizes, Push
  <2>2. ASSUME NEW i \in 1..Len(device_fifo)
        PROVE  /\ device_fifo[i][1] \in 1..Known
               /\ device_fifo[i][2] \in 1..DB(device_fifo[i][1])
               /\ Sent(device_fifo[i][1], device_fifo[i][2])
               /\ Before(device_fifo[i], x)
    <3>1. PICK n, k : /\ device_fifo[i][1] = n /\ device_fifo[i][2] = k
                      /\ n \in 1..Known /\ k \in 1..DB(n) /\ Sent(n, k)
      BY DEF HbmOK, DeviceOK
    <3>2. n < Known \/ (n = Known /\ k <= DB(Known) - deser.device)
      BY <3>1 DEF Sent
    <3>3. n < Known \/ (n = Known /\ k < k0)
      BY <1>2, <3>1, <3>2 DEF k0
    <3> QED
      BY <3>1, <3>3 DEF Before
  <2>4. ASSUME NEW i \in 1..Len(device_fifo')
        PROVE  /\ device_fifo'[i][1] \in 1..Known
               /\ device_fifo'[i][2] \in 1..DB(device_fifo'[i][1])
               /\ \/ device_fifo'[i][1] < Known
                  \/ device_fifo'[i][1] = Known /\ device_fifo'[i][2] <= DB(Known) - deser'.device
    <3>1. CASE i \in 1..Len(device_fifo)
      <4>1. PICK n, k : /\ device_fifo'[i][1] = n /\ device_fifo'[i][2] = k
                        /\ n \in 1..Known /\ k \in 1..DB(n) /\ Sent(n, k)
        BY <2>1, <2>2, <3>1
      <4>2. n < Known \/ (n = Known /\ k <= DB(Known) - deser.device)
        BY <4>1 DEF Sent
      <4>3. n < Known \/ (n = Known /\ k <= DB(Known) - deser'.device)
        BY <1>1, <1>2, <4>1, <4>2
      <4> QED
        BY <4>1, <4>3
    <3>2. CASE i = Len(device_fifo) + 1
      <4>1. device_fifo'[i] = <<Known, k0>>
        BY <2>1, <3>2
      <4>2. k0 <= DB(Known) - deser'.device
        BY <1>1, <1>2 DEF k0
      <4> QED
        BY <1>2, <1>3, <4>1, <4>2
    <3> QED
      BY <2>1, <3>1, <3>2
  <2>5. ASSUME NEW i \in 1..Len(device_fifo'), NEW j \in 1..Len(device_fifo'), i < j
        PROVE  Before(device_fifo'[i], device_fifo'[j])
    <3>1. i \in 1..Len(device_fifo)
      BY <2>1, <2>5
    <3>2. CASE j \in 1..Len(device_fifo)
      BY <2>1, <2>5, <3>1, <3>2 DEF HbmOK, DeviceOK
    <3>3. CASE j = Len(device_fifo) + 1
      BY <2>1, <2>2, <3>1, <3>3
    <3> QED
      BY <2>1, <3>2, <3>3
  <2> QED
    BY <1>1, <1>5, <2>4, <2>5 DEF DeviceOK, Sent, DB
<1> QED
  BY <1>10, <1>11, <1>12 DEF HbmOK

LEMMA HbmNewBuffer == ASSUME TypeOK, MetasOK, HbmOK, NewBuffer PROVE HbmOK'
<1> DEFINE idx == Head(free_list)
           N == Served + 1
           aw == [rpc |-> meta_reg.id, addr |-> BufferAddr(idx),
                  len |-> Round64(meta_reg.device_length)]
<1>1. /\ Served' = N /\ Served \in Nat /\ N \in 1..Known /\ Known \in Nat
      /\ \A n \in 1..Served : alloc'[n] = alloc[n]
      /\ alloc'[N] = idx /\ idx \in Entries
  BY MetasNewBuffer, Sizes
<1>2. /\ UNCHANGED <<metas, device_fifo, deser, hbm_off>> /\ meta_reg = metas[N]
      /\ aw_q' = aw_q \o DeviceAw(meta_reg, idx) /\ meta_reg \in Metas
  BY DEF NewBuffer, inq, MetasOK, TypeOK, RegsOK
<1>3. /\ meta_reg.id = N /\ meta_reg.device_length \in Nat /\ meta_reg.id \in 1..MaxRpc
      /\ DB(N) \in Nat /\ Round64(meta_reg.device_length) = 64 * DB(N)
      /\ meta_reg.device_length = 0 => DB(N) = 0
      /\ meta_reg.device_length # 0 => DB(N) > 0
  <2>1. meta_reg.id = N
    BY <1>1, <1>2 DEF MetasOK
  <2>2. meta_reg.device_length \in Nat /\ meta_reg.id \in 1..MaxRpc
    BY <1>2, MetaLens
  <2>3. DB(N) = Beats(meta_reg.device_length)
    BY <1>2 DEF DB, DeviceBeatsOf
  <2>4. Beats(0) = 0
    BY DEF Beats, Round64
  <2> QED
    BY <2>1, <2>2, <2>3, <2>4, Rounding
<1>4. /\ Known' = Known /\ HOff' = HOff /\ DB(Known)' = DB(Known)
      /\ \A n : DB(n)' = DB(n)
  BY <1>2 DEF Known, HOff, DB
<1>5. \A n, k : Sent(n, k)' = Sent(n, k)
  BY <1>2, <1>4 DEF Sent
<1>6. \A n, k : Pending(n, k)' = Pending(n, k)
  BY <1>2, <1>5 DEF Pending
<1>7. DeviceOK'
  BY <1>2, <1>4 DEF HbmOK, DeviceOK, Sent, DB
<1>8. ASSUME NEW w, AwRight(w, alloc, metas) PROVE AwRight(w, alloc', metas')
  BY <1>1, <1>2, <1>8 DEF AwRight, Served
<1>9. hbm_off = 64 * HOff /\ (aw_q = <<>> => hbm_off = 0 /\ HOff = 0) /\ HOff \in Nat
  BY DeviceSizes DEF HbmOK, AwOK, HOff
<1>10. CASE meta_reg.device_length = 0
  <2>1. aw_q' = aw_q
    BY <1>2, <1>10, DeviceSizes DEF DeviceAw
  <2>2. AwOK'
    <3>1. \A i \in 1..Len(aw_q') : AwRight(aw_q'[i], alloc', metas')
      BY <1>8, <2>1 DEF HbmOK, AwOK
    <3> QED
      BY <1>2, <1>4, <2>1, <3>1 DEF HbmOK, AwOK, DB
  <2>3. ASSUME NEW n \in 1..Known, NEW k \in 1..DB(n) PROVE Addressed(n, k)' <=> Addressed(n, k)
    <3>1. n # N
      BY <1>3, <1>10, <2>3
    <3>2. n > Served + 1 <=> n > Served
      BY <1>1, <3>1
    <3> QED
      BY <1>1, <1>4, <2>1, <3>2 DEF Addressed
  <2>4. Agree'
    BY <1>4, <1>6, <2>3 DEF HbmOK, Agree
  <2> QED
    BY <1>7, <2>2, <2>4 DEF HbmOK
<1>11. CASE meta_reg.device_length # 0
  <2>1. /\ aw \in HbmWrites /\ aw.rpc = N /\ aw.addr = BufferAddr(idx) /\ aw.len = 64 * DB(N)
    <3>1. BufferAddr(idx) \in Nat
      BY <1>1, DerToMemAssumption DEF BufferAddr, Entries
    <3> QED
      BY <1>3, <3>1 DEF HbmWrites
  <2>2. aw_q' = Append(aw_q, aw)
    <3>1. aw_q' = aw_q \o <<aw>>
      BY <1>2, <1>11 DEF DeviceAw
    <3> QED
      BY <2>1, <3>1, DeviceSizes
  <2> HIDE DEF aw
  <2>3. /\ Len(aw_q') = Len(aw_q) + 1 /\ Len(aw_q) \in Nat
        /\ \A i \in 1..Len(aw_q) : aw_q'[i] = aw_q[i]
        /\ aw_q'[Len(aw_q) + 1] = aw /\ aw_q' # <<>>
        /\ aw_q = <<>> <=> Len(aw_q) = 0
    <3>1. /\ Len(aw_q') = Len(aw_q) + 1 /\ Len(aw_q) \in Nat
          /\ \A i \in 1..Len(aw_q) : aw_q'[i] = aw_q[i]
          /\ aw_q'[Len(aw_q) + 1] = aw
      BY <2>1, <2>2, DeviceSizes, Push
    <3>2. aw_q = <<>> <=> Len(aw_q) = 0
      BY DeviceSizes, EmptyQueue
    <3>3. aw_q' # <<>>
      <4>1. Append(aw_q, aw) \in Seq(HbmWrites) /\ Len(Append(aw_q, aw)) # 0
        BY <2>1, DeviceSizes, Push
      <4> QED
        BY <2>2, <4>1, EmptyQueue
    <3> QED
      BY <3>1, <3>2, <3>3
  <2>4. AwRight(aw, alloc', metas')
    BY <1>1, <1>2, <1>3, <1>11, <2>1 DEF AwRight, DB, Served
  <2>5. \A i \in 1..Len(aw_q) : aw_q[i].rpc \in 1..Served
    BY DEF HbmOK, AwOK, AwRight, Served
  <2>6. AwOK'
    <3>1. ASSUME NEW i \in 1..Len(aw_q') PROVE AwRight(aw_q'[i], alloc', metas')
      <4>1. CASE i \in 1..Len(aw_q)
        BY <1>8, <2>3, <4>1 DEF HbmOK, AwOK
      <4>2. CASE i = Len(aw_q) + 1
        BY <2>3, <2>4, <4>2
      <4> QED
        BY <2>3, <4>1, <4>2
    <3>2. ASSUME NEW i \in 1..Len(aw_q'), NEW j \in 1..Len(aw_q'), i < j
          PROVE  aw_q'[i].rpc < aw_q'[j].rpc
      <4>1. i \in 1..Len(aw_q)
        BY <2>3, <3>2
      <4>2. CASE j \in 1..Len(aw_q)
        BY <2>3, <3>2, <4>1, <4>2 DEF HbmOK, AwOK
      <4>3. CASE j = Len(aw_q) + 1
        <5>1. aw_q'[i].rpc \in 1..Served /\ aw_q'[j].rpc = N
          BY <2>1, <2>3, <2>5, <4>1, <4>3
        <5> QED
          BY <1>1, <5>1
      <4> QED
        BY <2>3, <4>2, <4>3
    <3>3. HOff < DB(aw_q'[1].rpc)
      <4>1. CASE aw_q = <<>>
        <5>1. aw_q'[1] = aw
          BY <2>3, <4>1
        <5> QED
          BY <1>3, <1>9, <1>11, <2>1, <4>1, <5>1
      <4>2. CASE aw_q # <<>>
        <5>1. aw_q'[1] = aw_q[1]
          BY <2>3, <4>2
        <5> QED
          BY <4>2, <5>1 DEF HbmOK, AwOK
      <4> QED
        BY <4>1, <4>2
    <3> QED
      BY <1>2, <1>4, <1>9, <2>3, <3>1, <3>2, <3>3 DEF AwOK, DB
  <2>7. ASSUME NEW n \in 1..Known, NEW k \in 1..DB(n) PROVE Addressed(n, k)' <=> Addressed(n, k)
    <3>1. ASSUME Addressed(n, k)' PROVE Addressed(n, k)
      <4>1. CASE n > N
        BY <1>1, <4>1 DEF Addressed
      <4>2. CASE ~(n > N)
        <5>1. PICK i \in 1..Len(aw_q') : aw_q'[i].rpc = n /\ (i = 1 => k > HOff)
          BY <1>1, <1>4, <3>1, <4>2 DEF Addressed
        <5>2. CASE i \in 1..Len(aw_q)
          BY <2>3, <5>1, <5>2 DEF Addressed
        <5>3. CASE i = Len(aw_q) + 1
          <6>1. n = N
            BY <2>1, <2>3, <5>1, <5>3
          <6> QED
            BY <1>1, <6>1 DEF Addressed
        <5> QED
          BY <2>3, <5>2, <5>3
      <4> QED
        BY <4>1, <4>2
    <3>2. ASSUME Addressed(n, k) PROVE Addressed(n, k)'
      <4>1. CASE n > N
        BY <1>1, <4>1 DEF Addressed
      <4>2. CASE n = N
        <5>1. Len(aw_q) + 1 \in 1..Len(aw_q') /\ aw_q'[Len(aw_q) + 1].rpc = n
          BY <2>1, <2>3, <4>2
        <5>2. Len(aw_q) + 1 = 1 => k > HOff
          <6>1. Len(aw_q) + 1 = 1 => HOff = 0
            BY <1>9, <2>3
          <6> QED
            BY <6>1
        <5> QED
          BY <1>4, <5>1, <5>2 DEF Addressed
      <4>3. CASE ~(n > Served)
        <5>1. PICK i \in 1..Len(aw_q) : aw_q[i].rpc = n /\ (i = 1 => k > HOff)
          BY <3>2, <4>3 DEF Addressed
        <5>2. i \in 1..Len(aw_q') /\ aw_q'[i].rpc = n
          BY <2>3, <5>1
        <5> QED
          BY <1>4, <5>1, <5>2 DEF Addressed
      <4> QED
        BY <1>1, <4>1, <4>2, <4>3
    <3> QED
      BY <3>1, <3>2
  <2>8. Agree'
    BY <1>4, <1>6, <2>7 DEF HbmOK, Agree
  <2> QED
    BY <1>7, <2>6, <2>8 DEF HbmOK
<1> QED
  BY <1>10, <1>11

LEMMA HbmPop == ASSUME TypeOK, MetasOK, HbmOK, HbmBeat PROVE HbmOK'
<1> DEFINE r == aw_q[1].rpc
           done == hbm_off + 64 >= aw_q[1].len
           b == <<r, HOff + 1>>
<1>1. /\ aw_q # <<>> /\ device_fifo # <<>> /\ device_fifo' = Tail(device_fifo)
      /\ UNCHANGED <<metas, alloc, deser>>
      /\ IF hbm_off + 64 >= Head(aw_q).len
         THEN aw_q' = Tail(aw_q) /\ hbm_off' = 0
         ELSE hbm_off' = hbm_off + 64 /\ UNCHANGED aw_q
  BY DEF HbmBeat, hist
<1>2. /\ Head(device_fifo) = b /\ AwRight(aw_q[1], alloc, metas)
      /\ Head(aw_q) = aw_q[1] /\ Head(device_fifo) = device_fifo[1]
  BY <1>1, HeadMeetsHead
<1>3. /\ HOff \in Nat /\ hbm_off = 64 * HOff /\ HOff < DB(r) /\ aw_q[1].len = 64 * DB(r)
      /\ r \in 1..Served /\ r \in 1..Known /\ DB(r) \in Nat /\ Served \in Nat /\ Known \in Nat
      /\ \A n \in 1..Known : DB(n) \in Nat
  <2>1. r \in 1..Served /\ aw_q[1].len = 64 * DB(r)
    BY <1>2 DEF AwRight, Served, DB
  <2> QED
    BY <1>1, <2>1, DeviceSizes DEF HbmOK, AwOK
<1>4. done <=> HOff + 1 = DB(r)
  BY <1>3
<1>5. /\ Known' = Known /\ Served' = Served /\ DB(Known)' = DB(Known)
      /\ \A n : DB(n)' = DB(n)
  BY <1>1 DEF Known, Served, DB
<1>6. \A n, k : Sent(n, k)' = Sent(n, k)
  BY <1>1, <1>5 DEF Sent
<1>7. Sent(r, HOff + 1)
  <2>1. 1 \in 1..Len(device_fifo) /\ device_fifo[1][1] = r /\ device_fifo[1][2] = HOff + 1
    BY <1>1, <1>2, DeviceSizes, Pop
  <2> QED
    BY <2>1 DEF HbmOK, DeviceOK
<1>8. \A c : In(device_fifo', c) <=> In(device_fifo, c) /\ c # b
  <2>1. ASSUME NEW i \in 1..Len(device_fifo), NEW j \in 1..Len(device_fifo), i < j
        PROVE  device_fifo[i] # device_fifo[j]
    <3>1. Before(device_fifo[i], device_fifo[j])
      BY <2>1 DEF HbmOK, DeviceOK
    <3>2. /\ device_fifo[i][1] \in Nat /\ device_fifo[i][2] \in Nat
          /\ device_fifo[j][1] \in Nat /\ device_fifo[j][2] \in Nat
      <4>1. device_fifo[i] \in Beat /\ device_fifo[j] \in Beat
        BY DeviceSizes, EmptyQueue
      <4>2. \A c \in Beat : c[1] \in Nat /\ c[2] \in Nat
        BY DerToMemAssumption DEF Beat
      <4> QED
        BY <4>1, <4>2
    <3> QED
      BY <3>1, <3>2 DEF Before
  <2>2. device_fifo \in Seq(Beat) /\ device_fifo # <<>>
    BY <1>1, DeviceSizes
  <2>3. \A i, j \in 1..Len(device_fifo) : i < j => device_fifo[i] # device_fifo[j]
    BY <2>1
  <2>4. \A c : In(Tail(device_fifo), c) <=> In(device_fifo, c) /\ c # Head(device_fifo)
    BY <2>2, <2>3, InPop, Zenon
  <2> QED
    BY <1>1, <1>2, <2>4, Zenon
<1>9. \A n, k : Pending(n, k)' <=> Pending(n, k) /\ <<n, k>> # b
  <2> SUFFICES ASSUME NEW n, NEW k PROVE Pending(n, k)' <=> Pending(n, k) /\ <<n, k>> # b
    OBVIOUS
  <2>1. Pending(n, k)' <=> (In(device_fifo, <<n, k>>) /\ <<n, k>> # b) \/ ~Sent(n, k)
    BY <1>6, <1>8 DEF Pending
  <2>2. <<n, k>> = b => Sent(n, k)
    BY <1>7
  <2> QED
    BY <2>1, <2>2 DEF Pending
<1>10. DeviceOK'
  <2>1. /\ Len(device_fifo') = Len(device_fifo) - 1 /\ Len(device_fifo) \in Nat
        /\ \A i \in 1..Len(device_fifo') : device_fifo'[i] = device_fifo[i + 1]
    BY <1>1, DeviceSizes, Pop
  <2>2. ASSUME NEW i \in 1..Len(device_fifo')
        PROVE  /\ device_fifo'[i][1] \in 1..Known
               /\ device_fifo'[i][2] \in 1..DB(device_fifo'[i][1])
               /\ Sent(device_fifo'[i][1], device_fifo'[i][2])
    <3>1. device_fifo'[i] = device_fifo[i + 1] /\ i + 1 \in 1..Len(device_fifo)
      BY <2>1
    <3> QED
      BY <3>1 DEF HbmOK, DeviceOK
  <2>3. ASSUME NEW i \in 1..Len(device_fifo'), NEW j \in 1..Len(device_fifo'), i < j
        PROVE  Before(device_fifo'[i], device_fifo'[j])
    <3>1. /\ device_fifo'[i] = device_fifo[i + 1] /\ i + 1 \in 1..Len(device_fifo)
          /\ device_fifo'[j] = device_fifo[j + 1] /\ j + 1 \in 1..Len(device_fifo)
          /\ i + 1 < j + 1
      BY <2>1, <2>3
    <3> QED
      BY <3>1 DEF HbmOK, DeviceOK
  <2> QED
    BY <1>1, <1>5, <2>2, <2>3 DEF DeviceOK, Sent, DB
<1>11. 1 \in 1..Len(aw_q) /\ Len(aw_q) \in Nat
       /\ \A i \in 1..Len(aw_q) : i # 1 => aw_q[i].rpc > r /\ aw_q[i].rpc \in Nat
  <2>1. 1 \in 1..Len(aw_q) /\ Len(aw_q) \in Nat
    BY <1>1, DeviceSizes, Pop
  <2>2. ASSUME NEW i \in 1..Len(aw_q), i # 1 PROVE aw_q[i].rpc > r /\ aw_q[i].rpc \in Nat
    <3>1. 1 < i
      BY <2>1, <2>2
    <3>2. r < aw_q[i].rpc /\ aw_q[i].rpc \in 1..Served
      BY <2>1, <3>1 DEF HbmOK, AwOK, AwRight, Served
    <3> QED
      BY <1>3, <3>2
  <2> QED
    BY <2>1, <2>2
<1>12. CASE done
  <2>1. aw_q' = Tail(aw_q) /\ hbm_off' = 0 /\ HOff' = 0
    BY <1>1, <1>2, <1>12 DEF HOff
  <2>2. /\ Len(aw_q') = Len(aw_q) - 1 /\ aw_q' \in Seq(HbmWrites)
        /\ \A i \in 1..Len(aw_q') : aw_q'[i] = aw_q[i + 1]
    BY <1>1, <2>1, DeviceSizes, Pop
  <2>3. AwOK'
    <3>1. ASSUME NEW i \in 1..Len(aw_q') PROVE AwRight(aw_q'[i], alloc, metas)
      <4>1. i + 1 \in 1..Len(aw_q)
        BY <1>11, <2>2
      <4> QED
        BY <2>2, <4>1 DEF HbmOK, AwOK
    <3>2. ASSUME NEW i \in 1..Len(aw_q'), NEW j \in 1..Len(aw_q'), i < j
          PROVE  aw_q'[i].rpc < aw_q'[j].rpc
      <4>1. i + 1 \in 1..Len(aw_q) /\ j + 1 \in 1..Len(aw_q) /\ i + 1 < j + 1
        BY <1>11, <2>2, <3>2
      <4> QED
        BY <2>2, <4>1 DEF HbmOK, AwOK
    <3>3. aw_q' # <<>> => 0 < DB(aw_q'[1].rpc)
      <4>1. aw_q' # <<>> => 1 \in 1..Len(aw_q')
        BY <2>2, Pop
      <4> QED
        BY <3>1, <4>1 DEF AwRight, DB
    <3> QED
      BY <1>1, <2>1, <3>1, <3>2, <3>3 DEF AwOK, DB
  <2>4. ASSUME NEW n \in 1..Known, NEW k \in 1..DB(n)
        PROVE  Addressed(n, k)' <=> Addressed(n, k) /\ <<n, k>> # b
    <3>1. k \in Nat /\ n \in Nat /\ DB(n) \in Nat
      BY <1>3
    <3>2. CASE n = r
      <4>1. ~Addressed(n, k)'
        <5> SUFFICES ASSUME NEW i \in 1..Len(aw_q') PROVE aw_q'[i].rpc # r
          BY <1>3, <1>5, <3>2 DEF Addressed
        <5>1. i + 1 \in 1..Len(aw_q) /\ i + 1 # 1
          BY <1>11, <2>2
        <5>2. aw_q[i + 1].rpc > r /\ aw_q[i + 1].rpc \in Nat
          BY <1>11, <5>1
        <5>3. aw_q[i + 1].rpc # r
          <6>1. r \in Nat
            BY <1>3
          <6> HIDE DEF r
          <6> QED
            BY <5>2, <6>1
        <5> QED
          BY <2>2, <5>3
      <4>2. Addressed(n, k) => k = HOff + 1
        <5> SUFFICES ASSUME Addressed(n, k) PROVE k = HOff + 1
          OBVIOUS
        <5>1. PICK i \in 1..Len(aw_q) : aw_q[i].rpc = n /\ (i = 1 => k > HOff)
          BY <1>3, <3>2 DEF Addressed
        <5>2. i = 1
          BY <1>3, <1>11, <3>2, <5>1
        <5> QED
          BY <1>3, <1>4, <1>12, <3>1, <3>2, <5>1, <5>2
      <4> QED
        BY <3>2, <4>1, <4>2
    <3>3. CASE n # r
      <4>1. <<n, k>> # b
        BY <3>3
      <4>2. ASSUME Addressed(n, k), ~(n > Served) PROVE Addressed(n, k)'
        <5>1. PICK i \in 1..Len(aw_q) : aw_q[i].rpc = n
          BY <4>2 DEF Addressed
        <5>2. i # 1
          BY <3>3, <5>1
        <5>3. i - 1 \in 1..Len(aw_q') /\ (i - 1) + 1 = i
          BY <1>11, <2>2, <5>2
        <5>4. aw_q'[i - 1].rpc = n /\ k > HOff'
          BY <2>1, <2>2, <3>1, <5>1, <5>3
        <5> QED
          BY <5>3, <5>4 DEF Addressed
      <4>3. ASSUME Addressed(n, k)', ~(n > Served) PROVE Addressed(n, k)
        <5>1. PICK i \in 1..Len(aw_q') : aw_q'[i].rpc = n
          BY <1>5, <4>3 DEF Addressed
        <5>2. i + 1 \in 1..Len(aw_q) /\ i + 1 # 1 /\ aw_q[i + 1].rpc = n
          BY <1>11, <2>2, <5>1
        <5> QED
          BY <5>2 DEF Addressed
      <4>4. n > Served => Addressed(n, k) /\ Addressed(n, k)'
        BY <1>5 DEF Addressed
      <4> QED
        BY <4>1, <4>2, <4>3, <4>4
    <3> QED
      BY <3>2, <3>3
  <2>5. Agree'
    BY <1>5, <1>9, <2>4 DEF HbmOK, Agree
  <2> QED
    BY <1>10, <2>3, <2>5 DEF HbmOK
<1>13. CASE ~done
  <2>1. aw_q' = aw_q /\ hbm_off' = 64 * (HOff + 1)
    BY <1>1, <1>2, <1>3, <1>13
  <2>2. HOff' = HOff + 1
    <3>1. (64 * (HOff + 1)) \div 64 = HOff + 1
      BY <1>3
    <3> QED
      BY <2>1, <3>1 DEF HOff
  <2>3. HOff + 1 < DB(r)
    BY <1>3, <1>4, <1>13
  <2>4. AwOK'
    <3>1. DB(aw_q[1].rpc)' = DB(r)
      BY <1>1, <2>1 DEF DB
    <3> QED
      BY <1>1, <2>1, <2>2, <2>3, <3>1 DEF HbmOK, AwOK
  <2>5. ASSUME NEW n \in 1..Known, NEW k \in 1..DB(n)
        PROVE  Addressed(n, k)' <=> Addressed(n, k) /\ <<n, k>> # b
    <3>1. k \in Nat /\ n \in Nat /\ DB(n) \in Nat
      BY <1>3
    <3>2. CASE n = r
      <4>1. Addressed(n, k) <=> k > HOff
        BY <1>3, <1>11, <3>1, <3>2 DEF Addressed
      <4>2. Addressed(n, k)' <=> k > HOff + 1
        <5>1. Addressed(n, k)' <=> \E i \in 1..Len(aw_q) : aw_q[i].rpc = n /\ (i = 1 => k > HOff + 1)
          <6>1. ~(n > Served)
            BY <1>3, <3>2
          <6> QED
            BY <1>5, <2>1, <2>2, <6>1 DEF Addressed
        <5>2. \A i \in 1..Len(aw_q) : aw_q[i].rpc = n => i = 1
          BY <1>3, <1>11, <3>2
        <5> QED
          BY <1>11, <3>2, <5>1, <5>2, Zenon
      <4>3. k > HOff + 1 <=> k > HOff /\ k # HOff + 1
        BY <1>3, <3>1
      <4> QED
        BY <3>2, <4>1, <4>2, <4>3
    <3>3. CASE n # r
      <4>1. \A i \in 1..Len(aw_q) : aw_q[i].rpc = n => i # 1
        BY <3>3
      <4>2. Addressed(n, k)' <=> Addressed(n, k)
        BY <1>5, <2>1, <4>1 DEF Addressed
      <4> QED
        BY <3>3, <4>2
    <3> QED
      BY <3>2, <3>3
  <2>6. Agree'
    BY <1>5, <1>9, <2>5 DEF HbmOK, Agree
  <2> QED
    BY <1>10, <2>4, <2>6 DEF HbmOK
<1> QED
  BY <1>12, <1>13

LEMMA HbmStep == ASSUME TypeOK, MetasOK, HbmOK, [Next]_vars PROVE HbmOK'
<1>1. ASSUME NEW h \in HostLens, NEW d \in DeviceLens, MetaIn(h, d) PROVE HbmOK'
  BY <1>1, HbmMetaIn
<1>2. CASE DeviceDataIn
  BY <1>2, HbmDataIn
<1>3. CASE NewBuffer
  BY <1>3, HbmNewBuffer
<1>4. CASE HbmBeat
  BY <1>4, HbmPop
<1>5. CASE HostDataIn
  <2>1. deser'.device = deser.device
    BY <1>5 DEF HostDataIn
  <2> QED
    BY <1>5, <2>1, HbmKept DEF HostDataIn, port, hist
<1>6. CASE Idle \/ Write \/ Notice \/ DmaBeat \/ FreeListReturn \/ FreeListFill \/ UNCHANGED vars
  BY <1>6, HbmKept DEF Idle, Write, Notice, DmaBeat, FreeListReturn, FreeListFill, vars,
                       inq, port, hist
<1>7. ASSUME NEW i \in Entries, FreeIndexIn(i) PROVE HbmOK'
  BY <1>7, HbmKept DEF FreeIndexIn, inq, port, hist
<1> QED
  BY <1>1, <1>2, <1>3, <1>4, <1>5, <1>6, <1>7 DEF Next, Environment, Component, Entries

(* The HBM writer pairs every device beat with the address issued for its  *)
(* own RPC, at its own offset: the beats never pass the state machine that *)
(* issues the addresses, and RPCs without a device part issue none         *)
(* (DerToMem.scala, sNewBuffer and the device queue).                      *)
THEOREM DeviceBeatsPlaced == Spec => []HbmAligned
<1>1. Init => HbmOK
  <2> SUFFICES ASSUME Init PROVE HbmOK
    OBVIOUS
  <2>1. Known = 0 /\ Served = 0 /\ HOff = 0 /\ hbm_off = 0
    BY DEF Init, Known, Served, HOff
  <2> QED
    BY <2>1 DEF Init, HbmOK, DeviceOK, AwOK, Agree
<1>2. StreamInv /\ HbmOK /\ [Next]_vars => HbmOK'
  BY HbmStep DEF StreamInv
<1>3. StreamInv /\ HbmOK => HbmAligned
  <2> SUFFICES ASSUME StreamInv, HbmOK, aw_q # <<>>, device_fifo # <<>>
               PROVE  LET b == Head(device_fifo)
                      IN  /\ b[1] <= Len(alloc)
                          /\ Head(aw_q).addr + hbm_off = alloc[b[1]] * BUF_BYTES + 64 * (b[2] - 1)
    BY DEF HbmAligned
  <2> USE DEF StreamInv
  <2>1. /\ Head(device_fifo) = <<aw_q[1].rpc, HOff + 1>> /\ AwRight(aw_q[1], alloc, metas)
        /\ Head(aw_q) = aw_q[1]
    BY HeadMeetsHead
  <2>2. /\ Head(device_fifo)[1] = aw_q[1].rpc /\ Head(device_fifo)[2] - 1 = HOff
        /\ hbm_off = 64 * HOff
    <3>1. Head(device_fifo)[1] = aw_q[1].rpc /\ Head(device_fifo)[2] = HOff + 1
      BY <2>1
    <3>2. HOff \in Nat /\ hbm_off = 64 * HOff
      BY DeviceSizes DEF HbmOK, AwOK
    <3> QED
      BY <3>1, <3>2
  <2>3. /\ aw_q[1].rpc \in 1..Len(alloc) /\ Len(alloc) \in Nat
        /\ aw_q[1].addr = alloc[aw_q[1].rpc] * BUF_BYTES
    BY <2>1, DeviceSizes DEF AwRight, BufferAddr, Served
  <2> QED
    BY <2>1, <2>2, <2>3
<1> QED
  BY <1>1, <1>2, <1>3, StreamsInOrder, PTL DEF Spec

=============================================================================
