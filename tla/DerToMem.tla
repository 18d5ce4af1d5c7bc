------------------------------ MODULE DerToMem ------------------------------
(***************************************************************************)
(* DerToMem: moves the output of one deserializer into memory and tells    *)
(* the host about it.  For every RPC it takes a buffer number from the     *)
(* free list, writes the host part over the C2H DMA and the device part    *)
(* over the HBM port, then writes a 64 byte notice, a running count, to    *)
(* the notice slot of one host thread, the threads in turn.                *)
(*                                                                         *)
(* A queue register (XQueue) is a sequence; a transfer over a              *)
(* ready/valid port is one step, taken only when both sides can take it.   *)
(* Lengths are bytes and a beat is 64 bytes.  The deserializer in front    *)
(* and the DMA, HBM and host behind are external: they appear as far as    *)
(* the ports of this component show them.                                  *)
(***************************************************************************)
EXTENDS Integers, Sequences

CONSTANTS
  THREAD_NUM,     \* io.thread_num, the number of host threads given a notice slot
  ENTRY_MOD,      \* 2^6: an entry of free_list is 6 bits wide
  INDEX_MOD,      \* 2^7: freelist_index is 7 bits wide
  DDR_BUFFER_NUM, \* 256: depth of free_list and the bound freelist_index is compared with
  ALMOST_MARGIN,  \* free places left when the queue reports almostfull
  BUF_BYTES,      \* 2^13: distance of two buffers
  HostLens,       \* host_length values a deserializer may announce
  DeviceLens,     \* device_length values a deserializer may announce
  FIFO_DEPTH,     \* places in the meta, host and device queues
  PORT_DEPTH,     \* commands and beats the DMA takes before it stops being ready
  RETURN_DEPTH,   \* places in free_index_fifo
  MaxRpc,         \* bound: RPCs handed to the component
  MaxReturn       \* bound: buffer numbers the host gives back

ASSUME DerToMemAssumption ==
  /\ THREAD_NUM \in 1..16
  /\ ENTRY_MOD \in Nat \ {0} /\ INDEX_MOD \in Nat \ {0} /\ INDEX_MOD % ENTRY_MOD = 0
  /\ DDR_BUFFER_NUM \in Nat \ {0} /\ ALMOST_MARGIN \in 0..(DDR_BUFFER_NUM - 1)
  /\ INDEX_MOD <= DDR_BUFFER_NUM   \* 128 <= 256: the fill never comes to its end
  /\ BUF_BYTES \in Nat \ {0} /\ BUF_BYTES % 64 = 0
  /\ HostLens \subseteq 1..BUF_BYTES /\ DeviceLens \subseteq 0..BUF_BYTES
  /\ FIFO_DEPTH \in Nat \ {0} /\ PORT_DEPTH \in Nat \ {0} /\ RETURN_DEPTH \in Nat \ {0}
  /\ MaxRpc \in Nat /\ MaxReturn \in Nat

VARIABLES
  deser,            \* the RPC the deserializer is sending: its number and the beats left
  meta_fifo, host_fifo, device_fifo, free_index_fifo,
  free_list, freelist_index,
  state, meta_reg, host_length, notice_flag, notice_cnt,
  cmd_q, data_q,    \* C2H commands and beats the DMA has taken and not yet executed
  dma_off,          \* bytes of the command at the head of cmd_q already written
  aw_q, hbm_off,    \* HBM write addresses taken (rpc is history), bytes of the first one written
  host_mem, notice_mem,
  metas,            \* history: the metas of RPC 1, 2, ...
  alloc,            \* history: the buffer number given to RPC 1, 2, ...
  returned          \* buffer numbers the host has given back so far

regs  == <<state, meta_reg, host_length, notice_flag, notice_cnt>>
inq   == <<meta_fifo, host_fifo, device_fifo>>
free  == <<free_index_fifo, free_list, freelist_index, returned>>
mem   == <<host_mem, notice_mem>>
port  == <<cmd_q, data_q, dma_off, aw_q, hbm_off>>
hist  == <<metas, alloc>>
vars  == <<deser, inq, free, regs, port, mem, hist>>

(* Lengths are rounded up to whole beats; a beat is the last of its part   *)
(* when at most one beat is left.                                          *)
Round64(n) == ((n + 63) \div 64) * 64
Beats(n)   == Round64(n) \div 64
LastBeatStrict(len) == len < 64
LastBeat(len) == len <= 64
BufferAddrNarrow(idx) == idx * 64
BufferAddr(idx) == idx * BUF_BYTES

(* A beat of payload is <<n, k>>, the k-th of its part of RPC n.  The beat *)
(* of the notice of RPC n is <<n, 0>> and carries the count.               *)
None       == <<0, 0>>
Beat       == (1..MaxRpc) \X Nat
NoMeta     == [id |-> 0, host_length |-> 0, device_length |-> 0]
Metas      == [id: 1..MaxRpc, host_length: HostLens, device_length: DeviceLens]
Addrs      == {64 * a : a \in 0..(ENTRY_MOD * (BUF_BYTES \div 64) - 1)}

Init ==
  /\ deser = [id |-> 0, host |-> 0, device |-> 0]
  /\ meta_fifo = <<>> /\ host_fifo = <<>> /\ device_fifo = <<>>
  /\ free_index_fifo = <<>> /\ free_list = <<>> /\ freelist_index = 0
  /\ state = "sIdle" /\ meta_reg = NoMeta /\ host_length = 0
  /\ notice_flag = 0 /\ notice_cnt = [t \in 0..15 |-> 1]
  /\ cmd_q = <<>> /\ data_q = <<>> /\ dma_off = 0
  /\ aw_q = <<>> /\ hbm_off = 0
  /\ host_mem = [a \in Addrs |-> None]
  /\ notice_mem = [t \in 0..15 |-> 0]
  /\ metas = <<>> /\ alloc = <<>> /\ returned = 0

-----------------------------------------------------------------------------
(* The deserializer in front: the meta of an RPC, then its device beats,   *)
(* then its host beats, then the next RPC.                                 *)

MetaIn(h, d) ==
  /\ deser.id < MaxRpc
  /\ deser.host = 0 /\ deser.device = 0
  /\ Len(meta_fifo) < FIFO_DEPTH
  /\ LET m == [id |-> deser.id + 1, host_length |-> h, device_length |-> d]
     IN  /\ meta_fifo' = Append(meta_fifo, m)
         /\ metas' = Append(metas, m)
  /\ deser' = [id |-> deser.id + 1, host |-> Beats(h), device |-> Beats(d)]
  /\ UNCHANGED <<host_fifo, device_fifo, free, regs, port, mem, alloc>>

DeviceDataIn ==
  /\ deser.device > 0
  /\ Len(device_fifo) < FIFO_DEPTH
  /\ device_fifo' = Append(device_fifo,
       <<deser.id, Beats(metas[deser.id].device_length) - deser.device + 1>>)
  /\ deser' = [id |-> deser.id, host |-> deser.host, device |-> deser.device - 1]
  /\ UNCHANGED <<meta_fifo, host_fifo, free, regs, port, mem, hist>>

HostDataIn ==
  /\ deser.device = 0 /\ deser.host > 0
  /\ Len(host_fifo) < FIFO_DEPTH
  /\ host_fifo' = Append(host_fifo,
       <<deser.id, Beats(metas[deser.id].host_length) - deser.host + 1>>)
  /\ deser' = [id |-> deser.id, host |-> deser.host - 1, device |-> 0]
  /\ UNCHANGED <<meta_fifo, device_fifo, free, regs, port, mem, hist>>

-----------------------------------------------------------------------------
(* The free list.  A number the host gave back has priority over the       *)
(* counter that fills the list, and is taken even when the list is full.   *)

FreeIndexIn(i) ==
  /\ returned < MaxReturn
  /\ Len(free_index_fifo) < RETURN_DEPTH
  /\ free_index_fifo' = Append(free_index_fifo, i)
  /\ returned' = returned + 1
  /\ UNCHANGED <<deser, inq, free_list, freelist_index, regs, port, mem, hist>>

FreeListReturn ==
  /\ free_index_fifo # <<>>
  /\ free_list' = IF Len(free_list) < DDR_BUFFER_NUM
                  THEN Append(free_list, Head(free_index_fifo) % ENTRY_MOD)
                  ELSE free_list
  /\ free_index_fifo' = Tail(free_index_fifo)
  /\ UNCHANGED <<deser, inq, freelist_index, returned, regs, port, mem, hist>>

FillWantedOnce(i) == i < ENTRY_MOD
FillWanted(i) == i < DDR_BUFFER_NUM
FillNextStuck(i) == i
FillNext(i) == (i + 1) % INDEX_MOD

FreeListFill ==
  /\ free_index_fifo = <<>>
  /\ FillWanted(freelist_index)
  /\ Len(free_list) < DDR_BUFFER_NUM - ALMOST_MARGIN
  /\ free_list' = Append(free_list, freelist_index % ENTRY_MOD)
  /\ freelist_index' = FillNext(freelist_index)
  /\ UNCHANGED <<deser, inq, free_index_fifo, returned, regs, port, mem, hist>>

-----------------------------------------------------------------------------
(* The state machine.                                                      *)

Idle ==
  /\ state = "sIdle"
  /\ meta_fifo # <<>>
  /\ meta_reg' = Head(meta_fifo)
  /\ meta_fifo' = Tail(meta_fifo)
  /\ state' = "sNewBuffer"
  /\ UNCHANGED <<deser, host_fifo, device_fifo, free, host_length, notice_flag,
                 notice_cnt, port, mem, hist>>

(* The HBM write of the device part, none when there is no device part.    *)
DeviceAwAlways(m, idx) ==
  <<[rpc |-> m.id, addr |-> BufferAddr(idx), len |-> Round64(m.device_length)]>>
DeviceAw(m, idx) ==
  IF m.device_length # 0
  THEN <<[rpc |-> m.id, addr |-> BufferAddr(idx), len |-> Round64(m.device_length)]>>
  ELSE <<>>

(* The pop of the free list waits for both output ports, and the address   *)
(* of the device part is issued in the same cycle as the C2H command.      *)
NewBuffer ==
  /\ state = "sNewBuffer"
  /\ free_list # <<>>
  /\ Len(aw_q) < PORT_DEPTH
  /\ Len(cmd_q) < PORT_DEPTH
  /\ LET idx == Head(free_list)
         len == Round64(meta_reg.host_length)
     IN  /\ aw_q' = aw_q \o DeviceAw(meta_reg, idx)
         /\ cmd_q' = Append(cmd_q, [kind |-> "data", rpc |-> meta_reg.id,
                                   addr |-> BufferAddr(idx), len |-> len])
         /\ host_length' = len
         /\ alloc' = Append(alloc, idx)
  /\ free_list' = Tail(free_list)
  /\ state' = "sWrite"
  /\ UNCHANGED <<deser, inq, free_index_fifo, freelist_index, returned, meta_reg,
                 notice_flag, notice_cnt, data_q, dma_off, hbm_off, mem, metas>>

Write ==
  /\ state = "sWrite"
  /\ host_fifo # <<>>
  /\ Len(data_q) < PORT_DEPTH
  /\ data_q' = Append(data_q, [data |-> Head(host_fifo), count |-> 0,
                               last |-> LastBeat(host_length)])
  /\ host_fifo' = Tail(host_fifo)
  /\ IF LastBeat(host_length)
     THEN state' = "sNotice" /\ UNCHANGED host_length
     ELSE host_length' = host_length - 64 /\ UNCHANGED state
  /\ UNCHANGED <<deser, meta_fifo, device_fifo, free, meta_reg, notice_flag,
                 notice_cnt, cmd_q, dma_off, aw_q, hbm_off, mem, hist>>

(* The thread a notice after the one on slot f goes to.                    *)
NextThreadOff(f) == IF f >= THREAD_NUM THEN 0 ELSE f + 1
NextThreadSame(f) == f
NextThread(f) == IF f >= THREAD_NUM - 1 THEN 0 ELSE f + 1

CountUp(f) == [notice_cnt EXCEPT ![f] = @ + 1]

Notice ==
  /\ state = "sNotice"
  /\ Len(cmd_q) < PORT_DEPTH
  /\ Len(data_q) < PORT_DEPTH
  /\ cmd_q' = Append(cmd_q, [kind |-> "notice", rpc |-> meta_reg.id,
                             addr |-> notice_flag, len |-> 64])
  /\ data_q' = Append(data_q, [data |-> <<meta_reg.id, 0>>,
                               count |-> notice_cnt[notice_flag], last |-> TRUE])
  /\ notice_cnt' = CountUp(notice_flag)
  /\ notice_flag' = NextThread(notice_flag)
  /\ state' = "sIdle"
  /\ UNCHANGED <<deser, inq, free, meta_reg, host_length, dma_off, aw_q, hbm_off,
                 mem, hist>>

-----------------------------------------------------------------------------
(* Behind the ports.  The DMA executes the commands in the order it took   *)
(* them; a command ends at the beat marked last.  The HBM writer does the  *)
(* same with addresses and device beats, and ends at the length.           *)

DmaBeat ==
  /\ cmd_q # <<>> /\ data_q # <<>>
  /\ LET cmd  == Head(cmd_q)
         beat == Head(data_q)
     IN  /\ IF cmd.kind = "data"
            THEN /\ host_mem' = [host_mem EXCEPT ![cmd.addr + dma_off] = beat.data]
                 /\ UNCHANGED notice_mem
            ELSE /\ notice_mem' = [notice_mem EXCEPT ![cmd.addr] = beat.count]
                 /\ UNCHANGED host_mem
         /\ data_q' = Tail(data_q)
         /\ IF beat.last
            THEN cmd_q' = Tail(cmd_q) /\ dma_off' = 0
            ELSE dma_off' = dma_off + 64 /\ UNCHANGED cmd_q
  /\ UNCHANGED <<deser, inq, free, regs, aw_q, hbm_off, hist>>

HbmBeat ==
  /\ aw_q # <<>> /\ device_fifo # <<>>
  /\ LET aw == Head(aw_q)
     IN  /\ device_fifo' = Tail(device_fifo)
         /\ IF hbm_off + 64 >= aw.len
            THEN aw_q' = Tail(aw_q) /\ hbm_off' = 0
            ELSE hbm_off' = hbm_off + 64 /\ UNCHANGED aw_q
  /\ UNCHANGED <<deser, meta_fifo, host_fifo, free, regs, cmd_q, data_q, dma_off,
                 mem, hist>>

Environment == \/ \E h \in HostLens, d \in DeviceLens : MetaIn(h, d)
               \/ DeviceDataIn
               \/ HostDataIn
               \/ \E i \in 0..(ENTRY_MOD - 1) : FreeIndexIn(i)
               \/ DmaBeat
               \/ HbmBeat

Component == FreeListReturn \/ FreeListFill \/ Idle \/ NewBuffer \/ Write \/ Notice

Next == Environment \/ Component

(* Every register is clocked and the DMA, the HBM and the deserializer     *)
(* keep working on what they have taken.  No fairness on new RPCs or on    *)
(* returned numbers.                                                       *)
Fairness ==
  /\ WF_vars(FreeListReturn) /\ WF_vars(FreeListFill)
  /\ WF_vars(Idle) /\ WF_vars(NewBuffer) /\ WF_vars(Write) /\ WF_vars(Notice)
  /\ WF_vars(DmaBeat) /\ WF_vars(HbmBeat)
  /\ WF_vars(DeviceDataIn) /\ WF_vars(HostDataIn)

Spec == Init /\ [][Next]_vars
FairSpec == Spec /\ Fairness

-----------------------------------------------------------------------------
Entries   == 0..(ENTRY_MOD - 1)
Commands  == [kind: {"data", "notice"}, rpc: 1..MaxRpc, addr: Nat, len: Nat]
DataBeats == [data: Beat, count: Nat, last: BOOLEAN]
HbmWrites == [rpc: 1..MaxRpc, addr: Nat, len: Nat]

InputOK ==
  /\ metas \in Seq(Metas)
  /\ deser \in [id: 0..MaxRpc, host: Nat, device: Nat] /\ deser.id = Len(metas)
  /\ deser.id > 0 => /\ deser.host <= Beats(metas[deser.id].host_length)
                     /\ deser.device <= Beats(metas[deser.id].device_length)
  /\ deser.id = 0 => deser.host = 0 /\ deser.device = 0
  /\ meta_fifo \in Seq(Metas) /\ Len(meta_fifo) <= FIFO_DEPTH
  /\ host_fifo \in Seq(Beat) /\ Len(host_fifo) <= FIFO_DEPTH
  /\ device_fifo \in Seq(Beat) /\ Len(device_fifo) <= FIFO_DEPTH
FreeOK ==
  /\ free_index_fifo \in Seq(Entries) /\ Len(free_index_fifo) <= RETURN_DEPTH
  /\ free_list \in Seq(Entries) /\ Len(free_list) <= DDR_BUFFER_NUM
  /\ freelist_index \in 0..(INDEX_MOD - 1)
  /\ returned \in 0..MaxReturn
  /\ alloc \in Seq(Entries)
RegsOK ==
  /\ state \in {"sIdle", "sNewBuffer", "sWrite", "sNotice"}
  /\ meta_reg \in Metas \cup {NoMeta} /\ (state # "sIdle" => meta_reg \in Metas)
  /\ host_length \in Nat
  /\ notice_flag \in 0..(THREAD_NUM - 1)
  /\ notice_cnt \in [0..15 -> Nat]
PortOK ==
  /\ cmd_q \in Seq(Commands) /\ Len(cmd_q) <= PORT_DEPTH
  /\ data_q \in Seq(DataBeats) /\ Len(data_q) <= PORT_DEPTH
  /\ aw_q \in Seq(HbmWrites) /\ Len(aw_q) <= PORT_DEPTH
  /\ dma_off \in Nat /\ hbm_off \in Nat
MemOK ==
  /\ host_mem \in [Addrs -> Beat \cup {None}]
  /\ notice_mem \in [0..15 -> Nat]

(* Every register and queue of the component holds a value of its type,    *)
(* no queue exceeds its depth and the counters stay within their width.    *)
TypeOK == InputOK /\ FreeOK /\ RegsOK /\ PortOK /\ MemOK

(* The thread that is told of RPC n, and whether its count says so: the    *)
(* notices go to the threads in turn and count from 1.                     *)
ThreadOf(n) == (n - 1) % THREAD_NUM
Noticed(n)  == notice_mem[ThreadOf(n)] >= (n - 1) \div THREAD_NUM + 1

(* The DMA reads commands and beats from two streams: the beat marked last *)
(* is exactly the one that completes the length of its command, so neither *)
(* stream ever runs ahead of the other (sNewBuffer, sWrite, sNotice).      *)
C2HFraming ==
  cmd_q # <<>> /\ data_q # <<>> =>
    (Head(data_q).last <=> dma_off + 64 = Head(cmd_q).len)

(* Once the host can see the notice of an RPC, the host part of that RPC   *)
(* is complete, in order and in the buffer taken for it, for as long as    *)
(* the buffer has not been handed out again.                               *)
NoticedDataInPlace ==
  \A n \in 1..Len(alloc) :
    Noticed(n) /\ (\A m \in (n + 1)..Len(alloc) : alloc[m] # alloc[n]) =>
      \A k \in 1..Beats(metas[n].host_length) :
        host_mem[alloc[n] * BUF_BYTES + 64 * (k - 1)] = <<n, k>>

(* Device beats go to HBM without passing through the state machine: each  *)
(* still meets the address issued for its own RPC, at its own offset, RPCs *)
(* without a device part included.                                         *)
HbmAligned ==
  aw_q # <<>> /\ device_fifo # <<>> =>
    LET b == Head(device_fifo)
    IN  /\ b[1] <= Len(alloc)
        /\ Head(aw_q).addr + hbm_off = alloc[b[1]] * BUF_BYTES + 64 * (b[2] - 1)

(* The threads are told in turn: no thread in use is ever more than one    *)
(* notice ahead of a later one, and the unused slots are never written.    *)
NoticeRoundRobin ==
  /\ \A t, u \in 0..(THREAD_NUM - 1) : t < u =>
       notice_mem[t] - notice_mem[u] \in {0, 1}
  /\ \A t \in THREAD_NUM..15 : notice_mem[t] = 0

(* While the host gives no numbers back, the fill counter alone makes the  *)
(* buffers a ring: RPC n gets buffer n - 1 modulo the entry width, which   *)
(* is how the host can find it, and two RPCs share a buffer only when a    *)
(* whole round lies between them.                                          *)
RingOrder ==
  returned = 0 => \A n \in 1..Len(alloc) : alloc[n] = (n - 1) % ENTRY_MOD

(* Every RPC the deserializer announces is eventually noticed to its host  *)
(* thread.                                                                 *)
EveryRpcNoticed ==
  \A n \in 1..MaxRpc : (Len(metas) >= n) ~> Noticed(n)

=============================================================================
