------------------------------ MODULE RpcReceive ------------------------------
(***************************************************************************)
(* The receive side of the card, wired as the tops do: NetToMem feeds the  *)
(* queues of SplitDe, SplitDe feeds the queues of one DeserializerSimple   *)
(* per lane and reads their idle_out.  The RoCE engine in front is the one *)
(* of NetToMem; DerToMem behind takes what the lanes put out.              *)
(*                                                                         *)
(* lens[n] is the length in the header of message n.  MemToNet sends it    *)
(* with 8 bytes of header in whole beats: Wire of the length is msgs[n].   *)
(* The lane goes by the length alone.  When the 8 bytes take a beat of     *)
(* their own, the message brings one beat more than the lane will take,    *)
(* and that beat stays behind in the lane.                                 *)
(***************************************************************************)
EXTENDS NetToMem, FiniteSets

CONSTANTS LANES, ACTIVE, DROP_LIMIT, LANE_META_DEPTH, LANE_DATA_DEPTH, DELAY,
  SLACKS    \* bytes a message is longer than the length in its header

ASSUME ReceiveAssumption ==
  /\ LANES \in Nat \ {0} /\ ACTIVE \in 1..LANES /\ DELAY \in Nat
  /\ DROP_LIMIT \in Nat
  /\ SLACKS \subseteq 8..71    \* 8 bytes of header, up to 63 unused in the last beat

VARIABLES
  lens,                                                        \* history: lengths in the headers
  de_idle, split, lane, dropped,                               \* SplitDe
  lane_meta, lane_data, lane_state, meta_reg, device_length,
  delay_cnt, meta_out, device_data_out, host_data_out          \* DeserializerSimple

net_vars   == <<msgs, lens, rx, recv_meta, recv_length, state_aw, recv_data_fifo,
                msg_length_fifo, lost_length, state_r, r_length>>
split_vars == <<de_idle, split, lane, dropped>>
lane_regs  == <<lane_state, meta_reg, device_length, delay_cnt>>
lane_outs  == <<meta_out, device_data_out, host_data_out>>
receive_vars ==
  <<net_vars, meta_fifo, data_fifo, split_vars, lane_meta, lane_data, lane_regs, lane_outs>>

Deser == INSTANCE DeserializerSimple WITH
  meta_fifo <- lane_meta, data_fifo <- lane_data, state <- lane_state

(* SplitDe sees a lane's idle_out; which RPC it works on does not matter.  *)
Split == INSTANCE SplitDe WITH
  state <- split, MaxRpc <- MaxMsg, MaxBeats <- RX_DEPTH,
  arrived <- Len(msgs), open_rpc <- 0,
  lane_rpc <- [l \in 0..(LANES - 1) |-> IF lane_state[l] = "sIdle" THEN 0 ELSE meta_reg[l]]

Lanes == Deser!Lanes

ReceiveInit ==
  Init /\ lens = <<>> /\ Deser!Init /\ de_idle = {} /\ split = "sIdle" /\ lane = 0 /\ dropped = <<>>

-----------------------------------------------------------------------------
(* The bytes MemToNet sends for an RPC of the given length.                *)
Wire(len) == ((len + 8 + 63) \div 64) * 64

(* A message that begins to arrive brings its header.  No message has      *)
(* length 0: MemToNet sends none for it.                                   *)
NewHeader ==
  IF msgs' = msgs THEN UNCHANGED lens
  ELSE \E s \in SLACKS : LET m == msgs'[Len(msgs')] IN
         s < m /\ m = Wire(m - s) /\ lens' = Append(lens, m - s)

(* Steps of NetToMem, which pushes into the queues of SplitDe.             *)
NetFrame == UNCHANGED <<split_vars, lane_meta, lane_data, lane_regs, lane_outs>>
NetWrite == NetFrame /\ (RecvMeta \/ RecvData) /\ NewHeader
NetRead  == NetFrame /\ (ReadLength \/ SendMeta \/ SendData) /\ UNCHANGED lens

(* Steps of SplitDe, which pushes into the queues of the lanes.            *)
SplitFrame  == UNCHANGED <<net_vars, lane_regs, lane_outs>>
SplitSample == SplitFrame /\ Split!SampleIdle
SplitMove   == SplitFrame /\ (Split!Choose \/ Split!SendMeta \/ Split!SendData
                               \/ Split!DropMeta \/ Split!DropData)

(* Steps of a lane.                                                        *)
LaneStep(l) ==
  /\ UNCHANGED <<net_vars, meta_fifo, data_fifo, split_vars>>
  /\ \/ Deser!Idle(l) \/ Deser!Delay(l) \/ Deser!SendMeta(l)
     \/ Deser!SendDevice(l) \/ Deser!SendHost(l)

ReceiveNext ==
  NetWrite \/ NetRead \/ SplitSample \/ SplitMove \/ \E l \in Lanes : LaneStep(l)

(* Every state machine is clocked and makes a step when it can; the engine *)
(* finishes a message it has begun and DerToMem keeps taking.              *)
ReceiveFairness ==
  /\ WF_receive_vars(NetWrite /\ rx.msg + rx.pkg > 0)
  /\ WF_receive_vars(NetRead) /\ WF_receive_vars(SplitSample) /\ WF_receive_vars(SplitMove)
  /\ \A l \in Lanes : WF_receive_vars(LaneStep(l))

ReceiveSpec == ReceiveInit /\ [][ReceiveNext]_receive_vars
ReceiveFairSpec == ReceiveSpec /\ ReceiveFairness

-----------------------------------------------------------------------------
(* The messages given to lane l: announced, being worked on, or waiting.   *)
GivenTo(l) ==
  [i \in 1..Len(meta_out[l]) |-> meta_out[l][i].rpc]
    \o (IF lane_state[l] \in {"sDelay", "sSendMeta"} THEN <<meta_reg[l]>> ELSE <<>>)
    \o lane_meta[l]

Delivery == INSTANCE RpcDelivery WITH
  ActiveLanes <- 0..(ACTIVE - 1), Sizes <- 1..RX_DEPTH,
  sent  <- [n \in 1..Len(msgs) |-> msgs[n] \div 64],
  given <- [l \in Lanes |-> GivenTo(l)],
  got   <- [l \in Lanes |-> [i \in 1..Len(device_data_out[l]) |->
              <<device_data_out[l][i].rpc, device_data_out[l][i].k>>]],
  lost  <- dropped, broken <- lost_length

(* The receive side does what RpcDelivery promises: whatever the order in  *)
(* which NetToMem, the dispatcher and the lanes run, every message goes    *)
(* whole and in order to one active lane, or is dropped whole under load,  *)
(* and what a lane puts out is the stream of the messages given to it,     *)
(* beat after beat, whatever the lengths in the headers say.               *)
DeliversRpcs == Delivery!Spec

(* A message whose header costs a beat of its own.                         *)
Costs(n) == n \in 1..Len(lens) /\ msgs[n] - lens[n] >= 64

(* The messages lane l has begun or finished; it is in step while none of  *)
(* them has left a beat behind.                                            *)
Begun(l)  == {meta_out[l][i].rpc : i \in 1..Len(meta_out[l])} \cup {meta_reg[l]}
InStep(l) == \A n \in Begun(l) : ~Costs(n)

(* The device beats lane l has announced in its metas.                     *)
Announced(l) ==
  UNION {{<<meta_out[l][i].rpc, k>> : k \in 1..(meta_out[l][i].device_length \div 64)} :
           i \in 1..Len(meta_out[l])}

Before(b, c) == b[1] < c[1] \/ (b[1] = c[1] /\ b[2] < c[2])

(* Until a lane meets its first message whose header costs a beat, it puts *)
(* out exactly the device beats it announced in its metas, in the order it *)
(* announced them, and is done with an RPC only when all of them are out:  *)
(* DerToMem, which goes by the announced lengths alone, stays in step.     *)
Promise(l) ==
  LET put == [i \in 1..Len(device_data_out[l]) |->
               <<device_data_out[l][i].rpc, device_data_out[l][i].k>>]
  IN  /\ \A i, j \in 1..Len(meta_out[l]) : i < j => meta_out[l][i].rpc < meta_out[l][j].rpc
      /\ \A i, j \in 1..Len(put) : i < j => Before(put[i], put[j])
      /\ \A i \in 1..Len(put) :
           /\ put[i] \in Announced(l)
           /\ \A b \in Announced(l) : Before(b, put[i]) => \E j \in 1..Len(put) : put[j] = b
      /\ lane_state[l] \in {"sSendHost", "sIdle"} =>
           \A b \in Announced(l) : \E j \in 1..Len(put) : put[j] = b

LaneKeepsPromise == ~lost_length => \A l \in Lanes : InStep(l) => Promise(l)

(* A lane that reports idle has nothing of an old message left: its next   *)
(* beat is the first one of a message it has not begun - again until the   *)
(* first message whose header costs a beat.                                *)
Clean(l) ==
  lane_state[l] = "sIdle" /\ lane_data[l] # <<>> =>
    /\ Head(lane_data[l]).k = 1
    /\ lane_meta[l] # <<>> /\ Head(lane_data[l]).rpc = Head(lane_meta[l])

IdleLaneClean == ~lost_length => \A l \in Lanes : InStep(l) => Clean(l)

(* After that, what the two disagree by is known: an idle lane with no RPC *)
(* waiting holds exactly one beat for every message it has finished whose  *)
(* header cost a beat, and hands them out as the first beats of the next.  *)
LeftBy(l) == {i \in 1..Len(host_data_out[l]) : Costs(host_data_out[l][i])}

LeftBehind ==
  ~lost_length => \A l \in Lanes :
    lane_state[l] = "sIdle" /\ lane_meta[l] = <<>> /\ ~(split = "sSendData" /\ lane = l) =>
      Len(lane_data[l]) = Cardinality(LeftBy(l))

(* Every message that arrives comes to an end: dropped, or finished by a   *)
(* lane.  Nothing in the chain waits for something that waits for it, as   *)
(* long as no lane is choked: full of beats left behind, so that the last  *)
(* beat of a message has no room and the dispatcher waits for ever.        *)
Ended(n) ==
  \/ \E i \in 1..Len(dropped) : dropped[i] = n
  \/ \E l \in Lanes : \E i \in 1..Len(host_data_out[l]) : host_data_out[l][i] = n

Choked == \E l \in Lanes : Cardinality(LeftBy(l)) > LANE_DATA_DEPTH

EveryMessageEnds ==
  \A n \in 1..MaxMsg : (Len(msgs) >= n) ~> (Ended(n) \/ lost_length \/ Choked)

=============================================================================
