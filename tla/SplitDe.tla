------------------------------- MODULE SplitDe -------------------------------
(***************************************************************************)
(* SplitDe / SplitDeMul: hands the RPCs that arrive from the network to    *)
(* the deserializers (lanes).  An RPC is a meta and a run of data beats,   *)
(* the last one marked.  The dispatcher picks a lane that reported idle,   *)
(* forwards one meta and then the beats up to the mark.  When no lane is   *)
(* idle and more than DROP_LIMIT metas wait, it drops one whole RPC.       *)
(*                                                                         *)
(* SplitDe.scala is the instance with one lane, SplitDeMul.scala the one   *)
(* with two; a lane is the port of one deserializer.  de_idle is a         *)
(* register that follows the lanes' idle_out: it may be old when it is     *)
(* read.  Only the first ACTIVE lanes ever report idle (total_thread_num). *)
(* Metas are numbered in the order they enter; a beat is [rpc, k, last].   *)
(***************************************************************************)
EXTENDS Integers, Sequences

CONSTANTS
  LANES,       \* number of lanes: 1 (SplitDe) or 2 (SplitDeMul)
  ACTIVE,      \* total_thread_num
  META_DEPTH,  \* places in meta_fifo (16)
  DATA_DEPTH,  \* places in data_fifo (1024)
  DROP_LIMIT,  \* 8
  LANE_META_DEPTH, LANE_DATA_DEPTH,  \* places in the queues of a lane (32, 4096)
  MaxBeats,    \* bound: beats of an RPC
  MaxRpc       \* bound: RPCs that arrive

ASSUME SplitDeAssumption ==
  /\ LANES \in Nat \ {0} /\ ACTIVE \in 1..LANES
  /\ META_DEPTH \in Nat \ {0} /\ DATA_DEPTH \in Nat \ {0}
  /\ LANE_META_DEPTH \in Nat \ {0} /\ LANE_DATA_DEPTH \in Nat \ {0}
  /\ DROP_LIMIT \in 0..(META_DEPTH - 1)
  /\ MaxBeats \in Nat \ {0} /\ MaxRpc \in Nat

Lanes == 0..(LANES - 1)

VARIABLES
  arrived, open_rpc,     \* metas in so far; whether the newest still misses its last beat
  meta_fifo, data_fifo,
  de_idle,               \* the lanes the register says are idle
  state, lane,           \* state of the dispatcher, and the lane it serves
  lane_meta, lane_data,  \* the queues of each lane
  lane_rpc,              \* the RPC each lane works on, 0 when none
  dropped                \* history: the RPCs dropped, in order

in_vars   == <<arrived, open_rpc>>
lane_vars == <<lane_meta, lane_data, lane_rpc>>
vars == <<in_vars, meta_fifo, data_fifo, de_idle, state, lane, lane_vars, dropped>>

BeatsOf == [rpc: 1..MaxRpc, k: 1..MaxBeats, last: BOOLEAN]
States  == {"sIdle", "sSendMeta", "sSendData", "sDropMeta", "sDropData"}

(* A queue takes another element while it is not full.                     *)
RoomLate(q, depth) == Len(q) <= depth
Room(q, depth) == Len(q) < depth

Init ==
  /\ arrived = 0 /\ open_rpc = 0
  /\ meta_fifo = <<>> /\ data_fifo = <<>>
  /\ de_idle = {}
  /\ state = "sIdle" /\ lane = 0
  /\ lane_meta = [l \in Lanes |-> <<>>]
  /\ lane_data = [l \in Lanes |-> <<>>]
  /\ lane_rpc = [l \in Lanes |-> 0]
  /\ dropped = <<>>

-----------------------------------------------------------------------------
(* In front: NetToMem sends the meta of an RPC, then its beats.  open_rpc  *)
(* counts the beats already sent of an RPC that is not complete.           *)

MetaIn ==
  /\ arrived < MaxRpc /\ open_rpc = 0
  /\ Room(meta_fifo, META_DEPTH)
  /\ arrived' = arrived + 1
  /\ open_rpc' = 1
  /\ meta_fifo' = Append(meta_fifo, arrived + 1)
  /\ UNCHANGED <<data_fifo, de_idle, state, lane, lane_vars, dropped>>

DataIn(last) ==
  /\ open_rpc > 0
  /\ open_rpc = MaxBeats => last
  /\ Room(data_fifo, DATA_DEPTH)
  /\ data_fifo' = Append(data_fifo, [rpc |-> arrived, k |-> open_rpc, last |-> last])
  /\ open_rpc' = IF last THEN 0 ELSE open_rpc + 1
  /\ UNCHANGED <<arrived, meta_fifo, de_idle, state, lane, lane_vars, dropped>>

-----------------------------------------------------------------------------
(* The dispatcher.  The lowest lane that is idle in the register is taken. *)

idle_out == {l \in Lanes : lane_rpc[l] = 0 /\ l < ACTIVE}

SampleIdle ==
  /\ de_idle # idle_out
  /\ de_idle' = idle_out
  /\ UNCHANGED <<in_vars, meta_fifo, data_fifo, state, lane, lane_vars, dropped>>

FirstIdle(l) == l \in de_idle /\ \A m \in de_idle : l <= m

DropFull(n) == n >= DROP_LIMIT
MayDrop(n)  == n > DROP_LIMIT

Choose ==
  /\ state = "sIdle"
  /\ \/ /\ \E l \in de_idle : FirstIdle(l) /\ lane' = l
        /\ state' = "sSendMeta"
     \/ /\ de_idle = {} /\ MayDrop(Len(meta_fifo))
        /\ state' = "sDropMeta" /\ UNCHANGED lane
  /\ UNCHANGED <<in_vars, meta_fifo, data_fifo, de_idle, lane_vars, dropped>>

SendMeta ==
  /\ state = "sSendMeta" /\ meta_fifo # <<>>
  /\ Room(lane_meta[lane], LANE_META_DEPTH)
  /\ lane_meta' = [lane_meta EXCEPT ![lane] = Append(@, Head(meta_fifo))]
  /\ meta_fifo' = Tail(meta_fifo)
  /\ state' = "sSendData"
  /\ UNCHANGED <<in_vars, data_fifo, de_idle, lane, lane_data, lane_rpc, dropped>>

(* The beat marked last ends the RPC.                                      *)
NeverEnds(b) == FALSE
EndsRpc(b) == b.last

SendData ==
  /\ state = "sSendData" /\ data_fifo # <<>>
  /\ Room(lane_data[lane], LANE_DATA_DEPTH)
  /\ lane_data' = [lane_data EXCEPT ![lane] = Append(@, Head(data_fifo))]
  /\ data_fifo' = Tail(data_fifo)
  /\ state' = IF EndsRpc(Head(data_fifo)) THEN "sIdle" ELSE "sSendData"
  /\ UNCHANGED <<in_vars, meta_fifo, de_idle, lane, lane_meta, lane_rpc, dropped>>

DropMeta ==
  /\ state = "sDropMeta" /\ meta_fifo # <<>>
  /\ dropped' = Append(dropped, Head(meta_fifo))
  /\ meta_fifo' = Tail(meta_fifo)
  /\ state' = "sDropData"
  /\ UNCHANGED <<in_vars, data_fifo, de_idle, lane, lane_vars>>

(* Dropping goes on to the end of the RPC.                                 *)
DropOneBeat(b) == "sIdle"
DropNext(b) == IF b.last THEN "sIdle" ELSE "sDropData"

DropData ==
  /\ state = "sDropData" /\ data_fifo # <<>>
  /\ data_fifo' = Tail(data_fifo)
  /\ state' = DropNext(Head(data_fifo))
  /\ UNCHANGED <<in_vars, meta_fifo, de_idle, lane, lane_vars, dropped>>

-----------------------------------------------------------------------------
(* Behind: a lane takes a meta when it is idle, then the beats as it goes, *)
(* and is idle again after the last beat of that RPC.                      *)

LaneStart(l) ==
  /\ lane_rpc[l] = 0 /\ lane_meta[l] # <<>>
  /\ lane_rpc' = [lane_rpc EXCEPT ![l] = Head(lane_meta[l])]
  /\ lane_meta' = [lane_meta EXCEPT ![l] = Tail(@)]
  /\ UNCHANGED <<in_vars, meta_fifo, data_fifo, de_idle, state, lane, lane_data, dropped>>

LaneBeat(l) ==
  /\ lane_rpc[l] # 0 /\ lane_data[l] # <<>>
  /\ lane_data' = [lane_data EXCEPT ![l] = Tail(@)]
  /\ lane_rpc' = [lane_rpc EXCEPT ![l] = IF Head(lane_data[l]).last THEN 0 ELSE @]
  /\ UNCHANGED <<in_vars, meta_fifo, data_fifo, de_idle, state, lane, lane_meta, dropped>>

Dispatcher == SampleIdle \/ Choose \/ SendMeta \/ SendData \/ DropMeta \/ DropData

Next == \/ MetaIn
        \/ \E last \in BOOLEAN : DataIn(last)
        \/ Dispatcher
        \/ \E l \in Lanes : LaneStart(l) \/ LaneBeat(l)

Spec == Init /\ [][Next]_vars

-----------------------------------------------------------------------------
InputOK  ==
  /\ arrived \in 0..MaxRpc /\ open_rpc \in 0..MaxBeats
  /\ open_rpc > 0 => arrived > 0
QueuesOK ==
  /\ meta_fifo \in Seq(1..MaxRpc) /\ Len(meta_fifo) <= META_DEPTH
  /\ data_fifo \in Seq(BeatsOf) /\ Len(data_fifo) <= DATA_DEPTH
RegsOK   ==
  /\ de_idle \subseteq Lanes /\ state \in States /\ lane \in Lanes
  /\ dropped \in Seq(1..MaxRpc)
LanesOK  ==
  /\ lane_rpc \in [Lanes -> 0..MaxRpc]
  /\ lane_meta \in [Lanes -> Seq(1..MaxRpc)]
  /\ lane_data \in [Lanes -> Seq(BeatsOf)]
  /\ \A l \in Lanes : Len(lane_meta[l]) <= LANE_META_DEPTH /\ Len(lane_data[l]) <= LANE_DATA_DEPTH

(* Every queue and register holds values of its type, no queue more than   *)
(* its depth: neither the ports in front nor the dispatcher overrun one.   *)
TypeOK == InputOK /\ QueuesOK /\ RegsOK /\ LanesOK

(* The beats a lane receives are those of the metas it received, RPC after *)
(* RPC, every beat of each: the next beat of a lane always belongs to the  *)
(* RPC the lane works on or will take next.  A drop that stops early or a  *)
(* dispatcher that misses the mark would shift all later RPCs.             *)
LaneAligned ==
  \A l \in Lanes : lane_data[l] # <<>> =>
    LET metas == (IF lane_rpc[l] # 0 THEN <<lane_rpc[l]>> ELSE <<>>) \o lane_meta[l]
    IN  metas # <<>> /\ Head(lane_data[l]).rpc = Head(metas)

(* The same in the dispatcher itself, whose two queues are filled and      *)
(* drained at different times: while it forwards or drops data, the next   *)
(* beat is one of the RPC whose meta left last; otherwise it is the first  *)
(* beat of the RPC whose meta is next.                                     *)
Taken == arrived - Len(meta_fifo)

DispatchAligned ==
  data_fifo # <<>> =>
    IF state \in {"sSendData", "sDropData"}
    THEN Head(data_fifo).rpc = Taken
    ELSE Head(data_fifo).rpc = Taken + 1 /\ Head(data_fifo).k = 1

(* An RPC is dropped only under load: DROP_LIMIT others still wait when    *)
(* the meta is thrown away, although the limit is tested a state earlier.  *)
DropUnderLoad ==
  [][dropped' # dropped => Len(meta_fifo') >= DROP_LIMIT]_vars

=============================================================================
