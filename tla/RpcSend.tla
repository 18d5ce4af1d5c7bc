------------------------------- MODULE RpcSend -------------------------------
(***************************************************************************)
(* The send side of the card: the serializers of the lanes share MemToNet  *)
(* through an arbiter.  The arbiter (external) passes the meta of one lane *)
(* and then the beats of that lane up to the mark before it serves         *)
(* another.  ReadHost in front has fetched the parts of an object when the *)
(* serializer reads them.  The RoCE engine (external) takes an announced   *)
(* send and then as many beats as its length says.                         *)
(***************************************************************************)
EXTENDS Integers, Sequences, SequencesExt

CONSTANTS
  LANES, LEN_MOD, DELAY, OUT_DEPTH, SEND_DEPTH, TX_DEPTH,
  HostLens, DeviceLens,  \* bytes of the parts of an object
  MaxCmd                 \* bound: objects

ASSUME RpcSendAssumption ==
  /\ LANES \in Nat \ {0} /\ DELAY \in Nat /\ OUT_DEPTH \in Nat \ {0}
  /\ SEND_DEPTH \in Nat \ {0} /\ TX_DEPTH \in Nat \ {0} /\ MaxCmd \in Nat
  /\ LEN_MOD \in Nat /\ LEN_MOD % 64 = 0
  /\ HostLens \subseteq Nat \ {0} /\ DeviceLens \subseteq Nat
  (* Objects of at least a beat, within 16 bits.  The host part counts     *)
  (* twice (up to a beat) when there is no device part.                    *)
  /\ \A h \in HostLens, d \in DeviceLens :
       IF d = 0 THEN h >= 32 /\ h + 64 < LEN_MOD ELSE h + d >= 64 /\ h + d < LEN_MOD

VARIABLES
  cmds,                                            \* history: the objects, in order
  meta_in, host_data_in, device_data_in, state, meta_reg, host_length, device_length,
  delay_cnt, sent_k, meta_out, data_out,           \* SerializerSimple
  granted,                                         \* the lane the arbiter serves, or -1
  rpc_lshift, state_aw, serout_meta, send_data_fifo, s_tx_meta,   \* MemToNet
  tx, done                                         \* the send the engine works on; sends completed

ser_vars == <<meta_in, host_data_in, device_data_in, state, meta_reg, host_length, device_length,
              delay_cnt, sent_k>>
net_vars == <<rpc_lshift, state_aw, serout_meta, send_data_fifo, s_tx_meta>>
eng_vars == <<tx, done>>
vars == <<cmds, ser_vars, meta_out, data_out, granted, net_vars, eng_vars>>

Ser == INSTANCE SerializerSimple
Net == INSTANCE MemToNet

Lanes == Ser!Lanes
Beats(n) == (n + 63) \div 64
NoTx == [id |-> 0, left |-> 0]

Init == Ser!Init /\ Net!Init /\ cmds = <<>> /\ granted = -1 /\ tx = NoTx /\ done = <<>>

(* A lane gets a command and the parts of its object.                      *)
Command(l, h, d) ==
  /\ Len(cmds) < MaxCmd
  /\ LET c == [id |-> Len(cmds) + 1, host |-> h, device |-> d] IN
     /\ cmds' = Append(cmds, c)
     /\ meta_in' = [meta_in EXCEPT ![l] = Append(@, c)]
     /\ host_data_in' = [host_data_in EXCEPT ![l] = @ \o [k \in 1..Beats(h) |-> <<c.id, k>>]]
     /\ device_data_in' = [device_data_in EXCEPT ![l] = @ \o [k \in 1..Beats(d) |-> <<c.id, k>>]]
  /\ UNCHANGED <<state, meta_reg, host_length, device_length, delay_cnt, sent_k, meta_out, data_out,
                 granted, net_vars, eng_vars>>

SerStep(l) == Ser!Lane(l) /\ UNCHANGED <<cmds, granted, net_vars, eng_vars>>

(* The arbiter between the lanes and MemToNet.                             *)
PassMeta(l) ==
  /\ granted = -1 /\ meta_out[l] # <<>>
  /\ Net!TakeMeta(Head(meta_out[l]))
  /\ meta_out' = [meta_out EXCEPT ![l] = Tail(@)]
  /\ granted' = l
  /\ UNCHANGED <<cmds, ser_vars, data_out, eng_vars>>

PassData ==
  /\ granted \in Lanes /\ data_out[granted] # <<>>
  /\ Net!Shift(Head(data_out[granted]))
  /\ data_out' = [data_out EXCEPT ![granted] = Tail(@)]
  /\ granted' = IF Head(data_out[granted]).last THEN -1 ELSE granted
  /\ UNCHANGED <<cmds, ser_vars, meta_out, eng_vars>>

NetStep ==
  /\ Net!SendMeta \/ Net!SendData
  /\ UNCHANGED <<cmds, ser_vars, meta_out, data_out, granted, eng_vars>>

(* The RoCE engine.                                                        *)
TxStart ==
  /\ tx.left = 0 /\ s_tx_meta # <<>>
  /\ tx' = [id |-> Head(s_tx_meta).id, left |-> Head(s_tx_meta).length]
  /\ s_tx_meta' = Tail(s_tx_meta)
  /\ UNCHANGED <<cmds, ser_vars, meta_out, data_out, granted, rpc_lshift, state_aw, serout_meta,
                 send_data_fifo, done>>

TxBeat ==
  /\ tx.left > 0 /\ send_data_fifo # <<>>
  /\ tx' = [tx EXCEPT !.left = @ - 64]
  /\ done' = IF tx.left <= 64 THEN Append(done, tx.id) ELSE done
  /\ send_data_fifo' = Tail(send_data_fifo)
  /\ UNCHANGED <<cmds, ser_vars, meta_out, data_out, granted, rpc_lshift, state_aw, serout_meta,
                 s_tx_meta>>

Next == \/ \E l \in Lanes, h \in HostLens, d \in DeviceLens : Command(l, h, d)
        \/ \E l \in Lanes : SerStep(l) \/ PassMeta(l)
        \/ PassData \/ NetStep \/ TxStart \/ TxBeat

(* The machines are clocked, the arbiter and the engine keep working.      *)
Fairness ==
  /\ \A l \in Lanes : WF_vars(SerStep(l)) /\ WF_vars(PassMeta(l))
  /\ WF_vars(PassData) /\ WF_vars(NetStep) /\ WF_vars(TxStart) /\ WF_vars(TxBeat)

Spec == Init /\ [][Next]_vars
FairSpec == Spec /\ Fairness

-----------------------------------------------------------------------------
(* Metas and beats reach the engine in two streams: the beats of a send    *)
(* all belong to the object it announces, the header sits in the first and *)
(* names the same object, and the length runs out exactly at the mark.     *)
TxFramed ==
  tx.left > 0 /\ send_data_fifo # <<>> =>
    LET b == Head(send_data_fifo).beat IN
      /\ b.id = tx.id
      /\ Head(send_data_fifo).header = IF b.k = 1 THEN tx.id ELSE 0
      /\ b.last <=> tx.left = 64

(* The beats of the parts of objects cs, with lengths lens[1], lens[2], ... *)
PartBeats(cs, lens) == UNION {{<<cs[i].id, k>> : k \in 1..Beats(lens[i])} : i \in 1..Len(cs)}

(* Ids count the commands, so this is the order of the commands.           *)
InOrder(q) ==
  \A i, j \in 1..Len(q) : i < j => q[i][1] < q[j][1] \/ (q[i][1] = q[j][1] /\ q[i][2] < q[j][2])

(* A serializer that is done reading has read its object to the end and no *)
(* further: what waits in either stream is exactly the parts of the        *)
(* objects still to come, in their order.                                  *)
ObjectsReadWhole ==
  \A l \in Lanes : state[l] \in {"sIdle", "sDelay", "sSendMeta", "sSendData"} =>
    LET cs == meta_in[l] IN
      /\ ToSet(host_data_in[l]) = PartBeats(cs, [i \in 1..Len(cs) |-> cs[i].host])
      /\ ToSet(device_data_in[l]) = PartBeats(cs, [i \in 1..Len(cs) |-> cs[i].device])
      /\ InOrder(host_data_in[l]) /\ InOrder(device_data_in[l])

(* Every object a lane is told to serialize is sent by the engine, however *)
(* the lanes share MemToNet.                                               *)
EveryObjectSent ==
  \A n \in 1..MaxCmd : (Len(cmds) >= n) ~> (\E i \in 1..Len(done) : done[i] = n)

=============================================================================
