--------------------------- MODULE SerializerSimple ---------------------------
(***************************************************************************)
(* SerializerSimple, one per lane: takes a command, the host part and the  *)
(* device part of the object beat by beat, waits for the time a            *)
(* serialization would take, announces the length of the message and sends *)
(* its beats, the last one marked.  The two length registers and their sum *)
(* are 16 bits wide, the message is a whole number of beats.               *)
(*                                                                         *)
(* The variables are functions of the lane.  A command is [id, host,       *)
(* device]; beats are <<id, k>> on the way in and [id, k, last] on the way *)
(* out.                                                                    *)
(***************************************************************************)
EXTENDS Integers, Sequences

CONSTANTS
  LANES,
  LEN_MOD,     \* 2^16
  DELAY,       \* 30
  OUT_DEPTH    \* metas and beats the component behind takes before it is not ready

Lanes == 0..(LANES - 1)

VARIABLES
  meta_in, host_data_in, device_data_in,
  state, meta_reg, host_length, device_length, delay_cnt, sent_k,
  meta_out, data_out

in_q  == <<meta_in, host_data_in, device_data_in>>
out_q == <<meta_out, data_out>>

Init ==
  /\ meta_in = [l \in Lanes |-> <<>>]
  /\ host_data_in = [l \in Lanes |-> <<>>] /\ device_data_in = [l \in Lanes |-> <<>>]
  /\ state = [l \in Lanes |-> "sIdle"]
  /\ meta_reg = [l \in Lanes |-> [id |-> 0, host |-> 0, device |-> 0]]
  /\ host_length = [l \in Lanes |-> 0] /\ device_length = [l \in Lanes |-> 0]
  /\ delay_cnt = [l \in Lanes |-> 0]
  /\ sent_k = [l \in Lanes |-> 0]        \* history: beats of the message sent
  /\ meta_out = [l \in Lanes |-> <<>>] /\ data_out = [l \in Lanes |-> <<>>]

Goto(l, s) == state' = [state EXCEPT ![l] = s]

Idle(l) ==
  /\ state[l] = "sIdle" /\ meta_in[l] # <<>>
  /\ LET c == Head(meta_in[l]) IN
     /\ meta_reg' = [meta_reg EXCEPT ![l] = c]
     /\ host_length' = [host_length EXCEPT ![l] = c.host % LEN_MOD]
     /\ device_length' = [device_length EXCEPT ![l] = c.device % LEN_MOD]
  /\ meta_in' = [meta_in EXCEPT ![l] = Tail(@)]
  /\ Goto(l, "sHost")
  /\ UNCHANGED <<host_data_in, device_data_in, delay_cnt, sent_k, out_q>>

MoreBeatsEager(len) == len >= 64
MoreBeats(len) == len > 64

(* Without a device part the register for its length gets what is left of  *)
(* the host part, at most one beat.                                        *)
Host(l) ==
  /\ state[l] = "sHost" /\ host_data_in[l] # <<>>
  /\ host_data_in' = [host_data_in EXCEPT ![l] = Tail(@)]
  /\ \/ /\ MoreBeats(meta_reg[l].host)
        /\ meta_reg' = [meta_reg EXCEPT ![l].host = @ - 64]
        /\ UNCHANGED <<state, device_length>>
     \/ /\ ~MoreBeats(meta_reg[l].host) /\ meta_reg[l].device = 0
        /\ device_length' = [device_length EXCEPT ![l] = meta_reg[l].host % LEN_MOD]
        /\ Goto(l, "sDelay") /\ UNCHANGED meta_reg
     \/ /\ ~MoreBeats(meta_reg[l].host) /\ meta_reg[l].device # 0
        /\ Goto(l, "sDevice") /\ UNCHANGED <<meta_reg, device_length>>
  /\ UNCHANGED <<meta_in, device_data_in, host_length, delay_cnt, sent_k, out_q>>

Device(l) ==
  /\ state[l] = "sDevice" /\ device_data_in[l] # <<>>
  /\ device_data_in' = [device_data_in EXCEPT ![l] = Tail(@)]
  /\ IF MoreBeats(meta_reg[l].device)
     THEN meta_reg' = [meta_reg EXCEPT ![l].device = @ - 64] /\ UNCHANGED state
     ELSE Goto(l, "sDelay") /\ UNCHANGED meta_reg
  /\ UNCHANGED <<meta_in, host_data_in, host_length, device_length, delay_cnt, sent_k, out_q>>

Delay(l) ==
  /\ state[l] = "sDelay"
  /\ IF delay_cnt[l] > DELAY
     THEN delay_cnt' = [delay_cnt EXCEPT ![l] = 0] /\ Goto(l, "sSendMeta")
     ELSE delay_cnt' = [delay_cnt EXCEPT ![l] = @ + 1] /\ UNCHANGED state
  /\ UNCHANGED <<in_q, meta_reg, host_length, device_length, sent_k, out_q>>

(* The length of the message: whole beats of the sum, rounded down.        *)
OutLength(h, d) == (((h + d) % LEN_MOD) \div 64) * 64

SendMeta(l) ==
  /\ state[l] = "sSendMeta" /\ Len(meta_out[l]) < OUT_DEPTH
  /\ LET len == OutLength(host_length[l], device_length[l]) IN
     /\ meta_out' = [meta_out EXCEPT ![l] = Append(@, [id |-> meta_reg[l].id, length |-> len])]
     /\ device_length' = [device_length EXCEPT ![l] = len]
  /\ sent_k' = [sent_k EXCEPT ![l] = 0]
  /\ Goto(l, "sSendData")
  /\ UNCHANGED <<in_q, meta_reg, host_length, delay_cnt, data_out>>

LastBeat(len) == len <= 64

SendData(l) ==
  /\ state[l] = "sSendData" /\ Len(data_out[l]) < OUT_DEPTH
  /\ LET last == LastBeat(device_length[l]) IN
     /\ data_out' = [data_out EXCEPT ![l] =
          Append(@, [id |-> meta_reg[l].id, k |-> sent_k[l] + 1, last |-> last])]
     /\ Goto(l, IF last THEN "sIdle" ELSE "sSendData")
  /\ device_length' = [device_length EXCEPT ![l] = (@ - 64) % LEN_MOD]
  /\ sent_k' = [sent_k EXCEPT ![l] = @ + 1]
  /\ UNCHANGED <<in_q, meta_reg, host_length, delay_cnt, meta_out>>

Lane(l) == Idle(l) \/ Host(l) \/ Device(l) \/ Delay(l) \/ SendMeta(l) \/ SendData(l)

=============================================================================
