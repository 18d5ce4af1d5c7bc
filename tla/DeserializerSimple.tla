-------------------------- MODULE DeserializerSimple --------------------------
(***************************************************************************)
(* DeserializerSimple, one per lane: takes the meta of an RPC, waits for   *)
(* the time a deserialization would take, announces one 64 byte host part  *)
(* and a device part as long as the RPC, passes as many beats as the meta  *)
(* says to the device side and one beat to the host side.  The length in   *)
(* the meta counts, the mark of the last beat is not looked at.            *)
(*                                                                         *)
(* The variables are functions of the lane.  The queues are filled by      *)
(* SplitDe (module RpcReceive); the outputs are the logs of what DerToMem  *)
(* has taken.  A beat is [rpc, k, last], a meta is the number of its RPC,  *)
(* and lens[n] is the length in the header of RPC n.                       *)
(***************************************************************************)
EXTENDS Integers, Sequences

CONSTANTS
  LANES, ACTIVE,   \* lanes, and total_thread_num
  DELAY            \* delay_time (30)

Lanes == 0..(LANES - 1)

VARIABLES
  lens,                                       \* lengths in the headers of RPC 1, 2, ...
  meta_fifo, data_fifo,
  state, meta_reg, device_length, delay_cnt,
  meta_out, device_data_out, host_data_out

fifos    == <<meta_fifo, data_fifo>>
out_vars == <<meta_out, device_data_out, host_data_out>>
own_vars == <<fifos, state, meta_reg, device_length, delay_cnt, out_vars>>

(* device_length is length rounded up to whole beats, not down.            *)
RoundDown(n) == (n \div 64) * 64

Round64(n) == ((n + 63) \div 64) * 64

Init ==
  /\ meta_fifo = [l \in Lanes |-> <<>>] /\ data_fifo = [l \in Lanes |-> <<>>]
  /\ state = [l \in Lanes |-> "sIdle"]
  /\ meta_reg = [l \in Lanes |-> 0]
  /\ device_length = [l \in Lanes |-> 0]
  /\ delay_cnt = [l \in Lanes |-> 0]
  /\ meta_out = [l \in Lanes |-> <<>>]
  /\ device_data_out = [l \in Lanes |-> <<>>]
  /\ host_data_out = [l \in Lanes |-> <<>>]

(* A lane is idle while it has no RPC; lanes that are switched off never.  *)
idle_out(l) == state[l] = "sIdle" /\ l < ACTIVE

Idle(l) ==
  /\ state[l] = "sIdle" /\ meta_fifo[l] # <<>>
  /\ meta_reg' = [meta_reg EXCEPT ![l] = Head(meta_fifo[l])]
  /\ device_length' = [device_length EXCEPT ![l] = Round64(lens[Head(meta_fifo[l])])]
  /\ meta_fifo' = [meta_fifo EXCEPT ![l] = Tail(@)]
  /\ state' = [state EXCEPT ![l] = "sDelay"]
  /\ UNCHANGED <<data_fifo, delay_cnt, out_vars>>

Waited(c) == c > DELAY

Delay(l) ==
  /\ state[l] = "sDelay"
  /\ IF Waited(delay_cnt[l])
     THEN /\ delay_cnt' = [delay_cnt EXCEPT ![l] = 0]
          /\ state' = [state EXCEPT ![l] = "sSendMeta"]
     ELSE /\ delay_cnt' = [delay_cnt EXCEPT ![l] = @ + 1]
          /\ UNCHANGED state
  /\ UNCHANGED <<fifos, meta_reg, device_length, out_vars>>

(* The three outputs wait for their ready, which comes from DerToMem.      *)
SendMeta(l) ==
  /\ state[l] = "sSendMeta"
  /\ meta_out' = [meta_out EXCEPT ![l] =
       Append(@, [rpc |-> meta_reg[l], host_length |-> 64, device_length |-> device_length[l]])]
  /\ state' = [state EXCEPT ![l] = "sSendDevice"]
  /\ UNCHANGED <<fifos, meta_reg, device_length, delay_cnt, device_data_out, host_data_out>>

LastDeviceBeatStrict(len) == len < 64
LastDeviceBeat(len) == len <= 64

SendDevice(l) ==
  /\ state[l] = "sSendDevice" /\ data_fifo[l] # <<>>
  /\ device_data_out' = [device_data_out EXCEPT ![l] = Append(@, Head(data_fifo[l]))]
  /\ data_fifo' = [data_fifo EXCEPT ![l] = Tail(@)]
  /\ IF LastDeviceBeat(device_length[l])
     THEN /\ state' = [state EXCEPT ![l] = "sSendHost"]
          /\ UNCHANGED device_length
     ELSE /\ device_length' = [device_length EXCEPT ![l] = @ - 64]
          /\ UNCHANGED state
  /\ UNCHANGED <<meta_fifo, meta_reg, delay_cnt, meta_out, host_data_out>>

SendHost(l) ==
  /\ state[l] = "sSendHost"
  /\ host_data_out' = [host_data_out EXCEPT ![l] = Append(@, meta_reg[l])]
  /\ state' = [state EXCEPT ![l] = "sIdle"]
  /\ UNCHANGED <<fifos, meta_reg, device_length, delay_cnt, meta_out, device_data_out>>

=============================================================================
