------------------------------- MODULE MemToNet -------------------------------
(***************************************************************************)
(* MemToNet: turns a serialized message into one RoCE send.  The meta is   *)
(* held in a register; the first beat out of LSHIFT gets the 8 byte header *)
(* (class and length) and at the same time the send is announced to the    *)
(* engine; the rest of the beats follow up to the mark.                    *)
(*                                                                         *)
(* LSHIFT, which makes room for the header, is external: the beats of the  *)
(* serializer are full, so a message of n beats comes out as n + 1.        *)
(***************************************************************************)
EXTENDS Integers, Sequences

CONSTANTS
  SEND_DEPTH,   \* places in send_data_fifo (4096)
  TX_DEPTH      \* announcements the engine takes before it is not ready

VARIABLES
  rpc_lshift,                \* beats that have come out of LSHIFT
  state_aw, serout_meta,
  send_data_fifo, s_tx_meta

Round64(n) == ((n + 63) \div 64) * 64

Init ==
  /\ rpc_lshift = <<>> /\ state_aw = "sIdle"
  /\ serout_meta = [id |-> 0, length |-> 0]
  /\ send_data_fifo = <<>> /\ s_tx_meta = <<>>

(* A meta is taken when no message is being sent.                          *)
TakeMeta(m) ==
  /\ state_aw = "sIdle"
  /\ serout_meta' = m /\ state_aw' = "send_meta"
  /\ UNCHANGED <<rpc_lshift, send_data_fifo, s_tx_meta>>

(* LSHIFT takes a beat, and has one more to give after the last.           *)
Shift(b) ==
  /\ rpc_lshift = <<>>
  /\ rpc_lshift' = IF b.last THEN <<[b EXCEPT !.last = FALSE], [b EXCEPT !.k = @ + 1]>> ELSE <<b>>
  /\ UNCHANGED <<state_aw, serout_meta, send_data_fifo, s_tx_meta>>

(* The length of the send: the message with its header, in whole beats.    *)
TxLengthNoHeader(len) == Round64(len)
TxLength(len) == Round64(len + 8)

AfterBeatStop(b) == "sIdle"
AfterBeat(b) == IF b.last THEN "sIdle" ELSE "send_data"

SendMeta ==
  /\ state_aw = "send_meta" /\ rpc_lshift # <<>>
  /\ Len(send_data_fifo) < SEND_DEPTH /\ Len(s_tx_meta) < TX_DEPTH
  /\ LET b == Head(rpc_lshift) IN
     /\ send_data_fifo' = Append(send_data_fifo, [beat |-> b, header |-> serout_meta.id])
     /\ state_aw' = AfterBeat(b)
  /\ s_tx_meta' = Append(s_tx_meta, [id |-> serout_meta.id, length |-> TxLength(serout_meta.length)])
  /\ rpc_lshift' = Tail(rpc_lshift)
  /\ UNCHANGED serout_meta

SendData ==
  /\ state_aw = "send_data" /\ rpc_lshift # <<>>
  /\ Len(send_data_fifo) < SEND_DEPTH
  /\ LET b == Head(rpc_lshift) IN
     /\ send_data_fifo' = Append(send_data_fifo, [beat |-> b, header |-> 0])
     /\ state_aw' = AfterBeat(b)
  /\ rpc_lshift' = Tail(rpc_lshift)
  /\ UNCHANGED <<serout_meta, s_tx_meta>>

=============================================================================
