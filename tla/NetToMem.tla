------------------------------ MODULE NetToMem ------------------------------
(***************************************************************************)
(* NetToMem: turns the packages of the RoCE engine back into RPC messages. *)
(* The writer takes a package meta, then the beats of the package, and     *)
(* pushes the length of the message when the last package is complete.     *)
(* The reader takes a length, emits the meta found in the first beat and   *)
(* forwards as many beats as the length says, the last one marked.         *)
(*                                                                         *)
(* The RoCE engine in front is external: one connection, reliable and in   *)
(* order, messages cut into packages of at most MTU bytes.  RSHIFT, which  *)
(* strips the 8 byte header from the data, is external: one beat out for   *)
(* every beat in.  A beat is [rpc, k, last], the k-th of message rpc.      *)
(***************************************************************************)
EXTENDS Integers, Sequences

CONSTANTS
  MTU,          \* bytes in a full package
  MsgLens,      \* bytes of a message with its header, as the sender rounds them
  RX_DEPTH,     \* beats recv_data_fifo holds (4096)
  LEN_DEPTH,    \* lengths msg_length_fifo holds (1024)
  META_DEPTH, DATA_DEPTH,  \* what the component behind takes before it is not ready
  MaxMsg        \* bound: messages that arrive

ASSUME NetToMemAssumption ==
  /\ MTU \in Nat \ {0} /\ MTU % 64 = 0
  /\ MsgLens \subseteq Nat \ {0} /\ \A m \in MsgLens : m % 64 = 0
  /\ RX_DEPTH \in Nat \ {0} /\ LEN_DEPTH \in Nat \ {0}
  /\ META_DEPTH \in Nat \ {0} /\ DATA_DEPTH \in Nat \ {0}
  /\ MaxMsg \in Nat
  /\ \A m \in MsgLens : m \div 64 <= RX_DEPTH    \* a message fits the queue

VARIABLES
  msgs,              \* history: the lengths of message 1, 2, ...
  rx,                \* the engine's place: bytes of the newest message not yet announced,
                     \* bytes of the package not yet sent, beats of the message sent
  recv_meta, recv_length, state_aw,
  recv_data_fifo, msg_length_fifo,
  lost_length,       \* history: a length was pushed into a full msg_length_fifo
  state_r, r_length,
  meta_fifo, data_fifo    \* metas and beats the component behind has taken

writer == <<recv_meta, recv_length, state_aw>>
reader == <<state_r, r_length>>
out    == <<meta_fifo, data_fifo>>
vars   == <<msgs, rx, writer, recv_data_fifo, msg_length_fifo, lost_length, reader, out>>

Beats(len) == (len + 63) \div 64
NoMeta     == [last_pkg |-> FALSE, length |-> 0]

Init ==
  /\ msgs = <<>> /\ rx = [msg |-> 0, pkg |-> 0, sent |-> 0]
  /\ recv_meta = NoMeta /\ recv_length = 0 /\ state_aw = "sIdle"
  /\ recv_data_fifo = <<>> /\ msg_length_fifo = <<>> /\ lost_length = FALSE
  /\ state_r = "sIdle" /\ r_length = 0
  /\ meta_fifo = <<>> /\ data_fifo = <<>>

-----------------------------------------------------------------------------
(* The writer.  A package meta says how long the package is and whether it *)
(* is the last of its message (pkg_num = pkg_total).                       *)

Package(left, sent) ==
  LET len == IF left > MTU THEN MTU ELSE left
  IN  /\ recv_meta' = [last_pkg |-> len = left, length |-> len]
      /\ rx' = [msg |-> left - len, pkg |-> len, sent |-> sent]

RecvMeta ==
  /\ state_aw = "sIdle" /\ rx.pkg = 0
  /\ \/ rx.msg > 0 /\ Package(rx.msg, rx.sent) /\ UNCHANGED msgs
     \/ /\ rx.msg = 0 /\ Len(msgs) < MaxMsg
        /\ \E len \in MsgLens : Package(len, 0) /\ msgs' = Append(msgs, len)
  /\ state_aw' = "sWrite"
  /\ UNCHANGED <<recv_length, recv_data_fifo, msg_length_fifo, lost_length, reader, out>>

(* The length pushed after the last package: what the earlier packages of  *)
(* the message added up to, and this one.  A push that finds the queue     *)
(* full is lost, its ready is not looked at.  From then on lengths and     *)
(* beats no longer belong together; the model goes on, but what a header   *)
(* read from the middle of a message would say is left open, and the       *)
(* properties below speak of the card before that.                         *)
LengthOfLast(sum, m) == m.length
MessageLength(sum, m) == sum + m.length
LengthsFull == Len(msg_length_fifo) >= LEN_DEPTH
Pushed(q, x) == IF Len(q) < LEN_DEPTH THEN Append(q, x) ELSE q

(* The sum restarts with every message.                                    *)
SumKept(sum) == sum
SumReset(sum) == 0

(* s_recv_data is ready while recv_data_fifo has room.                     *)
DataReadyUnchecked == state_aw = "sWrite"
DataReady == state_aw = "sWrite" /\ Len(recv_data_fifo) < RX_DEPTH

RecvData ==
  /\ DataReady
  /\ LET last == rx.pkg <= 64
         beat == [rpc |-> Len(msgs), k |-> rx.sent + 1, last |-> last /\ recv_meta.last_pkg]
     IN  /\ recv_data_fifo' = Append(recv_data_fifo, beat)
         /\ rx' = [rx EXCEPT !.pkg = IF last THEN 0 ELSE @ - 64, !.sent = @ + 1]
         /\ state_aw' = IF last THEN "sIdle" ELSE "sWrite"
         /\ recv_length' = IF ~last THEN recv_length
                           ELSE IF recv_meta.last_pkg THEN SumReset(recv_length)
                           ELSE recv_length + recv_meta.length
         /\ IF last /\ recv_meta.last_pkg
            THEN /\ msg_length_fifo' =
                      Pushed(msg_length_fifo, MessageLength(recv_length, recv_meta))
                 /\ lost_length' = (lost_length \/ LengthsFull)
            ELSE UNCHANGED <<msg_length_fifo, lost_length>>
  /\ UNCHANGED <<msgs, recv_meta, reader, out>>

-----------------------------------------------------------------------------
(* The reader.                                                             *)

ReadLength ==
  /\ state_r = "sIdle" /\ msg_length_fifo # <<>>
  /\ r_length' = Head(msg_length_fifo)
  /\ msg_length_fifo' = Tail(msg_length_fifo)
  /\ state_r' = "sSendMeta"
  /\ UNCHANGED <<msgs, rx, writer, recv_data_fifo, lost_length, out>>

LastOfMessageStrict == r_length < 64
LastOfMessage == r_length <= 64

(* One beat from the queue through RSHIFT to the component behind.         *)
Forward ==
  /\ recv_data_fifo # <<>> /\ Len(data_fifo) < DATA_DEPTH
  /\ data_fifo' = Append(data_fifo, [Head(recv_data_fifo) EXCEPT !.last = LastOfMessage])
  /\ recv_data_fifo' = Tail(recv_data_fifo)
  /\ IF LastOfMessage
     THEN state_r' = "sIdle" /\ UNCHANGED r_length
     ELSE state_r' = "sWrite" /\ r_length' = r_length - 64
  /\ UNCHANGED <<msgs, rx, writer, msg_length_fifo, lost_length>>

(* The first beat carries the header (class and length): RPC rpc is known.  *)
SendMeta ==
  /\ state_r = "sSendMeta" /\ Len(meta_fifo) < META_DEPTH
  /\ Forward
  /\ meta_fifo' = Append(meta_fifo, Head(recv_data_fifo).rpc)

SendData ==
  /\ state_r = "sWrite"
  /\ Forward
  /\ UNCHANGED meta_fifo

-----------------------------------------------------------------------------
(* The component behind takes metas and beats.                             *)

TakeMeta ==
  /\ meta_fifo # <<>> /\ meta_fifo' = Tail(meta_fifo)
  /\ UNCHANGED <<msgs, rx, writer, recv_data_fifo, msg_length_fifo, lost_length, reader, data_fifo>>

TakeData ==
  /\ data_fifo # <<>> /\ data_fifo' = Tail(data_fifo)
  /\ UNCHANGED <<msgs, rx, writer, recv_data_fifo, msg_length_fifo, lost_length, reader, meta_fifo>>

Next == RecvMeta \/ RecvData \/ ReadLength \/ SendMeta \/ SendData \/ TakeMeta \/ TakeData

(* The component is clocked, the engine finishes the message it has begun  *)
(* and the component behind keeps taking.                                  *)
Fairness ==
  /\ WF_vars(RecvMeta /\ rx.msg > 0) /\ WF_vars(RecvData) /\ WF_vars(ReadLength)
  /\ WF_vars(SendMeta) /\ WF_vars(SendData) /\ WF_vars(TakeMeta) /\ WF_vars(TakeData)

Spec == Init /\ [][Next]_vars
FairSpec == Spec /\ Fairness

-----------------------------------------------------------------------------
RawBeats == [rpc: 1..MaxMsg, k: Nat \ {0}, last: BOOLEAN]

(* What leaves is framed by the messages that came in: a meta is only ever *)
(* read from the first beat of a message, and a beat is marked last if and *)
(* only if it is the last beat of its message, however the message was cut *)
(* into packages - unless a length was lost.                               *)
OutputFramed == ~lost_length =>
  /\ state_r = "sSendMeta" /\ recv_data_fifo # <<>> => Head(recv_data_fifo).k = 1
  /\ \A i \in 1..Len(data_fifo) :
       data_fifo[i].last <=> data_fifo[i].k = Beats(msgs[data_fifo[i].rpc])

(* Writer and reader agree through two queues: the lengths that wait are   *)
(* those of the complete messages in the data queue, in order, and the one *)
(* being served is what is left of the message at its head - unless a      *)
(* length was lost in the unchecked push.                                  *)
LengthsMatchData == ~lost_length =>
  LET done == IF rx.msg + rx.pkg > 0 THEN Len(msgs) - 1 ELSE Len(msgs)
      read == done - Len(msg_length_fifo)
      ends == {i \in 1..Len(recv_data_fifo) : recv_data_fifo[i].last}
      held == (IF state_r = "sIdle" THEN read + 1 ELSE read)..done
  IN  /\ \A i \in 1..Len(msg_length_fifo) : msg_length_fifo[i] = msgs[read + i]
      /\ held = {recv_data_fifo[i].rpc : i \in ends}
      /\ state_r # "sIdle" =>
           /\ Head(recv_data_fifo).rpc = read
           /\ r_length = msgs[read] - 64 * (Head(recv_data_fifo).k - 1)

(* When the unchecked push can lose a length: only when some message is so *)
(* short that LEN_DEPTH of them leave room in recv_data_fifo (with 1024    *)
(* lengths and 4096 beats, a message of fewer than four beats).  While all *)
(* messages are longer, recv_data_fifo is full first and holds the engine  *)
(* back, which is all that protects msg_length_fifo.                       *)
Short(m) == Beats(m) * LEN_DEPTH < RX_DEPTH
LengthLostOnlyShort == lost_length => \E n \in 1..Len(msgs) : Short(msgs[n])

(* Every message that has begun to arrive is forwarded to its last beat:   *)
(* the reader starts only when a message is complete, so it must never     *)
(* wait for a writer that waits for room, nor leave beats behind.          *)
InTransit(n) ==
  \/ n = Len(msgs) /\ rx.msg + rx.pkg > 0
  \/ \E i \in 1..Len(recv_data_fifo) : recv_data_fifo[i].rpc = n

EveryMessageForwarded ==
  \A n \in 1..MaxMsg : InTransit(n) ~> (~InTransit(n) \/ lost_length)

=============================================================================
