------------------------------ MODULE ReadHost ------------------------------
(***************************************************************************)
(* ReadHost: fetches the objects that the serializer and the engine of a   *)
(* lane work on.  One state machine takes commands, the serializer's       *)
(* first, hands each to its user and issues the read of the host part (and *)
(* of the device part) at once.  The host's data comes back later in one   *)
(* stream; a second state machine cuts the stream by the lengths it finds  *)
(* in host_cmd_fifo and routes each run of beats to the right user.        *)
(*                                                                         *)
(* A command is [id, eng, host, device]: for the serializer host_length    *)
(* and device_length, for the engine src_length in the memory that         *)
(* src_device names and 0 in the other.  A beat is <<id, k>>, the k-th of  *)
(* its part.  The host's DMA and the HBM are external: they answer reads   *)
(* in order.  What leaves is logged in the order the users take it; the    *)
(* device data only passes a queue per user on its way and is logged there.*)
(* A command's id is its place in the order in which the host wrote them.  *)
(***************************************************************************)
EXTENDS Integers, Sequences

CONSTANTS
  HostLens, DeviceLens,  \* bytes of the parts of an object; 0 in DeviceLens: no device part
  CMD_DEPTH,             \* places in ser_cmd_fifo and eng_cmd_fifo (32)
  HOST_CMD_DEPTH,        \* places in host_cmd_fifo (512)
  DATA_DEPTH,            \* places in host_data_fifo, ser_data_fifo, eng_data_fifo (4096)
  READ_DEPTH,            \* reads the DMA and the HBM take before they are not ready
  MaxCmd                 \* bound: commands the host writes

ASSUME ReadHostAssumption ==
  /\ HostLens \subseteq Nat \ {0} /\ DeviceLens \subseteq Nat
  /\ CMD_DEPTH \in Nat \ {0} /\ HOST_CMD_DEPTH \in Nat \ {0} /\ DATA_DEPTH \in Nat \ {0}
  /\ READ_DEPTH \in Nat \ {0} /\ MaxCmd \in Nat

Users == {"ser", "eng"}

VARIABLES
  cmds,                  \* history: the commands written, in order
  cmd_fifo,              \* ser_cmd_fifo and eng_cmd_fifo
  state, reg,            \* command machine; ser_reg or eng_reg
  host_cmd_fifo,
  reads,                 \* history: the reads of host parts, in the order they were issued
  read_q, hbm_q,         \* reads issued to the DMA, and per user to the HBM: [id, beats, sent]
  host_data_fifo,
  state_r, host_reg,     \* routing machine
  data_fifo,             \* ser_data_fifo and eng_data_fifo
  cmd_out, host_out, device_out   \* per user: commands, host beats and device beats taken

cmd_vars   == <<cmds, cmd_fifo, state, reg>>
read_vars  == <<reads, read_q, hbm_q>>
route_vars == <<state_r, host_reg>>
out_vars   == <<cmd_out, host_out, device_out>>
vars == <<cmd_vars, host_cmd_fifo, read_vars, host_data_fifo, route_vars, data_fifo, out_vars>>

Beats(len) == (len + 63) \div 64
User(c)    == IF c.eng THEN "eng" ELSE "ser"
NoCmd      == [id |-> 0, eng |-> FALSE, host |-> 0, device |-> 0]
NoRead     == [id |-> 0, eng |-> FALSE, length |-> 0]

Init ==
  /\ cmds = <<>> /\ cmd_fifo = [u \in Users |-> <<>>]
  /\ state = "sIdle" /\ reg = NoCmd
  /\ host_cmd_fifo = <<>> /\ reads = <<>> /\ read_q = <<>> /\ hbm_q = [u \in Users |-> <<>>]
  /\ host_data_fifo = <<>>
  /\ state_r = "sIdle" /\ host_reg = NoRead
  /\ data_fifo = [u \in Users |-> <<>>]
  /\ cmd_out = [u \in Users |-> <<>>]
  /\ host_out = [u \in Users |-> <<>>] /\ device_out = [u \in Users |-> <<>>]

-----------------------------------------------------------------------------
(* The host writes a command through Control.                              *)
CmdIn(c) ==
  /\ Len(cmds) < MaxCmd /\ Len(cmd_fifo[User(c)]) < CMD_DEPTH
  /\ cmds' = Append(cmds, c)
  /\ cmd_fifo' = [cmd_fifo EXCEPT ![User(c)] = Append(@, c)]
  /\ UNCHANGED <<state, reg, host_cmd_fifo, read_vars, host_data_fifo, route_vars, data_fifo, out_vars>>

NewCmds == LET n == Len(cmds) + 1 IN
  {[id |-> n, eng |-> FALSE, host |-> h, device |-> d] : h \in HostLens, d \in DeviceLens}
    \cup {[id |-> n, eng |-> TRUE, host |-> h, device |-> 0] : h \in HostLens}
    \cup {[id |-> n, eng |-> TRUE, host |-> 0, device |-> h] : h \in HostLens}

-----------------------------------------------------------------------------
(* The command machine.  The engine's turn comes when no serializer        *)
(* command waits.                                                          *)
Idle(u) ==
  /\ state = "sIdle" /\ cmd_fifo[u] # <<>>
  /\ u = "eng" => cmd_fifo["ser"] = <<>>
  /\ reg' = Head(cmd_fifo[u])
  /\ cmd_fifo' = [cmd_fifo EXCEPT ![u] = Tail(@)]
  /\ state' = IF u = "ser" THEN "sSer" ELSE "sEng"
  /\ UNCHANGED <<cmds, host_cmd_fifo, read_vars, host_data_fifo, route_vars, data_fifo, out_vars>>

(* The length of the read of the host part: the serializer's is rounded up *)
(* to whole beats, the engine's is not.                                    *)
ReadLengthFloor(c) == IF c.eng THEN c.host ELSE (c.host \div 64) * 64
ReadLength(c) == IF c.eng THEN c.host ELSE ((c.host + 63) \div 64) * 64

HostCmd(c) == [id |-> c.id, eng |-> c.eng, length |-> c.host]

HostRead(c) ==
  /\ Len(host_cmd_fifo) < HOST_CMD_DEPTH /\ Len(read_q) < READ_DEPTH
  /\ host_cmd_fifo' = Append(host_cmd_fifo, HostCmd(c))
  /\ reads' = Append(reads, HostCmd(c))
  /\ read_q' = Append(read_q, [id |-> c.id, beats |-> Beats(ReadLength(c)), sent |-> 0])

DeviceRead(c) ==
  hbm_q' = [hbm_q EXCEPT ![User(c)] =
              IF c.device = 0 THEN @ ELSE Append(@, [id |-> c.id, beats |-> Beats(c.device), sent |-> 0])]

Issue(u) ==
  /\ cmd_out' = [cmd_out EXCEPT ![u] = Append(@, reg)]
  /\ state' = "sIdle"
  /\ UNCHANGED <<cmds, cmd_fifo, reg, host_data_fifo, route_vars, data_fifo, host_out, device_out>>

(* All ports must be ready at once, the HBM's even when it is not used.    *)
SerIssue ==
  /\ state = "sSer" /\ Len(hbm_q["ser"]) < READ_DEPTH
  /\ HostRead(reg) /\ DeviceRead(reg)
  /\ Issue("ser")

EngIssue ==
  /\ state = "sEng"
  /\ \/ /\ reg.host = 0 /\ Len(hbm_q["eng"]) < READ_DEPTH
        /\ DeviceRead(reg) /\ UNCHANGED <<host_cmd_fifo, reads, read_q>>
     \/ /\ reg.host # 0
        /\ HostRead(reg) /\ UNCHANGED hbm_q
  /\ Issue("eng")

-----------------------------------------------------------------------------
(* The data queues take a beat while they have room.                       *)
HasRoom(q) == Len(q) < DATA_DEPTH

(* Memory: answers the reads in order, in beats of 64 bytes, the last of   *)
(* which may be partly filled.                                             *)
Advance(q) == IF Head(q).sent + 1 >= Head(q).beats THEN Tail(q)
              ELSE <<[Head(q) EXCEPT !.sent = @ + 1]>> \o Tail(q)
NextBeat(q) == <<Head(q).id, Head(q).sent + 1>>

HostBeat ==
  /\ read_q # <<>> /\ HasRoom(host_data_fifo)
  /\ host_data_fifo' = Append(host_data_fifo, NextBeat(read_q))
  /\ read_q' = Advance(read_q)
  /\ UNCHANGED <<cmd_vars, host_cmd_fifo, reads, hbm_q, route_vars, data_fifo, out_vars>>

DeviceBeat(u) ==
  /\ hbm_q[u] # <<>>
  /\ device_out' = [device_out EXCEPT ![u] = Append(@, NextBeat(hbm_q[u]))]
  /\ hbm_q' = [hbm_q EXCEPT ![u] = Advance(@)]
  /\ UNCHANGED <<cmd_vars, host_cmd_fifo, reads, read_q, host_data_fifo, route_vars, data_fifo, cmd_out,
                 host_out>>

-----------------------------------------------------------------------------
(* The routing machine.                                                    *)
RouteIdle ==
  /\ state_r = "sIdle" /\ host_cmd_fifo # <<>>
  /\ host_reg' = Head(host_cmd_fifo)
  /\ host_cmd_fifo' = Tail(host_cmd_fifo)
  /\ state_r' = IF Head(host_cmd_fifo).eng THEN "sEng" ELSE "sSer"
  /\ UNCHANGED <<cmd_vars, read_vars, host_data_fifo, data_fifo, out_vars>>

MoreBeatsEager(len) == len >= 64
MoreBeats(len) == len > 64

Route ==
  /\ state_r \in {"sSer", "sEng"} /\ host_data_fifo # <<>>
  /\ LET u == IF state_r = "sEng" THEN "eng" ELSE "ser" IN
     /\ HasRoom(data_fifo[u])
     /\ data_fifo' = [data_fifo EXCEPT ![u] = Append(@, Head(host_data_fifo))]
  /\ host_data_fifo' = Tail(host_data_fifo)
  /\ IF MoreBeats(host_reg.length)
     THEN /\ host_reg' = [host_reg EXCEPT !.length = @ - 64]
          /\ UNCHANGED state_r
     ELSE state_r' = "sIdle" /\ UNCHANGED host_reg
  /\ UNCHANGED <<cmd_vars, host_cmd_fifo, read_vars, out_vars>>

(* The users take host beats when they are ready.                          *)
HostOut(u) ==
  /\ data_fifo[u] # <<>>
  /\ host_out' = [host_out EXCEPT ![u] = Append(@, Head(data_fifo[u]))]
  /\ data_fifo' = [data_fifo EXCEPT ![u] = Tail(@)]
  /\ UNCHANGED <<cmd_vars, host_cmd_fifo, read_vars, host_data_fifo, route_vars, cmd_out, device_out>>

Next == \/ \E c \in NewCmds : CmdIn(c)
        \/ SerIssue \/ EngIssue \/ HostBeat \/ RouteIdle \/ Route
        \/ \E u \in Users : Idle(u) \/ DeviceBeat(u) \/ HostOut(u)

(* The machines are clocked, memory answers and the users keep taking.     *)
Fairness ==
  /\ WF_vars(\E u \in Users : Idle(u)) /\ WF_vars(SerIssue) /\ WF_vars(EngIssue)
  /\ WF_vars(HostBeat) /\ WF_vars(RouteIdle) /\ WF_vars(Route)
  /\ \A u \in Users : WF_vars(DeviceBeat(u)) /\ WF_vars(HostOut(u))

Spec == Init /\ [][Next]_vars
FairSpec == Spec /\ Fairness

-----------------------------------------------------------------------------
Ids == 1..MaxCmd

(* The beats of the host parts and of the device parts of commands cs, and *)
(* their order: by command, and by place in the part.                      *)
HostBeats(cs) ==
  UNION {{<<cs[i].id, k>> : k \in 1..Beats(cs[i].host)} : i \in 1..Len(cs)}
DeviceBeats(cs) ==
  UNION {{<<cs[i].id, k>> : k \in 1..Beats(cs[i].device)} : i \in 1..Len(cs)}
Earlier(b, c) == b[1] < c[1] \/ (b[1] = c[1] /\ b[2] < c[2])

(* What was taken so far of beats: no other, in order, none twice and none *)
(* left out.                                                               *)
TakenInOrder(out, beats) ==
  /\ \A i \in 1..Len(out) : out[i] \in beats
  /\ \A i, j \in 1..Len(out) : i < j => Earlier(out[i], out[j])
  /\ \A b \in beats : \A i \in 1..Len(out) :
       Earlier(b, out[i]) => \E j \in 1..Len(out) : out[j] = b

(* Each user is handed its own commands in the order they were written and *)
(* gets the beats of their parts, all of them, in order and no other,      *)
(* although host data of both users comes back in one stream and is cut by *)
(* lengths alone.                                                          *)
RoutedToUser ==
  \A u \in Users : LET cs == cmd_out[u] IN
    /\ \A i \in 1..Len(cs) : User(cs[i]) = u
    /\ \A i, j \in 1..Len(cs) : i < j => cs[i].id < cs[j].id
    /\ TakenInOrder(host_out[u] \o data_fifo[u], HostBeats(cs))
    /\ TakenInOrder(device_out[u], DeviceBeats(cs))

(* Every command the host writes is carried out: its user gets the command *)
(* and the whole object.  The engine's commands come through although the  *)
(* serializer's go first, because the host writes finitely many of them;   *)
(* against a host that never stops writing serializer commands the code    *)
(* gives the engine no such guarantee.                                     *)
Served(n) ==
  LET u == User(cmds[n]) IN
    /\ \E i \in 1..Len(cmd_out[u]) : cmd_out[u][i].id = n
    /\ \A k \in 1..Beats(cmds[n].host) : \E i \in 1..Len(host_out[u]) : host_out[u][i] = <<n, k>>
    /\ \A k \in 1..Beats(cmds[n].device) : \E i \in 1..Len(device_out[u]) : device_out[u][i] = <<n, k>>

EveryCommandServed == \A n \in Ids : (Len(cmds) >= n) ~> (Len(cmds) >= n /\ Served(n))

=============================================================================
