--------------------------- MODULE CompressClient ---------------------------
(***************************************************************************)
(* The client of the end-to-end test (compress_client.cpp): a leader       *)
(* thread that starts CONCURRENCY requests per client, client threads that *)
(* take requests from a queue, send them through eRPC and put a new one    *)
(* into their queue for every answer, and the queue between them           *)
(* (atomic_queue.h), which is built for one producer.  req_id_ is a plain   *)
(* variable that leader and client count up: reading and writing it are    *)
(* steps of their own, as are the steps of a push.                         *)
(***************************************************************************)
EXTENDS Integers, Sequences, SequencesExt, FiniteSets

CONSTANTS
    Clients,
    CONCURRENCY,   \* the flag, at most SLOTS
    SLOTS,         \* kAppMaxConcurrency: message buffers of a client
    PLACES,        \* of the queue, 4096 in the code: never below 2^(2 * 6)
    ID_MOD         \* 2^32 in the code, a multiple of SLOTS and PLACES

Leader == "leader"

ASSUME ClientAssumption ==
    /\ Leader \notin Clients
    /\ PLACES \in Nat /\ PLACES >= 2
    /\ ID_MOD \in Nat /\ ID_MOD >= 6 /\ ID_MOD % PLACES = 0

VARIABLES
    leader,      \* where the leader is: pc, the clients and requests left, a read req_id_
    ping_count,
    req_id_,     \* client |-> the counter
    queue,       \* client |-> head_, tail_ and the places
    push,        \* thread |-> the push it is in
    client,      \* client |-> where its thread is: pc, messages left to pop, a read req_id_
    inflight,    \* client |-> the requests eRPC has: type, id, answered
    ctrl_c_pressed

vars == <<leader, ping_count, req_id_, queue, push, client, inflight, ctrl_c_pressed>>

Msg(type, id) == [type |-> type, id |-> id]
NoPush == [at |-> "none", q |-> Leader, msg |-> Msg("ping", 0), head |-> 0]
Empty == [stored |-> FALSE, msg |-> Msg("ping", 0)]

Init ==
    /\ leader = [pc |-> "ping", left |-> Clients, tmp |-> 0, id |-> 0]
    /\ ping_count = 0
    /\ req_id_ = [c \in Clients |-> 0]
    /\ queue = [c \in Clients |-> [head |-> 0, tail |-> 0,
                                   place |-> [i \in 0..(PLACES - 1) |-> Empty]]]
    /\ push = [t \in Clients \cup {Leader} |-> NoPush]
    /\ client = [c \in Clients |-> [pc |-> "size", n |-> 0, id |-> 0]]
    /\ inflight = [c \in Clients |-> <<>>]
    /\ ctrl_c_pressed = FALSE

-----------------------------------------------------------------------------
(* atomic_queue.h with SPSC: head_ is loaded and stored, then the place is  *)
(* waited for and filled.                                                   *)

StartPush(t, q, msg) ==
    push' = [push EXCEPT ![t] = [at |-> "load", q |-> q, msg |-> msg, head |-> 0]]

PushLoad(t) ==
    /\ push[t].at = "load"
    /\ push' = [push EXCEPT ![t].at = "store", ![t].head = queue[push[t].q].head]
    /\ UNCHANGED queue

PushStore(t) ==
    /\ push[t].at = "store"
    /\ queue' = [queue EXCEPT ![push[t].q].head = (push[t].head + 1) % ID_MOD]
    /\ push' = [push EXCEPT ![t].at = "wait"]

PushWait(t) ==
    /\ push[t].at = "wait"
    /\ ~queue[push[t].q].place[push[t].head % PLACES].stored
    /\ push' = [push EXCEPT ![t].at = "fill"]
    /\ UNCHANGED queue

PushFill(t) ==
    /\ push[t].at = "fill"
    /\ queue' = [queue EXCEPT ![push[t].q].place[push[t].head % PLACES] =
                    [stored |-> TRUE, msg |-> push[t].msg]]
    /\ push' = [push EXCEPT ![t] = NoPush]

PushStep(t) ==
    /\ PushLoad(t) \/ PushStore(t) \/ PushWait(t) \/ PushFill(t)
    /\ UNCHANGED <<leader, ping_count, req_id_, client, inflight, ctrl_c_pressed>>

(* max(int(head_ - tail_), 0).                                              *)
was_size(q) ==
    LET d == (q.head - q.tail) % ID_MOD IN IF d < ID_MOD \div 2 THEN d ELSE 0

-----------------------------------------------------------------------------
(* leader_thread_func.                                                      *)

LeaderFree(pc) == leader.pc = pc /\ push[Leader].at = "none"

(* One client after the other, in a fixed order.                            *)
Turn(c) == leader.left # {} /\ c = CHOOSE d \in leader.left : TRUE

PushPing(c) ==
    /\ LeaderFree("ping") /\ Turn(c)
    /\ StartPush(Leader, c, Msg("ping", 0))
    /\ leader' = [leader EXCEPT !.left = @ \ {c}]
    /\ UNCHANGED <<ping_count, req_id_, queue, client, inflight, ctrl_c_pressed>>

(* The signal forgotten.                                                    *)
PingsDoneOnly == ping_count = Cardinality(Clients)

PingsDone == ctrl_c_pressed \/ ping_count = Cardinality(Clients)
Batch == CONCURRENCY

AwaitPings ==
    /\ LeaderFree("ping") /\ leader.left = {} /\ PingsDone
    /\ leader' = [leader EXCEPT !.pc = "next", !.left = Clients, !.tmp = Batch]
    /\ UNCHANGED <<ping_count, req_id_, queue, push, client, inflight, ctrl_c_pressed>>

(* PushNextTCReq: req_id_++ is read, written back, and what was read pushed. *)
NextTCRead(c) ==
    /\ LeaderFree("next") /\ Turn(c) /\ leader.tmp > 0
    /\ leader' = [leader EXCEPT !.pc = "write", !.id = req_id_[c]]
    /\ UNCHANGED <<ping_count, req_id_, queue, push, client, inflight, ctrl_c_pressed>>

NextTCWrite(c) ==
    /\ LeaderFree("write") /\ Turn(c)
    /\ req_id_' = [req_id_ EXCEPT ![c] = (leader.id + 1) % ID_MOD]
    /\ StartPush(Leader, c, Msg("app1", leader.id))
    /\ leader' = IF leader.tmp > 1 THEN [leader EXCEPT !.pc = "next", !.tmp = @ - 1]
                 ELSE [leader EXCEPT !.pc = "next", !.tmp = Batch, !.left = @ \ {c}]
    /\ UNCHANGED <<ping_count, queue, client, inflight, ctrl_c_pressed>>

Join ==
    /\ LeaderFree("next") /\ leader.left = {}
    /\ \A c \in Clients : client[c].pc = "stopped"
    /\ leader' = [leader EXCEPT !.pc = "done"]
    /\ UNCHANGED <<ping_count, req_id_, queue, push, client, inflight, ctrl_c_pressed>>

-----------------------------------------------------------------------------
(* client_thread_func: pop what was in the queue, run the event loop once.  *)

ClientFree(c, pc) == client[c].pc = pc /\ push[c].at = "none"

WasSize(c) ==
    /\ ClientFree(c, "size")
    /\ client' = [client EXCEPT ![c].pc = "pop", ![c].n = was_size(queue[c])]
    /\ UNCHANGED <<leader, ping_count, req_id_, queue, push, inflight, ctrl_c_pressed>>

(* The state of the place not looked at.                                    *)
FilledAlways(place) == TRUE

Filled(place) == place.stored

(* pop waits for the place to be filled; the handler gives the request to   *)
(* eRPC, in the buffer of its id.                                           *)
PopMsg(c) ==
    LET i == queue[c].tail % PLACES
        m == queue[c].place[i].msg
    IN  /\ ClientFree(c, "pop") /\ client[c].n > 0
        /\ Filled(queue[c].place[i])
        /\ queue' = [queue EXCEPT ![c].tail = (@ + 1) % ID_MOD, ![c].place[i] = Empty]
        /\ inflight' = [inflight EXCEPT ![c] =
                Append(@, [type |-> m.type, id |-> m.id, answered |-> FALSE])]
        /\ client' = [client EXCEPT ![c].n = @ - 1]
        /\ UNCHANGED <<leader, ping_count, req_id_, push, ctrl_c_pressed>>

PoppedAll(c) ==
    /\ ClientFree(c, "pop") /\ client[c].n = 0
    /\ client' = [client EXCEPT ![c].pc = "events"]
    /\ UNCHANGED <<leader, ping_count, req_id_, queue, push, inflight, ctrl_c_pressed>>

CallbackPing(c) ==
    /\ ClientFree(c, "events")
    /\ \E i \in DOMAIN inflight[c] :
        /\ inflight[c][i].answered /\ inflight[c][i].type = "ping"
        /\ inflight' = [inflight EXCEPT ![c] = RemoveAt(@, i)]
    /\ ping_count' = ping_count + 1
    /\ UNCHANGED <<leader, req_id_, queue, push, client, ctrl_c_pressed>>

(* callback_compress: req_id_++ is read and written, and read again for the *)
(* request that is pushed.                                                  *)
CallbackCompress(c) ==
    /\ ClientFree(c, "events")
    /\ \E i \in DOMAIN inflight[c] :
        /\ inflight[c][i].answered /\ inflight[c][i].type = "app1"
        /\ inflight' = [inflight EXCEPT ![c] = RemoveAt(@, i)]
    /\ client' = [client EXCEPT ![c].pc = "write", ![c].id = req_id_[c]]
    /\ UNCHANGED <<leader, ping_count, req_id_, queue, push, ctrl_c_pressed>>

CallbackWrite(c) ==
    /\ ClientFree(c, "write")
    /\ req_id_' = [req_id_ EXCEPT ![c] = (client[c].id + 1) % ID_MOD]
    /\ client' = [client EXCEPT ![c].pc = "again"]
    /\ UNCHANGED <<leader, ping_count, queue, push, inflight, ctrl_c_pressed>>

CallbackPush(c) ==
    /\ ClientFree(c, "again")
    /\ StartPush(c, c, Msg("app1", req_id_[c]))
    /\ client' = [client EXCEPT ![c].pc = "events"]
    /\ UNCHANGED <<leader, ping_count, req_id_, queue, inflight, ctrl_c_pressed>>

LoopEnds(c) ==
    /\ ClientFree(c, "events")
    /\ client' = [client EXCEPT ![c].pc = IF ctrl_c_pressed THEN "stopped" ELSE "size"]
    /\ UNCHANGED <<leader, ping_count, req_id_, queue, push, inflight, ctrl_c_pressed>>

-----------------------------------------------------------------------------
(* eRPC and the server: a request is answered once, in any order.           *)
Answer(c) ==
    /\ \E i \in DOMAIN inflight[c] :
        /\ ~inflight[c][i].answered
        /\ inflight' = [inflight EXCEPT ![c][i].answered = TRUE]
    /\ UNCHANGED <<leader, ping_count, req_id_, queue, push, client, ctrl_c_pressed>>

(* The signal, or the end of FLAGS_timeout_second.                          *)
CtrlC ==
    /\ ~ctrl_c_pressed /\ ctrl_c_pressed' = TRUE
    /\ UNCHANGED <<leader, ping_count, req_id_, queue, push, client, inflight>>

LeaderStep ==
    \/ AwaitPings \/ Join
    \/ \E c \in Clients : PushPing(c) \/ NextTCRead(c) \/ NextTCWrite(c)

ClientStep(c) ==
    \/ WasSize(c) \/ PopMsg(c) \/ PoppedAll(c) \/ LoopEnds(c)
    \/ CallbackPing(c) \/ CallbackCompress(c) \/ CallbackWrite(c) \/ CallbackPush(c)

Next ==
    \/ LeaderStep \/ CtrlC
    \/ \E t \in Clients \cup {Leader} : PushStep(t)
    \/ \E c \in Clients : ClientStep(c) \/ Answer(c)

(* Threads are scheduled and eRPC answers.                                  *)
Fairness ==
    /\ WF_vars(LeaderStep)
    /\ \A t \in Clients \cup {Leader} : WF_vars(PushStep(t))
    /\ \A c \in Clients : WF_vars(ClientStep(c)) /\ WF_vars(Answer(c))

Spec == Init /\ [][Next]_vars
FairSpec == Spec /\ Fairness

-----------------------------------------------------------------------------
(* kAppMaxConcurrency outstanding requests per thread: two requests eRPC    *)
(* has at a time are in two message buffers.                                *)
BuffersNotShared ==
    \A c \in Clients : \A i, j \in DOMAIN inflight[c] :
        i # j /\ inflight[c][i].type = "app1" /\ inflight[c][j].type = "app1" =>
            inflight[c][i].id % SLOTS # inflight[c][j].id % SLOTS

(* No request gets lost: every answer leads to another request, so that     *)
(* CONCURRENCY requests are under way: at eRPC, in a place of the queue the *)
(* client will come to, in a push or in a callback.                         *)
UnderWay(c) ==
    LET q == queue[c]
        Waits(k) == LET place == q.place[(q.tail + k) % PLACES]
                    IN  place.stored /\ place.msg.type = "app1"
        Pushes(t) == push[t].at # "none" /\ push[t].q = c /\ push[t].msg.type = "app1"
    IN  Cardinality({i \in DOMAIN inflight[c] : inflight[c][i].type = "app1"})
        + Cardinality({k \in 0..(was_size(q) - 1) : Waits(k)})
        + Cardinality({t \in {c, Leader} : Pushes(t)})
        + IF client[c].pc \in {"write", "again"} THEN 1 ELSE 0

RequestsKept ==
    leader.pc = "next" /\ leader.left = {} => \A c \in Clients : UnderWay(c) = CONCURRENCY

(* After Ctrl-C the program ends.                                           *)
CtrlCEnds == ctrl_c_pressed ~> leader.pc = "done"
=============================================================================
