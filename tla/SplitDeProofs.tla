---------------------------- MODULE SplitDeProofs ----------------------------
(***************************************************************************)
(* SplitDe for any number of lanes, any depths and any drop limit: queues  *)
(* and registers keep their types, and metas and beats, which travel in    *)
(* two queues, never get out of step, in the dispatcher or in a lane.      *)
(***************************************************************************)
EXTENDS SplitDe, FifoLemmas

-----------------------------------------------------------------------------
(* The inductive invariant.  Metas leave in the order of their numbers;    *)
(* the beats in data_fifo follow each other; the newest one tells how far  *)
(* the component in front has come, or the empty queue does.               *)

Serving == state \in {"sSendData", "sDropData"}

MetasInOrder ==
  /\ Len(meta_fifo) <= arrived
  /\ \A i \in 1..Len(meta_fifo) : meta_fifo[i] = Taken + i

Follows(a, b) ==
  IF a.last THEN b.rpc = a.rpc + 1 /\ b.k = 1 ELSE b.rpc = a.rpc /\ b.k = a.k + 1

BeatsInOrder ==
  \A i \in 1..Len(data_fifo) : \A j \in 1..Len(data_fifo) :
    j = i + 1 => Follows(data_fifo[i], data_fifo[j])

Newest(b) ==
  /\ open_rpc = 0 => b.last /\ b.rpc = arrived
  /\ open_rpc = 1 => b.last /\ b.rpc = arrived - 1
  /\ open_rpc > 1 => ~b.last /\ b.rpc = arrived /\ b.k = open_rpc - 1

TailInStep == data_fifo # <<>> => Newest(data_fifo[Len(data_fifo)])

EmptyInStep ==
  data_fifo = <<>> =>
    IF Serving THEN Taken = arrived /\ open_rpc > 0
    ELSE \/ open_rpc = 0 /\ Taken = arrived
         \/ open_rpc = 1 /\ Taken = arrived - 1

OrderInv == MetasInOrder /\ BeatsInOrder /\ DispatchAligned /\ TailInStep /\ EmptyInStep

-----------------------------------------------------------------------------
(* Types.                                                                  *)

LEMMA InitType == Init => TypeOK
  <1> SUFFICES ASSUME Init PROVE TypeOK
    OBVIOUS
  <1> USE SplitDeAssumption
  <1>1. InputOK
    BY DEF Init, InputOK
  <1>2. QueuesOK
    BY DEF Init, QueuesOK
  <1>3. RegsOK
    BY DEF Init, RegsOK, States, Lanes
  <1>4. LanesOK
    BY DEF Init, LanesOK
  <1> QED BY <1>1, <1>2, <1>3, <1>4 DEF TypeOK

LEMMA MetaInType == TypeOK /\ MetaIn => TypeOK'
  <1> SUFFICES ASSUME TypeOK, MetaIn PROVE TypeOK'
    OBVIOUS
  <1> USE SplitDeAssumption
  <1>1. arrived + 1 \in 1..MaxRpc
    BY DEF TypeOK, InputOK, MetaIn
  <1>2. InputOK'
    BY <1>1 DEF TypeOK, InputOK, MetaIn
  <1>3. QueuesOK'
    BY <1>1, Push DEF TypeOK, QueuesOK, MetaIn, Room
  <1>4. RegsOK' /\ LanesOK'
    BY DEF TypeOK, RegsOK, LanesOK, MetaIn, lane_vars
  <1> QED BY <1>2, <1>3, <1>4 DEF TypeOK

LEMMA DataInType == ASSUME NEW last \in BOOLEAN, TypeOK, DataIn(last) PROVE TypeOK'
  <1> USE SplitDeAssumption
  <1>1. [rpc |-> arrived, k |-> open_rpc, last |-> last] \in BeatsOf
    BY DEF TypeOK, InputOK, DataIn, BeatsOf
  <1>2. InputOK'
    BY DEF TypeOK, InputOK, DataIn
  <1>3. QueuesOK'
    BY <1>1, Push DEF TypeOK, QueuesOK, DataIn, Room
  <1>4. RegsOK' /\ LanesOK'
    BY DEF TypeOK, RegsOK, LanesOK, DataIn, lane_vars
  <1> QED BY <1>2, <1>3, <1>4 DEF TypeOK

LEMMA DispatcherType == TypeOK /\ Dispatcher => TypeOK'
  <1> SUFFICES ASSUME TypeOK, Dispatcher PROVE TypeOK'
    OBVIOUS
  <1> USE SplitDeAssumption
  <1>1. CASE SampleIdle
    <2>1. RegsOK'
      BY <1>1 DEF TypeOK, RegsOK, SampleIdle, idle_out
    <2> QED BY <1>1, <2>1 DEF TypeOK, InputOK, QueuesOK, LanesOK, SampleIdle, in_vars, lane_vars
  <1>2. CASE Choose
    <2>1. RegsOK'
      BY <1>2 DEF TypeOK, RegsOK, Choose, States
    <2> QED BY <1>2, <2>1 DEF TypeOK, InputOK, QueuesOK, LanesOK, Choose, in_vars, lane_vars
  <1>3. CASE SendMeta
    <2>1. Head(meta_fifo) \in 1..MaxRpc /\ QueuesOK'
      BY <1>3, Pop DEF TypeOK, QueuesOK, SendMeta
    <2>2. InputOK' /\ RegsOK'
      BY <1>3 DEF TypeOK, InputOK, RegsOK, SendMeta, States, in_vars
    <2>3. lane \in Lanes /\ lane_meta[lane] \in Seq(1..MaxRpc)
      BY DEF TypeOK, RegsOK, LanesOK
    <2>4. /\ Append(lane_meta[lane], Head(meta_fifo)) \in Seq(1..MaxRpc)
          /\ Len(Append(lane_meta[lane], Head(meta_fifo))) <= LANE_META_DEPTH
      BY <1>3, <2>1, <2>3, Push DEF SendMeta, Room
    <2>5. LanesOK'
      BY <1>3, <2>3, <2>4 DEF TypeOK, LanesOK, SendMeta
    <2> QED BY <2>1, <2>2, <2>5 DEF TypeOK
  <1>4. CASE SendData
    <2>1. Head(data_fifo) \in BeatsOf /\ QueuesOK'
      BY <1>4, Pop DEF TypeOK, QueuesOK, SendData
    <2>2. InputOK' /\ RegsOK'
      BY <1>4 DEF TypeOK, InputOK, RegsOK, SendData, States, in_vars
    <2>3. lane \in Lanes /\ lane_data[lane] \in Seq(BeatsOf)
      BY DEF TypeOK, RegsOK, LanesOK
    <2>4. /\ Append(lane_data[lane], Head(data_fifo)) \in Seq(BeatsOf)
          /\ Len(Append(lane_data[lane], Head(data_fifo))) <= LANE_DATA_DEPTH
      BY <1>4, <2>1, <2>3, Push DEF SendData, Room
    <2>5. LanesOK'
      BY <1>4, <2>3, <2>4 DEF TypeOK, LanesOK, SendData
    <2> QED BY <2>1, <2>2, <2>5 DEF TypeOK
  <1>5. CASE DropMeta
    <2>1. Head(meta_fifo) \in 1..MaxRpc /\ QueuesOK'
      BY <1>5, Pop DEF TypeOK, QueuesOK, DropMeta
    <2>2. RegsOK'
      BY <1>5, <2>1, Push DEF TypeOK, RegsOK, DropMeta, States
    <2> QED BY <1>5, <2>1, <2>2 DEF TypeOK, InputOK, LanesOK, DropMeta, in_vars, lane_vars
  <1>6. CASE DropData
    <2>1. QueuesOK'
      BY <1>6, Pop DEF TypeOK, QueuesOK, DropData
    <2>2. RegsOK'
      BY <1>6 DEF TypeOK, RegsOK, DropData, DropNext, States
    <2> QED BY <1>6, <2>1, <2>2 DEF TypeOK, InputOK, LanesOK, DropData, in_vars, lane_vars
  <1> QED BY <1>1, <1>2, <1>3, <1>4, <1>5, <1>6 DEF Dispatcher

LEMMA LaneType == ASSUME NEW l \in Lanes, TypeOK, LaneStart(l) \/ LaneBeat(l) PROVE TypeOK'
  <1> USE SplitDeAssumption
  <1>1. lane_meta[l] \in Seq(1..MaxRpc) /\ lane_data[l] \in Seq(BeatsOf) /\ lane_rpc[l] \in 0..MaxRpc
    BY DEF TypeOK, LanesOK
  <1>2. CASE LaneStart(l)
    <2>1. /\ Tail(lane_meta[l]) \in Seq(1..MaxRpc) /\ Len(Tail(lane_meta[l])) <= LANE_META_DEPTH
          /\ Head(lane_meta[l]) \in 0..MaxRpc
      BY <1>1, <1>2, Pop DEF TypeOK, LanesOK, LaneStart
    <2>2. LanesOK'
      BY <1>2, <2>1 DEF TypeOK, LanesOK, LaneStart
    <2> QED BY <1>2, <2>2 DEF TypeOK, InputOK, QueuesOK, RegsOK, LaneStart, in_vars
  <1>3. CASE LaneBeat(l)
    <2>1. Tail(lane_data[l]) \in Seq(BeatsOf) /\ Len(Tail(lane_data[l])) <= LANE_DATA_DEPTH
      BY <1>1, <1>3, Pop DEF TypeOK, LanesOK, LaneBeat
    <2>2. LanesOK'
      BY <1>1, <1>3, <2>1 DEF TypeOK, LanesOK, LaneBeat
    <2> QED BY <1>3, <2>2 DEF TypeOK, InputOK, QueuesOK, RegsOK, LaneBeat, in_vars
  <1> QED BY <1>2, <1>3

(* The queues, registers and lanes of SplitDe keep their types and depths. *)
THEOREM SplitDeTypeCorrect == Spec => []TypeOK
  <1>1. TypeOK /\ [Next]_vars => TypeOK'
    <2> SUFFICES ASSUME TypeOK, [Next]_vars PROVE TypeOK'
      OBVIOUS
    <2>1. CASE MetaIn
      BY <2>1, MetaInType
    <2>2. CASE \E last \in BOOLEAN : DataIn(last)
      BY <2>2, DataInType
    <2>3. CASE Dispatcher
      BY <2>3, DispatcherType
    <2>4. CASE \E l \in Lanes : LaneStart(l) \/ LaneBeat(l)
      BY <2>4, LaneType
    <2>5. CASE UNCHANGED vars
      BY <2>5 DEF TypeOK, InputOK, QueuesOK, RegsOK, LanesOK, vars, in_vars, lane_vars
    <2> QED BY <2>1, <2>2, <2>3, <2>4, <2>5 DEF Next
  <1> QED BY InitType, <1>1, PTL DEF Spec

-----------------------------------------------------------------------------
(* The order of metas and beats.                                           *)

LEMMA InitOrder == Init => OrderInv
  <1> SUFFICES ASSUME Init PROVE OrderInv
    OBVIOUS
  <1>1. Taken = 0 /\ ~Serving
    <2>1. arrived = 0 /\ Len(meta_fifo) = 0 /\ state = "sIdle"
      BY DEF Init
    <2> QED BY <2>1 DEF Taken, Serving
  <1>2. MetasInOrder
    BY DEF Init, MetasInOrder
  <1>3. BeatsInOrder
    BY DEF Init, BeatsInOrder
  <1>4. DispatchAligned /\ TailInStep
    BY DEF Init, DispatchAligned, TailInStep
  <1>5. EmptyInStep
    BY <1>1 DEF Init, EmptyInStep
  <1> QED BY <1>2, <1>3, <1>4, <1>5 DEF OrderInv

(* What the order invariant does not mention may change.                   *)
LEMMA OrderFrame ==
  ASSUME TypeOK, OrderInv, UNCHANGED <<arrived, open_rpc, meta_fifo, data_fifo>>, Serving' = Serving
  PROVE  OrderInv'
  BY DEF OrderInv, MetasInOrder, BeatsInOrder, DispatchAligned, TailInStep, EmptyInStep, Taken,
     Serving, Newest, Follows

(* A new meta: the queue of metas grows at its end, arrived with it.       *)
LEMMA MetaInOrder == TypeOK /\ OrderInv /\ MetaIn => OrderInv'
  <1> SUFFICES ASSUME TypeOK, OrderInv, MetaIn PROVE OrderInv'
    OBVIOUS
  <1>1. /\ arrived \in Nat /\ arrived + 1 \in 1..MaxRpc
        /\ meta_fifo \in Seq(1..MaxRpc) /\ data_fifo \in Seq(BeatsOf)
    BY SplitDeAssumption DEF TypeOK, InputOK, QueuesOK, MetaIn
  <1>2. Len(meta_fifo') = Len(meta_fifo) + 1 /\ Taken' = Taken /\ Len(meta_fifo) \in Nat
    BY <1>1, Push, EmptyQueue DEF MetaIn, Taken
  <1>3. MetasInOrder'
    BY <1>1, <1>2, Push DEF OrderInv, MetasInOrder, MetaIn, Taken
  <1>4. BeatsInOrder' /\ DispatchAligned'
    BY <1>2 DEF OrderInv, BeatsInOrder, DispatchAligned, MetaIn, Follows
  <1>5. TailInStep'
    <2>1. \A b : Newest(b) => (Newest(b))'
      BY <1>1 DEF Newest, MetaIn
    <2> QED BY <2>1 DEF OrderInv, TailInStep, MetaIn
  <1>6. EmptyInStep'
    BY <1>1, <1>2 DEF OrderInv, EmptyInStep, Serving, MetaIn
  <1> QED BY <1>3, <1>4, <1>5, <1>6 DEF OrderInv

(* A new beat follows the newest one, or is the one that is waited for.    *)
LEMMA DataInOrder == ASSUME NEW last \in BOOLEAN, TypeOK, OrderInv, DataIn(last) PROVE OrderInv'
  <1> DEFINE b == [rpc |-> arrived, k |-> open_rpc, last |-> last]
  <1> DEFINE n == Len(data_fifo)
  <1>1. /\ arrived \in Nat /\ open_rpc \in Nat \ {0} /\ data_fifo \in Seq(BeatsOf)
        /\ b \in BeatsOf /\ data_fifo' = Append(data_fifo, b)
    BY SplitDeAssumption DEF TypeOK, InputOK, QueuesOK, DataIn, BeatsOf
  <1>2. b.rpc = arrived /\ b.k = open_rpc /\ b.last = last
    OBVIOUS
  <1> HIDE DEF b
  <1>3. /\ n \in Nat /\ Len(data_fifo') = n + 1 /\ data_fifo'[n + 1] = b
        /\ \A i \in 1..n : data_fifo'[i] = data_fifo[i]
        /\ data_fifo' # <<>> /\ (data_fifo = <<>> <=> n = 0)
    BY <1>1, Push, EmptyQueue
  <1>4. UNCHANGED <<arrived, meta_fifo, state>> /\ Taken' = Taken /\ Serving' = Serving
    BY DEF DataIn, Taken, Serving
  <1>5. MetasInOrder'
    BY <1>4 DEF OrderInv, MetasInOrder
  <1>6. n > 0 => Follows(data_fifo[n], b)
    BY <1>1, <1>2, <1>3 DEF OrderInv, TailInStep, Newest, Follows
  <1> HIDE DEF n
  <1>7. BeatsInOrder'
    <2> SUFFICES ASSUME NEW i \in 1..(n + 1), NEW j \in 1..(n + 1), j = i + 1
                 PROVE  Follows(data_fifo'[i], data_fifo'[j])
      BY <1>3 DEF BeatsInOrder, Follows
    <2>1. CASE j = n + 1
      BY <2>1, <1>3, <1>6
    <2>2. CASE j # n + 1
      BY <2>2, <1>3 DEF OrderInv, BeatsInOrder, n
    <2> QED BY <2>1, <2>2
  <1>8. DispatchAligned'
    <2>1. CASE n = 0
      <3>1. Head(data_fifo') = b
        BY <1>1, <1>3, <2>1
      <3>2. IF Serving THEN arrived = Taken ELSE arrived = Taken + 1 /\ open_rpc = 1
        BY <1>1, <1>3, <2>1 DEF OrderInv, EmptyInStep, MetasInOrder, Taken
      <3> QED BY <3>1, <3>2, <1>2, <1>4 DEF DispatchAligned, Serving
    <2>2. CASE n # 0
      <3>1. Head(data_fifo') = Head(data_fifo)
        BY <1>1, <1>3, <2>2 DEF n
      <3> QED BY <3>1, <1>3, <1>4, <2>2 DEF OrderInv, DispatchAligned
    <2> QED BY <2>1, <2>2
  <1>9. TailInStep'
    BY <1>1, <1>2, <1>3, <1>4 DEF TailInStep, Newest, DataIn
  <1>10. EmptyInStep'
    BY <1>3 DEF EmptyInStep
  <1> QED BY <1>5, <1>7, <1>8, <1>9, <1>10 DEF OrderInv

(* A meta leaves, to a lane or to be dropped: the dispatcher serves its RPC *)
(* from now on.                                                             *)
LEMMA TakeMetaOrder ==
  ASSUME TypeOK, OrderInv, ~Serving, meta_fifo # <<>>, meta_fifo' = Tail(meta_fifo), Serving',
         UNCHANGED <<arrived, open_rpc, data_fifo>>
  PROVE  OrderInv'
  <1>1. /\ arrived \in Nat /\ open_rpc \in Nat
        /\ meta_fifo \in Seq(1..MaxRpc) /\ data_fifo \in Seq(BeatsOf)
    BY SplitDeAssumption DEF TypeOK, InputOK, QueuesOK
  <1>2. /\ Len(meta_fifo) \in Nat /\ Len(meta_fifo) > 0 /\ Len(meta_fifo') = Len(meta_fifo) - 1
        /\ \A i \in 1..Len(meta_fifo') : meta_fifo'[i] = meta_fifo[i + 1]
    BY <1>1, Pop, EmptyQueue
  <1>3. Taken' = Taken + 1 /\ Taken < arrived /\ Taken \in Int
    BY <1>1, <1>2 DEF Taken
  <1>4. MetasInOrder'
    BY <1>1, <1>2, <1>3 DEF OrderInv, MetasInOrder
  <1>5. BeatsInOrder' /\ TailInStep'
    BY DEF OrderInv, BeatsInOrder, TailInStep, Newest, Follows
  <1>6. DispatchAligned'
    BY <1>3 DEF OrderInv, DispatchAligned, Serving
  <1>7. EmptyInStep'
    BY <1>1, <1>3 DEF OrderInv, EmptyInStep
  <1> QED BY <1>4, <1>5, <1>6, <1>7 DEF OrderInv

(* A beat leaves: the dispatcher stops serving exactly at the marked beat. *)
LEMMA TakeBeatOrder ==
  ASSUME TypeOK, OrderInv, Serving, data_fifo # <<>>, data_fifo' = Tail(data_fifo),
         Serving' <=> ~Head(data_fifo).last, UNCHANGED <<arrived, open_rpc, meta_fifo>>
  PROVE  OrderInv'
  <1> DEFINE n == Len(data_fifo)
  <1>1. /\ arrived \in Nat /\ open_rpc \in Nat /\ data_fifo \in Seq(BeatsOf)
    BY SplitDeAssumption DEF TypeOK, InputOK, QueuesOK
  <1>2. /\ n \in Nat /\ n > 0 /\ Len(data_fifo') = n - 1 /\ Head(data_fifo) = data_fifo[1]
        /\ \A i \in 1..(n - 1) : data_fifo'[i] = data_fifo[i + 1]
        /\ data_fifo' \in Seq(BeatsOf) /\ (data_fifo' = <<>> <=> n = 1)
    <2>1. n \in Nat /\ n > 0 /\ Len(data_fifo') = n - 1 /\ Head(data_fifo) = data_fifo[1]
      BY <1>1, Pop, EmptyQueue
    <2>2. data_fifo' \in Seq(BeatsOf) /\ \A i \in 1..(n - 1) : data_fifo'[i] = data_fifo[i + 1]
      BY <1>1, <2>1, Pop
    <2>3. data_fifo' = <<>> <=> Len(data_fifo') = 0
      BY <2>2, EmptyQueue
    <2> QED BY <2>1, <2>2, <2>3
  <1>3. \A i \in 1..n : data_fifo[i] \in BeatsOf
    BY <1>1, EmptyQueue
  <1>4. Taken' = Taken /\ data_fifo[1].rpc = Taken
    BY <1>2 DEF OrderInv, DispatchAligned, Serving, Taken
  <1>5. MetasInOrder'
    BY <1>4 DEF OrderInv, MetasInOrder
  <1> HIDE DEF n
  <1>6. BeatsInOrder'
    <2> SUFFICES ASSUME NEW i \in 1..(n - 1), NEW j \in 1..(n - 1), j = i + 1
                 PROVE  Follows(data_fifo'[i], data_fifo'[j])
      BY <1>2 DEF BeatsInOrder, Follows
    <2>1. Follows(data_fifo[i + 1], data_fifo[j + 1])
      BY <1>2 DEF OrderInv, BeatsInOrder, n
    <2> QED BY <2>1, <1>2
  <1>7. DispatchAligned'
    <2> SUFFICES ASSUME n > 1 PROVE DispatchAligned'
      BY <1>2 DEF DispatchAligned
    <2>1. Head(data_fifo') = data_fifo[2]
      BY <1>2
    <2>2. Follows(data_fifo[1], data_fifo[2])
      BY <1>2 DEF OrderInv, BeatsInOrder, n
    <2> QED BY <2>1, <2>2, <1>2, <1>4 DEF DispatchAligned, Follows, Serving
  <1>8. TailInStep'
    <2> SUFFICES ASSUME n > 1 PROVE TailInStep'
      BY <1>2 DEF TailInStep
    <2>1. data_fifo'[n - 1] = data_fifo[n]
      BY <1>2
    <2> QED BY <2>1, <1>2 DEF OrderInv, TailInStep, Newest, n
  <1>9. EmptyInStep'
    <2> SUFFICES ASSUME n = 1 PROVE EmptyInStep'
      BY <1>2 DEF EmptyInStep
    <2>1. Newest(data_fifo[1])
      BY <1>2 DEF OrderInv, TailInStep, n
    <2> QED BY <2>1, <1>1, <1>2, <1>4 DEF EmptyInStep, Newest
  <1> QED BY <1>5, <1>6, <1>7, <1>8, <1>9 DEF OrderInv

LEMMA DispatcherOrder == TypeOK /\ OrderInv /\ Dispatcher => OrderInv'
  <1> SUFFICES ASSUME TypeOK, OrderInv, Dispatcher PROVE OrderInv'
    OBVIOUS
  <1>1. CASE SampleIdle
    BY <1>1, OrderFrame DEF SampleIdle, Serving, in_vars
  <1>2. CASE Choose
    BY <1>2, OrderFrame DEF Choose, Serving, in_vars
  <1>3. CASE SendMeta
    BY <1>3, TakeMetaOrder DEF SendMeta, Serving, in_vars
  <1>4. CASE SendData
    BY <1>4, TakeBeatOrder DEF SendData, EndsRpc, Serving, in_vars
  <1>5. CASE DropMeta
    BY <1>5, TakeMetaOrder DEF DropMeta, Serving, in_vars
  <1>6. CASE DropData
    BY <1>6, TakeBeatOrder DEF DropData, DropNext, Serving, in_vars
  <1> QED BY <1>1, <1>2, <1>3, <1>4, <1>5, <1>6 DEF Dispatcher

(* Metas and beats are in order in the two queues of the dispatcher.       *)
THEOREM SplitDeOrdered == Spec => []OrderInv
  <1>1. Init => TypeOK /\ OrderInv
    BY InitType, InitOrder
  <1>2. TypeOK /\ OrderInv /\ [Next]_vars => OrderInv'
    <2> SUFFICES ASSUME TypeOK, OrderInv, [Next]_vars PROVE OrderInv'
      OBVIOUS
    <2>1. CASE MetaIn
      BY <2>1, MetaInOrder
    <2>2. CASE \E last \in BOOLEAN : DataIn(last)
      BY <2>2, DataInOrder
    <2>3. CASE Dispatcher
      BY <2>3, DispatcherOrder
    <2>4. CASE \E l \in Lanes : LaneStart(l) \/ LaneBeat(l)
      BY <2>4, OrderFrame DEF LaneStart, LaneBeat, Serving, in_vars
    <2>5. CASE UNCHANGED vars
      BY <2>5, OrderFrame DEF vars, in_vars, Serving
    <2> QED BY <2>1, <2>2, <2>3, <2>4, <2>5 DEF Next
  <1> QED BY <1>1, <1>2, SplitDeTypeCorrect, PTL DEF Spec

(* Metas and beats stay in step in the dispatcher: it never forwards or    *)
(* drops a beat of another RPC than the one whose meta it took.            *)
THEOREM DispatchInStep == Spec => []DispatchAligned
  <1>1. OrderInv => DispatchAligned
    BY DEF OrderInv
  <1> QED BY <1>1, SplitDeOrdered, PTL

-----------------------------------------------------------------------------
(* The limit is tested in sIdle and used a state later.  In between metas  *)
(* only come in.                                                           *)
DropInv == state = "sDropMeta" => Len(meta_fifo) > DROP_LIMIT

LEMMA DropStep == TypeOK /\ DropInv /\ [Next]_vars => DropInv'
  <1> SUFFICES ASSUME TypeOK, DropInv, [Next]_vars, state' = "sDropMeta"
               PROVE  Len(meta_fifo') > DROP_LIMIT
    BY DEF DropInv
  <1>1. meta_fifo \in Seq(1..MaxRpc) /\ Len(meta_fifo) \in Nat /\ DROP_LIMIT \in Nat
    BY SplitDeAssumption, EmptyQueue DEF TypeOK, QueuesOK
  <1>2. CASE MetaIn
    <2>1. arrived + 1 \in 1..MaxRpc /\ state = "sDropMeta"
      BY <1>2, SplitDeAssumption DEF MetaIn, TypeOK, InputOK
    <2>2. Len(meta_fifo') = Len(meta_fifo) + 1
      BY <1>1, <1>2, <2>1, Push DEF MetaIn
    <2> QED BY <1>1, <2>1, <2>2 DEF DropInv
  <1>3. CASE \E last \in BOOLEAN : DataIn(last)
    BY <1>3 DEF DataIn, DropInv
  <1>4. CASE SampleIdle
    BY <1>4 DEF SampleIdle, DropInv
  <1>5. CASE Choose
    BY <1>5 DEF Choose, MayDrop
  <1>6. CASE SendMeta \/ SendData \/ DropMeta \/ DropData
    BY <1>6 DEF SendMeta, SendData, DropMeta, DropData, DropNext
  <1>7. CASE \E l \in Lanes : LaneStart(l) \/ LaneBeat(l)
    BY <1>7 DEF LaneStart, LaneBeat, DropInv
  <1>8. CASE UNCHANGED vars
    BY <1>8 DEF vars, DropInv
  <1> QED BY <1>2, <1>3, <1>4, <1>5, <1>6, <1>7, <1>8 DEF Next, Dispatcher

(* An RPC is thrown away only while DROP_LIMIT others wait behind it, for  *)
(* every limit below the depth of meta_fifo.                               *)
THEOREM DropOnlyUnderLoad == Spec => DropUnderLoad
  <1>1. Init => DropInv
    BY DEF Init, DropInv
  <1>2. TypeOK /\ DropInv /\ [Next]_vars => [dropped' # dropped => Len(meta_fifo') >= DROP_LIMIT]_vars
    <2> SUFFICES ASSUME TypeOK, DropInv, Next, dropped' # dropped PROVE Len(meta_fifo') >= DROP_LIMIT
      OBVIOUS
    <2>1. DropMeta
      BY DEF Next, MetaIn, DataIn, Dispatcher, SampleIdle, Choose, SendMeta, SendData, DropData,
         LaneStart, LaneBeat
    <2>2. Len(meta_fifo') = Len(meta_fifo) - 1 /\ Len(meta_fifo) \in Nat
      BY <2>1, Pop, EmptyQueue DEF DropMeta, TypeOK, QueuesOK
    <2> QED BY <2>1, <2>2, SplitDeAssumption DEF DropMeta, DropInv
  <1> QED BY <1>1, <1>2, DropStep, SplitDeTypeCorrect, PTL DEF Spec, DropUnderLoad

-----------------------------------------------------------------------------
(* The order in a lane: q are the metas that wait there, r is the RPC it   *)
(* works on (0 if none), d its beats, due the RPC the dispatcher is        *)
(* sending it (0 if none), and no meta taken so far has a number above top. *)

Pending(q, r) == {m \in 1..MaxRpc : m = r \/ \E i \in 1..Len(q) : m = q[i]}

MetasRise(q, r, due, top) ==
  /\ \A i, j \in 1..Len(q) : i < j => q[i] < q[j]
  /\ r # 0 => \A i \in 1..Len(q) : r < q[i]
  /\ \A m \in Pending(q, r) : m <= top
  /\ due # 0 => due = top /\ due \in Pending(q, r)

(* Beats come in the order of the metas and skip none of them.             *)
BeatsRise(q, r, d) ==
  /\ \A i \in 1..Len(d) : d[i].rpc \in Pending(q, r)
  /\ \A i, j \in 1..Len(d) : i < j =>
       d[i].rpc <= d[j].rpc /\ (d[i].last => d[i].rpc < d[j].rpc)
NoneSkipped(q, r, d) ==
  \A i, j \in 1..Len(d) : j = i + 1 =>
    IF d[i].last THEN \A m \in Pending(q, r) : m <= d[i].rpc \/ m >= d[j].rpc
    ELSE d[i].rpc = d[j].rpc

(* The first beat belongs to the oldest meta and the newest beat to the    *)
(* newest one, but for the RPC that is due.                                *)
EndsMeet(q, r, d, due) ==
  /\ Len(d) = 0 => \A m \in Pending(q, r) : m = due
  /\ Len(d) > 0 =>
       /\ \A m \in Pending(q, r) : m >= d[1].rpc
       /\ IF d[Len(d)].last THEN \A m \in Pending(q, r) : m > d[Len(d)].rpc => m = due
          ELSE d[Len(d)].rpc = due
  /\ due # 0 => \A i \in 1..Len(d) : d[i].last => d[i].rpc < due

Ordered(q, r, d, due, top) ==
  MetasRise(q, r, due, top) /\ BeatsRise(q, r, d) /\ NoneSkipped(q, r, d) /\ EndsMeet(q, r, d, due)

(* The dispatcher takes the next meta: for another lane, or to drop it.    *)
LEMMA HigherTop ==
  ASSUME NEW q \in Seq(1..MaxRpc), NEW r \in 0..MaxRpc, NEW d \in Seq(BeatsOf),
         NEW top \in Nat, NEW top2 \in Nat, top <= top2, Ordered(q, r, d, 0, top)
  PROVE  Ordered(q, r, d, 0, top2)
  <1>1. Pending(q, r) \subseteq Nat
    BY DEF Pending
  <1> QED BY <1>1 DEF Ordered, MetasRise

(* It gives the lane the next meta.                                        *)
LEMMA GiveMeta ==
  ASSUME NEW q \in Seq(1..MaxRpc), NEW r \in 0..MaxRpc, NEW d \in Seq(BeatsOf),
         NEW top \in Nat, NEW x \in 1..MaxRpc, x = top + 1, Ordered(q, r, d, 0, top)
  PROVE  Ordered(Append(q, x), r, d, x, x)
  <1> DEFINE p == Append(q, x)
  <1>1. /\ Len(p) = Len(q) + 1 /\ p[Len(q) + 1] = x /\ Len(q) \in Nat /\ Len(d) \in Nat
        /\ \A i \in 1..Len(q) : p[i] = q[i] /\ q[i] \in 1..MaxRpc
    <2>1. Len(q) \in Nat /\ \A i \in 1..Len(q) : q[i] \in 1..MaxRpc
      BY EmptyQueue
    <2>2. Len(d) \in Nat
      BY EmptyQueue
    <2> QED BY <2>1, <2>2, Push
  <1> HIDE DEF p
  <1>2. Pending(p, r) = Pending(q, r) \cup {x}
    <2>1. ASSUME NEW m \in 1..MaxRpc
          PROVE  (\E i \in 1..Len(p) : m = p[i]) <=> m = x \/ \E i \in 1..Len(q) : m = q[i]
      <3>1. Len(q) + 1 \in 1..Len(p) /\ \A i \in 1..Len(q) : i \in 1..Len(p)
        BY <1>1
      <3>2. \A i \in 1..Len(p) : i \in 1..Len(q) \/ i = Len(q) + 1
        BY <1>1
      <3> QED BY <1>1, <3>1, <3>2, Zenon
    <2> QED BY <2>1 DEF Pending
  <1>3. \A m \in Pending(q, r) : m \in Nat \ {0} /\ m <= top
    BY DEF Ordered, MetasRise, Pending
  <1>4. \A i \in 1..Len(q) : q[i] \in Pending(q, r)
    BY <1>1 DEF Pending
  <1>5. r # 0 => r \in Pending(q, r)
    BY DEF Pending
  <1>6. MetasRise(p, r, x, x)
    <2>1. \A i, j \in 1..Len(p) : i < j => p[i] < p[j]
      <3> SUFFICES ASSUME NEW i \in 1..Len(p), NEW j \in 1..Len(p), i < j PROVE p[i] < p[j]
        OBVIOUS
      <3>1. CASE j = Len(q) + 1
        <4>1. i \in 1..Len(q) /\ p[i] = q[i] /\ p[j] = x
          BY <1>1, <3>1
        <4>2. q[i] \in Nat /\ q[i] <= top
          BY <1>3, <1>4, <4>1
        <4> QED BY <4>1, <4>2
      <3>2. CASE j # Len(q) + 1
        BY <1>1, <3>2 DEF Ordered, MetasRise
      <3> QED BY <3>1, <3>2
    <2>2. r # 0 => \A i \in 1..Len(p) : r < p[i]
      BY <1>1, <1>3, <1>5 DEF Ordered, MetasRise
    <2>3. x \in Pending(p, r) /\ \A m \in Pending(p, r) : m <= x
      BY <1>2, <1>3
    <2> QED BY <2>1, <2>2, <2>3 DEF MetasRise
  <1>7. \A i \in 1..Len(d) : d[i].rpc \in Pending(q, r)
    BY DEF Ordered, BeatsRise
  <1>8. BeatsRise(p, r, d)
    BY <1>2 DEF Ordered, BeatsRise
  <1>9. NoneSkipped(p, r, d)
    BY <1>2, <1>3, <1>7 DEF Ordered, NoneSkipped
  <1>10. EndsMeet(p, r, d, x)
    <2>1. Len(d) = 0 => \A m \in Pending(p, r) : m = x
      BY <1>2, <1>3 DEF Ordered, EndsMeet
    <2>2. ASSUME Len(d) > 0
          PROVE  /\ \A m \in Pending(p, r) : m >= d[1].rpc
                 /\ d[Len(d)].last /\ \A m \in Pending(p, r) : m > d[Len(d)].rpc => m = x
      <3>1. 1 \in 1..Len(d) /\ Len(d) \in 1..Len(d)
        BY <1>1, <2>2
      <3>2. d[1].rpc <= top /\ d[1].rpc \in Nat /\ d[Len(d)].rpc # 0
        BY <1>3, <1>7, <3>1 DEF Pending
      <3>3. d[Len(d)].last /\ \A m \in Pending(q, r) : ~(m > d[Len(d)].rpc)
        BY <1>3, <2>2, <3>2 DEF Ordered, EndsMeet, Pending
      <3> QED BY <1>2, <1>3, <2>2, <3>2, <3>3 DEF Ordered, EndsMeet
    <2>3. \A i \in 1..Len(d) : d[i].rpc < x
      BY <1>3, <1>7
    <2> QED BY <2>1, <2>2, <2>3 DEF EndsMeet
  <1> QED BY <1>6, <1>8, <1>9, <1>10 DEF Ordered, p

(* It gives the lane a beat of the RPC that is due; the marked one ends it. *)
LEMMA GiveBeat ==
  ASSUME NEW q \in Seq(1..MaxRpc), NEW r \in 0..MaxRpc, NEW d \in Seq(BeatsOf),
         NEW top \in Nat, NEW due \in 1..MaxRpc, NEW b \in BeatsOf, b.rpc = due,
         Ordered(q, r, d, due, top)
  PROVE  Ordered(q, r, Append(d, b), IF b.last THEN 0 ELSE due, top)
  <1> DEFINE e == Append(d, b)
             n == Len(d)
  <1>1. /\ Len(e) = n + 1 /\ e[n + 1] = b /\ n \in Nat
        /\ \A i \in 1..n : e[i] = d[i] /\ d[i] \in BeatsOf
    BY Push, EmptyQueue
  <1> HIDE DEF e
  <1>2. \A m \in Pending(q, r) : m \in Nat /\ m <= due
    BY DEF Ordered, MetasRise, Pending
  <1>3. due \in Pending(q, r)
    BY DEF Ordered, MetasRise
  <1>4. /\ \A i \in 1..n : d[i].rpc \in Pending(q, r)
        /\ \A i \in 1..n : d[i].last => d[i].rpc < due
    BY DEF Ordered, BeatsRise, EndsMeet
  <1>5. MetasRise(q, r, IF b.last THEN 0 ELSE due, top)
    BY DEF Ordered, MetasRise
  <1>6. BeatsRise(q, r, e)
    <2>1. ASSUME NEW i \in 1..(n + 1) PROVE e[i].rpc \in Pending(q, r)
      BY <1>1, <1>3, <1>4
    <2>2. ASSUME NEW i \in 1..(n + 1), NEW j \in 1..(n + 1), i < j
          PROVE  e[i].rpc <= e[j].rpc /\ (e[i].last => e[i].rpc < e[j].rpc)
      <3>1. CASE j = n + 1
        BY <1>1, <1>2, <1>4, <2>2, <3>1
      <3>2. CASE j # n + 1
        <4>1. i \in 1..n /\ j \in 1..n
          BY <1>1, <2>2, <3>2
        <4>2. d[i].rpc <= d[j].rpc /\ (d[i].last => d[i].rpc < d[j].rpc)
          BY <2>2, <4>1 DEF Ordered, BeatsRise
        <4> QED BY <1>1, <4>1, <4>2
      <3> QED BY <3>1, <3>2
    <2> QED BY <1>1, <2>1, <2>2 DEF BeatsRise
  <1>7. NoneSkipped(q, r, e)
    <2> SUFFICES ASSUME NEW i \in 1..(n + 1), NEW j \in 1..(n + 1), j = i + 1
                 PROVE  IF e[i].last THEN \A m \in Pending(q, r) : m <= e[i].rpc \/ m >= e[j].rpc
                        ELSE e[i].rpc = e[j].rpc
      BY <1>1 DEF NoneSkipped
    <2>1. CASE j = n + 1
      <3>1. i = n /\ n > 0 /\ e[i] = d[n] /\ e[j] = b /\ d[n] \in BeatsOf
        BY <1>1, <2>1
      <3>2. IF d[n].last THEN \A m \in Pending(q, r) : m > d[n].rpc => m = due ELSE d[n].rpc = due
        BY <3>1 DEF Ordered, EndsMeet
      <3>3. d[n].rpc \in Nat
        BY <3>1 DEF BeatsOf
      <3>4. CASE d[n].last
        BY <1>2, <3>1, <3>2, <3>3, <3>4
      <3>5. CASE ~d[n].last
        BY <3>1, <3>2, <3>5
      <3> QED BY <3>4, <3>5
    <2>2. CASE j # n + 1
      <3>1. i \in 1..n /\ j \in 1..n
        BY <1>1, <2>2
      <3>2. IF d[i].last THEN \A m \in Pending(q, r) : m <= d[i].rpc \/ m >= d[j].rpc
            ELSE d[i].rpc = d[j].rpc
        BY <3>1 DEF Ordered, NoneSkipped
      <3> QED BY <1>1, <3>1, <3>2
    <2> QED BY <2>1, <2>2
  <1>8. EndsMeet(q, r, e, IF b.last THEN 0 ELSE due)
    <2>1. \A m \in Pending(q, r) : m >= e[1].rpc
      <3>1. CASE n = 0
        <4>1. \A m \in Pending(q, r) : m = due
          BY <3>1 DEF Ordered, EndsMeet
        <4> QED BY <1>1, <3>1, <4>1
      <3>2. CASE n > 0
        BY <1>1, <3>2 DEF Ordered, EndsMeet
      <3> QED BY <1>1, <3>1, <3>2
    <2>2. IF b.last THEN \A m \in Pending(q, r) : ~(m > b.rpc) ELSE b.rpc = due
      BY <1>2
    <2>3. CASE b.last
      BY <1>1, <2>1, <2>2, <2>3 DEF EndsMeet
    <2>4. CASE ~b.last
      <3>1. \A i \in 1..(n + 1) : e[i].last => e[i].rpc < due
        BY <1>1, <1>4, <2>4
      <3> QED BY <1>1, <2>1, <2>2, <2>4, <3>1 DEF EndsMeet
    <2> QED BY <2>3, <2>4
  <1> QED BY <1>5, <1>6, <1>7, <1>8 DEF Ordered, e

(* The lane takes the next meta: the pending RPCs stay the same.           *)
LEMMA TakeMeta ==
  ASSUME NEW q \in Seq(1..MaxRpc), q # <<>>, NEW d \in Seq(BeatsOf),
         NEW top \in Nat, NEW due \in 0..MaxRpc, Ordered(q, 0, d, due, top)
  PROVE  Ordered(Tail(q), Head(q), d, due, top)
  <1> DEFINE p == Tail(q)
             h == Head(q)
  <1>1. /\ Len(q) \in Nat /\ Len(q) > 0 /\ Len(p) = Len(q) - 1 /\ h = q[1] /\ h \in 1..MaxRpc
        /\ \A i \in 1..Len(p) : p[i] = q[i + 1]
    BY Pop, EmptyQueue
  <1> HIDE DEF p, h
  <1>2. Pending(p, h) = Pending(q, 0)
    <2>1. ASSUME NEW m \in Pending(p, h) PROVE m \in Pending(q, 0)
      BY <1>1 DEF Pending
    <2>2. ASSUME NEW m \in Pending(q, 0) PROVE m \in Pending(p, h)
      <3>1. m \in 1..MaxRpc
        BY DEF Pending
      <3>2. PICK i \in 1..Len(q) : m = q[i]
        BY DEF Pending
      <3>3. CASE i = 1
        BY <1>1, <3>1, <3>2, <3>3 DEF Pending
      <3>4. CASE i # 1
        <4>1. i - 1 \in 1..Len(p) /\ m = p[i - 1]
          BY <1>1, <3>2, <3>4
        <4> QED BY <3>1, <4>1 DEF Pending
      <3> QED BY <3>3, <3>4
    <2> QED BY <2>1, <2>2
  <1>3. /\ \A i, j \in 1..Len(p) : i < j => p[i] < p[j]
        /\ \A i \in 1..Len(p) : h < p[i]
    <2>1. \A i, j \in 1..Len(q) : i < j => q[i] < q[j]
      BY DEF Ordered, MetasRise
    <2>2. \A i \in 1..Len(p) : i + 1 \in 1..Len(q) /\ 1 < i + 1 /\ 1 \in 1..Len(q) /\ i \in Int
      BY <1>1
    <2>3. ASSUME NEW i \in 1..Len(p), NEW j \in 1..Len(p), i < j PROVE p[i] < p[j]
      <3>1. i + 1 < j + 1
        BY <2>2, <2>3
      <3> QED BY <1>1, <2>1, <2>2, <3>1
    <2>4. ASSUME NEW i \in 1..Len(p) PROVE h < p[i]
      BY <1>1, <2>1, <2>2
    <2> QED BY <2>3, <2>4
  <1>4. MetasRise(p, h, due, top)
    BY <1>2, <1>3 DEF Ordered, MetasRise
  <1>5. BeatsRise(p, h, d) /\ NoneSkipped(p, h, d) /\ EndsMeet(p, h, d, due)
    BY <1>2 DEF Ordered, BeatsRise, NoneSkipped, EndsMeet
  <1> QED BY <1>4, <1>5 DEF Ordered, p, h

(* The lane takes a beat; after the marked one it is done with the RPC.    *)
LEMMA TakeBeat ==
  ASSUME NEW q \in Seq(1..MaxRpc), NEW r \in 1..MaxRpc, NEW d \in Seq(BeatsOf), d # <<>>,
         NEW top \in Nat, NEW due \in 0..MaxRpc, Ordered(q, r, d, due, top)
  PROVE  /\ d[1].rpc = r
         /\ Ordered(q, IF Head(d).last THEN 0 ELSE r, Tail(d), due, top)
  <1> DEFINE e == Tail(d)
             n == Len(e)
             s == IF d[1].last THEN 0 ELSE r
  <1>1. /\ n \in Nat /\ Len(d) = n + 1 /\ Head(d) = d[1]
        /\ \A i \in 1..n : e[i] = d[i + 1]
    BY Pop, EmptyQueue
  <1>2. \A i \in 1..(n + 1) : d[i] \in BeatsOf
    BY <1>1, EmptyQueue
  <1> HIDE DEF e, n
  <1>3. \A i \in 1..(n + 1) : d[i].rpc \in Pending(q, r)
    BY <1>1 DEF Ordered, BeatsRise
  <1>4. \A m \in Pending(q, r) : m \in Nat \ {0} /\ m >= d[1].rpc /\ m <= top
    BY <1>1 DEF Ordered, MetasRise, EndsMeet, Pending
  <1>5. \A i \in 1..Len(q) : q[i] \in 1..MaxRpc /\ r < q[i]
    <2>1. \A i \in 1..Len(q) : q[i] \in 1..MaxRpc
      BY EmptyQueue
    <2>2. \A i \in 1..Len(q) : r < q[i]
      BY DEF Ordered, MetasRise
    <2> QED BY <2>1, <2>2
  <1>6. d[1].rpc = r
    <2>1. d[1].rpc \in Pending(q, r) /\ r \in Pending(q, r) /\ \A m \in Pending(q, r) : m >= r
      BY <1>1, <1>3, <1>5 DEF Pending
    <2> QED BY <1>4, <2>1
  <1>7. IF d[1].last THEN Pending(q, s) = Pending(q, r) \ {r} ELSE s = r
    BY <1>5 DEF Pending
  <1>8. Pending(q, s) \subseteq Pending(q, r)
    BY <1>7
  <1> HIDE DEF s
  <1>9. /\ \A i, j \in 1..(n + 1) : i < j =>
             d[i].rpc <= d[j].rpc /\ (d[i].last => d[i].rpc < d[j].rpc)
        /\ \A i, j \in 1..(n + 1) : j = i + 1 =>
             IF d[i].last THEN \A m \in Pending(q, r) : m <= d[i].rpc \/ m >= d[j].rpc
             ELSE d[i].rpc = d[j].rpc
    BY <1>1 DEF Ordered, BeatsRise, NoneSkipped
  <1>10. BeatsRise(q, s, e)
    <2>1. ASSUME NEW i \in 1..n PROVE e[i].rpc \in Pending(q, s)
      <3>1. i + 1 \in 1..(n + 1) /\ 1 \in 1..(n + 1) /\ 1 < i + 1 /\ e[i] = d[i + 1]
        BY <1>1
      <3>2. d[1].last => d[1].rpc < d[i + 1].rpc
        BY <1>9, <3>1
      <3>3. d[i + 1].rpc \in Pending(q, r) /\ d[i + 1].rpc \in Nat
        BY <1>3, <1>4, <3>1
      <3> QED BY <1>6, <1>7, <3>1, <3>2, <3>3
    <2>2. ASSUME NEW i \in 1..n, NEW j \in 1..n, i < j
          PROVE  e[i].rpc <= e[j].rpc /\ (e[i].last => e[i].rpc < e[j].rpc)
      <3>1. i + 1 \in 1..(n + 1) /\ j + 1 \in 1..(n + 1) /\ i + 1 < j + 1
        BY <1>1, <2>2
      <3> QED BY <1>1, <1>9, <3>1
    <2> QED BY <1>1, <2>1, <2>2 DEF BeatsRise, n
  <1>11. NoneSkipped(q, s, e)
    <2> SUFFICES ASSUME NEW i \in 1..n, NEW j \in 1..n, j = i + 1
                 PROVE  IF e[i].last THEN \A m \in Pending(q, s) : m <= e[i].rpc \/ m >= e[j].rpc
                        ELSE e[i].rpc = e[j].rpc
      BY DEF NoneSkipped, n
    <2>1. i + 1 \in 1..(n + 1) /\ j + 1 \in 1..(n + 1) /\ j + 1 = (i + 1) + 1
      BY <1>1
    <2> QED BY <1>1, <1>8, <1>9, <2>1
  <1>12. EndsMeet(q, s, e, due)
    <2>1. IF d[n + 1].last THEN \A m \in Pending(q, r) : m > d[n + 1].rpc => m = due
          ELSE d[n + 1].rpc = due
      BY <1>1 DEF Ordered, EndsMeet
    <2>2. due # 0 => due = top /\ \A i \in 1..(n + 1) : d[i].last => d[i].rpc < due
      BY <1>1 DEF Ordered, MetasRise, EndsMeet
    <2>3. ASSUME n = 0, NEW m \in Pending(q, s) PROVE m = due
      <3>1. m \in Pending(q, r) /\ m \in Nat \ {0} /\ m >= r /\ m <= top
        BY <1>4, <1>6, <1>8
      <3>2. CASE d[1].last
        BY <1>6, <1>7, <2>1, <2>3, <3>1, <3>2
      <3>3. CASE ~d[1].last
        BY <1>6, <2>1, <2>2, <2>3, <3>1, <3>3
      <3> QED BY <3>2, <3>3
    <2>4. ASSUME n > 0
          PROVE  /\ \A m \in Pending(q, s) : m >= e[1].rpc
                 /\ IF e[n].last THEN \A m \in Pending(q, s) : m > e[n].rpc => m = due
                    ELSE e[n].rpc = due
      <3>1. e[1] = d[2] /\ e[n] = d[n + 1] /\ 1 \in 1..(n + 1) /\ 2 \in 1..(n + 1)
        BY <1>1, <2>4
      <3>2. IF d[1].last THEN \A m \in Pending(q, r) : m <= d[1].rpc \/ m >= d[2].rpc
            ELSE d[1].rpc = d[2].rpc
        BY <1>9, <3>1
      <3>3. ASSUME NEW m \in Pending(q, s) PROVE m >= d[2].rpc
        <4>1. m \in Pending(q, r) /\ m \in Nat /\ m >= r
          BY <1>4, <1>6, <1>8
        <4>2. CASE d[1].last
          BY <1>6, <1>7, <3>2, <4>1, <4>2
        <4>3. CASE ~d[1].last
          BY <1>6, <3>2, <4>1, <4>3
        <4> QED BY <4>2, <4>3
      <3> QED BY <1>8, <2>1, <3>1, <3>3
    <2>5. due # 0 => \A i \in 1..n : e[i].last => e[i].rpc < due
      BY <1>1, <2>2
    <2> QED BY <1>1, <2>3, <2>4, <2>5 DEF EndsMeet, n
  <1>13. MetasRise(q, s, due, top)
    <2>1. due # 0 => due \in Pending(q, s)
      <3> SUFFICES ASSUME due # 0 PROVE due \in Pending(q, s)
        OBVIOUS
      <3>1. due \in Pending(q, r) /\ (d[1].last => d[1].rpc < due)
        BY <1>1 DEF Ordered, MetasRise, EndsMeet
      <3> QED BY <1>6, <1>7, <3>1
    <2>2. s # 0 => s = r
      BY DEF s
    <2> QED BY <1>4, <1>8, <2>1, <2>2 DEF Ordered, MetasRise
  <1> QED BY <1>1, <1>6, <1>10, <1>11, <1>12, <1>13 DEF Ordered, e, s

-----------------------------------------------------------------------------
(* Every lane is ordered.                                                  *)

Due(l) == IF state = "sSendData" /\ lane = l THEN Taken ELSE 0
LaneOrder ==
  /\ state = "sSendData" => Taken > 0
  /\ \A l \in Lanes : Ordered(lane_meta[l], lane_rpc[l], lane_data[l], Due(l), Taken)

LEMMA LaneTypes ==
  ASSUME TypeOK, OrderInv
  PROVE  /\ \A l \in Lanes : /\ lane_meta[l] \in Seq(1..MaxRpc) /\ lane_data[l] \in Seq(BeatsOf)
                             /\ lane_rpc[l] \in 0..MaxRpc
         /\ Taken \in 0..MaxRpc /\ lane \in Lanes
  <1>1. Taken \in 0..MaxRpc
    <2>1. meta_fifo \in Seq(1..MaxRpc)
      BY DEF TypeOK, QueuesOK
    <2>2. Len(meta_fifo) \in Nat
      BY <2>1, EmptyQueue
    <2> QED BY <2>2, SplitDeAssumption DEF Taken, OrderInv, MetasInOrder, TypeOK, InputOK
  <1> QED BY <1>1 DEF TypeOK, LanesOK, RegsOK

LEMMA InitLanes == Init => LaneOrder
  <1> SUFFICES ASSUME Init, NEW l \in Lanes PROVE Ordered(lane_meta[l], lane_rpc[l], lane_data[l], Due(l), Taken)
    BY DEF Init, LaneOrder
  <1>1. /\ lane_meta[l] = <<>> /\ lane_rpc[l] = 0 /\ lane_data[l] = <<>> /\ Due(l) = 0
    BY DEF Init, Due
  <1>2. Pending(<<>>, 0) = {}
    BY DEF Pending
  <1>3. Ordered(<<>>, 0, <<>>, 0, Taken)
    BY <1>2 DEF Ordered, MetasRise, BeatsRise, NoneSkipped, EndsMeet
  <1> QED BY <1>1, <1>3

(* Where nothing of a lane changes, the dispatcher may have gone on to     *)
(* another meta.                                                           *)
LEMMA LaneFrame ==
  ASSUME TypeOK, OrderInv, LaneOrder, Taken' \in Nat, NEW l \in Lanes,
         lane_meta'[l] = lane_meta[l], lane_rpc'[l] = lane_rpc[l], lane_data'[l] = lane_data[l],
         Due(l)' = Due(l), Taken' = Taken \/ (Due(l) = 0 /\ Taken' >= Taken)
  PROVE  Ordered(lane_meta'[l], lane_rpc'[l], lane_data'[l], Due(l)', Taken')
  <1>1. Ordered(lane_meta[l], lane_rpc[l], lane_data[l], Due(l), Taken)
    BY DEF LaneOrder
  <1>2. CASE Taken' = Taken
    BY <1>1, <1>2
  <1>3. CASE Due(l) = 0 /\ Taken' >= Taken
    <2>1. /\ lane_meta[l] \in Seq(1..MaxRpc) /\ lane_data[l] \in Seq(BeatsOf)
          /\ lane_rpc[l] \in 0..MaxRpc /\ Taken \in Nat /\ Taken <= Taken'
      BY <1>3, LaneTypes, SplitDeAssumption
    <2>2. Ordered(lane_meta[l], lane_rpc[l], lane_data[l], 0, Taken)
      BY <1>1, <1>3
    <2>3. Ordered(lane_meta[l], lane_rpc[l], lane_data[l], 0, Taken')
      BY <2>1, <2>2, HigherTop
    <2> QED BY <1>3, <2>3
  <1> QED BY <1>2, <1>3

(* Steps that leave the lanes alone and take no meta.                      *)
LEMMA QuietLanes ==
  ASSUME TypeOK, OrderInv, LaneOrder, UNCHANGED lane_vars, Taken' = Taken,
         \A l \in Lanes : Due(l)' = Due(l), state' = "sSendData" => state = "sSendData"
  PROVE  LaneOrder'
  BY DEF LaneOrder, lane_vars

LEMMA SendMetaLanes ==
  ASSUME TypeOK, OrderInv, LaneOrder, SendMeta PROVE LaneOrder'
  <1>1. /\ meta_fifo \in Seq(1..MaxRpc) /\ meta_fifo # <<>> /\ arrived \in Nat
        /\ state = "sSendMeta" /\ state' = "sSendData"
        /\ UNCHANGED <<arrived, lane, lane_data, lane_rpc>>
        /\ meta_fifo' = Tail(meta_fifo)
        /\ lane_meta' = [lane_meta EXCEPT ![lane] = Append(@, Head(meta_fifo))]
    BY SplitDeAssumption DEF SendMeta, TypeOK, QueuesOK, InputOK, in_vars
  <1>2. /\ \A l \in Lanes : /\ lane_meta[l] \in Seq(1..MaxRpc) /\ lane_data[l] \in Seq(BeatsOf)
                            /\ lane_rpc[l] \in 0..MaxRpc
        /\ Taken \in Nat /\ lane \in Lanes
    BY LaneTypes, SplitDeAssumption
  <1>3. Head(meta_fifo) \in 1..MaxRpc /\ Head(meta_fifo) = Taken + 1 /\ Taken' = Taken + 1
    <2>1. /\ Len(meta_fifo) \in Nat /\ Len(meta_fifo) > 0 /\ Len(meta_fifo') = Len(meta_fifo) - 1
          /\ Head(meta_fifo) \in 1..MaxRpc /\ Head(meta_fifo) = meta_fifo[1]
      BY <1>1, Pop, EmptyQueue
    <2>2. meta_fifo[1] = Taken + 1
      BY <2>1 DEF OrderInv, MetasInOrder
    <2>3. Taken' = Taken + 1
      BY <1>1, <2>1 DEF Taken
    <2> QED BY <2>1, <2>2, <2>3
  <1>4. \A l \in Lanes : Due(l) = 0 /\ Due(l)' = IF l = lane THEN Taken + 1 ELSE 0
    BY <1>1, <1>3 DEF Due
  <1>5. ASSUME NEW l \in Lanes
        PROVE  Ordered(lane_meta'[l], lane_rpc'[l], lane_data'[l], Due(l)', Taken')
    <2>1. CASE l = lane
      <3> DEFINE x == Head(meta_fifo)
      <3>1. /\ lane_meta'[l] = Append(lane_meta[l], x) /\ lane_data'[l] = lane_data[l]
            /\ lane_rpc'[l] = lane_rpc[l] /\ Due(l)' = x /\ Taken' = x
            /\ x \in 1..MaxRpc /\ x = Taken + 1
        BY <1>1, <1>3, <1>4, <2>1 DEF TypeOK, LanesOK
      <3>2. Ordered(lane_meta[l], lane_rpc[l], lane_data[l], 0, Taken)
        BY <1>4 DEF LaneOrder
      <3> HIDE DEF x
      <3>3. Ordered(Append(lane_meta[l], x), lane_rpc[l], lane_data[l], x, x)
        BY <1>2, <3>1, <3>2, GiveMeta
      <3> QED BY <3>1, <3>3
    <2>2. CASE l # lane
      <3>1. lane_meta'[l] = lane_meta[l] /\ Due(l)' = Due(l) /\ Due(l) = 0 /\ Taken' >= Taken /\ Taken' \in Nat
        BY <1>1, <1>2, <1>3, <1>4, <2>2 DEF TypeOK, LanesOK
      <3> QED BY <1>1, <3>1, LaneFrame
    <2> QED BY <2>1, <2>2
  <1> QED BY <1>2, <1>3, <1>5 DEF LaneOrder

LEMMA SendDataLanes ==
  ASSUME TypeOK, OrderInv, LaneOrder, SendData PROVE LaneOrder'
  <1> DEFINE b == Head(data_fifo)
  <1>1. /\ state = "sSendData" /\ data_fifo # <<>> /\ data_fifo \in Seq(BeatsOf)
        /\ state' = IF b.last THEN "sIdle" ELSE "sSendData"
        /\ lane_data' = [lane_data EXCEPT ![lane] = Append(@, b)]
        /\ UNCHANGED <<arrived, meta_fifo, lane, lane_meta, lane_rpc>>
    BY DEF SendData, EndsRpc, TypeOK, QueuesOK, in_vars
  <1>2. /\ \A l \in Lanes : /\ lane_meta[l] \in Seq(1..MaxRpc) /\ lane_data[l] \in Seq(BeatsOf)
                            /\ lane_rpc[l] \in 0..MaxRpc
        /\ Taken \in 0..MaxRpc /\ lane \in Lanes
    BY LaneTypes
  <1>3. b \in BeatsOf /\ b.rpc = Taken /\ Taken' = Taken /\ Taken > 0
    BY <1>1, Pop DEF OrderInv, DispatchAligned, Taken, LaneOrder
  <1> HIDE DEF b
  <1>4. \A l \in Lanes : /\ Due(l) = IF l = lane THEN Taken ELSE 0
                         /\ Due(l)' = IF l = lane THEN (IF b.last THEN 0 ELSE Taken) ELSE 0
    BY <1>1, <1>3 DEF Due
  <1>5. ASSUME NEW l \in Lanes
        PROVE  Ordered(lane_meta'[l], lane_rpc'[l], lane_data'[l], Due(l)', Taken')
    <2>1. CASE l = lane
      <3>1. /\ lane_data'[l] = Append(lane_data[l], b) /\ lane_meta'[l] = lane_meta[l]
            /\ lane_rpc'[l] = lane_rpc[l] /\ Due(l) = Taken
            /\ Due(l)' = IF b.last THEN 0 ELSE Taken
        BY <1>1, <1>4, <2>1 DEF TypeOK, LanesOK
      <3>2. Taken \in 1..MaxRpc /\ Taken \in Nat
        BY <1>2, <1>3, SplitDeAssumption
      <3>3. Ordered(lane_meta[l], lane_rpc[l], lane_data[l], Taken, Taken)
        BY <3>1 DEF LaneOrder
      <3>4. Ordered(lane_meta[l], lane_rpc[l], Append(lane_data[l], b), IF b.last THEN 0 ELSE Taken, Taken)
        BY <1>2, <1>3, <3>2, <3>3, GiveBeat
      <3> QED BY <1>3, <3>1, <3>4
    <2>2. CASE l # lane
      <3>1. lane_data'[l] = lane_data[l] /\ Due(l)' = Due(l) /\ Taken' \in Nat
        BY <1>1, <1>2, <1>3, <1>4, <2>2, SplitDeAssumption DEF TypeOK, LanesOK
      <3> QED BY <1>1, <1>3, <3>1, LaneFrame
    <2> QED BY <2>1, <2>2
  <1> QED BY <1>3, <1>5 DEF LaneOrder

LEMMA DropMetaLanes ==
  ASSUME TypeOK, OrderInv, LaneOrder, DropMeta PROVE LaneOrder'
  <1>1. /\ meta_fifo \in Seq(1..MaxRpc) /\ meta_fifo # <<>> /\ arrived \in Nat
        /\ state = "sDropMeta" /\ state' = "sDropData" /\ meta_fifo' = Tail(meta_fifo)
        /\ UNCHANGED <<arrived, lane, lane_data, lane_rpc, lane_meta>>
    BY SplitDeAssumption DEF DropMeta, TypeOK, QueuesOK, InputOK, in_vars, lane_vars
  <1>2. Taken \in Nat /\ Taken' \in Nat /\ Taken' >= Taken
    <2>1. Len(meta_fifo) \in Nat /\ Len(meta_fifo') = Len(meta_fifo) - 1
      BY <1>1, Pop, EmptyQueue
    <2>2. Taken \in Nat
      BY LaneTypes, SplitDeAssumption
    <2> QED BY <1>1, <2>1, <2>2 DEF Taken
  <1>3. \A l \in Lanes : Due(l) = 0 /\ Due(l)' = 0
    BY <1>1 DEF Due
  <1> QED BY <1>1, <1>2, <1>3, LaneFrame DEF LaneOrder

LEMMA LaneStepLanes ==
  ASSUME TypeOK, OrderInv, LaneOrder, NEW l \in Lanes, LaneStart(l) \/ LaneBeat(l) PROVE LaneOrder'
  <1>1. UNCHANGED <<arrived, meta_fifo, state, lane>> /\ Taken' = Taken /\ \A m \in Lanes : Due(m)' = Due(m)
    BY DEF LaneStart, LaneBeat, in_vars, Taken, Due
  <1>2. /\ lane_meta[l] \in Seq(1..MaxRpc) /\ lane_data[l] \in Seq(BeatsOf)
        /\ lane_rpc[l] \in 0..MaxRpc /\ Taken \in Nat /\ Due(l) \in 0..MaxRpc
        /\ Ordered(lane_meta[l], lane_rpc[l], lane_data[l], Due(l), Taken)
    BY LaneTypes, SplitDeAssumption DEF LaneOrder, Due
  <1>3. \A m \in Lanes : m # l => /\ lane_meta'[m] = lane_meta[m] /\ lane_data'[m] = lane_data[m]
                                  /\ lane_rpc'[m] = lane_rpc[m]
    BY DEF LaneStart, LaneBeat, TypeOK, LanesOK
  <1>4. Ordered(lane_meta'[l], lane_rpc'[l], lane_data'[l], Due(l), Taken)
    <2>1. CASE LaneStart(l)
      <3>1. /\ lane_rpc[l] = 0 /\ lane_meta[l] # <<>> /\ lane_data'[l] = lane_data[l]
            /\ lane_rpc'[l] = Head(lane_meta[l]) /\ lane_meta'[l] = Tail(lane_meta[l])
        BY <2>1 DEF LaneStart, TypeOK, LanesOK
      <3>2. Ordered(lane_meta[l], 0, lane_data[l], Due(l), Taken)
        BY <1>2, <3>1
      <3>3. Ordered(Tail(lane_meta[l]), Head(lane_meta[l]), lane_data[l], Due(l), Taken)
        BY <1>2, <3>1, <3>2, TakeMeta
      <3> QED BY <3>1, <3>3
    <2>2. CASE LaneBeat(l)
      <3>1. /\ lane_rpc[l] # 0 /\ lane_data[l] # <<>> /\ lane_meta'[l] = lane_meta[l]
            /\ lane_data'[l] = Tail(lane_data[l])
            /\ lane_rpc'[l] = IF Head(lane_data[l]).last THEN 0 ELSE lane_rpc[l]
        BY <2>2 DEF LaneBeat, TypeOK, LanesOK
      <3>2. lane_rpc[l] \in 1..MaxRpc
        BY <1>2, <3>1
      <3>3. Ordered(lane_meta[l], IF Head(lane_data[l]).last THEN 0 ELSE lane_rpc[l], Tail(lane_data[l]),
                    Due(l), Taken)
        BY <1>2, <3>1, <3>2, TakeBeat
      <3> QED BY <3>1, <3>3
    <2> QED BY <2>1, <2>2
  <1> QED BY <1>1, <1>3, <1>4 DEF LaneOrder

LEMMA OrderedAligned ==
  ASSUME NEW q \in Seq(1..MaxRpc), NEW r \in 0..MaxRpc, NEW d \in Seq(BeatsOf), d # <<>>,
         NEW top \in Nat, NEW due \in 0..MaxRpc, Ordered(q, r, d, due, top)
  PROVE  LET metas == (IF r # 0 THEN <<r>> ELSE <<>>) \o q
         IN  metas # <<>> /\ Head(d).rpc = Head(metas)
  <1>1. Len(d) > 0 /\ Head(d) = d[1] /\ Len(d) \in Nat /\ d[1] \in BeatsOf
    BY Pop, EmptyQueue
  <1>2. d[1].rpc \in Pending(q, r) /\ \A m \in Pending(q, r) : m >= d[1].rpc
    BY <1>1 DEF Ordered, BeatsRise, EndsMeet
  <1>3. CASE r # 0
    <2>1. r \in 1..MaxRpc
      BY <1>3
    <2>2. Head(d).rpc = r
      BY <1>1, <2>1, TakeBeat
    <2>3. <<r>> \o q # <<>> /\ Head(<<r>> \o q) = r
      BY <2>1
    <2> QED BY <1>3, <2>2, <2>3
  <1>4. CASE r = 0
    <2>1. Len(q) \in Nat /\ \A i \in 1..Len(q) : q[i] \in 1..MaxRpc
      BY EmptyQueue
    <2>2. PICK i \in 1..Len(q) : d[1].rpc = q[i]
      BY <1>2, <1>4 DEF Pending
    <2>3. q[1] \in Pending(q, r) /\ q[1] \in Int /\ q[i] \in Int
      BY <2>1, <2>2 DEF Pending
    <2>4. d[1].rpc = q[1]
      <3>1. d[1].rpc <= q[1]
        BY <1>2, <2>3
      <3>2. i = 1 \/ q[1] < q[i]
        <4>1. 1 \in 1..Len(q) /\ i \in Int /\ i >= 1
          BY <2>1, <2>2
        <4>2. i # 1 => 1 < i
          BY <4>1
        <4> QED BY <4>1, <4>2 DEF Ordered, MetasRise
      <3> QED BY <2>2, <2>3, <3>1, <3>2
    <2>5. <<>> \o q = q /\ q # <<>> /\ Head(q) = q[1]
      BY <2>1, <2>2
    <2> QED BY <1>1, <1>4, <2>4, <2>5
  <1> QED BY <1>3, <1>4

(* A lane never sees a beat of another RPC than the one it works on or     *)
(* takes next: no drop and no choice of a lane shifts the RPCs behind it.  *)
THEOREM LanesInStep == Spec => []LaneAligned
  <1>1. TypeOK /\ OrderInv /\ LaneOrder /\ [Next]_vars => LaneOrder'
    <2> SUFFICES ASSUME TypeOK, OrderInv, LaneOrder, [Next]_vars PROVE LaneOrder'
      OBVIOUS
    <2>1. CASE MetaIn
      <3>1. Taken' = Taken
        <4>1. meta_fifo \in Seq(1..MaxRpc) /\ arrived + 1 \in 1..MaxRpc /\ arrived \in Nat
          BY <2>1, SplitDeAssumption DEF TypeOK, QueuesOK, InputOK, MetaIn
        <4>2. Len(meta_fifo') = Len(meta_fifo) + 1 /\ Len(meta_fifo) \in Nat
          BY <2>1, <4>1, Push, EmptyQueue DEF MetaIn
        <4> QED BY <2>1, <4>1, <4>2 DEF Taken, MetaIn
      <3> QED BY <2>1, <3>1, QuietLanes DEF MetaIn, Due
    <2>2. CASE \E last \in BOOLEAN : DataIn(last)
      BY <2>2, QuietLanes DEF DataIn, Due, Taken
    <2>3. CASE Dispatcher
      <3>1. CASE SampleIdle \/ Choose \/ DropData
        <4>1. \/ UNCHANGED lane_vars /\ Taken' = Taken /\ state # "sSendData"
              \/ UNCHANGED <<lane_vars, state, lane>> /\ Taken' = Taken
          BY <3>1 DEF SampleIdle, Choose, DropData, in_vars, Taken
        <4>2. state' = "sSendData" => state = "sSendData"
          BY <3>1 DEF SampleIdle, Choose, DropData, DropNext
        <4> QED BY <4>1, <4>2, QuietLanes DEF Due
      <3> QED BY <2>3, <3>1, SendMetaLanes, SendDataLanes, DropMetaLanes DEF Dispatcher
    <2>4. CASE \E l \in Lanes : LaneStart(l) \/ LaneBeat(l)
      BY <2>4, LaneStepLanes
    <2>5. CASE UNCHANGED vars
      BY <2>5, QuietLanes DEF vars, in_vars, Due, Taken
    <2> QED BY <2>1, <2>2, <2>3, <2>4, <2>5 DEF Next
  <1>2. TypeOK /\ OrderInv /\ LaneOrder => LaneAligned
    <2> SUFFICES ASSUME TypeOK, OrderInv, LaneOrder PROVE LaneAligned
      OBVIOUS
    <2> SUFFICES ASSUME NEW l \in Lanes, lane_data[l] # <<>>
                 PROVE  LET metas == (IF lane_rpc[l] # 0 THEN <<lane_rpc[l]>> ELSE <<>>) \o lane_meta[l]
                        IN  metas # <<>> /\ Head(lane_data[l]).rpc = Head(metas)
      BY DEF LaneAligned
    <2>1. Due(l) \in 0..MaxRpc /\ Taken \in Nat
      BY LaneTypes, SplitDeAssumption DEF Due
    <2>2. /\ lane_meta[l] \in Seq(1..MaxRpc) /\ lane_data[l] \in Seq(BeatsOf)
          /\ lane_rpc[l] \in 0..MaxRpc
      BY LaneTypes
    <2>3. Ordered(lane_meta[l], lane_rpc[l], lane_data[l], Due(l), Taken)
      BY DEF LaneOrder
    <2> QED BY <2>1, <2>2, <2>3, OrderedAligned
  <1> QED BY <1>1, <1>2, InitLanes, SplitDeOrdered, SplitDeTypeCorrect, PTL DEF Spec

=============================================================================
