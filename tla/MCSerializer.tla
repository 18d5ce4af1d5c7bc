--------------------------- MODULE MCSerializer ---------------------------
(* Driver and card on the six benches of HyperProtoBench.                   *)
EXTENDS Serializer

B0 == INSTANCE Bench0Classes
B1 == INSTANCE Bench1Classes
B2 == INSTANCE Bench2Classes
B3 == INSTANCE Bench3Classes
B4 == INSTANCE Bench4Classes
B5 == INSTANCE Bench5Classes

HyperProtoBench == [bench0 |-> B0!Bench, bench1 |-> B1!Bench, bench2 |-> B2!Bench,
                    bench3 |-> B3!Bench, bench4 |-> B4!Bench, bench5 |-> B5!Bench]
(* All of them with varints; serialize_co.cpp, the driver of the card, is   *)
(* bench0 with fixed widths.                                                *)
HyperProtoBuilds == {<<b, "encode">> : b \in DOMAIN HyperProtoBench}
                    \cup {<<"bench0", "no_encode">>}

(* The largest integer, and members marked so that long strings come alone  *)
(* and first in a vector; the two largest benches with one marking.         *)
MinusOne == <<127, 127, 127, 127, 127, 127, 127, 127, 127, 1>>
HyperProtoInputs ==
    [b \in DOMAIN HyperProtoBench |->
        {[int |-> MinusOne, marked |-> m, shape |-> <<1025, 5>>] :
            m \in IF b \in {"bench2", "bench5"} THEN {{1, 2}} ELSE {{0}, {1, 2}}}]
=============================================================================
