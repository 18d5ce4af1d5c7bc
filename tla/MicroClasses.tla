---------------------------- MODULE MicroClasses ----------------------------
(* The classes of the micro benchmarks 1int to 32int: five chains            *)
(* M1, M2-M3, M4-M7, M8-M15, M16-M31, each class with `ints' int64 members   *)
(* and, unless it ends its chain, a pointer to the next class.               *)
EXTENDS MessageTypes

EndOfChain == {1, 3, 7, 15, 31}

MicroClass(ints, c) == [i \in 1..ints |-> i64]
                       \o IF c \in EndOfChain THEN <<>> ELSE <<Ptr(c + 1)>>

(* RegisterTestClass registers a chain from its innermost class outwards.    *)
MicroRegister(ints, c) ==
    LET n == Len(MicroClass(ints, c))
    IN  <<c, [i \in 1..n |-> IF i > ints THEN sw_ptr_type ELSE sw_int64_type],
             [i \in 1..n |-> i]>>

MicroOrder == <<1, 3, 2, 7, 6, 5, 4, 15, 14, 13, 12, 11, 10, 9, 8,
                31, 30, 29, 28, 27, 26, 25, 24, 23, 22, 21, 20, 19, 18, 17, 16>>

MicroBench(ints) ==
    LET class == [c \in 1..31 |-> MicroClass(ints, c)]
    IN  BenchOf(class, [c \in 1..31 |-> SizeOf(class[c])],
                [i \in 1..31 |-> MicroRegister(ints, MicroOrder[i])],
                <<1, 2, 4, 8, 16>>)

Micro1Int == MicroBench(1)
Micro2Int == MicroBench(2)
Micro4Int == MicroBench(4)
Micro8Int == MicroBench(8)
Micro16Int == MicroBench(16)
Micro32Int == MicroBench(32)
=============================================================================
