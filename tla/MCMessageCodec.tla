-------------------------- MODULE MCMessageCodec --------------------------
(* The codec on the classes the repository ships, and on a small program    *)
(* that uses every case of the switch statements.                           *)
EXTENDS MessageCodec

DS == INSTANCE DeathStarClasses
Micro == INSTANCE MicroClasses

(* Four classes with a member for every wire type, ids with gaps and on    *)
(* both sides of 16, and pointers first, in the middle and last.            *)
TypesClasses ==
    <<<<Ptr(2), i32, str, vi32, bit, f64, vstr, u64, enum, i32, Ptr(3)>>,
      <<vstr, str, vu8, vu64, f32, venum, i64, vi64>>,
      <<u32, i32, i64, vf32, Ptr(4), vu32, vu64, str>>,
      <<str>>>>
TypesRegistration ==
    <<<<4, <<sw_string_type>>, <<2>>>>,
      <<3, <<sw_uint32_type, sw_fix32_type, sw_fix64_type, sw_repeated_float_type,
             sw_ptr_type, sw_repeated_uint32_type, sw_repeated_fix64_type,
             sw_bytes_type>>, <<1, 2, 3, 5, 6, 15, 16, 17>>>>,
      <<2, <<sw_repeated_string_type, sw_bytes_type, sw_repeated_bool_type,
             sw_repeated_uint64_type, sw_float_type, sw_repeated_enum_type,
             sw_int64_type, sw_repeated_int64_type>>, <<1, 2, 4, 8, 16, 17, 30, 31>>>>,
      <<1, <<sw_ptr_type, sw_int32_type, sw_string_type, sw_repeated_int32_type,
             sw_bool_type, sw_double_type, sw_repeated_bytes_type, sw_uint64_type,
             sw_enum_type, sw_sint32_type, sw_ptr_type>>,
            <<1, 2, 3, 4, 6, 14, 15, 16, 17, 18, 40>>>>>>
EveryType == [types |-> BenchOf(TypesClasses,
                                [c \in DOMAIN TypesClasses |-> SizeOf(TypesClasses[c])],
                                TypesRegistration, <<1>>)]

MicroBenches == [int1 |-> Micro!Micro1Int, int2 |-> Micro!Micro2Int,
                 int4 |-> Micro!Micro4Int, int8 |-> Micro!Micro8Int,
                 int16 |-> Micro!Micro16Int, int32 |-> Micro!Micro32Int]

(* All programs, and what they are compiled for.                            *)
Programs == EveryType @@ MicroBenches
ProgramBuilds == {<<"types", "encode">>, <<"types", "no_encode">>}
                 \cup {<<b, "encode">> : b \in DOMAIN MicroBenches}
DeathStarBench == [deathstar |-> DS!Bench]
DeathStarBuilds == {<<"deathstar", "encode">>}

(* Integers on the boundaries of the encodings, as chunks: 0, 2^7, -2^31 as *)
(* an int32_t, 2^32 - 1 with more bits above it, -1.                        *)
Zero == <<0, 0, 0, 0, 0, 0, 0, 0, 0, 0>>
TwoBytes == <<0, 1, 0, 0, 0, 0, 0, 0, 0, 0>>
MinInt32 == <<0, 0, 0, 0, 8, 0, 0, 0, 0, 0>>
AcrossInt32 == <<127, 127, 127, 127, 15, 64, 0, 0, 0, 0>>
MinusOne == <<127, 127, 127, 127, 127, 127, 127, 127, 127, 1>>

Input(int, marked, shape) == [int |-> int, marked |-> marked, shape |-> shape]

(* Every integer with single and with several elements, and string lengths  *)
(* around the threshold, in both places of a vector.                        *)
ManyInputs ==
    {Input(i, m, <<1, 2, 3>>) : i \in {Zero, TwoBytes, MinInt32, AcrossInt32, MinusOne},
                                m \in {{}, {0, 1, 2}}}
    \cup {Input(MinInt32, m, s) : m \in {{}, {0}, {1, 2}, {0, 1, 2}},
            s \in {<<>>, <<1024>>, <<5, 1025>>, <<1025, 200>>}}
OneInput == {Input(MinusOne, {}, <<>>)}

ProgramInputs == [b \in DOMAIN Programs |-> IF b = "types" THEN ManyInputs ELSE OneInput]
DeathStarInputs == [b \in DOMAIN DeathStarBench |-> {Input(MinusOne, {0, 1}, <<1025, 5>>)}]
=============================================================================
