---------------------------- MODULE MessageTypes ----------------------------
(***************************************************************************)
(* The vocabulary of the generated message classes: the C++ type of a      *)
(* data member, the wire-type codes of config.h, and what the walks of     *)
(* encode_main.h know about each code.                                     *)
(***************************************************************************)
EXTENDS Integers, Sequences, TLC

-----------------------------------------------------------------------------
(* Member types.  A member is a record: its C++ type, and the class a       *)
(* pointer points to (0 for anything else).                                 *)

Member(t, sub) == [t |-> t, sub |-> sub]

i32 == Member("int32_t", 0)
i64 == Member("int64_t", 0)
u32 == Member("uint32_t", 0)
u64 == Member("uint64_t", 0)
bit == Member("bool", 0)
f32 == Member("float", 0)
f64 == Member("double", 0)
enum == Member("enum", 0)
str == Member("string", 0)
Ptr(c) == Member("ptr", c)

(* std::vector members.                                                     *)
vi32 == Member("vector<int32_t>", 0)
vi64 == Member("vector<int64_t>", 0)
vu32 == Member("vector<uint32_t>", 0)
vu64 == Member("vector<uint64_t>", 0)
vu8 == Member("vector<uint8_t>", 0)
vf32 == Member("vector<float>", 0)
venum == Member("vector<enum>", 0)
vstr == Member("vector<string>", 0)

VectorTypes == {"vector<int32_t>", "vector<int64_t>", "vector<uint32_t>",
                "vector<uint64_t>", "vector<uint8_t>", "vector<float>",
                "vector<enum>", "vector<string>"}

(* Bytes a member takes: every member is alignas(8), so a scalar or a       *)
(* pointer takes 8, a vector 24 and a string 32.                            *)
MemberBytes(m) == IF m.t \in VectorTypes THEN 24
                  ELSE IF m.t = "string" THEN 32 ELSE 8

(* The offsets of the members: after the pointer to the virtual function    *)
(* table and metadata_ptr of M_base they come in order; the last element is *)
(* sizeof(M).                                                               *)
Offsets(class) ==
    LET at[k \in 0..Len(class)] ==
            IF k = 0 THEN <<16>>
            ELSE LET before == at[k-1]
                 IN  Append(before, before[k] + MemberBytes(class[k]))
    IN  at[Len(class)]

SizeOf(class) == Offsets(class)[Len(class) + 1]

-----------------------------------------------------------------------------
(* Wire types of the software (config.h).                                   *)

sw_int32_type == 1
sw_int64_type == 2
sw_fix32_type == 3
sw_fix64_type == 4
sw_float_type == 5
sw_double_type == 6
sw_bool_type == 7
sw_enum_type == 8
sw_string_type == 9
sw_bytes_type == 10
sw_ptr_type == 11
sw_uint32_type == 14
sw_uint64_type == 15
sw_sint32_type == 16
sw_repeated_int32_type == 20
sw_repeated_int64_type == 21
sw_repeated_fix64_type == 23
sw_repeated_float_type == 24
sw_repeated_bool_type == 26
sw_repeated_enum_type == 27
sw_repeated_string_type == 28
sw_repeated_bytes_type == 29
sw_repeated_uint32_type == 33
sw_repeated_uint64_type == 34

(* What the cases of the switch statements have in common.  t: the C++      *)
(* types the cast of the case fits; enc: how one value is written; rep: a   *)
(* vector; fpga: the FPGA_TYPE_ code of the case.                           *)
Wire(t, enc, rep, fpga) == [t |-> t, enc |-> enc, rep |-> rep, fpga |-> fpga]

WireInfo ==
    (sw_int32_type :> Wire({"int32_t"}, "int32", FALSE, 5)) @@
    (sw_int64_type :> Wire({"int64_t"}, "uint64", FALSE, 3)) @@
    (sw_uint32_type :> Wire({"uint32_t"}, "uint32", FALSE, 13)) @@
    (sw_uint64_type :> Wire({"uint64_t"}, "uint64", FALSE, 4)) @@
    (sw_sint32_type :> Wire({"int32_t"}, "int32", FALSE, 17)) @@
    (sw_enum_type :> Wire({"enum"}, "int32", FALSE, 14)) @@
    (sw_bool_type :> Wire({"bool"}, "bool", FALSE, 8)) @@
    (sw_fix32_type :> Wire({"int32_t", "uint32_t"}, "fix32", FALSE, 15)) @@
    (sw_fix64_type :> Wire({"int64_t", "uint64_t"}, "fix64", FALSE, 16)) @@
    (sw_float_type :> Wire({"float"}, "fix32", FALSE, 2)) @@
    (sw_double_type :> Wire({"double"}, "fix64", FALSE, 1)) @@
    (sw_string_type :> Wire({"string"}, "string", FALSE, 9)) @@
    (sw_bytes_type :> Wire({"string"}, "string", FALSE, 12)) @@
    (sw_ptr_type :> Wire({"ptr"}, "ptr", FALSE, 11)) @@
    (sw_repeated_int32_type :> Wire({"vector<int32_t>"}, "int32", TRUE, 5)) @@
    (sw_repeated_int64_type :> Wire({"vector<int64_t>"}, "uint64", TRUE, 3)) @@
    (sw_repeated_uint32_type :> Wire({"vector<uint32_t>"}, "uint32", TRUE, 13)) @@
    (sw_repeated_uint64_type :> Wire({"vector<uint64_t>"}, "uint64", TRUE, 4)) @@
    (sw_repeated_enum_type :> Wire({"vector<enum>"}, "int32", TRUE, 14)) @@
    (sw_repeated_bool_type :> Wire({"vector<uint8_t>"}, "bool", TRUE, 8)) @@
    (sw_repeated_fix64_type :> Wire({"vector<uint64_t>"}, "fix64", TRUE, 16)) @@
    (sw_repeated_float_type :> Wire({"vector<float>"}, "fix32", TRUE, 2)) @@
    (sw_repeated_string_type :> Wire({"vector<string>"}, "string", TRUE, 9)) @@
    (sw_repeated_bytes_type :> Wire({"vector<string>"}, "string", TRUE, 12))

WireTypes == DOMAIN WireInfo

(* How far a case moves obj_addr: "obj_addr -= 8 / 24 / 32" of the backward *)
(* walks, "ptr_to_... + n" of ByteSizeLong.                                 *)
Step(wt) == IF WireInfo[wt].rep THEN 24
            ELSE IF WireInfo[wt].enc = "string" THEN 32 ELSE 8

(* A registration of every class of a header, derived from the members: the *)
(* wire type that fits the C++ type, the position as the field id.          *)
DeclaredType(m) ==
    CASE m.t = "int32_t" -> sw_int32_type    [] m.t = "int64_t" -> sw_int64_type
      [] m.t = "uint32_t" -> sw_uint32_type  [] m.t = "uint64_t" -> sw_uint64_type
      [] m.t = "bool" -> sw_bool_type        [] m.t = "float" -> sw_float_type
      [] m.t = "double" -> sw_double_type    [] m.t = "enum" -> sw_enum_type
      [] m.t = "string" -> sw_string_type    [] m.t = "ptr" -> sw_ptr_type
      [] m.t = "vector<int32_t>" -> sw_repeated_int32_type
      [] m.t = "vector<int64_t>" -> sw_repeated_int64_type
      [] m.t = "vector<uint32_t>" -> sw_repeated_uint32_type
      [] m.t = "vector<uint64_t>" -> sw_repeated_uint64_type
      [] m.t = "vector<uint8_t>" -> sw_repeated_bool_type
      [] m.t = "vector<float>" -> sw_repeated_float_type
      [] m.t = "vector<enum>" -> sw_repeated_enum_type
      [] m.t = "vector<string>" -> sw_repeated_string_type

DeclaredRegistration(classes) ==
    [c \in DOMAIN classes |->
        <<c, [i \in DOMAIN classes[c] |-> DeclaredType(classes[c][i])],
             [i \in DOMAIN classes[c] |-> i]>>]

(* What a driver compiled for one bench has: the classes, sizeof and the    *)
(* member offsets of each, the registration and the top-level messages.     *)
BenchOf(class, size, reg, top) ==
    [class |-> class, size |-> size,
     offset |-> [c \in DOMAIN class |-> Offsets(class[c])],
     reg |-> reg, messages |-> top]
=============================================================================
