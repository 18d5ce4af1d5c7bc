---------------------------- MODULE Bench1Classes ----------------------------
(* The message classes of HyperProtoBench bench1 (bench1_testclass.h):
   the data members of each generated class, in declaration order. *)
EXTENDS MessageTypes

M1 == <<str, Ptr(2), str, f32, f32, u32, i64, i32, i64, bit, i64>>
M2 == <<str, str, str>>
M3 == <<u32, i32, str, f32, f32, str, str, enum, Ptr(4), f32, str>>
M4 == <<f32, i32>>
M5 == <<i64, i32, f32, i32, bit, i64, i32, i64, i64, f32, bit, Ptr(6), i32,
        Ptr(7)>>
M6 == <<i32>>
M7 == <<Ptr(8), str>>
M8 == <<bit>>
M9 == <<vu32, Ptr(10), str, f32, Ptr(12), i32, str, i32, f32, bit, f32, i64,
        f32, i64>>
M10 == <<Ptr(11), u64>>
M11 == <<i32, f32, f32, i32, i32, f32, bit>>
M12 == <<vi32, vi32, str, i32, f32, i32, bit>>
M13 == <<f32, Ptr(14), i32, str, str, str, bit, i64, i32>>
M14 == <<i32>>
M15 == <<i32, Ptr(16), i32, i32, u32>>
M16 == <<i32>>
M17 == <<u64, f32, enum, vstr, str, bit, str, Ptr(18)>>
M18 == <<i32, i32, i32, i32, enum>>
M19 == <<i32, bit, str, bit, i32, Ptr(20), i32, u64, i64, Ptr(21), f32, f32,
         str, i32>>
M20 == <<str>>
M21 == <<Ptr(22), i64, str>>
M22 == <<str, i32, i64, i32, u32, bit, str, i64>>
M23 == <<Ptr(24), f64, str, bit, i64, str, i32, i32, f32, i32>>
M24 == <<f32, u64, u64, i32, f32>>
M25 == <<i32, i32, str, i32, i32, i32, str, i32, i32, f64, bit, Ptr(26)>>
M26 == <<i32, f32>>

(* createMessage(class_id): the class it creates an object of. *)
createMessage == <<M1, M2, M3, M4, M5, M6, M7, M8, M9, M10, M11, M12, M13,
                   M14, M15, M16, M17, M18, M19, M20, M21, M22, M23, M24, M25,
                   M26>>

(* getMessageSize(class_id): sizeof of that class, 0 for any other id. *)
getMessageSize(id) == IF id \in DOMAIN createMessage
                      THEN SizeOf(createMessage[id]) ELSE 0

(* RegisterTestClass: per class, in the order of the source, the wire types
   and the field ids of its fields. *)
RegisterTestClass == <<
    <<2, <<sw_string_type, sw_string_type, sw_string_type>>,
      <<2, 3, 6>>>>,
    <<1, <<sw_bytes_type, sw_ptr_type, sw_bytes_type, sw_float_type,
           sw_float_type, sw_uint32_type, sw_int64_type, sw_int32_type,
           sw_int64_type, sw_bool_type, sw_int64_type>>,
      <<3, 4, 5, 8, 9, 10, 13, 14, 15, 16, 17>>>>,
    <<4, <<sw_float_type, sw_int32_type>>,
      <<1, 2>>>>,
    <<3, <<sw_uint32_type, sw_int32_type, sw_string_type, sw_float_type,
           sw_float_type, sw_string_type, sw_string_type, sw_enum_type,
           sw_ptr_type, sw_float_type, sw_string_type>>,
      <<1, 2, 3, 4, 5, 6, 7, 11, 12, 14, 20>>>>,
    <<6, <<sw_int32_type>>,
      <<1>>>>,
    <<8, <<sw_bool_type>>,
      <<1>>>>,
    <<7, <<sw_ptr_type, sw_bytes_type>>,
      <<1, 2>>>>,
    <<5, <<sw_int64_type, sw_int32_type, sw_float_type, sw_int32_type,
           sw_bool_type, sw_fix64_type, sw_int32_type, sw_int64_type,
           sw_int64_type, sw_float_type, sw_bool_type, sw_ptr_type,
           sw_int32_type, sw_ptr_type>>,
      <<1, 5, 6, 7, 8, 11, 13, 14, 15, 17, 18, 19, 20, 21>>>>,
    <<11, <<sw_fix32_type, sw_float_type, sw_float_type, sw_int32_type,
           sw_int32_type, sw_float_type, sw_bool_type>>,
      <<1, 2, 3, 4, 6, 7, 9>>>>,
    <<10, <<sw_ptr_type, sw_uint64_type>>,
      <<5, 6>>>>,
    <<12, <<sw_repeated_int32_type, sw_repeated_int32_type, sw_string_type,
           sw_int32_type, sw_float_type, sw_int32_type, sw_bool_type>>,
      <<2, 7, 8, 9, 14, 15, 16>>>>,
    <<9, <<sw_repeated_uint32_type, sw_ptr_type, sw_bytes_type, sw_float_type,
           sw_ptr_type, sw_int32_type, sw_bytes_type, sw_int32_type,
           sw_float_type, sw_bool_type, sw_float_type, sw_int64_type,
           sw_float_type, sw_int64_type>>,
      <<1, 2, 3, 5, 6, 7, 8, 9, 11, 12, 14, 17, 19, 20>>>>,
    <<14, <<sw_int32_type>>,
      <<1>>>>,
    <<13, <<sw_float_type, sw_ptr_type, sw_int32_type, sw_bytes_type,
           sw_bytes_type, sw_string_type, sw_bool_type, sw_fix64_type,
           sw_int32_type>>,
      <<2, 4, 6, 7, 9, 10, 11, 12, 14>>>>,
    <<16, <<sw_int32_type>>,
      <<1>>>>,
    <<15, <<sw_int32_type, sw_ptr_type, sw_int32_type, sw_int32_type,
           sw_uint32_type>>,
      <<1, 2, 3, 4, 8>>>>,
    <<18, <<sw_int32_type, sw_fix32_type, sw_int32_type, sw_int32_type,
           sw_enum_type>>,
      <<2, 3, 4, 7, 8>>>>,
    <<17, <<sw_uint64_type, sw_float_type, sw_enum_type,
           sw_repeated_string_type, sw_string_type, sw_bool_type,
           sw_bytes_type, sw_ptr_type>>,
      <<1, 2, 3, 4, 7, 8, 16, 20>>>>,
    <<20, <<sw_string_type>>,
      <<1>>>>,
    <<22, <<sw_string_type, sw_int32_type, sw_fix64_type, sw_int32_type,
           sw_uint32_type, sw_bool_type, sw_string_type, sw_fix64_type>>,
      <<1, 4, 5, 6, 7, 10, 11, 12>>>>,
    <<21, <<sw_ptr_type, sw_fix64_type, sw_string_type>>,
      <<4, 5, 9>>>>,
    <<19, <<sw_int32_type, sw_bool_type, sw_string_type, sw_bool_type,
           sw_int32_type, sw_ptr_type, sw_int32_type, sw_uint64_type,
           sw_fix64_type, sw_ptr_type, sw_float_type, sw_float_type,
           sw_string_type, sw_int32_type>>,
      <<5, 6, 8, 11, 13, 15, 16, 17, 20, 21, 22, 23, 24, 26>>>>,
    <<24, <<sw_float_type, sw_uint64_type, sw_uint64_type, sw_int32_type,
           sw_float_type>>,
      <<1, 2, 3, 4, 5>>>>,
    <<23, <<sw_ptr_type, sw_double_type, sw_string_type, sw_bool_type,
           sw_int64_type, sw_string_type, sw_int32_type, sw_int32_type,
           sw_float_type, sw_int32_type>>,
      <<1, 2, 3, 5, 13, 14, 18, 22, 23, 29>>>>,
    <<26, <<sw_int32_type, sw_float_type>>,
      <<1, 2>>>>,
    <<25, <<sw_int32_type, sw_int32_type, sw_bytes_type, sw_int32_type,
           sw_int32_type, sw_int32_type, sw_string_type, sw_int32_type,
           sw_fix32_type, sw_double_type, sw_bool_type, sw_ptr_type>>,
      <<1, 2, 3, 8, 9, 10, 11, 14, 15, 16, 17, 25>>>>>>

(* BenchmarkInit: the top-level messages, in the order of the index. *)
messages == <<1, 3, 5, 9, 13, 15, 17, 19, 23, 25>>

Bench == BenchOf(createMessage, [c \in DOMAIN createMessage |-> getMessageSize(c)],
                 RegisterTestClass, messages)
=============================================================================
