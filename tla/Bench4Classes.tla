---------------------------- MODULE Bench4Classes ----------------------------
(* The message classes of HyperProtoBench bench4 (bench4_testclass.h):
   the data members of each generated class, in declaration order. *)
EXTENDS MessageTypes

M1 == <<str, str, i32, i32, Ptr(2), i32, i32, str, i32, Ptr(5), str>>
M2 == <<enum, i32, i32, f64, str, i64, Ptr(3), str>>
M3 == <<Ptr(4), i64, bit, i32, enum, bit, bit, bit, bit>>
M4 == <<str, str, u64, i64, str>>
M5 == <<str>>
M6 == <<bit, i32, bit, i64, str, u64, u64, str, Ptr(7), i64, i32>>
M7 == <<Ptr(8), i32, f64, i64, u64, enum, bit, Ptr(10)>>
M8 == <<str, Ptr(9)>>
M9 == <<str, str>>
M10 == <<i64, str, i64>>
M11 == <<Ptr(12), str, str, Ptr(16), i32, i32, str, i64, bit, bit, i32, i64,
         i64>>
M12 == <<str, str, i32, Ptr(13), Ptr(15)>>
M13 == <<bit, Ptr(14)>>
M14 == <<i64, bit, i64, i32, enum>>
M15 == <<str, str, i64>>
M16 == <<bit>>
M17 == <<Ptr(18), str, i64, str, i64>>
M18 == <<f64, Ptr(19), str>>
M19 == <<i32, Ptr(20), str, i32>>
M20 == <<u64>>
M21 == <<i64, u64, str, Ptr(22), bit, str, u64>>
M22 == <<bit, Ptr(23), u64, f64>>
M23 == <<i32, Ptr(24), i32, bit, str, i32>>
M24 == <<i32, i32, i64, i32>>
M25 == <<str, Ptr(26), i64, u64, Ptr(29), i32, i32, u64, f64>>
M26 == <<str, Ptr(27)>>
M27 == <<i64, str, i32, enum, Ptr(28)>>
M28 == <<str, str, bit>>
M29 == <<str>>
M30 == <<i32, str, bit, str, i64, str, str, i32, str, str, Ptr(31), i64>>
M31 == <<str, i32, f64, str, Ptr(32), bit, i64, i32, i32>>
M32 == <<u64, Ptr(33), enum, i64, bit, i64, Ptr(34), i32>>
M33 == <<i32, str, str, str>>
M34 == <<i64>>
M35 == <<str, i32, i32, Ptr(36), f64>>
M36 == <<str, i32, Ptr(37)>>
M37 == <<bit, i32, Ptr(38)>>
M38 == <<str, u64>>
M39 == <<i64, str, bit, enum, i64, str, str, str, Ptr(40), f64>>
M40 == <<Ptr(41), i32, bit>>
M41 == <<i32, i64, i32, bit, str, str, Ptr(42), bit, i32>>
M42 == <<i32, bit, i32>>
M43 == <<str, f64, enum, Ptr(44), i64>>
M44 == <<i32, i32, str, Ptr(45)>>
M45 == <<bit, Ptr(46)>>
M46 == <<bit, str, i32>>

(* createMessage(class_id): the class it creates an object of. *)
createMessage == <<M1, M2, M3, M4, M5, M6, M7, M8, M9, M10, M11, M12, M13,
                   M14, M15, M16, M17, M18, M19, M20, M21, M22, M23, M24, M25,
                   M26, M27, M28, M29, M30, M31, M32, M33, M34, M35, M36, M37,
                   M38, M39, M40, M41, M42, M43, M44, M45, M46>>

(* getMessageSize(class_id): sizeof of that class, 0 for any other id. *)
getMessageSize(id) == IF id \in DOMAIN createMessage
                      THEN SizeOf(createMessage[id]) ELSE 0

(* RegisterTestClass: per class, in the order of the source, the wire types
   and the field ids of its fields. *)
RegisterTestClass == <<
    <<4, <<sw_string_type, sw_string_type, sw_uint64_type, sw_fix64_type,
           sw_string_type>>,
      <<2, 3, 5, 6, 7>>>>,
    <<3, <<sw_ptr_type, sw_int64_type, sw_bool_type, sw_int32_type,
           sw_enum_type, sw_bool_type, sw_bool_type, sw_bool_type,
           sw_bool_type>>,
      <<2, 3, 5, 7, 8, 9, 10, 13, 14>>>>,
    <<2, <<sw_enum_type, sw_int32_type, sw_int32_type, sw_double_type,
           sw_string_type, sw_int64_type, sw_ptr_type, sw_string_type>>,
      <<1, 2, 3, 5, 6, 7, 8, 9>>>>,
    <<5, <<sw_string_type>>,
      <<1>>>>,
    <<1, <<sw_string_type, sw_string_type, sw_int32_type, sw_int32_type,
           sw_ptr_type, sw_int32_type, sw_int32_type, sw_string_type,
           sw_int32_type, sw_ptr_type, sw_string_type>>,
      <<3, 4, 5, 6, 7, 8, 12, 13, 17, 18, 20>>>>,
    <<9, <<sw_string_type, sw_bytes_type>>,
      <<1, 2>>>>,
    <<8, <<sw_string_type, sw_ptr_type>>,
      <<1, 2>>>>,
    <<10, <<sw_int64_type, sw_string_type, sw_fix64_type>>,
      <<1, 2, 3>>>>,
    <<7, <<sw_ptr_type, sw_int32_type, sw_double_type, sw_int64_type,
           sw_uint64_type, sw_enum_type, sw_bool_type, sw_ptr_type>>,
      <<1, 2, 3, 4, 6, 7, 9, 10>>>>,
    <<6, <<sw_bool_type, sw_int32_type, sw_bool_type, sw_fix64_type,
           sw_string_type, sw_uint64_type, sw_uint64_type, sw_bytes_type,
           sw_ptr_type, sw_fix64_type, sw_int32_type>>,
      <<1, 9, 11, 12, 13, 14, 15, 16, 17, 19, 20>>>>,
    <<14, <<sw_int64_type, sw_bool_type, sw_fix64_type, sw_fix32_type,
           sw_enum_type>>,
      <<2, 3, 4, 5, 7>>>>,
    <<13, <<sw_bool_type, sw_ptr_type>>,
      <<1, 2>>>>,
    <<15, <<sw_string_type, sw_string_type, sw_int64_type>>,
      <<2, 5, 6>>>>,
    <<12, <<sw_bytes_type, sw_string_type, sw_int32_type, sw_ptr_type,
           sw_ptr_type>>,
      <<1, 2, 4, 6, 7>>>>,
    <<16, <<sw_bool_type>>,
      <<1>>>>,
    <<11, <<sw_ptr_type, sw_string_type, sw_string_type, sw_ptr_type,
           sw_int32_type, sw_int32_type, sw_string_type, sw_fix64_type,
           sw_bool_type, sw_bool_type, sw_int32_type, sw_int64_type,
           sw_fix64_type>>,
      <<1, 2, 3, 4, 5, 6, 7, 8, 10, 11, 12, 13, 14>>>>,
    <<20, <<sw_uint64_type>>,
      <<9>>>>,
    <<19, <<sw_int32_type, sw_ptr_type, sw_string_type, sw_int32_type>>,
      <<1, 2, 3, 4>>>>,
    <<18, <<sw_double_type, sw_ptr_type, sw_string_type>>,
      <<1, 2, 3>>>>,
    <<17, <<sw_ptr_type, sw_string_type, sw_int64_type, sw_string_type,
           sw_fix64_type>>,
      <<1, 2, 5, 6, 7>>>>,
    <<24, <<sw_fix32_type, sw_int32_type, sw_int64_type, sw_int32_type>>,
      <<1, 4, 6, 7>>>>,
    <<23, <<sw_int32_type, sw_ptr_type, sw_int32_type, sw_bool_type,
           sw_string_type, sw_fix32_type>>,
      <<3, 5, 6, 8, 9, 10>>>>,
    <<22, <<sw_bool_type, sw_ptr_type, sw_uint64_type, sw_double_type>>,
      <<2, 5, 6, 8>>>>,
    <<21, <<sw_int64_type, sw_uint64_type, sw_string_type, sw_ptr_type,
           sw_bool_type, sw_bytes_type, sw_uint64_type>>,
      <<1, 3, 4, 6, 7, 8, 9>>>>,
    <<28, <<sw_string_type, sw_string_type, sw_bool_type>>,
      <<1, 4, 5>>>>,
    <<27, <<sw_int64_type, sw_string_type, sw_int32_type, sw_enum_type,
           sw_ptr_type>>,
      <<1, 2, 5, 7, 8>>>>,
    <<26, <<sw_string_type, sw_ptr_type>>,
      <<1, 4>>>>,
    <<29, <<sw_string_type>>,
      <<1>>>>,
    <<25, <<sw_bytes_type, sw_ptr_type, sw_fix64_type, sw_uint64_type,
           sw_ptr_type, sw_int32_type, sw_int32_type, sw_uint64_type,
           sw_double_type>>,
      <<2, 3, 4, 7, 8, 9, 10, 11, 12>>>>,
    <<33, <<sw_int32_type, sw_string_type, sw_bytes_type, sw_string_type>>,
      <<1, 4, 6, 7>>>>,
    <<34, <<sw_int64_type>>,
      <<1>>>>,
    <<32, <<sw_uint64_type, sw_ptr_type, sw_enum_type, sw_fix64_type,
           sw_bool_type, sw_int64_type, sw_ptr_type, sw_int32_type>>,
      <<1, 2, 4, 5, 6, 7, 8, 9>>>>,
    <<31, <<sw_string_type, sw_int32_type, sw_double_type, sw_string_type,
           sw_ptr_type, sw_bool_type, sw_fix64_type, sw_int32_type,
           sw_fix32_type>>,
      <<6, 7, 11, 12, 13, 14, 15, 16, 17>>>>,
    <<30, <<sw_int32_type, sw_string_type, sw_bool_type, sw_string_type,
           sw_fix64_type, sw_string_type, sw_string_type, sw_fix32_type,
           sw_string_type, sw_string_type, sw_ptr_type, sw_fix64_type>>,
      <<1, 2, 3, 4, 5, 9, 10, 11, 12, 14, 15, 16>>>>,
    <<38, <<sw_bytes_type, sw_uint64_type>>,
      <<2, 4>>>>,
    <<37, <<sw_bool_type, sw_int32_type, sw_ptr_type>>,
      <<1, 2, 7>>>>,
    <<36, <<sw_bytes_type, sw_int32_type, sw_ptr_type>>,
      <<5, 6, 7>>>>,
    <<35, <<sw_string_type, sw_int32_type, sw_int32_type, sw_ptr_type,
           sw_double_type>>,
      <<2, 3, 5, 6, 11>>>>,
    <<42, <<sw_int32_type, sw_bool_type, sw_int32_type>>,
      <<2, 4, 5>>>>,
    <<41, <<sw_int32_type, sw_fix64_type, sw_fix32_type, sw_bool_type,
           sw_string_type, sw_string_type, sw_ptr_type, sw_bool_type,
           sw_int32_type>>,
      <<2, 5, 7, 8, 10, 11, 13, 14, 15>>>>,
    <<40, <<sw_ptr_type, sw_int32_type, sw_bool_type>>,
      <<1, 3, 4>>>>,
    <<39, <<sw_int64_type, sw_string_type, sw_bool_type, sw_enum_type,
           sw_int64_type, sw_string_type, sw_string_type, sw_bytes_type,
           sw_ptr_type, sw_double_type>>,
      <<1, 2, 3, 4, 5, 6, 8, 9, 10, 11>>>>,
    <<46, <<sw_bool_type, sw_string_type, sw_int32_type>>,
      <<3, 4, 12>>>>,
    <<45, <<sw_bool_type, sw_ptr_type>>,
      <<1, 3>>>>,
    <<44, <<sw_int32_type, sw_int32_type, sw_string_type, sw_ptr_type>>,
      <<1, 2, 3, 4>>>>,
    <<43, <<sw_bytes_type, sw_double_type, sw_enum_type, sw_ptr_type,
           sw_fix64_type>>,
      <<1, 2, 6, 7, 10>>>>>>

(* BenchmarkInit: the top-level messages, in the order of the index. *)
messages == <<1, 6, 11, 17, 21, 25, 30, 35, 39, 43>>

Bench == BenchOf(createMessage, [c \in DOMAIN createMessage |-> getMessageSize(c)],
                 RegisterTestClass, messages)
=============================================================================
