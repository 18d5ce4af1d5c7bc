---------------------------- MODULE Bench3Classes ----------------------------
(* The message classes of HyperProtoBench bench3 (bench3_testclass.h):
   the data members of each generated class, in declaration order. *)
EXTENDS MessageTypes

M1 == <<str, bit, str, bit, str, i32, Ptr(2), i32, enum, str, i64, str>>
M2 == <<i32, str, i64, str, str, str, str>>
M3 == <<i64, bit, enum, str, str, Ptr(4), str, enum, i32, i32, Ptr(5), i64,
        i64, Ptr(6)>>
M4 == <<i32, u64>>
M5 == <<vi32, i32>>
M6 == <<bit, bit, i64, i32, u64>>
M7 == <<str, i32, Ptr(8)>>
M8 == <<i64, bit>>
M9 == <<i32, str, vi32, Ptr(10), i32, i64>>
M10 == <<bit, i32, i32>>
M11 == <<i32, i64, str, str, enum, str, enum, i32, i32, Ptr(12), u64,
         Ptr(13)>>
M12 == <<i32, bit, enum>>
M13 == <<u64, u64, str>>
M14 == <<Ptr(15), vi32, Ptr(16), str, i64>>
M15 == <<vu64>>
M16 == <<i32, f64>>
M17 == <<Ptr(18), vi32, i64, f64, str, i64, str, vi32, i64, str, i32, str>>
M18 == <<str, i64, i32, str, i64, i32, i32>>
M19 == <<i32, Ptr(20), i64, i64, u64, i64, str, Ptr(21)>>
M20 == <<i64, i64>>
M21 == <<i32, bit>>
M22 == <<i32, str, i64, Ptr(23), str, u64, Ptr(24), Ptr(25), i32, i32>>
M23 == <<i32, bit, u64>>
M24 == <<i64>>
M25 == <<i32>>
M26 == <<i32, f64, i32, i64, Ptr(27), str, Ptr(28), bit, Ptr(29), i32, i64,
         f64, Ptr(30), vi32>>
M27 == <<i64, i32>>
M28 == <<i64>>
M29 == <<i64, i32>>
M30 == <<i64>>

(* createMessage(class_id): the class it creates an object of. *)
createMessage == <<M1, M2, M3, M4, M5, M6, M7, M8, M9, M10, M11, M12, M13,
                   M14, M15, M16, M17, M18, M19, M20, M21, M22, M23, M24, M25,
                   M26, M27, M28, M29, M30>>

(* getMessageSize(class_id): sizeof of that class, 0 for any other id. *)
getMessageSize(id) == IF id \in DOMAIN createMessage
                      THEN SizeOf(createMessage[id]) ELSE 0

(* RegisterTestClass: per class, in the order of the source, the wire types
   and the field ids of its fields. *)
RegisterTestClass == <<
    <<2, <<sw_int32_type, sw_bytes_type, sw_fix64_type, sw_bytes_type,
           sw_bytes_type, sw_bytes_type, sw_bytes_type>>,
      <<3, 4, 5, 6, 7, 8, 11>>>>,
    <<1, <<sw_string_type, sw_bool_type, sw_bytes_type, sw_bool_type,
           sw_string_type, sw_int32_type, sw_ptr_type, sw_int32_type,
           sw_enum_type, sw_bytes_type, sw_int64_type, sw_bytes_type>>,
      <<4, 5, 6, 7, 8, 9, 11, 12, 13, 16, 18, 23>>>>,
    <<4, <<sw_int32_type, sw_uint64_type>>,
      <<1, 2>>>>,
    <<5, <<sw_repeated_int32_type, sw_int32_type>>,
      <<5, 6>>>>,
    <<6, <<sw_bool_type, sw_bool_type, sw_int64_type, sw_int32_type,
           sw_uint64_type>>,
      <<2, 3, 10, 12, 13>>>>,
    <<3, <<sw_fix64_type, sw_bool_type, sw_enum_type, sw_string_type,
           sw_string_type, sw_ptr_type, sw_string_type, sw_enum_type,
           sw_int32_type, sw_int32_type, sw_ptr_type, sw_int64_type,
           sw_fix64_type, sw_ptr_type>>,
      <<2, 3, 7, 8, 9, 11, 13, 14, 17, 18, 20, 22, 28, 30>>>>,
    <<8, <<sw_int64_type, sw_bool_type>>,
      <<1, 2>>>>,
    <<7, <<sw_bytes_type, sw_fix32_type, sw_ptr_type>>,
      <<1, 3, 4>>>>,
    <<10, <<sw_bool_type, sw_int32_type, sw_int32_type>>,
      <<1, 2, 3>>>>,
    <<9, <<sw_int32_type, sw_bytes_type, sw_repeated_int32_type, sw_ptr_type,
           sw_int32_type, sw_int64_type>>,
      <<1, 3, 4, 6, 9, 10>>>>,
    <<12, <<sw_int32_type, sw_bool_type, sw_enum_type>>,
      <<1, 5, 9>>>>,
    <<13, <<sw_uint64_type, sw_uint64_type, sw_bytes_type>>,
      <<2, 6, 8>>>>,
    <<11, <<sw_int32_type, sw_fix64_type, sw_string_type, sw_string_type,
           sw_enum_type, sw_bytes_type, sw_enum_type, sw_int32_type,
           sw_int32_type, sw_ptr_type, sw_uint64_type, sw_ptr_type>>,
      <<2, 3, 4, 5, 13, 14, 15, 16, 19, 20, 21, 24>>>>,
    <<15, <<sw_repeated_uint64_type>>,
      <<2>>>>,
    <<16, <<sw_int32_type, sw_double_type>>,
      <<6, 7>>>>,
    <<14, <<sw_ptr_type, sw_repeated_int32_type, sw_ptr_type, sw_bytes_type,
           sw_int64_type>>,
      <<1, 2, 4, 5, 7>>>>,
    <<18, <<sw_bytes_type, sw_int64_type, sw_int32_type, sw_bytes_type,
           sw_int64_type, sw_int32_type, sw_int32_type>>,
      <<1, 2, 3, 4, 5, 6, 7>>>>,
    <<17, <<sw_ptr_type, sw_repeated_int32_type, sw_int64_type,
           sw_double_type, sw_bytes_type, sw_int64_type, sw_bytes_type,
           sw_repeated_int32_type, sw_int64_type, sw_bytes_type,
           sw_int32_type, sw_string_type>>,
      <<1, 4, 6, 7, 10, 11, 12, 14, 16, 17, 18, 20>>>>,
    <<20, <<sw_int64_type, sw_fix64_type>>,
      <<3, 5>>>>,
    <<21, <<sw_int32_type, sw_bool_type>>,
      <<3, 4>>>>,
    <<19, <<sw_fix32_type, sw_ptr_type, sw_int64_type, sw_int64_type,
           sw_uint64_type, sw_int64_type, sw_string_type, sw_ptr_type>>,
      <<1, 2, 6, 7, 8, 9, 12, 13>>>>,
    <<23, <<sw_int32_type, sw_bool_type, sw_uint64_type>>,
      <<1, 3, 5>>>>,
    <<24, <<sw_fix64_type>>,
      <<1>>>>,
    <<25, <<sw_int32_type>>,
      <<1>>>>,
    <<22, <<sw_int32_type, sw_bytes_type, sw_int64_type, sw_ptr_type,
           sw_string_type, sw_uint64_type, sw_ptr_type, sw_ptr_type,
           sw_int32_type, sw_int32_type>>,
      <<3, 4, 5, 8, 10, 11, 12, 19, 20, 21>>>>,
    <<27, <<sw_int64_type, sw_int32_type>>,
      <<5, 6>>>>,
    <<28, <<sw_fix64_type>>,
      <<2>>>>,
    <<29, <<sw_int64_type, sw_int32_type>>,
      <<1, 3>>>>,
    <<30, <<sw_int64_type>>,
      <<4>>>>,
    <<26, <<sw_int32_type, sw_double_type, sw_int32_type, sw_int64_type,
           sw_ptr_type, sw_string_type, sw_ptr_type, sw_bool_type,
           sw_ptr_type, sw_int32_type, sw_int64_type, sw_double_type,
           sw_ptr_type, sw_repeated_int32_type>>,
      <<1, 5, 6, 7, 11, 12, 13, 14, 15, 16, 17, 18, 19, 20>>>>>>

(* BenchmarkInit: the top-level messages, in the order of the index. *)
messages == <<1, 3, 7, 9, 11, 14, 17, 19, 22, 26>>

Bench == BenchOf(createMessage, [c \in DOMAIN createMessage |-> getMessageSize(c)],
                 RegisterTestClass, messages)
=============================================================================
