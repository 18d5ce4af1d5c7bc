---------------------------- MODULE Bench0Classes ----------------------------
(* The message classes of HyperProtoBench bench0 (bench0_testclass.h):
   the data members of each generated class, in declaration order. *)
EXTENDS MessageTypes

M1 == <<Ptr(2), enum, i64, i32, i64, Ptr(3), i64, i64, i32, bit, i64, enum,
        Ptr(4), u64, f64, Ptr(7), Ptr(8)>>
M2 == <<i64, str, i64, i64, str, str, str, i64, str, i64>>
M3 == <<i64>>
M4 == <<Ptr(5), Ptr(6), i64>>
M5 == <<i64>>
M6 == <<i64>>
M7 == <<str, str, bit, bit>>
M8 == <<str, Ptr(9), bit, u64>>
M9 == <<i64, bit, vstr, str>>
M10 == <<i32, Ptr(11), Ptr(13), i64, Ptr(14), str, u64, i64, i32, i64>>
M11 == <<Ptr(12), str>>
M12 == <<i32, i32>>
M13 == <<str, i64, i32, i32, bit>>
M14 == <<i64, f64, bit, i64>>
M15 == <<str, i32, str, bit, str, i64, bit, str, Ptr(16), Ptr(17), str,
         Ptr(20), bit>>
M16 == <<i32, str, vstr, str, i64, str, i64>>
M17 == <<Ptr(18), Ptr(19), i64>>
M18 == <<str>>
M19 == <<i64>>
M20 == <<i64, i64>>
M21 == <<i64, i64, i64, str, Ptr(22), i64, Ptr(23), str, enum, i64, i64, i32,
         vstr, str>>
M22 == <<i64, i64, i32, i64, i64, i32, i64, vstr, str, str, i64, str>>
M23 == <<i64, Ptr(24)>>
M24 == <<str, str, bit, str, str, u64, i64, i64, str, i64, i64, u64>>
M25 == <<i32, i64, i64, f64, str, Ptr(26), bit, str, str, str, bit, Ptr(28),
         enum>>
M26 == <<i64, enum, Ptr(27)>>
M27 == <<str>>
M28 == <<str, Ptr(29), i64, i64, i64, str, enum, i32, str, bit>>
M29 == <<i64, i64, i64, bit, bit, i64, i64, bit>>
M30 == <<Ptr(31), Ptr(32), Ptr(34), bit, i64, bit, vstr, i64, str, i64, i64,
         str, str, Ptr(35)>>
M31 == <<i64>>
M32 == <<Ptr(33), u64>>
M33 == <<i64, i64, i64, i32, str>>
M34 == <<i64>>
M35 == <<str, str, i32, vstr, str, str, str, str, str>>
M36 == <<i64, Ptr(37), str, i32, i64, bit, i64, Ptr(40), f64, bit, f64, i64,
         Ptr(41), i64, u64>>
M37 == <<i64, Ptr(38), Ptr(39)>>
M38 == <<bit, i64>>
M39 == <<f64, i64, str, i64>>
M40 == <<i64, str, str, i32, u32, enum, i64, i64>>
M41 == <<i64, str, i64, str, bit, i32, str>>
M42 == <<str, str, u64, i64, i64, i64, Ptr(43), i64, Ptr(44), Ptr(45), f64,
         bit, str, Ptr(47), i64, str>>
M43 == <<str, str, i64, vstr, i64, i64, i64, str, i64, i64, str>>
M44 == <<i64, enum, i64, i64, str, i32, i32, i64, str>>
M45 == <<i32, Ptr(46)>>
M46 == <<i32, i64, i64>>
M47 == <<i64>>
M48 == <<str, f64, i64, str, Ptr(49), Ptr(50), str, i64>>
M49 == <<i64>>
M50 == <<str, i64, Ptr(51), i64, vstr, i64>>
M51 == <<str>>
M52 == <<i64, str, i64, i32, i64, i64, u64, Ptr(53), Ptr(54), str, i64,
         Ptr(55), Ptr(56)>>
M53 == <<u64>>
M54 == <<i64, u64, i64, i64, i64, str>>
M55 == <<i64>>
M56 == <<Ptr(57), i32>>
M57 == <<i64, i32, str, i64, i64>>

(* createMessage(class_id): the class it creates an object of. *)
createMessage == <<M1, M2, M3, M4, M5, M6, M7, M8, M9, M10, M11, M12, M13,
                   M14, M15, M16, M17, M18, M19, M20, M21, M22, M23, M24, M25,
                   M26, M27, M28, M29, M30, M31, M32, M33, M34, M35, M36, M37,
                   M38, M39, M40, M41, M42, M43, M44, M45, M46, M47, M48, M49,
                   M50, M51, M52, M53, M54, M55, M56, M57>>

(* getMessageSize(class_id): sizeof of that class, 0 for any other id. *)
getMessageSize(id) == IF id \in DOMAIN createMessage
                      THEN SizeOf(createMessage[id]) ELSE 0

(* RegisterTestClass: per class, in the order of the source, the wire types
   and the field ids of its fields. *)
RegisterTestClass == <<
    <<2, <<sw_int64_type, sw_bytes_type, sw_int64_type, sw_int64_type,
           sw_bytes_type, sw_bytes_type, sw_bytes_type, sw_int64_type,
           sw_bytes_type, sw_int64_type>>,
      <<3, 4, 5, 6, 7, 10, 11, 12, 13, 14>>>>,
    <<3, <<sw_int64_type>>,
      <<1>>>>,
    <<5, <<sw_fix64_type>>,
      <<1>>>>,
    <<6, <<sw_int64_type>>,
      <<1>>>>,
    <<4, <<sw_ptr_type, sw_ptr_type, sw_int64_type>>,
      <<1, 2, 6>>>>,
    <<7, <<sw_string_type, sw_string_type, sw_bool_type, sw_bool_type>>,
      <<2, 3, 4, 6>>>>,
    <<9, <<sw_int64_type, sw_bool_type, sw_repeated_bytes_type,
           sw_bytes_type>>,
      <<1, 2, 3, 5>>>>,
    <<8, <<sw_bytes_type, sw_ptr_type, sw_bool_type, sw_uint64_type>>,
      <<4, 5, 7, 11>>>>,
    <<1, <<sw_ptr_type, sw_enum_type, sw_int64_type, sw_int32_type,
           sw_fix64_type, sw_ptr_type, sw_int64_type, sw_fix64_type,
           sw_fix32_type, sw_bool_type, sw_fix64_type, sw_enum_type,
           sw_ptr_type, sw_uint64_type, sw_double_type, sw_ptr_type,
           sw_ptr_type>>,
      <<2, 3, 4, 5, 6, 9, 15, 16, 17, 18, 19, 20, 21, 22, 23, 24, 25>>>>,
    <<12, <<sw_int32_type, sw_int32_type>>,
      <<1, 2>>>>,
    <<11, <<sw_ptr_type, sw_bytes_type>>,
      <<1, 8>>>>,
    <<13, <<sw_bytes_type, sw_fix64_type, sw_fix32_type, sw_fix32_type,
           sw_bool_type>>,
      <<2, 3, 4, 5, 8>>>>,
    <<14, <<sw_int64_type, sw_double_type, sw_bool_type, sw_int64_type>>,
      <<1, 2, 5, 7>>>>,
    <<10, <<sw_int32_type, sw_ptr_type, sw_ptr_type, sw_int64_type,
           sw_ptr_type, sw_bytes_type, sw_uint64_type, sw_fix64_type,
           sw_int32_type, sw_fix64_type>>,
      <<1, 2, 4, 5, 7, 8, 9, 10, 11, 12>>>>,
    <<16, <<sw_fix32_type, sw_bytes_type, sw_repeated_bytes_type,
           sw_string_type, sw_int64_type, sw_string_type, sw_int64_type>>,
      <<1, 4, 5, 8, 10, 14, 15>>>>,
    <<18, <<sw_bytes_type>>,
      <<1>>>>,
    <<19, <<sw_int64_type>>,
      <<2>>>>,
    <<17, <<sw_ptr_type, sw_ptr_type, sw_int64_type>>,
      <<1, 2, 7>>>>,
    <<20, <<sw_int64_type, sw_int64_type>>,
      <<2, 3>>>>,
    <<15, <<sw_string_type, sw_fix32_type, sw_bytes_type, sw_bool_type,
           sw_string_type, sw_int64_type, sw_bool_type, sw_bytes_type,
           sw_ptr_type, sw_ptr_type, sw_bytes_type, sw_ptr_type,
           sw_bool_type>>,
      <<2, 3, 4, 5, 6, 8, 10, 12, 16, 20, 22, 23, 24>>>>,
    <<22, <<sw_int64_type, sw_int64_type, sw_int32_type, sw_fix64_type,
           sw_int64_type, sw_int32_type, sw_int64_type,
           sw_repeated_string_type, sw_bytes_type, sw_bytes_type,
           sw_int64_type, sw_bytes_type>>,
      <<1, 3, 10, 13, 14, 15, 16, 17, 20, 21, 22, 24>>>>,
    <<24, <<sw_bytes_type, sw_bytes_type, sw_bool_type, sw_bytes_type,
           sw_bytes_type, sw_uint64_type, sw_fix64_type, sw_int64_type,
           sw_bytes_type, sw_fix64_type, sw_int64_type, sw_uint64_type>>,
      <<1, 3, 4, 5, 6, 7, 8, 10, 11, 13, 14, 15>>>>,
    <<23, <<sw_int64_type, sw_ptr_type>>,
      <<1, 2>>>>,
    <<21, <<sw_fix64_type, sw_int64_type, sw_fix64_type, sw_bytes_type,
           sw_ptr_type, sw_fix64_type, sw_ptr_type, sw_bytes_type,
           sw_enum_type, sw_int64_type, sw_int64_type, sw_int32_type,
           sw_repeated_bytes_type, sw_bytes_type>>,
      <<1, 2, 3, 6, 8, 9, 15, 17, 20, 22, 24, 25, 26, 29>>>>,
    <<27, <<sw_bytes_type>>,
      <<1>>>>,
    <<26, <<sw_fix64_type, sw_enum_type, sw_ptr_type>>,
      <<1, 2, 3>>>>,
    <<29, <<sw_int64_type, sw_fix64_type, sw_fix64_type, sw_bool_type,
           sw_bool_type, sw_int64_type, sw_int64_type, sw_bool_type>>,
      <<2, 3, 5, 7, 8, 9, 10, 11>>>>,
    <<28, <<sw_bytes_type, sw_ptr_type, sw_int64_type, sw_int64_type,
           sw_int64_type, sw_bytes_type, sw_enum_type, sw_fix32_type,
           sw_bytes_type, sw_bool_type>>,
      <<2, 3, 7, 9, 10, 11, 13, 14, 18, 19>>>>,
    <<25, <<sw_fix32_type, sw_fix64_type, sw_fix64_type, sw_double_type,
           sw_string_type, sw_ptr_type, sw_bool_type, sw_bytes_type,
           sw_bytes_type, sw_bytes_type, sw_bool_type, sw_ptr_type,
           sw_enum_type>>,
      <<2, 3, 4, 5, 9, 11, 12, 13, 19, 20, 21, 24, 25>>>>,
    <<31, <<sw_fix64_type>>,
      <<1>>>>,
    <<33, <<sw_int64_type, sw_fix64_type, sw_fix64_type, sw_int32_type,
           sw_bytes_type>>,
      <<1, 3, 4, 5, 7>>>>,
    <<32, <<sw_ptr_type, sw_uint64_type>>,
      <<1, 3>>>>,
    <<34, <<sw_fix64_type>>,
      <<3>>>>,
    <<35, <<sw_string_type, sw_bytes_type, sw_int32_type,
           sw_repeated_bytes_type, sw_bytes_type, sw_string_type,
           sw_string_type, sw_bytes_type, sw_bytes_type>>,
      <<1, 2, 3, 4, 5, 6, 7, 8, 10>>>>,
    <<30, <<sw_ptr_type, sw_ptr_type, sw_ptr_type, sw_bool_type,
           sw_int64_type, sw_bool_type, sw_repeated_bytes_type, sw_int64_type,
           sw_bytes_type, sw_fix64_type, sw_int64_type, sw_bytes_type,
           sw_bytes_type, sw_ptr_type>>,
      <<4, 5, 6, 7, 8, 11, 12, 13, 14, 15, 16, 17, 23, 25>>>>,
    <<38, <<sw_bool_type, sw_int64_type>>,
      <<2, 3>>>>,
    <<39, <<sw_double_type, sw_int64_type, sw_bytes_type, sw_int64_type>>,
      <<1, 2, 3, 5>>>>,
    <<37, <<sw_int64_type, sw_ptr_type, sw_ptr_type>>,
      <<1, 2, 3>>>>,
    <<40, <<sw_int64_type, sw_bytes_type, sw_bytes_type, sw_fix32_type,
           sw_uint32_type, sw_enum_type, sw_int64_type, sw_int64_type>>,
      <<2, 4, 5, 6, 8, 9, 10, 11>>>>,
    <<41, <<sw_int64_type, sw_bytes_type, sw_int64_type, sw_string_type,
           sw_bool_type, sw_int32_type, sw_bytes_type>>,
      <<1, 3, 6, 8, 9, 12, 16>>>>,
    <<36, <<sw_int64_type, sw_ptr_type, sw_bytes_type, sw_int32_type,
           sw_int64_type, sw_bool_type, sw_int64_type, sw_ptr_type,
           sw_double_type, sw_bool_type, sw_double_type, sw_int64_type,
           sw_ptr_type, sw_int64_type, sw_uint64_type>>,
      <<2, 3, 5, 6, 11, 12, 13, 14, 15, 16, 19, 20, 23, 24, 25>>>>,
    <<43, <<sw_bytes_type, sw_bytes_type, sw_int64_type,
           sw_repeated_bytes_type, sw_int64_type, sw_fix64_type,
           sw_fix64_type, sw_bytes_type, sw_int64_type, sw_int64_type,
           sw_string_type>>,
      <<6, 8, 9, 11, 13, 14, 15, 16, 19, 20, 22>>>>,
    <<44, <<sw_int64_type, sw_enum_type, sw_int64_type, sw_fix64_type,
           sw_bytes_type, sw_fix32_type, sw_int32_type, sw_int64_type,
           sw_bytes_type>>,
      <<1, 3, 4, 8, 9, 11, 12, 14, 15>>>>,
    <<46, <<sw_int32_type, sw_int64_type, sw_int64_type>>,
      <<1, 2, 3>>>>,
    <<45, <<sw_int32_type, sw_ptr_type>>,
      <<2, 4>>>>,
    <<47, <<sw_int64_type>>,
      <<2>>>>,
    <<42, <<sw_bytes_type, sw_string_type, sw_uint64_type, sw_int64_type,
           sw_int64_type, sw_int64_type, sw_ptr_type, sw_int64_type,
           sw_ptr_type, sw_ptr_type, sw_double_type, sw_bool_type,
           sw_bytes_type, sw_ptr_type, sw_int64_type, sw_string_type>>,
      <<1, 4, 5, 6, 9, 10, 11, 13, 18, 19, 22, 28, 29, 30, 31, 32>>>>,
    <<49, <<sw_fix64_type>>,
      <<10>>>>,
    <<51, <<sw_bytes_type>>,
      <<1>>>>,
    <<50, <<sw_bytes_type, sw_fix64_type, sw_ptr_type, sw_int64_type,
           sw_repeated_bytes_type, sw_int64_type>>,
      <<2, 3, 4, 6, 7, 8>>>>,
    <<48, <<sw_bytes_type, sw_double_type, sw_int64_type, sw_bytes_type,
           sw_ptr_type, sw_ptr_type, sw_bytes_type, sw_fix64_type>>,
      <<1, 4, 5, 7, 9, 10, 15, 16>>>>,
    <<53, <<sw_uint64_type>>,
      <<1>>>>,
    <<54, <<sw_int64_type, sw_uint64_type, sw_fix64_type, sw_int64_type,
           sw_int64_type, sw_bytes_type>>,
      <<1, 2, 3, 4, 5, 7>>>>,
    <<55, <<sw_fix64_type>>,
      <<1>>>>,
    <<57, <<sw_int64_type, sw_fix32_type, sw_string_type, sw_int64_type,
           sw_int64_type>>,
      <<1, 7, 8, 10, 12>>>>,
    <<56, <<sw_ptr_type, sw_fix32_type>>,
      <<2, 4>>>>,
    <<52, <<sw_int64_type, sw_bytes_type, sw_int64_type, sw_fix32_type,
           sw_int64_type, sw_int64_type, sw_uint64_type, sw_ptr_type,
           sw_ptr_type, sw_bytes_type, sw_int64_type, sw_ptr_type,
           sw_ptr_type>>,
      <<1, 2, 3, 5, 6, 7, 8, 16, 17, 19, 25, 26, 27>>>>>>

(* BenchmarkInit: the top-level messages, in the order of the index. *)
messages == <<1, 10, 15, 21, 25, 30, 36, 42, 48, 52>>

Bench == BenchOf(createMessage, [c \in DOMAIN createMessage |-> getMessageSize(c)],
                 RegisterTestClass, messages)
=============================================================================
