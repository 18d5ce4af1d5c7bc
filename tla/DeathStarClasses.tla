---------------------------- MODULE DeathStarClasses ----------------------------
(* The message classes of DeathStarBench (deathstarbench_testclass.h):
   the data members of each generated class, in declaration order. *)
EXTENDS MessageTypes

M1 == <<i64, str, str, str, str>>
M2 == <<i64, str, str>>
M3 == <<i64, str>>
M4 == <<i64, Ptr(3)>>
M5 == <<i64, str, i64, str, Ptr(3), enum>>
M6 == <<i64, Ptr(7)>>
M7 == <<i64, Ptr(8), i64, str, Ptr(9), Ptr(3), Ptr(10), i64, enum>>
M8 == <<i64, str>>
M9 == <<i64, str>>
M10 == <<str, str>>

(* createMessage(class_id): the class it creates an object of. *)
createMessage == <<M1, M2, M3, M4, M5, M6, M7, M8, M9, M10>>

(* getMessageSize(class_id): sizeof of that class, 0 for any other id. *)
getMessageSize(id) == IF id \in DOMAIN createMessage
                      THEN SizeOf(createMessage[id]) ELSE 0

(* RegisterTestClass: per class, in the order of the source, the wire types
   and the field ids of its fields. *)
RegisterTestClass == <<
    <<1, <<sw_int64_type, sw_string_type, sw_string_type, sw_string_type,
           sw_string_type>>,
      <<1, 2, 3, 4, 5>>>>,
    <<2, <<sw_int64_type, sw_string_type, sw_string_type>>,
      <<1, 2, 3>>>>,
    <<3, <<sw_int64_type, sw_string_type>>,
      <<1, 2>>>>,
    <<4, <<sw_int64_type, sw_ptr_type>>,
      <<1, 2>>>>,
    <<5, <<sw_int64_type, sw_string_type, sw_int64_type, sw_string_type,
           sw_ptr_type, sw_enum_type>>,
      <<1, 2, 3, 4, 5, 6>>>>,
    <<8, <<sw_int64_type, sw_string_type>>,
      <<1, 2>>>>,
    <<9, <<sw_int64_type, sw_string_type>>,
      <<1, 2>>>>,
    <<10, <<sw_string_type, sw_string_type>>,
      <<1, 2>>>>,
    <<7, <<sw_int64_type, sw_ptr_type, sw_int64_type, sw_string_type,
           sw_ptr_type, sw_ptr_type, sw_ptr_type, sw_int64_type,
           sw_enum_type>>,
      <<1, 2, 3, 4, 5, 6, 7, 8, 9>>>>,
    <<6, <<sw_int64_type, sw_ptr_type>>,
      <<1, 2>>>>>>

(* BenchmarkInit: the top-level messages, in the order of the index. *)
messages == <<1, 2, 4, 5, 6>>

Bench == BenchOf(createMessage, [c \in DOMAIN createMessage |-> getMessageSize(c)],
                 RegisterTestClass, messages)
=============================================================================
