---------------------------- MODULE Bench5Classes ----------------------------
(* The message classes of HyperProtoBench bench5 (bench5_testclass.h):
   the data members of each generated class, in declaration order. *)
EXTENDS MessageTypes

M1 == <<i64, u64, Ptr(2), f32, str, bit, str, str, enum, i32, Ptr(6)>>
M2 == <<Ptr(3), i32, f32, enum, f32, f32, i32, Ptr(4), i32, str>>
M3 == <<i32>>
M4 == <<Ptr(5), i64>>
M5 == <<i32>>
M6 == <<Ptr(7), u64, Ptr(8), Ptr(9)>>
M7 == <<f32>>
M8 == <<bit, i32>>
M9 == <<bit, Ptr(10)>>
M10 == <<Ptr(11), u64>>
M11 == <<str, str>>
M12 == <<Ptr(13), str, Ptr(16), i64, Ptr(17), bit, str, i32, i32, i64, i64,
         str, i32>>
M13 == <<Ptr(14), i32>>
M14 == <<i32, Ptr(15), bit, i32, str, f32>>
M15 == <<i32>>
M16 == <<i32, i32, i32>>
M17 == <<i64, enum, i32, Ptr(18), Ptr(22), i32, i32>>
M18 == <<u64, Ptr(19)>>
M19 == <<i32, Ptr(20)>>
M20 == <<Ptr(21), i32>>
M21 == <<str, enum>>
M22 == <<f32, str, i32>>
M23 == <<i32, Ptr(24), i32, f32, i32, Ptr(28), Ptr(29), i64, f32, i32>>
M24 == <<f64, Ptr(25), Ptr(26), Ptr(27), i32>>
M25 == <<i32>>
M26 == <<str>>
M27 == <<vu8>>
M28 == <<i32>>
M29 == <<i32, Ptr(30), i32, Ptr(33), f32, str>>
M30 == <<Ptr(31), u64>>
M31 == <<i32, f32, i32, i32, bit, str, Ptr(32)>>
M32 == <<enum, bit, i32, str>>
M33 == <<str, i32, str>>
M34 == <<enum, Ptr(35), i32, str, i32, i32, i32, i64, enum, Ptr(36), Ptr(37),
         i32, u64, Ptr(42)>>
M35 == <<u64>>
M36 == <<u64, str, i32, u32, i32>>
M37 == <<f32, f32, Ptr(38)>>
M38 == <<Ptr(39), i32, i64, i32, i32, enum, i32, i64>>
M39 == <<str, Ptr(40), i32>>
M40 == <<i32, Ptr(41)>>
M41 == <<f32, i32, str, str, str, f32, i32, vstr, str, u64>>
M42 == <<i32>>
M43 == <<str, f32, Ptr(44), i32, i64, i32, i64, i32, i32, i32, u64, Ptr(48)>>
M44 == <<str, Ptr(45), Ptr(46), Ptr(47)>>
M45 == <<i32>>
M46 == <<i32, venum, i64>>
M47 == <<i32>>
M48 == <<Ptr(49), enum, i32, f32, f32, str, i64, str, f64, Ptr(50)>>
M49 == <<str, u64>>
M50 == <<Ptr(51), i64>>
M51 == <<str, str, f64, enum, f32, Ptr(52), u64, f32, i32, str, vstr>>
M52 == <<str, i32, i32, f32, Ptr(53)>>
M53 == <<f32, u64>>
M54 == <<vstr, Ptr(55), str, Ptr(59), str, vstr, Ptr(61), i32, Ptr(62)>>
M55 == <<f32, enum, Ptr(56)>>
M56 == <<i32, Ptr(57)>>
M57 == <<Ptr(58), str>>
M58 == <<i32, i32, i32>>
M59 == <<Ptr(60), u64>>
M60 == <<str, i32, str, i32>>
M61 == <<i32, venum>>
M62 == <<u64, Ptr(63)>>
M63 == <<u32>>
M64 == <<i32, Ptr(65), Ptr(66), str, enum, Ptr(67), Ptr(68), u64>>
M65 == <<i32>>
M66 == <<i32>>
M67 == <<f32>>
M68 == <<Ptr(69), str>>
M69 == <<i64, str, i32, Ptr(70), i32>>
M70 == <<i32, Ptr(71)>>
M71 == <<str, vi32>>
M72 == <<vi64, Ptr(73), Ptr(76), Ptr(77), f32, i64, f32, i32, Ptr(78), i32>>
M73 == <<Ptr(74), Ptr(75), str>>
M74 == <<f32>>
M75 == <<str, f64>>
M76 == <<bit, u32, i32, enum>>
M77 == <<enum, f32>>
M78 == <<Ptr(79), i32>>
M79 == <<i32, Ptr(80)>>
M80 == <<Ptr(81), str>>
M81 == <<i32>>
M82 == <<i32, f64, i64, Ptr(83), enum, Ptr(84), Ptr(88), Ptr(90), i32, i32,
         i32, i32>>
M83 == <<i64, i32>>
M84 == <<i32, Ptr(85), str>>
M85 == <<Ptr(86), i32>>
M86 == <<Ptr(87), enum, bit, i64, i32>>
M87 == <<enum, str>>
M88 == <<str, Ptr(89)>>
M89 == <<i32, f32, i32>>
M90 == <<Ptr(91), f32, vu8, f32>>
M91 == <<str>>
M92 == <<Ptr(93), Ptr(94), i32, i32>>
M93 == <<i32>>
M94 == <<i32, Ptr(95)>>
M95 == <<i32>>

(* createMessage(class_id): the class it creates an object of. *)
createMessage == <<M1, M2, M3, M4, M5, M6, M7, M8, M9, M10, M11, M12, M13,
                   M14, M15, M16, M17, M18, M19, M20, M21, M22, M23, M24, M25,
                   M26, M27, M28, M29, M30, M31, M32, M33, M34, M35, M36, M37,
                   M38, M39, M40, M41, M42, M43, M44, M45, M46, M47, M48, M49,
                   M50, M51, M52, M53, M54, M55, M56, M57, M58, M59, M60, M61,
                   M62, M63, M64, M65, M66, M67, M68, M69, M70, M71, M72, M73,
                   M74, M75, M76, M77, M78, M79, M80, M81, M82, M83, M84, M85,
                   M86, M87, M88, M89, M90, M91, M92, M93, M94, M95>>

(* getMessageSize(class_id): sizeof of that class, 0 for any other id. *)
getMessageSize(id) == IF id \in DOMAIN createMessage
                      THEN SizeOf(createMessage[id]) ELSE 0

(* bench5_target.inc is not in the repository.  A registration that gives each
   member the wire type of its C++ type and its position as field id stands
   for RegisterTestClass, the classes nested in no other for the messages. *)
RegisterTestClass == DeclaredRegistration(createMessage)

messages == <<1, 12, 23, 34, 43, 54, 64, 72, 82, 92>>

Bench == BenchOf(createMessage, [c \in DOMAIN createMessage |-> getMessageSize(c)],
                 RegisterTestClass, messages)
=============================================================================
