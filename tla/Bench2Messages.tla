---------------------------- MODULE Bench2Messages ----------------------------
(* The classes of the first five messages of bench2 (bench2_testclass.h):
   the data members of each generated class, in declaration order. *)
EXTENDS MessageTypes

M1 == <<enum, Ptr(2), bit, i64, Ptr(3), Ptr(10), f32, Ptr(15), bit, f32, f32,
        i32, enum, i32>>
M2 == <<i64, vu32>>
M3 == <<u32, Ptr(4), Ptr(8)>>
M4 == <<Ptr(5), Ptr(7), enum>>
M5 == <<Ptr(6), i32, i32>>
M6 == <<i32>>
M7 == <<bit>>
M8 == <<i32, Ptr(9)>>
M9 == <<str, bit, i32>>
M10 == <<Ptr(11), i32, i32, Ptr(12), u32, u32, i32, Ptr(14), i64, i32, i64>>
M11 == <<i64, u32, u32>>
M12 == <<enum, Ptr(13)>>
M13 == <<i64, str, enum>>
M14 == <<enum>>
M15 == <<Ptr(16), Ptr(34), i64, i32, bit>>
M16 == <<Ptr(17), i32>>
M17 == <<i32, Ptr(18), Ptr(22), f32>>
M18 == <<bit, i32, i32, i64, i64, enum, enum, Ptr(19), u32, i32, i32>>
M19 == <<enum, f32, i32, Ptr(20), Ptr(21), enum, u32, i32, i32, enum, str,
         i64>>
M20 == <<i32, i32, i32, str, u32, i64, enum>>
M21 == <<enum>>
M22 == <<enum, Ptr(23), bit, i32, enum, u32, enum, i32, i64>>
M23 == <<u32, i64, Ptr(24)>>
M24 == <<enum, enum, Ptr(25), vstr>>
M25 == <<Ptr(26), enum, i32, bit>>
M26 == <<enum, Ptr(27), f32>>
M27 == <<bit, bit, bit, Ptr(28), u32, u32, i32, bit, enum, enum, enum>>
M28 == <<f32, Ptr(29), enum, f32, str, enum, f32, enum, vf32, str, f32>>
M29 == <<Ptr(30), Ptr(33), enum, i64>>
M30 == <<enum, Ptr(31), Ptr(32)>>
M31 == <<i32>>
M32 == <<i32, bit, i64, enum, i32, enum, i32, i32, i64>>
M33 == <<f32>>
M34 == <<i64, i32, i32, enum, enum>>
M35 == <<u32, Ptr(36), Ptr(63), Ptr(65), i32, f32, u64, enum, enum, i32, i32,
         i32, Ptr(66), u32>>
M36 == <<enum, Ptr(37), Ptr(43), Ptr(45), i64, bit, Ptr(46)>>
M37 == <<Ptr(38), i32, bit>>
M38 == <<enum, u64, u32, Ptr(39), Ptr(40), u32, u32, enum, enum>>
M39 == <<enum, i32>>
M40 == <<i32, str, str, Ptr(41), enum, enum, enum>>
M41 == <<enum, i32, enum, Ptr(42), i64, f32, enum, u32, enum, str>>
M42 == <<enum>>
M43 == <<Ptr(44), i64>>
M44 == <<i64, i32, bit, f32, enum>>
M45 == <<i32>>
M46 == <<enum, Ptr(47), bit, str>>
M47 == <<Ptr(48), Ptr(49), Ptr(62), u32>>
M48 == <<i32, f32>>
M49 == <<Ptr(50), f32, Ptr(51)>>
M50 == <<i32, u64, i64, i64>>
M51 == <<Ptr(52), u32, Ptr(53)>>
M52 == <<enum, enum, str, f32, enum, i32, vstr, bit>>
M53 == <<i32, Ptr(54), i64>>
M54 == <<enum, i32, i32, i32, u32, enum, vf32, Ptr(55), enum, Ptr(56), i64,
         bit>>
M55 == <<enum, i32, u32>>
M56 == <<u32, Ptr(57)>>
M57 == <<f32, Ptr(58)>>
M58 == <<i32, Ptr(59), u32>>
M59 == <<str, i32, Ptr(60)>>
M60 == <<bit, f32, enum, u32, u32, i32, f32, bit, f32, str, Ptr(61)>>
M61 == <<u32, u32, i64, enum, vstr, vstr, enum, bit>>
M62 == <<enum>>
M63 == <<Ptr(64), str, i64>>
M64 == <<i32>>
M65 == <<i32, f32, enum, i32, enum, f32>>
M66 == <<Ptr(67), bit, i32>>
M67 == <<vstr, enum, i64, bit, u32, enum>>
M68 == <<f32, enum, i64, i32, i32, Ptr(69), bit, enum, Ptr(70), str, Ptr(72),
         Ptr(100), Ptr(103), vf32, enum>>
M69 == <<f32, u32, i32, f32, vstr, i64>>
M70 == <<i32, u64, enum, Ptr(71)>>
M71 == <<enum, enum>>
M72 == <<i32, Ptr(73), Ptr(76)>>
M73 == <<i64, Ptr(74)>>
M74 == <<Ptr(75), i32, i32, vi64>>
M75 == <<i64>>
M76 == <<Ptr(77), f32, Ptr(78), Ptr(99)>>
M77 == <<f32>>
M78 == <<Ptr(79), Ptr(91), Ptr(92), f32, u32, Ptr(94), Ptr(97)>>
M79 == <<Ptr(80), enum, i32>>
M80 == <<i64, Ptr(81)>>
M81 == <<str, bit, enum, Ptr(82), Ptr(83), u32, vstr>>
M82 == <<enum, enum, str>>
M83 == <<Ptr(84), i64, f32>>
M84 == <<bit, i32, enum, i32, f32, enum, Ptr(85)>>
M85 == <<Ptr(86), bit>>
M86 == <<enum, Ptr(87), enum>>
M87 == <<f32, i64, Ptr(88), f32, str, Ptr(90), enum>>
M88 == <<Ptr(89), f32>>
M89 == <<enum, i64, bit>>
M90 == <<u32>>
M91 == <<enum, enum>>
M92 == <<Ptr(93), u32, enum>>
M93 == <<i32, i32>>
M94 == <<enum, Ptr(95)>>
M95 == <<enum, Ptr(96), enum, vstr, bit, i32, enum, enum, f32, u32, i32>>
M96 == <<i32>>
M97 == <<enum, Ptr(98), i32, u64>>
M98 == <<i64, enum>>
M99 == <<i32, enum, i32, enum, bit>>
M100 == <<bit, Ptr(101), u32>>
M101 == <<enum, Ptr(102), u32, i32, f32, f32, u32>>
M102 == <<vi64, enum>>
M103 == <<u64>>
M104 == <<i32, Ptr(105), u32, Ptr(123), i64, vi32, str, enum, enum>>
M105 == <<enum, i32, vstr, enum, Ptr(106), i64, enum>>
M106 == <<u32, Ptr(107), Ptr(122), f32>>
M107 == <<Ptr(108), u32, i32, Ptr(111), i32, f32>>
M108 == <<enum, Ptr(109)>>
M109 == <<f32, i32, f32, Ptr(110), enum>>
M110 == <<enum, f32, i32, bit>>
M111 == <<i32, Ptr(112), enum, i32, enum, str, enum>>
M112 == <<Ptr(113), f32, Ptr(121)>>
M113 == <<Ptr(114), enum>>
M114 == <<i32, Ptr(115), i32>>
M115 == <<Ptr(116), u32>>
M116 == <<Ptr(117), enum>>
M117 == <<enum, Ptr(118)>>
M118 == <<str, Ptr(119)>>
M119 == <<i64, enum, i64, f32, u32, Ptr(120), u32>>
M120 == <<vstr, vstr, f32>>
M121 == <<f32>>
M122 == <<i32, u32, str>>
M123 == <<u32, Ptr(124)>>
M124 == <<f32, Ptr(125), Ptr(127), bit, bit, enum>>
M125 == <<Ptr(126), i32>>
M126 == <<u32, i32, enum>>
M127 == <<i32, Ptr(128)>>
M128 == <<enum>>
M129 == <<Ptr(130), f32, f32, str, i32, enum, Ptr(131), Ptr(157), u32, f32,
          f32, Ptr(160), u32, i32>>
M130 == <<enum, i32, enum, bit>>
M131 == <<u64, u32, f32, Ptr(132)>>
M132 == <<Ptr(133), Ptr(136), enum>>
M133 == <<enum, f32, bit, f32, Ptr(134), str>>
M134 == <<i32, Ptr(135), f32, enum>>
M135 == <<bit, enum, enum, str, enum, i32, u32, enum>>
M136 == <<Ptr(137), u32, u32, i32, u32, Ptr(154), Ptr(155), f32, f32,
          Ptr(156), enum>>
M137 == <<bit, i64, Ptr(138), Ptr(139)>>
M138 == <<enum, u32>>
M139 == <<enum, Ptr(140), Ptr(153), i32, enum, enum>>
M140 == <<enum, Ptr(141), vf32, Ptr(151), str, enum, Ptr(152), i64>>
M141 == <<u32, Ptr(142)>>
M142 == <<i32, Ptr(143), i64>>
M143 == <<i32, Ptr(144), i32, enum, venum, enum, f32, f32, str, bit, u32,
          Ptr(147)>>
M144 == <<enum, enum, enum, enum, bit, enum, Ptr(145), f32, bit, i32, enum>>
M145 == <<Ptr(146), enum>>
M146 == <<enum>>
M147 == <<enum, Ptr(148)>>
M148 == <<Ptr(149), bit, enum>>
M149 == <<Ptr(150), i64>>
M150 == <<f32, enum, enum>>
M151 == <<bit>>
M152 == <<enum>>
M153 == <<enum>>
M154 == <<enum, f32, bit>>
M155 == <<enum>>
M156 == <<enum, enum, i64, u32, f32>>
M157 == <<enum, Ptr(158), u32, Ptr(159)>>
M158 == <<i32, f32>>
M159 == <<enum>>
M160 == <<Ptr(161), i32, Ptr(162), f32>>
M161 == <<i32, enum, i64, i32, i32, bit>>
M162 == <<i32>>
=============================================================================
