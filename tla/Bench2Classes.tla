---------------------------- MODULE Bench2Classes ----------------------------
(* The classes of the other five messages of bench2 (bench2_testclass.h)
   and its switches over the class id. *)
EXTENDS Bench2Messages

M163 == <<enum, i64, f32, Ptr(164), Ptr(187), f32, bit, vi32, u32, enum, i32,
          f32>>
M164 == <<Ptr(165), enum, enum, u32, i32, Ptr(183)>>
M165 == <<Ptr(166), enum>>
M166 == <<enum, Ptr(167), vf32>>
M167 == <<f32, Ptr(168), Ptr(182)>>
M168 == <<u32, Ptr(169), bit>>
M169 == <<i64, f32, Ptr(170), i64, Ptr(171), f32, u32, enum, Ptr(172), u32>>
M170 == <<u32>>
M171 == <<i32>>
M172 == <<enum, str, i32, Ptr(173), Ptr(174), i32, i32, enum>>
M173 == <<enum>>
M174 == <<enum, Ptr(175)>>
M175 == <<Ptr(176), i32>>
M176 == <<enum, f32, str, Ptr(177), Ptr(178), enum, enum, enum>>
M177 == <<f32, f32>>
M178 == <<Ptr(179), str>>
M179 == <<i32, Ptr(180), str, i32, i32, str, f32, i32, f32, enum, i32,
          Ptr(181)>>
M180 == <<u32>>
M181 == <<vstr>>
M182 == <<u32, f32, enum, i64, enum, enum, i32, f32, enum, u32>>
M183 == <<Ptr(184), Ptr(185), enum, i32, Ptr(186), vf32>>
M184 == <<enum, str, i32>>
M185 == <<f32, f32>>
M186 == <<enum>>
M187 == <<enum, Ptr(188), f32, Ptr(189), i64, u32, i32, u32, enum>>
M188 == <<enum>>
M189 == <<enum, Ptr(190), i32, i32, i64, i32>>
M190 == <<enum, Ptr(191), enum, f32, u32>>
M191 == <<f32, f32, i64, enum, Ptr(192), enum, i32, enum, enum, f32, enum>>
M192 == <<i32, bit, enum>>
M193 == <<i64, u32, str, u32, i32, i32, bit, Ptr(194), u32, f32, Ptr(196),
          Ptr(216), enum, Ptr(222)>>
M194 == <<Ptr(195), bit, u32>>
M195 == <<i32>>
M196 == <<f32, Ptr(197)>>
M197 == <<u32, str, Ptr(198), Ptr(200), Ptr(202), Ptr(203)>>
M198 == <<str, Ptr(199)>>
M199 == <<enum, u32, i32>>
M200 == <<i32, i64, Ptr(201)>>
M201 == <<u32, vstr>>
M202 == <<i32, u32>>
M203 == <<Ptr(204), bit>>
M204 == <<Ptr(205), u32, vstr, u32, f32, Ptr(206), f32, i32>>
M205 == <<i32, i64, i64, i64, enum>>
M206 == <<u32, i32, Ptr(207), Ptr(215), enum>>
M207 == <<Ptr(208), enum, enum>>
M208 == <<enum, i32, i32, Ptr(209), enum, i32>>
M209 == <<enum, Ptr(210), u32, i32, bit>>
M210 == <<Ptr(211), bit, enum>>
M211 == <<enum, enum, Ptr(212), enum, enum>>
M212 == <<u32, str, Ptr(213)>>
M213 == <<Ptr(214), bit, u32>>
M214 == <<i64, str>>
M215 == <<f32, bit, str, f32, enum, u32, str, i32, i64, i32>>
M216 == <<Ptr(217), Ptr(218), Ptr(219), f32, Ptr(220)>>
M217 == <<enum>>
M218 == <<u32, f32>>
M219 == <<f32>>
M220 == <<Ptr(221), bit, enum>>
M221 == <<str, enum, u32, u32, i32>>
M222 == <<u32, enum, i64, enum, u32, str, i64, enum>>
M223 == <<enum, enum, Ptr(224), str, str, enum, u32, enum, u32, Ptr(230),
          Ptr(231), Ptr(232), Ptr(251), bit, str>>
M224 == <<Ptr(225), i32, enum>>
M225 == <<Ptr(226), f32>>
M226 == <<vstr, Ptr(227), f32, i32, u64>>
M227 == <<f32, i32, f32, i32, Ptr(228), enum, enum, Ptr(229)>>
M228 == <<f32, bit, f32, bit, f32>>
M229 == <<bit, f64>>
M230 == <<bit>>
M231 == <<f64>>
M232 == <<Ptr(233), Ptr(234), bit, Ptr(249), i64>>
M233 == <<f32>>
M234 == <<enum, enum, vstr, Ptr(235), bit, Ptr(248), enum>>
M235 == <<vf32, Ptr(236), enum>>
M236 == <<enum, enum, f32, i32, Ptr(237), i32, enum, enum, bit, f32>>
M237 == <<Ptr(238), enum>>
M238 == <<f32, i32, i32, Ptr(239), Ptr(240), i32, str, u32, u32, enum, i32,
          str>>
M239 == <<str, enum>>
M240 == <<i64, Ptr(241), Ptr(247), u32>>
M241 == <<f32, Ptr(242)>>
M242 == <<Ptr(243), u32>>
M243 == <<u32, f32, u32, Ptr(244), i32>>
M244 == <<i32, enum, enum, Ptr(245), str>>
M245 == <<Ptr(246), i32, f32, str>>
M246 == <<enum, i64, i32, i32, i32, enum>>
M247 == <<i64, u32, vi32>>
M248 == <<i32, f32>>
M249 == <<f32, Ptr(250), enum>>
M250 == <<enum, u32, i32, i32>>
M251 == <<i64, enum, enum, f32>>
M252 == <<i32, bit, enum, str, i32, i32, Ptr(253), Ptr(256), f32, Ptr(258),
          i32, bit, Ptr(280), enum>>
M253 == <<Ptr(254), enum, bit>>
M254 == <<enum, Ptr(255), i64>>
M255 == <<f32, enum, enum, f32, f32, u32, i64, bit, u32, enum>>
M256 == <<enum, bit, f32, i32, str, venum, Ptr(257)>>
M257 == <<i32, vi32, u32>>
M258 == <<u32, Ptr(259), enum, Ptr(279)>>
M259 == <<i64, Ptr(260), enum, bit, f32>>
M260 == <<i64, Ptr(261), i32, enum, i32, i32, f32, f32, Ptr(263)>>
M261 == <<Ptr(262), i32, i32, u32, enum>>
M262 == <<enum, f32, enum>>
M263 == <<f32, enum, u32, bit, u32, Ptr(264), u32, Ptr(267), i32, Ptr(278),
          enum, u32, enum>>
M264 == <<Ptr(265), u32, f32>>
M265 == <<enum, bit, enum, Ptr(266)>>
M266 == <<i32>>
M267 == <<Ptr(268), Ptr(277), f32>>
M268 == <<i64, Ptr(269), i32>>
M269 == <<u32, Ptr(270), enum, i32, Ptr(271)>>
M270 == <<u32, enum>>
M271 == <<i32, Ptr(272)>>
M272 == <<f32, enum, Ptr(273), f32>>
M273 == <<f32, bit, enum, enum, i32, Ptr(274), f32>>
M274 == <<vstr, Ptr(275), i32>>
M275 == <<venum, enum, Ptr(276), bit, f32, enum, enum, bit, f32, i32, i32>>
M276 == <<u32, enum, enum, f32, enum, bit, i32, str, enum, i64>>
M277 == <<u32, bit, u32, bit>>
M278 == <<enum>>
M279 == <<i32>>
M280 == <<str, enum, f32>>
M281 == <<Ptr(282), i32, i32, i32, i32, Ptr(290), str, i32, bit, Ptr(292),
          f32, f32, f32>>
M282 == <<Ptr(283), u32, str, enum, enum, Ptr(285)>>
M283 == <<enum, Ptr(284)>>
M284 == <<u32, enum, i32, i64, enum, enum, enum>>
M285 == <<u64, enum, vstr, Ptr(286)>>
M286 == <<Ptr(287), Ptr(289), bit>>
M287 == <<i32, f32, Ptr(288), u32, i32>>
M288 == <<bit, enum, f32, enum, i64, enum, enum, enum, f32, bit>>
M289 == <<enum>>
M290 == <<bit, i32, i64, bit, i64, bit, f32, enum, Ptr(291)>>
M291 == <<u32, enum, u64, i32, f32, vstr, enum, enum, f32>>
M292 == <<Ptr(293), f32>>
M293 == <<i64, Ptr(294), Ptr(295)>>
M294 == <<i64, u32>>
M295 == <<enum, vf32, Ptr(296), Ptr(297), enum>>
M296 == <<u32, enum>>
M297 == <<f32, i64, i64, Ptr(298), bit, Ptr(300), i32, i64, Ptr(301), i64>>
M298 == <<Ptr(299), vi64, enum>>
M299 == <<u32, vstr>>
M300 == <<vf32>>
M301 == <<vf32, bit, Ptr(302), i32>>
M302 == <<f32, str, vu32, enum, str, Ptr(303), enum>>
M303 == <<Ptr(304), enum, enum, f32, i32>>
M304 == <<Ptr(305), i32, enum, enum, i32, enum, i32>>
M305 == <<Ptr(306), i32>>
M306 == <<enum, f32, Ptr(307)>>
M307 == <<Ptr(308), enum, enum>>
M308 == <<Ptr(309), Ptr(310), i64, enum>>
M309 == <<i32>>
M310 == <<enum, f32, f32, f32, i64, i32, enum, f32, i32>>

(* createMessage(class_id): the class it creates an object of. *)
createMessage == <<M1, M2, M3, M4, M5, M6, M7, M8, M9, M10, M11, M12, M13,
                   M14, M15, M16, M17, M18, M19, M20, M21, M22, M23, M24, M25,
                   M26, M27, M28, M29, M30, M31, M32, M33, M34, M35, M36, M37,
                   M38, M39, M40, M41, M42, M43, M44, M45, M46, M47, M48, M49,
                   M50, M51, M52, M53, M54, M55, M56, M57, M58, M59, M60, M61,
                   M62, M63, M64, M65, M66, M67, M68, M69, M70, M71, M72, M73,
                   M74, M75, M76, M77, M78, M79, M80, M81, M82, M83, M84, M85,
                   M86, M87, M88, M89, M90, M91, M92, M93, M94, M95, M96, M97,
                   M98, M99, M100, M101, M102, M103, M104, M105, M106, M107,
                   M108, M109, M110, M111, M112, M113, M114, M115, M116, M117,
                   M118, M119, M120, M121, M122, M123, M124, M125, M126, M127,
                   M128, M129, M130, M131, M132, M133, M134, M135, M136, M137,
                   M138, M139, M140, M141, M142, M143, M144, M145, M146, M147,
                   M148, M149, M150, M151, M152, M153, M154, M155, M156, M157,
                   M158, M159, M160, M161, M162, M163, M164, M165, M166, M167,
                   M168, M169, M170, M171, M172, M173, M174, M175, M176, M177,
                   M178, M179, M180, M181, M182, M183, M184, M185, M186, M187,
                   M188, M189, M190, M191, M192, M193, M194, M195, M196, M197,
                   M198, M199, M200, M201, M202, M203, M204, M205, M206, M207,
                   M208, M209, M210, M211, M212, M213, M214, M215, M216, M217,
                   M218, M219, M220, M221, M222, M223, M224, M225, M226, M227,
                   M228, M229, M230, M231, M232, M233, M234, M235, M236, M237,
                   M238, M239, M240, M241, M242, M243, M244, M245, M246, M247,
                   M248, M249, M250, M251, M252, M253, M254, M255, M256, M257,
                   M258, M259, M260, M261, M262, M263, M264, M265, M266, M267,
                   M268, M269, M270, M271, M272, M273, M274, M275, M276, M277,
                   M278, M279, M280, M281, M282, M283, M284, M285, M286, M287,
                   M288, M289, M290, M291, M292, M293, M294, M295, M296, M297,
                   M298, M299, M300, M301, M302, M303, M304, M305, M306, M307,
                   M308, M309, M310>>

(* getMessageSize(class_id): sizeof of that class, 0 for any other id. *)
getMessageSize(id) == IF id \in DOMAIN createMessage
                      THEN SizeOf(createMessage[id]) ELSE 0

(* bench2_target.inc is not in the repository.  A registration that gives each
   member the wire type of its C++ type and its position as field id stands
   for RegisterTestClass, the classes nested in no other for the messages. *)
RegisterTestClass == DeclaredRegistration(createMessage)

messages == <<1, 35, 68, 104, 129, 163, 193, 223, 252, 281>>

Bench == BenchOf(createMessage, [c \in DOMAIN createMessage |-> getMessageSize(c)],
                 RegisterTestClass, messages)
=============================================================================
