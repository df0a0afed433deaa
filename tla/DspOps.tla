------------------------------- MODULE DspOps -------------------------------
(***************************************************************************)
(* The operations of the DSP in the order the assembler tries them, with   *)
(* their names, their layouts by length, the modifier of their source and  *)
(* whether source and destination change places; and the operations that   *)
(* may come in parallel with one of two and of four words.                 *)
(***************************************************************************)
EXTENDS DspLayouts

(* The names of the layouts of an operation, by the lengths of one, two and four words. *)
Layouts(one, two, four) == <<one, two, four>>

MOVE        == Layouts("MOV_1", "MOV_2", "MOV_4")
MOVX_MDFR   == Layouts("MOVX_MDFR_OFFSET_1", "MOVX_MDFR_OFFSET_2", "NONE")
MOVX_LIT    == Layouts("MOVX_LIT_OFFSET_1", "MOVX_LIT_OFFSET_2", "NONE")
MOVE_LIT    == Layouts("NONE", "MOV_LIT_16_2", "MOV_LIT_32_4")
MOVE_LIT_2  == Layouts("NONE", "MOV_LIT_16_2", "NONE")
RXY         == Layouts("R_X_Y_1", "R_X_Y_2", "R_X_Y_4")
RXYA        == Layouts("R_X_Y_A_1", "R_X_Y_A_2", "R_X_Y_A_4")
RXYA_LONG   == Layouts("NONE", "R_X_Y_A_2", "R_X_Y_A_4")
RXLY        == Layouts("R_X_LIT_8_Y_1", "R_X_LIT_16_Y_2", "R_X_LIT_32_Y_4")
JUMP        == Layouts("NONE", "PC_LIT_16_2", "NONE")
SHORT_JUMP  == Layouts("PC_OFFSET_1", "NONE", "NONE")
JUMP_REG    == Layouts("PC_SET_REG_1", "NONE", "NONE")
LOOP_2      == Layouts("NONE", "LOOP_PC_LIT_16_2", "NONE")
LOOP_LIT    == Layouts("LOOP_PC_OFFSET_LIT_8_CNT_1", "NONE", "NONE")
LOOP_REG    == Layouts("LOOP_PC_OFFSET_REG_CNT_1", "NONE", "NONE")
STACK       == Layouts("STACK_UNK_1", "STACK_UNK_2", "NONE")
INT_CLEAR   == Layouts("INTERRUPT_CLR_1", "NONE", "NONE")
NO_OPERANDS == Layouts("NOP", "NOP", "NOP")
NO_LAYOUT   == Layouts("NONE", "NONE", "NONE")

(* An operation; one that changes its source; one whose source and
   destination change places. *)
Info(op, name, layouts, mdfr, swap) ==
  [op |-> op, name |-> name, layouts |-> layouts, mdfr |-> mdfr, swap |-> swap]
Op(op, name, layouts)           == Info(op, name, layouts, "NONE", FALSE)
OpMdfr(op, name, layouts, mdfr) == Info(op, name, layouts, mdfr, FALSE)
OpSwap(op, name, layouts)       == Info(op, name, layouts, "NONE", TRUE)

OPS_00 ==
  <<Op(0, "NOP", NO_OPERANDS), Op(1, "JMP", JUMP), Op(2, "JMPC", JUMP),
    Op(3, "JMPC_T1", JUMP), Op(4, "CALL", JUMP), Op(5, "CALL_T1", JUMP),
    Op(6, "CALL_T2", JUMP), Op(7, "RET", NO_OPERANDS),
    Op(8, "UNK-0x008", NO_LAYOUT), Op(9, "UNK-0x009", NO_LAYOUT),
    Op(10, "UNK-0x00a", NO_LAYOUT), Op(11, "UNK-0x00b", NO_LAYOUT),
    Op(12, "JMP", JUMP_REG), Op(13, "UNK-0x00d", NO_LAYOUT),
    Op(14, "UNK-0x00e", NO_LAYOUT), Op(15, "CALL", JUMP_REG),
    Op(16, "S_JMP", SHORT_JUMP), Op(17, "S_JMPC", SHORT_JUMP),
    Op(18, "S_JMPC_T1", SHORT_JUMP), Op(19, "S_CALL", SHORT_JUMP)>>

OPS_14 ==
  <<Op(20, "S_CALL_T1", SHORT_JUMP), Op(21, "S_CALL_T2", SHORT_JUMP),
    Op(22, "RETI", NO_OPERANDS), Op(23, "UNK-0x017", NO_LAYOUT),
    Op(24, "UNK-0x18", LOOP_2), Op(25, "LOOP-0x19", LOOP_2),
    Op(26, "LOOP-0x10d", LOOP_2), Op(27, "LOOP-0x10d", NO_LAYOUT),
    Op(28, "LOOP-0x01c", LOOP_LIT), Op(29, "LOOP-0x01d", LOOP_REG),
    Op(30, "UNK-0x01e", NO_LAYOUT), Op(31, "UNK-0x01f", NO_LAYOUT),
    Op(32, "UNK-0x020", NO_LAYOUT), Op(33, "UNK-0x021", NO_LAYOUT),
    Op(34, "INT_CLR", INT_CLEAR), Op(35, "HALT", NO_OPERANDS),
    Op(36, "INT_ENABLE", NO_OPERANDS), Op(37, "INT_DISABLE", NO_OPERANDS),
    Op(38, "UNK-0x026", NO_LAYOUT), Op(39, "UNK-0x027", NO_LAYOUT)>>

OPS_28 ==
  <<Op(40, "UNK-0x028", NO_LAYOUT), Op(41, "UNK-0x029", NO_LAYOUT),
    Op(42, "UNK-0x02a", NO_LAYOUT), Op(43, "UNK-0x02b", NO_LAYOUT),
    Op(44, "UNK-0x02c", NO_LAYOUT), Op(45, "UNK-0x02d", NO_LAYOUT),
    Op(46, "UNK-0x02e", NO_LAYOUT), Op(47, "UNK-0x02f", NO_LAYOUT),
    Op(48, "MOVX_T1", MOVX_MDFR), OpSwap(49, "MOVX_T1", MOVX_MDFR),
    Op(50, "MOVX", MOVX_MDFR), OpSwap(51, "MOVX", MOVX_MDFR),
    Op(52, "MOVX_T1", MOVX_LIT), OpSwap(53, "MOVX_T1", MOVX_LIT),
    Op(54, "MOVX", MOVX_LIT), OpSwap(55, "MOVX", MOVX_LIT)>>

OPS_40 ==
  <<Op(64, "LMA_S", RXYA), Op(65, "LMA_AC_MV_S", RXYA),
    Op(66, "LMA_AC_S", RXY), Op(67, "LNMA_LMA_S", RXYA),
    Op(68, "LNMA_S", RXYA), Op(69, "LMS_AC_MV_S", RXYA),
    Op(70, "LMS_S", RXYA), Op(71, "LMA_O", RXYA), Op(72, "LMA_AC_MV_O", RXYA),
    Op(73, "LMA_AC_O", RXY), Op(74, "LNMA_LMA_O", RXYA),
    Op(75, "LNMA_O", RXYA), Op(76, "U_ADD_S", RXY), Op(77, "LMS_O", RXYA),
    Op(78, "U_ADD3_S", RXYA), Op(79, "U_SUB_S", RXY), Op(80, "LMUL_S", RXY),
    Op(81, "U_MOV_ACC", MOVE), Op(82, "U_ADD_O", RXY),
    Op(83, "U_ADDC_O", RXY)>>

OPS_54 ==
  <<Op(84, "U_SUB_O", RXY), Op(85, "U_SUBB_O", RXY), Op(86, "U_ADDSUB", RXY),
    Op(87, "U_SUBADD", RXY), OpMdfr(88, "U_MOV_ACC", MOVE, "INC"),
    OpMdfr(89, "U_MOV_ACC", MOVE, "DEC"), Op(90, "LMUL_O", RXY),
    Op(91, "LNMUL_O", RXY), Op(92, "LMUL_US_O", RXY),
    Op(93, "LMUL_US_O_T1", RXY), Op(94, "INTERP", RXYA),
    Op(95, "INTERP_T1", RXYA), Op(96, "MA_S", RXYA), Op(97, "MA_C_S", RXYA),
    Op(98, "MA_AC_MV_S", RXYA), Op(99, "MA_AC_S", RXY),
    Op(100, "NMA_MA_S", RXYA), Op(101, "NMA_S", RXYA), Op(102, "MS_S", RXYA),
    Op(103, "MA_O", RXYA)>>

OPS_68 ==
  <<Op(104, "MA_C_O", RXYA), Op(105, "MA_AC_MV_O", RXYA),
    Op(106, "MA_AC_O", RXY), Op(107, "NMA_MA_O", RXYA),
    Op(108, "NMA_O", RXYA), Op(109, "MS_O", RXYA_LONG), Op(110, "ADD_S", RXY),
    Op(111, "ADDC_S", RXY), Op(112, "SUB_S", RXY), Op(113, "SUBB_S", RXY),
    Op(114, "ADD_O", RXY), Op(115, "ADDC_O", RXY), Op(116, "SUB_O", RXY),
    Op(117, "SUBB_O", RXY), OpMdfr(118, "MOV", MOVE, "INC"),
    OpMdfr(119, "MOV", MOVE, "DEC"), OpMdfr(120, "MOV", MOVE, "RL"),
    OpMdfr(121, "MOV", MOVE, "RR"), Op(122, "MUL_O", RXY),
    Op(123, "NMUL_O", RXY)>>

OPS_7C ==
  <<Op(124, "MUL_US", RXY), Op(125, "MUL_US_T1", RXY),
    Op(126, "MOV_ACC_S", MOVE), Op(127, "U_MOV_ACC_S", MOVE),
    Op(128, "F_MA", RXYA), Op(129, "F_MA_AC_MV", RXYA),
    Op(130, "F_MA_AC", RXY), Op(131, "F_MA_NMA", RXYA),
    Op(132, "F_NMA_MA", RXYA_LONG), Op(133, "F_NMA", RXYA),
    Op(134, "F_MA_MS_AC_MV", RXYA), Op(135, "F_MS", RXYA),
    Op(136, "F_ADD", RXY), Op(137, "F_SUB", RXY), Op(138, "F_SUBADD", RXY),
    Op(139, "F_ADDSUB", RXY), Op(140, "F_MUL", RXY), Op(141, "F_NMUL", RXY),
    Op(142, "F_CMP", RXY), Op(143, "F_INV", MOVE)>>

OPS_90 ==
  <<Op(144, "F_ABS", MOVE), Op(145, "F_LIMIT", RXYA),
    Op(146, "F_LIMIT_T1", RXYA), Op(147, "F_ADD_EXP", RXY),
    Op(148, "F_GET_SIG", MOVE), Op(149, "F_GET_EXP", MOVE),
    Op(150, "F_TO_I", RXY), Op(151, "I_TO_F", RXY),
    Op(152, "UNK-0x098", RXYA), Op(153, "F_SINCOS", MOVE),
    Op(154, "F_ARCTAN", MOVE), Op(155, "F_RCP_DIV", RXY),
    Op(156, "F_RCP", MOVE), Op(157, "F_RCP_SQRT", MOVE), Op(158, "EXP", RXYA),
    Op(159, "LOG", RXYA), Op(160, "F_DFT_TWDL", RXY),
    Op(161, "F_DFT_BFLY", RXYA), Op(162, "UNK-0x0a2", RXYA),
    Op(163, "UNK-0x0a3", RXYA)>>

OPS_A4 ==
  <<Op(164, "UNK-0x0a4", RXYA), Op(165, "UNK-0x0a5", RXYA),
    Op(166, "UNK-0x0a6", RXYA), Op(167, "UNK-0x0a7", RXYA),
    Op(168, "UNK-0x0a8", RXYA), Op(169, "UNK-0x0a9", RXYA),
    Op(170, "UNK-0x0aa", RXYA), Op(171, "UNK-0x0ab", RXYA),
    Op(172, "UNK-0x0ac", RXYA), Op(173, "UNK-0x0ad", RXYA),
    Op(174, "UNK-0x0ae", RXYA), Op(175, "UNK-0x0af", RXYA),
    OpMdfr(176, "ADD", RXLY, "16_BIT_SIGNED"),
    Op(177, "UNK-0x0b1", NO_LAYOUT)>>

OPS_C0 ==
  <<Op(192, "MOV_T1", MOVE_LIT), Op(193, "MOV", MOVE_LIT),
    Op(194, "MOV_T2", MOVE_LIT), Op(195, "MOV_L_T1", MOVE_LIT_2),
    Op(196, "MOV_L", MOVE_LIT_2), Op(197, "MOV_L_T2", MOVE_LIT),
    OpMdfr(198, "MOV_U_T1", MOVE_LIT, "16_BIT_UPPER"),
    OpMdfr(199, "MOV_U", MOVE_LIT, "16_BIT_UPPER"), Op(200, "MOV", MOVE),
    Op(201, "MOV_T1", MOVE), Op(202, "MOV_T2", MOVE),
    Op(203, "UNK-0x0cb", RXYA), Op(204, "XOR", RXY), Op(205, "OR", RXY),
    Op(206, "AND", RXY), Op(207, "I_ABS_FFS", MOVE), Op(208, "I_INV", MOVE),
    Op(209, "CMPL", MOVE), Op(210, "I_ABS", MOVE), Op(211, "I_CMP", RXY)>>

OPS_D4 ==
  <<Op(212, "I_CMP", RXLY), Op(213, "LIMIT", RXYA), Op(214, "LIMIT_T1", RXYA),
    Op(215, "TST_NEG", RXYA), Op(216, "UNK-0x0d8", RXYA),
    Op(217, "UNK-0x0d9", RXYA), Op(218, "UNK-0x0da", RXYA),
    Op(219, "UNK-0x0db", RXY), Op(220, "UNK-0x0dc", RXYA),
    Op(221, "UNK-0x0dd", RXY), Op(222, "UNK-0x0de", MOVE),
    Op(223, "UNK-0x0df", RXYA), Op(224, "FFS", MOVE), Op(225, "FFU", MOVE),
    Op(226, "RO_L", RXY), Op(227, "RO_R", RXY), Op(228, "RO_L", RXLY),
    Op(229, "RO_R", RXLY)>>

OPS_E6 ==
  <<Op(230, "SH_L", RXY), Op(231, "SH_R", RXY), Op(232, "SH_L", RXLY),
    Op(233, "SH_R", RXLY), Op(234, "A_SH_L", RXY), Op(235, "A_SH_R", RXY),
    Op(236, "A_SH_L", RXLY), Op(237, "A_SH_R", RXLY),
    Op(238, "SH_R_CHK", RXY), Op(239, "SH_R_CHK", RXLY),
    Op(240, "SET_SEM_G_BIT", RXLY), Op(241, "CLR_SEM_G_BIT", RXLY),
    Op(242, "SET_BIT", RXY)>>

OPS_F3 ==
  <<Op(243, "SET_BIT", RXLY), Op(244, "CLR_BIT", RXY),
    Op(245, "CLR_BIT", RXLY), Op(246, "TGL_BIT", RXY),
    Op(247, "TGL_BIT", RXLY), Op(248, "SET_BITS", RXYA),
    Op(249, "SET_BITS_T1", RXYA), Op(250, "SET_BITS_T2", RXYA),
    Op(251, "GET_BITS", RXY), Op(252, "UNK-0x0fc", RXYA),
    Op(253, "UNK-0x0fd", RXY), Op(254, "POP", STACK),
    OpSwap(255, "PUSH", STACK)>>

(* All of them; 0x38 to 0x3f and 0xb2 to 0xbf are not known. *)
asm_ops ==
  OPS_00 \o OPS_14 \o OPS_28 \o OPS_40 \o OPS_54 \o OPS_68 \o OPS_7C
  \o OPS_90 \o OPS_A4 \o OPS_C0 \o OPS_D4 \o OPS_E6 \o OPS_F3

(***************************************************************************)
(* Parallel operations: name, number, layout and, of some, a second name   *)
(* that goes with a bit of the words.                                      *)
(***************************************************************************)
ParInfo(name, op, layout, swap, alt, bit) ==
  [name |-> name, op |-> op, layout |-> layout, swap |-> swap,
   alt |-> alt, bit |-> bit]
Par(name, op, layout)     == ParInfo(name, op, layout, FALSE, "", {})
ParSwap(name, op, layout) == ParInfo(name, op, layout, TRUE, "", {})
AltOp(name, op, layout, alt, bit) ==
  ParInfo(name, op, layout, FALSE, alt, {bit})

parallel_2_asm_ops ==
  << AltOp("MOVX_P", 16, "P_MOVX_DUAL_READ_2", "MOVX_T1_P", 12),
     AltOp("MOVX_T1_P", 32, "P_MOVX_DUAL_WRITE_2", "MOVX_P", 20),
     AltOp("MOV_T1_P", 48, "P_MOV_2", "MOV_P", 16),
     Par("MOVX_P", 50, "P_MOVX_2"), Par("MOVX_P", 51, "P_MOVX_2"),
     Par("MOVX_T1_P", 52, "P_MOVX_2"), Par("MOVX_T1_P", 53, "P_MOVX_2"),
     ParSwap("MOVX_P", 58, "P_MOVX_2"), ParSwap("MOVX_P", 59, "P_MOVX_2"),
     ParSwap("MOVX_T1_P", 60, "P_MOVX_2"), ParSwap("MOVX_T1_P", 61, "P_MOVX_2"),
     Par("EXEC_COND_P", 63, "P_EXECUTE_COND_2") >>

parallel_4_asm_ops ==
  << Par("MOV_P", 32, "P_MOV_DUAL_4"),
     Par("MOVX_T1_P", 36, "P_MOVX_READ_X_WRITE_Y_4"),
     Par("MOVX_T1_P", 37, "P_MOVX_READ_X_WRITE_Y_4"),
     Par("MOVX_P", 38, "P_MOVX_READ_X_WRITE_Y_4"),
     Par("MOVX_P", 39, "P_MOVX_READ_X_WRITE_Y_4"),
     Par("MOVX_T1_P", 40, "P_MOVX_DUAL_4"),
     Par("MOVX_T1_P", 41, "P_MOVX_DUAL_4"), Par("MOVX_P", 43, "P_MOVX_DUAL_4"),
     ParSwap("MOVX_T1_P", 44, "P_MOVX_READ_X_WRITE_Y_4"),
     ParSwap("MOVX_T1_P", 45, "P_MOVX_READ_X_WRITE_Y_4"),
     ParSwap("MOVX_P", 46, "P_MOVX_READ_X_WRITE_Y_4"),
     ParSwap("MOVX_P", 47, "P_MOVX_READ_X_WRITE_Y_4"),
     ParSwap("MOVX_T1_P", 48, "P_MOVX_DUAL_4"),
     ParSwap("MOVX_T1_P", 49, "P_MOVX_DUAL_4"),
     ParSwap("MOVX_P", 50, "P_MOVX_DUAL_4"),
     ParSwap("MOVX_P", 51, "P_MOVX_DUAL_4"),
     AltOp("MOV_T1_P", 56, "P_MOV_4", "MOV_P", 17),
     Par("MOVX_P", 57, "P_MOVX_4"), Par("MOVX_T1_P", 58, "P_MOVX_4"),
     ParSwap("MOVX_P", 61, "P_MOVX_4"), ParSwap("MOVX_T1_P", 62, "P_MOVX_4"),
     Par("EXEC_COND_P", 63, "P_EXECUTE_COND_4") >>

ParOps(len) == IF len = 2 THEN parallel_2_asm_ops ELSE parallel_4_asm_ops

=============================================================================
