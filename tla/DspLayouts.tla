----------------------------- MODULE DspLayouts -----------------------------
(***************************************************************************)
(* The layouts of the DSP operations.  An operation takes one, two or four *)
(* words of 25 bits; its bits are numbered from 0, the first bit of the    *)
(* first word, to 99.  A word sequence is the set of the bits that are     *)
(* one.  A layout is a list of alternatives, each with the value that a    *)
(* field of the words has when it is used (when), the fields of its        *)
(* operands, and bits that are always one.  A double alternative holds two *)
(* operations in one; split is the number of operands of the first.  opt   *)
(* says that a parallel operation may come with it.                        *)
(***************************************************************************)
EXTENDS Integers, Sequences

(* The places of the bits of a field, first bit first. *)
Span(at, n) == [i \in 1 .. n |-> at + i - 1]

(* A field, by the direction of its operand: one that is written, a source,
   the X, Y and A operands of an arithmetic operation, or none of these. *)
Field(dir, type, place) == [dir |-> dir, type |-> type, place |-> place]
D(type, at, n) == Field("DST", type, Span(at, n))
S(type, at, n) == Field("SRC", type, Span(at, n))
X(type, at, n) == Field("X", type, Span(at, n))
Y(type, at, n) == Field("Y", type, Span(at, n))
A(type, at, n) == Field("A", type, Span(at, n))
N(type, at, n) == Field("NONE", type, Span(at, n))

(* A field in two parts. *)
D2(type, at, n, at2, n2) == Field("DST", type, Span(at, n) \o Span(at2, n2))
S2(type, at, n, at2, n2) == Field("SRC", type, Span(at, n) \o Span(at2, n2))
X2(type, at, n, at2, n2) == Field("X", type, Span(at, n) \o Span(at2, n2))
Y2(type, at, n, at2, n2) == Field("Y", type, Span(at, n) \o Span(at2, n2))
A2(type, at, n, at2, n2) == Field("A", type, Span(at, n) \o Span(at2, n2))

When(at, n, val) == [place |-> Span(at, n), val |-> val]
Always           == When(0, 0, 0)

Alternative(when, opt, ones, first, second) ==
  [when  |-> when, opt |-> opt, ones |-> ones, fields |-> first \o second,
   split |-> IF second = <<>> THEN 0 ELSE Len(first)]

Single(when, ones, fields) == Alternative(when, FALSE, ones, fields, <<>>)
Double(when, ones, first, second) ==
  Alternative(when, FALSE, ones, first, second)
OptSingle(when, ones, fields) == Alternative(when, TRUE, ones, fields, <<>>)
OptDouble(when, ones, first, second) ==
  Alternative(when, TRUE, ones, first, second)

(***************************************************************************)
(* The layouts of parallel operations, by the length of the operation they *)
(* come with.                                                              *)
(***************************************************************************)
P_MOV_2 ==
  << Single(Always, {},
       <<D("REG_4", 23, 4), S("REG_4", 17, 4)>>) >>

P_MOVX_2 ==
  << Single(When(16, 1, 0), {},
       <<D("REG_4", 17, 4), S2("A_REG", 15, 1, 21, 3)>>),
     Single(When(16, 1, 1), {},
       <<D("REG_4", 17, 4), S2("A_REG_PLUS_MDFR", 15, 1, 21, 6)>>) >>

P_MOVX_DUAL_READ_2 ==
  << Double(When(16, 1, 0), {},
       <<D("REG_4", 20, 4), S("A_REG_X", 13, 3)>>,
       <<D("REG_4", 24, 4), S("A_REG_Y", 17, 3)>>),
     Double(When(16, 1, 1), {},
       <<D("REG_4", 20, 4), S("A_REG_X_INC", 13, 3)>>,
       <<D("REG_4", 24, 4), S("A_REG_Y_INC", 17, 3)>>) >>

P_MOVX_DUAL_WRITE_2 ==
  << Double(When(24, 1, 0), {},
       <<D("A_REG_X", 21, 3), S("REG_4", 12, 4)>>,
       <<D("A_REG_Y", 25, 3), S("REG_4", 16, 4)>>),
     Double(When(24, 1, 1), {},
       <<D("A_REG_X_INC", 21, 3), S("REG_4", 12, 4)>>,
       <<D("A_REG_Y_INC", 25, 3), S("REG_4", 16, 4)>>) >>

P_EXECUTE_COND_2 ==
  << Single(Always, {},
       <<N("LITERAL_8", 20, 8)>>) >>

P_MOV_4 ==
  << Single(Always, {},
       <<D("REG_4", 24, 4), S("REG_4", 18, 4)>>) >>

P_MOV_DUAL_4 ==
  << Double(Always, {},
       <<D("REG_4", 26, 4), S("REG_4", 16, 4)>>,
       <<D("REG_4", 32, 4), S("REG_4", 20, 4)>>) >>

P_MOVX_4 ==
  << Single(When(17, 1, 0), {},
       <<D("REG_4", 18, 4), S2("A_REG", 16, 1, 22, 3)>>),
     Single(When(17, 1, 1), {},
       <<D("REG_4", 18, 4), S2("A_REG_PLUS_MDFR", 16, 1, 22, 6)>>) >>

P_MOVX_DUAL_4 ==
  << Double(When(15, 1, 0), {},
       <<D("REG_4", 16, 4), S("A_REG_X", 24, 3)>>,
       <<D("REG_4", 20, 4), S("A_REG_Y", 30, 3)>>),
     Double(When(15, 1, 1), {},
       <<D("REG_4", 16, 4), S("A_REG_X_PLUS_MDFR", 24, 6)>>,
       <<D("REG_4", 20, 4), S("A_REG_Y_PLUS_MDFR", 30, 6)>>) >>

P_MOVX_READ_X_WRITE_Y_4 ==
  << Double(When(15, 1, 0), {},
       <<D("REG_4", 16, 4), S("A_REG_X", 24, 3)>>,
       <<D("A_REG_Y", 30, 3), S("REG_4", 20, 4)>>),
     Double(When(15, 1, 1), {},
       <<D("REG_4", 16, 4), S("A_REG_X_PLUS_MDFR", 24, 6)>>,
       <<D("A_REG_Y_PLUS_MDFR", 30, 6), S("REG_4", 20, 4)>>) >>

P_EXECUTE_COND_4 ==
  << OptDouble(When(16, 2, 2), {},
       <<N("LITERAL_8", 28, 8)>>,
       <<N("LITERAL_8", 20, 8)>>) >>

(***************************************************************************)
(* The layouts of operations, by their length.                             *)
(***************************************************************************)
MOV_1 ==
  << Single(When(16, 1, 0), {},
       <<D("REG_7", 9, 7), S("REG_7", 18, 7)>>),
     Double(When(16, 1, 1), {24},
       <<D("REG_4", 17, 4), S("REG_3", 21, 3)>>,
       <<D("REG_4", 9, 4), S("REG_3_8", 13, 3)>>) >>

MOVX_MDFR_OFFSET_1 ==
  << Single(When(21, 1, 1), {},
       <<D("REG_5", 16, 5), S2("A_REG_Y_MDFR_OFFSET", 13, 3, 22, 3)>>),
     Single(Always, {},
       <<D("REG_5", 16, 5), S2("A_REG_X_MDFR_OFFSET", 13, 3, 22, 3)>>) >>

MOVX_LIT_OFFSET_1 ==
  << Single(Always, {},
       <<D("REG_5", 16, 5), S2("A_REG_INT_7_OFFSET", 9, 7, 21, 4)>>) >>

R_X_Y_1 ==
  << Single(When(16, 1, 0), {},
       <<D("REG_5", 9, 5), X("REG_5", 20, 5), Y2("REG_4", 15, 1, 17, 3)>>),
     Double(When(16, 1, 1), {24},
       <<D("REG_3_ACC", 17, 3), X("REG_2_T2", 22, 2), Y("REG_2", 20, 2)>>,
       <<D("REG_3_ACC", 9, 3), X("REG_2_T1", 14, 2), Y("REG_2_8", 12, 2)>>) >>

R_X_Y_A_1 ==
  << Single(Always, {},
       <<D("REG_3_FMA", 9, 3), X("REG_4", 17, 4), Y("REG_4", 12, 4),
         A("REG_4", 21, 4)>>) >>

R_X_LIT_8_Y_1 ==
  << Single(Always, {},
       <<D("REG_4", 21, 4), X("REG_4", 17, 4), Y("LITERAL_8_INT", 9, 8)>>) >>

PC_OFFSET_1 ==
  << Single(Always, {},
       <<N("LITERAL_8", 9, 8), N("LITERAL_8_INT_PC_OFFSET", 17, 8)>>) >>

LOOP_PC_OFFSET_REG_CNT_1 ==
  << Single(Always, {},
       <<N("REG_5", 12, 5), N("LITERAL_8_INT_PC_OFFSET", 17, 8)>>) >>

LOOP_PC_OFFSET_LIT_8_CNT_1 ==
  << Single(Always, {},
       <<N("LITERAL_8_INT", 9, 8), N("LITERAL_8_INT_PC_OFFSET", 17, 8)>>) >>

PC_SET_REG_1 ==
  << Single(When(18, 1, 1), {},
       <<N("LITERAL_8", 9, 8), N("A_REG_CALL_MDFR", 19, 3),
         N("A_REG_CALL", 22, 3)>>),
     Single(Always, {},
       <<N("LITERAL_8", 9, 8), N("A_REG_CALL", 22, 3)>>) >>

STACK_UNK_1 ==
  << Single(Always, {},
       <<D("REG_11", 14, 11), S("C_STK_5", 9, 5)>>) >>

INTERRUPT_CLR_1 ==
  << Single(Always, {},
       <<N("LITERAL_8", 17, 8)>>) >>

MOV_2 ==
  << Single(When(10, 7, 124), {},
       <<D("LITERAL_16_ADDR", 29, 21), S("REG_4", 17, 4)>>),
     Single(When(10, 7, 125), {},
       <<D("REG_4", 17, 4), S("LITERAL_16_ADDR", 29, 21)>>),
     OptSingle(When(38, 1, 0), {49},
       <<D("REG_10", 28, 10), S("REG_10", 39, 10)>>),
     OptDouble(When(38, 1, 1), {49},
       <<D("REG_4", 39, 4), S("REG_4", 45, 4)>>,
       <<D("REG_4", 28, 4), S("REG_4", 34, 4)>>) >>

MOVX_MDFR_OFFSET_2 ==
  << Double(When(46, 1, 0), {},
       <<D("REG_5", 41, 5), S2("A_REG_X_MDFR_OFFSET", 38, 3, 47, 3)>>,
       <<D("REG_5", 21, 5), S2("A_REG_Y_MDFR_OFFSET", 18, 3, 27, 3)>>),
     Single(When(23, 1, 1), {46},
       <<D2("REG_5_MOVX", 21, 1, 41, 5),
         S2("A_REG_Y_MDFR_OFFSET", 38, 3, 47, 3)>>),
     Single(Always, {46},
       <<D2("REG_5_MOVX", 21, 1, 41, 5),
         S2("A_REG_X_MDFR_OFFSET", 38, 3, 47, 3)>>) >>

MOVX_LIT_OFFSET_2 ==
  << Double(When(46, 1, 0), {},
       <<D("REG_5", 41, 5), S2("A_REG_X_INT_11_OFFSET", 30, 11, 47, 3)>>,
       <<D("REG_5", 21, 5), S2("A_REG_Y_INT_11_OFFSET", 10, 11, 27, 3)>>),
     Single(Always, {46},
       <<D2("REG_5_MOVX", 21, 1, 41, 5),
         S2("A_REG_INT_17_OFFSET", 23, 18, 47, 3)>>) >>

R_X_Y_2 ==
  << Single(When(10, 7, 125), {},
       <<D("REG_4", 17, 4), X("LITERAL_16_ADDR", 29, 21), Y("REG_4", 25, 4)>>),
     OptSingle(When(38, 1, 0), {},
       <<D("REG_7", 28, 7), X("REG_7", 43, 7), Y2("REG_7", 35, 3, 39, 4)>>),
     OptDouble(When(38, 1, 1), {49},
       <<D("REG_4", 39, 4), X("REG_3_X_T1", 46, 3), Y("REG_3_Y_T1", 43, 3)>>,
       <<D("REG_4", 28, 4), X("REG_3_X_T2", 35, 3), Y("REG_3_Y_T2", 32, 3)>>) >>

R_X_Y_A_2 ==
  << OptDouble(When(30, 2, 0), {},
       <<D("REG_2_4", 39, 2), X("REG_3_FMA_X_T1", 44, 3),
         Y("REG_3_FMA_Y_T1", 41, 3), A("REG_3_FMA_A_T1", 47, 3)>>,
       <<D("REG_2_12", 28, 2), X("REG_3_FMA_X_T2", 33, 3),
         Y("REG_3_FMA_Y_T2", 30, 3), A("REG_3_FMA_A_T1", 36, 3)>>),
     OptSingle(When(30, 2, 3), {30, 31, 32},
       <<D("REG_5", 33, 5), X("REG_4", 42, 4), Y("REG_4", 38, 4),
         A("REG_4", 46, 4)>>) >>

MOV_LIT_16_2 ==
  << Double(Always, {},
       <<D("REG_11", 39, 11), S("LITERAL_16", 12, 16)>>,
       <<D("REG_11", 28, 11), S("LITERAL_16", 12, 16)>>) >>

R_X_LIT_16_Y_2 ==
  << Single(Always, {},
       <<D("REG_11", 39, 11), X("REG_11", 28, 11), Y("LITERAL_16", 12, 16)>>) >>

PC_LIT_16_2 ==
  << Single(Always, {},
       <<N("LITERAL_8", 20, 8), N("LITERAL_16", 34, 16)>>) >>

LOOP_PC_LIT_16_2 ==
  << Single(When(9, 1, 0), {},
       <<N("REG_4", 24, 4), N("LITERAL_16", 34, 16)>>),
     Single(When(9, 1, 1), {},
       <<N("LITERAL_16", 12, 16), N("LITERAL_16", 34, 16)>>) >>

STACK_UNK_2 ==
  << OptSingle(Always, {},
       <<D("REG_11", 39, 11), S("C_STK_11", 28, 11)>>) >>

MOV_4 ==
  << OptDouble(Always, {36},
       <<D("REG_11", 77, 11), S("REG_11", 89, 11)>>,
       <<D("REG_11", 53, 11), S("REG_11", 65, 11)>>) >>

R_X_Y_4 ==
  << Double(When(10, 3, 0), {},
       <<D("REG_11", 67, 11), X("REG_11", 89, 11), Y("REG_11", 78, 11)>>,
       <<D("REG_11", 34, 11), X("REG_11", 56, 11), Y("REG_11", 45, 11)>>),
     OptSingle(When(36, 1, 0), {},
       <<D("REG_11", 67, 11), X("REG_11", 89, 11), Y("REG_11", 78, 11)>>),
     OptDouble(When(36, 1, 1), {},
       <<D("REG_11", 67, 11), X("REG_11", 89, 11), Y("REG_11", 78, 11)>>,
       <<D2("REG_11_10_OFFSET", 37, 10, 67, 11),
         X2("REG_11_10_OFFSET", 57, 10, 89, 11),
         Y2("REG_11_10_OFFSET", 47, 10, 78, 11)>>) >>

R_X_Y_A_4 ==
  << Double(When(10, 2, 0), {},
       <<D("REG_11", 56, 11), X("REG_11", 78, 11), Y("REG_11", 67, 11),
         A("REG_11", 89, 11)>>,
       <<D("REG_11", 12, 11), X("REG_11", 34, 11), Y("REG_11", 23, 11),
         A("REG_11", 45, 11)>>),
     OptDouble(When(39, 1, 0), {36, 37, 38},
       <<D("REG_11", 56, 11), X("REG_11", 78, 11), Y("REG_11", 67, 11),
         A("REG_11", 89, 11)>>,
       <<D2("REG_11_4_OFFSET", 40, 4, 56, 11),
         X2("REG_11_4_OFFSET", 44, 4, 78, 11),
         Y2("REG_11_4_OFFSET", 48, 4, 67, 11),
         A2("REG_11_4_OFFSET", 52, 4, 89, 11)>>),
     OptSingle(When(39, 1, 1), {36, 37, 38},
       <<D("REG_11", 56, 11), X("REG_11", 78, 11), Y("REG_11", 67, 11),
         A("REG_11", 89, 11)>>) >>

MOV_LIT_32_4 ==
  << Double(Always, {},
       <<D("REG_11", 89, 11), S("LITERAL_32", 42, 32)>>,
       <<D("REG_11", 78, 11), S("LITERAL_32", 10, 32)>>) >>

R_X_LIT_32_Y_4 ==
  << Single(When(77, 1, 1), {},
       <<D("REG_11", 78, 11), X("REG_11", 89, 11), Y("LITERAL_32", 42, 32)>>),
     Double(Always, {},
       <<D("REG_5", 90, 5), X("REG_5", 95, 5), Y("LITERAL_32", 42, 32)>>,
       <<D("REG_5", 80, 5), X("REG_5", 85, 5), Y("LITERAL_32", 10, 32)>>) >>

NOP ==
  << OptSingle(Always, {},
       <<N("NOP", 9, 1)>>) >>

(* No layout: the operation does not come in this length. *)
NONE == <<>>

(* A layout by its name; operations name their layouts. *)
Layout ==
  [P_MOV_2 |-> P_MOV_2, P_MOVX_2 |-> P_MOVX_2,
   P_MOVX_DUAL_READ_2 |-> P_MOVX_DUAL_READ_2,
   P_MOVX_DUAL_WRITE_2 |-> P_MOVX_DUAL_WRITE_2,
   P_EXECUTE_COND_2 |-> P_EXECUTE_COND_2, P_MOV_4 |-> P_MOV_4,
   P_MOV_DUAL_4 |-> P_MOV_DUAL_4, P_MOVX_4 |-> P_MOVX_4,
   P_MOVX_DUAL_4 |-> P_MOVX_DUAL_4,
   P_MOVX_READ_X_WRITE_Y_4 |-> P_MOVX_READ_X_WRITE_Y_4,
   P_EXECUTE_COND_4 |-> P_EXECUTE_COND_4, MOV_1 |-> MOV_1,
   MOVX_MDFR_OFFSET_1 |-> MOVX_MDFR_OFFSET_1,
   MOVX_LIT_OFFSET_1 |-> MOVX_LIT_OFFSET_1,
   R_X_Y_1 |-> R_X_Y_1, R_X_Y_A_1 |-> R_X_Y_A_1,
   R_X_LIT_8_Y_1 |-> R_X_LIT_8_Y_1, PC_OFFSET_1 |-> PC_OFFSET_1,
   LOOP_PC_OFFSET_REG_CNT_1 |-> LOOP_PC_OFFSET_REG_CNT_1,
   LOOP_PC_OFFSET_LIT_8_CNT_1 |-> LOOP_PC_OFFSET_LIT_8_CNT_1,
   PC_SET_REG_1 |-> PC_SET_REG_1, STACK_UNK_1 |-> STACK_UNK_1,
   INTERRUPT_CLR_1 |-> INTERRUPT_CLR_1, MOV_2 |-> MOV_2,
   MOVX_MDFR_OFFSET_2 |-> MOVX_MDFR_OFFSET_2,
   MOVX_LIT_OFFSET_2 |-> MOVX_LIT_OFFSET_2,
   R_X_Y_2 |-> R_X_Y_2, R_X_Y_A_2 |-> R_X_Y_A_2,
   MOV_LIT_16_2 |-> MOV_LIT_16_2, R_X_LIT_16_Y_2 |-> R_X_LIT_16_Y_2,
   PC_LIT_16_2 |-> PC_LIT_16_2, LOOP_PC_LIT_16_2 |-> LOOP_PC_LIT_16_2,
   STACK_UNK_2 |-> STACK_UNK_2, MOV_4 |-> MOV_4,
   R_X_Y_4 |-> R_X_Y_4, R_X_Y_A_4 |-> R_X_Y_A_4,
   MOV_LIT_32_4 |-> MOV_LIT_32_4, R_X_LIT_32_Y_4 |-> R_X_LIT_32_Y_4,
   NOP |-> NOP, NONE |-> NONE]

=============================================================================
