-------------------------- MODULE DspOpTestProgram --------------------------
(***************************************************************************)
(* The program that ca0132-dsp-op-test.c puts together, and what the DSP   *)
(* is given of it.  Two functions of it write all registers of the DSP to  *)
(* memory, one to 0x4800 on and one to 0x4900 on, and are meant to leave   *)
(* the DSP as it was.  A line of the program that the assembler does not   *)
(* take becomes one zero word, which is a NOP.                             *)
(***************************************************************************)
EXTENDS DspDisassembler, SequencesExt, TLC

(***************************************************************************)
(* Registers                                                               *)
(***************************************************************************)
R(n)       == Register(n)
A_R(n)     == Register(16 + n)
A_MDFR(n)  == Register(24 + n)
CR_0       == Register(32)
TIME(n)    == Register(88 + n)
AT_A_R(n)  == Register(96 + n)     \* @A_R0_X_REG, @A_R0_Y_REG, @A_R1_X_REG ...
COND_REG   == Register(128)
A_BASE(n)  == Register(168 + n)
A_LENG(n)  == Register(176 + n)

(* The parts of R04, R05, R12 and R13 that MOV_T1 and MOV_T2 move. *)
T1(o) == [o EXCEPT !.val = @ + 2048]
T2(o) == [o EXCEPT !.val = @ + 4096]

(***************************************************************************)
(* Lines                                                                   *)
(***************************************************************************)
Bare(op)              == Line(op, 0, <<>>, 0, "NONE", {})
Move(to, from)        == Line("MOV", 0, <<to, from>>, 0, "NONE", {})
MovePair(op, a, b, c, d) == Line(op, 0, <<a, b, c, d>>, 2, "NONE", {})

(* Registers a and b to the two memories at A_Rr, which goes on by one, or by
   its modifier; alone, or with an operation. *)
Store(op, r, a, b) ==
  {ParLine(op, <<ARegInc(r, FALSE), R(a), ARegInc(r, TRUE), R(b)>>, 2)}
StoreMdfr(r, a, b) ==
  {ParLine("MOVX_P", <<ARegPlusMdfr(r, r, FALSE), R(a),
                       ARegPlusMdfr(r, r, TRUE), R(b)>>, 2)}
With(line, par)  == [line EXCEPT !.par = par]
Push(r, a, b)    == With(Bare("NOP"), Store("MOVX_P", r, a, b))
PushT1(r, a, b)  == With(Bare("NOP"), Store("MOV_T1_P", r, a, b))

(* From the two memories at n words below A_R7; from one of them. *)
Pull(to_x, to_y, n) ==
  Line("MOVX", 2, <<to_x, ARegLitOffset(7, -n, FALSE),
                    to_y, ARegLitOffset(7, -n, TRUE)>>, 2, "NONE", {})
PullOne(to, n, y) ==
  Line("MOVX", 1, <<to, ARegLitOffset(7, -n, y)>>, 0, "NONE", {})

(* What R00 and R08 hold is stored, and the next two registers are put there. *)
create_reg_dump_asm_op(a, b) ==
  With(MovePair("MOV", R(0), a, R(8), b), StoreMdfr(6, 0, 8))

(* A call of the part with a name. *)
Call(name) == Line("CALL", 0, <<Literal(15), Literal(name)>>, 0, "NONE", {})
ret_asm    == <<Bare("RET")>>

(***************************************************************************)
(* The parts of the program                                                *)
(***************************************************************************)
(* What is about to be used is put on the stack at A_R7. *)
reg_dump_entry_asm ==
  << Bare("INT_DISABLE"), Push(7, 10, 11), Push(7, 8, 9), Push(7, 0, 1),
     With(MovePair("MOV", R(0), A_R(6), R(1), A_MDFR(6)), StoreMdfr(7, 2, 3)),
     With(MovePair("MOV", R(2), A_BASE(6), R(3), A_LENG(6)), StoreMdfr(7, 0, 1)),
     Push(7, 2, 3),
     MovePair("MOV", A_BASE(6), CR_0, A_LENG(6), CR_0),
     Pull(R(0), R(1), 4), Pull(R(2), R(3), 3), Bare("RET") >>

addr_reg_set(addr) ==
  << MovePair("MOV", A_R(6), Literal(addr), A_MDFR(6), Literal(1)) >>

reg_dump_func_start_asm ==
  << Push(6, 0, 8), Push(6, 1, 9), Push(6, 2, 10), Push(6, 3, 11),
     With(MovePair("MOV_T2", R(9), R(12), R(1), R(4)), Store("MOVX_P", 6, 4, 12)),
     With(MovePair("MOV_T2", R(11), R(13), R(3), R(5)), Store("MOVX_P", 6, 5, 13)),
     PushT1(6, 4, 12), PushT1(6, 5, 13), Push(6, 1, 9), Push(6, 3, 11),
     Push(6, 6, 14), Push(6, 7, 15), MovePair("MOV", R(0), A_R(0), R(8), A_MDFR(0)) >>
  \o [i \in 1 .. 5 |-> create_reg_dump_asm_op(A_R(i), A_MDFR(i))]
  \o << Push(6, 0, 8), Pull(R(0), R(8), 2),
        create_reg_dump_asm_op(A_R(7), A_MDFR(7)) >>
  \o [i \in 1 .. 4 |-> create_reg_dump_asm_op(TIME(2 * i - 2), TIME(2 * i - 1))]
  \o [i \in 1 .. 6 |-> create_reg_dump_asm_op(AT_A_R(2 * i - 2), AT_A_R(2 * i - 1))]
  \o << PullOne(R(2), 2, FALSE),
        With(MovePair("MOV", R(3), A_R(0), A_R(0), R(2)), StoreMdfr(6, 0, 8)),
        MovePair("MOV", R(0), AT_A_R(0), R(8), AT_A_R(1)),
        With(Move(A_R(0), R(3)), Store("MOVX_P", 6, 0, 8)),
        MovePair("MOV", R(0), AT_A_R(14), R(8), AT_A_R(15)) >>
  \o [i \in 1 .. 3 |-> create_reg_dump_asm_op(A_BASE(2 * i - 2), A_BASE(2 * i - 1))]
  \o << Push(6, 0, 8), PullOne(R(0), 1, FALSE), Move(R(8), A_BASE(7)) >>
  \o [i \in 1 .. 3 |-> create_reg_dump_asm_op(A_LENG(2 * i - 2), A_LENG(2 * i - 1))]
  \o << Push(6, 0, 8), PullOne(R(0), 1, TRUE), Move(R(8), A_LENG(7)) >>

create_reg_dump_range_ops(start, cnt) ==
  [i \in 1 .. cnt \div 2 |->
     create_reg_dump_asm_op(R(start + 2 * i - 2), R(start + 2 * i - 1))]
create_gpram_dump_ops ==
  [i \in 1 .. 16 |-> create_reg_dump_asm_op(XgpRam(i - 1), YgpRam(i - 1))]

(* Fault: the conditions are saved after the addition that sets them. *)
reg_dump_exit_asm_Late ==
  << Push(6, 0, 8), Pull(R(0), R(1), 1),
     MovePair("MOV", A_BASE(6), R(0), A_LENG(6), R(1)),
     Pull(A_R(6), A_MDFR(6), 2), Pull(R(2), R(3), 3), Pull(R(0), R(1), 4),
     Pull(R(8), R(9), 5),
     Line("ADD", 0, <<A_R(7), A_R(7), Literal(-6)>>, 0, "NONE", {}),
     Move(R(10), COND_REG), Move(COND_REG, R(10)), Pull(R(10), R(11), 0),
     Bare("INT_ENABLE"), Bare("RET") >>

(* The last registers are stored; what is on the stack is put back. *)
reg_dump_exit_asm ==
  << Push(6, 0, 8), Pull(R(0), R(1), 1),
     MovePair("MOV", A_BASE(6), R(0), A_LENG(6), R(1)),
     Pull(A_R(6), A_MDFR(6), 2), Pull(R(2), R(3), 3), Pull(R(0), R(1), 4),
     Pull(R(8), R(9), 5), Move(R(10), COND_REG),
     Line("ADD", 0, <<A_R(7), A_R(7), Literal(-6)>>, 0, "NONE", {}),
     Move(COND_REG, R(10)), Pull(R(10), R(11), 0),
     Bare("INT_ENABLE"), Bare("RET") >>

(***************************************************************************)
(* The names under which the words of an area are compared                 *)
(***************************************************************************)
Pairs(s) == FlattenSeq(s)
initial_reg_dump_strs ==
  Pairs([i \in 1 .. 6 |-> <<R(i - 1), R(i + 7)>>])
  \o <<T1(R(4)), T1(R(12)), T1(R(5)), T1(R(13)),
       T2(R(4)), T2(R(12)), T2(R(5)), T2(R(13)), R(6), R(14), R(7), R(15)>>
  \o Pairs([i \in 1 .. 8 |-> <<A_R(i - 1), A_MDFR(i - 1)>>])
  \o [i \in 1 .. 8 |-> TIME(i - 1)] \o [i \in 1 .. 16 |-> AT_A_R(i - 1)]
  \o [i \in 1 .. 8 |-> A_BASE(i - 1)] \o [i \in 1 .. 8 |-> A_LENG(i - 1)]
reg_dump_strs ==
  initial_reg_dump_strs \o [i \in 1 .. 40 |-> R(127 + i)]
  \o [i \in 1 .. 70 |-> R(183 + i)]
  \o Pairs([i \in 1 .. 16 |-> <<XgpRam(i - 1), YgpRam(i - 1)>>])

(***************************************************************************)
(* The program as the DSP has it                                           *)
(***************************************************************************)
(* assemble_asm_strs: the words of a line, whose number they say themselves. *)
Assembled(line) == UNION {OpWords(line, c.form, c.alt) : c \in Choice(line)}

(* The operation that words are, and the number of words. *)
Operation(words) ==
  [len  |-> OpLen(words),
   line |-> CHOOSE line \in {Disassembled(words, s.form, s.alt)
                               : s \in ShownOps(words)} : TRUE]

DSP_FUNC_PMEM_DSP_ADDR == 57088     \* 0xdf00

(* A part of the program: the name it is called by, and its lines. *)
Part(name, lines) == [name |-> name, lines |-> lines]
DumpTo(name, addr) ==
  Part(name, <<Call("entry")>> \o addr_reg_set(addr)
             \o <<Call("reg_dump"), Call("exit")>> \o ret_asm)
Parts ==
  << Part("entry", reg_dump_entry_asm), Part("exit", reg_dump_exit_asm),
     Part("reg_dump", reg_dump_func_start_asm \o create_reg_dump_range_ops(128, 40)
                      \o create_reg_dump_range_ops(184, 70)
                      \o create_gpram_dump_ops \o ret_asm),
     DumpTo("pre_op", 18432),      \* 0x4800
     DumpTo("post_op", 18688),     \* 0x4900
     Part("pre_op_func", <<Call("pre_op")>>),
     Part("post_op_func", <<Call("post_op")>>),
     Part("test_op", <<>>) >>

(* The parts follow each other, and call those before them. *)
Located(line, addr) ==
  IF line.op = "CALL" THEN [line EXCEPT !.args[2] = Literal(addr[@.val])] ELSE line
Placed ==
  LET PlacePart(placed, part) ==
        LET ops == [i \in DOMAIN part.lines |->
                      Operation(Assembled(Located(part.lines[i], placed.addr)))]
            At(i)   == placed.next + Cardinality(UNION {{j} \X (1 .. ops[j].len)
                                                          : j \in 1 .. i - 1})
            line_at == AntiFunction([i \in DOMAIN ops |-> At(i)])
        IN [next |-> At(Len(ops) + 1),
            addr |-> (part.name :> placed.next) @@ placed.addr,
            code |-> [a \in DOMAIN line_at |-> ops[line_at[a]]] @@ placed.code]
  IN FoldLeft(PlacePart, [next |-> DSP_FUNC_PMEM_DSP_ADDR, addr |-> <<>>, code |-> <<>>],
              Parts)

(* The steps that one of the two functions takes, with its call. *)
op_cnt ==
  Len(reg_dump_entry_asm) + Len(reg_dump_exit_asm) + Len(reg_dump_func_start_asm)
  + 20 + 35 + 16 + 1 + 1 + 4 + 1

(* What main() knows of the program: the operations, the calls of its two
   functions, where the operation typed will be, and the names. *)
create_reg_dump_function ==
  [pgm_data      |-> Placed.code,
   addr          |-> Placed.addr,
   op_cnt        |-> op_cnt,
   reg_dump_strs |-> reg_dump_strs]

=============================================================================
