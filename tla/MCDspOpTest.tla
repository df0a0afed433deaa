----------------------------- MODULE MCDspOpTest -----------------------------
(* An instance of DspOpTest for TLC: all registers hold something else, and  *)
(* the operations typed change a register of each kind.                      *)
EXTENDS DspOpTest

(* The program, put together once. *)
MCData == LET program == create_reg_dump_function IN program

MCStart ==
  [cell \in {Reg(o) : o \in ToSet(reg_dump_strs) \union {R(n) : n \in 0 .. 255}} |->
     CASE cell = Reg(A_MDFR(7)) -> 1
       [] cell = Reg(CR_0)      -> 0
       [] OTHER                 -> 1000 * cell[2]]

MCTestOps ==
  {Assembled(line) : line \in
     {MovePair("MOV", R(6), R(1), A_R(6), R(20)),
      Line("ADD", 0, <<A_R(7), A_R(7), Literal(16)>>, 0, "NONE", {}),
      MovePair("MOV", XgpRam(3), R(40), A_BASE(6), R(41))}}

=============================================================================
