------------------------------- MODULE DspCore -------------------------------
(***************************************************************************)
(* The DSP as ca0132-dsp-op-test.c uses it: what one operation does to the *)
(* registers and the two memories.  This is hardware; what is said here is *)
(* what the program that is run on it, and its comments, count on.  An     *)
(* operation with another in parallel reads all that both of them read     *)
(* before anything is written, and moves an address register that both     *)
(* memories are addressed with once.                                       *)
(*                                                                         *)
(* All that holds a value is a cell: a register, <<"REG", the value of its *)
(* text>>, or a word of a memory, <<"X" or "Y", its address>>.  A function *)
(* of cells holds all registers and the words that were written.           *)
(***************************************************************************)
EXTENDS DspOpTestProgram

Reg(o) == <<"REG", o.val>>

(* What a word holds that was not written: no two the same. *)
Unwritten(cell) == 1000000000 + 2 * cell[2] + (IF cell[1] = "Y" THEN 1 ELSE 0)
Held(cells, cell) == IF cell \in DOMAIN cells THEN cells[cell] ELSE Unwritten(cell)

(* The forms of address: the address register, and what is added to it to
   find the word, and once it is used. *)
InY(o) == o.type \in {"IND_A_REG_Y_INC", "IND_A_REG_Y_PLUS_MDFR",
                      "IND_A_REG_Y_LIT_OFFSET"}
IsInc(o)      == o.type \in {"IND_A_REG_X_INC", "IND_A_REG_Y_INC"}
IsPlusMdfr(o) == o.type \in {"IND_A_REG_X_PLUS_MDFR", "IND_A_REG_Y_PLUS_MDFR"}
IsOffset(o)   == o.type \in {"IND_A_REG_X_LIT_OFFSET", "IND_A_REG_Y_LIT_OFFSET"}

AddressReg(o) ==
  A_R(IF IsPlusMdfr(o) THEN (o.val \div 8) % 8 ELSE o.val % 8)
WordAt(cells, o) ==
  <<IF InY(o) THEN "Y" ELSE "X",
    cells[Reg(AddressReg(o))] + (IF IsOffset(o) THEN o.val \div 8 ELSE 0)>>
Step(cells, o) ==
  IF IsPlusMdfr(o) THEN cells[Reg(A_MDFR(o.val % 8))] ELSE IF IsInc(o) THEN 1 ELSE 0

(* @A_Rn_X_REG and @A_Rn_Y_REG are the words at A_Rn. *)
AtNumber(o) == (o.val % 256) - 96
IsAt(o)     == o.val \in {AT_A_R(n).val : n \in 0 .. 15}

(* The cell an operand stands for, and the value it has when it is read. *)
Cell(cells, o) ==
  CASE o.type /= "REG" -> WordAt(cells, o)
    [] IsAt(o) -> <<IF AtNumber(o) % 2 = 0 THEN "X" ELSE "Y",
                    cells[Reg(A_R(AtNumber(o) \div 2))]>>
    [] OTHER -> Reg(o)
Value(cells, o) == IF o.type = "LITERAL" THEN o.val ELSE Held(cells, Cell(cells, o))

(* Some operations read a part of the register they name. *)
Source(op, o) ==
  CASE op = "MOV_T2" -> T2(o) [] op = "MOVX_T1_P" -> T1(o) [] OTHER -> o

(* The operands that an operation moves, one or two at a time. *)
Moved(op) ==
  {[to |-> op.args[i], from |-> Source(op.op, op.args[i + 1])]
     : i \in IF op.args = <<>> THEN {} ELSE {1, op.split + 1}}

(* What is written, as cells with their values: by the moves of an operation,
   which move the address registers they write at, and by an addition, which
   also sets the conditions, to what is told apart from all else. *)
Holds(cell, val) == [cell |-> cell, val |-> val]
ByMoves(cells, op) ==
  {Holds(Cell(cells, m.to), Value(cells, m.from)) : m \in Moved(op)}
  \union {Holds(Reg(AddressReg(m.to)),
                cells[Reg(AddressReg(m.to))] + Step(cells, m.to))
            : m \in {m \in Moved(op) : m.to.type /= "REG"}}
ByAddition(cells, op) ==
  LET sum == Value(cells, op.args[2]) + Value(cells, op.args[3])
  IN {Holds(Reg(op.args[1]), sum), Holds(Reg(COND_REG), -sum)}
Written(cells, line) ==
  (CASE line.op = "ADD"  -> ByAddition(cells, line)
     [] line.op = "CALL" -> {}
     [] OTHER            -> ByMoves(cells, line))
  \union UNION {ByMoves(cells, par) : par \in line.par}

Overwritten(cells, written) ==
  [cell \in {w.cell : w \in written} |->
     (CHOOSE w \in written : w.cell = cell).val] @@ cells

(* One operation: the next state of the DSP.  Nobody knows what is done by a
   return without a call. *)
Known(d, op) == op.line.op = "RET" => d.calls /= <<>>
Ran(d, op) ==
  LET next == d.pc + op.len
      ran  == [d EXCEPT !.cells = Overwritten(@, Written(@, op.line))]
  IN CASE op.line.op = "CALL" ->
            [ran EXCEPT !.pc = op.line.args[2].val, !.calls = <<next>> \o @]
       [] op.line.op = "RET" ->
            [ran EXCEPT !.pc = Head(d.calls), !.calls = Tail(@)]
       [] OTHER -> [ran EXCEPT !.pc = next]

=============================================================================
