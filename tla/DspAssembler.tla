---------------------------- MODULE DspAssembler ----------------------------
(***************************************************************************)
(* How the assembler turns a line into the words of an operation: which    *)
(* operation, length and layout it takes (find_compatible_asm_opcode) and  *)
(* which bits it sets (create_op_words).                                   *)
(*                                                                         *)
(* A line is what get_asm_data_from_str makes of its text: the name of the *)
(* operation, its length suffix (0 for none), its operands, how many stand *)
(* before the ":" of a double operation, the modifier of its sources       *)
(* (INC for "++" ...), and the parallel operation before the "/", as a set *)
(* that is empty if there is none.                                         *)
(***************************************************************************)
EXTENDS DspOps, DspOperands, FiniteSetsExt

Line(op, len, args, split, mdfr, par) ==
  [op |-> op, len |-> len, args |-> args, split |-> split, mdfr |-> mdfr,
   par |-> par]
ParLine(op, args, split) == [op |-> op, args |-> args, split |-> split]

LEN_IDS == [l \in {1, 2, 4} |-> CASE l = 1 -> 1 [] l = 2 -> 2 [] l = 4 -> 3]

(* Bit k of a 32-bit number, which TLC keeps as a signed one. *)
Bit(v, k) == IF k = 31 THEN v < 0 ELSE (v \div 2^k) % 2 = 1

(* The bits that are one when the low bits of v are put into a field. *)
Put(place, v) ==
  {place[j] : j \in {i \in DOMAIN place : Bit(v, Len(place) - i)}}

(***************************************************************************)
(* Which layout                                                            *)
(***************************************************************************)
(* The field of operand i: of a pair that changes places, the other's. *)
Swapped(swap, i) == IF ~swap THEN i ELSE IF i % 2 = 1 THEN i + 1 ELSE i - 1

(* The number of operand i in its half of the line, and the operand it is
   compared with: for a literal the one in the second half, for a register
   the one in the first. *)
OperandNum(line, i) == IF i > line.split THEN i - line.split ELSE i
Twin(line, type, i) ==
  IF type = "LITERAL_16" THEN line.args[line.split + OperandNum(line, i)]
                         ELSE line.args[OperandNum(line, i)]

(* check_op_layout_operand_compatibility: the alternatives of a layout that
   take the operands of a line. *)
Compatible(layout, line, swap, mdfr, needs_opt) ==
  {k \in DOMAIN layout :
     /\ needs_opt => layout[k].opt
     /\ Len(layout[k].fields) = Len(line.args)
     /\ \A i \in DOMAIN line.args :
          LET type == layout[k].fields[Swapped(swap, i)].type
          IN Fits(type, line.args[i], Twin(line, type, i), mdfr)}

(* The operations in one length each, with their layout for it; and the
   parallel ones that come with a length. *)
Forms ==
  {[op |-> info.op, name |-> info.name, mdfr |-> info.mdfr, swap |-> info.swap,
    len |-> len, layout |-> Layout[info.layouts[LEN_IDS[len]]]]
     : info \in Range(asm_ops), len \in {1, 2, 4}}
ParForms ==
  [len \in {2, 4} |->
   {[op |-> info.op, name |-> info.name, alt |-> info.alt, bit |-> info.bit,
     swap |-> info.swap, len |-> len, layout |-> Layout[info.layout]]
      : info \in Range(ParOps(len))}]

(* Fault: the lengths are tried from the largest. *)
Before_Largest(c, d) ==
  \/ c.form.op < d.form.op
  \/ c.form.op = d.form.op /\ c.form.len > d.form.len
  \/ c.form = d.form /\ c.alt < d.alt

(* What is found first: the operations are tried in the order of the table,
   which is that of their numbers, each in its lengths from the smallest, and
   the alternatives of a layout in their order.  The first of a set, as a
   set, with its alternative. *)
Before(c, d) ==
  \/ c.form.op < d.form.op
  \/ c.form.op = d.form.op /\ c.form.len < d.form.len
  \/ c.form = d.form /\ c.alt < d.alt
First(found) ==
  {[form |-> c.form, alt |-> c.form.layout[c.alt]]
     : c \in {c \in found : \A d \in found : c = d \/ Before(c, d)}}
Found(form, alts) == {[form |-> form, alt |-> k] : k \in alts}

(* find_compatible_p_op_info: the parallel operation for a length, with the
   alternative of its layout. *)
ParFits(par, len) ==
  UNION {Found(form, Compatible(form.layout, par, form.swap, "NONE", FALSE))
         : form \in {f \in ParForms[len] : par.op \in {f.name, f.alt}}}
ParChoice(par, len) == First(ParFits(par, len))

(* get_compatible_op_len: a length suffix is taken as it is. *)
AllowedLens(line) ==
  IF line.len /= 0 THEN {line.len}
  ELSE {l \in {1, 2, 4} :
          \A par \in line.par : l /= 1 /\ ParFits(par, l) /= {}}

(* Some modifiers are not seen in a line (those after MDFR_HINT_START). *)
Hints == {"16_BIT_UPPER", "16_BIT_SIGNED"}
MdfrFits(line, form) ==
  line.mdfr \in (IF form.mdfr \in Hints THEN {form.mdfr, "NONE"}
                                         ELSE {form.mdfr})

(* check_op_layout_compatibility: what of the layout for a length is
   compatible with a line. *)
LayoutFits(line, form) ==
  IF line.args = <<>> /\ form.layout = Layout.NOP THEN {1}
  ELSE Compatible(form.layout, line, form.swap, form.mdfr, line.par /= {})

(* The operations of a name in the table, those of them that a line may be,
   and the one it is, if there is one. *)
Names == {info.name : info \in Range(asm_ops)}
Named == [name \in Names |-> {form \in Forms : form.name = name}]
OpFits(line) ==
  UNION {Found(form, LayoutFits(line, form))
         : form \in {f \in IF line.op \in Names THEN Named[line.op] ELSE {} :
                       MdfrFits(line, f) /\ f.len \in AllowedLens(line)}}
Choice(line) == First(OpFits(line))

(***************************************************************************)
(* Which bits                                                              *)
(***************************************************************************)
OpcodeBits(op, len) ==
  CASE len = 1 -> Put(Span(1, 8), op)
    [] len = 2 -> {0} \union Put(Span(2, 8), op)
    [] len = 4 -> {0, 1} \union Put(Span(2, 8), op)

(* Where a parallel operation may stand and none does, the bits are one. *)
NoParBits(len) == CASE len = 1 -> {} [] len = 2 -> 10 .. 27
                    [] len = 4 -> 10 .. 35

(* The operands; base is the operand of the same number in the first half. *)
OperandBits(line, alt, swap, mdfr) ==
  UNION {LET field == alt.fields[Swapped(swap, i)]
             base  == line.args[OperandNum(line, i)]
         IN Put(field.place, Encode(field.type, line.args[i], base, mdfr))
         : i \in DOMAIN line.args}

(* Fault: the bit that goes with the second name is not set. *)
ParBits_OneName(par, form, alt) ==
  Put(Span(10, 6), form.op)
  \union Put(alt.when.place, alt.when.val)
  \union OperandBits(par, alt, form.swap, "NONE")

ParBits(par, form, alt) ==
  Put(Span(10, 6), form.op)
  \union (IF par.op = form.name THEN {} ELSE form.bit)
  \union Put(alt.when.place, alt.when.val)
  \union OperandBits(par, alt, form.swap, "NONE")

(* create_op_words, of a line and what was chosen for it. *)
OpWords(line, form, alt) ==
  OpcodeBits(form.op, form.len)
  \union (IF line.par = {} /\ alt.opt THEN NoParBits(form.len) ELSE {})
  \union Put(alt.when.place, alt.when.val)
  \union (IF line.args = <<>> THEN {}
          ELSE alt.ones \union OperandBits(line, alt, form.swap, form.mdfr))
  \union UNION {UNION {ParBits(par, p.form, p.alt) : p \in ParChoice(par, form.len)}
                 : par \in line.par}

(* What becomes of a line.  With a suffix the operation is looked for in that
   length even if its parallel operation has none of it: that of one word is
   then found missing, that of two or four is used although there is no
   layout for it. *)
Refused(line) == \A c \in Choice(line) : line.par /= {} /\ c.form.len = 1
Crashes(line) ==
  \E c \in Choice(line), par \in line.par :
    c.form.len /= 1 /\ ParFits(par, c.form.len) = {}

(* The name and the operation number of a line that names its operation by
   number, "OP_0x32 R00, R01", and may name its layout.  Such a line only
   settles whether the operands are compatible. *)
Explicit(op, layout, args) ==
  [op |-> op, layout |-> layout, args |-> args, split |-> 0]
ExplicitFits(line) ==
  IF line.layout /= <<>>
  THEN \E swap \in BOOLEAN :
         Compatible(Layout[line.layout[1]], line, swap, "NONE", FALSE) /= {}
  ELSE \E form \in Forms :
         /\ form.op = line.op /\ form.len = 1
         /\ \/ line.args = <<>> /\ form.layout = Layout.NOP
            \/ Compatible(form.layout, line, form.swap, form.mdfr, FALSE) /= {}

=============================================================================
