--------------------------- MODULE DspDisassembler ---------------------------
(***************************************************************************)
(* How the disassembler turns the words of an operation into a line.       *)
(***************************************************************************)
EXTENDS DspAssembler

(* The value of a field; one of 32 bits as a signed number. *)
Weight(k) == IF k = 31 THEN -2147483647 - 1 ELSE 2^k
ValueAt(place, words) ==
  MapThenSumSet(LAMBDA i : Weight(Len(place) - i),
                {i \in DOMAIN place : place[i] \in words})

(* get_dsp_op_len looks at the first two bits of the first word. *)
OpLen(word) == IF 0 \notin word THEN 1 ELSE IF 1 \in word THEN 4 ELSE 2

OpNumber(words) ==
  ValueAt(IF OpLen(words) > 1 THEN Span(2, 8) ELSE Span(1, 8), words)

(* The alternative of a layout that words have; if there is none, the loop
   ends with the last. *)
AltOf(layout, words) ==
  LET found == {k \in DOMAIN layout :
                  \/ layout[k].when.place = <<>>
                  \/ ValueAt(layout[k].when.place, words) = layout[k].when.val}
  IN IF found = {} THEN layout[Len(layout)] ELSE layout[Min(found)]

SourceDirs == {"SRC", "X", "Y"}

(* get_op_operands: the operands in the order they are printed. *)
ShownPlace(fields, swap, i) ==
  CASE swap /\ fields[i].dir = "DST" -> i + 1
    [] swap /\ fields[i].dir = "SRC" -> i - 1
    [] OTHER -> i
ShownArgs(alt, swap, mdfr, words) ==
  [i \in DOMAIN alt.fields |->
     LET field == alt.fields[ShownPlace(alt.fields, swap, i)]
     IN Show(field.type, ValueAt(field.place, words),
             IF field.dir \in SourceDirs THEN mdfr ELSE "NONE")]

(* The modifier that is printed after the sources. *)
ShownMdfr(alt, mdfr) ==
  IF /\ mdfr \in {"INC", "DEC", "RR", "RL"}
     /\ \E i \in DOMAIN alt.fields : alt.fields[i].dir \in SourceDirs
  THEN mdfr ELSE "NONE"

(* get_parallel_op_data: the number of the parallel operation, of which some
   of two words have four bits that are their own; none where the bits say
   so, or where the number is not known. *)
ParNumber(words, len) ==
  LET val == ValueAt(Span(10, 6), words)
  IN IF len = 2 /\ val < 48 THEN 16 * (val \div 16) ELSE val
NoPar(words, len) ==
  LET val == ValueAt(Span(10, 6), words)
  IN IF len = 2 THEN val >= 62 /\ 16 \in words ELSE val = 63 /\ 17 \in words
ShownPar(words, len) ==
  {ParLine(IF form.bit \intersect words /= {} THEN form.alt ELSE form.name,
           ShownArgs(AltOf(form.layout, words), form.swap, "NONE", words),
           AltOf(form.layout, words).split)
     : form \in {f \in ParForms[len] :
                   ~NoPar(words, len) /\ f.op = ParNumber(words, len)}}

(* The operation of this number, if there is one, in this length; and what is
   printed of it, unless it has no layout: one of its alternatives. *)
Numbered == [op \in 0 .. 255 |-> {form \in Forms : form.op = op}]
KnownOps(words) ==
  {f \in IF OpNumber(words) \in 0 .. 255 THEN Numbered[OpNumber(words)] ELSE {} :
     f.len = OpLen(words)}
ShownOps(words) ==
  {[form |-> f, alt |-> AltOf(f.layout, words)]
     : f \in {f \in KnownOps(words) : f.layout /= <<>>}}

(* The line printed for an operation with a layout.  One without operands is
   printed without its length. *)
Disassembled(words, form, alt) ==
  LET par == IF form.len > 1 /\ alt.opt THEN ShownPar(words, form.len) ELSE {}
  IN IF form.layout = Layout.NOP
     THEN Line(form.name, 0, <<>>, 0, "NONE", par)
     ELSE Line(form.name, form.len,
               ShownArgs(alt, form.swap, form.mdfr, words), alt.split,
               ShownMdfr(alt, form.mdfr), par)

(* The distance of the address that is printed in a comment: that of the last
   operand that is relative to the operation, if there is one. *)
Targets(words, alt) ==
  {SignedBits(ValueAt(alt.fields[i].place, words), 8) :
     i \in {i \in DOMAIN alt.fields :
              alt.fields[i].type = "LITERAL_8_INT_PC_OFFSET"}}

=============================================================================
