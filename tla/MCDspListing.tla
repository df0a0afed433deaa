---------------------------- MODULE MCDspListing ----------------------------
(* Small instances of DspListing for TLC: for every operation, length and   *)
(* alternative of its layout, texts of one line with operands that go       *)
(* through the ends of what their types take and beyond; texts of several   *)
(* items; and files of any words.                                           *)
EXTENDS DspListing

At(seq, k) == seq[(k % Len(seq)) + 1]
InOrder(set) ==
  [k \in 1 .. Cardinality(set) |->
     CHOOSE n \in set : Cardinality({m \in set : m < n}) = k - 1]

RegistersInOrder ==
  [t \in DOMAIN Registers |->
     LET all == InOrder(Registers[t])
     IN IF Len(all) <= 16 THEN all ELSE <<all[1], all[Len(all)], 6, 16, 13>>]

(* The text for an operand of a type, the k-th of its samples. *)
Text(t, k) ==
  CASE t \in DOMAIN Registers -> Register(At(RegistersInOrder[t], k))
    [] t = "REG_11" ->
         At(<<Register(0), Register(255), XgpRam(0), YgpRam(5), Register(100),
              XgpRam(255), YgpRam(255), Register(127), XgpRam(256)>>, k)
    [] t = "A_REG_CALL" -> Register(At(<<16, 23, 48>>, k))
    [] t = "A_REG_CALL_MDFR" -> Register(At(<<24, 31, 56>>, k))
    [] t \in {"A_REG", "A_REG_X", "A_REG_Y"} ->
         AReg(At(<<0, 7, 5>>, k), IF t = "A_REG" THEN k % 2 = 0 ELSE t = "A_REG_Y")
    [] t \in {"A_REG_X_INC", "A_REG_Y_INC"} ->
         ARegInc(At(<<0, 7, 5>>, k), t = "A_REG_Y_INC")
    [] t \in {"A_REG_PLUS_MDFR", "A_REG_X_PLUS_MDFR", "A_REG_Y_PLUS_MDFR"} ->
         ARegPlusMdfr(At(<<0, 7, 5>>, k), At(<<7, 0, 3, 1>>, k),
                      IF t = "A_REG_PLUS_MDFR" THEN k % 2 = 0
                      ELSE t = "A_REG_Y_PLUS_MDFR")
    [] t \in {"A_REG_X_MDFR_OFFSET", "A_REG_Y_MDFR_OFFSET"} ->
         ARegMdfrOffset(At(<<0, 7, 5>>, k), At(<<7, 0, 3, 1>>, k),
                        t = "A_REG_Y_MDFR_OFFSET")
    [] t \in DOMAIN Offsets ->
         LET most == Offsets[t].most
         IN ARegLitOffset(At(<<0, 7, 5>>, k),
                          At(<<most - 1, -most, 0, most, -1, -most - 1, 1>>, k),
                          IF Cardinality(Offsets[t].types) = 2 THEN k % 2 = 0
                          ELSE t = "A_REG_Y_INT_11_OFFSET")
    [] t \in DOMAIN Unsigned ->
         Literal(At(<<Unsigned[t] - 1, 0, Unsigned[t], 1>>, k))
    [] t \in DOMAIN Signed ->
         Literal(At(<<Signed[t] - 1, -Signed[t], 0, Signed[t],
                      -Signed[t] - 1, -1>>, k))
    [] t = "LITERAL_16" ->
         Literal(At(<<0, 65535, 32767, -1, 65536, -32768, 32768, 1,
                      -32769, 2147418112, -65536>>, k))
    [] t = "LITERAL_32" -> Literal(At(<<0, 2147483647, -1, -2147483647>>, k))
    [] t = "LITERAL_16_ADDR" ->
         LiteralAddr(At(<<0, 65535, 32768, 65536>>, k), k % 2 = 0)
    [] t = "C_STK_5" -> StackBase(At(<<0, 15, 16, 31>>, k), FALSE)
    [] t = "C_STK_11" ->
         At(<<StackBase(0, FALSE), StackBase(31, TRUE), StackTop(FALSE),
              StackTop(TRUE), StackBase(16, FALSE), StackBase(40, FALSE)>>, k)
    [] OTHER -> NoArgs

IsLiteral(t) == t \in {"LITERAL_8", "LITERAL_11", "LITERAL_16", "LITERAL_32"}

(* Operand i of a line of an alternative: literals of both halves are mostly
   the same, and a register next to another is made of that. *)
Operand(alt, swap, v, i) ==
  LET type == alt.fields[Swapped(swap, i)].type
      base == Text("REG_11", v + i - alt.split)
      own  == base.val % 16
      far  == At(<<1, -1, 100, -200>>, v)
  IN CASE type = "REG_11_4_OFFSET" ->
            [base EXCEPT !.val = base.val - own + ((own + 7 * v) % 16)]
       [] type = "REG_11_10_OFFSET" ->
            IF (base.val % 256) + far \in 0 .. 255
            THEN [base EXCEPT !.val = base.val + far] ELSE base
       [] IsLiteral(type) /\ v % 5 /= 4 -> Text(type, v)
       [] OTHER -> Text(type, v + i)
Operands(alt, swap, v) ==
  <<>> \o [i \in DOMAIN alt.fields |-> Operand(alt, swap, v, i)]

LineMdfr(info) == IF info.mdfr \in Hints THEN "NONE" ELSE info.mdfr
LineOf(info, alt, len, v, par) ==
  Line(info.name, len, Operands(alt, info.swap, v), alt.split,
       LineMdfr(info), par)

(* Lines of all operations, v of variants. *)
Lens == {1, 2, 4}
AltsOf(info, len) ==
  LET layout == Layout[info.layouts[LEN_IDS[len]]]
  IN IF layout = NONE THEN {}
     ELSE {layout[k] : k \in DOMAIN layout}
LinesOf(infos, variants, pars) ==
  UNION {UNION {{LineOf(info, alt, IF v % 2 = 0 THEN len ELSE 0, v, par)
                   : v \in variants, alt \in AltsOf(info, len), par \in pars}
                : len \in Lens} : info \in infos}

AllOps == Range(asm_ops)
EveryLine == LinesOf(AllOps, 0 .. 3, {{}})

(* The first operation of each kind, with more operands. *)
OneOfEach ==
  {asm_ops[i] : i \in {i \in DOMAIN asm_ops :
     \A j \in 1 .. i - 1 : asm_ops[j].layouts /= asm_ops[i].layouts
                           \/ asm_ops[j].mdfr /= asm_ops[i].mdfr
                           \/ asm_ops[j].swap /= asm_ops[i].swap}}
EndLines == LinesOf(OneOfEach, 4 .. 29, {{}})

(* Parallel operations: each alternative of each, by both its names. *)
Pars(len, v) ==
  UNION {UNION {{ParLine(name, Operands(info.layout[k], info.swap, v),
                         info.layout[k].split)
                   : name \in {info.name, info.alt} \ {""},
                     k \in DOMAIN info.layout}
                : info \in ParForms[len]}}
SomePar(len) == CHOOSE par \in Pars(len, 0) : par.op = "MOV_P"

(* A line with a parallel operation: every one next to some operation, every
   layout next to some parallel one, and lengths that one of them lacks. *)
WithPar(infos, suffix, len, v, pars) ==
  UNION {{LineOf(info, alt, suffix, v, {par})
            : alt \in {a \in AltsOf(info, len) : a.opt}, par \in pars}
         : info \in infos}
F_ADD == {info \in AllOps : info.name = "F_ADD"}
ParLines ==
  UNION {UNION {WithPar(F_ADD, 0, len, v, Pars(len, v))
                  \union WithPar(OneOfEach, len, len, v, {SomePar(len)})
                : v \in 0 .. 13} : len \in {2, 4}}
  \union UNION {WithPar(F_ADD, 6 - len, len, 0, Pars(len, 0))
                : len \in {2, 4}}
  \union UNION {WithPar(F_ADD, 1, len, 0, Pars(len, 0))
                : len \in {2, 4}}

(* Lines that are understood and one that lacks an operand, operations given by
   number, and the other things a text may hold. *)
Good  == Line("MOV", 0, <<Register(0), Register(5)>>, 0, "NONE", {})
Short == Line("NOP", 0, <<>>, 0, "NONE", {})
Long  == Line("MOV", 4, <<Register(16), Literal(-2)>>, 0, "NONE", {})
Bad   == Line("MOV", 0, <<Register(0)>>, 0, "NONE", {})
Three == <<Register(0), Register(5), Register(6)>>
ByNumber == {Item("explicit", Explicit(204, <<>>, Three)),
             Item("explicit", Explicit(56, <<"R_X_Y_1">>, Three)),
             Item("explicit", Explicit(56, <<>>, Three))}
Parts == {Item("line", Good), Item("line", Long), Item("line", Bad),
          Item("line", Short), Item("unknown", NoLine), Item("bare", NoLine)}
         \union ByNumber

MCLines == EveryLine \union EndLines \union ParLines
MCSources(n) ==
  IF n = 1 THEN {<<Item("line", l)>> : l \in MCLines} ELSE [1 .. n -> Parts]

(* Files that no text was assembled to: an operation of each number and length
   with some of its other bits one, and two after one another. *)
Words(op, len, ones) ==
  WordsOf(OpcodeBits(op, len)
            \union {b \in ones : b > (IF len = 1 THEN 8 ELSE 9)}, len)
Patterns == {{}, 0 .. 99, {b \in 0 .. 99 : b % 2 = 0},
             {b \in 0 .. 99 : b % 3 = 0}}
Mixed(op) == {b \in 0 .. 99 : (b + op) % 3 = 0}
OneOp ==
  UNION {{Words(op, len, ones) : len \in Lens, ones \in {Mixed(op), 0 .. 99}}
         : op \in 0 .. 255}
    \union {Words(info.op, len, ones)
              : info \in OneOfEach, len \in Lens, ones \in Patterns}
OpParts == {Words(200, 1, 0 .. 99), Words(193, 4, 0 .. 99), Words(60, 2, {}),
            Words(193, 1, {}), Words(35, 2, {})}
MCDumps(n) ==
  CASE n = 1 -> OneOp
    [] n = 2 -> {a \o b : a, b \in OpParts}
    [] OTHER -> {}
=============================================================================
