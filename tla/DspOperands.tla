---------------------------- MODULE DspOperands ----------------------------
(***************************************************************************)
(* The operands of DSP operations: which text the assembler takes for an   *)
(* operand of a type (Fits), what it puts into the field of the word       *)
(* (Encode) and what the disassembler prints for a field (Show).  The      *)
(* three are written apart in the program, and so they are here.           *)
(*                                                                         *)
(* The text of an operand is what get_operand_val_from_token reads from    *)
(* it, a type and a value:                                                 *)
(*   REG                     a register n, as 0x300 + n; XGPRAM_n as       *)
(*                           0x400 + n and YGPRAM_n as 0x600 + n           *)
(*   LITERAL                 #n, a signed 32-bit number                    *)
(*   IND_LITERAL_X / _Y      @#n_X, @#n_Y                                  *)
(*   IND_A_REG_X / _Y        @A_Rr_X as r, @A_Rr_Y as r + 8                *)
(*   IND_A_REG_X_INC / _Y_INC                @A_Rr_X_INC as r + 8          *)
(*   IND_A_REG_X_PLUS_MDFR / _Y_...          @A_Rr_X += A_MDm as 8r + m    *)
(*                                           (_Y: and 0x40)                *)
(*   IND_A_REG_X_MDFR_OFFSET / _Y_...        @A_Rr_X + A_MDm as 8m + r     *)
(*   IND_A_REG_X_LIT_OFFSET / _Y_...         @A_Rr_X + n as 8n + r         *)
(*   STACK                   C_STK_BASE + n as n, with _MD and 0x80;       *)
(*                           C_STK_TOP as 0x20, with _MD and 0x40          *)
(*   NOP                     NO_ARGS                                       *)
(***************************************************************************)
EXTENDS Integers

(* The texts of an operand, by its parts. *)
Register(n) == [type |-> "REG", val |-> 768 + n]
XgpRam(n)   == [type |-> "REG", val |-> 1024 + n]
YgpRam(n)   == [type |-> "REG", val |-> 1536 + (n % 512)]
Literal(n)  == [type |-> "LITERAL", val |-> n]
LiteralAddr(n, y) ==
  [type |-> IF y THEN "IND_LITERAL_Y" ELSE "IND_LITERAL_X", val |-> n]
AReg(r, y) ==
  [type |-> IF y THEN "IND_A_REG_Y" ELSE "IND_A_REG_X",
   val  |-> r + (IF y THEN 8 ELSE 0)]
ARegInc(r, y) ==
  [type |-> IF y THEN "IND_A_REG_Y_INC" ELSE "IND_A_REG_X_INC",
   val  |-> r + 8]
ARegPlusMdfr(r, m, y) ==
  [type |-> IF y THEN "IND_A_REG_Y_PLUS_MDFR" ELSE "IND_A_REG_X_PLUS_MDFR",
   val  |-> 8 * r + m + (IF y THEN 64 ELSE 0)]
ARegMdfrOffset(r, m, y) ==
  [type |-> IF y THEN "IND_A_REG_Y_MDFR_OFFSET"
                 ELSE "IND_A_REG_X_MDFR_OFFSET",
   val  |-> 8 * m + r]
ARegLitOffset(r, n, y) ==
  [type |-> IF y THEN "IND_A_REG_Y_LIT_OFFSET"
                 ELSE "IND_A_REG_X_LIT_OFFSET",
   val  |-> 8 * n + r]
StackBase(n, md) == [type |-> "STACK", val |-> n + (IF md THEN 128 ELSE 0)]
StackTop(md)     == [type |-> "STACK", val |-> 32 + (IF md THEN 64 ELSE 0)]
NoArgs           == [type |-> "NOP", val |-> 0]

(***************************************************************************)
(* Which text an operand type takes                                        *)
(***************************************************************************)
(* A register as the type's check compares it: XGPRAM and YGPRAM keep the
   bit that tells them from a register. *)
RegValue(o) == (o.val % 256) + (IF o.val < 1024 THEN 0 ELSE 1024)

(* The registers a type takes. *)
Registers ==
  [REG_2        |-> 0 .. 3,
   REG_2_4      |-> 4 .. 7,
   REG_2_8      |-> 8 .. 11,
   REG_2_12     |-> 12 .. 15,
   REG_2_T1     |-> {8, 9, 12, 13},
   REG_2_T2     |-> {0, 1, 4, 5},
   REG_3_X_T1   |-> 0 .. 7,
   REG_3_Y_T1   |-> (0 .. 5) \union {12, 13},
   REG_3_X_T2   |-> 8 .. 15,
   REG_3_Y_T2   |-> {4, 5} \union (8 .. 13),
   REG_3        |-> 0 .. 7,
   REG_3_8      |-> 8 .. 15,
   REG_3_FMA    |-> {0, 1, 4, 5, 8, 9, 12, 13},
   REG_3_ACC    |-> (4 .. 7) \union (12 .. 15),
   REG_3_FMA_Y_T1 |-> 0 .. 5,
   REG_3_FMA_X_T1 |-> (0 .. 5) \union {8, 9},
   REG_3_FMA_Y_T2 |-> 8 .. 12,
   REG_3_FMA_X_T2 |-> {0, 1} \union (8 .. 13),
   REG_3_FMA_A_T1 |-> (4 .. 7) \union (12 .. 15),
   REG_4        |-> 0 .. 15,
   REG_5        |-> 0 .. 31,
   REG_5_MOVX   |-> 0 .. 31,
   REG_7        |-> 0 .. 127,
   REG_10       |-> 0 .. 255]

(* The text an address type takes. *)
Addresses ==
  [A_REG                |-> {"IND_A_REG_X", "IND_A_REG_Y"},
   A_REG_X              |-> {"IND_A_REG_X"},
   A_REG_Y              |-> {"IND_A_REG_Y"},
   A_REG_X_INC          |-> {"IND_A_REG_X_INC"},
   A_REG_Y_INC          |-> {"IND_A_REG_Y_INC"},
   A_REG_PLUS_MDFR      |-> {"IND_A_REG_X_PLUS_MDFR",
                             "IND_A_REG_Y_PLUS_MDFR"},
   A_REG_X_PLUS_MDFR    |-> {"IND_A_REG_X_PLUS_MDFR"},
   A_REG_Y_PLUS_MDFR    |-> {"IND_A_REG_Y_PLUS_MDFR"},
   A_REG_X_MDFR_OFFSET  |-> {"IND_A_REG_X_MDFR_OFFSET"},
   A_REG_Y_MDFR_OFFSET  |-> {"IND_A_REG_Y_MDFR_OFFSET"},
   LITERAL_16_ADDR      |-> {"IND_LITERAL_X", "IND_LITERAL_Y"}]

(* An address and an offset: the texts a type takes, and the offsets. *)
Offsets ==
  [A_REG_INT_7_OFFSET    |-> [types |-> {"IND_A_REG_X_LIT_OFFSET",
                                         "IND_A_REG_Y_LIT_OFFSET"},
                              most  |-> 64],
   A_REG_INT_17_OFFSET   |-> [types |-> {"IND_A_REG_X_LIT_OFFSET",
                                         "IND_A_REG_Y_LIT_OFFSET"},
                              most  |-> 32768],
   A_REG_X_INT_11_OFFSET |-> [types |-> {"IND_A_REG_X_LIT_OFFSET"},
                              most  |-> 1024],
   A_REG_Y_INT_11_OFFSET |-> [types |-> {"IND_A_REG_Y_LIT_OFFSET"},
                              most  |-> 1024]]

(* The literals of the types that take a number below a bound. *)
Unsigned == [LITERAL_8 |-> 256, LITERAL_11 |-> 2048]
Signed   == [LITERAL_7_INT |-> 64, LITERAL_8_INT |-> 128,
             LITERAL_8_INT_PC_OFFSET |-> 128]

(* Fault: the two literals of a double operation are not compared. *)
FitsLiteral16_AnyTwin(o, twin, mdfr) ==
  /\ o.type = "LITERAL"
  /\ CASE mdfr = "16_BIT_UPPER"  -> o.val % 65536 = 0 /\ o.val /= 0
       [] mdfr = "16_BIT_SIGNED" -> o.val >= -32768 /\ o.val <= 32767
       [] OTHER                  -> o.val >= 0 /\ o.val < 65536

(* A 16-bit literal is taken by what the operation does with it; the two of a
   double operation share one field. *)
FitsLiteral16(o, twin, mdfr) ==
  /\ o.type = "LITERAL"
  /\ twin.val = o.val
  /\ CASE mdfr = "16_BIT_UPPER"  -> o.val % 65536 = 0 /\ o.val /= 0
       [] mdfr = "16_BIT_SIGNED" -> o.val >= -32768 /\ o.val <= 32767
       [] OTHER                  -> o.val >= 0 /\ o.val < 65536

Distance(a, b) == IF a > b THEN a - b ELSE b - a

(* Does text o fit an operand of type t?  twin is the text the code compares
   it with: the operand of the same number, in the other half of a double
   operation if that is what follows (see Twin of DspAssembler).  mdfr is the
   operation's modifier. *)
Fits(t, o, twin, mdfr) ==
  CASE t \in DOMAIN Registers ->
         o.type = "REG" /\ RegValue(o) \in Registers[t]
    [] t = "REG_11" -> o.type = "REG"
    [] t = "REG_11_4_OFFSET" ->
         o.type = "REG" /\ o.val \div 16 = twin.val \div 16
    [] t = "REG_11_10_OFFSET" ->
         o.type = "REG" /\ Distance(o.val, twin.val) < 512
    [] t = "A_REG_CALL"      -> o.type = "REG" /\ o.val % 32 \in 16 .. 23
    [] t = "A_REG_CALL_MDFR" -> o.type = "REG" /\ o.val % 32 \in 24 .. 31
    [] t \in DOMAIN Addresses -> o.type \in Addresses[t]
    [] t \in DOMAIN Offsets ->
         /\ o.type \in Offsets[t].types
         /\ o.val \div 8 >= -Offsets[t].most
         /\ o.val \div 8 < Offsets[t].most
    [] t \in DOMAIN Unsigned ->
         o.type = "LITERAL" /\ o.val >= 0 /\ o.val < Unsigned[t]
    [] t \in DOMAIN Signed ->
         o.type = "LITERAL" /\ o.val >= -Signed[t] /\ o.val < Signed[t]
    [] t = "LITERAL_16" -> FitsLiteral16(o, twin, mdfr)
    [] t = "LITERAL_32" -> o.type = "LITERAL"
    [] t = "C_STK_5"    -> o.type = "STACK" /\ o.val < 16
    [] t = "C_STK_11"   -> o.type = "STACK"
    [] t = "NOP"        -> o.type = "NOP"
    [] OTHER            -> FALSE

(* Bit 2^k of v. *)
HasBit(v, bit) == (v \div bit) % 2 = 1

(***************************************************************************)
(* What is put into the field of an operand                                *)
(***************************************************************************)
(* asm_op_operand_val_fixup: the number whose low bits go into the field.
   base is the operand of the same number in the first half of a double
   operation. *)
Encode(t, o, base, mdfr) ==
  LET v == o.val
      r == o.val % 256
      inY == o.type \in {"IND_A_REG_Y", "IND_A_REG_Y_LIT_OFFSET",
                         "IND_LITERAL_Y"}
  IN CASE t = "REG_2_4"  -> v - 4
       [] t = "REG_2_8"  -> v - 8
       [] t = "REG_2_12" -> v - 12
       [] t = "REG_3_8"  -> v - 8
       [] t = "REG_2_T1" -> (IF r < 12 THEN 2 ELSE 0) + (r % 2)
       [] t = "REG_2_T2" -> (IF r < 4 THEN 2 ELSE 0) + (r % 2)
       [] t = "REG_3_X_T1" -> (IF r < 4 THEN 4 ELSE 0) + (r % 4)
       [] t = "REG_3_X_T2" -> (IF r < 12 THEN 4 ELSE 0) + (r % 4)
       [] t = "REG_3_ACC"  -> (IF r < 12 THEN 4 ELSE 0) + (r % 4)
       [] t = "REG_3_FMA_A_T1" -> (IF r > 11 THEN 4 ELSE 0) + (r % 4)
       [] t = "REG_3_Y_T1" -> IF r < 12 THEN r ELSE 6 + (r % 2)
       [] t = "REG_3_Y_T2" -> IF r > 11 THEN 6 + (r % 2)
                              ELSE IF r > 5 THEN r % 4 ELSE v
       [] t = "REG_3_FMA_X_T1" -> IF r > 7 THEN 6 + (r % 2) ELSE v
       [] t = "REG_3_FMA_X_T2" -> IF r < 2 THEN 6 + (r % 2) ELSE v - 8
       [] t = "REG_3_FMA" ->
            (CASE r % 16 \in {12, 13} -> 2
               [] r % 16 \in {8, 9}   -> 6
               [] r % 16 \in {0, 1}   -> 4
               [] OTHER               -> 0) + (r % 2)
       [] t = "REG_5_MOVX" -> IF r > 15 THEN 32 + (r % 32) ELSE v
       [] t = "REG_11_4_OFFSET"  -> 2048 * (((v % 16) - (base.val % 16)) % 16)
       [] t = "REG_11_10_OFFSET" -> 2048 * (((v % 2048) - (base.val % 2048)) % 1024)
       [] t \in {"A_REG_CALL", "A_REG_CALL_MDFR"} -> v % 8
       [] t = "A_REG" -> (v % 8) + (IF inY THEN 8 ELSE 0)
       [] t = "A_REG_INT_7_OFFSET" ->
            16 * (v \div 8) + (IF inY THEN 8 ELSE 0) + (v % 8)
       [] t = "A_REG_INT_17_OFFSET" ->
            (v % 1048576) + (IF inY THEN 1048576 ELSE 0)
       [] t = "LITERAL_16_ADDR" ->
            v + (IF inY /\ ~HasBit(v, 1048576) THEN 1048576 ELSE 0)
       [] t = "LITERAL_16" -> IF mdfr = "16_BIT_UPPER" THEN (v \div 65536) % 65536
                                                       ELSE v
       [] OTHER -> v

(***************************************************************************)
(* What the disassembler prints for the value v of a field                 *)
(***************************************************************************)
(* The value of the low n bits of v, read as a signed number. *)
SignedBits(v, n) ==
  LET low == v % 2^n IN IF low < 2^(n - 1) THEN low ELSE low - 2^n

(* The number of the register that a field of a register type stands for. *)
ShownRegister(t, v) ==
  CASE t \in {"REG_2", "REG_3", "REG_4", "REG_5", "REG_7"} -> v
    [] t = "REG_10"   -> v % 256
    [] t = "REG_2_4"  -> 4 + v
    [] t = "REG_2_8"  -> 8 + v
    [] t = "REG_2_12" -> 12 + v
    [] t = "REG_2_T1" -> (IF v \in {2, 3} THEN 8 ELSE 12) + (v % 2)
    [] t = "REG_2_T2" -> (IF v \in {2, 3} THEN 0 ELSE 4) + (v % 2)
    [] t = "REG_3_X_T1" -> (IF v >= 4 THEN 0 ELSE 4) + (v % 4)
    [] t = "REG_3_X_T2" -> (IF v >= 4 THEN 8 ELSE 12) + (v % 4)
    [] t = "REG_3_ACC"  -> (IF v >= 4 THEN 4 ELSE 12) + (v % 4)
    [] t = "REG_3_Y_T1" -> IF v > 5 THEN 12 + (v % 2) ELSE v
    [] t = "REG_3_Y_T2" -> IF v < 4 THEN 8 + v
                           ELSE IF v < 6 THEN v ELSE 12 + (v % 2)
    [] t = "REG_3_FMA_X_T1" -> IF v > 5 THEN 8 + (v % 2) ELSE v
    [] t = "REG_3_FMA_X_T2" -> IF v > 5 THEN v % 2 ELSE 8 + v
    [] t = "REG_3_FMA_A_T1" -> (IF v > 4 THEN 12 ELSE 4) + (v % 4)
    [] t = "REG_3_FMA_Y_T1" -> v
    [] t \in {"REG_3_FMA_Y_T2", "REG_3_8"} -> 8 + v
    [] t = "REG_3_FMA" -> (CASE v \div 2 = 3 -> 8
                             [] v \div 2 = 2 -> 0
                             [] v \div 2 = 1 -> 12
                             [] OTHER        -> 4) + (v % 2)
    [] t = "REG_5_MOVX"      -> v % 32
    [] t = "A_REG_CALL"      -> 16 + v
    [] t = "A_REG_CALL_MDFR" -> 24 + v

RegisterTypes == DOMAIN Registers \union {"A_REG_CALL", "A_REG_CALL_MDFR"}

(* A field of 11 bits names any register, and the two GPRAMs. *)
ShownAnyRegister(v) ==
  IF ~HasBit(v, 1024) THEN Register(v % 256)
  ELSE IF HasBit(v, 512) THEN YgpRam(v % 256) ELSE XgpRam(v % 256)

(* A register next to one of 11 bits, v % 2048: the code looks for YGPRAM at
   the bit above the one that tells the GPRAMs apart, and cuts indexes. *)
ShownNextTo(v, registers) ==
  IF ~HasBit(v, 1024) THEN Register(v % registers)
  ELSE IF HasBit(v, 2048) THEN YgpRam(v % 1024) ELSE XgpRam(v % 128)

Offset4(v)  == LET own == v % 2048
               IN own - (own % 16) + (((own % 16) + (v \div 2048)) % 16)
Offset10(v) == (v % 2048) + SignedBits(v \div 2048, 10)

(* The text printed for the value v of a field of type t. *)
Show(t, v, mdfr) ==
  CASE t \in RegisterTypes -> Register(ShownRegister(t, v))
    [] t = "REG_11"           -> ShownAnyRegister(v)
    [] t = "REG_11_4_OFFSET"  -> ShownNextTo(Offset4(v), 128)
    [] t = "REG_11_10_OFFSET" -> ShownNextTo(Offset10(v), 256)
    [] t = "A_REG"       -> AReg(v % 8, HasBit(v, 8))
    [] t \in {"A_REG_X", "A_REG_Y"} ->
         IF HasBit(v, 8) THEN ARegInc(v % 8, t = "A_REG_Y")
                         ELSE AReg(v % 8, t = "A_REG_Y")
    [] t = "A_REG_X_INC" -> ARegInc(v % 8, FALSE)
    [] t = "A_REG_Y_INC" -> ARegInc(v % 8, TRUE)
    [] t = "A_REG_PLUS_MDFR" ->
         ARegPlusMdfr((v \div 8) % 8, v % 8, HasBit(v, 64))
    [] t \in {"A_REG_X_PLUS_MDFR", "A_REG_Y_PLUS_MDFR"} ->
         ARegPlusMdfr((v \div 8) % 8, v % 8, t = "A_REG_Y_PLUS_MDFR")
    [] t \in {"A_REG_X_MDFR_OFFSET", "A_REG_Y_MDFR_OFFSET"} ->
         ARegMdfrOffset(v % 8, (v \div 8) % 8, t = "A_REG_Y_MDFR_OFFSET")
    [] t = "A_REG_INT_7_OFFSET" ->
         ARegLitOffset(v % 8, SignedBits(v \div 16, 7), HasBit(v, 8))
    [] t = "A_REG_INT_17_OFFSET" ->
         ARegLitOffset(v % 8, SignedBits(v \div 8, 17), HasBit(v, 1048576))
    [] t \in {"A_REG_X_INT_11_OFFSET", "A_REG_Y_INT_11_OFFSET"} ->
         ARegLitOffset(v % 8, SignedBits(v \div 8, 11),
                       t = "A_REG_Y_INT_11_OFFSET")
    [] t = "LITERAL_7_INT" -> Literal(SignedBits(v, 7))
    [] t \in {"LITERAL_8_INT", "LITERAL_8_INT_PC_OFFSET"} ->
         Literal(SignedBits(v, 8))
    [] t \in {"LITERAL_8", "LITERAL_11", "LITERAL_32"} -> Literal(v)
    [] t = "LITERAL_16" ->
         (CASE mdfr = "16_BIT_UPPER"  -> Literal(65536 * SignedBits(v, 16))
            [] mdfr = "16_BIT_SIGNED" -> Literal(SignedBits(v, 16))
            [] OTHER                  -> Literal(v))
    [] t = "LITERAL_16_ADDR" -> LiteralAddr(v % 65536, v >= 65536)
    [] t = "C_STK_5"  -> StackBase(v, FALSE)
    [] t = "C_STK_11" -> IF HasBit(v, 32) THEN StackTop(HasBit(v, 64))
                         ELSE StackBase(v % 32, HasBit(v, 128))
    [] t = "NOP"      -> NoArgs

=============================================================================
