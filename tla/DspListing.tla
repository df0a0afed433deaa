----------------------------- MODULE DspListing -----------------------------
(***************************************************************************)
(* ca0132-dsp-assembler and ca0132-dsp-disassembler: a text is assembled   *)
(* into a file of words, the file is listed, and the listing is assembled  *)
(* again.                                                                  *)
(*                                                                         *)
(* A text is a sequence of items, as far as the tools can tell them apart: *)
(*   line      an operation and its ";"                                    *)
(*   explicit  one that gives its number, "OP_0x32:MOV_1 R00, R01;"        *)
(*   unknown   a line that ends in ".", as the disassembler prints for     *)
(*             words that are no known operation                           *)
(*   bare      the name of an operation without ";", as it prints for an   *)
(*             operation that has no layout for its length                 *)
(***************************************************************************)
EXTENDS DspDisassembler, SequencesExt

CONSTANTS Sources(_),  \* the texts to assemble, of so many items
          Dumps(_),    \* the files that come from elsewhere, likewise
          MaxItems     \* the most of either

(* A file is words of 25 bits. *)
ASSUME DumpsAssumption ==
  \A n \in 0 .. MaxItems : Dumps(n) \subseteq Seq(SUBSET (0 .. 24))

(* A line is a record with all its parts and its operands are a sequence, as
   are the items of a text. *)
IsLine(line) ==
  /\ line = Line(line.op, line.len, line.args, line.split, line.mdfr, line.par)
  /\ line.args \in Seq(Range(line.args))
IsText(items) ==
  /\ items \in Seq(Range(items))
  /\ \A k \in DOMAIN items : items[k].kind = "line" => IsLine(items[k].line)
ASSUME SourcesAssumption ==
  \A n \in 0 .. MaxItems : \A source \in Sources(n) : IsText(source)

VARIABLES text,      \* what the assembler reads
          read,      \* how many items of it were read
          pending,   \* is there text in the buffer that no ";" has ended?
          file,      \* the words written, then read; each a set of 0 .. 24
          written,   \* the items written: of which item, at which address
          status,    \* what is going on, or how it ended
          cur_op,    \* the four words of the disassembler
          cur_addr,  \* the address of the next operation
          listing,   \* what was printed
          again      \* is the text the listing?

vars == <<text, read, pending, file, written, status, cur_op, cur_addr,
          listing, again>>
assembling == <<text, read, pending, file, written>>
listed     == <<cur_op, cur_addr, listing>>

NoLine == Line("", 0, <<>>, 0, "NONE", {})
Item(kind, line) == [kind |-> kind, line |-> line]

(* The words of an operation, and the bits of words. *)
WordsOf(bits, len) ==
  [i \in 1 .. len |-> {b \in 0 .. 24 : 25 * (i - 1) + b \in bits}]
BitsOf(words) ==
  UNION {{25 * (i - 1) + b : b \in words[i]} : i \in DOMAIN words}

Init ==
  /\ \E n \in 0 .. MaxItems :
       \/ text \in Sources(n) /\ file = <<>> /\ status = "assembling"
       \/ text = <<>> /\ file \in Dumps(n) /\ status = "listing"
  /\ read = 0 /\ pending = FALSE /\ written = <<>>
  /\ cur_op = <<{}, {}, {}, {}>> /\ cur_addr = 0 /\ listing = <<>>
  /\ again = FALSE

(***************************************************************************)
(* The assembler (read_assembly_from_file)                                 *)
(***************************************************************************)
Reading(kind) ==
  status = "assembling" /\ read < Len(text) /\ text[read + 1].kind = kind
ThisLine == text[read + 1].line

(* Text without an end comes before the tokens of the next line: its name is
   then that of the operation, or of the parallel one if there is a "/". *)
Unended == ParLine("", <<>>, 0)
ReadLine == IF pending THEN [ThisLine EXCEPT !.par = {Unended}] ELSE ThisLine
Garbled  == pending /\ ThisLine.par = {}

IsRefused ==
  \/ Reading("line") /\ (Garbled \/ Refused(ReadLine))
  \/ Reading("explicit") /\ (pending \/ ~ExplicitFits(ThisLine))
IsCrash == Reading("line") /\ ~Garbled /\ Crashes(ReadLine)

Write(words) ==
  /\ file' = file \o words
  /\ written' = Append(written, [item |-> read + 1, addr |-> Len(file)])
  /\ read' = read + 1 /\ pending' = FALSE
  /\ UNCHANGED <<text, status, listed, again>>

AssembleLine ==
  /\ Reading("line") /\ ~IsRefused /\ ~IsCrash
  /\ \E c \in Choice(ReadLine) :
       Write(WordsOf(OpWords(ReadLine, c.form, c.alt), c.form.len))

(* op_len is not set, so create_op_words copies no word of what it made. *)
AssembleExplicit == Reading("explicit") /\ ~IsRefused /\ Write(<<{}>>)

(* Fault: no word is left free for the operation. *)
WriteZero_Nothing == Reading("unknown") /\ Write(<<>>)

(* What was read since the last ";" is dropped. *)
WriteZero == Reading("unknown") /\ Write(<<{}>>)

(* The reading goes on to the next ";". *)
ReadOn ==
  /\ Reading("bare")
  /\ read' = read + 1 /\ pending' = TRUE
  /\ UNCHANGED <<text, file, written, status, listed, again>>

Leave(end) == status' = IF again THEN end ELSE "listing"

(* A text whose last item has no ";" ends like any other. *)
EndOfText ==
  /\ status = "assembling" /\ read = Len(text)
  /\ Leave("done")
  /\ UNCHANGED <<assembling, listed, again>>

(* A line that is not understood ends the run; the file is closed. *)
Refuse ==
  /\ IsRefused
  /\ Leave("refused")
  /\ UNCHANGED <<assembling, listed, again>>

(* A crash, or a kill: what was written is still in the buffer of stdio,
   which holds more than the files looked at here. *)
Die ==
  /\ status = "assembling"
  /\ file' = <<>> /\ Leave("died")
  /\ UNCHANGED <<text, read, pending, written, listed, again>>

(* Nobody looks whether the words could be stored, and a file may be the part
   of a memory. *)
CutShort ==
  /\ status = "listing" /\ cur_addr = 0
  /\ \E n \in 0 .. Len(file) - 1 : file' = SubSeq(file, 1, n)
  /\ UNCHANGED <<text, read, pending, written, status, listed, again>>

(***************************************************************************)
(* The disassembler                                                        *)
(***************************************************************************)
(* Fault: the last word of the file is not read. *)
OpAt_OffByOne ==
  [i \in 1 .. 4 |->
     IF /\ i <= OpLen(file[cur_addr + 1])
        /\ cur_addr + i < Len(file) \/ i = 1
     THEN file[cur_addr + i] ELSE cur_op[i]]

(* get_dsp_op: where the file ends, the words of an earlier operation stay.
   An operation of which only the first word is left is not listed. *)
OpAt ==
  [i \in 1 .. 4 |->
     IF i <= OpLen(file[cur_addr + 1]) /\ cur_addr + i <= Len(file)
     THEN file[cur_addr + i] ELSE cur_op[i]]
AtEnd ==
  \/ cur_addr >= Len(file)
  \/ cur_addr + 1 = Len(file) /\ OpLen(file[Len(file)]) > 1

Shown(bits) ==
  IF ShownOps(bits) /= {}
  THEN {Item("line", Disassembled(bits, op.form, op.alt)) : op \in ShownOps(bits)}
  ELSE {Item(IF KnownOps(bits) = {} THEN "unknown" ELSE "bare", NoLine)}

(* The address printed behind a relative jump; it has 16 bits. *)
Target(bits) ==
  {(cur_addr + d) % 65536 :
     d \in UNION {Targets(bits, op.alt) : op \in ShownOps(bits)}}

(* get_next_op. *)
ListOp ==
  /\ status = "listing" /\ ~AtEnd
  /\ cur_op' = OpAt
  /\ cur_addr' = cur_addr + OpLen(cur_op'[1])
  /\ \E item \in Shown(BitsOf(cur_op')) :
       listing' = Append(listing,
         [addr  |-> cur_addr, item |-> item, target |-> Target(BitsOf(cur_op')),
          words |-> SubSeq(cur_op', 1, OpLen(cur_op'[1]))])
  /\ UNCHANGED <<assembling, status, again>>

EndOfFile ==
  /\ status = "listing" /\ AtEnd
  /\ status' = "listed"
  /\ UNCHANGED <<assembling, listed, again>>

(* The listing is given to the assembler. *)
Reassemble ==
  /\ status = "listed"
  /\ text' = [k \in DOMAIN listing |-> listing[k].item]
  /\ read' = 0 /\ pending' = FALSE /\ file' = <<>> /\ written' = <<>>
  /\ status' = "assembling" /\ again' = TRUE
  /\ UNCHANGED listed

Next ==
  \/ AssembleLine \/ AssembleExplicit \/ WriteZero \/ ReadOn \/ EndOfText
  \/ Refuse \/ Die \/ CutShort \/ ListOp \/ EndOfFile \/ Reassemble

Spec == Init /\ [][Next]_vars

(***************************************************************************)
(* Properties                                                              *)
(***************************************************************************)
(* What the assembler takes for an operand and the disassembler cannot show
   as it was: the limits that their tables of types do not share. *)
Misread(type, o) ==
  \/ type = "REG_3_FMA_A_T1" /\ o = Register(12)
  \/ type \in {"A_REG_CALL", "A_REG_CALL_MDFR"} /\ o.val \notin 784 .. 799
  \/ type = "LITERAL_16_ADDR" /\ o.val \notin 0 .. 65535
  \/ type = "C_STK_11" /\ HasBit(o.val, 32) /\ o.val % 32 /= 0
  \/ type = "REG_11" /\ o.val >= 1024 /\ HasBit(o.val, 256)
  \/ /\ type \in {"REG_11_4_OFFSET", "REG_11_10_OFFSET"}
     /\ \/ o.val >= 1536
        \/ HasBit(o.val, 128) /\ (o.val >= 1024 \/ type = "REG_11_4_OFFSET")

(* Some layouts are told apart by bits that are also those of an operand, or
   of the number of the operation.  Do the two want them different? *)
Bits(place) == {place[i] : i \in DOMAIN place}
Collides(alt, number, bits) ==
  LET fields == UNION {Bits(alt.fields[i].place) : i \in DOMAIN alt.fields}
      shared == Bits(alt.when.place) \intersect (number \union fields)
  IN shared \intersect Put(alt.when.place, alt.when.val)
       /= shared \intersect bits

(* Is this so for one half of a line, whose number has the given bits? *)
IsMisreadIn(half, alt, swap, mdfr, number, bits) ==
  \/ Collides(alt, number, bits \union OperandBits(half, alt, swap, mdfr))
  \/ \E i \in DOMAIN half.args :
       Misread(alt.fields[Swapped(swap, i)].type, half.args[i])
IsMisread(line) ==
  \E c \in Choice(line) :
    \/ IsMisreadIn(line, c.alt, c.form.swap, c.form.mdfr,
                   IF c.form.len = 1 THEN 1 .. 8 ELSE 2 .. 9,
                   OpcodeBits(c.form.op, c.form.len))
    \/ \E par \in line.par : \E p \in ParChoice(par, c.form.len) :
         IsMisreadIn(par, p.alt, p.form.swap, "NONE", 10 .. 15,
                     Put(Span(10, 6), p.form.op))

(* The line as it is listed: with its length, if it has operands. *)
AsListed(line, c) ==
  IF c.alt.fields = Layout.NOP[1].fields THEN [line EXCEPT !.len = 0, !.args = <<>>]
                                  ELSE [line EXCEPT !.len = c.form.len]

Jumps(line, c) ==
  {i \in DOMAIN line.args :
     c.alt.fields[Swapped(c.form.swap, i)].type = "LITERAL_8_INT_PC_OFFSET"}

(* The lines of which the words were written. *)
WrittenLines ==
  {[k |-> k, addr |-> written[k].addr, line |-> text[written[k].item].line]
     : k \in {k \in DOMAIN written : text[written[k].item].kind = "line"}}

(* What was assembled is listed, operation for operation, at the address where
   it was put, in the length chosen and with the same operands, its parallel
   operation and the target of its jump: the tables of the two directions,
   written apart, are inverse, except for the operands named in Misread and
   the layouts whose own bits are taken. *)
LineReadsBack ==
  status = "listed" =>
    \A w \in WrittenLines : \A c \in Choice(w.line) :
      w.addr + c.form.len <= Len(file) /\ ~IsMisread(w.line) =>
        /\ w.k \in DOMAIN listing
        /\ listing[w.k].addr = w.addr
        /\ listing[w.k].item = Item("line", AsListed(w.line, c))
        /\ listing[w.k].target = {(w.addr + w.line.args[i].val) % 65536
                                   : i \in Jumps(w.line, c)}

(* "A length doesn't have to be set, and if it isn't, the assembler will
   always try to use the smallest op": no shorter one takes the line, be it
   another operation of the same name. *)
SmallestIsChosen ==
  status = "listed" =>
    \A w \in WrittenLines : w.line.len = 0 =>
      \A shorter \in {[w.line EXCEPT !.len = n] : n \in {1, 2, 4}} :
        (\E c \in Choice(w.line) : shorter.len < c.form.len) =>
          Refused(shorter) \/ Crashes(shorter)

(* The words listed are those of the file, in their order and none twice.  Of
   an operation that the end of the file cuts off, one word is not listed, and
   of more the missing ones are made up. *)
ListingIsTheFile ==
  status = "listed" =>
    LET words == FlattenSeq([k \in DOMAIN listing |-> listing[k].words])
    IN \/ IsPrefix(file, words)
       \/ file /= <<>> /\ file = Append(words, file[Len(file)])
            /\ OpLen(file[Len(file)]) > 1

(* Does an entry keep its length when it is assembled again?  One without
   operands is listed without its length; a word that is no operation, as a
   line for which a word is left free. *)
KeepsLength(entry) ==
  \/ entry.item.kind = "line" /\ entry.item.line.args /= <<>>
  \/ entry.item.kind \in {"line", "unknown"} /\ Len(entry.words) = 1

(* A listing that is assembled again without a message gives every operation
   the address it had, unknown words included: relative jumps still go where
   they went. *)
AddressesKept ==
  status = "done" /\ (\A k \in DOMAIN listing : KeepsLength(listing[k])) =>
    /\ Len(file) = cur_addr
    /\ \A k \in DOMAIN written :
         written[k].addr = listing[written[k].item].addr

(* What the disassembler makes of any words, right or not, it makes again of
   the words that the assembler makes of it: a second listing is the first,
   but for lines with one of those operands.  Only then can a listing that was
   read by hand be trusted to be what is assembled. *)
ListingIsStable ==
  status = "done" =>
    \A k \in DOMAIN written :
      LET item == text[written[k].item]
          word == written[k].addr + 1
          bits == BitsOf(SubSeq(file, word, word + OpLen(file[word]) - 1))
      IN item.kind = "line" /\ ~IsMisread(item.line) => Shown(bits) = {item}
=============================================================================
