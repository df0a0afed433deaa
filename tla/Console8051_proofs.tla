------------------------- MODULE Console8051_proofs -------------------------
(***************************************************************************)
(* Machine-checked proofs about Console8051, for rings of any size, any     *)
(* lines, any places of the pointers at first and any firmware.             *)
(***************************************************************************)
EXTENDS Console8051, TLAPS, SequenceTheorems

-----------------------------------------------------------------------------
(* Places in a ring.                                                       *)
LEMMA Sizes ==
    /\ IN_LEN \in Nat /\ IN_LEN > 5 /\ OUT_LEN \in Nat \ {0}
    /\ POLLS \in Nat /\ MaxAnswer \in Nat /\ Echo \subseteq {0, 1}
  BY ConsoleAssumption

LEMMA AroundIn ==
    ASSUME NEW size \in Nat \ {0}, NEW a \in 0 .. 2 * size - 1
    PROVE  Around(a, size) \in 0 .. size - 1
  BY DEF Around

LEMMA ModIsAround ==
    ASSUME NEW size \in Nat \ {0}, NEW a \in 0 .. 2 * size - 1
    PROVE  a % size = Around(a, size)
  <1>1. CASE a < size
    BY <1>1 DEF Around
  <1>2. CASE a >= size
    <2>1. a = (a - size) + size /\ a - size \in 0 .. size - 1
      BY <1>2
    <2>2. a % size = a - size
      BY <2>1
    <2> QED BY <1>2, <2>2 DEF Around
  <1> QED BY <1>1, <1>2

(* Going on from a place is the same as starting behind it.                *)
LEMMA AroundAround ==
    ASSUME NEW size \in Nat \ {0}, NEW a \in 0 .. size - 1, NEW k \in 0 .. size - 1
    PROVE  /\ Around(Around(a + 1, size) + k, size) = Around(a + (k + 1), size)
           /\ Around(Around(a + k, size) + 1, size) = Around(a + (k + 1), size)
  BY DEF Around

LEMMA AroundInjective ==
    ASSUME NEW size \in Nat \ {0}, NEW a \in 0 .. size - 1,
           NEW j \in 0 .. size - 1, NEW k \in 0 .. size - 1,
           Around(a + j, size) = Around(a + k, size)
    PROVE  j = k
  BY DEF Around

(* The two parts of a range lie one after the other around the ring.       *)
LEMMA RangeIsAround ==
    ASSUME NEW size \in Nat \ {0}, NEW first \in 0 .. size - 1, NEW cnt \in 0 .. size - 1
    PROVE  LET off == Offset(first, cnt, size)
           IN  /\ off.writePtr \in 0 .. size
               /\ off.writePtr % size = Around(first + cnt, size)
               /\ \A k \in 0 .. cnt - 1 : PlaceOf(k, first, off) = Around(first + k, size)
  <1> DEFINE off == Offset(first, cnt, size)
  <1>1. CASE first + cnt > size
    <2>1. off.part1 = size - first /\ off.writePtr = first + cnt - size
      BY <1>1 DEF Offset
    <2>2. off.writePtr % size = off.writePtr
      BY <1>1, <2>1, ModIsAround DEF Around
    <2> QED BY <1>1, <2>1, <2>2 DEF PlaceOf, Around
  <1>2. CASE first + cnt <= size
    <2>1. off.part1 = cnt /\ off.writePtr = first + cnt
      BY <1>2 DEF Offset
    <2>2. first + cnt \in 0 .. 2 * size - 1 /\ first + cnt \in 0 .. size
      BY <1>2
    <2>3. (first + cnt) % size = Around(first + cnt, size)
      BY <2>2, ModIsAround
    <2>4. \A k \in 0 .. cnt - 1 : PlaceOf(k, first, off) = Around(first + k, size)
      BY <1>2, <2>1 DEF PlaceOf, Around
    <2> QED BY <2>1, <2>2, <2>3, <2>4
  <1> QED BY <1>1, <1>2

-----------------------------------------------------------------------------
(* What the parts of the invariant depend on.                              *)
LEMMA InRingKept ==
    ASSUME InRingInv, UNCHANGED <<inBuf, inBase, inWrite, sent, heard, rushed>>
    PROVE  InRingInv'
  BY DEF InRingInv, Waiting

LEMMA StoreKept ==
    ASSUME StoreInv, UNCHANGED <<pc, i, buf, base, inBase, inBuf, sent, heard, rushed>>
    PROVE  StoreInv'
  BY DEF StoreInv, Waiting

LEMMA OutRingKept ==
    ASSUME OutRingInv, UNCHANGED <<outBuf, outBase, outWrite, emitted, drained, start, obase>>,
           pc' \in {"prompt", "outBase"} \/ pc \notin {"prompt", "outBase"}
    PROVE  OutRingInv'
  BY DEF OutRingInv, LieFrom

LEMMA ResponseKept ==
    ASSUME ResponseInv,
           \/ pc' # "response" /\ printed' = <<>>
           \/ UNCHANGED <<pc, i, printed, obase, owrite, start, upTo, emitted>>
    PROVE  ResponseInv'
  BY DEF ResponseInv, OutCount

(* A command that ends, or is killed, leaves nothing in the tool.          *)
LEMMA PromptTypes ==
    ASSUME TypeOK, AtPrompt,
           UNCHANGED <<inRing, outRing, firmware, lines, sent>>, stdin' \in Seq(Byte)
    PROVE  TypeOK'
  BY Sizes DEF TypeOK, AtPrompt, inRing, outRing, firmware

LEMMA PromptKeeps ==
    ASSUME IInv, AtPrompt,
           UNCHANGED <<inRing, outRing, firmware, lines, sent>>, stdin' \in Seq(Byte)
    PROVE  IInv'
  <1>1. TypeOK'
    BY PromptTypes DEF IInv
  <1>2. InRingInv'
    BY InRingKept DEF IInv, AtPrompt, inRing, firmware
  <1>3. StoreInv' /\ ResponseInv'
    BY DEF AtPrompt, StoreInv, ResponseInv
  <1>4. OutRingInv'
    BY DEF IInv, OutRingInv, LieFrom, AtPrompt, outRing, firmware
  <1> QED BY <1>1, <1>2, <1>3, <1>4 DEF IInv

-----------------------------------------------------------------------------
(* Initially.                                                              *)
LEMMA InitInv == Init => IInv
  <1> SUFFICES ASSUME Init PROVE IInv
    OBVIOUS
  <1>1. TypeOK
    <2>1. inBuf \in [0 .. IN_LEN - 1 -> Byte]
      BY DEF Init, Byte
    <2>2. inBase \in 0 .. IN_LEN - 1 /\ outBase \in 0 .. OUT_LEN - 1
      BY ConsoleAssumption DEF Init
    <2>3. outBuf \in [0 .. OUT_LEN - 1 -> Nat]
      BY DEF Init
    <2>4. inWrite \in 0 .. IN_LEN /\ outWrite \in 0 .. OUT_LEN - 1
      BY <2>2, Sizes DEF Init
    <2>5. 0 \in 0 .. IN_LEN - 1 /\ 0 \in 0 .. OUT_LEN - 1 /\ 0 \in 0 .. 0
      BY Sizes
    <2>6. /\ buf \in Seq(Byte) /\ Len(buf) < IN_LEN
          /\ stdin \in Seq(Byte) /\ sent \in Seq(Byte) /\ heard \in Seq(Byte)
          /\ printed \in Seq(Nat)
      BY Sizes DEF Init
    <2> QED BY <2>1, <2>2, <2>3, <2>4, <2>5, <2>6 DEF Init, TypeOK
  <1>2. InRingInv
    <2>1. inBase \in 0 .. IN_LEN - 1 /\ inBase \in 0 .. 2 * IN_LEN - 1
      BY ConsoleAssumption DEF Init
    <2>2. inBase % IN_LEN = Around(inBase, IN_LEN)
      BY <2>1, Sizes, ModIsAround
    <2>3. Len(sent) = 0 /\ Len(heard) = 0 /\ inWrite = inBase /\ Waiting = 0
      BY DEF Init, Waiting
    <2>4. Waiting \in 0 .. IN_LEN - 1 /\ inBase + Waiting = inBase
      BY <2>1, <2>3, Sizes
    <2> QED BY <2>2, <2>3, <2>4 DEF InRingInv
  <1>3. StoreInv /\ ResponseInv
    BY DEF Init, StoreInv, ResponseInv
  <1>4. OutRingInv
    BY ConsoleAssumption DEF Init, OutRingInv, LieFrom, Around
  <1> QED BY <1>1, <1>2, <1>3, <1>4 DEF IInv

(* The actions of the user.                                                *)
LEMMA TypeKeeps ==
    ASSUME IInv, Type
    PROVE  IInv'
  <1>1. TypeOK'
    <2>1. PICK l \in Lines : stdin' = Append(l, NL)
      BY DEF Type
    <2>2. l \in Seq(Byte) /\ NL \in Byte
      <3>1. l \in Seq(Char) /\ Char \subseteq Byte /\ NL \in Char
        BY ConsoleAssumption DEF Byte, Char
      <3>2. l \in Seq(Byte)
        BY <3>1, SeqMonotonic, Zenon
      <3> QED BY <3>1, <3>2
    <2>3. stdin' \in Seq(Byte)
      BY <2>1, <2>2
    <2> QED BY <2>3 DEF IInv, Type, TypeOK, inRing, outRing, firmware, tool, line, copies
  <1>2. InRingInv' /\ StoreInv'
    BY InRingKept, StoreKept DEF IInv, Type, inRing, firmware, tool, line, copies
  <1>3. OutRingInv'
    BY OutRingKept DEF IInv, Type, outRing, firmware, tool, line, copies
  <1>4. ResponseInv'
    BY ResponseKept DEF IInv, Type, firmware, tool, line, copies
  <1> QED BY <1>1, <1>2, <1>3, <1>4 DEF IInv

LEMMA KillKeeps ==
    ASSUME IInv, Kill
    PROVE  IInv'
  BY PromptKeeps DEF Kill

-----------------------------------------------------------------------------
(* The tool: from the line the user types to its bytes in the IN ring.     *)
LEMMA ReadLineKeeps ==
    ASSUME IInv, ReadLine
    PROVE  IInv'
  <1>1. PICK k \in 1 .. Len(stdin) :
            /\ k <= IN_LEN - 4
            /\ buf' = SubSeq(stdin, 1, k - 1) \o <<NUL, CR>>
            /\ stdin' = SubSeq(stdin, k + 1, Len(stdin))
    <2>1. PICK k \in 1 .. Len(stdin) :
            /\ EndsChunk(k)
            /\ buf' = SubSeq(stdin, 1, k - 1) \o <<NUL, CR>>
            /\ stdin' = SubSeq(stdin, k + 1, Len(stdin))
      BY DEF ReadLine
    <2>2. k <= IN_LEN - 4
      BY <2>1, Sizes DEF EndsChunk, FgetsLimit
    <2> QED BY <2>1, <2>2
  <1>2. stdin \in Seq(Byte) /\ Len(stdin) \in Nat
    BY DEF IInv, TypeOK
  <1>3. SubSeq(stdin, 1, k - 1) \in Seq(Byte) /\ Len(SubSeq(stdin, 1, k - 1)) = k - 1
    BY <1>2
  <1>4. <<NUL, CR>> \in Seq(Byte) /\ Len(<<NUL, CR>>) = 2
    BY DEF Byte
  <1>5. buf' \in Seq(Byte) /\ Len(buf') = k + 1
    BY <1>1, <1>3, <1>4
  <1>6. stdin' \in Seq(Byte)
    BY <1>1, <1>2
  <1>7. TypeOK'
    <2>1. Len(buf') < IN_LEN
      BY <1>1, <1>2, <1>5, Sizes
    <2> QED BY <1>5, <1>6, <2>1
            DEF IInv, ReadLine, TypeOK, inRing, outRing, firmware, copies
  <1>8. InRingInv'
    BY InRingKept DEF IInv, ReadLine, inRing, firmware
  <1>9. StoreInv' /\ ResponseInv'
    BY <1>5 DEF IInv, ReadLine, StoreInv, ResponseInv
  <1>10. OutRingInv'
    BY OutRingKept DEF IInv, ReadLine, outRing, firmware, copies
  <1> QED BY <1>7, <1>8, <1>9, <1>10 DEF IInv

LEMMA ReadOutBaseKeeps ==
    ASSUME IInv, ReadOutBase
    PROVE  IInv'
  <1>1. TypeOK'
    BY DEF IInv, ReadOutBase, TypeOK, inRing, outRing, firmware, user, line
  <1>2. InRingInv'
    BY InRingKept DEF IInv, ReadOutBase, inRing, firmware, line
  <1>3. StoreInv' /\ ResponseInv'
    BY DEF IInv, ReadOutBase, StoreInv, ResponseInv, line
  <1>4. OutRingInv'
    BY DEF IInv, ReadOutBase, OutRingInv, LieFrom, outRing, firmware
  <1> QED BY <1>1, <1>2, <1>3, <1>4 DEF IInv

(* The firmware is at rest when its base pointer is where it was announced. *)
LEMMA AtRest ==
    ASSUME TypeOK, InRingInv, ~rushed
    PROVE  (inBase = inWrite % IN_LEN) <=> (Waiting = 0)
  <1>1. inBase \in 0 .. IN_LEN - 1 /\ Waiting \in 0 .. IN_LEN - 1
    BY DEF TypeOK, InRingInv
  <1>2. inWrite % IN_LEN = Around(inBase + Waiting, IN_LEN)
    BY DEF InRingInv
  <1> QED BY <1>1, <1>2, Sizes DEF Around

LEMMA ReadInBaseKeeps ==
    ASSUME IInv, ReadInBase
    PROVE  IInv'
  <1>1. TypeOK'
    BY DEF IInv, ReadInBase, After, TypeOK, inRing, outRing, firmware, user
  <1>2. InRingInv'
    BY DEF IInv, ReadInBase, InRingInv, Waiting, inRing, firmware
  <1>3. StoreInv'
    <2>1. ~rushed' => Waiting = 0
      BY AtRest DEF IInv, TypeOK, ReadInBase
    <2>2. Waiting' = Waiting
      BY DEF Waiting, ReadInBase, firmware
    <2>3. pc' = "store" /\ i' = 0 /\ buf' = buf /\ Len(buf) > 0 /\ base' = inBase'
      BY DEF IInv, StoreInv, ReadInBase, After, inRing
    <2>4. Len(buf) \in Nat
      BY DEF IInv, TypeOK
    <2> QED BY <2>1, <2>2, <2>3, <2>4 DEF StoreInv
  <1>4. ResponseInv'
    BY DEF IInv, ReadInBase, After, ResponseInv
  <1>5. OutRingInv'
    BY OutRingKept DEF IInv, ReadInBase, After, outRing, firmware
  <1> QED BY <1>1, <1>2, <1>3, <1>4, <1>5 DEF IInv

(* Where a byte of the line is stored, and the pointer behind the line.    *)
LEMMA InPlaces ==
    ASSUME TypeOK
    PROVE  /\ InOffset.writePtr \in 0 .. IN_LEN
           /\ InOffset.writePtr % IN_LEN = Around(base + Len(buf), IN_LEN)
           /\ \A k \in 0 .. Len(buf) - 1 :
                 PlaceOf(k, base, InOffset) = Around(base + k, IN_LEN)
  <1>1. base \in 0 .. IN_LEN - 1 /\ Len(buf) \in 0 .. IN_LEN - 1 /\ IN_LEN \in Nat \ {0}
    BY Sizes DEF TypeOK
  <1> QED BY <1>1, RangeIsAround DEF InOffset

LEMMA StoreKeeps ==
    ASSUME IInv, Store
    PROVE  IInv'
  <1>1. /\ i \in 0 .. Len(buf) - 1 /\ Len(buf) \in 0 .. IN_LEN - 1
        /\ base \in 0 .. IN_LEN - 1 /\ pc = "store"
    <2>1. pc = "store" /\ base \in 0 .. IN_LEN - 1
      BY DEF IInv, TypeOK, Store
    <2>2. i \in 0 .. Len(buf) /\ i < Len(buf)
      BY <2>1 DEF IInv, StoreInv
    <2>3. Len(buf) \in Nat /\ Len(buf) < IN_LEN
      BY DEF IInv, TypeOK
    <2> QED BY <2>1, <2>2, <2>3, Sizes
  <1> DEFINE here == Around(base + i, IN_LEN)
  <1>2. here \in 0 .. IN_LEN - 1
    BY <1>1, Sizes DEF Around
  <1>3. inBuf' = [inBuf EXCEPT ![here] = buf[i + 1]] /\ i' = i + 1
    BY <1>1, InPlaces DEF IInv, Store
  <1>4. TypeOK'
    <2>1. buf[i + 1] \in Byte
      BY <1>1 DEF IInv, TypeOK
    <2>2. inBuf' \in [0 .. IN_LEN - 1 -> Byte]
      BY <1>2, <1>3, <2>1 DEF IInv, TypeOK
    <2>3. i' \in Nat /\ pc' \in {"store", "announce"}
      BY <1>1 DEF Store, After
    <2> QED BY <2>2, <2>3
            DEF IInv, Store, TypeOK, outRing, firmware, user, line, copies
  <1>5. ~rushed => Waiting = 0 /\ base = inBase
    BY <1>1 DEF IInv, StoreInv
  <1>6. Waiting' = Waiting /\ rushed' = rushed
    BY DEF Store, Waiting, firmware, line
  <1>7. InRingInv'
    BY <1>5, <1>6, Sizes DEF IInv, Store, InRingInv, firmware
  <1>8. StoreInv'
    <2>1. ASSUME ~rushed, NEW k \in 1 .. i + 1
          PROVE  inBuf'[Around(base + k - 1, IN_LEN)] = buf[k]
      <3>1. Around(base + k - 1, IN_LEN) \in 0 .. IN_LEN - 1
        BY <1>1, Sizes DEF Around
      <3>2. CASE k = i + 1
        BY <1>1, <1>2, <1>3, <3>2 DEF IInv, TypeOK
      <3>3. CASE k # i + 1
        <4>1. k \in 1 .. i /\ Around(base + k - 1, IN_LEN) # here
          BY <1>1, <3>3, Sizes DEF Around
        <4>2. inBuf[Around(base + k - 1, IN_LEN)] = buf[k]
          BY <1>1, <2>1, <4>1 DEF IInv, StoreInv
        <4> QED BY <1>3, <3>1, <4>1, <4>2 DEF IInv, TypeOK
      <3> QED BY <3>2, <3>3
    <2>2. /\ buf' = buf /\ base' = base /\ inBase' = inBase
          /\ pc' = IF i + 1 < Len(buf) THEN "store" ELSE "announce"
      BY DEF Store, After, line, copies
    <2> QED BY <1>1, <1>3, <1>5, <1>6, <2>1, <2>2 DEF StoreInv
  <1>9. ResponseInv'
    BY DEF IInv, Store, After, ResponseInv
  <1>10. OutRingInv'
    BY OutRingKept DEF IInv, Store, After, outRing, firmware, copies
  <1> QED BY <1>4, <1>7, <1>8, <1>9, <1>10 DEF IInv

LEMMA AnnounceKeeps ==
    ASSUME IInv, Announce
    PROVE  IInv'
  <1>1. /\ sent \in Seq(Byte) /\ heard \in Seq(Byte) /\ buf \in Seq(Byte)
        /\ Len(buf) \in 0 .. IN_LEN - 1 /\ pc = "announce" /\ i = Len(buf)
    BY Sizes DEF IInv, TypeOK, StoreInv, Announce
  <1>2. /\ sent' \in Seq(Byte) /\ Len(sent') = Len(sent) + Len(buf)
        /\ \A k \in 1 .. Len(sent) : sent'[k] = sent[k]
        /\ \A k \in 1 .. Len(buf) : sent'[Len(sent) + k] = buf[k]
    BY <1>1 DEF Announce
  <1>3. /\ inWrite' \in 0 .. IN_LEN
        /\ inWrite' % IN_LEN = Around(base + Len(buf), IN_LEN)
    BY InPlaces DEF IInv, Announce
  <1>4. TypeOK'
    <2>1. POLLS \in Nat /\ pc' = "poll"
      BY Sizes DEF Announce, After
    <2> QED BY <1>2, <1>3, <2>1
            DEF IInv, Announce, TypeOK, outRing, firmware, user, line
  <1>5. InRingInv'
    <2> SUFFICES ASSUME ~rushed PROVE InRingInv'
      BY DEF InRingInv, Announce, line
    <2>1. /\ Len(sent) = Len(heard) /\ base = inBase
          /\ \A k \in 1 .. Len(buf) : inBuf[Around(base + k - 1, IN_LEN)] = buf[k]
      BY <1>1 DEF IInv, StoreInv, Waiting
    <2>2. Waiting' = Len(buf)
      BY <1>1, <1>2, <2>1 DEF Waiting, Announce, firmware
    <2>3. \A k \in 1 .. Len(heard) : heard[k] = sent'[k]
      BY <1>2, <2>1 DEF IInv, InRingInv
    <2> QED BY <1>1, <1>2, <1>3, <2>1, <2>2, <2>3 DEF InRingInv, Announce, firmware
  <1>6. StoreInv' /\ ResponseInv'
    BY DEF IInv, Announce, After, StoreInv, ResponseInv
  <1>7. OutRingInv'
    BY OutRingKept DEF IInv, Announce, After, outRing, firmware
  <1> QED BY <1>4, <1>5, <1>6, <1>7 DEF IInv

-----------------------------------------------------------------------------
(* The tool: the look at the OUT ring and the response.                    *)
LEMMA PollKeeps ==
    ASSUME IInv, Poll
    PROVE  IInv'
  <1>1. CASE AtPrompt
    BY <1>1, PromptKeeps DEF IInv, TypeOK, Poll, user
  <1>2. CASE /\ UNCHANGED <<line, base, obase, owrite, start, upTo, i, printed>>
             /\ polls' \in Nat /\ pc = "poll" /\ pc' \in {"poll", "outWrite"}
             /\ UNCHANGED <<inRing, outRing, firmware, user, sent>>
    <2>1. TypeOK'
      BY <1>2 DEF IInv, TypeOK, inRing, outRing, firmware, user, line
    <2>2. InRingInv'
      BY <1>2, InRingKept DEF IInv, inRing, firmware, line
    <2>3. StoreInv' /\ ResponseInv'
      BY <1>2 DEF IInv, StoreInv, ResponseInv
    <2>4. OutRingInv'
      BY <1>2, OutRingKept DEF IInv, outRing, firmware
    <2> QED BY <2>1, <2>2, <2>3, <2>4 DEF IInv
  <1>3. polls \in Nat
    BY DEF IInv, TypeOK
  <1> QED BY <1>1, <1>2, <1>3 DEF Poll, copies

LEMMA ReadOutWriteKeeps ==
    ASSUME IInv, ReadOutWrite
    PROVE  IInv'
  <1>1. TypeOK'
    BY DEF IInv, ReadOutWrite, TypeOK, inRing, outRing, firmware, user, line
  <1>2. InRingInv'
    BY InRingKept DEF IInv, ReadOutWrite, inRing, firmware, line
  <1>3. StoreInv'
    BY DEF ReadOutWrite, StoreInv
  <1>4. OutRingInv'
    BY OutRingKept DEF IInv, ReadOutWrite, outRing, firmware
  <1>5. ResponseInv'
    <2>1. pc = "outWrite" /\ printed = <<>> /\ printed' = printed /\ i' = 0
      BY DEF IInv, ResponseInv, ReadOutWrite
    <2>2. Len(printed') = 0
      BY <2>1
    <2>3. start' <= upTo' /\ emitted' = emitted /\ start' = start /\ obase' = obase
      BY DEF IInv, TypeOK, ReadOutWrite, firmware
    <2>4. emitted - start < OUT_LEN => owrite' = Around(obase + (upTo' - start), OUT_LEN)
      BY <2>1 DEF IInv, OutRingInv, LieFrom, ReadOutWrite
    <2> QED BY <2>1, <2>2, <2>3, <2>4 DEF ResponseInv
  <1> QED BY <1>1, <1>2, <1>3, <1>4, <1>5 DEF IInv

(* How long a response is, and where its bytes are read.                   *)
LEMMA OutPlaces ==
    ASSUME TypeOK
    PROVE  /\ OutCount \in 0 .. OUT_LEN - 1
           /\ \A k \in 0 .. OutCount - 1 :
                 PlaceOf(k, obase, OutOffset) = Around(obase + k, OUT_LEN)
  <1>1. /\ obase \in 0 .. OUT_LEN - 1 /\ owrite \in 0 .. OUT_LEN - 1
        /\ OUT_LEN \in Nat \ {0}
    BY Sizes DEF TypeOK
  <1>2. OutCount \in 0 .. OUT_LEN - 1
    BY <1>1 DEF OutCount
  <1> QED BY <1>1, <1>2, RangeIsAround DEF OutOffset

LEMMA CountIsSaid ==
    ASSUME TypeOK, start <= upTo, emitted - start < OUT_LEN,
           owrite = Around(obase + (upTo - start), OUT_LEN)
    PROVE  OutCount = upTo - start
  <1>1. /\ obase \in 0 .. OUT_LEN - 1 /\ upTo - start \in 0 .. OUT_LEN - 1
        /\ upTo \in Nat /\ start \in Nat
    BY Sizes DEF TypeOK
  <1>2. CASE obase + (upTo - start) < OUT_LEN
    BY <1>1, <1>2, Sizes DEF OutCount, Around
  <1>3. CASE obase + (upTo - start) >= OUT_LEN
    BY <1>1, <1>3, Sizes DEF OutCount, Around
  <1> QED BY <1>1, <1>2, <1>3, Sizes

LEMMA ReadResponseKeeps ==
    ASSUME IInv, ReadResponse
    PROVE  IInv'
  <1>1. /\ pc = "response" /\ pc' = pc /\ i = Len(printed) /\ i \in 0 .. OutCount - 1
        /\ OutCount \in 0 .. OUT_LEN - 1 /\ i' = i + 1 /\ start <= upTo
    <2>1. pc = "response" /\ pc' = pc /\ i < OutCount /\ i' = i + 1
      BY DEF ReadResponse
    <2>2. i = Len(printed) /\ start <= upTo /\ i \in Nat
      BY <2>1 DEF IInv, TypeOK, ResponseInv
    <2>3. OutCount \in 0 .. OUT_LEN - 1
      BY OutPlaces DEF IInv
    <2>4. i \in 0 .. OutCount - 1
      BY <2>1, <2>2, <2>3, Sizes
    <2> QED BY <2>1, <2>2, <2>3, <2>4
  <1> DEFINE here == Around(obase + i, OUT_LEN)
  <1>2. here \in 0 .. OUT_LEN - 1 /\ outBuf[here] \in Nat
    <2>1. obase \in 0 .. OUT_LEN - 1 /\ outBuf \in [0 .. OUT_LEN - 1 -> Nat]
      BY DEF IInv, TypeOK
    <2>2. here \in 0 .. OUT_LEN - 1
      BY <1>1, <2>1, Sizes DEF Around
    <2> QED BY <2>1, <2>2
  <1>3. printed' = Append(printed, outBuf[here])
    BY <1>1, OutPlaces DEF IInv, ReadResponse
  <1>4. /\ printed' \in Seq(Nat) /\ Len(printed') = i + 1 /\ printed'[i + 1] = outBuf[here]
        /\ \A k \in 1 .. i : printed'[k] = printed[k]
    BY <1>1, <1>2, <1>3 DEF IInv, TypeOK
  <1>5. TypeOK'
    <2>1. i' \in Nat
      BY <1>1 DEF IInv, TypeOK
    <2>2. /\ UNCHANGED <<inBuf, inBase, inWrite, outBuf, outBase, outWrite, owed, heard>>
          /\ UNCHANGED <<emitted, drained, stdin, lines, buf, rushed, base, obase>>
          /\ UNCHANGED <<owrite, polls, start, upTo, pc, sent>>
      BY DEF ReadResponse, inRing, outRing, firmware, user, line, copies
    <2> QED BY <1>4, <2>1, <2>2 DEF IInv, TypeOK
  <1>6. InRingInv'
    BY InRingKept DEF IInv, ReadResponse, inRing, firmware, line
  <1>7. StoreInv'
    BY <1>1 DEF StoreInv
  <1>8. OutRingInv'
    BY <1>1, OutRingKept DEF IInv, ReadResponse, outRing, firmware, copies
  <1>9. ResponseInv'
    <2>1. UNCHANGED <<obase, owrite, start, upTo, emitted>>
      BY DEF ReadResponse, copies, firmware
    <2>2. OutCount' = OutCount
      BY <2>1 DEF OutCount
    <2>3. ASSUME emitted - start < OUT_LEN
          PROVE  /\ owrite = Around(obase + (upTo - start), OUT_LEN)
                 /\ \A k \in 1 .. i + 1 : printed'[k] = start + k
      <3>1. /\ owrite = Around(obase + (upTo - start), OUT_LEN)
            /\ \A k \in 1 .. i : printed[k] = start + k
        BY <1>1, <2>3 DEF IInv, ResponseInv
      <3>2. LieFrom(obase, start)
        BY <1>1, <2>3 DEF IInv, OutRingInv
      <3>3. i + 1 \in 1 .. emitted - start
        <4>1. OutCount = upTo - start
          BY <1>1, <2>3, <3>1, CountIsSaid DEF IInv
        <4>2. upTo \in 0 .. emitted /\ start \in 0 .. emitted /\ emitted \in Nat
          BY DEF IInv, TypeOK
        <4> QED BY <1>1, <4>1, <4>2
      <3>4. obase + (i + 1) - 1 = obase + i
        BY <1>1 DEF IInv, TypeOK
      <3>5. outBuf[here] = start + (i + 1)
        BY <3>2, <3>3, <3>4 DEF LieFrom
      <3> QED BY <1>1, <1>4, <3>1, <3>5
    <2> QED BY <1>1, <1>4, <2>1, <2>2, <2>3 DEF ResponseInv
  <1> QED BY <1>5, <1>6, <1>7, <1>8, <1>9 DEF IInv

LEMMA PrintResponseKeeps ==
    ASSUME IInv, PrintResponse
    PROVE  IInv'
  BY PromptKeeps DEF PrintResponse, IInv, TypeOK, user

-----------------------------------------------------------------------------
(* The firmware and the UART.                                              *)
LEMMA TakeKeeps ==
    ASSUME IInv, Take
    PROVE  IInv'
  <1>1. /\ inBase \in 0 .. IN_LEN - 1 /\ inBuf[inBase] \in Byte
        /\ sent \in Seq(Byte) /\ heard \in Seq(Byte)
    BY DEF IInv, TypeOK
  <1>2. inBase' = Around(inBase + 1, IN_LEN)
    <2>1. inBase + 1 \in 0 .. 2 * IN_LEN - 1
      BY <1>1, Sizes
    <2> QED BY <2>1, Sizes, ModIsAround DEF Take
  <1>3. /\ heard' \in Seq(Byte) /\ Len(heard') = Len(heard) + 1
        /\ heard'[Len(heard) + 1] = inBuf[inBase]
        /\ \A k \in 1 .. Len(heard) : heard'[k] = heard[k]
    BY <1>1 DEF Take
  <1>4. TypeOK'
    <2>1. owed' \in Nat
      <3>1. 0 .. MaxAnswer \subseteq Nat /\ Echo \subseteq Nat
        BY Sizes
      <3>2. PICK n \in IF inBuf[inBase] = CR THEN 0 .. MaxAnswer ELSE Echo :
                owed' = owed + n
        BY DEF Take
      <3> QED BY <3>1, <3>2 DEF IInv, TypeOK
    <2>2. inBase' \in 0 .. IN_LEN - 1
      BY <1>1, <1>2, Sizes DEF Around
    <2> QED BY <1>3, <2>1, <2>2
            DEF IInv, Take, TypeOK, outRing, user, tool, line, copies
  <1>5. ~rushed => Waiting \in 1 .. IN_LEN - 1
    <2> SUFFICES ASSUME ~rushed PROVE Waiting \in 1 .. IN_LEN - 1
      OBVIOUS
    <2>1. Waiting # 0
      BY AtRest DEF IInv, Take
    <2> QED BY <2>1, Sizes DEF IInv, InRingInv
  <1>6. InRingInv'
    <2> SUFFICES ASSUME ~rushed PROVE InRingInv'
      BY DEF InRingInv, Take, tool, line
    <2>1. Waiting' = Waiting - 1
      BY <1>1, <1>3 DEF Waiting, Take
    <2>2. inWrite' % IN_LEN = Around(inBase' + Waiting', IN_LEN)
      <3>1. Around(inBase' + (Waiting - 1), IN_LEN) = Around(inBase + Waiting, IN_LEN)
        BY <1>1, <1>2, <1>5, Sizes DEF Around
      <3> QED BY <2>1, <3>1 DEF IInv, InRingInv, Take
    <2>3. ASSUME NEW k \in 1 .. Waiting'
          PROVE  inBuf'[Around(inBase' + k - 1, IN_LEN)] = sent'[Len(heard') + k]
      <3>1. k \in 1 .. Waiting - 1 /\ k + 1 \in 1 .. Waiting
        BY <1>5, <2>1
      <3>2. Around(inBase' + k - 1, IN_LEN) = Around(inBase + (k + 1) - 1, IN_LEN)
        BY <1>1, <1>2, <1>5, <3>1, Sizes DEF Around
      <3>3. inBuf[Around(inBase + (k + 1) - 1, IN_LEN)] = sent[Len(heard) + (k + 1)]
        BY <3>1 DEF IInv, InRingInv
      <3>4. Len(heard') + k = Len(heard) + (k + 1)
        BY <1>1, <1>3, <3>1
      <3> QED BY <3>2, <3>3, <3>4 DEF Take
    <2>4. \A k \in 1 .. Len(heard') : heard'[k] = sent'[k]
      <3>1. inBuf[Around(inBase + 1 - 1, IN_LEN)] = sent[Len(heard) + 1]
        BY <1>5 DEF IInv, InRingInv
      <3>2. Around(inBase + 1 - 1, IN_LEN) = inBase
        BY <1>1, Sizes DEF Around
      <3>3. \A k \in 1 .. Len(heard) : heard[k] = sent[k]
        BY DEF IInv, InRingInv
      <3> QED BY <1>1, <1>3, <3>1, <3>2, <3>3 DEF Take
    <2>5. Waiting' \in 0 .. IN_LEN - 1
      BY <1>5, <2>1, Sizes
    <2> QED BY <2>2, <2>3, <2>4, <2>5 DEF InRingInv
  <1>7. StoreInv'
    BY <1>5 DEF IInv, StoreInv, Take, tool, line, copies
  <1>8. OutRingInv'
    BY OutRingKept DEF IInv, Take, outRing, tool, copies
  <1>9. ResponseInv'
    BY ResponseKept DEF IInv, Take, tool, copies
  <1> QED BY <1>4, <1>6, <1>7, <1>8, <1>9 DEF IInv

(* One byte more lies behind those that lay there.                         *)
LEMMA SayLies ==
    ASSUME TypeOK, Say, NEW first \in 0 .. OUT_LEN - 1, NEW n \in 0 .. emitted,
           emitted + 1 - n < OUT_LEN, LieFrom(first, n)
    PROVE  /\ outWrite' = Around(first + (emitted' - n), OUT_LEN)
           /\ \A k \in 1 .. emitted' - n :
                 outBuf'[Around(first + k - 1, OUT_LEN)] = n + k
  <1>1. /\ emitted \in Nat /\ emitted' = emitted + 1
        /\ outWrite \in 0 .. OUT_LEN - 1
        /\ outBuf \in [0 .. OUT_LEN - 1 -> Nat]
        /\ outBuf' = [outBuf EXCEPT ![outWrite] = emitted + 1]
    BY DEF TypeOK, Say
  <1>2. emitted - n \in 0 .. OUT_LEN - 2 /\ n \in Nat
    BY <1>1, Sizes
  <1>3. outWrite = Around(first + (emitted - n), OUT_LEN)
    BY DEF LieFrom
  <1>4. outWrite' = Around(outWrite + 1, OUT_LEN)
    <2>1. outWrite + 1 \in 0 .. 2 * OUT_LEN - 1
      BY <1>1, Sizes
    <2> QED BY <2>1, Sizes, ModIsAround DEF Say
  <1>5. outWrite' = Around(first + (emitted' - n), OUT_LEN)
    BY <1>1, <1>2, <1>3, <1>4, Sizes DEF Around
  <1>6. ASSUME NEW k \in 1 .. emitted' - n
        PROVE  outBuf'[Around(first + k - 1, OUT_LEN)] = n + k
    <2>1. CASE k = emitted + 1 - n
      <3>1. Around(first + k - 1, OUT_LEN) = outWrite
        BY <1>1, <1>2, <1>3, <2>1
      <3> QED BY <1>1, <1>2, <2>1, <3>1
    <2>2. CASE k # emitted + 1 - n
      <3>1. k \in 1 .. emitted - n
        BY <1>1, <1>2, <2>2
      <3>2. /\ Around(first + k - 1, OUT_LEN) # outWrite
            /\ Around(first + k - 1, OUT_LEN) \in 0 .. OUT_LEN - 1
        BY <1>2, <1>3, <3>1, Sizes DEF Around
      <3>3. outBuf[Around(first + k - 1, OUT_LEN)] = n + k
        BY <3>1 DEF LieFrom
      <3> QED BY <1>1, <3>2, <3>3
    <2> QED BY <2>1, <2>2
  <1> QED BY <1>5, <1>6

LEMMA SayKeeps ==
    ASSUME IInv, Say
    PROVE  IInv'
  <1>1. /\ emitted \in Nat /\ emitted' = emitted + 1
        /\ drained \in 0 .. emitted /\ start \in 0 .. emitted
        /\ outWrite \in 0 .. OUT_LEN - 1 /\ outBase \in 0 .. OUT_LEN - 1
        /\ obase \in 0 .. OUT_LEN - 1
        /\ UNCHANGED <<inRing, outBase, heard, drained, user, tool, sent>>
    BY DEF IInv, TypeOK, Say
  <1>2. outWrite' \in 0 .. OUT_LEN - 1 /\ outWrite' = Around(outWrite + 1, OUT_LEN)
    <2>1. outWrite + 1 \in 0 .. 2 * OUT_LEN - 1
      BY <1>1, Sizes
    <2> QED BY <2>1, Sizes, ModIsAround, AroundIn DEF Say
  <1>3. TypeOK'
    <2>1. owed' \in Nat
      BY DEF IInv, TypeOK, Say
    <2>2. outBuf' \in [0 .. OUT_LEN - 1 -> Nat]
      BY <1>1 DEF IInv, TypeOK, Say
    <2>3. drained' \in 0 .. emitted' /\ start' \in 0 .. emitted' /\ upTo' \in 0 .. emitted'
      BY <1>1 DEF IInv, TypeOK, tool, copies
    <2>4. emitted' \in Nat
      BY <1>1
    <2>5. /\ UNCHANGED <<inBuf, inBase, inWrite, outBase, heard, stdin, lines, sent>>
          /\ UNCHANGED <<buf, rushed, base, obase, owrite, polls, i, printed, pc>>
      BY <1>1 DEF inRing, user, tool, line, copies
    <2> QED BY <1>2, <2>1, <2>2, <2>3, <2>4, <2>5 DEF IInv, TypeOK
  <1>4. InRingInv' /\ StoreInv'
    BY <1>1, InRingKept, StoreKept DEF IInv, inRing, tool, line, copies
  <1>5. OutRingInv'
    <2>1. emitted + 1 - drained < OUT_LEN
      <3>1. /\ emitted - drained \in 0 .. OUT_LEN - 1
            /\ outWrite = Around(outBase + (emitted - drained), OUT_LEN)
        BY <1>1, Sizes DEF IInv, OutRingInv, LieFrom
      <3>2. outWrite' # outBase
        BY DEF Say
      <3> QED BY <1>1, <1>2, <3>1, <3>2, Sizes DEF Around
    <2>2. LieFrom(outBase, drained)'
      <3>1. LieFrom(outBase, drained)
        BY DEF IInv, OutRingInv
      <3>2. /\ outWrite' = Around(outBase + (emitted' - drained), OUT_LEN)
            /\ \A k \in 1 .. emitted' - drained :
                  outBuf'[Around(outBase + k - 1, OUT_LEN)] = drained + k
        BY <1>1, <2>1, <3>1, SayLies DEF IInv
      <3> QED BY <1>1, <3>2 DEF LieFrom
    <2>3. ASSUME pc \notin {"prompt", "outBase"}, emitted' - start < OUT_LEN
          PROVE  LieFrom(obase, start)'
      <3>1. emitted + 1 - start < OUT_LEN /\ emitted - start < OUT_LEN
        BY <1>1, <2>3, Sizes
      <3>2. LieFrom(obase, start)
        BY <2>3, <3>1 DEF IInv, OutRingInv
      <3>3. /\ outWrite' = Around(obase + (emitted' - start), OUT_LEN)
            /\ \A k \in 1 .. emitted' - start :
                  outBuf'[Around(obase + k - 1, OUT_LEN)] = start + k
        BY <1>1, <3>1, <3>2, SayLies DEF IInv
      <3> QED BY <1>1, <3>3 DEF LieFrom, tool, copies
    <2> QED BY <1>1, <2>1, <2>2, <2>3 DEF OutRingInv, tool, copies
  <1>6. ResponseInv'
    <2>1. /\ OutCount' = OutCount /\ UNCHANGED <<pc, i, printed, obase, owrite, start, upTo>>
      BY <1>1 DEF OutCount, tool, copies
    <2>2. emitted' - start < OUT_LEN => emitted - start < OUT_LEN
      BY <1>1, Sizes
    <2> QED BY <2>1, <2>2 DEF IInv, ResponseInv
  <1> QED BY <1>3, <1>4, <1>5, <1>6 DEF IInv

LEMMA DrainKeeps ==
    ASSUME IInv, Drain
    PROVE  IInv'
  <1>1. /\ emitted \in Nat /\ drained \in 0 .. emitted /\ drained' = drained + 1
        /\ outWrite \in 0 .. OUT_LEN - 1 /\ outBase \in 0 .. OUT_LEN - 1
        /\ UNCHANGED <<inRing, outBuf, outWrite, owed, heard, emitted, user, tool, sent>>
    BY DEF IInv, TypeOK, Drain
  <1>2. outBase' \in 0 .. OUT_LEN - 1 /\ outBase' = Around(outBase + 1, OUT_LEN)
    <2>1. outBase + 1 \in 0 .. 2 * OUT_LEN - 1
      BY <1>1, Sizes
    <2> QED BY <2>1, Sizes, ModIsAround, AroundIn DEF Drain
  <1>3. emitted - drained \in 1 .. OUT_LEN - 1
    <2>1. /\ emitted - drained \in 0 .. OUT_LEN - 1 /\ outBase # outWrite
          /\ outWrite = Around(outBase + (emitted - drained), OUT_LEN)
      BY <1>1, Sizes DEF IInv, OutRingInv, LieFrom, Drain
    <2> QED BY <1>1, <2>1, Sizes DEF Around
  <1>4. TypeOK'
    <2>1. drained' \in 0 .. emitted'
      BY <1>1, <1>3, Sizes
    <2> QED BY <1>1, <1>2, <2>1 DEF IInv, TypeOK, inRing, user, tool, line, copies
  <1>5. InRingInv' /\ StoreInv'
    BY <1>1, InRingKept, StoreKept DEF IInv, inRing, tool, line, copies
  <1>6. OutRingInv'
    <2>1. emitted' - drained' < OUT_LEN
      BY <1>1, <1>3, Sizes
    <2>2. LieFrom(outBase, drained)
      BY DEF IInv, OutRingInv
    <2>3. outWrite = Around(outBase' + (emitted - drained'), OUT_LEN)
      BY <1>1, <1>2, <1>3, <2>2, Sizes DEF LieFrom, Around
    <2>4. ASSUME NEW k \in 1 .. emitted - drained'
          PROVE  outBuf[Around(outBase' + k - 1, OUT_LEN)] = drained' + k
      <3>1. k + 1 \in 1 .. emitted - drained
        BY <1>1, <1>3
      <3>2. Around(outBase' + k - 1, OUT_LEN) = Around(outBase + (k + 1) - 1, OUT_LEN)
        BY <1>1, <1>2, <1>3, <3>1, Sizes DEF Around
      <3>3. outBuf[Around(outBase + (k + 1) - 1, OUT_LEN)] = drained + (k + 1)
        BY <2>2, <3>1 DEF LieFrom
      <3> QED BY <1>1, <3>2, <3>3
    <2>5. LieFrom(outBase, drained)'
      BY <1>1, <2>3, <2>4 DEF LieFrom
    <2>6. pc' \notin {"prompt", "outBase"} /\ emitted' - start' < OUT_LEN =>
              LieFrom(obase, start)'
      BY <1>1 DEF IInv, OutRingInv, LieFrom, tool, copies
    <2> QED BY <2>1, <2>5, <2>6 DEF OutRingInv
  <1>7. ResponseInv'
    BY <1>1, ResponseKept DEF IInv, tool, copies
  <1> QED BY <1>4, <1>5, <1>6, <1>7 DEF IInv

-----------------------------------------------------------------------------
(***************************************************************************)
(* The theorems.                                                           *)
(***************************************************************************)
LEMMA NextKeeps ==
    ASSUME IInv, [Next]_vars
    PROVE  IInv'
  <1>1. CASE Type
    BY <1>1, TypeKeeps
  <1>2. CASE ReadLine
    BY <1>2, ReadLineKeeps
  <1>3. CASE ReadOutBase
    BY <1>3, ReadOutBaseKeeps
  <1>4. CASE ReadInBase
    BY <1>4, ReadInBaseKeeps
  <1>5. CASE Store
    BY <1>5, StoreKeeps
  <1>6. CASE Announce
    BY <1>6, AnnounceKeeps
  <1>7. CASE Poll
    BY <1>7, PollKeeps
  <1>8. CASE ReadOutWrite
    BY <1>8, ReadOutWriteKeeps
  <1>9. CASE ReadResponse
    BY <1>9, ReadResponseKeeps
  <1>10. CASE PrintResponse
    BY <1>10, PrintResponseKeeps
  <1>11. CASE Kill
    BY <1>11, KillKeeps
  <1>12. CASE Take
    BY <1>12, TakeKeeps
  <1>13. CASE Say
    BY <1>13, SayKeeps
  <1>14. CASE Drain
    BY <1>14, DrainKeeps
  <1>15. CASE UNCHANGED vars
    <2>1. TypeOK'
      BY <1>15 DEF IInv, TypeOK, vars, inRing, outRing, firmware, user, tool, line, copies
    <2>2. InRingInv' /\ StoreInv'
      BY <1>15, InRingKept, StoreKept DEF IInv, vars, inRing, firmware, tool, line, copies
    <2>3. OutRingInv' /\ ResponseInv'
      BY <1>15, OutRingKept, ResponseKept
         DEF IInv, vars, outRing, firmware, tool, line, copies
    <2> QED BY <2>1, <2>2, <2>3 DEF IInv
  <1> QED BY <1>1, <1>2, <1>3, <1>4, <1>5, <1>6, <1>7, <1>8, <1>9, <1>10, <1>11,
             <1>12, <1>13, <1>14, <1>15 DEF Next, Tool

(* In every behaviour of the console the invariant holds: the bytes         *)
(* announced and not yet taken, and those said and not yet drained, lie in  *)
(* the two rings in order, around their ends, and never fill them.          *)
THEOREM RingsAreKept == Spec => []IInv
  BY InitInv, NextKeeps, PTL DEF Spec

(* The firmware takes what the tool announced, all and in order, as long as *)
(* no line is stored over another (write_input_serial_buffer and            *)
(* set_8051_exram_range_data around the end of the ring).                   *)
THEOREM HeardCorrect == Spec => []HeardIsSent
  <1>1. IInv => HeardIsSent
    <2> SUFFICES ASSUME IInv, ~rushed PROVE IsPrefix(heard, sent)
      BY DEF HeardIsSent
    <2>1. heard \in Seq(Byte) /\ sent \in Seq(Byte) /\ Len(heard) <= Len(sent)
      BY DEF IInv, TypeOK, InRingInv, Waiting
    <2>2. \A k \in 1 .. Len(heard) : heard[k] = sent[k]
      BY DEF IInv, InRingInv
    <2>3. Len(heard) \in Nat /\ \A k \in 1 .. Len(heard) : sent[k] \in Byte
      BY <2>1
    <2>4. /\ SubSeq(sent, 1, Len(heard)) \in Seq(Byte)
          /\ Len(SubSeq(sent, 1, Len(heard))) = Len(heard)
          /\ \A k \in 1 .. Len(heard) : SubSeq(sent, 1, Len(heard))[k] = sent[k]
      BY <2>1, <2>3
    <2>5. heard = SubSeq(sent, 1, Len(heard))
      BY <2>1, <2>2, <2>4, SeqEqual
    <2> QED BY <2>1, <2>5 DEF IsPrefix
  <1> QED BY <1>1, RingsAreKept, PTL

(* The response printed is what the firmware said since the command, byte   *)
(* by byte and to the end (print_serial_buffer_cmd_response), unless the    *)
(* firmware went round the ring meanwhile.                                  *)
THEOREM PrintedCorrect == Spec => []PrintedIsSaid
  <1>1. IInv => PrintedIsSaid
    <2> SUFFICES ASSUME IInv, pc = "response", emitted - start < OUT_LEN
                 PROVE  /\ \A k \in 1 .. Len(printed) : printed[k] = start + k
                        /\ i = OutCount => start + Len(printed) = upTo
      BY DEF PrintedIsSaid
    <2>1. /\ TypeOK /\ i = Len(printed) /\ start <= upTo
          /\ owrite = Around(obase + (upTo - start), OUT_LEN)
          /\ \A k \in 1 .. i : printed[k] = start + k
      BY DEF IInv, ResponseInv
    <2>2. OutCount = upTo - start
      BY <2>1, CountIsSaid
    <2>3. start \in Nat /\ upTo \in Nat
      BY <2>1 DEF TypeOK
    <2> QED BY <2>1, <2>2, <2>3
  <1> QED BY <1>1, RingsAreKept, PTL

=============================================================================
