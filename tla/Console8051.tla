---------------------------- MODULE Console8051 ----------------------------
(***************************************************************************)
(* 8051-command-line and the serial console of the 8051's firmware.         *)
(*                                                                         *)
(* Two rings in exram join them.  The tool stores a line in the IN ring and *)
(* moves its write pointer; the firmware takes bytes from the base pointer  *)
(* on.  What the firmware says goes to the OUT ring at its write pointer,   *)
(* and a UART drains it at the base pointer; the tool looks at the OUT ring *)
(* without taking anything from it.                                        *)
(*                                                                         *)
(* The firmware is not part of the repository: it runs on by itself at any  *)
(* speed, may echo what it takes, and answers a whole command with any      *)
(* number of bytes.  Its pointers stay inside their rings; the tool may     *)
(* leave the IN write pointer one beyond the end, which is taken for 0.     *)
(* One exram access is one step here; Exram8051 takes it apart.             *)
(*                                                                         *)
(* A definition marked "Fault" is a wrong version of the one that follows,  *)
(* kept to show which property would notice it.                             *)
(***************************************************************************)
EXTENDS Integers, Sequences, SequencesExt

CONSTANTS
    IN_LEN,     \* bytes of the IN ring     (code: 0x80)
    OUT_LEN,    \* bytes of the OUT ring    (code: 0x100)
    POLLS,      \* looks at the OUT ring    (code: 4)
    Lines,      \* what the user may type, without the new-line
    NL, NUL, CR,
    FirstIn, FirstOut,  \* where the pointers of the rings may be at first
    Echo,       \* bytes the firmware may say for a byte it takes (0, 1)
    MaxAnswer,  \* bound: bytes the firmware answers a command with
    MAX_LINES   \* bound: lines the user types

Char == (UNION { ToSet(l) : l \in Lines }) \cup {NL}
Byte == Char \cup {NUL, CR}

ASSUME ConsoleAssumption ==
    /\ IN_LEN \in Nat /\ IN_LEN > 5 /\ OUT_LEN \in Nat \ {0} /\ POLLS \in Nat \ {0}
    /\ FirstIn \subseteq 0 .. IN_LEN - 1 /\ FirstOut \subseteq 0 .. OUT_LEN - 1
    /\ Echo \subseteq {0, 1} /\ Echo # {}
    /\ MaxAnswer \in Nat /\ MAX_LINES \in Nat
    /\ NL \notin {NUL, CR} /\ NUL # CR
    /\ \A l \in Lines : l \in Seq(Char) /\ {NL, NUL, CR} \cap ToSet(l) = {}

VARIABLES
    inBuf, inBase, inWrite,     \* exram: the IN ring
    outBuf, outBase, outWrite,  \* exram: the OUT ring
    owed,           \* firmware: bytes it still has to say
    stdin,          \* user: typed, not yet read by the tool
    buf,            \* tool: bytes to store
    base,           \* tool: its copy of the IN base pointer
    obase, owrite,  \* tool: its copies of the OUT pointers
    polls,          \* tool: looks at the OUT ring left
    i,              \* tool: bytes of the current range done
    printed,        \* tool: what it reads as the response
    pc,             \* tool: what it does next
    lines,          \* history: lines typed
    sent, heard,    \* history: bytes stored and announced; taken by the firmware
    emitted, drained,   \* history: bytes the firmware said; the UART sent
    start, upTo,    \* history: drained when the tool read the OUT base,
                    \* emitted when it read the OUT write pointer
    rushed          \* history: a line was stored over one not yet taken

inRing   == <<inBuf, inBase, inWrite>>
outRing  == <<outBuf, outBase, outWrite>>
firmware == <<owed, heard, emitted, drained>>
user     == <<stdin, lines>>
line     == <<buf, rushed>>
copies   == <<base, obase, owrite, polls, start, upTo>>
tool     == <<line, copies, i, printed, pc>>
vars     == <<inRing, outRing, firmware, user, tool, sent>>

Init ==
    /\ inBuf = [a \in 0 .. IN_LEN - 1 |-> NUL]
    /\ inBase \in FirstIn /\ inWrite = inBase
    /\ outBuf = [a \in 0 .. OUT_LEN - 1 |-> 0]
    /\ outBase \in FirstOut /\ outWrite = outBase
    /\ owed = 0 /\ emitted = 0 /\ drained = 0
    /\ stdin = <<>> /\ lines = 0
    /\ buf = <<>> /\ base = 0 /\ obase = 0 /\ owrite = 0 /\ polls = 0 /\ i = 0
    /\ printed = <<>> /\ pc = "prompt"
    /\ sent = <<>> /\ heard = <<>>
    /\ start = 0 /\ upTo = 0 /\ rushed = FALSE

-----------------------------------------------------------------------------
(* How cnt bytes from start on lie in a ring: up to its end, then from its  *)
(* beginning; and the pointer behind them.                                  *)
Offset(first, cnt, size) ==
    IF first + cnt > size
    THEN [part1 |-> size - first, part2 |-> cnt - (size - first),
          writePtr |-> cnt - (size - first)]
    ELSE [part1 |-> cnt, part2 |-> 0, writePtr |-> first + cnt]

(* Where byte k (from 0 on) of such a range is.                            *)
PlaceOf(k, first, off) == IF k < off.part1 THEN first + k ELSE k - off.part1

-----------------------------------------------------------------------------
(* The user types a line; typing ahead makes no difference to the tool.     *)
Type ==
    /\ pc = "prompt" /\ stdin = <<>> /\ lines < MAX_LINES
    /\ \E l \in Lines : stdin' = Append(l, NL)
    /\ lines' = lines + 1
    /\ UNCHANGED <<inRing, outRing, firmware, tool, sent>>

(* The tool is back at fgets; its locals are gone.                         *)
AtPrompt ==
    /\ pc' = "prompt"
    /\ buf' = <<>> /\ printed' = <<>> /\ i' = 0
    /\ base' = 0 /\ obase' = 0 /\ owrite' = 0 /\ polls' = 0
    /\ start' = 0 /\ upTo' = 0
    /\ UNCHANGED rushed

\* Fault: the length of the ring is the limit.
FgetsLimitRing == IN_LEN
FgetsLimit == IN_LEN - 3

(* fgets ends a chunk at a new-line, or where there is no more room.        *)
EndsChunk(k) ==
    /\ k <= FgetsLimit - 1
    /\ stdin[k] = NL \/ k = FgetsLimit - 1
    /\ \A j \in 1 .. k - 1 : stdin[j] # NL

(* Whatever the last character of the chunk is, it is replaced.            *)
ReadLine ==
    /\ pc = "prompt"
    /\ \E k \in 1 .. Len(stdin) :
          /\ EndsChunk(k)
          /\ buf' = SubSeq(stdin, 1, k - 1) \o <<NUL, CR>>
          /\ stdin' = SubSeq(stdin, k + 1, Len(stdin))
    /\ pc' = "outBase"
    /\ UNCHANGED <<inRing, outRing, firmware, lines, copies, i, printed, rushed, sent>>

ReadOutBase ==
    /\ pc = "outBase"
    /\ obase' = outBase /\ start' = drained
    /\ pc' = "inBase"
    /\ UNCHANGED <<inRing, outRing, firmware, user, line, base, owrite, polls,
                   upTo, i, printed, sent>>

(* write_input_serial_buffer: the bytes are stored, then the pointer moved. *)
\* Fault: the pointer is moved first.
AfterPointerFirst(step) ==
    [inBase |-> "announce", announce |-> "store", store |-> "poll"][step]
After(step) == [inBase |-> "store", store |-> "announce", announce |-> "poll"][step]

ReadInBase ==
    /\ pc = "inBase"
    /\ base' = inBase
    /\ rushed' = (rushed \/ inBase # inWrite % IN_LEN)
    /\ pc' = After("inBase")
    /\ UNCHANGED <<inRing, outRing, firmware, user, buf, obase, owrite, polls,
                   start, upTo, i, printed, sent>>

InOffset == Offset(base, Len(buf), IN_LEN)

Store ==
    /\ pc = "store"
    /\ inBuf' = [inBuf EXCEPT ![PlaceOf(i, base, InOffset)] = buf[i + 1]]
    /\ i' = i + 1
    /\ pc' = IF i + 1 < Len(buf) THEN "store" ELSE After("store")
    /\ UNCHANGED <<inBase, inWrite, outRing, firmware, user, line, copies, printed, sent>>

Announce ==
    /\ pc = "announce"
    /\ inWrite' = InOffset.writePtr
    /\ sent' = sent \o buf
    /\ polls' = POLLS
    /\ pc' = After("announce")
    /\ UNCHANGED <<inBuf, inBase, outRing, firmware, user, line, base, obase, owrite,
                   start, upTo, i, printed>>

(* check_out_buffer_change: after the last look, "No response."            *)
Poll ==
    /\ pc = "poll"
    /\ \/ /\ outWrite # obase
          /\ pc' = "outWrite"
          /\ UNCHANGED <<line, copies, i, printed>>
       \/ /\ outWrite = obase /\ polls > 1
          /\ polls' = polls - 1
          /\ UNCHANGED <<line, base, obase, owrite, start, upTo, i, printed, pc>>
       \/ /\ outWrite = obase /\ polls = 1
          /\ AtPrompt
    /\ UNCHANGED <<inRing, outRing, firmware, user, sent>>

ReadOutWrite ==
    /\ pc = "outWrite"
    /\ owrite' = outWrite /\ upTo' = emitted
    /\ i' = 0
    /\ pc' = "response"
    /\ UNCHANGED <<inRing, outRing, firmware, user, line, base, obase, polls, start,
                   printed, sent>>

(* print_serial_buffer_cmd_response.                                       *)
\* Fault: a response that wraps is read up to the end of the ring only.
OutCountToEnd == IF owrite < obase THEN OUT_LEN - obase ELSE owrite - obase
OutCount == IF owrite < obase THEN OUT_LEN - obase + owrite ELSE owrite - obase

OutOffset == Offset(obase, OutCount, OUT_LEN)

ReadResponse ==
    /\ pc = "response" /\ i < OutCount
    /\ printed' = Append(printed, outBuf[PlaceOf(i, obase, OutOffset)])
    /\ i' = i + 1
    /\ UNCHANGED <<inRing, outRing, firmware, user, line, copies, pc, sent>>

PrintResponse ==
    /\ pc = "response" /\ i = OutCount
    /\ AtPrompt
    /\ UNCHANGED <<inRing, outRing, firmware, user, sent>>

Tool == \/ ReadLine \/ ReadOutBase \/ ReadInBase \/ Store \/ Announce \/ Poll
        \/ ReadOutWrite \/ ReadResponse \/ PrintResponse

(* The user kills the tool, and starts it again.                           *)
Kill ==
    /\ pc # "prompt"
    /\ AtPrompt
    /\ stdin' = <<>>
    /\ UNCHANGED <<inRing, outRing, firmware, lines, sent>>

-----------------------------------------------------------------------------
(* The firmware and the UART.                                              *)
Take ==
    /\ inBase # inWrite % IN_LEN
    /\ heard' = Append(heard, inBuf[inBase])
    /\ inBase' = (inBase + 1) % IN_LEN
    /\ \E n \in IF inBuf[inBase] = CR THEN 0 .. MaxAnswer ELSE Echo :
          owed' = owed + n
    /\ UNCHANGED <<inBuf, inWrite, outRing, emitted, drained, user, tool, sent>>

Say ==
    /\ owed > 0 /\ (outWrite + 1) % OUT_LEN # outBase
    /\ owed' = owed - 1
    /\ emitted' = emitted + 1
    /\ outBuf' = [outBuf EXCEPT ![outWrite] = emitted']
    /\ outWrite' = (outWrite + 1) % OUT_LEN
    /\ UNCHANGED <<inRing, outBase, heard, drained, user, tool, sent>>

Drain ==
    /\ outBase # outWrite
    /\ outBase' = (outBase + 1) % OUT_LEN
    /\ drained' = drained + 1
    /\ UNCHANGED <<inRing, outBuf, outWrite, owed, heard, emitted, user, tool, sent>>

Next == Type \/ Tool \/ Kill \/ Take \/ Say \/ Drain

Spec == Init /\ [][Next]_vars

FairSpec == Spec /\ WF_vars(Tool) /\ WF_vars(Take) /\ WF_vars(Say) /\ WF_vars(Drain)

-----------------------------------------------------------------------------
(***************************************************************************)
(* Properties.                                                             *)
(***************************************************************************)

(* As long as no line is stored while the firmware is still taking an       *)
(* earlier one, the firmware takes the bytes announced, all and in order,   *)
(* however they lie across the end of the ring; a line that was half stored *)
(* when the tool was killed is not taken at all.                            *)
HeardIsSent == ~rushed => IsPrefix(heard, sent)

(* What is printed are the bytes the firmware said from the one on that the *)
(* UART had to send next when the command was entered, none twice and none  *)
(* left out, provided the firmware has not since gone round the ring.       *)
PrintedIsSaid ==
    (pc = "response" /\ emitted - start < OUT_LEN) =>
        /\ \A k \in 1 .. Len(printed) : printed[k] = start + k
        /\ i = OutCount => start + Len(printed) = upTo

(* A command announced to a firmware at rest is taken whole: the pointer    *)
(* never ends up where the firmware already is.                             *)
AnnouncedIsTaken == (heard # sent) ~> (heard = sent \/ rushed)

-----------------------------------------------------------------------------
(***************************************************************************)
(* The inductive invariant behind the two safety properties.               *)
(***************************************************************************)
(* The bytes of the OUT ring are numbered in the order they are said.      *)
TypeOK ==
    /\ inBuf \in [0 .. IN_LEN - 1 -> Byte]
    /\ inBase \in 0 .. IN_LEN - 1 /\ inWrite \in 0 .. IN_LEN
    /\ outBuf \in [0 .. OUT_LEN - 1 -> Nat]
    /\ outBase \in 0 .. OUT_LEN - 1 /\ outWrite \in 0 .. OUT_LEN - 1
    /\ owed \in Nat /\ emitted \in Nat /\ drained \in 0 .. emitted
    /\ stdin \in Seq(Byte) /\ lines \in Nat
    /\ buf \in Seq(Byte) /\ Len(buf) < IN_LEN
    /\ base \in 0 .. IN_LEN - 1
    /\ obase \in 0 .. OUT_LEN - 1 /\ owrite \in 0 .. OUT_LEN - 1
    /\ polls \in Nat /\ i \in Nat
    /\ printed \in Seq(Nat)
    /\ pc \in {"prompt", "outBase", "inBase", "store", "announce", "poll",
               "outWrite", "response"}
    /\ sent \in Seq(Byte) /\ heard \in Seq(Byte)
    /\ start \in 0 .. emitted /\ upTo \in 0 .. emitted /\ rushed \in BOOLEAN

(* An index up to one turn beyond the end of a ring.                       *)
Around(a, size) == IF a < size THEN a ELSE a - size

(* While no line was stored over another, the bytes announced and not yet   *)
(* taken lie in the IN ring from its base pointer on, and are not the whole *)
(* ring.                                                                   *)
Waiting == Len(sent) - Len(heard)
InRingInv ==
    ~rushed =>
        /\ Waiting \in 0 .. IN_LEN - 1
        /\ inWrite % IN_LEN = Around(inBase + Waiting, IN_LEN)
        /\ \A k \in 1 .. Waiting :
              inBuf[Around(inBase + k - 1, IN_LEN)] = sent[Len(heard) + k]
        /\ \A k \in 1 .. Len(heard) : heard[k] = sent[k]

(* What was stored of a line is behind all that was announced.             *)
StoreInv ==
    /\ pc \in {"prompt", "outBase", "inBase"} => i = 0
    /\ pc \in {"outBase", "inBase"} => Len(buf) > 0
    /\ pc \in {"store", "announce"} =>
          /\ i \in 0 .. Len(buf) /\ Len(buf) > 0
          /\ pc = "store" => i < Len(buf)
          /\ pc = "announce" => i = Len(buf)
          /\ ~rushed => /\ Waiting = 0 /\ base = inBase
                        /\ \A k \in 1 .. i :
                              inBuf[Around(base + k - 1, IN_LEN)] = buf[k]

(* The bytes said after the first n lie in the OUT ring from a place on.    *)
LieFrom(first, n) ==
    /\ outWrite = Around(first + (emitted - n), OUT_LEN)
    /\ \A k \in 1 .. emitted - n : outBuf[Around(first + k - 1, OUT_LEN)] = n + k

OutRingInv ==
    /\ emitted - drained < OUT_LEN /\ LieFrom(outBase, drained)
    /\ pc \notin {"prompt", "outBase"} /\ emitted - start < OUT_LEN =>
          LieFrom(obase, start)

(* The response ends where the firmware was when the pointer was read.     *)
ResponseInv ==
    IF pc = "response"
    THEN /\ i = Len(printed) /\ start <= upTo
         /\ emitted - start < OUT_LEN =>
               /\ owrite = Around(obase + (upTo - start), OUT_LEN)
               /\ \A k \in 1 .. i : printed[k] = start + k
    ELSE printed = <<>>

IInv == TypeOK /\ InRingInv /\ StoreInv /\ OutRingInv /\ ResponseInv
=============================================================================
