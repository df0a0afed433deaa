------------------------------ MODULE Exram8051 ------------------------------
(***************************************************************************)
(* The exram of the 8051 and the tools that reach it: 8051-read-exram,      *)
(* 8051-read-exram-to-file, 8051-write-exram, 8051-write-exram-from-file,   *)
(* and the reading of program memory in 8051-dump-state.                    *)
(*                                                                         *)
(* A verb carries one byte, so the codec holds a 16-bit address of which    *)
(* the tools set the lower and the upper half.  A write steps the address,  *)
(* a read does not; to save a verb, a range read sends the upper half only  *)
(* when it believes it has changed.  No verb is ever refused, but the user  *)
(* may kill a tool between any two, and the next one finds the address as   *)
(* it was left.                                                             *)
(*                                                                         *)
(* A definition marked "Fault" is a wrong version of the one that follows,  *)
(* kept to show which property would notice it.                             *)
(***************************************************************************)
EXTENDS Integers, Sequences

CONSTANTS
    PAGE,       \* values of the lower half of an address   (code: 256)
    PAGES,      \* values of the upper half                 (code: 256)
    PIECES,     \* pieces a dump is read in                 (code: 8)
    Datum,      \* what a byte may hold
    Zero,       \* the byte a cleared buffer holds
    InitialMem, \* what the memories may hold at first
    Asked       \* what the tools may be asked

SIZE == PAGE * PAGES
Addr == 0 .. SIZE - 1

(* Dump a range or look at one byte of exram, read program memory, load a   *)
(* file or store one byte.                                                  *)
Kinds   == {"dump", "peek", "code", "load", "poke"}
Writing == {"load", "poke"}

ASSUME ExramAssumption ==
    /\ PAGE \in Nat \ {0, 1} /\ PAGES \in Nat \ {0} /\ PIECES \in Nat \ {0}
    /\ Zero \in Datum
    /\ InitialMem \subseteq [Addr -> Datum]
    /\ \A r \in Asked :
          /\ r.kind \in Kinds /\ r.base \in Addr /\ r.n \in Nat
          /\ r.kind \in Writing => r.bytes \in [1 .. r.n -> Datum]
          /\ r.kind \in {"peek", "poke"} => r.n = 1
          /\ r.kind = "code" => r.base + r.n <= SIZE

VARIABLES
    exram, pmem,    \* codec: the two memories
    alo, ahi,       \* codec: the address, by halves
    job,            \* tool: what it was asked
    phase,          \* tool: it is writing, or reading (back)
    pc,             \* tool: the ioctl it performs next
    off, left,      \* tool: first byte of the current range call; bytes to do
    i,              \* tool: bytes of the current range call already done
    curUpper,       \* tool: the upper half it believes is set
    got,            \* tool: the buffer read into
    sent, seen,     \* history: bytes written; places of the buffer read into
    before          \* history: exram when the tool was started

codecVars == <<exram, pmem, alo, ahi>>
jobVars   == <<job, phase, off, left, before>>
vars      == <<codecVars, jobVars, pc, i, curUpper, got, sent, seen>>

-----------------------------------------------------------------------------
Here == ahi * PAGE + alo

LowerHalf(a) == a % PAGE
UpperHalf(a) == (a \div PAGE) % PAGES

ChunkSize == IF job.kind # "dump" THEN job.n
             ELSE IF job.n < PIECES THEN 1 ELSE job.n \div PIECES

CallCount == IF phase = "write" THEN job.n
             ELSE IF left < ChunkSize THEN left ELSE ChunkSize

(* The place in the buffer, and the address, of the byte in hand.          *)
Place == off + i + 1
Cur   == job.base + off + i

Memory == IF job.kind = "code" THEN pmem ELSE exram

TypeOK ==
    /\ exram \in [Addr -> Datum] /\ pmem \in [Addr -> Datum]
    /\ alo \in 0 .. PAGE - 1 /\ ahi \in 0 .. PAGES - 1
    /\ job \in Asked
    /\ phase \in {"write", "read"}
    /\ pc \in {"idle", "begin", "addrLow", "addrHigh", "lowOnly", "data",
               "return", "refused", "done"}
    /\ off \in Nat /\ left \in Nat /\ i \in Nat
    /\ curUpper \in Nat
    /\ got \in [1 .. job.n -> Datum]
    /\ sent \in 0 .. job.n
    /\ seen \subseteq 1 .. job.n
    /\ before \in [Addr -> Datum]

Init ==
    /\ exram \in InitialMem /\ pmem \in InitialMem
    /\ alo = 0 /\ ahi = 0
    /\ job \in Asked
    /\ phase = "read" /\ pc = "idle"
    /\ off = 0 /\ left = 0 /\ i = 0
    /\ curUpper = 0
    /\ got = [k \in 1 .. job.n |-> Zero]
    /\ sent = 0 /\ seen = {}
    /\ before = exram

-----------------------------------------------------------------------------
(* The library: one action per kind of ioctl.                              *)

(* What a range read believes to be set when it begins: a value no upper    *)
(* half of an address has.                                                  *)
\* Fault: the first page of the memory.
NoUpperZero == 0
NoUpper == PAGE - 1

(* The part of an address that is compared.                                *)
UpperPart(a) == UpperHalf(a) * PAGE

(* The verbs a range read sends before it reads the byte at a.             *)
AimAt(a, upper) ==
    IF UpperPart(a) # upper THEN pc' = "addrLow" /\ curUpper' = UpperPart(a)
                            ELSE pc' = "lowOnly" /\ curUpper' = upper

(* A range call begins.                                                    *)
BeginCall ==
    /\ pc = "begin"
    /\ \/ phase = "write" /\ pc' = "addrLow" /\ UNCHANGED curUpper
       \/ phase = "read" /\ CallCount > 0 /\ AimAt(Cur, NoUpper)
       \/ phase = "read" /\ CallCount = 0 /\ pc' = "return" /\ UNCHANGED curUpper
    /\ UNCHANGED <<codecVars, jobVars, i, got, sent, seen>>

(* chipio_8051_set_addr: the two halves, the lower one first.              *)
SetLow ==
    /\ pc = "addrLow"
    /\ alo' = LowerHalf(Cur)
    /\ pc' = "addrHigh"
    /\ UNCHANGED <<exram, pmem, ahi, jobVars, i, curUpper, got, sent, seen>>

SetHigh ==
    /\ pc = "addrHigh"
    /\ ahi' = UpperHalf(Cur)
    /\ pc' = IF phase = "write" /\ job.n = 0 THEN "return" ELSE "data"
    /\ UNCHANGED <<exram, pmem, alo, jobVars, i, curUpper, got, sent, seen>>

(* chipio_8051_set_addr_lower.                                             *)
SetLowOnly ==
    /\ pc = "lowOnly"
    /\ alo' = LowerHalf(Cur)
    /\ pc' = "data"
    /\ UNCHANGED <<exram, pmem, ahi, jobVars, i, curUpper, got, sent, seen>>

(* chipio_8051_set_exram_data: the codec stores the byte and steps.        *)
WriteByte ==
    LET next == (Here + 1) % SIZE
    IN  /\ pc = "data" /\ phase = "write"
        /\ exram' = [exram EXCEPT ![Here] = job.bytes[i + 1]]
        /\ alo' = LowerHalf(next) /\ ahi' = UpperHalf(next)
        /\ sent' = sent + 1
        /\ i' = i + 1
        /\ pc' = IF i + 1 < job.n THEN "data" ELSE "return"
        /\ UNCHANGED <<pmem, jobVars, curUpper, got, seen>>

(* chipio_8051_read_exram_data, chipio_8051_read_pmem_data.                *)
ReadByte ==
    /\ pc = "data" /\ phase = "read"
    /\ got' = [got EXCEPT ![Place] = Memory[Here]]
    /\ seen' = seen \cup {Place}
    /\ i' = i + 1
    /\ IF i + 1 < CallCount THEN AimAt(Cur + 1, curUpper)
                            ELSE pc' = "return" /\ UNCHANGED curUpper
    /\ UNCHANGED <<codecVars, jobVars, sent>>

-----------------------------------------------------------------------------
(* The tools.                                                              *)

(* read-exram-to-file takes no end beyond the last address, and             *)
(* write-exram-from-file no file that would end there.                      *)
\* Fault: the tools begin whatever they are asked.
TooBigNever(r) == FALSE
TooBig(r) == r.kind \in {"dump", "load"} /\ r.base + r.n > SIZE - 1

(* A tool is started, or asked for its next address.                       *)
Ask ==
    /\ pc \in {"idle", "refused", "done"}
    /\ job' \in Asked
    /\ phase' = IF job'.kind \in Writing THEN "write" ELSE "read"
    /\ pc' = IF TooBig(job') THEN "refused"
             ELSE IF job'.kind = "dump" /\ job'.n = 0 THEN "done" ELSE "begin"
    /\ off' = 0 /\ left' = job'.n /\ i' = 0
    /\ got' = [k \in 1 .. job'.n |-> Zero]
    /\ sent' = 0 /\ seen' = {}
    /\ before' = exram
    /\ UNCHANGED <<codecVars, curUpper>>

(* The written range is read back.                                         *)
WriteReturns ==
    /\ pc = "return" /\ phase = "write"
    /\ phase' = "read"
    /\ pc' = "begin"
    /\ i' = 0
    /\ UNCHANGED <<codecVars, job, off, left, before, curUpper, got, sent, seen>>

(* Bytes still to read once the current piece is done with.                *)
\* Fault: the bytes that do not fill a piece are left out.
PieceLeftNoRest == IF left < 2 * ChunkSize THEN 0 ELSE left - ChunkSize
\* Fault: the last, shorter piece takes the count below zero.
PieceLeftUnguarded == left - ChunkSize
PieceLeft == IF left < ChunkSize THEN 0 ELSE left - ChunkSize

(* The next piece, or the tool saves (prints) what it has.                 *)
ReadReturns ==
    /\ pc = "return" /\ phase = "read"
    /\ left' = PieceLeft
    /\ off' = off + ChunkSize
    /\ i' = 0
    /\ pc' = IF left' = 0 THEN "done" ELSE "begin"
    /\ UNCHANGED <<codecVars, job, phase, before, curUpper, got, sent, seen>>

(* The user kills the tool between two ioctls.                             *)
Kill ==
    /\ pc \notin {"idle", "refused", "done"}
    /\ pc' = "idle"
    /\ UNCHANGED <<codecVars, jobVars, i, curUpper, got, sent, seen>>

Tool == \/ BeginCall \/ SetLow \/ SetHigh \/ SetLowOnly \/ WriteByte \/ ReadByte
        \/ WriteReturns \/ ReadReturns

Next == Ask \/ Tool \/ Kill

Spec == Init /\ [][Next]_vars

-----------------------------------------------------------------------------
(***************************************************************************)
(* Properties.                                                             *)
(***************************************************************************)

(* A byte read is the byte at its own address, in the memory asked for,     *)
(* however many upper halves were not sent, wherever pages and pieces end   *)
(* and whatever address an earlier, killed tool left behind; a place no     *)
(* read reached is still cleared.                                           *)
ReadsAreTrue ==
    \A k \in 1 .. job.n :
        got[k] = IF k \in seen THEN Memory[job.base + k - 1] ELSE Zero

(* exram holds a prefix of the bytes of the load, each at its own address,  *)
(* over what it held before; also when the tool was killed.                 *)
WritesArePrefix ==
    \A a \in Addr :
        exram[a] = IF job.base <= a /\ a < job.base + sent
                   THEN job.bytes[a - job.base + 1] ELSE before[a]

(* A tool that is done has read every byte it was asked for (of a load, read *)
(* back), and written all of them.                                          *)
DoneMeansAll ==
    pc = "done" => /\ seen = 1 .. job.n
                   /\ job.kind \in Writing => sent = job.n

-----------------------------------------------------------------------------
(***************************************************************************)
(* The inductive invariant behind the safety properties.                   *)
(***************************************************************************)
Running == pc \notin {"idle", "refused", "done"}

(* Where the tool is in the range; a call goes through its bytes in order.  *)
CountersInv ==
    /\ Running => /\ job.base + job.n <= SIZE
                  /\ off + left = job.n
                  /\ i <= CallCount
                  /\ phase = "read" => seen = 1 .. off + i
    /\ Running /\ phase = "write" =>
          /\ job.kind \in Writing
          /\ off = 0 /\ sent = i /\ seen = {}
    /\ Running /\ phase = "read" /\ job.kind \in Writing => sent = job.n
    /\ pc = "begin" => i = 0
    /\ pc = "return" => i = CallCount
    /\ pc \in {"addrLow", "addrHigh"} /\ phase = "write" => i = 0
    /\ pc \in {"addrLow", "addrHigh"} /\ phase = "read" => i < CallCount
    /\ pc \in {"lowOnly", "data"} => i < CallCount
    /\ pc = "lowOnly" => phase = "read"
    /\ job.kind \notin Writing => sent = 0

(* What the address register holds, and what a range read believes of it.   *)
AimInv ==
    /\ pc = "addrHigh" => alo = LowerHalf(Cur)
    /\ pc = "lowOnly" => ahi = UpperHalf(Cur)
    /\ pc = "data" => alo = LowerHalf(Cur) /\ ahi = UpperHalf(Cur)
    /\ pc \in {"addrLow", "addrHigh", "lowOnly", "data"} /\ phase = "read" =>
          curUpper = UpperPart(Cur)

IInv == /\ TypeOK
        /\ CountersInv
        /\ AimInv
        /\ ReadsAreTrue
        /\ WritesArePrefix
        /\ DoneMeansAll
=============================================================================
