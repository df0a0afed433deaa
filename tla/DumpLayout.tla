----------------------------- MODULE DumpLayout -----------------------------
(***************************************************************************)
(* What 8051-dump-state writes into exram: 8051 code, in runs of bytes,     *)
(* written in the order below.                                             *)
(*                                                                         *)
(* A definition marked "Fault" is a wrong version of the one that follows,  *)
(* kept to show which property would notice it.                             *)
(***************************************************************************)
EXTENDS Integers, Sequences

CONSTANTS
    PMEM_BLOCKS,    \* 256-byte blocks of a program memory bank  (code: \h60)
    XRAM_BLOCKS     \* 256-byte blocks of xram that are moved     (code: \h20)

(* A bank of program memory begins half way up, and the copy of xram lies    *)
(* between what is copied and the copy of iram.                            *)
ASSUME BlocksAssumption == PMEM_BLOCKS \in 1 .. \h80 /\ XRAM_BLOCKS \in 1 .. \h20

GEN_FUNC_START    == \hf100
VAL_HANDLER_START == \hf200
MAIN_FUNC_ENTRY   == \hf300
SIGNAL            == \hf1ff
HOOK              == \h1759

(* Where the handlers put what they dump.                                  *)
AREA  == \h2000
IRAM_AREA == \h4000
SFR_AREA  == \h4100

Hi(a) == a \div 256
Lo(a) == a % 256

-----------------------------------------------------------------------------
(* Generic functions.  The loops of the first two copy from one data        *)
(* pointer to the other.                                                   *)
\* Fault: the inner loop goes back to the read, as its comment says.
CopyLoopToRead(read) ==
    <<\he4, read, \ha3, \h05, \h86, \hf0, \ha3, \h05, \h86, \hd9, \hf6, \hd8, \hf1>>
CopyLoop(read) ==
    <<\he4, read, \ha3, \h05, \h86, \hf0, \ha3, \h05, \h86, \hd9, \hf5, \hd8, \hf1>>

CopyFunc(from, blocks, read) ==
    <<\hc0, \ha8, \h75, \ha8, \h00, \h90, Hi(AREA), Lo(AREA), \h05, \h86,
      \h90, Hi(from), Lo(from), \h78, blocks, \h79, \h00>>
    \o CopyLoop(read) \o <<\h75, \h86, \h00, \hd0, \ha8, \h22>>

PmemFunc == CopyFunc(\h8000, PMEM_BLOCKS, \h93)

XramFunc == CopyFunc(\h0000, XRAM_BLOCKS, \he0)

IramFunc == <<\hc0, \ha8, \h75, \ha8, \h00, \h90, Hi(IRAM_AREA), Lo(IRAM_AREA),
              \h78, \h00, \h79, \h00, \he4, \he7, \hf0, \h09, \ha3, \hd8, \hfa,
              \h75, \h86, \h00, \hd0, \ha8, \h22>>

SignalFunc == <<\h90, Hi(SIGNAL), Lo(SIGNAL), \h74, \hff, \hf0, \h22>>

(* They lie one behind the other.                                          *)
PmemAddr   == GEN_FUNC_START
XramAddr   == PmemAddr + Len(PmemFunc)
IramAddr   == XramAddr + Len(XramFunc)
SignalAddr == IramAddr + Len(IramFunc)

Lcall(a)   == <<\h12, Hi(a), Lo(a)>>
Ljmp(a)    == <<\h02, Hi(a), Lo(a)>>
MovDptr(a) == <<\h90, Hi(a), Lo(a)>>
RET        == \h22

-----------------------------------------------------------------------------
(* Handlers of the values of parameter 36: the two banks of program memory, *)
(* chosen in register \hfa, and the data memories and registers.            *)
HandlerEnd == Lcall(SignalAddr) \o <<RET>>

BankHandler(bank) == <<\hc0, \hfa, \h75, \hfa, bank>> \o Lcall(PmemAddr) \o <<\hd0, \hfa>> \o HandlerEnd

(* The registers dumped, one after the other.                              *)
SfrAddrs == <<\h80, \h81, \h90, \ha0, \ha8, \hb0, \hb8, \hfa>>

SfrDump == <<\he5, \h80, \hf0, \ha3, \he5, \h81, \hf0, \ha3, \he5, \h90, \hf0, \ha3,
             \he5, \ha0, \hf0, \ha3, \he5, \ha8, \hf0, \ha3, \he5, \hb0, \hf0, \ha3,
             \he5, \hb8, \hf0, \ha3, \he5, \hfa, \hf0>>

RamHandler == Lcall(XramAddr) \o Lcall(IramAddr) \o MovDptr(SFR_AREA) \o SfrDump \o HandlerEnd

Handlers == <<BankHandler(\h15), BankHandler(\h2a), RamHandler>>

AddrsOf(handlers) ==
    <<VAL_HANDLER_START,
      VAL_HANDLER_START + Len(handlers[1]),
      VAL_HANDLER_START + Len(handlers[1]) + Len(handlers[2])>>

HandlerAddr == AddrsOf(Handlers)

JmpTblAddr == HandlerAddr[3] + Len(Handlers[3])

-----------------------------------------------------------------------------
(* Main entry: save the registers, leave if the value has no handler, go to *)
(* entry 6 * value of the jump table.                                      *)
MainEntryPart1 ==
    <<\hc0, \he0, \hc0, \hf0, \hc0, \h83, \hc0, \h82, \hc0, \h85, \hc0, \h84, \hc0, \h86,
      \h75, \h86, \h00, \hc0, \hd0, \h75, \hd0, \h18, \he5, \h6f, \h94>>

\* Fault: the distance of the jump is the one its comment gives.
MainEntryPart2Comment == <<\h50, \h13, \he5, \h6f, \h75, \hf0, \h06, \ha4>>
MainEntryPart2 == <<\h50, \h0a, \he5, \h6f, \h75, \hf0, \h06, \ha4>>

MainEntry == MainEntryPart1 \o <<Len(Handlers)>> \o MainEntryPart2
             \o MovDptr(JmpTblAddr) \o <<\h73>>

\* Fault: the registers are restored in the order they were saved.
MainExitUnreversed == <<\hd0, \he0, \hd0, \hf0, \hd0, \h83, \hd0, \h82, \hd0, \h85,
                        \hd0, \h84, \hd0, \h86, \hd0, \hd0, RET>>
MainExit == <<\hd0, \hd0, \hd0, \h86, \hd0, \h84, \hd0, \h85, \hd0, \h82, \hd0, \h83,
              \hd0, \hf0, \hd0, \he0, RET>>

ExitAddr == MAIN_FUNC_ENTRY + Len(MainEntry)

JmpTblEntry(handler, exit) == Lcall(handler) \o Ljmp(exit)

JmpTblOf(handlers, exit) ==
    JmpTblEntry(handlers[1], exit) \o JmpTblEntry(handlers[2], exit)
    \o JmpTblEntry(handlers[3], exit)

JmpTbl == JmpTblOf(HandlerAddr, ExitAddr)

-----------------------------------------------------------------------------
(* The runs of bytes, in the order they are written.                       *)
Image == << [at |-> PmemAddr,        bytes |-> PmemFunc],
            [at |-> XramAddr,        bytes |-> XramFunc],
            [at |-> IramAddr,        bytes |-> IramFunc],
            [at |-> SignalAddr,      bytes |-> SignalFunc],
            [at |-> HandlerAddr[1],  bytes |-> Handlers[1]],
            [at |-> HandlerAddr[2],  bytes |-> Handlers[2]],
            [at |-> HandlerAddr[3],  bytes |-> Handlers[3]],
            [at |-> MAIN_FUNC_ENTRY, bytes |-> MainEntry],
            [at |-> ExitAddr,        bytes |-> MainExit],
            [at |-> JmpTblAddr,      bytes |-> JmpTbl],
            [at |-> HOOK,            bytes |-> <<Hi(MAIN_FUNC_ENTRY), Lo(MAIN_FUNC_ENTRY)>>] >>

(* What address a holds after the first n runs; a later one overwrites.     *)
Covers(r, a) == r.at <= a /\ a < r.at + Len(r.bytes)

Written(n, a) == \E k \in 1 .. n : Covers(Image[k], a)

LastOver(runs, n, a) ==
    runs[CHOOSE k \in 1 .. n : /\ Covers(runs[k], a)
                               /\ \A j \in k + 1 .. n : ~Covers(runs[j], a)]

ByteIn(r, a) == r.bytes[a - r.at + 1]

ByteAt(n, a) == ByteIn(LastOver(Image, n, a), a)
=============================================================================
