-------------------------- MODULE DumpHandler8051 --------------------------
(***************************************************************************)
(* The code that 8051-dump-state leaves in exram, as the 8051 runs it.      *)
(*                                                                         *)
(* Parameter 36 is set; the firmware calls the routine at HOOK, which is    *)
(* now the main entry of the installed code.  Every step is one             *)
(* instruction.  The 8051 is external: it is modelled as far as the         *)
(* installed code uses it, with two data pointers of which the low bit of   *)
(* DP_TGL selects one, and register \hfa selecting a bank of program        *)
(* memory.  Interrupts and the parity bit of PSW are left out.              *)
(***************************************************************************)
EXTENDS DumpLayout, FiniteSets

CONSTANTS
    Pmem(_, _),     \* what a bank of program memory holds at an address
    LowXram,        \* what xram holds below the area at first
    InitialIram,    \* what iram may hold when the firmware is at rest
    InitialSfr,     \* ... and the registers
    Values          \* what parameter 36 may be set to

A == \he0   B == \hf0   PSW == \hd0   SP == \h81   IE == \ha8   BANK == \hfa
DP_TGL == \h86
DPL0 == \h82   DPH0 == \h83   DPL1 == \h84   DPH1 == \h85

Sfrs == {A, B, DP_TGL, PSW, DPL0, DPH0, DPL1, DPH1} \cup { SfrAddrs[k] : k \in 1 .. 8 }

(* Where the firmware calls the routines of parameters from, and where it   *)
(* keeps the value.                                                        *)
MAIN_LOOP   == \h7a99
PARAM_VALUE == \h6f

LowAddr  == 0 .. 256 * XRAM_BLOCKS - 1
CopyAddr == AREA .. AREA + 256 * (IF PMEM_BLOCKS > XRAM_BLOCKS THEN PMEM_BLOCKS
                                                               ELSE XRAM_BLOCKS) - 1
RamAddr  == IRAM_AREA .. IRAM_AREA + 255
SfrAddr  == SFR_AREA .. SFR_AREA + 7
DataAddr == LowAddr \cup CopyAddr \cup RamAddr \cup SfrAddr \cup {SIGNAL}

ASSUME HandlerAssumption ==
    /\ LowXram \in [LowAddr -> 0 .. 255]
    /\ InitialIram \subseteq [0 .. 255 -> 0 .. 255]
    /\ InitialSfr \subseteq [Sfrs -> 0 .. 255]
    /\ Values \subseteq 0 .. 255

(* The two registers the copying functions count in are the only ones the   *)
(* handlers do not keep.                                                   *)
Counters == {\h18, \h19}

(* The stack of the firmware has room for what is put on it meanwhile, clear *)
(* of the counters and of the value.                                       *)
STACK_USE == 16

ASSUME StackAssumption ==
    \A s \in InitialSfr : \A d \in 1 .. STACK_USE :
        s[SP] + d \in (0 .. 255) \ (Counters \cup {PARAM_VALUE})

VARIABLES
    PC, iram, sfr, xram,
    iram0, sfr0     \* history: iram and the registers when the firmware was
                    \* last at rest

machine     == <<PC, iram, sfr, xram>>
handlerVars == <<machine, iram0, sfr0>>

HandlerInit ==
    /\ PC = MAIN_LOOP
    /\ iram \in InitialIram /\ iram0 = iram
    /\ sfr \in InitialSfr /\ sfr0 = sfr
    /\ xram = [a \in DataAddr |-> IF a \in LowAddr THEN LowXram[a] ELSE 0]

-----------------------------------------------------------------------------
(* The 8051.                                                               *)
Code(a) == ByteAt(Len(Image), a)
Op   == Code(PC)
Arg1 == Code(PC + 1)
Arg2 == Code(PC + 2)

Running == Written(Len(Image), PC)

Direct(d) == IF d < 128 THEN iram[d] ELSE sfr[d]

SetDirect(d, v) ==
    IF d < 128 THEN iram' = [iram EXCEPT ![d] = v] /\ UNCHANGED sfr
               ELSE sfr' = [sfr EXCEPT ![d] = v] /\ UNCHANGED iram

(* Register k of the bank that PSW selects.                                *)
Reg(k) == 8 * ((sfr[PSW] \div 8) % 4) + k

DPL == IF sfr[DP_TGL] % 2 = 0 THEN DPL0 ELSE DPL1
DPH == IF sfr[DP_TGL] % 2 = 0 THEN DPH0 ELSE DPH1
Dptr == 256 * sfr[DPH] + sfr[DPL]

SetDptr(a) == sfr' = [sfr EXCEPT ![DPH] = Hi(a % 65536), ![DPL] = Lo(a)]

Carry == sfr[PSW] \div 128
Relative(d) == IF d < 128 THEN d ELSE d - 256

Goes(to) == PC' = to /\ UNCHANGED <<iram0, sfr0>>

(* MOV direct, #immediate; MOV Rn, #immediate; INC direct; INC Rn.         *)
MoveInternal ==
    /\ \/ Op = \h75 /\ SetDirect(Arg1, Arg2) /\ Goes(PC + 3)
       \/ Op \in {\h78, \h79} /\ SetDirect(Reg(Op - \h78), Arg1) /\ Goes(PC + 2)
       \/ Op = \h05 /\ SetDirect(Arg1, (Direct(Arg1) + 1) % 256) /\ Goes(PC + 2)
       \/ Op = \h09 /\ SetDirect(Reg(1), (iram[Reg(1)] + 1) % 256) /\ Goes(PC + 1)
    /\ UNCHANGED xram

(* MOV DPTR, #immediate; INC DPTR.                                         *)
MoveDptr ==
    /\ \/ Op = \h90 /\ SetDptr(256 * Arg1 + Arg2) /\ Goes(PC + 3)
       \/ Op = \ha3 /\ SetDptr(Dptr + 1) /\ Goes(PC + 1)
    /\ UNCHANGED <<iram, xram>>

(* CLR A; MOV A, #immediate; MOV A, direct; MOV A, @R1; MOVX A, @DPTR;      *)
(* MOVC A, @A+DPTR.                                                        *)
LoadA ==
    LET load(v, len) == sfr' = [sfr EXCEPT ![A] = v] /\ Goes(PC + len)
    IN  /\ \/ Op = \he4 /\ load(0, 1)
           \/ Op = \h74 /\ load(Arg1, 2)
           \/ Op = \he5 /\ load(Direct(Arg1), 2)
           \/ Op = \he7 /\ load(iram[iram[Reg(1)]], 1)
           \/ Op = \he0 /\ Dptr \in DataAddr /\ load(xram[Dptr], 1)
           \/ Op = \h93 /\ load(Pmem(sfr[BANK], sfr[A] + Dptr), 1)
        /\ UNCHANGED <<iram, xram>>

(* MOVX @DPTR, A.                                                          *)
StoreA ==
    /\ Op = \hf0 /\ Dptr \in DataAddr
    /\ xram' = [xram EXCEPT ![Dptr] = sfr[A]]
    /\ Goes(PC + 1)
    /\ UNCHANGED <<iram, sfr>>

(* SUBB A, #immediate; MUL AB.                                             *)
Compute ==
    /\ \/ LET d == sfr[A] - Arg1 - Carry
          IN  /\ Op = \h94
              /\ sfr' = [sfr EXCEPT ![A] = d % 256,
                                    ![PSW] = (@ % 128) + (IF d < 0 THEN 128 ELSE 0)]
              /\ Goes(PC + 2)
       \/ LET p == sfr[A] * sfr[B]
          IN  /\ Op = \ha4
              /\ sfr' = [sfr EXCEPT ![A] = Lo(p), ![B] = Hi(p), ![PSW] = @ % 128]
              /\ Goes(PC + 1)
    /\ UNCHANGED <<iram, xram>>

(* DJNZ Rn; JNC; LJMP; JMP @A+DPTR.                                        *)
Jump ==
    /\ \/ /\ Op \in {\hd8, \hd9}
          /\ LET r == Reg(Op - \hd8)
                 n == (iram[r] - 1) % 256
             IN  /\ iram' = [iram EXCEPT ![r] = n]
                 /\ Goes(PC + 2 + IF n # 0 THEN Relative(Arg1) ELSE 0)
       \/ Op = \h50 /\ Goes(PC + 2 + IF Carry = 0 THEN Relative(Arg1) ELSE 0)
          /\ UNCHANGED iram
       \/ Op = \h02 /\ Goes(256 * Arg1 + Arg2) /\ UNCHANGED iram
       \/ Op = \h73 /\ Goes((sfr[A] + Dptr) % 65536) /\ UNCHANGED iram
    /\ UNCHANGED <<sfr, xram>>

PushAddr(a) ==
    /\ iram' = [iram EXCEPT ![(sfr[SP] + 1) % 256] = Lo(a), ![(sfr[SP] + 2) % 256] = Hi(a)]
    /\ sfr' = [sfr EXCEPT ![SP] = (@ + 2) % 256]

(* LCALL; RET.                                                             *)
Call == Op = \h12 /\ PushAddr(PC + 3) /\ Goes(256 * Arg1 + Arg2) /\ UNCHANGED xram

Return ==
    /\ Op = RET
    /\ Goes(256 * iram[sfr[SP]] + iram[(sfr[SP] - 1) % 256])
    /\ sfr' = [sfr EXCEPT ![SP] = (@ - 2) % 256]
    /\ UNCHANGED <<iram, xram>>

(* PUSH direct; POP direct.                                                *)
Push ==
    /\ Op = \hc0
    /\ iram' = [iram EXCEPT ![(sfr[SP] + 1) % 256] = Direct(Arg1)]
    /\ sfr' = [sfr EXCEPT ![SP] = (@ + 1) % 256]
    /\ Goes(PC + 2)
    /\ UNCHANGED xram

Pop ==
    /\ Op = \hd0 /\ Arg1 >= 128
    /\ sfr' = [sfr EXCEPT ![SP] = (@ - 1) % 256, ![Arg1] = iram[sfr[SP]]]
    /\ Goes(PC + 2)
    /\ UNCHANGED <<iram, xram>>

Step == Running /\ (\/ MoveInternal \/ MoveDptr \/ LoadA \/ StoreA \/ Compute
                    \/ Jump \/ Call \/ Return \/ Push \/ Pop)

(* The tool clears the signal and sets the parameter; the firmware keeps    *)
(* the value and calls the routine at HOOK.                                 *)
Trigger ==
    /\ PC = MAIN_LOOP
    /\ \E v \in Values :
          /\ iram0' = [iram EXCEPT ![PARAM_VALUE] = v]
          /\ iram' = [iram0' EXCEPT ![sfr[SP] + 1] = Lo(MAIN_LOOP),
                                    ![sfr[SP] + 2] = Hi(MAIN_LOOP)]
    /\ sfr0' = sfr
    /\ sfr' = [sfr EXCEPT ![SP] = @ + 2]
    /\ xram' = [xram EXCEPT ![SIGNAL] = 0]
    /\ PC' = 256 * Code(HOOK) + Code(HOOK + 1)

HandlerNext == Step \/ Trigger

HandlerSpec == HandlerInit /\ [][HandlerNext]_handlerVars

HandlerFairSpec == HandlerSpec /\ WF_handlerVars(Step)

-----------------------------------------------------------------------------
(* What the tool makes of the area once it is signalled: the registers      *)
(* dumped one after the other, then those saved on the stack, which it      *)
(* finds below the stack pointer, and the pointer as it was at rest.        *)
\* Fault: the stack is read in the order it was pushed.
SfrStackPushed == <<A, B, DPH0, DPL0, DPH1, DPL1, DP_TGL, PSW>>
SfrStack == <<PSW, DP_TGL, DPL1, DPH1, DPL0, DPH0, B, A>>

SavedIram(a) == xram[IRAM_AREA + a]

SavedSfr(s) ==
    LET place(list) == CHOOSE k \in 1 .. 8 : list[k] = s
        dumpedSP    == xram[SFR_AREA + 1]
    IN  IF s = SP THEN (dumpedSP - \h0c) % 256
        ELSE IF \E k \in 1 .. 8 : SfrStack[k] = s
             THEN SavedIram((dumpedSP - 2 - (place(SfrStack) - 1)) % 256)
             ELSE xram[SFR_AREA + place(SfrAddrs) - 1]

-----------------------------------------------------------------------------
(***************************************************************************)
(* Properties.                                                             *)
(***************************************************************************)
Signalled == xram[SIGNAL] = \hff
Value     == iram0[PARAM_VALUE]

(* When completion is signalled the area is complete, and is what the value *)
(* of the parameter asks for: every byte of a bank of program memory, or of *)
(* low xram and iram.  Until the tool triggers the next one it stays so.    *)
SignalMeansDumped ==
    Signalled =>
        /\ Value = 0 => \A a \in 0 .. 256 * PMEM_BLOCKS - 1 :
                            xram[AREA + a] = Pmem(\h15, \h8000 + a)
        /\ Value = 1 => \A a \in 0 .. 256 * PMEM_BLOCKS - 1 :
                            xram[AREA + a] = Pmem(\h2a, \h8000 + a)
        /\ Value = 2 => \A a \in LowAddr : xram[AREA + a] = LowXram[a]
        /\ Value \in {0, 1, 2}

(* The saved state is the state the firmware was in when it called the      *)
(* routine: registers, stack pointer, and iram up to the stack pointer but  *)
(* for the counters.                                                       *)
SavedIsStateAtRest ==
    (Signalled /\ Value = 2) =>
        /\ \A s \in Sfrs : SavedSfr(s) = sfr0[s]
        /\ \A a \in 0 .. sfr0[SP] : a \notin Counters => SavedIram(a) = iram0[a]

(* When the firmware goes on it finds every register and the iram in use as *)
(* they were, but for the counters.                                        *)
RestoredAtReturn ==
    PC = MAIN_LOOP =>
        /\ sfr = sfr0
        /\ \A a \in 0 .. sfr0[SP] : a \notin Counters => iram[a] = iram0[a]

(* Whatever the value, the firmware goes on.                               *)
HandlerReturns == (PC # MAIN_LOOP) ~> (PC = MAIN_LOOP)
=============================================================================
