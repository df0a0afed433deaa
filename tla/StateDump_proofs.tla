-------------------------- MODULE StateDump_proofs --------------------------
(***************************************************************************)
(* Machine-checked proofs about the state dump: first of the code that      *)
(* 8051-dump-state installs (DumpHandler8051), for memories of any content, *)
(* any number of blocks and any state in which the firmware may call it;    *)
(* then of the tool that asks for the dumps (StateDump), for an area of any *)
(* number of pieces, any patience and any number of runs.                  *)
(***************************************************************************)
EXTENDS StateDump, DumpHandler8051, TLAPS


-----------------------------------------------------------------------------
(***************************************************************************)
(* The bytes of the code, by their addresses.                              *)
(***************************************************************************)
(* The bytes of an address give it back.                                   *)
LEMMA HiLo ==
    ASSUME NEW a \in Nat
    PROVE  256 * Hi(a) + Lo(a) = a
  BY SMT DEF Hi, Lo

(* The bytes of the copying functions, one by one.                         *)
LEMMA CopyBytes ==
    ASSUME NEW from, NEW blocks, NEW read
    PROVE  LET f == CopyFunc(from, blocks, read)
           IN  /\ Len(f) = 36
               /\ f[1] = \hc0 /\ f[2] = \ha8
               /\ f[3] = \h75 /\ f[4] = \ha8 /\ f[5] = 0
               /\ f[6] = \h90 /\ f[7] = Hi(AREA) /\ f[8] = Lo(AREA)
               /\ f[9] = \h05 /\ f[10] = \h86
               /\ f[11] = \h90 /\ f[12] = Hi(from) /\ f[13] = Lo(from)
               /\ f[14] = \h78 /\ f[15] = blocks
               /\ f[16] = \h79 /\ f[17] = 0
               /\ f[18] = \he4
               /\ f[19] = read
               /\ f[20] = \ha3
               /\ f[21] = \h05 /\ f[22] = \h86
               /\ f[23] = \hf0
               /\ f[24] = \ha3
               /\ f[25] = \h05 /\ f[26] = \h86
               /\ f[27] = \hd9 /\ f[28] = \hf5
               /\ f[29] = \hd8 /\ f[30] = \hf1
               /\ f[31] = \h75 /\ f[32] = \h86 /\ f[33] = 0
               /\ f[34] = \hd0 /\ f[35] = \ha8
               /\ f[36] = \h22
  BY SMT DEF CopyFunc, CopyLoop

(* How long each piece of code is.                                         *)
LEMMA Lengths ==
    /\ Len(PmemFunc) = 36 /\ Len(XramFunc) = 36 /\ Len(IramFunc) = 25 /\ Len(SignalFunc) = 7
    /\ Len(Handlers[1]) = 14 /\ Len(Handlers[2]) = 14 /\ Len(Handlers[3]) = 44
    /\ Len(MainEntry) = 38 /\ Len(MainExit) = 17 /\ Len(JmpTbl) = 18
  <1>1. Len(PmemFunc) = 36 /\ Len(XramFunc) = 36
    BY CopyBytes DEF PmemFunc, XramFunc
  <1>2. Len(IramFunc) = 25 /\ Len(SignalFunc) = 7
    BY SMT DEF IramFunc, SignalFunc
  <1>3. ASSUME NEW bank PROVE Len(BankHandler(bank)) = 14
    BY SMT DEF BankHandler, HandlerEnd, Lcall
  <1>4. Len(RamHandler) = 44
    BY SMT DEF RamHandler, HandlerEnd, Lcall, MovDptr, SfrDump
  <1>5. Len(MainEntry) = 38 /\ Len(MainExit) = 17
    BY SMT DEF MainEntry, MainEntryPart1, MainEntryPart2, MovDptr, MainExit
  <1>6. Len(JmpTbl) = 18
    BY SMT DEF JmpTbl, JmpTblOf, JmpTblEntry, Lcall, Ljmp
  <1> QED BY <1>1, <1>2, <1>3, <1>4, <1>5, <1>6 DEF Handlers

(* Where the runs lie.                                                     *)
LEMMA Places ==
    /\ PmemAddr = 61696 /\ XramAddr = 61732 /\ IramAddr = 61768 /\ SignalAddr = 61793
    /\ HandlerAddr[1] = 61952 /\ HandlerAddr[2] = 61966 /\ HandlerAddr[3] = 61980
    /\ JmpTblAddr = 62024 /\ MAIN_FUNC_ENTRY = 62208 /\ ExitAddr = 62246 /\ HOOK = 5977
  BY Lengths, SMT DEF PmemAddr, XramAddr, IramAddr, SignalAddr, HandlerAddr, AddrsOf, JmpTblAddr, ExitAddr,
                      GEN_FUNC_START, VAL_HANDLER_START, MAIN_FUNC_ENTRY, HOOK

(* Run k is in no way covered by another one.                              *)
Starts == <<61696, 61732, 61768, 61793, 61952, 61966, 61980, 62208, 62246, 62024, 5977>>
Sizes  == <<36, 36, 25, 7, 14, 14, 44, 38, 17, 18, 2>>

(* What each run consists of.                                              *)
LEMMA RunBytes ==
    /\ Image[1].bytes = PmemFunc /\ Image[2].bytes = XramFunc
    /\ Image[3].bytes = IramFunc /\ Image[4].bytes = SignalFunc
    /\ Image[5].bytes = Handlers[1] /\ Image[6].bytes = Handlers[2]
    /\ Image[7].bytes = Handlers[3] /\ Image[8].bytes = MainEntry
    /\ Image[9].bytes = MainExit /\ Image[10].bytes = JmpTbl
    /\ Image[11].bytes = <<Hi(MAIN_FUNC_ENTRY), Lo(MAIN_FUNC_ENTRY)>>
  BY SMT DEF Image

(* Where each run starts and how long it is.                               *)
LEMMA Runs ==
    /\ Len(Image) = 11
    /\ \A k \in 1 .. 11 : Image[k].at = Starts[k] /\ Len(Image[k].bytes) = Sizes[k]
  <1>1. Len(Image) = 11
    BY DEF Image
  <1>2. ASSUME NEW k \in 1 .. 11
        PROVE  Image[k].at = Starts[k]
    BY Places, SMT DEF Image, Starts
  <1>3. Len(<<Hi(MAIN_FUNC_ENTRY), Lo(MAIN_FUNC_ENTRY)>>) = 2
    OBVIOUS
  <1>4. ASSUME NEW k \in 1 .. 11
        PROVE  Len(Image[k].bytes) = Sizes[k]
    <2>2. /\ Sizes[1] = 36 /\ Sizes[2] = 36 /\ Sizes[3] = 25 /\ Sizes[4] = 7 /\ Sizes[5] = 14
          /\ Sizes[6] = 14 /\ Sizes[7] = 44 /\ Sizes[8] = 38 /\ Sizes[9] = 17
          /\ Sizes[10] = 18 /\ Sizes[11] = 2
      BY SMT DEF Sizes
    <2>4. /\ Len(Image[1].bytes) = 36 /\ Len(Image[2].bytes) = 36 /\ Len(Image[3].bytes) = 25
          /\ Len(Image[4].bytes) = 7 /\ Len(Image[5].bytes) = 14 /\ Len(Image[6].bytes) = 14
          /\ Len(Image[7].bytes) = 44 /\ Len(Image[8].bytes) = 38 /\ Len(Image[9].bytes) = 17
          /\ Len(Image[10].bytes) = 18 /\ Len(Image[11].bytes) = 2
      BY Lengths, <1>3, RunBytes, Zenon
    <2>11. k = 1 => Len(Image[k].bytes) = Sizes[k]
      BY <2>2, <2>4, Zenon
    <2>12. k = 2 => Len(Image[k].bytes) = Sizes[k]
      BY <2>2, <2>4, Zenon
    <2>13. k = 3 => Len(Image[k].bytes) = Sizes[k]
      BY <2>2, <2>4, Zenon
    <2>14. k = 4 => Len(Image[k].bytes) = Sizes[k]
      BY <2>2, <2>4, Zenon
    <2>15. k = 5 => Len(Image[k].bytes) = Sizes[k]
      BY <2>2, <2>4, Zenon
    <2>16. k = 6 => Len(Image[k].bytes) = Sizes[k]
      BY <2>2, <2>4, Zenon
    <2>17. k = 7 => Len(Image[k].bytes) = Sizes[k]
      BY <2>2, <2>4, Zenon
    <2>18. k = 8 => Len(Image[k].bytes) = Sizes[k]
      BY <2>2, <2>4, Zenon
    <2>19. k = 9 => Len(Image[k].bytes) = Sizes[k]
      BY <2>2, <2>4, Zenon
    <2>20. k = 10 => Len(Image[k].bytes) = Sizes[k]
      BY <2>2, <2>4, Zenon
    <2>21. k = 11 => Len(Image[k].bytes) = Sizes[k]
      BY <2>2, <2>4, Zenon
    <2> QED BY <2>11, <2>12, <2>13, <2>14, <2>15, <2>16, <2>17, <2>18, <2>19, <2>20, <2>21, SMT
  <1> QED BY <1>1, <1>2, <1>4

(* No two runs share an address.                                           *)
LEMMA Apart ==
    ASSUME NEW k \in 1 .. 11, NEW j \in 1 .. 11, NEW a \in Int,
           Starts[k] <= a, a < Starts[k] + Sizes[k], Starts[j] <= a, a < Starts[j] + Sizes[j]
    PROVE  j = k
  BY SMT DEF Starts, Sizes

(* Therefore what lies in memory at a run is that run.                     *)
LEMMA CodeOfRun ==
    ASSUME NEW k \in 1 .. 11, NEW z \in Nat, z < Sizes[k]
    PROVE  Code(Starts[k] + z) = Image[k].bytes[z + 1]
  <1> DEFINE a == Starts[k] + z
             P(m) == /\ Covers(Image[m], a) 
                     /\ \A j \in m + 1 .. 11 : ~Covers(Image[j], a)
  <1>1. a \in Int /\ Starts[k] \in Int /\ Sizes[k] \in Int /\ a - Starts[k] + 1 = z + 1
    BY SMT DEF Starts, Sizes
  <1>2. ASSUME NEW m \in 1 .. 11
        PROVE  Covers(Image[m], a) <=> m = k
    <2>1. Covers(Image[m], a) <=> Starts[m] <= a /\ a < Starts[m] + Sizes[m]
      BY Runs DEF Covers
    <2>2. m = k => Starts[m] <= a /\ a < Starts[m] + Sizes[m]
      BY <1>1, SMT
    <2> QED BY <1>1, <2>1, <2>2, Apart
  <1>3. \A m \in 1 .. 11 : P(m) <=> m = k
    BY <1>2
  <1>4. (CHOOSE m \in 1 .. 11 : P(m)) = k
    BY <1>3
  <1>5. ByteAt(11, a) = Image[k].bytes[a - Image[k].at + 1]
    BY <1>4 DEF ByteAt, ByteIn, LastOver
  <1> QED BY <1>1, <1>5, Runs DEF Code

-----------------------------------------------------------------------------
(***************************************************************************)
(* What holds in every state: the stack has room behind S, nothing outside  *)
(* of it and of the counters was changed, what is copied from is as it was, *)
(* and the properties hold.                                                *)
(***************************************************************************)
S       == sfr0[SP]
Slot(d) == iram[S + d]

Room ==
    /\ S \in 0 .. 255
    /\ \A d \in 1 .. STACK_USE : S + d \in (0 .. 255) \ (Counters \cup {PARAM_VALUE})

Domains ==
    /\ DOMAIN iram = 0 .. 255 /\ DOMAIN xram = DataAddr /\ DOMAIN iram0 = 0 .. 255
    /\ sfr = [s \in Sfrs |-> sfr[s]] /\ sfr0 = [s \in Sfrs |-> sfr0[s]]
    /\ Value \in 0 .. 255

IramKept ==
    \A a \in 0 .. 255 :
        (a \notin Counters /\ \A d \in 1 .. STACK_USE : a # S + d) => iram[a] = iram0[a]

LEMMA IramKeptAt ==
    ASSUME IramKept, NEW a \in 0 .. 255, a \notin Counters, \A d \in 1 .. STACK_USE : a # S + d
    PROVE  iram[a] = iram0[a]
  BY Zenon DEF IramKept

LowKept == \A a \in LowAddr : xram[a] = LowXram[a]

Common == Room /\ Domains /\ IramKept /\ LowKept /\ SignalMeansDumped /\ SavedIsStateAtRest

LEMMA Registers ==
    /\ Sfrs = {\he0, \hf0, \h86, \hd0, \h82, \h83, \h84, \h85, \h80, \h81, \h90, \ha0, \ha8, \hb0, \hb8, \hfa}
    /\ {A, B, PSW, SP, IE, BANK, DP_TGL, DPL0, DPH0, DPL1, DPH1} \subseteq Sfrs
    /\ \A k \in 1 .. 8 : SfrAddrs[k] \in Sfrs
    /\ \A s \in Sfrs : s \in Int /\ s >= 128 /\ s < 256
  <1>1. { SfrAddrs[k] : k \in 1 .. 8 } = {\h80, \h81, \h90, \ha0, \ha8, \hb0, \hb8, \hfa}
    BY SMT DEF SfrAddrs
  <1>2. Sfrs = {\he0, \hf0, \h86, \hd0, \h82, \h83, \h84, \h85, \h80, \h81, \h90, \ha0, \ha8, \hb0, \hb8, \hfa}
    BY <1>1, SMT DEF Sfrs, A, B, PSW, DP_TGL, DPL0, DPH0, DPL1, DPH1
  <1>3. \A k \in 1 .. 8 : SfrAddrs[k] \in Sfrs
    BY DEF Sfrs
  <1> QED BY <1>2, <1>3, SMT DEF A, B, PSW, SP, IE, BANK, DP_TGL, DPL0, DPH0, DPL1, DPH1

(* The registers, told apart, and what is known of the stack.              *)
LEMMA RoomFacts ==
    ASSUME Room
    PROVE  /\ S \in 0 .. 255
           /\ \A d \in 1 .. 16 : /\ S + d \in 0 .. 255
                                 /\ S + d # 24 /\ S + d # 25 /\ S + d # 111
  BY SMT DEF Room, STACK_USE, Counters, PARAM_VALUE

(* Neither the state at rest nor exram is changed.                         *)
Untouched == iram0' = iram0 /\ sfr0' = sfr0 /\ xram' = xram

(* A step that changes the stack and the counters only keeps Common.       *)
LEMMA CommonKept ==
    ASSUME Common, Untouched, DOMAIN iram' = 0 .. 255, sfr' = [s \in Sfrs |-> sfr'[s]], IramKept'
    PROVE  Common'
  <1> USE DEF Untouched
  <1>1. SignalMeansDumped'
    BY DEF Common, SignalMeansDumped, Signalled, Value
  <1>2. SavedIsStateAtRest'
    <2>1. ASSUME NEW s PROVE SavedSfr(s)' = SavedSfr(s)
      BY DEF SavedSfr, SavedIram
    <2>2. ASSUME NEW a PROVE SavedIram(a)' = SavedIram(a)
      BY DEF SavedIram
    <2> QED BY <2>1, <2>2 DEF Common, SavedIsStateAtRest, Signalled, Value
  <1>3. Room' 
    BY DEF Common, Room, S
  <1>4. Domains'
    BY DEF Common, Domains, Value
  <1>5. LowKept'
    BY DEF Common, LowKept
  <1> QED BY <1>1, <1>2, <1>3, <1>4, <1>5 DEF Common

-----------------------------------------------------------------------------
(***************************************************************************)
(* What each instruction does.                                             *)
(***************************************************************************)
(* What a step does, by its opcode.                                        *)
LEMMA OpMoves ==
    ASSUME Step
    PROVE  /\ Op = \h75 => SetDirect(Arg1, Arg2) /\ Goes(PC + 3) /\ xram' = xram
           /\ Op \in {\h78, \h79} =>
                 SetDirect(Reg(Op - \h78), Arg1) /\ Goes(PC + 2) /\ xram' = xram
           /\ Op = \h05 =>
                 SetDirect(Arg1, (Direct(Arg1) + 1) % 256) /\ Goes(PC + 2) /\ xram' = xram
           /\ Op = \h09 =>
                 SetDirect(Reg(1), (iram[Reg(1)] + 1) % 256) /\ Goes(PC + 1) /\ xram' = xram
           /\ Op = \h90 => SetDptr(256 * Arg1 + Arg2) /\ Goes(PC + 3) /\ UNCHANGED <<iram, xram>>
           /\ Op = \ha3 => SetDptr(Dptr + 1) /\ Goes(PC + 1) /\ UNCHANGED <<iram, xram>>
  BY SMT DEF Step, MoveInternal, MoveDptr, LoadA, StoreA, Compute, Jump, Call, Return, Push, Pop, RET

LEMMA OpLoads ==
    ASSUME Step
    PROVE  /\ Op \in {\he4, \h74, \he5, \he7, \he0, \h93} => UNCHANGED <<iram, xram>>
           /\ Op = \he4 => sfr' = [sfr EXCEPT ![A] = 0] /\ Goes(PC + 1)
           /\ Op = \h74 => sfr' = [sfr EXCEPT ![A] = Arg1] /\ Goes(PC + 2)
           /\ Op = \he5 => sfr' = [sfr EXCEPT ![A] = Direct(Arg1)] /\ Goes(PC + 2)
           /\ Op = \he7 => sfr' = [sfr EXCEPT ![A] = iram[iram[Reg(1)]]] /\ Goes(PC + 1)
           /\ Op = \he0 => sfr' = [sfr EXCEPT ![A] = xram[Dptr]] /\ Goes(PC + 1)
           /\ Op = \h93 => sfr' = [sfr EXCEPT ![A] = Pmem(sfr[BANK], sfr[A] + Dptr)] /\ Goes(PC + 1)
           /\ Op = \hf0 => /\ Dptr \in DataAddr /\ xram' = [xram EXCEPT ![Dptr] = sfr[A]]
                           /\ Goes(PC + 1) /\ UNCHANGED <<iram, sfr>>
  BY SMT DEF Step, MoveInternal, MoveDptr, LoadA, StoreA, Compute, Jump, Call, Return, Push, Pop, RET

LEMMA OpComputes ==
    ASSUME Step
    PROVE  /\ Op \in {\h94, \ha4} => UNCHANGED <<iram, xram>>
           /\ Op = \h94 =>
                 /\ sfr' = [sfr EXCEPT ![A] = (sfr[A] - Arg1 - Carry) % 256,
                                       ![PSW] = (@ % 128) +
                                           (IF sfr[A] - Arg1 - Carry < 0 THEN 128 ELSE 0)]
                 /\ Goes(PC + 2)
           /\ Op = \ha4 =>
                 /\ sfr' = [sfr EXCEPT ![A] = Lo(sfr[A] * sfr[B]), ![B] = Hi(sfr[A] * sfr[B]),
                                       ![PSW] = @ % 128]
                 /\ Goes(PC + 1)
  BY SMT DEF Step, MoveInternal, MoveDptr, LoadA, StoreA, Compute, Jump, Call, Return, Push, Pop, RET

LEMMA OpJumps ==
    ASSUME Step
    PROVE  /\ Op \in {\hd8, \hd9, \h50, \h02, \h73} => UNCHANGED <<sfr, xram>>
           /\ Op \in {\h50, \h02, \h73} => iram' = iram
           /\ Op \in {\hd8, \hd9} =>
                 /\ iram' = [iram EXCEPT ![Reg(Op - \hd8)] = (iram[Reg(Op - \hd8)] - 1) % 256]
                 /\ Goes(PC + 2 + IF (iram[Reg(Op - \hd8)] - 1) % 256 # 0 THEN Relative(Arg1) ELSE 0)
           /\ Op = \h50 => Goes(PC + 2 + IF Carry = 0 THEN Relative(Arg1) ELSE 0)
           /\ Op = \h02 => Goes(256 * Arg1 + Arg2)
           /\ Op = \h73 => Goes((sfr[A] + Dptr) % 65536)
  BY SMT DEF Step, MoveInternal, MoveDptr, LoadA, StoreA, Compute, Jump, Call, Return, Push, Pop, RET

LEMMA OpCalls ==
    ASSUME Step
    PROVE  /\ Op \in {\h12, \h22, \hc0, \hd0} => xram' = xram
           /\ Op = \h12 => PushAddr(PC + 3) /\ Goes(256 * Arg1 + Arg2)
           /\ Op = \h22 => /\ Goes(256 * iram[sfr[SP]] + iram[(sfr[SP] - 1) % 256])
                           /\ sfr' = [sfr EXCEPT ![SP] = (@ - 2) % 256] /\ iram' = iram
           /\ Op = \hc0 => /\ iram' = [iram EXCEPT ![(sfr[SP] + 1) % 256] = Direct(Arg1)]
                           /\ sfr' = [sfr EXCEPT ![SP] = (@ + 1) % 256] /\ Goes(PC + 2)
           /\ Op = \hd0 => /\ sfr' = [sfr EXCEPT ![SP] = (@ - 1) % 256, ![Arg1] = iram[sfr[SP]]]
                           /\ Goes(PC + 2) /\ iram' = iram
  BY SMT DEF Step, MoveInternal, MoveDptr, LoadA, StoreA, Compute, Jump, Call, Return, Push, Pop, RET

-----------------------------------------------------------------------------
(***************************************************************************)
(* ... and what that leaves as it was.  Registers X may change; the n slots  *)
(* of the stack in use do not.                                             *)
(***************************************************************************)
OnlyRegs(X)  == /\ \A s \in Sfrs : s \notin X => sfr'[s] = sfr[s]
                /\ sfr' = [s \in Sfrs |-> sfr'[s]]
SlotsKept(n) == \A d \in 1 .. n : Slot(d)' = Slot(d)

(* An instruction that works on registers only.                            *)
Steady(X)     == /\ Common' /\ Untouched /\ S' = S /\ iram' = iram
                 /\ OnlyRegs(X) /\ SlotsKept(16)
Works(len, X) == Steady(X) /\ PC' = PC + len

LEMMA SteadySfrs ==
    ASSUME Common, Untouched, iram' = iram, NEW X, OnlyRegs(X)
    PROVE  Steady(X)
  <1>1. IramKept'
    BY DEF Common, IramKept, S, Untouched
  <1>2. Common'
    BY <1>1, CommonKept DEF Common, Domains, OnlyRegs
  <1> QED BY <1>2 DEF Steady, SlotsKept, Slot, S, Untouched

(* Such a step, by the one or two registers it assigns.                    *)
LEMMA OneSfr ==
    ASSUME Common, Untouched, iram' = iram, NEW len, PC' = PC + len,
           NEW r \in Sfrs, NEW v, sfr' = [sfr EXCEPT ![r] = v]
    PROVE  Works(len, {r}) /\ sfr'[r] = v
  <1>1. OnlyRegs({r}) /\ sfr'[r] = v
    BY DEF Common, Domains, OnlyRegs
  <1> QED BY <1>1, SteadySfrs DEF Works

LEMMA TwoSfrs ==
    ASSUME Common, Untouched, iram' = iram, NEW len, PC' = PC + len,
           NEW r \in Sfrs, NEW q \in Sfrs, r # q, NEW v, NEW w,
           sfr' = [sfr EXCEPT ![r] = v, ![q] = w]
    PROVE  Works(len, {r, q}) /\ sfr'[r] = v /\ sfr'[q] = w
  <1>1. OnlyRegs({r, q}) /\ sfr'[r] = v /\ sfr'[q] = w
    BY DEF Common, Domains, OnlyRegs
  <1> QED BY <1>1, SteadySfrs DEF Works

(* MOV direct, #immediate and INC direct.                                  *)
LEMMA SetSfr ==
    ASSUME Common, Step, Arg1 \in Sfrs
    PROVE  /\ Op = \h75 => Works(3, {Arg1}) /\ sfr'[Arg1] = Arg2
           /\ Op = \h05 => Works(2, {Arg1}) /\ sfr'[Arg1] = (sfr[Arg1] + 1) % 256
  <1>1. Arg1 >= 128 /\ Arg1 \in Int
    BY Registers
  <1> PICK r \in Sfrs : r = Arg1
    OBVIOUS
  <1>v. PICK v : v = Arg2
    OBVIOUS
  <1>w. PICK w : w = (sfr[Arg1] + 1) % 256
    OBVIOUS
  <1>2. CASE Op = \h75
    <2>1. Untouched /\ iram' = iram /\ PC' = PC + 3 /\ sfr' = [sfr EXCEPT ![r] = v]
      BY <1>1, <1>2, <1>v, OpMoves DEF SetDirect, Goes, Untouched
    <2>2. Works(3, {r}) /\ sfr'[r] = v
      BY <2>1, OneSfr
    <2> QED BY <1>2, <1>v, <2>2, SMT
  <1>3. CASE Op = \h05
    <2>1. /\ Untouched /\ iram' = iram /\ PC' = PC + 2
          /\ sfr' = [sfr EXCEPT ![r] = w]
      BY <1>1, <1>3, <1>w, OpMoves DEF SetDirect, Direct, Goes, Untouched
    <2>2. Works(2, {r}) /\ sfr'[r] = w
      BY <2>1, OneSfr
    <2> QED BY <1>3, <1>w, <2>2, SMT
  <1> QED BY <1>2, <1>3

(* A register that is loaded.                                              *)
LEMMA LoadsValue ==
    ASSUME Common, Untouched, iram' = iram, NEW len, PC' = PC + len, NEW v, sfr' = [sfr EXCEPT ![A] = v]
    PROVE  Works(len, {A}) /\ sfr'[A] = v
  <1>1. A \in Sfrs
    BY Registers
  <1> QED BY <1>1, OneSfr

(* What is loaded into A.                                                  *)
LEMMA LoadsA ==
    ASSUME Common, Step
    PROVE  /\ Op = \he4 => Works(1, {A}) /\ sfr'[A] = 0
           /\ Op = \h74 => Works(2, {A}) /\ sfr'[A] = Arg1
           /\ Op = \he5 => Works(2, {A}) /\ sfr'[A] = Direct(Arg1)
           /\ Op = \he7 => Works(1, {A}) /\ sfr'[A] = iram[iram[Reg(1)]]
           /\ Op = \he0 => Works(1, {A}) /\ sfr'[A] = xram[Dptr]
           /\ Op = \h93 => Works(1, {A}) /\ sfr'[A] = Pmem(sfr[BANK], sfr[A] + Dptr)
  <1>2. CASE Op = \he4
    <2>v. PICK v : v = 0
      OBVIOUS
    <2>1. Untouched /\ iram' = iram /\ PC' = PC + 1 /\ sfr' = [sfr EXCEPT ![A] = v]
      BY <1>2, <2>v, OpLoads DEF Goes, Untouched
    <2>2. Works(1, {A}) /\ sfr'[A] = v
      BY <2>1, LoadsValue
    <2> QED BY <1>2, <2>v, <2>2
  <1>3. CASE Op = \h74
    <2>v. PICK v : v = Arg1
      OBVIOUS
    <2>1. Untouched /\ iram' = iram /\ PC' = PC + 2 /\ sfr' = [sfr EXCEPT ![A] = v]
      BY <1>3, <2>v, OpLoads DEF Goes, Untouched
    <2>2. Works(2, {A}) /\ sfr'[A] = v
      BY <2>1, LoadsValue
    <2> QED BY <1>3, <2>v, <2>2
  <1>4. CASE Op = \he5
    <2>v. PICK v : v = Direct(Arg1)
      OBVIOUS
    <2>1. Untouched /\ iram' = iram /\ PC' = PC + 2 /\ sfr' = [sfr EXCEPT ![A] = v]
      BY <1>4, <2>v, OpLoads DEF Goes, Untouched
    <2>2. Works(2, {A}) /\ sfr'[A] = v
      BY <2>1, LoadsValue
    <2> QED BY <1>4, <2>v, <2>2
  <1>5. CASE Op = \he7
    <2>v. PICK v : v = iram[iram[Reg(1)]]
      OBVIOUS
    <2>1. Untouched /\ iram' = iram /\ PC' = PC + 1 /\ sfr' = [sfr EXCEPT ![A] = v]
      BY <1>5, <2>v, OpLoads DEF Goes, Untouched
    <2>2. Works(1, {A}) /\ sfr'[A] = v
      BY <2>1, LoadsValue
    <2> QED BY <1>5, <2>v, <2>2
  <1>6. CASE Op = \he0
    <2>v. PICK v : v = xram[Dptr]
      OBVIOUS
    <2>1. Untouched /\ iram' = iram /\ PC' = PC + 1 /\ sfr' = [sfr EXCEPT ![A] = v]
      BY <1>6, <2>v, OpLoads DEF Goes, Untouched
    <2>2. Works(1, {A}) /\ sfr'[A] = v
      BY <2>1, LoadsValue
    <2> QED BY <1>6, <2>v, <2>2
  <1>7. CASE Op = \h93
    <2>v. PICK v : v = Pmem(sfr[BANK], sfr[A] + Dptr)
      OBVIOUS
    <2>1. Untouched /\ iram' = iram /\ PC' = PC + 1 /\ sfr' = [sfr EXCEPT ![A] = v]
      BY <1>7, <2>v, OpLoads DEF Goes, Untouched
    <2>2. Works(1, {A}) /\ sfr'[A] = v
      BY <2>1, LoadsValue
    <2> QED BY <1>7, <2>v, <2>2
  <1> QED BY <1>2, <1>3, <1>4, <1>5, <1>6, <1>7

(* The data pointers: each holds an address modulo 65536.                   *)
Points0(a) == sfr[DPH0] = Hi(a % 65536) /\ sfr[DPL0] = Lo(a)
Points1(a) == sfr[DPH1] = Hi(a % 65536) /\ sfr[DPL1] = Lo(a)
Even == sfr[DP_TGL] \in 0 .. 255 /\ sfr[DP_TGL] % 2 = 0
Odd  == sfr[DP_TGL] \in 0 .. 255 /\ sfr[DP_TGL] % 2 = 1

(* A data pointer that is set points there; incremented, to the next address.*)
LEMMA PointsAt ==
    ASSUME NEW a \in Nat
    PROVE  256 * Hi(a % 65536) + Lo(a) = a % 65536
  BY SMT DEF Hi, Lo

LEMMA DptrIs ==
    ASSUME NEW a \in Nat
    PROVE  /\ (Even /\ Points0(a)) => Dptr = a % 65536
           /\ (Odd /\ Points1(a)) => Dptr = a % 65536
  <1>1. Even => DPH = DPH0 /\ DPL = DPL0
    BY DEF Even, DPH, DPL
  <1>2. Odd => DPH = DPH1 /\ DPL = DPL1
    BY SMT DEF Odd, DPH, DPL
  <1> QED BY <1>1, <1>2, PointsAt, SMT DEF Points0, Points1, Dptr

LEMMA NextPoint ==
    ASSUME NEW a \in Nat
    PROVE  /\ ((a % 65536) + 1) % 65536 = (a + 1) % 65536
           /\ Lo((a % 65536) + 1) = Lo(a + 1)
  BY SMT DEF Lo

LEMMA MovesDptr ==
    ASSUME Common, Step
    PROVE  /\ (Op = \h90 /\ Even) => /\ Works(3, {DPH0, DPL0})
                                     /\ sfr'[DPH0] = Hi((256 * Arg1 + Arg2) % 65536)
                                     /\ sfr'[DPL0] = Lo(256 * Arg1 + Arg2)
           /\ (Op = \h90 /\ Odd)  => /\ Works(3, {DPH1, DPL1})
                                     /\ sfr'[DPH1] = Hi((256 * Arg1 + Arg2) % 65536)
                                     /\ sfr'[DPL1] = Lo(256 * Arg1 + Arg2)
  <1>1. {DPH0, DPL0, DPH1, DPL1} \subseteq Sfrs /\ DPH0 # DPL0 /\ DPH1 # DPL1
    BY Registers DEF DPH0, DPL0, DPH1, DPL1
  <1>2. Even => DPH = DPH0 /\ DPL = DPL0
    BY DEF Even, DPH, DPL
  <1>3. Odd => DPH = DPH1 /\ DPL = DPL1
    BY SMT DEF Odd, DPH, DPL
  <1>v. PICK v : v = Hi((256 * Arg1 + Arg2) % 65536)
    OBVIOUS
  <1>w. PICK w : w = Lo(256 * Arg1 + Arg2)
    OBVIOUS
  <1>4. ASSUME Op = \h90
        PROVE  /\ Untouched /\ iram' = iram /\ PC' = PC + 3
               /\ sfr' = [sfr EXCEPT ![DPH] = v, ![DPL] = w]
    BY <1>4, <1>v, <1>w, OpMoves, SMT DEF SetDptr, Goes, Untouched
  <1>5. ASSUME Op = \h90, Even
        PROVE  Works(3, {DPH0, DPL0}) /\ sfr'[DPH0] = v /\ sfr'[DPL0] = w
    <2>1. /\ Untouched /\ iram' = iram /\ PC' = PC + 3
          /\ sfr' = [sfr EXCEPT ![DPH0] = v, ![DPL0] = w]
      BY <1>2, <1>4, <1>5, SMT
    <2> QED BY <1>1, <2>1, TwoSfrs
  <1>6. ASSUME Op = \h90, Odd
        PROVE  Works(3, {DPH1, DPL1}) /\ sfr'[DPH1] = v /\ sfr'[DPL1] = w
    <2>1. /\ Untouched /\ iram' = iram /\ PC' = PC + 3
          /\ sfr' = [sfr EXCEPT ![DPH1] = v, ![DPL1] = w]
      BY <1>3, <1>4, <1>6, SMT
    <2> QED BY <1>1, <2>1, TwoSfrs
  <1> QED BY <1>5, <1>6, <1>v, <1>w, SMT

LEMMA IncsDptr ==
    ASSUME Common, Step, Op = \ha3, NEW a \in Nat
    PROVE  /\ (Even /\ Points0(a)) => Works(1, {DPH0, DPL0}) /\ Points0(a + 1)'
           /\ (Odd /\ Points1(a))  => Works(1, {DPH1, DPL1}) /\ Points1(a + 1)'
  <1>1. {DPH0, DPL0, DPH1, DPL1} \subseteq Sfrs /\ DPH0 # DPL0 /\ DPH1 # DPL1
    BY Registers DEF DPH0, DPL0, DPH1, DPL1
  <1>2. Even => DPH = DPH0 /\ DPL = DPL0
    BY DEF Even, DPH, DPL
  <1>3. Odd => DPH = DPH1 /\ DPL = DPL1
    BY SMT DEF Odd, DPH, DPL
  <1>v. PICK v : v = Hi((a + 1) % 65536)
    OBVIOUS
  <1>w. PICK w : w = Lo(a + 1)
    OBVIOUS
  <1>4. /\ Untouched /\ iram' = iram /\ PC' = PC + 1
        /\ Dptr = a % 65536 => sfr' = [sfr EXCEPT ![DPH] = v, ![DPL] = w]
    BY <1>v, <1>w, OpMoves, NextPoint, SMT DEF SetDptr, Goes, Untouched
  <1>5. ASSUME Even, Points0(a)
        PROVE  Works(1, {DPH0, DPL0}) /\ sfr'[DPH0] = v /\ sfr'[DPL0] = w
    <2>1. /\ Untouched /\ iram' = iram /\ PC' = PC + 1
          /\ sfr' = [sfr EXCEPT ![DPH0] = v, ![DPL0] = w]
      BY <1>2, <1>4, <1>5, DptrIs, SMT
    <2> QED BY <1>1, <2>1, TwoSfrs
  <1>6. ASSUME Odd, Points1(a)
        PROVE  Works(1, {DPH1, DPL1}) /\ sfr'[DPH1] = v /\ sfr'[DPL1] = w
    <2>1. /\ Untouched /\ iram' = iram /\ PC' = PC + 1
          /\ sfr' = [sfr EXCEPT ![DPH1] = v, ![DPL1] = w]
      BY <1>3, <1>4, <1>6, DptrIs, SMT
    <2> QED BY <1>1, <2>1, TwoSfrs
  <1> QED BY <1>5, <1>6, <1>v, <1>w, SMT DEF Points0, Points1

(* INC DP_TGL chooses the other pointer.                                   *)
LEMMA Toggles ==
    /\ Even => (sfr[DP_TGL] + 1) % 256 \in 0 .. 255 /\ ((sfr[DP_TGL] + 1) % 256) % 2 = 1
    /\ Odd  => (sfr[DP_TGL] + 1) % 256 \in 0 .. 255 /\ ((sfr[DP_TGL] + 1) % 256) % 2 = 0
  BY SMT DEF Even, Odd

-----------------------------------------------------------------------------
(* Instructions that work on iram: the counters, which are registers 0 and 1 *)
(* of the bank that PSW selects, and the stack.                             *)
Counted(k, v) == /\ Common' /\ Untouched /\ S' = S /\ sfr' = sfr /\ SlotsKept(16)
                 /\ iram'[24 + k] = v
                 /\ \A a \in 0 .. 255 : a # 24 + k => iram'[a] = iram[a]

LEMMA CountersOnly ==
    ASSUME Common, Untouched, sfr' = sfr, NEW k \in {0, 1}, NEW v, iram' = [iram EXCEPT ![24 + k] = v]
    PROVE  Counted(k, v)
  <1>1. S' = S /\ Room
    BY DEF Untouched, S, Common
  <1>2. 24 + k \in Counters /\ 24 + k \in 0 .. 255
    BY DEF Counters
  <1>3. /\ iram'[24 + k] = v /\ \A a \in 0 .. 255 : a # 24 + k => iram'[a] = iram[a]
        /\ DOMAIN iram' = 0 .. 255
    BY <1>2 DEF Common, Domains
  <1>4. IramKept'
    BY <1>1, <1>2, <1>3 DEF Common, IramKept, Untouched
  <1>5. Common'
    BY <1>3, <1>4, CommonKept DEF Common, Domains
  <1>6. SlotsKept(16)
    BY <1>1, <1>3, RoomFacts, SMT DEF SlotsKept, Slot
  <1> QED BY <1>1, <1>3, <1>5, <1>6 DEF Counted

LEMMA RegIs ==
    ASSUME sfr[PSW] = 24
    PROVE  Reg(0) = 24 /\ Reg(1) = 25
  BY SMT DEF Reg

LEMMA SetsCounter ==
    ASSUME Common, Step, sfr[PSW] = 24
    PROVE  /\ Op = \h78 => Counted(0, Arg1) /\ PC' = PC + 2
           /\ Op = \h79 => Counted(1, Arg1) /\ PC' = PC + 2
           /\ Op = \h09 => Counted(1, (iram[25] + 1) % 256) /\ PC' = PC + 1
  <1>u. PICK u : u = Arg1
    OBVIOUS
  <1>w. PICK w : w = (iram[25] + 1) % 256
    OBVIOUS
  <1>1. ASSUME Op = \h78 PROVE Counted(0, u) /\ PC' = PC + 2
    <2>1. Untouched /\ sfr' = sfr /\ iram' = [iram EXCEPT ![24 + 0] = u] /\ PC' = PC + 2
      BY <1>1, <1>u, OpMoves, RegIs, SMT DEF SetDirect, Goes, Untouched
    <2> QED BY <2>1, CountersOnly
  <1>2. ASSUME Op = \h79 PROVE Counted(1, u) /\ PC' = PC + 2
    <2>1. Untouched /\ sfr' = sfr /\ iram' = [iram EXCEPT ![24 + 1] = u] /\ PC' = PC + 2
      BY <1>2, <1>u, OpMoves, RegIs, SMT DEF SetDirect, Goes, Untouched
    <2> QED BY <2>1, CountersOnly
  <1>3. ASSUME Op = \h09 PROVE Counted(1, w) /\ PC' = PC + 1
    <2>1. Untouched /\ sfr' = sfr /\ iram' = [iram EXCEPT ![24 + 1] = w] /\ PC' = PC + 1
      BY <1>3, <1>w, OpMoves, RegIs, SMT DEF SetDirect, Goes, Untouched
    <2> QED BY <2>1, CountersOnly
  <1> QED BY <1>1, <1>2, <1>3, <1>u, <1>w, SMT

LEMMA CountsDown ==
    ASSUME Common, Step, sfr[PSW] = 24, NEW k \in {0, 1}, Op = \hd8 + k, NEW n, iram[24 + k] = n
    PROVE  /\ Counted(k, (n - 1) % 256)
           /\ PC' = PC + 2 + (IF (n - 1) % 256 # 0 THEN Relative(Arg1) ELSE 0)
  <1>w. PICK w : w = (n - 1) % 256
    OBVIOUS
  <1>1. Reg(Op - \hd8) = 24 + k
    BY RegIs, SMT
  <1>2. /\ Untouched /\ sfr' = sfr /\ iram' = [iram EXCEPT ![24 + k] = w]
        /\ PC' = PC + 2 + (IF w # 0 THEN Relative(Arg1) ELSE 0)
    BY <1>1, <1>w, OpJumps, SMT DEF Goes, Untouched
  <1>3. Counted(k, w)
    BY <1>2, CountersOnly
  <1> QED BY <1>2, <1>3, <1>w, SMT

(* The stack.                                                              *)
LEMMA StackAt ==
    ASSUME Room, NEW n \in 0 .. 16
    PROVE  /\ n < 16 => (S + n + 1) % 256 = S + (n + 1)
           /\ n < 15 => (S + n + 2) % 256 = S + (n + 2)
           /\ n > 0 => (S + n - 1) % 256 = S + (n - 1)
           /\ n > 1 => (S + n - 2) % 256 = S + (n - 2)
  <1>1. \A d \in 0 .. 16 : S + d \in 0 .. 255
    BY RoomFacts
  <1>2. ASSUME NEW d \in 0 .. 16 PROVE (S + d) % 256 = S + d
    <2>1. PICK x \in 0 .. 255 : x = S + d
      BY <1>1
    <2>2. x % 256 = x
      OBVIOUS
    <2> QED BY <2>1, <2>2
  <1>3. n < 16 => S + n + 1 = S + (n + 1) /\ n + 1 \in 0 .. 16
    BY RoomFacts
  <1>4. n < 15 => S + n + 2 = S + (n + 2) /\ n + 2 \in 0 .. 16
    BY RoomFacts
  <1>5. n > 0 => S + n - 1 = S + (n - 1) /\ n - 1 \in 0 .. 16
    BY RoomFacts
  <1>6. n > 1 => S + n - 2 = S + (n - 2) /\ n - 2 \in 0 .. 16
    BY RoomFacts
  <1> QED BY <1>2, <1>3, <1>4, <1>5, <1>6

(* Slots n + 1 and beyond may be written.                                  *)
LEMMA StackOnly ==
    ASSUME Common, Untouched, NEW n \in 0 .. 15, OnlyRegs({SP}), DOMAIN iram' = 0 .. 255,
           \A a \in 0 .. 255 :
               (\A d \in n + 1 .. 16 : a # S + d) => iram'[a] = iram[a]
    PROVE  Common' /\ S' = S /\ SlotsKept(n)
  <1>1. S' = S /\ Room /\ S \in 0 .. 255
    BY RoomFacts DEF Untouched, S, Common
  <1>2. ASSUME NEW a \in 0 .. 255, a \notin Counters, \A d \in 1 .. STACK_USE : a # S + d
        PROVE  iram'[a] = iram0'[a]
    <2>1. \A d \in n + 1 .. 16 : a # S + d
      BY <1>2, SMT DEF STACK_USE
    <2> QED BY <1>2, <2>1 DEF Common, IramKept, Untouched
  <1>5. IramKept'
    BY <1>1, <1>2 DEF IramKept
  <1>3. Common'
    BY <1>5, CommonKept DEF OnlyRegs
  <1>4. ASSUME NEW d \in 1 .. n PROVE Slot(d)' = Slot(d)
    <2>1. d \in 1 .. 16 /\ \A e \in n + 1 .. 16 : e # d
      OBVIOUS
    <2>2. S + d \in 0 .. 255 /\ S + d # 24 /\ S + d # 25
      BY <1>1, <2>1, RoomFacts
    <2>3. \A e \in n + 1 .. 16 : S + d # S + e
      BY <1>1, <2>1, SMT
    <2>4. S + d \notin Counters
      BY <2>2 DEF Counters
    <2>5. iram'[S + d] = iram[S + d]
      BY <2>2, <2>3, <2>4
    <2> QED BY <1>1, <2>5 DEF Slot
  <1> QED BY <1>1, <1>3, <1>4 DEF SlotsKept

LEMMA Pushes ==
    ASSUME Common, Step, Op = \hc0, NEW n \in 0 .. 15, sfr[SP] = S + n
    PROVE  /\ Common' /\ Untouched /\ S' = S /\ SlotsKept(n) /\ OnlyRegs({SP})
           /\ Slot(n + 1)' = Direct(Arg1) /\ sfr'[SP] = S + (n + 1) /\ PC' = PC + 2
  <1>v. PICK v : v = Direct(Arg1)
    OBVIOUS
  <1>1. Room /\ S \in 0 .. 255 /\ S + (n + 1) \in 0 .. 255 /\ SP \in Sfrs
    BY RoomFacts, Registers DEF Common
  <1>2. (S + n + 1) % 256 = S + (n + 1)
    BY <1>1, StackAt
  <1>3. /\ iram' = [iram EXCEPT ![S + (n + 1)] = v] /\ sfr' = [sfr EXCEPT ![SP] = S + (n + 1)]
        /\ Untouched /\ PC' = PC + 2
    BY <1>v, <1>2, OpCalls DEF Goes, Untouched
  <1>4. OnlyRegs({SP}) /\ sfr'[SP] = S + (n + 1)
    BY <1>1, <1>3 DEF Common, Domains, OnlyRegs
  <1>5. /\ DOMAIN iram' = 0 .. 255 /\ iram'[S + (n + 1)] = v
        /\ \A a \in 0 .. 255 : (\A d \in n + 1 .. 16 : a # S + d) => iram'[a] = iram[a]
    <2>1. PICK t \in 0 .. 255 : t = S + (n + 1)
      BY <1>1
    <2>2. DOMAIN iram = 0 .. 255
      BY DEF Common, Domains
    <2>3. iram' = [iram EXCEPT ![t] = v]
      BY <1>3, <2>1
    <2>4. /\ DOMAIN iram' = 0 .. 255 /\ iram'[t] = v
          /\ \A a \in 0 .. 255 : a # t => iram'[a] = iram[a]
      BY <2>2, <2>3
    <2>5. n + 1 \in n + 1 .. 16
      OBVIOUS
    <2>6. \A a \in 0 .. 255 : (\A d \in n + 1 .. 16 : a # S + d) => a # t
      BY <2>1, <2>5
    <2> QED BY <2>1, <2>4, <2>6
  <1>6. Common' /\ S' = S /\ SlotsKept(n)
    BY <1>3, <1>4, <1>5, StackOnly
  <1> QED BY <1>v, <1>3, <1>4, <1>5, <1>6 DEF Slot

LEMMA Calls ==
    ASSUME Common, Step, Op = \h12, NEW n \in 0 .. 14, sfr[SP] = S + n
    PROVE  /\ Common' /\ Untouched /\ S' = S /\ SlotsKept(n) /\ OnlyRegs({SP})
           /\ Slot(n + 1)' = Lo(PC + 3) /\ Slot(n + 2)' = Hi(PC + 3)
           /\ sfr'[SP] = S + (n + 2) /\ PC' = 256 * Arg1 + Arg2
  <1>v. PICK v : v = Lo(PC + 3)
    OBVIOUS
  <1>w. PICK w : w = Hi(PC + 3)
    OBVIOUS
  <1>1. /\ Room /\ S \in 0 .. 255 /\ S + (n + 1) \in 0 .. 255 /\ S + (n + 2) \in 0 .. 255
        /\ SP \in Sfrs
    BY RoomFacts, Registers DEF Common
  <1>2. (S + n + 1) % 256 = S + (n + 1) /\ (S + n + 2) % 256 = S + (n + 2)
    BY <1>1, StackAt
  <1>3. /\ iram' = [iram EXCEPT ![S + (n + 1)] = v, ![S + (n + 2)] = w]
        /\ sfr' = [sfr EXCEPT ![SP] = S + (n + 2)]
        /\ Untouched /\ PC' = 256 * Arg1 + Arg2
    BY <1>v, <1>w, <1>2, OpCalls DEF PushAddr, Goes, Untouched
  <1>4. OnlyRegs({SP}) /\ sfr'[SP] = S + (n + 2)
    BY <1>1, <1>3 DEF Common, Domains, OnlyRegs
  <1>5. /\ DOMAIN iram' = 0 .. 255 /\ iram'[S + (n + 1)] = v /\ iram'[S + (n + 2)] = w
        /\ \A a \in 0 .. 255 : (\A d \in n + 1 .. 16 : a # S + d) => iram'[a] = iram[a]
    <2>1. DOMAIN iram' = 0 .. 255 /\ iram'[S + (n + 1)] = v /\ iram'[S + (n + 2)] = w
      BY <1>1, <1>3 DEF Common, Domains
    <2>2. ASSUME NEW a \in 0 .. 255, \A d \in n + 1 .. 16 : a # S + d
          PROVE  iram'[a] = iram[a]
      <3>1. n + 1 \in n + 1 .. 16 /\ n + 2 \in n + 1 .. 16
        OBVIOUS
      <3>2. a # S + (n + 1) /\ a # S + (n + 2)
        BY <2>2, <3>1
      <3> QED BY <1>1, <1>3, <3>2 DEF Common, Domains
    <2> QED BY <2>1, <2>2
  <1>6. Common' /\ S' = S /\ SlotsKept(n)
    <2>1. n \in 0 .. 15
      OBVIOUS
    <2> QED BY <1>3, <1>4, <1>5, <2>1, StackOnly
  <1> QED BY <1>v, <1>w, <1>3, <1>4, <1>5, <1>6 DEF Slot

LEMMA Returns ==
    ASSUME Common, Step, Op = \h22, NEW n \in 2 .. 16, sfr[SP] = S + n
    PROVE  /\ Steady({SP}) /\ sfr'[SP] = S + (n - 2)
           /\ PC' = 256 * Slot(n) + Slot(n - 1)
  <1>1. Room /\ S \in 0 .. 255 /\ SP \in Sfrs
    BY RoomFacts, Registers DEF Common
  <1>2. (S + n - 1) % 256 = S + (n - 1) /\ (S + n - 2) % 256 = S + (n - 2)
    BY <1>1, StackAt
  <1>3. /\ sfr' = [sfr EXCEPT ![SP] = S + (n - 2)] /\ iram' = iram /\ Untouched
        /\ PC' = 256 * Slot(n) + Slot(n - 1)
    BY <1>1, <1>2, OpCalls, SMT DEF Goes, Untouched, Slot
  <1>4. OnlyRegs({SP}) /\ sfr'[SP] = S + (n - 2)
    BY <1>1, <1>3 DEF Common, Domains, OnlyRegs
  <1> QED BY <1>3, <1>4, SteadySfrs

LEMMA Pops ==
    ASSUME Common, Step, Op = \hd0, NEW n \in 1 .. 16, sfr[SP] = S + n,
           NEW r \in Sfrs, Arg1 = r, r # SP
    PROVE  Works(2, {SP, r}) /\ sfr'[SP] = S + (n - 1) /\ sfr'[r] = Slot(n)
  <1>v. PICK v : v = Slot(n)
    OBVIOUS
  <1>1. Room /\ S \in 0 .. 255 /\ SP \in Sfrs
    BY RoomFacts, Registers DEF Common
  <1>2. (S + n - 1) % 256 = S + (n - 1)
    BY <1>1, StackAt
  <1>3. /\ sfr' = [sfr EXCEPT ![SP] = S + (n - 1), ![r] = v] /\ iram' = iram /\ Untouched
        /\ PC' = PC + 2
    BY <1>v, <1>1, <1>2, OpCalls, SMT DEF Goes, Untouched, Slot
  <1>4. OnlyRegs({SP, r}) /\ sfr'[SP] = S + (n - 1) /\ sfr'[r] = v
    BY <1>1, <1>3 DEF Common, Domains, OnlyRegs
  <1>5. Steady({SP, r})
    BY <1>3, <1>4, SteadySfrs
  <1> QED BY <1>v, <1>3, <1>4, <1>5 DEF Works

(* What is stored: neither what xram held nor the signal is touched.        *)
NotSignalled == xram[SIGNAL] = 0

Stores(a) ==
    /\ Common' /\ iram0' = iram0 /\ sfr0' = sfr0 /\ S' = S /\ iram' = iram /\ sfr' = sfr
    /\ SlotsKept(16) /\ NotSignalled'
    /\ xram'[a] = sfr[A] /\ \A b \in DataAddr : b # a => xram'[b] = xram[b]
    /\ PC' = PC + 1

LEMMA StoresA ==
    ASSUME Common, Step, Op = \hf0, NEW a, Dptr = a, a \notin LowAddr, a # SIGNAL, NotSignalled
    PROVE  a \in DataAddr /\ Stores(a)
  <1>1. /\ a \in DataAddr /\ xram' = [xram EXCEPT ![a] = sfr[A]]
        /\ PC' = PC + 1 /\ iram' = iram /\ sfr' = sfr /\ iram0' = iram0 /\ sfr0' = sfr0
    BY OpLoads DEF Goes
  <1>2. /\ xram'[a] = sfr[A] /\ (\A b \in DataAddr : b # a => xram'[b] = xram[b])
        /\ DOMAIN xram' = DataAddr
    BY <1>1 DEF Common, Domains
  <1>3. NotSignalled'
    BY <1>2 DEF NotSignalled, DataAddr
  <1>4. SignalMeansDumped' /\ SavedIsStateAtRest'
    BY <1>3, SMT DEF NotSignalled, SignalMeansDumped, SavedIsStateAtRest, Signalled
  <1>5. LowKept'
    BY <1>2 DEF Common, LowKept, DataAddr
  <1>6. S' = S /\ Room' /\ IramKept'
    BY <1>1 DEF Common, Room, IramKept, S
  <1>7. Domains'
    BY <1>1, <1>2 DEF Common, Domains, Value
  <1>8. SlotsKept(16)
    BY <1>1, <1>6 DEF SlotsKept, Slot
  <1> QED BY <1>1, <1>2, <1>3, <1>4, <1>5, <1>6, <1>7, <1>8 DEF Common, Stores

-----------------------------------------------------------------------------
(***************************************************************************)
(* The code, as a disassembler would list it.                              *)
(***************************************************************************)
At(a, op)             == PC = a => Op = op
At1(a, op, arg)       == PC = a => Op = op /\ Arg1 = arg
At2(a, op, arg1, arg2) == PC = a => Op = op /\ Arg1 = arg1 /\ Arg2 = arg2

(* The registers in the order they are pushed, and what a handler is for.   *)
Order == <<A, B, DPH0, DPL0, DPH1, DPL1, DP_TGL, PSW>>

(* The bytes of a run, counted from where it starts.                       *)
LEMMA CodeFrom ==
    ASSUME NEW k \in 1 .. 11, NEW n \in Nat, Sizes[k] = n + 1
    PROVE  \A z \in 0 .. n : Code(Starts[k] + z) = Image[k].bytes[z + 1]
  <1>1. ASSUME NEW z \in 0 .. n PROVE z \in Nat /\ z < Sizes[k]
    BY SMT
  <1> QED BY <1>1, CodeOfRun

LEMMA MainCode == \A z \in 0 .. 37 : Code(62208 + z) = MainEntry[z + 1]
  <1>1. Starts[8] = 62208 /\ Sizes[8] = 38 /\ Image[8].bytes = MainEntry
    BY RunBytes, SMT DEF Starts, Sizes
  <1>2. 8 \in 1 .. 11 /\ 37 \in Nat /\ Sizes[8] = 37 + 1
    BY <1>1, SMT
  <1>3. \A z \in 0 .. 37 : Code(Starts[8] + z) = Image[8].bytes[z + 1]
    BY <1>2, CodeFrom
  <1> QED BY <1>1, <1>3

(* The main entry: push the registers, compare the value, jump through the table.*)
LEMMA MainListing ==
    /\ At1(62208, \hc0, A) /\ At1(62210, \hc0, B) /\ At1(62212, \hc0, DPH0)
    /\ At1(62214, \hc0, DPL0) /\ At1(62216, \hc0, DPH1) /\ At1(62218, \hc0, DPL1)
    /\ At1(62220, \hc0, DP_TGL)
    /\ At2(62222, \h75, DP_TGL, 0)
    /\ At1(62225, \hc0, PSW)
    /\ At2(62227, \h75, PSW, 24)
    /\ At1(62230, \he5, PARAM_VALUE)
    /\ At1(62232, \h94, 3)
    /\ At1(62234, \h50, 10)
    /\ At1(62236, \he5, PARAM_VALUE)
    /\ At2(62238, \h75, B, 6)
    /\ At(62241, \ha4)
    /\ At2(62242, \h90, Hi(62024), Lo(62024))
    /\ At(62245, \h73)
  <1>1. Len(Handlers) = 3
    BY DEF Handlers
  <1>2. JmpTblAddr = 62024
    BY Places
  <1> QED BY <1>1, <1>2, MainCode, SMT DEF MainEntry, MainEntryPart1, MainEntryPart2, MovDptr,
                                     At, At1, At2, Op, Arg1, Arg2, A, B, DPH0, DPL0, DPH1, DPL1,
                                     DP_TGL, PSW, PARAM_VALUE

(* The saving of a register in turn, and its restoring.                     *)
LEMMA PushListing ==
    ASSUME NEW k \in 0 .. 6
    PROVE  At1(62208 + 2 * k, \hc0, Order[k + 1])
  <1>1. k \in {0, 1, 2, 3, 4, 5, 6}
    OBVIOUS
  <1> QED BY <1>1, MainListing, SMT DEF At1, Order

LEMMA ExitCode == \A z \in 0 .. 16 : Code(62246 + z) = MainExit[z + 1]
  <1>1. Starts[9] = 62246 /\ Sizes[9] = 17 /\ Image[9].bytes = MainExit
    BY RunBytes, SMT DEF Starts, Sizes
  <1>2. 9 \in 1 .. 11 /\ 16 \in Nat /\ Sizes[9] = 16 + 1
    BY <1>1, SMT
  <1>3. \A z \in 0 .. 16 : Code(Starts[9] + z) = Image[9].bytes[z + 1]
    BY <1>2, CodeFrom
  <1> QED BY <1>1, <1>3

(* The main exit pops what the entry pushed, in reverse.                   *)
LEMMA ExitListing ==
    /\ \A k \in 0 .. 7 : At1(62246 + 2 * k, \hd0, Order[8 - k])
    /\ At(62262, \h22)
  <1>1. /\ At1(62246, \hd0, Order[8]) /\ At1(62248, \hd0, Order[7])
        /\ At1(62250, \hd0, Order[6]) /\ At1(62252, \hd0, Order[5])
        /\ At1(62254, \hd0, Order[4]) /\ At1(62256, \hd0, Order[3])
        /\ At1(62258, \hd0, Order[2]) /\ At1(62260, \hd0, Order[1])
        /\ At(62262, \h22)
    BY ExitCode, SMT DEF At, At1, Op, Arg1, MainExit, RET, Order,
                         A, B, DPH0, DPL0, DPH1, DPL1, DP_TGL, PSW
  <1>2. ASSUME NEW k \in 0 .. 7
        PROVE  At1(62246 + 2 * k, \hd0, Order[8 - k])
    <2>1. k \in {0, 1, 2, 3, 4, 5, 6, 7}
      OBVIOUS
    <2> QED BY <1>1, <2>1, SMT DEF At1
  <1> QED BY <1>1, <1>2

LEMMA TableCode == \A z \in 0 .. 17 : Code(62024 + z) = JmpTbl[z + 1]
  <1>1. Starts[10] = 62024 /\ Sizes[10] = 18 /\ Image[10].bytes = JmpTbl
    BY RunBytes, SMT DEF Starts, Sizes
  <1>2. 10 \in 1 .. 11 /\ 17 \in Nat /\ Sizes[10] = 17 + 1
    BY <1>1, SMT
  <1>3. \A z \in 0 .. 17 : Code(Starts[10] + z) = Image[10].bytes[z + 1]
    BY <1>2, CodeFrom
  <1> QED BY <1>1, <1>3

(* Handler h is that of value h.                                           *)
HandlerStart(h) == 61952 + 14 * h

(* Entry h of the jump table calls handler h and jumps to the exit.        *)
LEMMA TableListing ==
    ASSUME NEW h \in 0 .. 2
    PROVE  /\ At2(62024 + 6 * h, \h12, Hi(HandlerStart(h)), Lo(HandlerStart(h)))
           /\ At2(62027 + 6 * h, \h02, Hi(62246), Lo(62246))
  <1>1. /\ HandlerAddr[1] = HandlerStart(0) /\ HandlerAddr[2] = HandlerStart(1)
        /\ HandlerAddr[3] = HandlerStart(2) /\ ExitAddr = 62246
    BY Places DEF HandlerStart
  <1>2. /\ At2(62024, \h12, Hi(HandlerStart(0)), Lo(HandlerStart(0)))
        /\ At2(62027, \h02, Hi(62246), Lo(62246))
        /\ At2(62030, \h12, Hi(HandlerStart(1)), Lo(HandlerStart(1)))
        /\ At2(62033, \h02, Hi(62246), Lo(62246))
        /\ At2(62036, \h12, Hi(HandlerStart(2)), Lo(HandlerStart(2)))
        /\ At2(62039, \h02, Hi(62246), Lo(62246))
    BY <1>1, TableCode, SMT DEF At2, Op, Arg1, Arg2, JmpTbl, JmpTblOf, JmpTblEntry, Lcall, Ljmp
  <1>3. h \in {0, 1, 2}
    OBVIOUS
  <1> QED BY <1>2, <1>3, SMT DEF At2

(* The firmware is led to the main entry.                                  *)
LEMMA HookCode == Code(HOOK) = Hi(62208) /\ Code(HOOK + 1) = Lo(62208)
  <1>1. Starts[11] = HOOK /\ Sizes[11] = 2 /\ HOOK \in Int
    BY Places, SMT DEF Starts, Sizes
  <1>2. Image[11].bytes = <<Hi(62208), Lo(62208)>>
    BY RunBytes, Places
  <1>3. 11 \in 1 .. 11 /\ 1 \in Nat /\ Sizes[11] = 1 + 1
    BY <1>1, SMT
  <1>4. \A z \in 0 .. 1 : Code(Starts[11] + z) = Image[11].bytes[z + 1]
    BY <1>3, CodeFrom
  <1> QED BY <1>1, <1>2, <1>4, SMT

-----------------------------------------------------------------------------
(* The handlers of the banks of program memory.                            *)
Bank(h) == IF h = 0 THEN \h15 ELSE \h2a

LEMMA BankCode ==
    ASSUME NEW h \in 0 .. 1
    PROVE  \A z \in 0 .. 13 : Code(HandlerStart(h) + z) = BankHandler(Bank(h))[z + 1]
  <1>1. /\ Starts[5] = HandlerStart(0) /\ Sizes[5] = 14 /\ Starts[6] = HandlerStart(1)
        /\ Sizes[6] = 14 /\ HandlerStart(0) \in Int /\ HandlerStart(1) \in Int
    BY SMT DEF Starts, Sizes, HandlerStart
  <1>2. Image[5].bytes = BankHandler(Bank(0)) /\ Image[6].bytes = BankHandler(Bank(1))
    BY RunBytes, SMT DEF Handlers, Bank
  <1>3. CASE h = 0
    <2>1. 5 \in 1 .. 11 /\ 13 \in Nat /\ Sizes[5] = 13 + 1
      BY <1>1, SMT
    <2>2. \A z \in 0 .. 13 : Code(Starts[5] + z) = Image[5].bytes[z + 1]
      BY <2>1, CodeFrom
    <2> QED BY <1>1, <1>2, <1>3, <2>2
  <1>4. CASE h = 1
    <2>1. 6 \in 1 .. 11 /\ 13 \in Nat /\ Sizes[6] = 13 + 1
      BY <1>1, SMT
    <2>2. \A z \in 0 .. 13 : Code(Starts[6] + z) = Image[6].bytes[z + 1]
      BY <2>1, CodeFrom
    <2> QED BY <1>1, <1>2, <1>4, <2>2
  <1> QED BY <1>3, <1>4

(* A bank handler keeps register \hfa, chooses the bank, copies, restores, signals.*)
LEMMA BankListing ==
    ASSUME NEW h \in 0 .. 1
    PROVE  /\ At1(HandlerStart(h), \hc0, BANK)
           /\ At2(HandlerStart(h) + 2, \h75, BANK, Bank(h))
           /\ At2(HandlerStart(h) + 5, \h12, Hi(61696), Lo(61696))
           /\ At1(HandlerStart(h) + 8, \hd0, BANK)
           /\ At2(HandlerStart(h) + 10, \h12, Hi(61793), Lo(61793))
           /\ At(HandlerStart(h) + 13, \h22)
  <1>1. HandlerStart(h) \in Int
    BY DEF HandlerStart
  <1>p. PICK s \in Int : s = HandlerStart(h)
    BY <1>1
  <1>b. PICK b : b = BankHandler(Bank(h))
    OBVIOUS
  <1>2. \A z \in 0 .. 13 : Code(s + z) = b[z + 1]
    BY BankCode, <1>p, <1>b
  <1>3. /\ b[1] = \hc0 /\ b[2] = BANK /\ b[3] = \h75 /\ b[4] = BANK /\ b[5] = Bank(h)
        /\ b[6] = \h12 /\ b[7] = Hi(61696) /\ b[8] = Lo(61696) /\ b[9] = \hd0 /\ b[10] = BANK
        /\ b[11] = \h12 /\ b[12] = Hi(61793) /\ b[13] = Lo(61793) /\ b[14] = \h22
    BY <1>b, Places, SMT DEF BankHandler, HandlerEnd, Lcall, RET, BANK
  <1>4. /\ Code(s) = b[1] /\ Code(s + 1) = b[2] /\ Code(s + 2) = b[3] /\ Code(s + 3) = b[4]
        /\ Code(s + 4) = b[5] /\ Code(s + 5) = b[6] /\ Code(s + 6) = b[7] /\ Code(s + 7) = b[8]
        /\ Code(s + 8) = b[9] /\ Code(s + 9) = b[10] /\ Code(s + 10) = b[11]
        /\ Code(s + 11) = b[12] /\ Code(s + 12) = b[13] /\ Code(s + 13) = b[14]
    BY <1>2, SMT
  <1> QED BY <1>p, <1>3, <1>4, SMT DEF At, At1, At2, Op, Arg1, Arg2

-----------------------------------------------------------------------------
(* The handler of the data memories and registers.                         *)
LEMMA RamCode == \A z \in 0 .. 43 : Code(61980 + z) = RamHandler[z + 1]
  <1>1. Starts[7] = 61980 /\ Sizes[7] = 44 /\ Image[7].bytes = RamHandler
    BY RunBytes, SMT DEF Starts, Sizes, Handlers
  <1>2. 7 \in 1 .. 11 /\ 43 \in Nat /\ Sizes[7] = 43 + 1
    BY <1>1, SMT
  <1>3. \A z \in 0 .. 43 : Code(Starts[7] + z) = Image[7].bytes[z + 1]
    BY <1>2, CodeFrom
  <1> QED BY <1>1, <1>3

(* The last handler copies xram and iram, dumps eight registers, and signals.*)
LEMMA RamListing ==
    /\ At2(61980, \h12, Hi(61732), Lo(61732))
    /\ At2(61983, \h12, Hi(61768), Lo(61768))
    /\ At2(61986, \h90, Hi(SFR_AREA), Lo(SFR_AREA))
    /\ \A k \in 0 .. 7 : /\ At1(61989 + 4 * k, \he5, SfrAddrs[k + 1])
                         /\ At(61991 + 4 * k, \hf0)
    /\ \A k \in 0 .. 6 : At(61992 + 4 * k, \ha3)
    /\ At2(62020, \h12, Hi(61793), Lo(61793))
    /\ At(62023, \h22)
  <1> USE RamCode, Places DEF At, At1, At2, Op, Arg1, Arg2, RamHandler, HandlerEnd, Lcall, MovDptr, SfrDump, RET, SfrAddrs
  <1>1. At2(61980, \h12, Hi(61732), Lo(61732)) /\ At2(61983, \h12, Hi(61768), Lo(61768))
    BY SMT
  <1>2. At2(61986, \h90, Hi(SFR_AREA), Lo(SFR_AREA))
    BY SMT
  <1>3. At2(62020, \h12, Hi(61793), Lo(61793)) /\ At(62023, \h22)
    BY SMT
  <1>4. ASSUME NEW k \in 0 .. 7
        PROVE  At1(61989 + 4 * k, \he5, SfrAddrs[k + 1]) /\ At(61991 + 4 * k, \hf0)
    <2>1. CASE k = 0
      BY <2>1, SMT
    <2>2. CASE k = 1
      BY <2>2, SMT
    <2>3. CASE k = 2
      BY <2>3, SMT
    <2>4. CASE k = 3
      BY <2>4, SMT
    <2>5. CASE k = 4
      BY <2>5, SMT
    <2>6. CASE k = 5
      BY <2>6, SMT
    <2>7. CASE k = 6
      BY <2>7, SMT
    <2>8. CASE k = 7
      BY <2>8, SMT
    <2> HIDE RamCode, Places DEF At, At1, RamHandler, SfrAddrs
    <2> QED BY <2>1, <2>2, <2>3, <2>4, <2>5, <2>6, <2>7, <2>8, SMT
  <1>5. ASSUME NEW k \in 0 .. 6
        PROVE  At(61992 + 4 * k, \ha3)
    <2>1. CASE k = 0
      BY <2>1, SMT
    <2>2. CASE k = 1
      BY <2>2, SMT
    <2>3. CASE k = 2
      BY <2>3, SMT
    <2>4. CASE k = 3
      BY <2>4, SMT
    <2>5. CASE k = 4
      BY <2>5, SMT
    <2>6. CASE k = 5
      BY <2>6, SMT
    <2>7. CASE k = 6
      BY <2>7, SMT
    <2> HIDE RamCode, Places DEF At, At1, RamHandler, SfrAddrs
    <2> QED BY <2>1, <2>2, <2>3, <2>4, <2>5, <2>6, <2>7, SMT
  <1> HIDE RamCode, Places DEF At, At1, At2, RamHandler, SfrAddrs
  <1> QED BY <1>1, <1>2, <1>3, <1>4, <1>5

-----------------------------------------------------------------------------
(* The functions they call.  Handler h copies Blocks(h) blocks from From(h). *)
CopyStart(h) == IF h < 2 THEN 61696 ELSE 61732
From(h)      == IF h < 2 THEN \h8000 ELSE 0
Blocks(h)    == IF h < 2 THEN PMEM_BLOCKS ELSE XRAM_BLOCKS
ReadOp(h)      == IF h < 2 THEN \h93 ELSE \he0

LEMMA CopyCode ==
    ASSUME NEW h \in 0 .. 2
    PROVE  \A z \in 0 .. 35 :
               Code(CopyStart(h) + z) = CopyFunc(From(h), Blocks(h), ReadOp(h))[z + 1]
  <1>1. Starts[1] = 61696 /\ Sizes[1] = 36 /\ Starts[2] = 61732 /\ Sizes[2] = 36
    BY SMT DEF Starts, Sizes
  <1>2. /\ Image[1].bytes = CopyFunc(\h8000, PMEM_BLOCKS, \h93)
        /\ Image[2].bytes = CopyFunc(0, XRAM_BLOCKS, \he0)
    BY RunBytes, SMT DEF PmemFunc, XramFunc
  <1>3. CASE h < 2
    <2>0. 1 \in 1 .. 11 /\ 35 \in Nat /\ Sizes[1] = 35 + 1
      BY <1>1, SMT
    <2>1. \A z \in 0 .. 35 : Code(Starts[1] + z) = Image[1].bytes[z + 1]
      BY <2>0, CodeFrom
    <2> QED BY <1>1, <1>2, <1>3, <2>1, SMT DEF CopyStart, From, Blocks, ReadOp
  <1>4. CASE ~(h < 2)
    <2>0. 2 \in 1 .. 11 /\ 35 \in Nat /\ Sizes[2] = 35 + 1
      BY <1>1, SMT
    <2>1. \A z \in 0 .. 35 : Code(Starts[2] + z) = Image[2].bytes[z + 1]
      BY <2>0, CodeFrom
    <2> QED BY <1>1, <1>2, <1>4, <2>1, SMT DEF CopyStart, From, Blocks, ReadOp
  <1> QED BY <1>3, <1>4

(* The copying functions: interrupts off, two pointers, two nested loops.  *)
LEMMA CopyListing ==
    ASSUME NEW h \in 0 .. 2
    PROVE  /\ At1(CopyStart(h), \hc0, IE)
           /\ At2(CopyStart(h) + 2, \h75, IE, 0)
           /\ At2(CopyStart(h) + 5, \h90, Hi(AREA), Lo(AREA))
           /\ At1(CopyStart(h) + 8, \h05, DP_TGL)
           /\ At2(CopyStart(h) + 10, \h90, Hi(From(h)), Lo(From(h)))
           /\ At1(CopyStart(h) + 13, \h78, Blocks(h))
           /\ At1(CopyStart(h) + 15, \h79, 0)
           /\ At(CopyStart(h) + 17, \he4)
           /\ At(CopyStart(h) + 18, ReadOp(h))
           /\ At(CopyStart(h) + 19, \ha3)
           /\ At1(CopyStart(h) + 20, \h05, DP_TGL)
           /\ At(CopyStart(h) + 22, \hf0)
           /\ At(CopyStart(h) + 23, \ha3)
           /\ At1(CopyStart(h) + 24, \h05, DP_TGL)
           /\ At1(CopyStart(h) + 26, \hd9, \hf5)
           /\ At1(CopyStart(h) + 28, \hd8, \hf1)
           /\ At2(CopyStart(h) + 30, \h75, DP_TGL, 0)
           /\ At1(CopyStart(h) + 33, \hd0, IE)
           /\ At(CopyStart(h) + 35, \h22)
  <1>1. CopyStart(h) \in Int
    BY DEF CopyStart
  <1>p. PICK s \in Int : s = CopyStart(h)
    BY <1>1
  <1>b. PICK b : b = CopyFunc(From(h), Blocks(h), ReadOp(h))
    OBVIOUS
  <1>2. \A z \in 0 .. 35 : Code(s + z) = b[z + 1]
    BY CopyCode, <1>p, <1>b
  <1>4. /\ Code(s) = b[1] /\ Code(s + 1) = b[2] /\ Code(s + 2) = b[3] /\ Code(s + 3) = b[4]
        /\ Code(s + 4) = b[5] /\ Code(s + 5) = b[6] /\ Code(s + 6) = b[7] /\ Code(s + 7) = b[8]
        /\ Code(s + 8) = b[9] /\ Code(s + 9) = b[10] /\ Code(s + 10) = b[11]
        /\ Code(s + 11) = b[12] /\ Code(s + 12) = b[13] /\ Code(s + 13) = b[14]
        /\ Code(s + 14) = b[15] /\ Code(s + 15) = b[16] /\ Code(s + 16) = b[17]
        /\ Code(s + 17) = b[18] /\ Code(s + 18) = b[19] /\ Code(s + 19) = b[20]
        /\ Code(s + 20) = b[21] /\ Code(s + 21) = b[22] /\ Code(s + 22) = b[23]
        /\ Code(s + 23) = b[24] /\ Code(s + 24) = b[25] /\ Code(s + 25) = b[26]
        /\ Code(s + 26) = b[27] /\ Code(s + 27) = b[28] /\ Code(s + 28) = b[29]
        /\ Code(s + 29) = b[30] /\ Code(s + 30) = b[31] /\ Code(s + 31) = b[32]
        /\ Code(s + 32) = b[33] /\ Code(s + 33) = b[34] /\ Code(s + 34) = b[35]
        /\ Code(s + 35) = b[36]
    BY <1>2, SMT
  <1> QED BY <1>p, <1>b, <1>4, CopyBytes, SMT DEF At, At1, At2, Op, Arg1, Arg2, IE, DP_TGL

LEMMA IramCode == \A z \in 0 .. 24 : Code(61768 + z) = IramFunc[z + 1]
  <1>1. Starts[3] = 61768 /\ Sizes[3] = 25 /\ Image[3].bytes = IramFunc
    BY RunBytes, SMT DEF Starts, Sizes
  <1>0. 3 \in 1 .. 11 /\ 24 \in Nat /\ Sizes[3] = 24 + 1
    BY <1>1, SMT
  <1>2. \A z \in 0 .. 24 : Code(Starts[3] + z) = Image[3].bytes[z + 1]
    BY <1>0, CodeFrom
  <1> QED BY <1>1, <1>2, SMT

(* The function that copies iram: one loop of 256 bytes.                   *)
LEMMA IramListing ==
    /\ At1(61768, \hc0, IE)
    /\ At2(61770, \h75, IE, 0)
    /\ At2(61773, \h90, Hi(IRAM_AREA), Lo(IRAM_AREA))
    /\ At1(61776, \h78, 0)
    /\ At1(61778, \h79, 0)
    /\ At(61780, \he4)
    /\ At(61781, \he7)
    /\ At(61782, \hf0)
    /\ At(61783, \h09)
    /\ At(61784, \ha3)
    /\ At1(61785, \hd8, \hfa)
    /\ At2(61787, \h75, DP_TGL, 0)
    /\ At1(61790, \hd0, IE)
    /\ At(61792, \h22)
  BY IramCode, SMT DEF At, At1, At2, Op, Arg1, Arg2, IramFunc, IE, DP_TGL

LEMMA SignalCode == \A z \in 0 .. 6 : Code(61793 + z) = SignalFunc[z + 1]
  <1>1. Starts[4] = 61793 /\ Sizes[4] = 7 /\ Image[4].bytes = SignalFunc
    BY RunBytes, SMT DEF Starts, Sizes
  <1>2. 4 \in 1 .. 11 /\ 6 \in Nat /\ Sizes[4] = 6 + 1
    BY <1>1, SMT
  <1>3. \A z \in 0 .. 6 : Code(Starts[4] + z) = Image[4].bytes[z + 1]
    BY <1>2, CodeFrom
  <1> QED BY <1>1, <1>3

(* The function that signals stores \hff in SIGNAL.                        *)
LEMMA SignalListing ==
    /\ At2(61793, \h90, Hi(SIGNAL), Lo(SIGNAL))
    /\ At1(61796, \h74, 255)
    /\ At(61798, \hf0)
    /\ At(61799, \h22)
  BY SignalCode, SMT DEF At, At1, At2, Op, Arg1, Arg2, SignalFunc

(* Nothing runs while the firmware is at rest.                             *)
LEMMA NothingAtRest == PC = MAIN_LOOP => ~Step
  <1>1. ASSUME NEW k \in 1 .. 11
        PROVE  ~Covers(Image[k], 31385)
    <2>1. ASSUME NEW a
          PROVE  Covers(Image[k], a) <=> Starts[k] <= a /\ a < Starts[k] + Sizes[k]
      BY Runs DEF Covers
    <2> QED BY <2>1, SMT DEF Starts, Sizes
  <1> QED BY <1>1, Runs, SMT DEF Step, Running, Written, MAIN_LOOP

-----------------------------------------------------------------------------
(***************************************************************************)
(* Where the program can be, and what holds there.                          *)
(***************************************************************************)
Pushed  == { Order[k] : k \in 1 .. 8 }
Free    == Pushed \cup {SP}
Same(X) == \A s \in Sfrs : s \notin X => sfr[s] = sfr0[s]

(* The stack: the firmware's return address and the first k registers.      *)
Called   == Slot(1) = Lo(MAIN_LOOP) /\ Slot(2) = Hi(MAIN_LOOP)
Saved(k) == \A j \in 1 .. k : Slot(2 + j) = sfr0[Order[j]]
Framed(n) == Called /\ Saved(8) /\ sfr[SP] = S + n

AtRest == PC = 31385 /\ sfr = sfr0

(* The main entry and exit.                                                *)
Entering(k) ==
    /\ PC = 62208 + 2 * k /\ NotSignalled /\ Called /\ Saved(k) /\ sfr[SP] = S + (2 + k) /\ Same({SP})
Entered ==
    /\ NotSignalled /\ Called /\ Same({SP, DP_TGL}) /\ sfr[DP_TGL] = 0
    /\ \/ PC = 62225 /\ Saved(7) /\ sfr[SP] = S + 9
       \/ PC = 62227 /\ Saved(8) /\ sfr[SP] = S + 10
Selecting ==
    /\ NotSignalled /\ Framed(10) /\ Same(Free) /\ sfr[DP_TGL] = 0
    /\ \/ PC = 62230 /\ sfr[PSW] = 24
       \/ PC = 62232 /\ sfr[PSW] = 24 /\ sfr[A] = Value
       \/ PC = 62234 /\ sfr[PSW] = 24 + (IF Value < 3 THEN 128 ELSE 0)
       \/ PC = 62236 /\ Value < 3 /\ sfr[PSW] = 152
       \/ PC = 62238 /\ Value < 3 /\ sfr[PSW] = 152 /\ sfr[A] = Value
       \/ PC = 62241 /\ Value < 3 /\ sfr[PSW] = 152 /\ sfr[A] = Value /\ sfr[B] = 6
       \/ PC = 62242 /\ Value < 3 /\ sfr[PSW] = 24 /\ sfr[A] = 6 * Value
       \/ PC = 62245 /\ Value < 3 /\ sfr[PSW] = 24 /\ sfr[A] = 6 * Value /\ Points0(62024)

Leaving(k) ==
    /\ PC = 62246 + 2 * k /\ Called /\ Saved(8 - k) /\ sfr[SP] = S + (10 - k)
    /\ Same({SP} \cup { Order[j] : j \in 1 .. 8 - k })

(* The jump table: handler h is called, and returns.                       *)
Working(h, n) == Framed(n) /\ Value = h /\ sfr[PSW] = 24
Choosing(h)   == PC = 62024 + 6 * h /\ Working(h, 10) /\ NotSignalled /\ Same(Free) /\ sfr[DP_TGL] = 0
Back(h)       == PC = 62027 + 6 * h /\ Framed(10) /\ Same(Free)

Handling(h, n) ==
    Working(h, n) /\ Slot(11) = Lo(62027 + 6 * h) /\ Slot(12) = Hi(62027 + 6 * h)

(* What has been dumped: the first n bytes of what handler h copies, the     *)
(* first n bytes of iram and the first k registers.                        *)
Source(h, a) == IF h = 2 THEN LowXram[a] ELSE Pmem(Bank(h), \h8000 + a)

Copied(h, n) == \A a \in 0 .. n - 1 : xram[AREA + a] = Source(h, a)

ByteSaved(a, b) ==
    /\ (a <= S /\ a \notin Counters) => b = iram0[a]
    /\ \A k \in 1 .. 8 : a = S + (2 + k) => b = sfr0[Order[k]]
IramSaved(n) == \A a \in 0 .. n - 1 : ByteSaved(a, xram[IRAM_AREA + a])

SfrsSaved(k) ==
    \A j \in 1 .. k :
        xram[SFR_AREA + (j - 1)] = IF SfrAddrs[j] = SP THEN S + 12 ELSE sfr0[SfrAddrs[j]]

Dumped(h) == /\ Copied(h, 256 * Blocks(h))
             /\ h = 2 => IramSaved(256) /\ SfrsSaved(8)

(* The handlers of the banks.                                              *)
BankPoint(h) ==
    /\ sfr[DP_TGL] = 0 /\ NotSignalled
    /\ \/ PC = HandlerStart(h) /\ Handling(h, 12) /\ Same(Free)
       \/ PC = HandlerStart(h) + 2 /\ Handling(h, 13) /\ Same(Free) /\ Slot(13) = sfr0[BANK]
       \/ /\ PC = HandlerStart(h) + 5 /\ Handling(h, 13) /\ Slot(13) = sfr0[BANK]
          /\ Same(Free \cup {BANK}) /\ sfr[BANK] = Bank(h)
       \/ /\ PC = HandlerStart(h) + 8 /\ Handling(h, 13) /\ Slot(13) = sfr0[BANK]
          /\ Same(Free \cup {BANK}) /\ Copied(h, 256 * Blocks(h))
       \/ /\ PC = HandlerStart(h) + 10 /\ Handling(h, 12) /\ Same(Free)
          /\ Copied(h, 256 * Blocks(h))

(* The last instruction of a handler, after the signal.                    *)
HandlerRet(h) == IF h < 2 THEN HandlerStart(h) + 13 ELSE 62023
Signaled(h)   == PC = HandlerRet(h) /\ Handling(h, 12) /\ Same(Free)

(* The handler of the data memories.                                       *)
RamPoint ==
    /\ NotSignalled /\ Handling(2, 12) /\ Same(Free)
    /\ \/ PC = 61980 /\ sfr[DP_TGL] = 0
       \/ PC = 61983 /\ sfr[DP_TGL] = 0 /\ Copied(2, 256 * XRAM_BLOCKS)
       \/ PC = 61986 /\ sfr[DP_TGL] = 0 /\ Copied(2, 256 * XRAM_BLOCKS) /\ IramSaved(256)
SfrPoint(k) ==
    /\ NotSignalled /\ Handling(2, 12) /\ Same(Free) /\ Copied(2, 256 * XRAM_BLOCKS) /\ IramSaved(256)
    /\ sfr[DP_TGL] = 0 /\ Points0(SFR_AREA + k)
    /\ \/ PC = 61989 + 4 * k /\ SfrsSaved(k)
       \/ /\ PC = 61991 + 4 * k /\ SfrsSaved(k)
          /\ sfr[A] = IF SfrAddrs[k + 1] = SP THEN S + 12 ELSE sfr0[SfrAddrs[k + 1]]
       \/ PC = 61992 + 4 * k /\ SfrsSaved(k + 1)

(* The signal.                                                             *)
Signalling(h) ==
    /\ Handling(h, 14) /\ Same(Free)
    /\ Slot(13) = Lo(HandlerRet(h)) /\ Slot(14) = Hi(HandlerRet(h))
    /\ \/ PC = 61793 /\ sfr[DP_TGL] = 0 /\ NotSignalled /\ Dumped(h)
       \/ PC = 61796 /\ sfr[DP_TGL] = 0 /\ NotSignalled /\ Dumped(h) /\ Points0(SIGNAL)
       \/ PC = 61798 /\ sfr[DP_TGL] = 0 /\ NotSignalled /\ Dumped(h) /\ Points0(SIGNAL) /\ sfr[A] = 255
       \/ PC = 61799

(* The function that copies from one data pointer to the other.            *)
CopyRet(h)   == IF h < 2 THEN HandlerStart(h) + 8 ELSE 61983
CopyDepth(h) == IF h < 2 THEN 13 ELSE 12

InCopy(h, n) ==
    /\ NotSignalled /\ Handling(h, CopyDepth(h) + n) /\ Same(Free \cup {BANK, IE})
    /\ Slot(CopyDepth(h) + 1) = Lo(CopyRet(h)) /\ Slot(CopyDepth(h) + 2) = Hi(CopyRet(h))
    /\ h < 2 => Slot(13) = sfr0[BANK] /\ sfr[BANK] = Bank(h)
    /\ h = 2 => sfr[BANK] = sfr0[BANK]
MidCopy(h) == InCopy(h, 3) /\ Slot(CopyDepth(h) + 3) = sfr0[IE]

CopyBegins(h) ==
    \/ PC = CopyStart(h) /\ InCopy(h, 2) /\ sfr[DP_TGL] = 0 /\ sfr[IE] = sfr0[IE]
    \/ /\ MidCopy(h)
       /\ \/ PC = CopyStart(h) + 2 /\ sfr[DP_TGL] = 0
          \/ PC = CopyStart(h) + 5 /\ sfr[DP_TGL] = 0
          \/ PC = CopyStart(h) + 8 /\ sfr[DP_TGL] = 0 /\ Points0(AREA)
          \/ PC = CopyStart(h) + 10 /\ sfr[DP_TGL] = 1 /\ Points0(AREA)
          \/ PC = CopyStart(h) + 13 /\ sfr[DP_TGL] = 1 /\ Points0(AREA) /\ Points1(From(h))

(* n bytes have been copied: i blocks and j bytes.                         *)
Reached(h, n) == Points0(AREA + n) /\ Points1(From(h) + n)
CopyBlock(h, z) ==
    /\ MidCopy(h) /\ iram[24] = Blocks(h) - z /\ Odd
    /\ \/ PC = CopyStart(h) + 15 /\ Reached(h, 256 * z) /\ Copied(h, 256 * z)
       \/ PC = CopyStart(h) + 28 /\ Reached(h, 256 * (z + 1)) /\ Copied(h, 256 * (z + 1))
CopyByte(h, z, j) ==
    LET n == 256 * z + j
    IN  /\ MidCopy(h) /\ iram[24] = Blocks(h) - z /\ iram[25] = (256 - j) % 256
        /\ \/ PC = CopyStart(h) + 17 /\ Odd /\ Reached(h, n) /\ Copied(h, n)
           \/ PC = CopyStart(h) + 18 /\ Odd /\ Reached(h, n) /\ Copied(h, n) /\ sfr[A] = 0
           \/ PC = CopyStart(h) + 19 /\ Odd /\ Reached(h, n) /\ Copied(h, n)
              /\ sfr[A] = Source(h, n)
           \/ PC = CopyStart(h) + 20 /\ Odd /\ Points0(AREA + n) /\ Points1(From(h) + (n + 1))
              /\ Copied(h, n) /\ sfr[A] = Source(h, n)
           \/ PC = CopyStart(h) + 22 /\ Even /\ Points0(AREA + n) /\ Points1(From(h) + (n + 1))
              /\ Copied(h, n) /\ sfr[A] = Source(h, n)
           \/ PC = CopyStart(h) + 23 /\ Even /\ Points0(AREA + n) /\ Points1(From(h) + (n + 1))
              /\ Copied(h, n + 1)
           \/ PC = CopyStart(h) + 24 /\ Even /\ Reached(h, n + 1) /\ Copied(h, n + 1)
           \/ PC = CopyStart(h) + 26 /\ Odd /\ Reached(h, n + 1) /\ Copied(h, n + 1)
CopyEnded(h) ==
    /\ Copied(h, 256 * Blocks(h))
    /\ \/ PC = CopyStart(h) + 30 /\ MidCopy(h)
       \/ PC = CopyStart(h) + 33 /\ MidCopy(h) /\ sfr[DP_TGL] = 0
       \/ PC = CopyStart(h) + 35 /\ InCopy(h, 2) /\ sfr[DP_TGL] = 0 /\ sfr[IE] = sfr0[IE]

(* The function that copies iram.                                          *)
InIram(n) ==
    /\ NotSignalled /\ Handling(2, 12 + n) /\ Slot(13) = Lo(61986) /\ Slot(14) = Hi(61986)
    /\ Same(Free \cup {IE}) /\ Copied(2, 256 * XRAM_BLOCKS)
MidIram == InIram(3) /\ Slot(15) = sfr0[IE]

IramBegins ==
    /\ sfr[DP_TGL] = 0
    /\ \/ PC = 61768 /\ InIram(2) /\ sfr[IE] = sfr0[IE]
       \/ PC = 61770 /\ MidIram
       \/ PC = 61773 /\ MidIram
       \/ PC = 61776 /\ MidIram /\ Points0(IRAM_AREA)
       \/ PC = 61778 /\ MidIram /\ Points0(IRAM_AREA) /\ iram[24] = 0
       \/ PC = 61780 /\ MidIram /\ Points0(IRAM_AREA) /\ iram[24] = 0 /\ iram[25] = 0
IramByte(n) ==
    /\ sfr[DP_TGL] = 0 /\ MidIram /\ iram[24] = (256 - n) % 256
    /\ \/ PC = 61781 /\ iram[25] = n /\ Points0(IRAM_AREA + n) /\ IramSaved(n)
       \/ PC = 61782 /\ iram[25] = n /\ Points0(IRAM_AREA + n) /\ IramSaved(n)
          /\ ByteSaved(n, sfr[A])
       \/ PC = 61783 /\ iram[25] = n /\ Points0(IRAM_AREA + n) /\ IramSaved(n + 1)
       \/ PC = 61784 /\ iram[25] = (n + 1) % 256 /\ Points0(IRAM_AREA + n) /\ IramSaved(n + 1)
       \/ PC = 61785 /\ iram[25] = (n + 1) % 256 /\ Points0(IRAM_AREA + (n + 1))
          /\ IramSaved(n + 1)
IramEnded ==
    /\ IramSaved(256)
    /\ \/ PC = 61787 /\ MidIram
       \/ PC = 61790 /\ MidIram /\ sfr[DP_TGL] = 0
       \/ PC = 61792 /\ InIram(2) /\ sfr[DP_TGL] = 0 /\ sfr[IE] = sfr0[IE]

HandlerPoint(h) ==
    \/ Choosing(h) \/ Back(h) \/ Signalling(h) \/ Signaled(h)
    \/ CopyBegins(h) \/ CopyEnded(h)
    \/ \E z \in 0 .. Blocks(h) - 1 : CopyBlock(h, z) \/ \E j \in 0 .. 255 : CopyByte(h, z, j)

Point ==
    \/ AtRest \/ Entered \/ Selecting \/ RamPoint \/ IramBegins \/ IramEnded
    \/ \E k \in 0 .. 7 : Entering(k)
    \/ \E k \in 0 .. 8 : Leaving(k)
    \/ \E h \in 0 .. 2 : HandlerPoint(h)
    \/ \E h \in 0 .. 1 : BankPoint(h)
    \/ \E k \in 0 .. 7 : SfrPoint(k)
    \/ \E n \in 0 .. 255 : IramByte(n)

HandlerIInv == Common /\ Point

-----------------------------------------------------------------------------
(***************************************************************************)
(* What instructions keep of that.                                         *)
(***************************************************************************)
LEMMA DataKept ==
    ASSUME Untouched, S' = S
    PROVE  /\ NotSignalled => NotSignalled'
           /\ Value' = Value
           /\ \A h, n : Copied(h, n) => Copied(h, n)'
           /\ \A n : IramSaved(n) => IramSaved(n)'
           /\ \A k : SfrsSaved(k) => SfrsSaved(k)'
           /\ \A h : Dumped(h) => Dumped(h)'
  <1> USE DEF Untouched
  <1>1. NotSignalled => NotSignalled'
    BY DEF NotSignalled
  <1>2. Value' = Value
    BY DEF Value
  <1>3. ASSUME NEW h, NEW n, Copied(h, n) PROVE Copied(h, n)'
    BY <1>3 DEF Copied, Source, Bank
  <1>4. ASSUME NEW n, IramSaved(n) PROVE IramSaved(n)'
    BY <1>4 DEF IramSaved, ByteSaved
  <1>5. ASSUME NEW k, SfrsSaved(k) PROVE SfrsSaved(k)'
    BY <1>5 DEF SfrsSaved
  <1>6. ASSUME NEW h, Dumped(h) PROVE Dumped(h)'
    BY <1>3, <1>4, <1>5, <1>6 DEF Dumped
  <1> QED BY <1>1, <1>2, <1>3, <1>4, <1>5, <1>6

LEMMA FrameKept ==
    ASSUME S' = S, sfr0' = sfr0, NEW m \in 2 .. 16, SlotsKept(m)
    PROVE  /\ Called => Called'
           /\ \A k \in 0 .. 8 : (2 + k <= m /\ Saved(k)) => Saved(k)'
           /\ \A d \in 1 .. m : Slot(d)' = Slot(d)
  <1>1. \A d \in 1 .. m : Slot(d)' = Slot(d)
    BY DEF SlotsKept
  <1>2. Called => Called'
    BY <1>1 DEF Called
  <1>3. ASSUME NEW k \in 0 .. 8, 2 + k <= m, Saved(k) PROVE Saved(k)'
    <2>1. ASSUME NEW j \in 1 .. k PROVE 2 + j \in 1 .. m
      BY <1>3, SMT
    <2> QED BY <1>1, <1>3, <2>1 DEF Saved
  <1> QED BY <1>1, <1>2, <1>3

LEMMA SameKept ==
    ASSUME sfr0' = sfr0, NEW X, OnlyRegs(X), NEW Y, X \subseteq Y, Same(Y)
    PROVE  Same(Y)'
  BY DEF OnlyRegs, Same

(* Registers that are not among those an instruction works on.             *)
LEMMA RegsKept ==
    ASSUME NEW X, OnlyRegs(X)
    PROVE  /\ A \notin X => sfr'[A] = sfr[A]
           /\ B \notin X => sfr'[B] = sfr[B]
           /\ PSW \notin X => sfr'[PSW] = sfr[PSW]
           /\ SP \notin X => sfr'[SP] = sfr[SP]
           /\ IE \notin X => sfr'[IE] = sfr[IE]
           /\ BANK \notin X => sfr'[BANK] = sfr[BANK]
           /\ DP_TGL \notin X => sfr'[DP_TGL] = sfr[DP_TGL]
           /\ DPH0 \notin X => sfr'[DPH0] = sfr[DPH0]
           /\ DPL0 \notin X => sfr'[DPL0] = sfr[DPL0]
           /\ DPH1 \notin X => sfr'[DPH1] = sfr[DPH1]
           /\ DPL1 \notin X => sfr'[DPL1] = sfr[DPL1]
  BY Registers DEF OnlyRegs

(* The stack pointer and PSW apart, all that a handler relies on.           *)
LEMMA SteadyKept ==
    ASSUME NEW X, Steady(X), SP \notin X
    PROVE  /\ Common' /\ Untouched /\ S' = S
           /\ \A n : Framed(n) => Framed(n)'
           /\ \A d \in 1 .. 16 : Slot(d)' = Slot(d)
           /\ PSW \notin X => \A h, n : /\ Working(h, n) => Working(h, n)'
                                        /\ Handling(h, n) => Handling(h, n)'
  <1>1. Common' /\ Untouched /\ S' = S /\ OnlyRegs(X) /\ SlotsKept(16) /\ sfr0' = sfr0
    BY DEF Steady, Untouched
  <1>2. sfr'[SP] = sfr[SP] /\ (PSW \notin X => sfr'[PSW] = sfr[PSW])
    BY <1>1, RegsKept
  <1>3. /\ Called => Called'
        /\ Saved(8) => Saved(8)'
        /\ \A d \in 1 .. 16 : Slot(d)' = Slot(d)
    BY <1>1, FrameKept, SMT
  <1>4. ASSUME NEW n, Framed(n) PROVE Framed(n)'
    BY <1>1, <1>2, <1>3, <1>4 DEF Framed
  <1>5. ASSUME NEW h, NEW n, PSW \notin X, Working(h, n) PROVE Working(h, n)'
    BY <1>1, <1>2, <1>4, <1>5, DataKept DEF Working
  <1>6. Slot(11)' = Slot(11) /\ Slot(12)' = Slot(12)
    BY <1>3, SMT
  <1>7. ASSUME NEW h, NEW n, PSW \notin X, Handling(h, n) PROVE Handling(h, n)'
    BY <1>5, <1>6, <1>7 DEF Handling
  <1> QED BY <1>1, <1>3, <1>4, <1>5, <1>7

(* Names of registers, apart.                                              *)
LEMMA Names ==
    /\ SP \notin {A, B, PSW, IE, BANK, DP_TGL, DPL0, DPH0, DPL1, DPH1}
    /\ PSW \notin {A, B, SP, IE, BANK, DP_TGL, DPL0, DPH0, DPL1, DPH1}
    /\ DP_TGL \notin {A, B, PSW, SP, IE, BANK, DPL0, DPH0, DPL1, DPH1}
    /\ A \notin {B, PSW, SP, IE, BANK, DP_TGL, DPL0, DPH0, DPL1, DPH1}
    /\ B \notin {A, PSW, SP, IE, BANK, DP_TGL, DPL0, DPH0, DPL1, DPH1}
    /\ IE \notin {A, B, PSW, SP, BANK, DP_TGL, DPL0, DPH0, DPL1, DPH1}
    /\ BANK \notin {A, B, PSW, SP, IE, DP_TGL, DPL0, DPH0, DPL1, DPH1}
    /\ DPH0 \notin {A, B, PSW, SP, IE, BANK, DP_TGL, DPL0, DPL1, DPH1}
    /\ DPL0 \notin {A, B, PSW, SP, IE, BANK, DP_TGL, DPH0, DPL1, DPH1}
    /\ DPH1 \notin {A, B, PSW, SP, IE, BANK, DP_TGL, DPL0, DPH0, DPL1}
    /\ DPL1 \notin {A, B, PSW, SP, IE, BANK, DP_TGL, DPL0, DPH0, DPH1}
  BY SMT DEF A, B, PSW, SP, IE, BANK, DP_TGL, DPL0, DPH0, DPL1, DPH1

LEMMA PushedRegs ==
    /\ Pushed = {A, B, DPH0, DPL0, DPH1, DPL1, DP_TGL, PSW}
    /\ Free = {A, B, DPH0, DPL0, DPH1, DPL1, DP_TGL, PSW, SP}
    /\ \A k \in 1 .. 8 : Order[k] \in Sfrs /\ Order[k] # SP
  <1>1. /\ Order[1] = A /\ Order[2] = B /\ Order[3] = DPH0 /\ Order[4] = DPL0
        /\ Order[5] = DPH1 /\ Order[6] = DPL1 /\ Order[7] = DP_TGL /\ Order[8] = PSW
    BY DEF Order
  <1>2. Pushed = {A, B, DPH0, DPL0, DPH1, DPL1, DP_TGL, PSW}
    <2>1. ASSUME NEW k \in 1 .. 8 PROVE Order[k] \in {A, B, DPH0, DPL0, DPH1, DPL1, DP_TGL, PSW}
      <3>1. k \in {1, 2, 3, 4, 5, 6, 7, 8}
        OBVIOUS
      <3> QED BY <1>1, <3>1
    <2>2. {1, 2, 3, 4, 5, 6, 7, 8} \subseteq 1 .. 8
      OBVIOUS
    <2> QED BY <1>1, <2>1, <2>2 DEF Pushed
  <1>3. ASSUME NEW k \in 1 .. 8 PROVE Order[k] \in Sfrs /\ Order[k] # SP
    <2>1. k \in {1, 2, 3, 4, 5, 6, 7, 8}
      OBVIOUS
    <2> QED BY <1>1, <2>1, Names, Registers
  <1> QED BY <1>2, <1>3 DEF Free

(* Instructions that compute.                                              *)
LEMMA ValueInIram ==
    ASSUME Common
    PROVE  Direct(PARAM_VALUE) = Value /\ Value \in 0 .. 255
  <1>1. /\ 111 \in 0 .. 255 /\ 111 \notin Counters
        /\ \A d \in 1 .. STACK_USE : 111 # S + d
    BY RoomFacts, SMT DEF Common, Counters, STACK_USE
  <1>2. iram[111] = iram0[111]
    BY <1>1 DEF Common, IramKept
  <1> QED BY <1>2, SMT DEF Direct, Value, PARAM_VALUE, Common, Domains

LEMMA Subtracts ==
    ASSUME Common, Step, Op = \h94
    PROVE  /\ Works(2, {A, PSW})
           /\ sfr'[PSW] = (sfr[PSW] % 128) +
                           (IF sfr[A] - Arg1 - (sfr[PSW] \div 128) < 0 THEN 128 ELSE 0)
  <1>v. PICK v : v = (sfr[A] - Arg1 - (sfr[PSW] \div 128)) % 256
    OBVIOUS
  <1>w. PICK w : w = (sfr[PSW] % 128) +
                     (IF sfr[A] - Arg1 - (sfr[PSW] \div 128) < 0 THEN 128 ELSE 0)
    OBVIOUS
  <1>1. sfr' = [sfr EXCEPT ![A] = v, ![PSW] = w]
    BY <1>v, <1>w, OpComputes, Names, SMT DEF Carry
  <1>2. PC' = PC + 2 /\ Untouched /\ iram' = iram
    BY OpComputes, SMT DEF Goes, Untouched
  <1>3. A \in Sfrs /\ PSW \in Sfrs /\ A # PSW /\ sfr = [s \in Sfrs |-> sfr[s]]
    BY Registers, Names DEF Common, Domains
  <1>4. OnlyRegs({A, PSW}) /\ sfr'[PSW] = w
    BY <1>1, <1>3 DEF OnlyRegs
  <1> QED BY <1>w, <1>2, <1>4, SteadySfrs DEF Works

LEMMA Multiplies ==
    ASSUME Common, Step, Op = \ha4
    PROVE  Works(1, {A, B, PSW}) /\ sfr'[PSW] = sfr[PSW] % 128 /\ sfr'[A] = Lo(sfr[A] * sfr[B])
  <1>u. PICK u : u = Lo(sfr[A] * sfr[B])
    OBVIOUS
  <1>v. PICK v : v = Hi(sfr[A] * sfr[B])
    OBVIOUS
  <1>w. PICK w : w = sfr[PSW] % 128
    OBVIOUS
  <1>1. sfr' = [sfr EXCEPT ![A] = u, ![B] = v, ![PSW] = w]
    BY <1>u, <1>v, <1>w, OpComputes, Names, SMT
  <1>2. PC' = PC + 1 /\ Untouched /\ iram' = iram
    BY OpComputes, SMT DEF Goes, Untouched
  <1>3. /\ A \in Sfrs /\ B \in Sfrs /\ PSW \in Sfrs /\ A # PSW /\ A # B /\ B # PSW
        /\ sfr = [s \in Sfrs |-> sfr[s]]
    BY Registers, Names DEF Common, Domains
  <1>4. OnlyRegs({A, B, PSW}) /\ sfr'[PSW] = w /\ sfr'[A] = u
    BY <1>1, <1>3 DEF OnlyRegs
  <1> QED BY <1>u, <1>w, <1>2, <1>4, SteadySfrs DEF Works

(* Jumps change nothing but the program counter.                           *)
LEMMA Jumps ==
    ASSUME Common, Step
    PROVE  /\ Op \in {\h50, \h02, \h73} => Steady({})
           /\ Op = \h50 => PC' = PC + 2 + (IF sfr[PSW] \div 128 = 0 THEN Relative(Arg1) ELSE 0)
           /\ Op = \h02 => PC' = 256 * Arg1 + Arg2
           /\ Op = \h73 => PC' = (sfr[A] + Dptr) % 65536
  <1>1. ASSUME Op \in {\h50, \h02, \h73} PROVE Steady({})
    <2>1. Untouched /\ iram' = iram /\ sfr' = sfr
      BY <1>1, OpJumps, SMT DEF Goes, Untouched
    <2>2. OnlyRegs({})
      BY <2>1 DEF OnlyRegs, Common, Domains
    <2> QED BY <2>1, <2>2, SteadySfrs
  <1> QED BY <1>1, OpJumps, SMT DEF Goes, Carry

(* The value is compared with the number of handlers: on to its entry, or out.*)
LEMMA SelectStep ==
    ASSUME Common, Step, Selecting
    PROVE  Common' /\ (Selecting' \/ (\E h \in 0 .. 2 : Choosing(h)') \/ Leaving(0)')
  <1>0. /\ NotSignalled /\ Framed(10) /\ Same(Free) /\ sfr[DP_TGL] = 0
        /\ Direct(PARAM_VALUE) = Value /\ Value \in 0 .. 255
    BY ValueInIram DEF Selecting
  (* Whatever registers that are pushed are worked on.                     *)
  <1>1. ASSUME NEW X, Steady(X), X \subseteq {A, B, PSW, DPH0, DPL0}
        PROVE  /\ Common' /\ NotSignalled' /\ Framed(10)' /\ Same(Free)' /\ sfr'[DP_TGL] = 0
               /\ Value' = Value
               /\ PSW \notin X => sfr'[PSW] = sfr[PSW]
               /\ A \notin X => sfr'[A] = sfr[A]
    <2>1. SP \notin X /\ DP_TGL \notin X /\ X \subseteq Free
      BY <1>1, Names, PushedRegs
    <2>2. OnlyRegs(X) /\ Untouched /\ S' = S /\ sfr0' = sfr0
      BY <1>1 DEF Steady, Untouched
    <2>3. Common' /\ Framed(10)'
      BY <1>0, <1>1, <2>1, SteadyKept
    <2>4. NotSignalled' /\ Value' = Value
      BY <1>0, <2>2, DataKept
    <2>5. Same(Free)'
      BY <1>0, <2>1, <2>2, SameKept
    <2> QED BY <1>0, <2>1, <2>2, <2>3, <2>4, <2>5, RegsKept
  <1>2. CASE PC = 62230 /\ sfr[PSW] = 24
    <2>1. Op = \he5 /\ Arg1 = PARAM_VALUE
      BY <1>2, MainListing, SMT DEF At1
    <2>2. Steady({A}) /\ sfr'[A] = Value /\ PC' = 62232
      BY <1>0, <1>2, <2>1, LoadsA, SMT DEF Works
    <2> QED BY <1>1, <1>2, <2>2, Names, SMT DEF Selecting
  <1>3. CASE PC = 62232 /\ sfr[PSW] = 24 /\ sfr[A] = Value
    <2>1. Op = \h94 /\ Arg1 = 3
      BY <1>3, MainListing, SMT DEF At1
    <2>2. Value - Arg1 - (24 \div 128) = Value - 3 /\ 24 % 128 = 24 /\ (Value - 3 < 0 <=> Value < 3)
      BY <1>0, <2>1, SMT
    <2>3. Steady({A, PSW}) /\ sfr'[PSW] = 24 + (IF Value < 3 THEN 128 ELSE 0) /\ PC' = 62234
      BY <1>3, <2>1, <2>2, Subtracts, SMT DEF Works
    <2> QED BY <1>1, <1>3, <2>3, Names, SMT DEF Selecting
  <1>4. CASE PC = 62234 /\ sfr[PSW] = 24 + (IF Value < 3 THEN 128 ELSE 0)
    <2>1. Op = \h50 /\ Arg1 = 10
      BY <1>4, MainListing, SMT DEF At1
    <2>2. /\ Steady({}) /\ PC' = IF Value < 3 THEN 62236 ELSE 62246
      BY <1>0, <1>4, <2>1, Jumps, SMT DEF Relative
    <2>3. Value < 3 => Selecting'
      BY <1>1, <1>4, <2>2, SMT DEF Selecting
    <2>4. ~(Value < 3) => Leaving(0)'
      <3>1. Common' /\ Framed(10)' /\ Same(Free)'
        BY <1>1, <2>2
      <3>2. Free = {SP} \cup { Order[j] : j \in 1 .. 8 - 0 }
        BY DEF Free, Pushed
      <3> QED BY <2>2, <3>1, <3>2, SMT DEF Leaving, Framed
    <2> QED BY <1>1, <2>2, <2>3, <2>4
  <1>5. CASE PC = 62236 /\ Value < 3 /\ sfr[PSW] = 152
    <2>1. Op = \he5 /\ Arg1 = PARAM_VALUE
      BY <1>5, MainListing, SMT DEF At1
    <2>2. Steady({A}) /\ sfr'[A] = Value /\ PC' = 62238
      BY <1>0, <1>5, <2>1, LoadsA, SMT DEF Works
    <2> QED BY <1>1, <1>5, <2>2, Names, SMT DEF Selecting
  <1>6. CASE PC = 62238 /\ Value < 3 /\ sfr[PSW] = 152 /\ sfr[A] = Value
    <2>1. Op = \h75 /\ Arg1 = B /\ Arg2 = 6
      BY <1>6, MainListing, SMT DEF At2
    <2>2. Steady({B}) /\ sfr'[B] = 6 /\ PC' = 62241
      BY <1>6, <2>1, SetSfr, Registers, SMT DEF Works
    <2> QED BY <1>1, <1>6, <2>2, Names, SMT DEF Selecting
  <1>7. CASE PC = 62241 /\ Value < 3 /\ sfr[PSW] = 152 /\ sfr[A] = Value /\ sfr[B] = 6
    <2>1. Op = \ha4
      BY <1>7, MainListing, SMT DEF At
    <2>2. Steady({A, B, PSW}) /\ sfr'[PSW] = 152 % 128 /\ sfr'[A] = Lo(Value * 6) /\ PC' = 62242
      BY <1>7, <2>1, Multiplies, SMT DEF Works
    <2>3. 152 % 128 = 24 /\ Lo(Value * 6) = 6 * Value
      BY <1>0, <1>7, SMT DEF Lo
    <2> QED BY <1>1, <1>7, <2>2, <2>3, Names, SMT DEF Selecting
  <1>8. CASE PC = 62242 /\ Value < 3 /\ sfr[PSW] = 24 /\ sfr[A] = 6 * Value
    <2>1. Op = \h90 /\ Arg1 = Hi(62024) /\ Arg2 = Lo(62024)
      BY <1>8, MainListing, SMT DEF At2
    <2>2. Even /\ 256 * Hi(62024) + Lo(62024) = 62024
      BY <1>0, HiLo, SMT DEF Even
    <2>3. Steady({DPH0, DPL0}) /\ Points0(62024)' /\ PC' = 62245
      BY <1>8, <2>1, <2>2, MovesDptr, SMT DEF Works, Points0
    <2> QED BY <1>1, <1>8, <2>3, Names, SMT DEF Selecting
  <1>9. CASE PC = 62245 /\ Value < 3 /\ sfr[PSW] = 24 /\ sfr[A] = 6 * Value /\ Points0(62024)
    <2>1. Op = \h73
      BY <1>9, MainListing, SMT DEF At
    <2>2. Even
      BY <1>0, SMT DEF Even
    <2>3. Steady({}) /\ PC' = 62024 + 6 * Value
      BY <1>0, <1>9, <2>1, <2>2, Jumps, DptrIs, SMT
    <2>4. Value \in 0 .. 2
      BY <1>0, <1>9, SMT
    <2> QED BY <1>1, <1>9, <2>3, <2>4, SMT DEF Choosing, Working
  <1> QED BY <1>2, <1>3, <1>4, <1>5, <1>6, <1>7, <1>8, <1>9 DEF Selecting

-----------------------------------------------------------------------------
(***************************************************************************)
(* The main entry and exit, step by step.                                  *)
(***************************************************************************)
(* The firmware at rest calls the main entry, its return address on the stack.*)
LEMMA TriggerStep ==
    ASSUME Common, AtRest, Trigger
    PROVE  Common' /\ Entering(0)'
  <1>1. PICK v \in Values :
            /\ iram0' = [iram EXCEPT ![PARAM_VALUE] = v]
            /\ iram' = [iram0' EXCEPT ![sfr[SP] + 1] = Lo(MAIN_LOOP), ![sfr[SP] + 2] = Hi(MAIN_LOOP)]
    BY DEF Trigger
  <1>2. /\ sfr0' = sfr /\ sfr' = [sfr EXCEPT ![SP] = @ + 2] /\ xram' = [xram EXCEPT ![SIGNAL] = 0]
        /\ sfr = sfr0 /\ S' = S /\ S = sfr[SP] /\ sfr'[SP] = S + 2
    <2>1. /\ sfr0' = sfr /\ sfr' = [sfr EXCEPT ![SP] = @ + 2] /\ xram' = [xram EXCEPT ![SIGNAL] = 0]
          /\ sfr = sfr0 /\ S' = S /\ S = sfr[SP]
      BY DEF Trigger, AtRest, S
    <2>2. SP \in Sfrs /\ sfr = [s \in Sfrs |-> sfr[s]] /\ S \in 0 .. 255
      BY Registers, RoomFacts DEF Common, Domains
    <2>3. sfr'[SP] = S + 2
      BY <2>1, <2>2
    <2> QED BY <2>1, <2>2, <2>3
  <1>3. NotSignalled' /\ (\A a \in DataAddr : a # SIGNAL => xram'[a] = xram[a]) /\ DOMAIN xram' = DataAddr
    BY <1>2 DEF NotSignalled, Common, Domains, DataAddr
  <1>4. SignalMeansDumped' /\ SavedIsStateAtRest'
    BY <1>3, SMT DEF NotSignalled, SignalMeansDumped, SavedIsStateAtRest, Signalled
  <1>5. LowKept'
    <2>1. SIGNAL \notin LowAddr
      BY BlocksAssumption, SMT DEF SIGNAL, LowAddr
    <2> QED BY <1>3, <2>1 DEF Common, LowKept, DataAddr
  <1>6. Room'
    BY <1>2 DEF Common, Room
  <1>7. /\ S \in 0 .. 255 /\ S + 1 \in 0 .. 255 /\ S + 2 \in 0 .. 255
        /\ S + 1 # 111 /\ S + 2 # 111 /\ 111 \in 0 .. 255 /\ Room
    BY RoomFacts, SMT DEF Common
  <1>8. /\ DOMAIN iram' = 0 .. 255 /\ DOMAIN iram0' = 0 .. 255 /\ iram0'[111] = v
        /\ iram'[S + 1] = Lo(MAIN_LOOP) /\ iram'[S + 2] = Hi(MAIN_LOOP)
        /\ \A a \in 0 .. 255 : (a # S + 1 /\ a # S + 2) => iram'[a] = iram0'[a]
    <2>1. iram' = [iram0' EXCEPT ![S + 1] = Lo(MAIN_LOOP), ![S + 2] = Hi(MAIN_LOOP)]
      BY <1>1, <1>2
    <2>2. iram0' = [iram EXCEPT ![111] = v] /\ DOMAIN iram = 0 .. 255
      BY <1>1 DEF Common, Domains, PARAM_VALUE
    <2>3. S + 1 # S + 2
      BY <1>7
    <2> QED BY <1>7, <2>1, <2>2, <2>3
  <1>9. IramKept'
    <2>1. 1 \in 1 .. STACK_USE /\ 2 \in 1 .. STACK_USE
      BY SMT DEF STACK_USE
    <2> QED BY <1>2, <1>8, <2>1 DEF IramKept
  <1>10. v \in 0 .. 255
    BY HandlerAssumption
  <1>11. /\ sfr' = [s \in Sfrs |-> sfr'[s]] /\ sfr'[SP] = S + 2
         /\ \A s \in Sfrs : s # SP => sfr'[s] = sfr[s]
    <2>1. SP \in Sfrs /\ sfr = [s \in Sfrs |-> sfr[s]]
      BY Registers DEF Common, Domains
    <2> QED BY <1>2, <2>1
  <1>12. Domains'
    BY <1>2, <1>3, <1>8, <1>10, <1>11 DEF Common, Domains, Value, PARAM_VALUE
  <1>13. PC' = 62208 + 2 * 0
    BY HookCode, HiLo, SMT DEF Trigger
  <1>14. Called' /\ Saved(0)' /\ Same({SP})'
    BY <1>2, <1>8, <1>11 DEF Called, Saved, Same, Slot
  <1>15. sfr'[SP] = S' + (2 + 0)
    BY <1>2, <1>11
  <1>16. Common'
    BY <1>4, <1>5, <1>6, <1>9, <1>12 DEF Common
  <1> QED BY <1>3, <1>13, <1>14, <1>15, <1>16 DEF Entering

(* The registers are pushed one after the other.                           *)
LEMMA EnterStep ==
    ASSUME Common, Step, NEW k \in 0 .. 7, Entering(k)
    PROVE  Common' /\ ((\E j \in 0 .. 7 : Entering(j)') \/ Entered')
  <1>0. /\ PC = 62208 + 2 * k /\ NotSignalled /\ Called /\ Saved(k) /\ sfr[SP] = S + (2 + k) /\ Same({SP})
    BY DEF Entering
  <1>1. CASE k \in 0 .. 6
    <2>1. Op = \hc0 /\ Arg1 = Order[k + 1]
      BY <1>0, <1>1, PushListing, SMT DEF At1
    <2>2. k + 1 \in 1 .. 8 /\ 2 + k \in 0 .. 15 /\ 2 + k \in 2 .. 16 /\ k + 1 \in 0 .. 7
      BY <1>1
    <2>3. Order[k + 1] \in Sfrs /\ Order[k + 1] # SP
      BY <2>2, PushedRegs
    <2>4. Direct(Arg1) = sfr0[Order[k + 1]]
      BY <1>0, <2>1, <2>3, Registers, SMT DEF Direct, Same
    <2>5. /\ Common' /\ Untouched /\ S' = S /\ SlotsKept(2 + k) /\ OnlyRegs({SP})
          /\ Slot((2 + k) + 1)' = sfr0[Order[k + 1]] /\ sfr'[SP] = S + ((2 + k) + 1) /\ PC' = PC + 2
      BY <1>0, <2>1, <2>2, <2>4, Pushes
    <2>6. sfr0' = sfr0 /\ NotSignalled'
      BY <1>0, <2>5, DataKept DEF Untouched
    <2>7. Called' /\ Saved(k)'
      BY <1>0, <2>2, <2>5, <2>6, FrameKept
    <2>8. Saved(k + 1)'
      <3>1. ASSUME NEW j \in 1 .. k + 1 PROVE Slot(2 + j)' = sfr0'[Order[j]]
        <4>1. CASE j = k + 1
          BY <2>5, <2>6, <4>1
        <4>2. CASE j \in 1 .. k
          BY <2>7, <4>2 DEF Saved
        <4> QED BY <4>1, <4>2
      <3> QED BY <3>1 DEF Saved
    <2>9. Same({SP})'
      BY <1>0, <2>5, <2>6, SameKept
    <2>10. Entering(k + 1)'
      BY <1>0, <2>5, <2>6, <2>7, <2>8, <2>9, SMT DEF Entering
    <2> QED BY <2>2, <2>5, <2>10
  <1>2. CASE k = 7
    <2>1. Op = \h75 /\ Arg1 = DP_TGL /\ Arg2 = 0
      BY <1>0, <1>2, MainListing, SMT DEF At2
    <2>2. Steady({DP_TGL}) /\ sfr'[DP_TGL] = 0 /\ PC' = 62225
      BY <1>0, <1>2, <2>1, SetSfr, Registers, SMT DEF Works
    <2>3. Common' /\ Untouched /\ S' = S /\ SlotsKept(16) /\ OnlyRegs({DP_TGL}) /\ sfr0' = sfr0
      BY <2>2 DEF Steady, Untouched
    <2>4. NotSignalled' /\ Called' /\ Saved(7)'
      BY <1>0, <1>2, <2>3, DataKept, FrameKept, SMT
    <2>5. sfr'[SP] = S' + 9
      BY <1>0, <1>2, <2>3, RegsKept, Names, SMT
    <2>6. Same({SP, DP_TGL})'
      <3>1. Same({SP, DP_TGL})
        BY <1>0 DEF Same
      <3> QED BY <2>3, <3>1, SameKept
    <2> QED BY <2>2, <2>3, <2>4, <2>5, <2>6 DEF Entered
  <1> QED BY <1>1, <1>2

(* Then the bank of the counters is chosen and the value compared.         *)
LEMMA EnteredStep ==
    ASSUME Common, Step, Entered
    PROVE  Common' /\ (Entered' \/ Selecting')
  <1>0. NotSignalled /\ Called /\ Same({SP, DP_TGL}) /\ sfr[DP_TGL] = 0
    BY DEF Entered
  <1>1. CASE PC = 62225 /\ Saved(7) /\ sfr[SP] = S + 9
    <2>1. Op = \hc0 /\ Arg1 = PSW
      BY <1>1, MainListing, SMT DEF At1
    <2>2. Direct(Arg1) = sfr0[PSW]
      BY <1>0, <2>1, Registers, Names, SMT DEF Direct, Same
    <2>3. /\ Common' /\ Untouched /\ S' = S /\ SlotsKept(9) /\ OnlyRegs({SP})
          /\ Slot(9 + 1)' = sfr0[PSW] /\ sfr'[SP] = S + (9 + 1) /\ PC' = PC + 2
      BY <1>1, <2>1, <2>2, Pushes, SMT
    <2>4. sfr0' = sfr0 /\ NotSignalled'
      BY <1>0, <2>3, DataKept DEF Untouched
    <2>5. Called' /\ Saved(7)'
      BY <1>0, <1>1, <2>3, <2>4, FrameKept, SMT
    <2>6. Saved(8)'
      <3>1. Order[8] = PSW
        BY DEF Order
      <3>2. ASSUME NEW j \in 1 .. 8 PROVE Slot(2 + j)' = sfr0'[Order[j]]
        <4>1. CASE j = 8
          BY <2>3, <2>4, <3>1, <4>1
        <4>2. CASE j \in 1 .. 7
          BY <2>5, <4>2 DEF Saved
        <4> QED BY <4>1, <4>2
      <3> QED BY <3>2 DEF Saved
    <2>7. Same({SP, DP_TGL})' /\ sfr'[DP_TGL] = 0
      BY <1>0, <2>3, <2>4, SameKept, RegsKept, Names
    <2> QED BY <1>1, <2>3, <2>4, <2>5, <2>6, <2>7, SMT DEF Entered
  <1>2. CASE PC = 62227 /\ Saved(8) /\ sfr[SP] = S + 10
    <2>1. Op = \h75 /\ Arg1 = PSW /\ Arg2 = 24
      BY <1>2, MainListing, SMT DEF At2
    <2>2. Steady({PSW}) /\ sfr'[PSW] = 24 /\ PC' = 62230
      BY <1>2, <2>1, SetSfr, Registers, SMT DEF Works
    <2>3. Common' /\ Untouched /\ S' = S /\ OnlyRegs({PSW}) /\ sfr0' = sfr0
      BY <2>2 DEF Steady, Untouched
    <2>4. Framed(10)' /\ NotSignalled'
      <3>1. Framed(10) /\ SP \notin {PSW}
        BY <1>0, <1>2, Names DEF Framed
      <3> QED BY <1>0, <2>2, <2>3, <3>1, SteadyKept, DataKept
    <2>5. Same(Free)'
      <3>1. Same(Free) /\ {PSW} \subseteq Free
        BY <1>0, PushedRegs DEF Same
      <3> QED BY <2>3, <3>1, SameKept
    <2>6. sfr'[DP_TGL] = 0
      BY <1>0, <2>3, RegsKept, Names
    <2> QED BY <2>2, <2>3, <2>4, <2>5, <2>6 DEF Selecting
  <1> QED BY <1>1, <1>2 DEF Entered

(* They are popped in the opposite order, and the firmware goes on.        *)
LEMMA LeaveStep ==
    ASSUME Common, Step, NEW k \in 0 .. 8, Leaving(k)
    PROVE  Common' /\ ((\E j \in 0 .. 8 : Leaving(j)') \/ AtRest')
  <1>0. /\ PC = 62246 + 2 * k /\ Called /\ Saved(8 - k) /\ sfr[SP] = S + (10 - k)
        /\ Same({SP} \cup { Order[j] : j \in 1 .. 8 - k })
    BY DEF Leaving
  <1>1. CASE k \in 0 .. 7
    <2>1. Op = \hd0 /\ Arg1 = Order[8 - k]
      BY <1>0, <1>1, ExitListing, SMT DEF At1
    <2>2. 8 - k \in 1 .. 8 /\ 10 - k \in 1 .. 16 /\ k + 1 \in 0 .. 8
      BY <1>1
    <2>3. Order[8 - k] \in Sfrs /\ Order[8 - k] # SP
      BY <2>2, PushedRegs
    <2>4. /\ Works(2, {SP, Order[8 - k]}) /\ sfr'[SP] = S + ((10 - k) - 1)
          /\ sfr'[Order[8 - k]] = Slot(10 - k)
      <3>1. PICK n \in 1 .. 16 : n = 10 - k
        BY <2>2
      <3>2. PICK r \in Sfrs : r = Order[8 - k]
        BY <2>3
      <3>3. sfr[SP] = S + (10 - k)
        BY <1>0
      <3>4. Op = \hd0 /\ Arg1 = r /\ r # SP
        BY <2>1, <2>3, <3>2
      <3>5. sfr[SP] = S + n
        BY <3>1, <3>3
      <3>6. Works(2, {SP, r}) /\ sfr'[SP] = S + (n - 1) /\ sfr'[r] = Slot(n)
        BY <3>4, <3>5, Pops
      <3> QED BY <3>1, <3>2, <3>6
    <2>5. Slot(10 - k) = sfr0[Order[8 - k]]
      <3>1. 10 - k = 2 + (8 - k) /\ 8 - k \in 1 .. 8 - k
        BY <2>2
      <3> QED BY <1>0, <3>1 DEF Saved
    <2>6. /\ Common' /\ Untouched /\ S' = S /\ SlotsKept(16) /\ sfr0' = sfr0
          /\ OnlyRegs({SP, Order[8 - k]}) /\ PC' = PC + 2
      BY <2>4 DEF Works, Steady, Untouched
    <2>7. Called' /\ Saved(8 - (k + 1))'
      <3>1. Called' /\ Saved(8 - k)'
        BY <1>0, <2>2, <2>6, FrameKept, SMT
      <3>2. \A j \in 1 .. 8 - (k + 1) : j \in 1 .. 8 - k
        OBVIOUS
      <3> QED BY <3>1, <3>2 DEF Saved
    <2>8. Same({SP} \cup { Order[j] : j \in 1 .. 8 - (k + 1) })'
      <3>1. ASSUME NEW s \in Sfrs, s \notin {SP} \cup { Order[j] : j \in 1 .. 8 - (k + 1) }
            PROVE  sfr'[s] = sfr0'[s]
        <4>1. CASE s = Order[8 - k]
          BY <2>4, <2>5, <2>6, <4>1
        <4>2. CASE s # Order[8 - k]
          <5>1. \A j \in 1 .. 8 - k : j = 8 - k \/ j \in 1 .. 8 - (k + 1)
            OBVIOUS
          <5>2. s \notin {SP} \cup { Order[j] : j \in 1 .. 8 - k } /\ s \notin {SP, Order[8 - k]}
            BY <3>1, <4>2, <5>1
          <5> QED BY <1>0, <2>6, <5>2 DEF Same, OnlyRegs
        <4> QED BY <4>1, <4>2
      <3> QED BY <3>1 DEF Same
    <2>9. Leaving(k + 1)'
      BY <1>0, <2>4, <2>6, <2>7, <2>8, RoomFacts, SMT DEF Leaving, Common
    <2> QED BY <2>2, <2>6, <2>9
  <1>2. CASE k = 8
    <2>1. Op = \h22
      BY <1>0, <1>2, ExitListing, SMT DEF At
    <2>2. sfr[SP] = S + 2 /\ 2 \in 2 .. 16
      BY <1>0, <1>2
    <2>3. Steady({SP}) /\ sfr'[SP] = S + (2 - 2) /\ PC' = 256 * Slot(2) + Slot(2 - 1)
      BY <2>1, <2>2, Returns
    <2>4. PC' = 31385
      BY <1>0, <2>3, HiLo, SMT DEF Called, MAIN_LOOP
    <2>5. sfr'[SP] = S
      BY <2>3, RoomFacts DEF Common
    <2>6. Common' /\ sfr0' = sfr0 /\ OnlyRegs({SP})
      BY <2>3 DEF Steady, Untouched
    <2>7. ASSUME NEW s \in Sfrs PROVE sfr'[s] = sfr0'[s]
      <3>1. CASE s = SP
        BY <2>5, <2>6, <3>1 DEF S
      <3>2. CASE s # SP
        <4>1. s \notin {SP} \cup { Order[j] : j \in 1 .. 8 - k }
          BY <1>2, <3>2
        <4> QED BY <1>0, <2>6, <3>2, <4>1 DEF Same, OnlyRegs
      <3> QED BY <3>1, <3>2
    <2>8. sfr' = sfr0'
      BY <2>6, <2>7 DEF OnlyRegs, Common, Domains
    <2> QED BY <2>4, <2>6, <2>8 DEF AtRest
  <1> QED BY <1>1, <1>2

-----------------------------------------------------------------------------
(***************************************************************************)
(* The jump table and the handlers, step by step.                          *)
(***************************************************************************)
(* A call puts the address behind it on the stack, a return goes there.     *)
LEMMA CallKept ==
    ASSUME Common, Step, Op = \h12, NEW n \in 10 .. 14, Framed(n),
           NEW to \in Nat, Arg1 = Hi(to), Arg2 = Lo(to), NEW Y, SP \in Y, Same(Y)
    PROVE  /\ Common' /\ Untouched /\ S' = S /\ Framed(n + 2)' /\ PC' = to /\ Same(Y)'
           /\ Slot(n + 1)' = Lo(PC + 3) /\ Slot(n + 2)' = Hi(PC + 3)
           /\ \A d \in 1 .. n : Slot(d)' = Slot(d)
           /\ sfr'[PSW] = sfr[PSW] /\ sfr'[DP_TGL] = sfr[DP_TGL]
           /\ sfr'[BANK] = sfr[BANK] /\ sfr'[IE] = sfr[IE]
  <1>1. n \in 0 .. 14 /\ n \in 2 .. 16 /\ sfr[SP] = S + n /\ Called /\ Saved(8)
    BY DEF Framed
  <1>2. /\ Common' /\ Untouched /\ S' = S /\ SlotsKept(n) /\ OnlyRegs({SP})
        /\ Slot(n + 1)' = Lo(PC + 3) /\ Slot(n + 2)' = Hi(PC + 3)
        /\ sfr'[SP] = S + (n + 2) /\ PC' = 256 * Arg1 + Arg2
    BY <1>1, Calls
  <1>3. PC' = to
    BY <1>2, HiLo
  <1>4. sfr0' = sfr0 /\ {SP} \subseteq Y
    BY <1>2 DEF Untouched
  <1>5. Called' /\ Saved(8)' /\ \A d \in 1 .. n : Slot(d)' = Slot(d)
    BY <1>1, <1>2, <1>4, FrameKept, SMT
  <1>6. Same(Y)'
    BY <1>2, <1>4, SameKept
  <1> QED BY <1>2, <1>3, <1>5, <1>6, RegsKept, Names DEF Framed

LEMMA ReturnKept ==
    ASSUME Common, Step, Op = \h22, NEW n \in 12 .. 16, Framed(n),
           NEW to \in Nat, Slot(n - 1) = Lo(to), Slot(n) = Hi(to), NEW Y, SP \in Y, Same(Y)
    PROVE  /\ Common' /\ Untouched /\ S' = S /\ Framed(n - 2)' /\ PC' = to /\ Same(Y)'
           /\ \A d \in 1 .. 16 : Slot(d)' = Slot(d)
           /\ sfr'[PSW] = sfr[PSW] /\ sfr'[DP_TGL] = sfr[DP_TGL]
           /\ sfr'[BANK] = sfr[BANK] /\ sfr'[IE] = sfr[IE]
  <1>1. n \in 2 .. 16 /\ sfr[SP] = S + n /\ Called /\ Saved(8)
    BY DEF Framed
  <1>2. Steady({SP}) /\ sfr'[SP] = S + (n - 2) /\ PC' = 256 * Slot(n) + Slot(n - 1)
    BY <1>1, Returns
  <1>3. PC' = to
    BY <1>2, HiLo
  <1>4. /\ Common' /\ Untouched /\ S' = S /\ OnlyRegs({SP}) /\ SlotsKept(16)
        /\ sfr0' = sfr0 /\ {SP} \subseteq Y
    BY <1>2 DEF Steady, Untouched
  <1>5. Called' /\ Saved(8)' /\ \A d \in 1 .. 16 : Slot(d)' = Slot(d)
    BY <1>1, <1>4, FrameKept, SMT
  <1>6. Same(Y)'
    BY <1>4, SameKept
  <1> QED BY <1>2, <1>3, <1>4, <1>5, <1>6, RegsKept, Names DEF Framed

(* The jump table calls the handler of the value.                          *)
LEMMA ChooseStep ==
    ASSUME Common, Step, NEW h \in 0 .. 2, Choosing(h)
    PROVE  Common' /\ (h < 2 => BankPoint(h)') /\ (h = 2 => RamPoint')
  <1>1. /\ PC = 62024 + 6 * h /\ Framed(10) /\ Value = h /\ sfr[PSW] = 24 /\ NotSignalled /\ Same(Free)
        /\ sfr[DP_TGL] = 0
    BY DEF Choosing, Working
  <1>2. HandlerStart(h) \in Nat /\ (h = 2 => HandlerStart(h) = 61980)
    BY DEF HandlerStart
  <1>3. Op = \h12 /\ Arg1 = Hi(HandlerStart(h)) /\ Arg2 = Lo(HandlerStart(h))
    BY <1>1, TableListing DEF At2
  <1>4. SP \in Free
    BY DEF Free
  <1>5. /\ Common' /\ Untouched /\ S' = S /\ Framed(10 + 2)' /\ PC' = HandlerStart(h)
        /\ Same(Free)' /\ Slot(10 + 1)' = Lo(PC + 3) /\ Slot(10 + 2)' = Hi(PC + 3)
        /\ sfr'[PSW] = sfr[PSW] /\ sfr'[DP_TGL] = sfr[DP_TGL]
    BY <1>1, <1>2, <1>3, <1>4, CallKept, 10 \in 10 .. 14
  <1>6. NotSignalled' /\ Value' = h
    BY <1>1, <1>5, DataKept
  <1>7. Handling(h, 12)'
    <2>1. PC + 3 = 62027 + 6 * h
      BY <1>1
    <2>2. Framed(12)' /\ sfr'[PSW] = 24
      BY <1>1, <1>5
    <2>3. Slot(11)' = Lo(62027 + 6 * h) /\ Slot(12)' = Hi(62027 + 6 * h)
      BY <1>5, <2>1
    <2> QED BY <1>6, <2>2, <2>3 DEF Handling, Working
  <1> QED BY <1>1, <1>2, <1>5, <1>6, <1>7 DEF BankPoint, RamPoint

(* A handler that returned leads to the exit.                              *)
LEMMA BackStep ==
    ASSUME Common, Step, NEW h \in 0 .. 2, Back(h)
    PROVE  Common' /\ Leaving(0)'
  <1>1. PC = 62027 + 6 * h /\ Framed(10) /\ Same(Free)
    BY DEF Back
  <1>2. Op = \h02 /\ Arg1 = Hi(62246) /\ Arg2 = Lo(62246)
    BY <1>1, TableListing DEF At2
  <1>3. Steady({}) /\ PC' = 62246
    BY <1>2, Jumps, HiLo, SMT
  <1>4. Common' /\ Untouched /\ S' = S /\ OnlyRegs({}) /\ sfr0' = sfr0
    BY <1>3 DEF Steady, Untouched
  <1>5. Framed(10)'
    BY <1>1, <1>3, SteadyKept
  <1>6. Same(Free)'
    BY <1>1, <1>4, SameKept
  <1>7. Free = {SP} \cup { Order[j] : j \in 1 .. 8 - 0 }
    BY DEF Free, Pushed
  <1> QED BY <1>3, <1>4, <1>5, <1>6, <1>7, SMT DEF Leaving, Framed

(* The same for a register that is pushed and popped.                      *)
LEMMA PushKept ==
    ASSUME Common, Step, Op = \hc0, NEW n \in 10 .. 15, Framed(n), NEW r \in Sfrs, Arg1 = r,
           NEW Y, SP \in Y, Same(Y)
    PROVE  /\ Common' /\ Untouched /\ S' = S /\ Framed(n + 1)' /\ PC' = PC + 2 /\ Same(Y)'
           /\ Slot(n + 1)' = sfr[r] /\ \A d \in 1 .. n : Slot(d)' = Slot(d)
           /\ sfr'[PSW] = sfr[PSW] /\ sfr'[DP_TGL] = sfr[DP_TGL]
           /\ sfr'[BANK] = sfr[BANK] /\ sfr'[IE] = sfr[IE]
  <1>1. n \in 0 .. 15 /\ n \in 2 .. 16 /\ sfr[SP] = S + n /\ Called /\ Saved(8)
    BY DEF Framed
  <1>2. /\ Common' /\ Untouched /\ S' = S /\ SlotsKept(n) /\ OnlyRegs({SP})
        /\ Slot(n + 1)' = Direct(Arg1) /\ sfr'[SP] = S + (n + 1) /\ PC' = PC + 2
    BY <1>1, Pushes
  <1>3. Direct(Arg1) = sfr[r]
    BY Registers, SMT DEF Direct
  <1>4. sfr0' = sfr0 /\ {SP} \subseteq Y
    BY <1>2 DEF Untouched
  <1>5. Called' /\ Saved(8)' /\ \A d \in 1 .. n : Slot(d)' = Slot(d)
    BY <1>1, <1>2, <1>4, FrameKept, SMT
  <1>6. Same(Y)'
    BY <1>2, <1>4, SameKept
  <1> QED BY <1>2, <1>3, <1>5, <1>6, RegsKept, Names DEF Framed

LEMMA PopKept ==
    ASSUME Common, Step, Op = \hd0, NEW n \in 11 .. 16, Framed(n), NEW r \in {BANK, IE}, Arg1 = r,
           Slot(n) = sfr0[r], NEW Y, SP \in Y, Same(Y)
    PROVE  /\ Common' /\ Untouched /\ S' = S /\ Framed(n - 1)' /\ PC' = PC + 2 /\ Same(Y \ {r})'
           /\ sfr'[r] = sfr0[r] /\ \A d \in 1 .. 16 : Slot(d)' = Slot(d)
           /\ sfr'[PSW] = sfr[PSW] /\ sfr'[DP_TGL] = sfr[DP_TGL]
           /\ r = IE => sfr'[BANK] = sfr[BANK]
  <1>1. n \in 1 .. 16 /\ sfr[SP] = S + n /\ Called /\ Saved(8)
    BY DEF Framed
  <1>2. r \in Sfrs /\ r # SP
    BY Registers, Names
  <1>3. Works(2, {SP, r}) /\ sfr'[SP] = S + (n - 1) /\ sfr'[r] = Slot(n)
    BY <1>1, <1>2, Pops
  <1>4. /\ Common' /\ Untouched /\ S' = S /\ OnlyRegs({SP, r}) /\ SlotsKept(16)
        /\ sfr0' = sfr0 /\ PC' = PC + 2
    BY <1>3 DEF Works, Steady, Untouched
  <1>5. Called' /\ Saved(8)' /\ \A d \in 1 .. 16 : Slot(d)' = Slot(d)
    BY <1>1, <1>4, FrameKept, SMT
  <1>6. Same(Y \ {r})'
    BY <1>3, <1>4 DEF Same, OnlyRegs
  <1>7. /\ sfr'[PSW] = sfr[PSW] /\ sfr'[DP_TGL] = sfr[DP_TGL]
        /\ r = IE => sfr'[BANK] = sfr[BANK]
    BY <1>4, RegsKept, Names
  <1> QED BY <1>3, <1>4, <1>5, <1>6, <1>7 DEF Framed

LEMMA HandlingKept ==
    ASSUME NEW h, NEW n, Handling(h, n), Untouched, S' = S, NEW m, Framed(m)', sfr'[PSW] = sfr[PSW],
           Slot(11)' = Slot(11), Slot(12)' = Slot(12)
    PROVE  Handling(h, m)'
  BY DataKept DEF Handling, Working

LEMMA HandlingFrames ==
    ASSUME NEW h, NEW n, Handling(h, n)
    PROVE  Framed(n) /\ Value = h /\ sfr[PSW] = 24 /\ Working(h, n)
  BY DEF Handling, Working

(* A handler of a bank: the bank is chosen before the copy and restored after it.*)
LEMMA BankStep ==
    ASSUME Common, Step, NEW h \in 0 .. 1, BankPoint(h)
    PROVE  Common' /\ (BankPoint(h)' \/ CopyBegins(h)' \/ Signalling(h)')
  <1>0. /\ sfr[DP_TGL] = 0 /\ NotSignalled /\ HandlerStart(h) \in Nat /\ h < 2 /\ h # 2 /\ h \in 0 .. 2
        /\ SP \in Free /\ SP \in Free \cup {BANK} /\ BANK \in Sfrs /\ BANK \notin Free
    BY Registers, PushedRegs, Names DEF BankPoint, HandlerStart, Free
  <1>1. CASE PC = HandlerStart(h) /\ Handling(h, 12) /\ Same(Free)
    <2>1. Op = \hc0 /\ Arg1 = BANK
      BY <1>1, BankListing DEF At1
    <2>2. Framed(12) /\ 12 \in 10 .. 15 /\ sfr[BANK] = sfr0[BANK]
      BY <1>0, <1>1, HandlingFrames DEF Same
    <2>3. /\ Common' /\ Untouched /\ S' = S /\ Framed(12 + 1)' /\ PC' = PC + 2 /\ Same(Free)'
          /\ Slot(12 + 1)' = sfr[BANK] /\ (\A d \in 1 .. 12 : Slot(d)' = Slot(d))
          /\ sfr'[PSW] = sfr[PSW] /\ sfr'[DP_TGL] = sfr[DP_TGL]
      BY <1>0, <1>1, <2>1, <2>2, PushKept
    <2>4. Handling(h, 13)' /\ NotSignalled' /\ sfr0' = sfr0
      BY <1>0, <1>1, <2>3, HandlingKept, DataKept, SMT DEF Untouched
    <2> QED BY <1>0, <1>1, <2>2, <2>3, <2>4, SMT DEF BankPoint
  <1>2. CASE PC = HandlerStart(h) + 2 /\ Handling(h, 13) /\ Same(Free) /\ Slot(13) = sfr0[BANK]
    <2>1. Op = \h75 /\ Arg1 = BANK /\ Arg2 = Bank(h)
      BY <1>2, BankListing DEF At2
    <2>2. Steady({BANK}) /\ sfr'[BANK] = Bank(h) /\ PC' = PC + 3
      BY <1>0, <2>1, SetSfr DEF Works
    <2>3. SP \notin {BANK} /\ PSW \notin {BANK} /\ DP_TGL \notin {BANK}
      BY Names
    <2>4. /\ Common' /\ Untouched /\ S' = S /\ Handling(h, 13)' /\ OnlyRegs({BANK}) /\ sfr0' = sfr0
          /\ Slot(13)' = Slot(13)
      BY <1>2, <2>2, <2>3, SteadyKept, SMT DEF Steady, Untouched
    <2>5. NotSignalled' /\ sfr'[DP_TGL] = 0
      BY <1>0, <2>3, <2>4, DataKept, RegsKept
    <2>6. Same(Free \cup {BANK})'
      <3>1. Same(Free \cup {BANK}) /\ {BANK} \subseteq Free \cup {BANK}
        BY <1>2 DEF Same
      <3> QED BY <2>4, <3>1, SameKept
    <2> QED BY <1>0, <1>2, <2>2, <2>4, <2>5, <2>6, SMT DEF BankPoint
  <1>3. CASE /\ PC = HandlerStart(h) + 5 /\ Handling(h, 13) /\ Slot(13) = sfr0[BANK]
             /\ Same(Free \cup {BANK}) /\ sfr[BANK] = Bank(h)
    <2>1. Op = \h12 /\ Arg1 = Hi(61696) /\ Arg2 = Lo(61696)
      BY <1>3, BankListing DEF At2
    <2>2. Framed(13) /\ 13 \in 10 .. 14 /\ sfr[IE] = sfr0[IE]
      <3>1. IE \notin Free \cup {BANK} /\ IE \in Sfrs
        BY PushedRegs, Names, Registers
      <3> QED BY <1>3, <3>1, HandlingFrames DEF Same
    <2>3. Same(Free \cup {BANK, IE}) /\ SP \in Free \cup {BANK, IE}
      BY <1>0, <1>3 DEF Same
    <2>4. PICK to \in Nat : to = 61696
      OBVIOUS
    <2>5. /\ Common' /\ Untouched /\ S' = S /\ Framed(13 + 2)' /\ PC' = to
          /\ Same(Free \cup {BANK, IE})' /\ Slot(13 + 1)' = Lo(PC + 3) /\ Slot(13 + 2)' = Hi(PC + 3)
          /\ (\A d \in 1 .. 13 : Slot(d)' = Slot(d))
          /\ sfr'[PSW] = sfr[PSW] /\ sfr'[DP_TGL] = sfr[DP_TGL]
          /\ sfr'[BANK] = sfr[BANK] /\ sfr'[IE] = sfr[IE]
      <3>1. Arg1 = Hi(to) /\ Arg2 = Lo(to)
        BY <2>1, <2>4
      <3> QED BY <2>1, <2>2, <2>3, <3>1, CallKept
    <2>6. Handling(h, 15)' /\ NotSignalled' /\ sfr0' = sfr0
      BY <1>0, <1>3, <2>5, HandlingKept, DataKept, SMT DEF Untouched
    <2>7. InCopy(h, 2)'
      BY <1>0, <1>3, <2>5, <2>6, SMT DEF InCopy, CopyDepth, CopyRet
    <2> QED BY <1>0, <2>2, <2>4, <2>5, <2>6, <2>7, SMT DEF CopyBegins, CopyStart
  <1>4. CASE /\ PC = HandlerStart(h) + 8 /\ Handling(h, 13) /\ Slot(13) = sfr0[BANK]
             /\ Same(Free \cup {BANK}) /\ Copied(h, 256 * Blocks(h))
    <2>1. Op = \hd0 /\ Arg1 = BANK
      BY <1>4, BankListing DEF At1
    <2>2. /\ Framed(13) /\ 13 \in 11 .. 16 /\ BANK \in {BANK, IE} /\ Slot(13) = sfr0[BANK]
          /\ Same(Free \cup {BANK}) /\ SP \in Free \cup {BANK}
      BY <1>0, <1>4, HandlingFrames
    <2>3. /\ Common' /\ Untouched /\ S' = S /\ Framed(13 - 1)' /\ PC' = PC + 2
          /\ Same((Free \cup {BANK}) \ {BANK})' /\ (\A d \in 1 .. 16 : Slot(d)' = Slot(d))
          /\ sfr'[PSW] = sfr[PSW] /\ sfr'[DP_TGL] = sfr[DP_TGL]
      BY <2>1, <2>2, PopKept
    <2>4. Same(Free)'
      <3>1. (Free \cup {BANK}) \ {BANK} = Free
        BY <1>0
      <3> QED BY <2>3, <3>1
    <2>5. Handling(h, 12)' /\ NotSignalled' /\ Copied(h, 256 * Blocks(h))'
      <3>1. 13 - 1 = 12 /\ 11 \in 1 .. 16 /\ 12 \in 1 .. 16
        OBVIOUS
      <3>2. Framed(12)' /\ Slot(11)' = Slot(11) /\ Slot(12)' = Slot(12)
        BY <2>3, <3>1
      <3> QED BY <1>0, <1>4, <2>3, <3>2, HandlingKept, DataKept
    <2> QED BY <1>0, <1>4, <2>3, <2>4, <2>5, SMT DEF BankPoint
  <1>5. CASE /\ PC = HandlerStart(h) + 10 /\ Handling(h, 12) /\ Same(Free)
             /\ Copied(h, 256 * Blocks(h))
    <2>1. Op = \h12 /\ Arg1 = Hi(61793) /\ Arg2 = Lo(61793)
      BY <1>5, BankListing DEF At2
    <2>2. Framed(12) /\ 12 \in 10 .. 14
      BY <1>5, HandlingFrames
    <2>4. PICK to \in Nat : to = 61793
      OBVIOUS
    <2>5. /\ Common' /\ Untouched /\ S' = S /\ Framed(12 + 2)' /\ PC' = to
          /\ Same(Free)' /\ Slot(12 + 1)' = Lo(PC + 3) /\ Slot(12 + 2)' = Hi(PC + 3)
          /\ (\A d \in 1 .. 12 : Slot(d)' = Slot(d))
          /\ sfr'[PSW] = sfr[PSW] /\ sfr'[DP_TGL] = sfr[DP_TGL]
      <3>1. Arg1 = Hi(to) /\ Arg2 = Lo(to)
        BY <2>1, <2>4
      <3> QED BY <1>0, <1>5, <2>1, <2>2, <3>1, CallKept
    <2>6. Handling(h, 14)' /\ NotSignalled' /\ Copied(h, 256 * Blocks(h))'
      BY <1>0, <1>5, <2>5, HandlingKept, DataKept, SMT
    <2>7. Dumped(h)'
      BY <1>0, <2>6 DEF Dumped
    <2> QED BY <1>0, <1>5, <2>4, <2>5, <2>6, <2>7, SMT DEF Signalling, HandlerRet
  <1> QED BY <1>1, <1>2, <1>3, <1>4, <1>5 DEF BankPoint

(* What a store leaves: the state but for a byte of the area.               *)
LEMMA StoreKept ==
    ASSUME NEW a, Stores(a)
    PROVE  /\ Common' /\ sfr0' = sfr0 /\ Value' = Value /\ NotSignalled'
           /\ \A r : sfr'[r] = sfr[r]
           /\ \A Y : Same(Y) => Same(Y)'
           /\ \A d \in 1 .. 16 : Slot(d)' = Slot(d)
           /\ \A h, n : Handling(h, n) => Handling(h, n)'
           /\ \A b \in 0 .. 255 : iram'[b] = iram[b]
  <1>1. /\ Common' /\ sfr0' = sfr0 /\ iram0' = iram0 /\ S' = S /\ iram' = iram /\ sfr' = sfr /\ NotSignalled'
        /\ SlotsKept(16)
    BY DEF Stores
  <1>2. Value' = Value
    BY <1>1 DEF Value
  <1>3. \A Y : Same(Y) => Same(Y)'
    BY <1>1 DEF Same
  <1>4. /\ Called => Called'
        /\ Saved(8) => Saved(8)'
        /\ \A d \in 1 .. 16 : Slot(d)' = Slot(d)
    BY <1>1, FrameKept, SMT
  <1>5. Slot(11)' = Slot(11) /\ Slot(12)' = Slot(12)
    BY <1>4, SMT
  <1>6. ASSUME NEW h, NEW n, Handling(h, n) PROVE Handling(h, n)'
    BY <1>1, <1>2, <1>4, <1>5, <1>6 DEF Handling, Working, Framed
  <1> QED BY <1>1, <1>2, <1>3, <1>4, <1>6

LEMMA BlockRange ==
    ASSUME NEW h \in 0 .. 2
    PROVE  /\ Blocks(h) \in 1 .. 128
           /\ h = 2 => Blocks(h) \in 1 .. 32
           /\ \A a \in 0 .. 256 * Blocks(h) - 1 : AREA + a \in DataAddr
           /\ \A a \in 0 .. 255 : IRAM_AREA + a \in DataAddr
           /\ \A j \in 1 .. 8 : SFR_AREA + (j - 1) \in DataAddr
  <1>1. Blocks(h) \in 1 .. 128 /\ (h = 2 => Blocks(h) \in 1 .. 32)
    BY BlocksAssumption, SMT DEF Blocks
  <1>2. Blocks(h) <= IF PMEM_BLOCKS > XRAM_BLOCKS THEN PMEM_BLOCKS ELSE XRAM_BLOCKS
    BY BlocksAssumption, SMT DEF Blocks
  <1>3. ASSUME NEW a \in 0 .. 256 * Blocks(h) - 1 PROVE AREA + a \in DataAddr
    BY <1>1, <1>2, BlocksAssumption, SMT DEF DataAddr, CopyAddr, AREA
  <1>4. ASSUME NEW a \in 0 .. 255 PROVE IRAM_AREA + a \in DataAddr
    BY SMT DEF DataAddr, RamAddr, IRAM_AREA
  <1>5. ASSUME NEW j \in 1 .. 8 PROVE SFR_AREA + (j - 1) \in DataAddr
    BY SMT DEF DataAddr, SfrAddr, SFR_AREA
  <1> QED BY <1>1, <1>3, <1>4, <1>5

(* A store outside of what has been dumped leaves that as it was.          *)
LEMMA StoreApart ==
    ASSUME NEW a, Stores(a)
    PROVE  /\ \A h \in 0 .. 2 : \A n \in 0 .. 256 * Blocks(h) :
                 (Copied(h, n) /\ \A b \in 0 .. n - 1 : AREA + b # a) => Copied(h, n)'
           /\ \A n \in 0 .. 256 :
                 (IramSaved(n) /\ \A b \in 0 .. n - 1 : IRAM_AREA + b # a) => IramSaved(n)'
           /\ \A k \in 0 .. 8 :
                 (SfrsSaved(k) /\ \A j \in 1 .. k : SFR_AREA + (j - 1) # a) => SfrsSaved(k)'
  <1>1. /\ \A b \in DataAddr : b # a => xram'[b] = xram[b]
        /\ sfr0' = sfr0 /\ iram0' = iram0 /\ S' = S
    BY DEF Stores
  <1>2. ASSUME NEW h \in 0 .. 2, NEW n \in 0 .. 256 * Blocks(h), Copied(h, n),
               \A b \in 0 .. n - 1 : AREA + b # a
        PROVE  Copied(h, n)'
    <2>1. ASSUME NEW b \in 0 .. n - 1 PROVE xram'[AREA + b] = xram[AREA + b]
      <3>1. b \in 0 .. 256 * Blocks(h) - 1
        <4>1. PICK m \in 1 .. 128 : m = Blocks(h)
          BY BlockRange
        <4>2. n \in 0 .. 256 * m
          BY <4>1
        <4> QED BY <4>1, <4>2, SMT
      <3> QED BY <1>1, <1>2, <3>1, BlockRange
    <2> QED BY <1>2, <2>1 DEF Copied, Source, Bank
  <1>3. ASSUME NEW n \in 0 .. 256, IramSaved(n), \A b \in 0 .. n - 1 : IRAM_AREA + b # a
        PROVE  IramSaved(n)'
    <2>1. ASSUME NEW b \in 0 .. n - 1 PROVE xram'[IRAM_AREA + b] = xram[IRAM_AREA + b]
      <3>1. b \in 0 .. 255 /\ 0 \in 0 .. 2
        OBVIOUS
      <3> QED BY <1>1, <1>3, <3>1, BlockRange
    <2> QED BY <1>1, <1>3, <2>1 DEF IramSaved, ByteSaved
  <1>4. ASSUME NEW k \in 0 .. 8, SfrsSaved(k), \A j \in 1 .. k : SFR_AREA + (j - 1) # a
        PROVE  SfrsSaved(k)'
    <2>1. ASSUME NEW j \in 1 .. k PROVE xram'[SFR_AREA + (j - 1)] = xram[SFR_AREA + (j - 1)]
      <3>1. j \in 1 .. 8 /\ 0 \in 0 .. 2
        OBVIOUS
      <3> QED BY <1>1, <1>4, <3>1, BlockRange
    <2> QED BY <1>1, <1>4, <2>1 DEF SfrsSaved
  <1> QED BY <1>2, <1>3, <1>4

(* A step that works on A or on a data pointer, while handler h runs.       *)
Works1 == {A, DPH0, DPL0, DPH1, DPL1}

LEMMA HandlerWorks ==
    ASSUME NEW X, Steady(X), X \subseteq Works1, NEW h, NEW n, Handling(h, n), NEW Y, Free \subseteq Y, Same(Y)
    PROVE  /\ Common' /\ Untouched /\ S' = S /\ sfr0' = sfr0 /\ Handling(h, n)' /\ Same(Y)'
           /\ iram' = iram /\ (\A d \in 1 .. 16 : Slot(d)' = Slot(d))
           /\ sfr'[DP_TGL] = sfr[DP_TGL] /\ sfr'[BANK] = sfr[BANK] /\ sfr'[IE] = sfr[IE]
           /\ A \notin X => sfr'[A] = sfr[A]
           /\ \A a : (DPH0 \notin X /\ DPL0 \notin X /\ Points0(a)) => Points0(a)'
           /\ \A a : (DPH1 \notin X /\ DPL1 \notin X /\ Points1(a)) => Points1(a)'
  <1>1. SP \notin X /\ PSW \notin X /\ DP_TGL \notin X /\ BANK \notin X /\ IE \notin X /\ X \subseteq Y
    BY Names, PushedRegs DEF Works1
  <1>2. OnlyRegs(X) /\ iram' = iram /\ sfr0' = sfr0
    BY DEF Steady, Untouched
  <1>3. Same(Y)'
    BY <1>1, <1>2, SameKept
  <1>4. /\ Common' /\ Untouched /\ S' = S /\ Handling(h, n)' /\ \A d \in 1 .. 16 : Slot(d)' = Slot(d)
    BY <1>1, SteadyKept
  <1>5. ASSUME NEW a, DPH0 \notin X, DPL0 \notin X, Points0(a) PROVE Points0(a)'
    BY <1>2, <1>5, RegsKept DEF Points0
  <1>6. ASSUME NEW a, DPH1 \notin X, DPL1 \notin X, Points1(a) PROVE Points1(a)'
    BY <1>2, <1>6, RegsKept DEF Points1
  <1> QED BY <1>1, <1>2, <1>3, <1>4, <1>5, <1>6, RegsKept

-----------------------------------------------------------------------------
(* The handler of the data memories.                                       *)
LEMMA RamStep ==
    ASSUME Common, Step, RamPoint
    PROVE  Common' /\ (CopyBegins(2)' \/ IramBegins' \/ SfrPoint(0)')
  <1>0. NotSignalled /\ Handling(2, 12) /\ Same(Free) /\ Framed(12) /\ 12 \in 10 .. 14 /\ SP \in Free
    BY HandlingFrames DEF RamPoint, Free
  <1>1. ASSUME NEW to \in Nat, Op = \h12, Arg1 = Hi(to), Arg2 = Lo(to)
        PROVE  /\ Common' /\ Untouched /\ S' = S /\ PC' = to /\ Handling(2, 14)' /\ Same(Free)'
               /\ NotSignalled' /\ Slot(13)' = Lo(PC + 3) /\ Slot(14)' = Hi(PC + 3)
               /\ sfr'[DP_TGL] = sfr[DP_TGL] /\ sfr0' = sfr0
    <2>1. /\ Common' /\ Untouched /\ S' = S /\ Framed(12 + 2)' /\ PC' = to
          /\ Same(Free)' /\ Slot(12 + 1)' = Lo(PC + 3) /\ Slot(12 + 2)' = Hi(PC + 3)
          /\ (\A d \in 1 .. 12 : Slot(d)' = Slot(d))
          /\ sfr'[PSW] = sfr[PSW] /\ sfr'[DP_TGL] = sfr[DP_TGL]
      BY <1>0, <1>1, CallKept
    <2> QED BY <1>0, <2>1, HandlingKept, DataKept, SMT DEF Untouched
  <1>2. ASSUME Same(Free)' PROVE /\ Same(Free \cup {IE})' /\ Same(Free \cup {BANK, IE})'
                                 /\ sfr'[BANK] = sfr0'[BANK] /\ sfr'[IE] = sfr0'[IE]
    <2>1. BANK \in Sfrs \ Free /\ IE \in Sfrs \ Free
      BY PushedRegs, Names, Registers
    <2> QED BY <1>2, <2>1 DEF Same
  <1>3. CASE PC = 61980 /\ sfr[DP_TGL] = 0
    <2>1. Op = \h12 /\ Arg1 = Hi(61732) /\ Arg2 = Lo(61732)
      BY <1>3, RamListing DEF At2
    <2>2. PICK to \in Nat : to = 61732
      OBVIOUS
    <2>3. Arg1 = Hi(to) /\ Arg2 = Lo(to)
      BY <2>1, <2>2
    <2>4. /\ Common' /\ Untouched /\ S' = S /\ PC' = to /\ Handling(2, 14)' /\ Same(Free)'
          /\ NotSignalled' /\ Slot(13)' = Lo(PC + 3) /\ Slot(14)' = Hi(PC + 3)
          /\ sfr'[DP_TGL] = sfr[DP_TGL]
      BY <1>1, <2>1, <2>3
    <2>5. InCopy(2, 2)'
      BY <1>2, <1>3, <2>4, SMT DEF InCopy, CopyDepth, CopyRet
    <2> QED BY <1>2, <1>3, <2>2, <2>4, <2>5, SMT DEF CopyBegins, CopyStart
  <1>4. CASE PC = 61983 /\ sfr[DP_TGL] = 0 /\ Copied(2, 256 * XRAM_BLOCKS)
    <2>1. Op = \h12 /\ Arg1 = Hi(61768) /\ Arg2 = Lo(61768)
      BY <1>4, RamListing DEF At2
    <2>2. PICK to \in Nat : to = 61768
      OBVIOUS
    <2>3. Arg1 = Hi(to) /\ Arg2 = Lo(to)
      BY <2>1, <2>2
    <2>4. /\ Common' /\ Untouched /\ S' = S /\ PC' = to /\ Handling(2, 14)' /\ Same(Free)'
          /\ NotSignalled' /\ Slot(13)' = Lo(PC + 3) /\ Slot(14)' = Hi(PC + 3)
          /\ sfr'[DP_TGL] = sfr[DP_TGL]
      BY <1>1, <2>1, <2>3
    <2>5. Copied(2, 256 * XRAM_BLOCKS)'
      BY <1>4, <2>4, DataKept
    <2>6. InIram(2)'
      BY <1>2, <1>4, <2>4, <2>5, SMT DEF InIram
    <2> QED BY <1>2, <1>4, <2>2, <2>4, <2>6, SMT DEF IramBegins
  <1>5. CASE /\ PC = 61986 /\ sfr[DP_TGL] = 0 /\ Copied(2, 256 * XRAM_BLOCKS) /\ IramSaved(256)
    <2>1. Op = \h90 /\ Arg1 = Hi(SFR_AREA) /\ Arg2 = Lo(SFR_AREA)
      BY <1>5, RamListing DEF At2
    <2>2. Even /\ 256 * Hi(SFR_AREA) + Lo(SFR_AREA) = SFR_AREA /\ SFR_AREA + 0 = SFR_AREA
      BY <1>5, HiLo, SMT DEF Even, SFR_AREA
    <2>3. Steady({DPH0, DPL0}) /\ Points0(SFR_AREA + 0)' /\ PC' = PC + 3
      BY <2>1, <2>2, MovesDptr, SMT DEF Works, Points0
    <2>4. {DPH0, DPL0} \subseteq Works1 /\ Free \subseteq Free
      BY DEF Works1
    <2>5. /\ Common' /\ Untouched /\ S' = S /\ Handling(2, 12)' /\ Same(Free)'
          /\ sfr'[DP_TGL] = sfr[DP_TGL]
      BY <1>0, <2>3, <2>4, HandlerWorks
    <2>6. NotSignalled' /\ Copied(2, 256 * XRAM_BLOCKS)' /\ IramSaved(256)'
      BY <1>0, <1>5, <2>5, DataKept
    <2>7. SfrsSaved(0)' /\ PC' = 61989 + 4 * 0
      BY <1>5, <2>3, SMT DEF SfrsSaved
    <2> QED BY <1>5, <2>3, <2>5, <2>6, <2>7 DEF SfrPoint
  <1> QED BY <1>3, <1>4, <1>5 DEF RamPoint

(* The registers are dumped in turn.                                       *)
LEMMA SfrStep ==
    ASSUME Common, Step, NEW k \in 0 .. 7, SfrPoint(k)
    PROVE  Common' /\ ((\E j \in 0 .. 7 : SfrPoint(j)') \/ Signalling(2)')
  <1>0. /\ NotSignalled /\ Handling(2, 12) /\ Same(Free) /\ Framed(12) /\ sfr[DP_TGL] = 0
        /\ Copied(2, 256 * XRAM_BLOCKS) /\ IramSaved(256) /\ Points0(SFR_AREA + k)
        /\ 12 \in 10 .. 14 /\ SP \in Free /\ Even
    BY HandlingFrames, SMT DEF SfrPoint, Free, Even
  <1>1. ASSUME NEW X, Steady(X), X \subseteq Works1
        PROVE  /\ Common' /\ Untouched /\ Handling(2, 12)' /\ Same(Free)' /\ S' = S /\ sfr0' = sfr0
               /\ sfr'[DP_TGL] = 0 /\ NotSignalled' /\ Copied(2, 256 * XRAM_BLOCKS)' /\ IramSaved(256)'
               /\ (DPH0 \notin X /\ DPL0 \notin X) => Points0(SFR_AREA + k)'
               /\ \A j : SfrsSaved(j) => SfrsSaved(j)'
    <2>1. Free \subseteq Free
      OBVIOUS
    <2>2. /\ Common' /\ Untouched /\ S' = S /\ Handling(2, 12)' /\ Same(Free)' /\ sfr0' = sfr0
          /\ sfr'[DP_TGL] = sfr[DP_TGL]
          /\ \A a : (DPH0 \notin X /\ DPL0 \notin X /\ Points0(a)) => Points0(a)'
      BY <1>0, <1>1, <2>1, HandlerWorks
    <2> QED BY <1>0, <2>2, DataKept
  <1>2. CASE PC = 61989 + 4 * k /\ SfrsSaved(k)
    <2>1. Op = \he5 /\ Arg1 = SfrAddrs[k + 1]
      BY <1>2, RamListing DEF At1
    <2>2. k + 1 \in 1 .. 8 /\ SfrAddrs[k + 1] \in Sfrs
      BY Registers
    <2>3. Steady({A}) /\ sfr'[A] = sfr[SfrAddrs[k + 1]] /\ PC' = PC + 2
      BY <2>1, <2>2, LoadsA, Registers, SMT DEF Works, Direct
    <2>4. SfrAddrs[k + 1] = SP => sfr[SfrAddrs[k + 1]] = S + 12
      BY <1>0 DEF Framed
    <2>5. SfrAddrs[k + 1] # SP => sfr[SfrAddrs[k + 1]] = sfr0[SfrAddrs[k + 1]]
      <3>1. SfrAddrs[k + 1] \notin Pushed
        <4>1. k + 1 \in {1, 2, 3, 4, 5, 6, 7, 8}
          OBVIOUS
        <4>2. PICK r : r = SfrAddrs[k + 1]
          OBVIOUS
        <4>3. r \in {\h80, \h81, \h90, \ha0, \ha8, \hb0, \hb8, \hfa}
          BY <4>1, <4>2, SMT DEF SfrAddrs
        <4>4. r \notin {A, B, DPH0, DPL0, DPH1, DPL1, DP_TGL, PSW}
          BY <4>3, SMT DEF A, B, DPH0, DPL0, DPH1, DPL1, DP_TGL, PSW
        <4> QED BY <4>2, <4>4, PushedRegs
      <3> QED BY <1>0, <2>2, <3>1 DEF Same, Free
    <2>6. {A} \subseteq Works1 /\ DPH0 \notin {A} /\ DPL0 \notin {A}
      BY Names DEF Works1
    <2>7. SfrPoint(k)'
      <3>1. /\ Handling(2, 12)' /\ Same(Free)' /\ S' = S /\ sfr0' = sfr0
            /\ sfr'[DP_TGL] = 0 /\ NotSignalled' /\ Copied(2, 256 * XRAM_BLOCKS)' /\ IramSaved(256)'
            /\ Points0(SFR_AREA + k)' /\ SfrsSaved(k)'
        BY <1>1, <1>2, <2>3, <2>6
      <3>2. PC' = 61991 + 4 * k
        BY <1>2, <2>3
      <3>3. sfr'[A] = IF SfrAddrs[k + 1] = SP THEN S' + 12 ELSE sfr0'[SfrAddrs[k + 1]]
        BY <2>3, <2>4, <2>5, <3>1
      <3> QED BY <3>1, <3>2, <3>3 DEF SfrPoint
    <2> QED BY <1>1, <2>3, <2>6, <2>7
  <1>3. CASE /\ PC = 61991 + 4 * k /\ SfrsSaved(k)
             /\ sfr[A] = IF SfrAddrs[k + 1] = SP THEN S + 12 ELSE sfr0[SfrAddrs[k + 1]]
    <2>1. Op = \hf0
      BY <1>3, RamListing DEF At
    <2>a. PICK a \in Nat : a = SFR_AREA + k
      BY DEF SFR_AREA
    <2>2. Dptr = a
      BY <1>0, <2>a, DptrIs, SMT DEF SFR_AREA
    <2>3. a \notin LowAddr /\ a # SIGNAL
      BY <2>a, BlocksAssumption, SMT DEF LowAddr, SIGNAL, SFR_AREA
    <2>4. Stores(a)
      BY <1>0, <2>1, <2>2, <2>3, StoresA
    <2>5. /\ Common' /\ sfr0' = sfr0 /\ NotSignalled' /\ Handling(2, 12)' /\ Same(Free)'
          /\ \A r : sfr'[r] = sfr[r]
      BY <1>0, <2>4, StoreKept
    <2>6. Copied(2, 256 * XRAM_BLOCKS)'
      <3>1. XRAM_BLOCKS \in 1 .. 32 /\ Blocks(2) = XRAM_BLOCKS
        BY BlocksAssumption, SMT DEF Blocks
      <3>2. 2 \in 0 .. 2 /\ 256 * XRAM_BLOCKS \in 0 .. 256 * Blocks(2)
        BY <3>1, SMT
      <3>3. \A b \in 0 .. 256 * XRAM_BLOCKS - 1 : AREA + b # a
        BY <2>a, <3>1, SMT DEF AREA, SFR_AREA
      <3>4. Copied(2, 256 * XRAM_BLOCKS)
        BY <1>0
      <3> HIDE DEF Copied, Stores, Blocks
      <3>5. PICK n \in 0 .. 256 * Blocks(2) : n = 256 * XRAM_BLOCKS
        BY <3>2
      <3>6. (Copied(2, n) /\ \A b \in 0 .. n - 1 : AREA + b # a) => Copied(2, n)'
        BY <2>4, <3>2, StoreApart
      <3>7. \A b \in 0 .. n - 1 : AREA + b # a
        BY <3>3, <3>5
      <3>8. Copied(2, n)
        BY <3>4, <3>5
      <3>9. Copied(2, n)'
        BY <3>6, <3>7, <3>8
      <3> QED BY <3>5, <3>9
    <2>7. IramSaved(256)'
      <3>1. \A b \in 0 .. 256 - 1 : IRAM_AREA + b # a
        BY <2>a, SMT DEF IRAM_AREA, SFR_AREA
      <3>2. 256 \in 0 .. 256
        OBVIOUS
      <3> QED BY <1>0, <2>4, <3>1, <3>2, StoreApart
    <2>8. SfrsSaved(k)'
      <3>1. ASSUME NEW j \in 1 .. k PROVE SFR_AREA + (j - 1) # a
        BY <2>a, SMT DEF SFR_AREA
      <3>2. k \in 0 .. 8
        OBVIOUS
      <3>3. SfrsSaved(k) /\ \A j \in 1 .. k : SFR_AREA + (j - 1) # a
        BY <1>3, <3>1
      <3> QED BY <2>4, <3>2, <3>3, StoreApart
    <2>9. SfrsSaved(k + 1)'
      <3>1. xram'[SFR_AREA + k] = sfr[A] /\ S' = S
        BY <2>4, <2>a DEF Stores
      <3>2. ASSUME NEW j \in 1 .. k + 1
            PROVE  xram'[SFR_AREA + (j - 1)] = IF SfrAddrs[j] = SP THEN S' + 12 ELSE sfr0'[SfrAddrs[j]]
        <4>1. CASE j \in 1 .. k
          BY <2>8, <4>1 DEF SfrsSaved
        <4>2. CASE j = k + 1
          <5>1. j - 1 = k
            BY <4>2
          <5> QED BY <1>3, <2>5, <3>1, <4>2, <5>1
        <4> QED BY <4>1, <4>2
      <3> QED BY <3>2 DEF SfrsSaved
    <2>10. Points0(SFR_AREA + k)' /\ sfr'[DP_TGL] = 0 /\ PC' = 61992 + 4 * k
      BY <1>0, <1>3, <2>4, <2>5, SMT DEF Points0, Stores
    <2>11. SfrPoint(k)'
      BY <2>5, <2>6, <2>7, <2>9, <2>10 DEF SfrPoint
    <2> QED BY <2>5, <2>11
  <1>4. CASE PC = 61992 + 4 * k /\ SfrsSaved(k + 1) /\ k < 7
    <2>1. Op = \ha3
      BY <1>4, RamListing, SMT DEF At
    <2>a. PICK a \in Nat : a = SFR_AREA + k
      BY DEF SFR_AREA
    <2>2. Steady({DPH0, DPL0}) /\ Points0(a + 1)' /\ PC' = PC + 1
      BY <1>0, <2>1, <2>a, IncsDptr DEF Works
    <2>3. {DPH0, DPL0} \subseteq Works1
      BY DEF Works1
    <2>4. /\ Common' /\ Handling(2, 12)' /\ Same(Free)' /\ S' = S /\ sfr0' = sfr0
          /\ sfr'[DP_TGL] = 0 /\ NotSignalled' /\ Copied(2, 256 * XRAM_BLOCKS)' /\ IramSaved(256)'
          /\ SfrsSaved(k + 1)'
      BY <1>1, <1>4, <2>2, <2>3
    <2>5. k + 1 \in 0 .. 7 /\ PC' = 61989 + 4 * (k + 1) /\ a + 1 = SFR_AREA + (k + 1)
      BY <1>4, <2>2, <2>a, SMT DEF SFR_AREA
    <2>6. SfrPoint(k + 1)'
      BY <2>2, <2>4, <2>5 DEF SfrPoint
    <2> QED BY <2>4, <2>5, <2>6
  <1>5. CASE PC = 61992 + 4 * k /\ SfrsSaved(k + 1) /\ k = 7
    <2>1. PC = 62020 /\ SfrsSaved(8)
      BY <1>5
    <2>2. Op = \h12 /\ Arg1 = Hi(61793) /\ Arg2 = Lo(61793)
      BY <2>1, RamListing DEF At2
    <2>3. PICK to \in Nat : to = 61793
      OBVIOUS
    <2>4. Arg1 = Hi(to) /\ Arg2 = Lo(to)
      BY <2>2, <2>3
    <2>5. /\ Common' /\ Untouched /\ S' = S /\ Framed(12 + 2)' /\ PC' = to
          /\ Same(Free)' /\ Slot(12 + 1)' = Lo(PC + 3) /\ Slot(12 + 2)' = Hi(PC + 3)
          /\ (\A d \in 1 .. 12 : Slot(d)' = Slot(d))
          /\ sfr'[PSW] = sfr[PSW] /\ sfr'[DP_TGL] = sfr[DP_TGL]
      BY <1>0, <2>2, <2>4, CallKept
    <2>6. Handling(2, 14)'
      BY <1>0, <2>5, HandlingKept, SMT
    <2>7. NotSignalled' /\ Dumped(2)'
      <3>1. Dumped(2)
        BY <1>0, <2>1, SMT DEF Dumped, Blocks
      <3> QED BY <1>0, <2>5, <3>1, DataKept
    <2>8. Slot(13)' = Lo(HandlerRet(2)) /\ Slot(14)' = Hi(HandlerRet(2))
      BY <2>1, <2>5, SMT DEF HandlerRet
    <2>9. PC' = 61793 /\ sfr'[DP_TGL] = 0
      BY <1>0, <2>3, <2>5
    <2> QED BY <2>5, <2>6, <2>7, <2>8, <2>9 DEF Signalling
  <1> QED BY <1>2, <1>3, <1>4, <1>5 DEF SfrPoint

-----------------------------------------------------------------------------
(* The signal.  What was dumped is what the tool is told it is.             *)
SfrStackK(k) == SfrStack[k] = Order[9 - k]

(* The tool lists the registers in the order they lie below the stack pointer.*)
LEMMA StackOrder == \A k \in 1 .. 8 : SfrStackK(k)
  <1>1. /\ SfrStack[1] = Order[8] /\ SfrStack[2] = Order[7] /\ SfrStack[3] = Order[6]
        /\ SfrStack[4] = Order[5] /\ SfrStack[5] = Order[4] /\ SfrStack[6] = Order[3]
        /\ SfrStack[7] = Order[2] /\ SfrStack[8] = Order[1]
    BY SMT DEF SfrStack, Order
  <1> SUFFICES ASSUME NEW k \in 1 .. 8 PROVE SfrStackK(k)
    OBVIOUS
  <1>2. k \in {1, 2, 3, 4, 5, 6, 7, 8}
    OBVIOUS
  <1> QED BY <1>1, <1>2, SMT DEF SfrStackK

Told == /\ \A s \in Sfrs : SavedSfr(s) = sfr0[s]
        /\ \A a \in 0 .. S : a \notin Counters => SavedIram(a) = iram0[a]

(* From a complete dump the tool gets every register as it was at rest.    *)
LEMMA DumpIsSaved == (Room /\ Dumped(2)) => Told
  <1> SUFFICES ASSUME Room, Dumped(2) PROVE Told
    OBVIOUS
  <1>0. IramSaved(256) /\ SfrsSaved(8) /\ S \in 0 .. 255 /\ \A d \in 1 .. 16 : S + d \in 0 .. 255
    BY RoomFacts DEF Dumped
  <1>1. xram[SFR_AREA + 1] = S + 12
    <2>1. SfrAddrs[2] = SP
      BY SMT DEF SfrAddrs, SP
    <2>2. 2 \in 1 .. 8 /\ SFR_AREA + (2 - 1) = SFR_AREA + 1
      BY DEF SFR_AREA
    <2> QED BY <1>0, <2>1, <2>2 DEF SfrsSaved
  <1>p. PICK p \in Int : p = xram[SFR_AREA + 1]
    BY <1>0, <1>1
  <1>q. p = S + 12
    BY <1>1, <1>p
  <1>2. ASSUME NEW s \in Sfrs PROVE SavedSfr(s) = sfr0[s]
    <2>1. CASE s = SP
      <3>1. SavedSfr(s) = (p - \h0c) % 256
        BY <1>p, <2>1 DEF SavedSfr
      <3>2. PICK x \in 0 .. 255 : x = S
        BY <1>0
      <3>3. p - \h0c = x /\ x % 256 = x
        BY <1>q, <3>2
      <3>4. SavedSfr(s) = S
        BY <3>1, <3>2, <3>3
      <3> QED BY <2>1, <3>4 DEF S
    <2>2. CASE s # SP /\ \E k \in 1 .. 8 : SfrStack[k] = s
      <3>1. PICK k \in 1 .. 8 : k = CHOOSE z \in 1 .. 8 : SfrStack[z] = s
        BY <2>2
      <3>2. SfrStack[k] = s
        BY <2>2, <3>1
      <3>3. SavedSfr(s) = SavedIram((p - 2 - (k - 1)) % 256)
        BY <1>p, <2>2, <3>1 DEF SavedSfr
      <3>4. (p - 2 - (k - 1)) % 256 = S + (2 + (9 - k)) /\ S + (2 + (9 - k)) \in 0 .. 256 - 1
        <4>1. PICK x \in 0 .. 255 : x = S + (2 + (9 - k))
          BY <1>0
        <4>2. x % 256 = x
          OBVIOUS
        <4>3. p - 2 - (k - 1) = x
          BY <1>0, <1>q, <4>1
        <4> QED BY <4>1, <4>2, <4>3
      <3>5. 9 - k \in 1 .. 8
        OBVIOUS
      <3>6. SavedIram(S + (2 + (9 - k))) = sfr0[Order[9 - k]]
        BY <1>0, <3>4, <3>5 DEF IramSaved, ByteSaved, SavedIram
      <3>7. Order[9 - k] = s
        BY <3>2, StackOrder DEF SfrStackK
      <3> QED BY <3>3, <3>4, <3>6, <3>7
    <2>3. CASE s # SP /\ ~\E k \in 1 .. 8 : SfrStack[k] = s
      <3>1. \E k \in 1 .. 8 : SfrAddrs[k] = s
        <4>1. s \notin Pushed
          <5>1. ASSUME NEW j \in 1 .. 8 PROVE s # Order[j]
            <6>1. 9 - j \in 1 .. 8 /\ 9 - (9 - j) = j
              OBVIOUS
            <6> QED BY <2>3, <6>1, StackOrder DEF SfrStackK
          <5> QED BY <5>1 DEF Pushed
        <4>2. s \in {A, B, DP_TGL, PSW, DPL0, DPH0, DPL1, DPH1} \cup { SfrAddrs[k] : k \in 1 .. 8 }
          BY DEF Sfrs
        <4> QED BY <4>1, <4>2, PushedRegs
      <3>2. PICK k \in 1 .. 8 : k = CHOOSE z \in 1 .. 8 : SfrAddrs[z] = s
        BY <3>1
      <3>3. SfrAddrs[k] = s
        BY <3>1, <3>2
      <3>4. SavedSfr(s) = xram[SFR_AREA + k - 1]
        BY <2>3, <3>2 DEF SavedSfr
      <3>5. SFR_AREA + k - 1 = SFR_AREA + (k - 1)
        BY DEF SFR_AREA
      <3> QED BY <1>0, <2>3, <3>3, <3>4, <3>5 DEF SfrsSaved
    <2> QED BY <2>1, <2>2, <2>3
  <1>3. ASSUME NEW a \in 0 .. S, a \notin Counters PROVE SavedIram(a) = iram0[a]
    <2>1. a \in 0 .. 256 - 1 /\ a <= S
      BY <1>0
    <2> QED BY <1>0, <1>3, <2>1 DEF IramSaved, ByteSaved, SavedIram
  <1> QED BY <1>2, <1>3 DEF Told

(* Storing \hff in SIGNAL establishes the two properties.                   *)
LEMMA SignalStored ==
    ASSUME Common, Step, Op = \hf0, NEW h \in 0 .. 2, Value = h, Dumped(h), Dptr = SIGNAL
    PROVE  /\ Common' /\ iram0' = iram0 /\ sfr0' = sfr0 /\ S' = S /\ iram' = iram /\ sfr' = sfr
           /\ SlotsKept(16) /\ PC' = PC + 1
  <1>1. /\ SIGNAL \in DataAddr /\ xram' = [xram EXCEPT ![SIGNAL] = sfr[A]]
        /\ PC' = PC + 1 /\ iram' = iram /\ sfr' = sfr /\ iram0' = iram0 /\ sfr0' = sfr0
    BY OpLoads DEF Goes
  <1>2. (\A b \in DataAddr : b # SIGNAL => xram'[b] = xram[b]) /\ DOMAIN xram' = DataAddr
    BY <1>1 DEF Common, Domains
  <1>3. S' = S /\ Room' /\ IramKept' /\ Value' = Value /\ SlotsKept(16)
    BY <1>1 DEF Common, Room, IramKept, S, Value, SlotsKept, Slot
  <1>4. LowKept'
    <2>1. SIGNAL \notin LowAddr
      BY BlocksAssumption, SMT DEF SIGNAL, LowAddr
    <2> QED BY <1>2, <2>1 DEF Common, LowKept, DataAddr
  <1>5. Domains'
    BY <1>1, <1>2 DEF Common, Domains, Value
  <1>6. Blocks(h) \in 1 .. 128
    BY BlockRange
  <1>7. Copied(h, 256 * Blocks(h))'
    <2>1. ASSUME NEW b \in 0 .. 256 * Blocks(h) - 1 PROVE AREA + b # SIGNAL
      <3>1. PICK m \in 1 .. 128 : m = Blocks(h)
        BY <1>6
      <3>2. b \in 0 .. 256 * m - 1
        BY <3>1
      <3> QED BY <3>2, SMT DEF AREA, SIGNAL
    <2>2. ASSUME NEW b \in 0 .. 256 * Blocks(h) - 1 PROVE xram'[AREA + b] = xram[AREA + b]
      BY <1>2, <2>1, BlockRange
    <2> QED BY <2>2 DEF Dumped, Copied, Source, Bank
  <1>8. h = 2 => Dumped(2)'
    <2>1. ASSUME h = 2 PROVE IramSaved(256)' /\ SfrsSaved(8)'
      <3>1. IramSaved(256) /\ SfrsSaved(8)
        BY <2>1 DEF Dumped
      <3>2. ASSUME NEW b \in 0 .. 256 - 1 PROVE xram'[IRAM_AREA + b] = xram[IRAM_AREA + b]
        <4>1. IRAM_AREA + b # SIGNAL /\ b \in 0 .. 255
          BY SMT DEF IRAM_AREA, SIGNAL
        <4> QED BY <1>2, <4>1, BlockRange
      <3>3. ASSUME NEW j \in 1 .. 8 PROVE xram'[SFR_AREA + (j - 1)] = xram[SFR_AREA + (j - 1)]
        <4>1. SFR_AREA + (j - 1) # SIGNAL
          BY SMT DEF SFR_AREA, SIGNAL
        <4> QED BY <1>2, <4>1, BlockRange
      <3>4. IramSaved(256)'
        BY <1>1, <1>3, <3>1, <3>2 DEF IramSaved, ByteSaved
      <3> QED BY <1>1, <1>3, <3>1, <3>3, <3>4 DEF SfrsSaved
    <2> QED BY <1>7, <2>1 DEF Dumped
  <1>9. SignalMeansDumped'
    <2>1. Value' = h
      BY <1>3
    <2>2. h = 0 => \A a \in 0 .. 256 * PMEM_BLOCKS - 1 : xram'[AREA + a] = Pmem(\h15, \h8000 + a)
      BY <1>7, SMT DEF Copied, Source, Bank, Blocks
    <2>3. h = 1 => \A a \in 0 .. 256 * PMEM_BLOCKS - 1 : xram'[AREA + a] = Pmem(\h2a, \h8000 + a)
      BY <1>7, SMT DEF Copied, Source, Bank, Blocks
    <2>4. h = 2 => \A a \in LowAddr : xram'[AREA + a] = LowXram[a]
      BY <1>7, SMT DEF Copied, Source, Blocks, LowAddr
    <2> QED BY <2>1, <2>2, <2>3, <2>4 DEF SignalMeansDumped
  <1>10. SavedIsStateAtRest'
    <2>1. (Room' /\ Dumped(2)') => Told'
      BY DumpIsSaved, PTL
    <2>2. h = 2 => Told'
      BY <1>3, <1>8, <2>1
    <2> QED BY <1>3, <2>2 DEF SavedIsStateAtRest, Told, S
  <1>11. Common'
    BY <1>3, <1>4, <1>5, <1>9, <1>10 DEF Common
  <1> QED BY <1>1, <1>3, <1>11

(* The signal is the last thing a handler does, when all is dumped.        *)
LEMMA SignalStep ==
    ASSUME Common, Step, NEW h \in 0 .. 2, Signalling(h)
    PROVE  Common' /\ (Signalling(h)' \/ Signaled(h)')
  <1>0. /\ Handling(h, 14) /\ Same(Free) /\ Framed(14) /\ Value = h /\ 14 \in 12 .. 16
        /\ Slot(13) = Lo(HandlerRet(h)) /\ Slot(14) = Hi(HandlerRet(h))
        /\ SP \in Free /\ Free \subseteq Free /\ HandlerRet(h) \in Nat
    BY HandlingFrames DEF Signalling, Free, HandlerRet, HandlerStart
  <1>1. ASSUME NEW X, Steady(X), X \subseteq Works1, NotSignalled, Dumped(h)
        PROVE  /\ Common' /\ Handling(h, 14)' /\ Same(Free)' /\ NotSignalled' /\ Dumped(h)'
               /\ Slot(13)' = Lo(HandlerRet(h)) /\ Slot(14)' = Hi(HandlerRet(h))
               /\ sfr'[DP_TGL] = sfr[DP_TGL]
               /\ (DPH0 \notin X /\ DPL0 \notin X /\ Points0(SIGNAL)) => Points0(SIGNAL)'
    <2>1. /\ Common' /\ Untouched /\ S' = S /\ Handling(h, 14)' /\ Same(Free)'
          /\ (\A d \in 1 .. 16 : Slot(d)' = Slot(d)) /\ sfr'[DP_TGL] = sfr[DP_TGL]
          /\ \A a : (DPH0 \notin X /\ DPL0 \notin X /\ Points0(a)) => Points0(a)'
      BY <1>0, <1>1, HandlerWorks
    <2>2. Slot(13)' = Slot(13) /\ Slot(14)' = Slot(14)
      BY <2>1, 13 \in 1 .. 16, 14 \in 1 .. 16
    <2> QED BY <1>0, <1>1, <2>1, <2>2, DataKept
  <1>2. CASE PC = 61793 /\ sfr[DP_TGL] = 0 /\ NotSignalled /\ Dumped(h)
    <2>1. Op = \h90 /\ Arg1 = Hi(SIGNAL) /\ Arg2 = Lo(SIGNAL)
      BY <1>2, SignalListing DEF At2
    <2>2. Even /\ 256 * Hi(SIGNAL) + Lo(SIGNAL) = SIGNAL
      BY <1>2, HiLo, SMT DEF Even, SIGNAL
    <2>3. Steady({DPH0, DPL0}) /\ Points0(SIGNAL)' /\ PC' = PC + 3
      BY <2>1, <2>2, MovesDptr, SMT DEF Works, Points0
    <2>4. {DPH0, DPL0} \subseteq Works1
      BY DEF Works1
    <2>5. /\ Common' /\ Handling(h, 14)' /\ Same(Free)' /\ NotSignalled' /\ Dumped(h)'
          /\ Slot(13)' = Lo(HandlerRet(h)) /\ Slot(14)' = Hi(HandlerRet(h)) /\ sfr'[DP_TGL] = 0
      BY <1>1, <1>2, <2>3, <2>4
    <2>6. PC' = 61796
      BY <1>2, <2>3
    <2> QED BY <2>3, <2>5, <2>6 DEF Signalling, HandlerRet, HandlerStart
  <1>3. CASE PC = 61796 /\ sfr[DP_TGL] = 0 /\ NotSignalled /\ Dumped(h) /\ Points0(SIGNAL)
    <2>1. Op = \h74 /\ Arg1 = 255
      BY <1>3, SignalListing DEF At1
    <2>3. Steady({A}) /\ sfr'[A] = 255 /\ PC' = PC + 2
      BY <2>1, LoadsA DEF Works
    <2>4. {A} \subseteq Works1 /\ DPH0 \notin {A} /\ DPL0 \notin {A}
      BY Names DEF Works1
    <2>5. /\ Common' /\ Handling(h, 14)' /\ Same(Free)' /\ NotSignalled' /\ Dumped(h)'
          /\ Slot(13)' = Lo(HandlerRet(h)) /\ Slot(14)' = Hi(HandlerRet(h)) /\ sfr'[DP_TGL] = 0
          /\ Points0(SIGNAL)'
      BY <1>1, <1>3, <2>3, <2>4
    <2>6. PC' = 61798
      BY <1>3, <2>3
    <2> QED BY <2>3, <2>5, <2>6 DEF Signalling, HandlerRet, HandlerStart
  <1>4. CASE PC = 61798 /\ sfr[DP_TGL] = 0 /\ NotSignalled /\ Dumped(h) /\ Points0(SIGNAL) /\ sfr[A] = 255
    <2>1. Op = \hf0
      BY <1>4, SignalListing DEF At
    <2>2. Dptr = SIGNAL
      BY <1>4, DptrIs, SMT DEF Even, SIGNAL
    <2>3. /\ Common' /\ iram0' = iram0 /\ sfr0' = sfr0 /\ S' = S /\ iram' = iram /\ sfr' = sfr
          /\ SlotsKept(16) /\ PC' = PC + 1
      BY <1>0, <1>4, <2>1, <2>2, SignalStored
    <2>4. /\ Handling(h, 14)' /\ Same(Free)'
          /\ Slot(13)' = Slot(13) /\ Slot(14)' = Slot(14)
      <3>1. \A d \in 1 .. 16 : Slot(d)' = Slot(d)
        BY <2>3 DEF SlotsKept
      <3>2. Called' /\ Saved(8)'
        BY <1>0, <2>3, FrameKept, SMT DEF Framed
      <3>3. /\ Slot(11)' = Slot(11) /\ Slot(12)' = Slot(12)
            /\ Slot(13)' = Slot(13) /\ Slot(14)' = Slot(14)
        BY <3>1, 11 \in 1 .. 16, 12 \in 1 .. 16, 13 \in 1 .. 16, 14 \in 1 .. 16
      <3>4. Framed(14)'
        BY <1>0, <2>3, <3>2 DEF Framed
      <3>5. Value' = Value
        BY <2>3 DEF Value
      <3> QED BY <1>0, <2>3, <3>3, <3>4, <3>5 DEF Handling, Working, Same
    <2>5. PC' = 61799
      BY <1>4, <2>3
    <2> QED BY <1>0, <2>3, <2>4, <2>5 DEF Signalling, HandlerRet, HandlerStart
  <1>5. CASE PC = 61799
    <2>1. Op = \h22
      BY <1>5, SignalListing DEF At
    <2>2. Slot(14 - 1) = Lo(HandlerRet(h))
      BY <1>0
    <2>3. /\ Common' /\ Untouched /\ S' = S /\ Framed(14 - 2)' /\ PC' = HandlerRet(h) /\ Same(Free)'
          /\ (\A d \in 1 .. 16 : Slot(d)' = Slot(d)) /\ sfr'[PSW] = sfr[PSW]
      BY <1>0, <2>1, <2>2, ReturnKept
    <2>4. Framed(12)' /\ Slot(11)' = Slot(11) /\ Slot(12)' = Slot(12)
      BY <2>3, 14 - 2 = 12, 11 \in 1 .. 16, 12 \in 1 .. 16
    <2>5. Handling(h, 12)'
      BY <1>0, <2>3, <2>4, HandlingKept
    <2> QED BY <2>3, <2>5 DEF Signaled, HandlerRet, HandlerStart
  <1> QED BY <1>2, <1>3, <1>4, <1>5 DEF Signalling

(* A handler returns to the jump table after the signal.                   *)
LEMMA SignaledStep ==
    ASSUME Common, Step, NEW h \in 0 .. 2, Signaled(h)
    PROVE  Common' /\ Back(h)'
  <1>0. /\ PC = HandlerRet(h) /\ Handling(h, 12) /\ Framed(12) /\ Same(Free) /\ SP \in Free
        /\ 12 \in 12 .. 16 /\ 62027 + 6 * h \in Nat
        /\ Slot(11) = Lo(62027 + 6 * h) /\ Slot(12) = Hi(62027 + 6 * h)
    BY HandlingFrames DEF Signaled, Handling, Free
  <1>1. Op = \h22
    <2>1. CASE h < 2
      <3>1. h \in 0 .. 1 /\ PC = HandlerStart(h) + 13
        BY <1>0, <2>1 DEF HandlerRet
      <3> QED BY <3>1, BankListing DEF At
    <2>2. CASE ~(h < 2)
      <3>1. PC = 62023
        BY <1>0, <2>2 DEF HandlerRet
      <3> QED BY <3>1, RamListing DEF At
    <2> QED BY <2>1, <2>2
  <1>p. PICK to \in Nat : to = 62027 + 6 * h
    BY <1>0
  <1>2. Slot(12 - 1) = Lo(to) /\ Slot(12) = Hi(to)
    BY <1>0, <1>p
  <1>3. Common' /\ Framed(12 - 2)' /\ PC' = to /\ Same(Free)'
    BY <1>0, <1>1, <1>2, ReturnKept
  <1>4. Framed(10)'
    BY <1>3, 12 - 2 = 10
  <1> QED BY <1>3, <1>4, <1>p DEF Back

(* Instructions on DP_TGL and IE, and those on the counters.                *)
LEMMA HandlerSets ==
    ASSUME NEW r \in {DP_TGL, IE}, Steady({r}), NEW h, NEW n, Handling(h, n), NEW Y, r \in Y, Same(Y)
    PROVE  /\ Common' /\ Untouched /\ S' = S /\ sfr0' = sfr0 /\ Handling(h, n)' /\ Same(Y)'
           /\ iram' = iram /\ (\A d \in 1 .. 16 : Slot(d)' = Slot(d))
           /\ sfr'[BANK] = sfr[BANK] /\ sfr'[A] = sfr[A]
           /\ r = IE => sfr'[DP_TGL] = sfr[DP_TGL]
           /\ r = DP_TGL => sfr'[IE] = sfr[IE]
           /\ \A a : Points0(a) => Points0(a)'
           /\ \A a : Points1(a) => Points1(a)'
  <1>1. /\ SP \notin {r} /\ PSW \notin {r} /\ BANK \notin {r} /\ A \notin {r} /\ {r} \subseteq Y
        /\ DPH0 \notin {r} /\ DPL0 \notin {r} /\ DPH1 \notin {r} /\ DPL1 \notin {r}
        /\ r = IE => DP_TGL \notin {r}
        /\ r = DP_TGL => IE \notin {r}
    BY Names
  <1>2. OnlyRegs({r}) /\ iram' = iram /\ sfr0' = sfr0
    BY DEF Steady, Untouched
  <1>3. Same(Y)'
    BY <1>1, <1>2, SameKept
  <1>4. /\ Common' /\ Untouched /\ S' = S /\ Handling(h, n)' /\ \A d \in 1 .. 16 : Slot(d)' = Slot(d)
    BY <1>1, SteadyKept
  <1>5. /\ sfr'[BANK] = sfr[BANK] /\ sfr'[A] = sfr[A]
        /\ sfr'[DPH0] = sfr[DPH0] /\ sfr'[DPL0] = sfr[DPL0]
        /\ sfr'[DPH1] = sfr[DPH1] /\ sfr'[DPL1] = sfr[DPL1]
        /\ r = IE => sfr'[DP_TGL] = sfr[DP_TGL]
        /\ r = DP_TGL => sfr'[IE] = sfr[IE]
    BY <1>1, <1>2, RegsKept
  <1>6. (\A a : Points0(a) => Points0(a)') /\ (\A a : Points1(a) => Points1(a)')
    BY <1>5 DEF Points0, Points1
  <1> QED BY <1>2, <1>3, <1>4, <1>5, <1>6

LEMMA HandlerCounts ==
    ASSUME NEW k \in {0, 1}, NEW v, Counted(k, v), NEW h, NEW n, Handling(h, n), NEW Y, Same(Y)
    PROVE  /\ Common' /\ Untouched /\ S' = S /\ sfr0' = sfr0 /\ Handling(h, n)' /\ Same(Y)'
           /\ sfr' = sfr /\ (\A d \in 1 .. 16 : Slot(d)' = Slot(d))
           /\ iram'[24 + k] = v
           /\ iram'[24 + (1 - k)] = iram[24 + (1 - k)]
           /\ \A a : Points0(a) => Points0(a)'
           /\ \A a : Points1(a) => Points1(a)'
  <1>1. /\ Common' /\ Untouched /\ S' = S /\ sfr' = sfr /\ SlotsKept(16) /\ sfr0' = sfr0
        /\ iram'[24 + k] = v
        /\ \A a \in 0 .. 255 : a # 24 + k => iram'[a] = iram[a]
    BY DEF Counted, Untouched
  <1>2. 24 + (1 - k) \in 0 .. 255 /\ 24 + (1 - k) # 24 + k
    OBVIOUS
  <1>3. /\ \A d \in 1 .. 16 : Slot(d)' = Slot(d)
        /\ Called => Called'
        /\ Saved(8) => Saved(8)'
    BY <1>1, FrameKept, SMT
  <1>4. Framed(n)' /\ Slot(11)' = Slot(11) /\ Slot(12)' = Slot(12)
    <2>1. Framed(n)
      BY HandlingFrames
    <2>2. Called' /\ Saved(8)' /\ sfr'[SP] = S' + n
      BY <1>1, <1>3, <2>1 DEF Framed
    <2> QED BY <1>3, <2>2, 11 \in 1 .. 16, 12 \in 1 .. 16 DEF Framed
  <1>5. Handling(h, n)'
    BY <1>1, <1>4, HandlingKept
  <1> QED BY <1>1, <1>2, <1>3, <1>5 DEF Same, Points0, Points1

-----------------------------------------------------------------------------
(* The function that copies iram.                                          *)
LEMMA InIramIs ==
    /\ MidIram <=> /\ NotSignalled /\ Handling(2, 15) /\ Slot(13) = Lo(61986) /\ Slot(14) = Hi(61986)
                   /\ Same(Free \cup {IE}) /\ Copied(2, 256 * XRAM_BLOCKS) /\ Slot(15) = sfr0[IE]
    /\ InIram(2) <=> /\ NotSignalled /\ Handling(2, 14) /\ Slot(13) = Lo(61986) /\ Slot(14) = Hi(61986)
                     /\ Same(Free \cup {IE}) /\ Copied(2, 256 * XRAM_BLOCKS)
  <1>1. 12 + 3 = 15 /\ 12 + 2 = 14
    OBVIOUS
  <1> QED BY <1>1 DEF MidIram, InIram

LEMMA MidIramKept ==
    ASSUME MidIram, Untouched, S' = S, Handling(2, 15)', Same(Free \cup {IE})',
           \A d \in 1 .. 16 : Slot(d)' = Slot(d)
    PROVE  MidIram' /\ \A n : IramSaved(n) => IramSaved(n)'
  <1>1. Slot(13)' = Slot(13) /\ Slot(14)' = Slot(14) /\ Slot(15)' = Slot(15)
    BY 13 \in 1 .. 16, 14 \in 1 .. 16, 15 \in 1 .. 16
  <1>2. NotSignalled' /\ Copied(2, 256 * XRAM_BLOCKS)' /\ sfr0' = sfr0
    BY InIramIs, DataKept DEF Untouched
  <1>3. 12 + 3 = 15
    OBVIOUS
  <1>4. MidIram'
    BY <1>1, <1>2, <1>3, InIramIs DEF MidIram, InIram
  <1> QED BY <1>4, DataKept

(* The three kinds of step within it.                                      *)
LEMMA IramWorks ==
    ASSUME MidIram, NEW X, Steady(X), X \subseteq Works1
    PROVE  /\ Common' /\ MidIram' /\ sfr'[DP_TGL] = sfr[DP_TGL] /\ iram' = iram
           /\ S' = S /\ sfr0' = sfr0 /\ iram0' = iram0
           /\ (\A n : IramSaved(n) => IramSaved(n)')
           /\ A \notin X => sfr'[A] = sfr[A]
           /\ \A a : (DPH0 \notin X /\ DPL0 \notin X /\ Points0(a)) => Points0(a)'
  <1>1. Handling(2, 15) /\ Same(Free \cup {IE}) /\ Free \subseteq Free \cup {IE}
    BY InIramIs
  <1>2. /\ Common' /\ Untouched /\ S' = S /\ sfr0' = sfr0 /\ Handling(2, 15)' /\ Same(Free \cup {IE})'
        /\ iram' = iram /\ (\A d \in 1 .. 16 : Slot(d)' = Slot(d))
        /\ sfr'[DP_TGL] = sfr[DP_TGL]
        /\ A \notin X => sfr'[A] = sfr[A]
        /\ \A a : (DPH0 \notin X /\ DPL0 \notin X /\ Points0(a)) => Points0(a)'
    BY <1>1, HandlerWorks
  <1>3. MidIram' /\ \A n : IramSaved(n) => IramSaved(n)'
    BY <1>2, MidIramKept
  <1> QED BY <1>2, <1>3 DEF Untouched

LEMMA IramSets ==
    ASSUME MidIram, NEW r \in {DP_TGL, IE}, Steady({r})
    PROVE  /\ Common' /\ MidIram' /\ iram' = iram
           /\ r = IE => sfr'[DP_TGL] = sfr[DP_TGL]
           /\ (\A n : IramSaved(n) => IramSaved(n)')
           /\ (\A a : Points0(a) => Points0(a)')
  <1>1. Handling(2, 15) /\ Same(Free \cup {IE}) /\ r \in Free \cup {IE}
    BY InIramIs, PushedRegs
  <1>2. /\ Common' /\ Untouched /\ S' = S /\ sfr0' = sfr0 /\ Handling(2, 15)' /\ Same(Free \cup {IE})'
        /\ iram' = iram /\ (\A d \in 1 .. 16 : Slot(d)' = Slot(d))
        /\ r = IE => sfr'[DP_TGL] = sfr[DP_TGL]
        /\ (\A a : Points0(a) => Points0(a)')
    BY <1>1, HandlerSets
  <1>3. MidIram' /\ \A n : IramSaved(n) => IramSaved(n)'
    BY <1>2, MidIramKept
  <1> QED BY <1>2, <1>3

LEMMA IramCounts ==
    ASSUME MidIram, NEW k \in {0, 1}, NEW v, Counted(k, v)
    PROVE  /\ Common' /\ MidIram' /\ sfr' = sfr
           /\ iram'[24 + k] = v /\ iram'[24 + (1 - k)] = iram[24 + (1 - k)]
           /\ (\A n : IramSaved(n) => IramSaved(n)')
           /\ (\A a : Points0(a) => Points0(a)')
  <1>1. Handling(2, 15) /\ Same(Free \cup {IE})
    BY InIramIs
  <1>2. /\ Common' /\ Untouched /\ S' = S /\ sfr0' = sfr0 /\ Handling(2, 15)' /\ Same(Free \cup {IE})'
        /\ sfr' = sfr /\ (\A d \in 1 .. 16 : Slot(d)' = Slot(d))
        /\ iram'[24 + k] = v /\ iram'[24 + (1 - k)] = iram[24 + (1 - k)]
        /\ (\A a : Points0(a) => Points0(a)')
    BY <1>1, HandlerCounts
  <1>3. MidIram' /\ \A n : IramSaved(n) => IramSaved(n)'
    BY <1>2, MidIramKept
  <1> QED BY <1>2, <1>3

(* Interrupts off, the pointer to the area, the counters to zero.          *)
LEMMA IramBeginsStep ==
    ASSUME Common, Step, IramBegins
    PROVE  Common' /\ (IramBegins' \/ IramByte(0)')
  <1>0. sfr[DP_TGL] = 0 /\ Even
    BY SMT DEF IramBegins, Even
  <1>1. CASE PC = 61768 /\ InIram(2) /\ sfr[IE] = sfr0[IE]
    <2>1. Op = \hc0 /\ Arg1 = IE
      BY <1>1, IramListing DEF At1
    <2>2. /\ Handling(2, 14) /\ Framed(14) /\ Same(Free \cup {IE}) /\ SP \in Free \cup {IE}
          /\ 14 \in 10 .. 15 /\ IE \in Sfrs
          /\ NotSignalled /\ Slot(13) = Lo(61986) /\ Slot(14) = Hi(61986) /\ Copied(2, 256 * XRAM_BLOCKS)
      BY <1>1, InIramIs, HandlingFrames, PushedRegs, Registers
    <2>3. /\ Common' /\ Untouched /\ S' = S /\ Framed(14 + 1)' /\ PC' = PC + 2
          /\ Same(Free \cup {IE})'
          /\ Slot(14 + 1)' = sfr[IE] /\ (\A d \in 1 .. 14 : Slot(d)' = Slot(d))
          /\ sfr'[PSW] = sfr[PSW] /\ sfr'[DP_TGL] = sfr[DP_TGL]
      BY <2>1, <2>2, PushKept
    <2>4. /\ Framed(15)' /\ Slot(15)' = sfr[IE] /\ Slot(13)' = Slot(13) /\ Slot(14)' = Slot(14)
          /\ Slot(11)' = Slot(11) /\ Slot(12)' = Slot(12) /\ sfr0' = sfr0
      BY <2>3, 14 + 1 = 15, 13 \in 1 .. 14, 14 \in 1 .. 14, 11 \in 1 .. 14, 12 \in 1 .. 14 DEF Untouched
    <2>5. Handling(2, 15)' /\ NotSignalled' /\ Copied(2, 256 * XRAM_BLOCKS)'
      BY <2>2, <2>3, <2>4, HandlingKept, DataKept
    <2>6. MidIram'
      BY <1>1, <2>2, <2>3, <2>4, <2>5, 12 + 3 = 15 DEF MidIram, InIram
    <2>7. PC' = 61770 /\ sfr'[DP_TGL] = 0
      BY <1>0, <1>1, <2>3
    <2> QED BY <2>3, <2>6, <2>7 DEF IramBegins
  <1>2. CASE PC = 61770 /\ MidIram
    <2>1. Op = \h75 /\ Arg1 = IE /\ IE \in Sfrs
      BY <1>2, IramListing, Registers DEF At2
    <2>2. Steady({IE}) /\ PC' = PC + 3
      BY <2>1, SetSfr DEF Works
    <2>3. Common' /\ MidIram' /\ sfr'[DP_TGL] = 0
      BY <1>0, <1>2, <2>2, IramSets
    <2>4. PC' = 61773
      BY <1>2, <2>2
    <2> QED BY <2>3, <2>4 DEF IramBegins
  <1>3. CASE PC = 61773 /\ MidIram
    <2>1. Op = \h90 /\ Arg1 = Hi(IRAM_AREA) /\ Arg2 = Lo(IRAM_AREA)
      BY <1>3, IramListing DEF At2
    <2>2. 256 * Hi(IRAM_AREA) + Lo(IRAM_AREA) = IRAM_AREA
      BY HiLo, SMT DEF IRAM_AREA
    <2>3. Steady({DPH0, DPL0}) /\ Points0(IRAM_AREA)' /\ PC' = PC + 3
      BY <1>0, <2>1, <2>2, MovesDptr, SMT DEF Works, Points0
    <2>4. {DPH0, DPL0} \subseteq Works1
      BY DEF Works1
    <2>5. Common' /\ MidIram' /\ sfr'[DP_TGL] = 0
      BY <1>0, <1>3, <2>3, <2>4, IramWorks
    <2>6. PC' = 61776
      BY <1>3, <2>3
    <2> QED BY <2>3, <2>5, <2>6 DEF IramBegins
  <1>4. CASE PC = 61776 /\ MidIram /\ Points0(IRAM_AREA)
    <2>1. Op = \h78 /\ Arg1 = 0
      BY <1>4, IramListing DEF At1
    <2>2. Counted(0, 0) /\ PC' = PC + 2
      BY <1>4, <2>1, InIramIs, HandlingFrames, SetsCounter
    <2>3. Common' /\ MidIram' /\ sfr' = sfr /\ iram'[24 + 0] = 0 /\ Points0(IRAM_AREA)'
      BY <1>4, <2>2, IramCounts
    <2>4. PC' = 61778 /\ iram'[24] = 0 /\ sfr'[DP_TGL] = 0
      BY <1>0, <1>4, <2>2, <2>3, 24 + 0 = 24
    <2> QED BY <2>3, <2>4 DEF IramBegins
  <1>5. CASE PC = 61778 /\ MidIram /\ Points0(IRAM_AREA) /\ iram[24] = 0
    <2>1. Op = \h79 /\ Arg1 = 0
      BY <1>5, IramListing DEF At1
    <2>2. Counted(1, 0) /\ PC' = PC + 2
      BY <1>5, <2>1, InIramIs, HandlingFrames, SetsCounter
    <2>3. /\ Common' /\ MidIram' /\ sfr' = sfr /\ iram'[24 + 1] = 0 /\ Points0(IRAM_AREA)'
          /\ iram'[24 + (1 - 1)] = iram[24 + (1 - 1)]
      BY <1>5, <2>2, IramCounts
    <2>4. PC' = 61780 /\ iram'[24] = 0 /\ iram'[25] = 0 /\ sfr'[DP_TGL] = 0
      BY <1>0, <1>5, <2>2, <2>3, 24 + 1 = 25, 24 + (1 - 1) = 24
    <2> QED BY <2>3, <2>4 DEF IramBegins
  <1>6. CASE PC = 61780 /\ MidIram /\ Points0(IRAM_AREA) /\ iram[24] = 0 /\ iram[25] = 0
    <2>1. Op = \he4
      BY <1>6, IramListing DEF At
    <2>2. Steady({A}) /\ PC' = PC + 1
      BY <2>1, LoadsA DEF Works
    <2>3. {A} \subseteq Works1 /\ DPH0 \notin {A} /\ DPL0 \notin {A}
      BY Names DEF Works1
    <2>4. Common' /\ MidIram' /\ sfr'[DP_TGL] = 0 /\ iram' = iram /\ Points0(IRAM_AREA)'
      BY <1>0, <1>6, <2>2, <2>3, IramWorks
    <2>5. /\ PC' = 61781 /\ iram'[24] = (256 - 0) % 256 /\ iram'[25] = 0
          /\ IRAM_AREA + 0 = IRAM_AREA
      BY <1>6, <2>2, <2>4, SMT DEF IRAM_AREA
    <2>6. IramSaved(0)'
      BY DEF IramSaved
    <2> QED BY <2>4, <2>5, <2>6 DEF IramByte
  <1> QED BY <1>1, <1>2, <1>3, <1>4, <1>5, <1>6 DEF IramBegins

(* A byte of iram that is in use is still what it was; above lies what was   *)
(* pushed.                                                                 *)
LEMMA ByteOfIram ==
    ASSUME Common, Saved(8), NEW n \in 0 .. 255
    PROVE  ByteSaved(n, iram[n])
  <1>1. /\ S \in 0 .. 255 /\ STACK_USE = 16
        /\ IramKept /\ \A k \in 1 .. 8 : Slot(2 + k) = sfr0[Order[k]]
    BY RoomFacts DEF Common, Saved, STACK_USE
  <1>2. ASSUME n <= S, n \notin Counters PROVE iram[n] = iram0[n]
    <2>1. \A d \in 1 .. STACK_USE : n # S + d
      BY <1>1, <1>2
    <2> QED BY <1>1, <1>2, <2>1 DEF IramKept
  <1>3. ASSUME NEW k \in 1 .. 8, n = S + (2 + k) PROVE iram[n] = sfr0[Order[k]]
    BY <1>1, <1>3 DEF Slot
  <1> QED BY <1>2, <1>3 DEF ByteSaved

(* One byte of iram is copied and the counter counts down.                 *)
LEMMA IramByteStep ==
    ASSUME Common, Step, NEW n \in 0 .. 255, IramByte(n)
    PROVE  Common' /\ ((\E m \in 0 .. 255 : IramByte(m)') \/ IramEnded')
  <1>0. /\ sfr[DP_TGL] = 0 /\ Even /\ MidIram /\ iram[24] = (256 - n) % 256 /\ sfr[PSW] = 24
        /\ Saved(8) /\ Handling(2, 15)
    BY InIramIs, HandlingFrames, SMT DEF IramByte, Even, Framed
  <1>1. CASE PC = 61781 /\ iram[25] = n /\ Points0(IRAM_AREA + n) /\ IramSaved(n)
    <2>1. Op = \he7
      BY <1>1, IramListing DEF At
    <2>2. Steady({A}) /\ sfr'[A] = iram[n] /\ PC' = PC + 1
      BY <1>0, <1>1, <2>1, LoadsA, RegIs DEF Works
    <2>3. {A} \subseteq Works1 /\ DPH0 \notin {A} /\ DPL0 \notin {A}
      BY Names DEF Works1
    <2>4. /\ Common' /\ MidIram' /\ sfr'[DP_TGL] = 0 /\ iram' = iram /\ S' = S /\ sfr0' = sfr0
          /\ iram0' = iram0 /\ Points0(IRAM_AREA + n)' /\ IramSaved(n)'
      BY <1>0, <1>1, <2>2, <2>3, IramWorks
    <2>5. ByteSaved(n, sfr[A])'
      <3>1. ByteSaved(n, sfr'[A])
        BY <1>0, <2>2, ByteOfIram
      <3> QED BY <2>4, <3>1 DEF ByteSaved
    <2>6. PC' = 61782 /\ iram'[24] = (256 - n) % 256 /\ iram'[25] = n
      BY <1>0, <1>1, <2>2, <2>4
    <2>7. IramByte(n)'
      BY <2>4, <2>5, <2>6 DEF IramByte
    <2> QED BY <2>4, <2>7
  <1>2. CASE /\ PC = 61782 /\ iram[25] = n /\ Points0(IRAM_AREA + n) /\ IramSaved(n)
             /\ ByteSaved(n, sfr[A])
    <2>1. Op = \hf0
      BY <1>2, IramListing DEF At
    <2>a. PICK a \in Nat : a = IRAM_AREA + n
      BY DEF IRAM_AREA
    <2>2. Dptr = a
      BY <1>0, <1>2, <2>a, DptrIs, SMT DEF IRAM_AREA
    <2>3. a \notin LowAddr /\ a # SIGNAL
      BY <2>a, BlocksAssumption, SMT DEF LowAddr, SIGNAL, IRAM_AREA
    <2>4. Stores(a)
      BY <1>0, <2>1, <2>2, <2>3, InIramIs, StoresA
    <2>5. /\ Common' /\ sfr0' = sfr0 /\ NotSignalled' /\ Handling(2, 15)' /\ Same(Free \cup {IE})'
          /\ (\A r : sfr'[r] = sfr[r]) /\ (\A d \in 1 .. 16 : Slot(d)' = Slot(d))
          /\ \A b \in 0 .. 255 : iram'[b] = iram[b]
      BY <1>0, <2>4, InIramIs, StoreKept
    <2>6. Copied(2, 256 * XRAM_BLOCKS)'
      <3>1. XRAM_BLOCKS \in 1 .. 32 /\ Blocks(2) = XRAM_BLOCKS
        BY BlocksAssumption, SMT DEF Blocks
      <3>2. 2 \in 0 .. 2 /\ 256 * XRAM_BLOCKS \in 0 .. 256 * Blocks(2)
        BY <3>1, SMT
      <3>3. \A b \in 0 .. 256 * XRAM_BLOCKS - 1 : AREA + b # a
        BY <2>a, <3>1, SMT DEF AREA, IRAM_AREA
      <3>4. Copied(2, 256 * XRAM_BLOCKS)
        BY <1>0, InIramIs
      <3> QED BY <2>4, <3>2, <3>3, <3>4, StoreApart
    <2>7. IramSaved(n)'
      <3>1. \A b \in 0 .. n - 1 : IRAM_AREA + b # a
        BY <2>a, SMT DEF IRAM_AREA
      <3>2. n \in 0 .. 256
        OBVIOUS
      <3>3. IramSaved(n) /\ \A b \in 0 .. n - 1 : IRAM_AREA + b # a
        BY <1>2, <3>1
      <3> QED BY <2>4, <3>2, <3>3, StoreApart
    <2>8. IramSaved(n + 1)'
      <3>1. xram'[IRAM_AREA + n] = sfr[A] /\ S' = S /\ iram0' = iram0 /\ sfr0' = sfr0
        BY <2>4, <2>a DEF Stores
      <3>2. ASSUME NEW b \in 0 .. (n + 1) - 1 PROVE ByteSaved(b, xram[IRAM_AREA + b])'
        <4>1. CASE b \in 0 .. n - 1
          BY <2>7, <4>1 DEF IramSaved
        <4>2. CASE b = n
          BY <1>2, <3>1, <4>2 DEF ByteSaved
        <4> QED BY <4>1, <4>2
      <3> QED BY <3>2 DEF IramSaved
    <2>9. MidIram'
      <3>1. Slot(13)' = Slot(13) /\ Slot(14)' = Slot(14) /\ Slot(15)' = Slot(15)
        BY <2>5, 13 \in 1 .. 16, 14 \in 1 .. 16, 15 \in 1 .. 16
      <3> QED BY <1>0, <2>5, <2>6, <3>1, 12 + 3 = 15, InIramIs DEF MidIram, InIram
    <2>10. Points0(IRAM_AREA + n)' /\ sfr'[DP_TGL] = 0 /\ PC' = 61783
      BY <1>0, <1>2, <2>4, <2>5 DEF Points0, Stores
    <2>11. iram'[24] = (256 - n) % 256 /\ iram'[25] = n
      BY <1>0, <1>2, <2>5, 24 \in 0 .. 255, 25 \in 0 .. 255
    <2>12. IramByte(n)'
      BY <2>8, <2>9, <2>10, <2>11 DEF IramByte
    <2> QED BY <2>5, <2>12
  <1>3. CASE PC = 61783 /\ iram[25] = n /\ Points0(IRAM_AREA + n) /\ IramSaved(n + 1)
    <2>1. Op = \h09
      BY <1>3, IramListing DEF At
    <2>v. PICK v : v = (n + 1) % 256
      OBVIOUS
    <2>2. Counted(1, v) /\ PC' = PC + 1
      BY <1>0, <1>3, <2>1, <2>v, SetsCounter
    <2>3. /\ Common' /\ MidIram' /\ sfr' = sfr /\ iram'[24 + 1] = v
          /\ iram'[24 + (1 - 1)] = iram[24 + (1 - 1)]
          /\ Points0(IRAM_AREA + n)' /\ IramSaved(n + 1)'
      BY <1>0, <1>3, <2>2, IramCounts
    <2>4. /\ PC' = 61784 /\ iram'[24] = (256 - n) % 256 /\ iram'[25] = (n + 1) % 256
          /\ sfr'[DP_TGL] = 0
      BY <1>0, <1>3, <2>2, <2>3, <2>v, 24 + 1 = 25, 24 + (1 - 1) = 24
    <2>5. IramByte(n)'
      BY <2>3, <2>4 DEF IramByte
    <2> QED BY <2>3, <2>5
  <1>4. CASE /\ PC = 61784 /\ iram[25] = (n + 1) % 256 /\ Points0(IRAM_AREA + n)
             /\ IramSaved(n + 1)
    <2>1. Op = \ha3
      BY <1>4, IramListing DEF At
    <2>a. PICK a \in Nat : a = IRAM_AREA + n
      BY DEF IRAM_AREA
    <2>2. Steady({DPH0, DPL0}) /\ Points0(a + 1)' /\ PC' = PC + 1
      BY <1>0, <1>4, <2>1, <2>a, IncsDptr DEF Works
    <2>3. {DPH0, DPL0} \subseteq Works1
      BY DEF Works1
    <2>4. /\ Common' /\ MidIram' /\ sfr'[DP_TGL] = 0 /\ iram' = iram /\ IramSaved(n + 1)'
      BY <1>0, <1>4, <2>2, <2>3, IramWorks
    <2>5. a + 1 = IRAM_AREA + (n + 1)
      BY <2>a, SMT DEF IRAM_AREA
    <2>6. PC' = 61785 /\ iram'[24] = (256 - n) % 256 /\ iram'[25] = (n + 1) % 256
      BY <1>0, <1>4, <2>2, <2>4
    <2>7. IramByte(n)'
      BY <2>2, <2>4, <2>5, <2>6 DEF IramByte
    <2> QED BY <2>4, <2>7
  <1>5. CASE /\ PC = 61785 /\ iram[25] = (n + 1) % 256 /\ Points0(IRAM_AREA + (n + 1))
             /\ IramSaved(n + 1)
    <2>1. Op = \hd8 + 0 /\ Arg1 = \hfa
      BY <1>5, IramListing DEF At1
    <2>u. PICK u : u = (256 - n) % 256
      OBVIOUS
    <2>2. /\ Counted(0, (u - 1) % 256)
          /\ PC' = PC + 2 + (IF (u - 1) % 256 # 0 THEN Relative(Arg1) ELSE 0)
      BY <1>0, <2>1, <2>u, 24 + 0 = 24, CountsDown
    <2>3. /\ (u - 1) % 256 = 255 - n
          /\ n < 255 => 255 - n = (256 - (n + 1)) % 256 /\ (n + 1) % 256 = n + 1
      BY <2>u, SMT
    <2>v. PICK v : v = 255 - n
      OBVIOUS
    <2>4. Counted(0, v)
      BY <2>2, <2>3, <2>v
    <2>5. /\ Common' /\ MidIram' /\ sfr' = sfr /\ iram'[24 + 0] = v
          /\ iram'[24 + (1 - 0)] = iram[24 + (1 - 0)]
          /\ Points0(IRAM_AREA + (n + 1))' /\ IramSaved(n + 1)'
      BY <1>0, <1>5, <2>4, IramCounts
    <2>6. iram'[24] = v /\ iram'[25] = (n + 1) % 256 /\ sfr'[DP_TGL] = 0
      BY <1>0, <1>5, <2>5, 24 + 0 = 24, 24 + (1 - 0) = 25
    <2>7. CASE n < 255
      <3>1. PC' = 61781
        BY <1>5, <2>1, <2>2, <2>3, <2>7, SMT DEF Relative
      <3>2. n + 1 \in 0 .. 255 /\ v = (256 - (n + 1)) % 256 /\ (n + 1) % 256 = n + 1
        BY <2>3, <2>v, <2>7
      <3>3. IramByte(n + 1)'
        BY <2>5, <2>6, <3>1, <3>2 DEF IramByte
      <3> QED BY <2>5, <3>2, <3>3
    <2>8. CASE n = 255
      <3>1. PC' = 61787
        BY <1>5, <2>1, <2>2, <2>3, <2>8, SMT DEF Relative
      <3>2. IramSaved(256)'
        BY <2>5, <2>8, 255 + 1 = 256
      <3>3. Common' /\ MidIram'
        BY <2>5
      <3>4. IramEnded'
        BY <3>1, <3>2, <3>3 DEF IramEnded
      <3> QED BY <3>3, <3>4
    <2> QED BY <2>7, <2>8
  <1>6. \/ PC = 61781 /\ iram[25] = n /\ Points0(IRAM_AREA + n) /\ IramSaved(n)
        \/ /\ PC = 61782 /\ iram[25] = n /\ Points0(IRAM_AREA + n) /\ IramSaved(n)
           /\ ByteSaved(n, sfr[A])
        \/ PC = 61783 /\ iram[25] = n /\ Points0(IRAM_AREA + n) /\ IramSaved(n + 1)
        \/ /\ PC = 61784 /\ iram[25] = (n + 1) % 256 /\ Points0(IRAM_AREA + n)
           /\ IramSaved(n + 1)
        \/ /\ PC = 61785 /\ iram[25] = (n + 1) % 256 /\ Points0(IRAM_AREA + (n + 1))
           /\ IramSaved(n + 1)
    BY SMT DEF IramByte
  <1> QED BY <1>1, <1>2, <1>3, <1>4, <1>5, <1>6, SMT

(* The state is restored and the function returns.                         *)
LEMMA IramEndedStep ==
    ASSUME Common, Step, IramEnded
    PROVE  Common' /\ (IramEnded' \/ RamPoint')
  <1>0. IramSaved(256)
    BY DEF IramEnded
  <1>1. CASE PC = 61787 /\ MidIram
    <2>1. Op = \h75 /\ Arg1 = DP_TGL /\ Arg2 = 0 /\ DP_TGL \in Sfrs
      BY <1>1, IramListing, Registers DEF At2
    <2>2. Steady({DP_TGL}) /\ sfr'[DP_TGL] = 0 /\ PC' = PC + 3
      BY <2>1, SetSfr DEF Works
    <2>3. Common' /\ MidIram' /\ IramSaved(256)'
      BY <1>0, <1>1, <2>2, IramSets
    <2>4. PC' = 61790
      BY <1>1, <2>2
    <2> QED BY <2>2, <2>3, <2>4 DEF IramEnded
  <1>2. CASE PC = 61790 /\ MidIram /\ sfr[DP_TGL] = 0
    <2>1. Op = \hd0 /\ Arg1 = IE
      BY <1>2, IramListing DEF At1
    <2>2. /\ Handling(2, 15) /\ Framed(15) /\ Same(Free \cup {IE}) /\ SP \in Free \cup {IE}
          /\ 15 \in 11 .. 16 /\ IE \in {BANK, IE} /\ Slot(15) = sfr0[IE]
          /\ NotSignalled /\ Slot(13) = Lo(61986) /\ Slot(14) = Hi(61986) /\ Copied(2, 256 * XRAM_BLOCKS)
      BY <1>2, InIramIs, HandlingFrames, PushedRegs
    <2>3. /\ Common' /\ Untouched /\ S' = S /\ Framed(15 - 1)' /\ PC' = PC + 2
          /\ Same((Free \cup {IE}) \ {IE})' /\ sfr'[IE] = sfr0[IE]
          /\ (\A d \in 1 .. 16 : Slot(d)' = Slot(d))
          /\ sfr'[PSW] = sfr[PSW] /\ sfr'[DP_TGL] = sfr[DP_TGL]
      BY <2>1, <2>2, PopKept
    <2>4. /\ Framed(14)' /\ Slot(13)' = Slot(13) /\ Slot(14)' = Slot(14)
          /\ Slot(11)' = Slot(11) /\ Slot(12)' = Slot(12) /\ sfr0' = sfr0
      BY <2>3, 15 - 1 = 14, 13 \in 1 .. 16, 14 \in 1 .. 16, 11 \in 1 .. 16, 12 \in 1 .. 16 DEF Untouched
    <2>5. Handling(2, 14)' /\ NotSignalled' /\ Copied(2, 256 * XRAM_BLOCKS)' /\ IramSaved(256)'
      BY <1>0, <2>2, <2>3, <2>4, HandlingKept, DataKept
    <2>6. Same(Free \cup {IE})'
      BY <2>3 DEF Same
    <2>7. InIram(2)'
      BY <2>2, <2>4, <2>5, <2>6, 12 + 2 = 14 DEF InIram
    <2>8. PC' = 61792 /\ sfr'[DP_TGL] = 0 /\ sfr'[IE] = sfr0'[IE]
      BY <1>2, <2>3, <2>4
    <2> QED BY <2>3, <2>5, <2>7, <2>8 DEF IramEnded
  <1>3. CASE PC = 61792 /\ InIram(2) /\ sfr[DP_TGL] = 0 /\ sfr[IE] = sfr0[IE]
    <2>1. Op = \h22
      BY <1>3, IramListing DEF At
    <2>2. /\ Handling(2, 14) /\ Framed(14) /\ Same(Free \cup {IE})
          /\ 14 \in 12 .. 16 /\ SP \in Free
          /\ NotSignalled /\ Slot(13) = Lo(61986) /\ Slot(14) = Hi(61986) /\ Copied(2, 256 * XRAM_BLOCKS)
      BY <1>3, InIramIs, HandlingFrames, PushedRegs
    <2>3. Same(Free)
      BY <1>3, <2>2 DEF Same
    <2>p. PICK to \in Nat : to = 61986
      OBVIOUS
    <2>4. Slot(14 - 1) = Lo(to) /\ Slot(14) = Hi(to)
      BY <2>2, <2>p, 14 - 1 = 13
    <2>5. /\ Common' /\ Untouched /\ S' = S /\ Framed(14 - 2)' /\ PC' = to /\ Same(Free)'
          /\ (\A d \in 1 .. 16 : Slot(d)' = Slot(d))
          /\ sfr'[PSW] = sfr[PSW] /\ sfr'[DP_TGL] = sfr[DP_TGL]
      BY <2>1, <2>2, <2>3, <2>4, ReturnKept
    <2>6. Framed(12)' /\ Slot(11)' = Slot(11) /\ Slot(12)' = Slot(12)
      BY <2>5, 14 - 2 = 12, 11 \in 1 .. 16, 12 \in 1 .. 16
    <2>7. Handling(2, 12)' /\ NotSignalled' /\ Copied(2, 256 * XRAM_BLOCKS)' /\ IramSaved(256)'
      BY <1>0, <2>2, <2>5, <2>6, HandlingKept, DataKept
    <2>8. PC' = 61986 /\ sfr'[DP_TGL] = 0
      BY <1>3, <2>5, <2>p
    <2> QED BY <2>5, <2>7, <2>8 DEF RamPoint
  <1> QED BY <1>1, <1>2, <1>3 DEF IramEnded

-----------------------------------------------------------------------------
(* The function that copies from one data pointer to the other.             *)
LEMMA Depth ==
    ASSUME NEW h \in 0 .. 2
    PROVE  /\ CopyDepth(h) \in 12 .. 13 /\ CopyStart(h) \in Nat /\ CopyRet(h) \in Nat
           /\ CopyDepth(h) + 1 \in 1 .. 16 /\ CopyDepth(h) + 2 \in 1 .. 16
           /\ CopyDepth(h) + 3 \in 1 .. 16 /\ (h < 2 => 13 \in 1 .. CopyDepth(h))
           /\ From(h) \in Nat
  BY SMT DEF CopyDepth, CopyStart, CopyRet, HandlerStart, From

LEMMA InCopyFacts ==
    ASSUME NEW h \in 0 .. 2, NEW n, InCopy(h, n)
    PROVE  /\ NotSignalled /\ Handling(h, CopyDepth(h) + n) /\ Framed(CopyDepth(h) + n)
           /\ Same(Free \cup {BANK, IE}) /\ sfr[PSW] = 24 /\ Saved(8)
           /\ Slot(CopyDepth(h) + 1) = Lo(CopyRet(h)) /\ Slot(CopyDepth(h) + 2) = Hi(CopyRet(h))
           /\ h < 2 => Slot(13) = sfr0[BANK] /\ sfr[BANK] = Bank(h)
           /\ h = 2 => sfr[BANK] = sfr0[BANK]
  <1>1. /\ NotSignalled /\ Handling(h, CopyDepth(h) + n)
        /\ Same(Free \cup {BANK, IE})
        /\ Slot(CopyDepth(h) + 1) = Lo(CopyRet(h)) /\ Slot(CopyDepth(h) + 2) = Hi(CopyRet(h))
        /\ h < 2 => Slot(13) = sfr0[BANK] /\ sfr[BANK] = Bank(h)
        /\ h = 2 => sfr[BANK] = sfr0[BANK]
    BY DEF InCopy
  <1>2. Framed(CopyDepth(h) + n) /\ sfr[PSW] = 24
    BY <1>1, HandlingFrames
  <1> QED BY <1>1, <1>2 DEF Framed

(* It stays within: the stack and BANK as they are, IE saved.               *)
LEMMA InCopyKept ==
    ASSUME NEW h \in 0 .. 2, NEW n, InCopy(h, n), NEW m, Handling(h, CopyDepth(h) + m)',
           sfr0' = sfr0, Same(Free \cup {BANK, IE})', NotSignalled', sfr'[BANK] = sfr[BANK],
           \A d \in 1 .. CopyDepth(h) + 2 : Slot(d)' = Slot(d)
    PROVE  InCopy(h, m)'
  <1>1. /\ CopyDepth(h) + 1 \in 1 .. CopyDepth(h) + 2 /\ CopyDepth(h) + 2 \in 1 .. CopyDepth(h) + 2
        /\ 13 \in 1 .. CopyDepth(h) + 2
    BY Depth
  <1>2. /\ Slot(CopyDepth(h) + 1)' = Slot(CopyDepth(h) + 1)
        /\ Slot(CopyDepth(h) + 2)' = Slot(CopyDepth(h) + 2) /\ Slot(13)' = Slot(13)
    BY <1>1
  <1> QED BY <1>2, InCopyFacts DEF InCopy

LEMMA MidCopyKept ==
    ASSUME NEW h \in 0 .. 2, MidCopy(h), Untouched, S' = S, Handling(h, CopyDepth(h) + 3)',
           Same(Free \cup {BANK, IE})', sfr'[BANK] = sfr[BANK],
           \A d \in 1 .. 16 : Slot(d)' = Slot(d)
    PROVE  MidCopy(h)' /\ \A n : Copied(h, n) => Copied(h, n)'
  <1>1. InCopy(h, 3) /\ NotSignalled /\ Slot(CopyDepth(h) + 3) = sfr0[IE]
    BY InCopyFacts DEF MidCopy
  <1>2. NotSignalled' /\ sfr0' = sfr0
    BY <1>1, DataKept DEF Untouched
  <1>3. \A d \in 1 .. CopyDepth(h) + 2 : Slot(d)' = Slot(d)
    BY Depth
  <1>4. InCopy(h, 3)'
    BY <1>1, <1>2, <1>3, InCopyKept
  <1>5. Slot(CopyDepth(h) + 3)' = Slot(CopyDepth(h) + 3)
    BY Depth
  <1>6. MidCopy(h)'
    BY <1>1, <1>2, <1>4, <1>5 DEF MidCopy
  <1> QED BY <1>6, DataKept

LEMMA CopyWorks ==
    ASSUME NEW h \in 0 .. 2, MidCopy(h), NEW X, Steady(X), X \subseteq Works1
    PROVE  /\ Common' /\ MidCopy(h)' /\ sfr'[DP_TGL] = sfr[DP_TGL] /\ iram' = iram
           /\ (Even => Even') /\ (Odd => Odd')
           /\ (\A n : Copied(h, n) => Copied(h, n)')
           /\ A \notin X => sfr'[A] = sfr[A]
           /\ \A a : (DPH0 \notin X /\ DPL0 \notin X /\ Points0(a)) => Points0(a)'
           /\ \A a : (DPH1 \notin X /\ DPL1 \notin X /\ Points1(a)) => Points1(a)'
  <1>1. /\ Handling(h, CopyDepth(h) + 3) /\ Same(Free \cup {BANK, IE})
        /\ Free \subseteq Free \cup {BANK, IE}
    BY InCopyFacts DEF MidCopy
  <1>2. /\ Common' /\ Untouched /\ S' = S /\ sfr0' = sfr0 /\ Handling(h, CopyDepth(h) + 3)'
        /\ Same(Free \cup {BANK, IE})'
        /\ iram' = iram /\ (\A d \in 1 .. 16 : Slot(d)' = Slot(d))
        /\ sfr'[DP_TGL] = sfr[DP_TGL] /\ sfr'[BANK] = sfr[BANK]
        /\ A \notin X => sfr'[A] = sfr[A]
        /\ \A a : (DPH0 \notin X /\ DPL0 \notin X /\ Points0(a)) => Points0(a)'
        /\ \A a : (DPH1 \notin X /\ DPL1 \notin X /\ Points1(a)) => Points1(a)'
    BY <1>1, HandlerWorks
  <1>3. MidCopy(h)' /\ \A n : Copied(h, n) => Copied(h, n)'
    BY <1>2, MidCopyKept
  <1>4. (Even => Even') /\ (Odd => Odd')
    BY <1>2 DEF Even, Odd
  <1> QED BY <1>2, <1>3, <1>4

LEMMA CopySets ==
    ASSUME NEW h \in 0 .. 2, MidCopy(h), NEW r \in {DP_TGL, IE}, Steady({r})
    PROVE  /\ Common' /\ MidCopy(h)' /\ iram' = iram /\ sfr'[A] = sfr[A]
           /\ r = IE => sfr'[DP_TGL] = sfr[DP_TGL]
           /\ (\A n : Copied(h, n) => Copied(h, n)')
           /\ (\A a : Points0(a) => Points0(a)') /\ (\A a : Points1(a) => Points1(a)')
  <1>1. Handling(h, CopyDepth(h) + 3) /\ Same(Free \cup {BANK, IE}) /\ r \in Free \cup {BANK, IE}
    BY InCopyFacts, PushedRegs DEF MidCopy
  <1>2. /\ Common' /\ Untouched /\ S' = S /\ sfr0' = sfr0 /\ Handling(h, CopyDepth(h) + 3)'
        /\ Same(Free \cup {BANK, IE})'
        /\ iram' = iram /\ (\A d \in 1 .. 16 : Slot(d)' = Slot(d))
        /\ sfr'[BANK] = sfr[BANK] /\ sfr'[A] = sfr[A]
        /\ r = IE => sfr'[DP_TGL] = sfr[DP_TGL]
        /\ (\A a : Points0(a) => Points0(a)') /\ (\A a : Points1(a) => Points1(a)')
    BY <1>1, HandlerSets
  <1>3. MidCopy(h)' /\ \A n : Copied(h, n) => Copied(h, n)'
    BY <1>2, MidCopyKept
  <1> QED BY <1>2, <1>3

LEMMA CopyToggles ==
    ASSUME Common, Step, NEW h \in 0 .. 2, MidCopy(h), Op = \h05, Arg1 = DP_TGL
    PROVE  /\ Common' /\ MidCopy(h)' /\ iram' = iram /\ sfr'[A] = sfr[A] /\ PC' = PC + 2
           /\ (Even => Odd') /\ (Odd => Even')
           /\ (\A n : Copied(h, n) => Copied(h, n)')
           /\ (\A a : Points0(a) => Points0(a)') /\ (\A a : Points1(a) => Points1(a)')
  <1>1. DP_TGL \in Sfrs /\ DP_TGL \in {DP_TGL, IE}
    BY Registers
  <1>2. Steady({DP_TGL}) /\ sfr'[DP_TGL] = (sfr[DP_TGL] + 1) % 256 /\ PC' = PC + 2
    BY <1>1, SetSfr DEF Works
  <1>3. (Even => Odd') /\ (Odd => Even')
    BY <1>2, Toggles DEF Even, Odd
  <1> QED BY <1>1, <1>2, <1>3, CopySets

LEMMA CopyCounts ==
    ASSUME NEW h \in 0 .. 2, MidCopy(h), NEW k \in {0, 1}, NEW v, Counted(k, v)
    PROVE  /\ Common' /\ MidCopy(h)' /\ sfr' = sfr /\ (Odd => Odd')
           /\ iram'[24 + k] = v /\ iram'[24 + (1 - k)] = iram[24 + (1 - k)]
           /\ (\A n : Copied(h, n) => Copied(h, n)')
           /\ (\A a : Points0(a) => Points0(a)') /\ (\A a : Points1(a) => Points1(a)')
  <1>1. Handling(h, CopyDepth(h) + 3) /\ Same(Free \cup {BANK, IE})
    BY InCopyFacts DEF MidCopy
  <1>2. /\ Common' /\ Untouched /\ S' = S /\ sfr0' = sfr0 /\ Handling(h, CopyDepth(h) + 3)'
        /\ Same(Free \cup {BANK, IE})'
        /\ sfr' = sfr /\ (\A d \in 1 .. 16 : Slot(d)' = Slot(d))
        /\ iram'[24 + k] = v /\ iram'[24 + (1 - k)] = iram[24 + (1 - k)]
        /\ (\A a : Points0(a) => Points0(a)') /\ (\A a : Points1(a) => Points1(a)')
    BY <1>1, HandlerCounts
  <1>3. MidCopy(h)' /\ \A n : Copied(h, n) => Copied(h, n)'
    BY <1>2, MidCopyKept
  <1> QED BY <1>2, <1>3 DEF Odd

(* Interrupts off, the pointers set, the counters to the blocks and to 256.*)
LEMMA CopyBeginsStep ==
    ASSUME Common, Step, NEW h \in 0 .. 2, CopyBegins(h)
    PROVE  Common' /\ (CopyBegins(h)' \/ CopyBlock(h, 0)')
  <1>s. PICK cs \in Nat : cs = CopyStart(h)
    BY Depth
  <1>d. PICK dep \in 12 .. 13 : dep = CopyDepth(h)
    BY Depth
  <1>1. CASE PC = CopyStart(h) /\ InCopy(h, 2) /\ sfr[DP_TGL] = 0 /\ sfr[IE] = sfr0[IE]
    <2>1. Op = \hc0 /\ Arg1 = IE
      BY <1>1, CopyListing DEF At1
    <2>2. /\ Handling(h, dep + 2) /\ Framed(dep + 2) /\ Same(Free \cup {BANK, IE})
          /\ SP \in Free \cup {BANK, IE} /\ dep + 2 \in 10 .. 15 /\ IE \in Sfrs /\ NotSignalled
      BY <1>1, <1>d, InCopyFacts, PushedRegs, Registers
    <2>3. /\ Common' /\ Untouched /\ S' = S /\ Framed((dep + 2) + 1)' /\ PC' = PC + 2
          /\ Same(Free \cup {BANK, IE})'
          /\ Slot((dep + 2) + 1)' = sfr[IE] /\ (\A d \in 1 .. dep + 2 : Slot(d)' = Slot(d))
          /\ sfr'[PSW] = sfr[PSW] /\ sfr'[DP_TGL] = sfr[DP_TGL] /\ sfr'[BANK] = sfr[BANK]
      BY <2>1, <2>2, PushKept
    <2>4. (dep + 2) + 1 = dep + 3 /\ 11 \in 1 .. dep + 2 /\ 12 \in 1 .. dep + 2
      OBVIOUS
    <2>5. /\ Framed(dep + 3)' /\ Slot(dep + 3)' = sfr[IE]
          /\ Slot(11)' = Slot(11) /\ Slot(12)' = Slot(12) /\ sfr0' = sfr0
      BY <2>3, <2>4 DEF Untouched
    <2>6. Handling(h, dep + 3)' /\ NotSignalled'
      BY <2>2, <2>3, <2>5, HandlingKept, DataKept
    <2>7. InCopy(h, 3)'
      BY <1>1, <1>d, <2>3, <2>5, <2>6, InCopyKept
    <2>8. MidCopy(h)'
      BY <1>1, <1>d, <2>5, <2>7 DEF MidCopy
    <2>9. PC' = CopyStart(h) + 2 /\ sfr'[DP_TGL] = 0
      BY <1>1, <2>3
    <2> QED BY <2>3, <2>8, <2>9 DEF CopyBegins
  <1>2. CASE MidCopy(h) /\ PC = CopyStart(h) + 2 /\ sfr[DP_TGL] = 0
    <2>1. Op = \h75 /\ Arg1 = IE /\ IE \in Sfrs /\ IE \in {DP_TGL, IE}
      BY <1>2, CopyListing, Registers DEF At2
    <2>2. Steady({IE}) /\ PC' = PC + 3
      BY <2>1, SetSfr DEF Works
    <2>3. Common' /\ MidCopy(h)' /\ sfr'[DP_TGL] = 0
      BY <1>2, <2>1, <2>2, CopySets
    <2>4. PC' = CopyStart(h) + 5
      BY <1>2, <1>s, <2>2
    <2> QED BY <2>3, <2>4 DEF CopyBegins
  <1>3. CASE MidCopy(h) /\ PC = CopyStart(h) + 5 /\ sfr[DP_TGL] = 0
    <2>1. Op = \h90 /\ Arg1 = Hi(AREA) /\ Arg2 = Lo(AREA)
      BY <1>3, CopyListing DEF At2
    <2>2. 256 * Hi(AREA) + Lo(AREA) = AREA /\ Even
      BY <1>3, HiLo, SMT DEF AREA, Even
    <2>3. Steady({DPH0, DPL0}) /\ Points0(AREA)' /\ PC' = PC + 3
      BY <2>1, <2>2, MovesDptr, SMT DEF Works, Points0
    <2>4. {DPH0, DPL0} \subseteq Works1
      BY DEF Works1
    <2>5. Common' /\ MidCopy(h)' /\ sfr'[DP_TGL] = 0
      BY <1>3, <2>3, <2>4, CopyWorks
    <2>6. PC' = CopyStart(h) + 8
      BY <1>3, <1>s, <2>3
    <2> QED BY <2>3, <2>5, <2>6 DEF CopyBegins
  <1>4. CASE MidCopy(h) /\ PC = CopyStart(h) + 8 /\ sfr[DP_TGL] = 0 /\ Points0(AREA)
    <2>1. Op = \h05 /\ Arg1 = DP_TGL /\ DP_TGL \in Sfrs /\ DP_TGL \in {DP_TGL, IE}
      BY <1>4, CopyListing, Registers DEF At1
    <2>2. Steady({DP_TGL}) /\ sfr'[DP_TGL] = 1 /\ PC' = PC + 2
      BY <1>4, <2>1, SetSfr, SMT DEF Works
    <2>3. Common' /\ MidCopy(h)' /\ Points0(AREA)'
      BY <1>4, <2>1, <2>2, CopySets
    <2>4. PC' = CopyStart(h) + 10
      BY <1>4, <1>s, <2>2
    <2> QED BY <2>2, <2>3, <2>4 DEF CopyBegins
  <1>5. CASE MidCopy(h) /\ PC = CopyStart(h) + 10 /\ sfr[DP_TGL] = 1 /\ Points0(AREA)
    <2>1. Op = \h90 /\ Arg1 = Hi(From(h)) /\ Arg2 = Lo(From(h))
      BY <1>5, CopyListing DEF At2
    <2>2. 256 * Hi(From(h)) + Lo(From(h)) = From(h)
      BY HiLo, Depth
    <2>o. Odd
      BY <1>5, SMT DEF Odd
    <2>3. Steady({DPH1, DPL1}) /\ Points1(From(h))' /\ PC' = PC + 3
      BY <2>1, <2>2, <2>o, MovesDptr, SMT DEF Works, Points1
    <2>4. {DPH1, DPL1} \subseteq Works1 /\ DPH0 \notin {DPH1, DPL1} /\ DPL0 \notin {DPH1, DPL1}
      BY Names DEF Works1
    <2>5. Common' /\ MidCopy(h)' /\ sfr'[DP_TGL] = 1 /\ Points0(AREA)'
      BY <1>5, <2>3, <2>4, CopyWorks
    <2>6. PC' = CopyStart(h) + 13
      BY <1>5, <1>s, <2>3
    <2> QED BY <2>3, <2>5, <2>6 DEF CopyBegins
  <1>6. CASE /\ MidCopy(h) /\ PC = CopyStart(h) + 13 /\ sfr[DP_TGL] = 1 /\ Points0(AREA)
             /\ Points1(From(h))
    <2>1. Op = \h78 /\ Arg1 = Blocks(h)
      BY <1>6, CopyListing DEF At1
    <2>o. Odd /\ sfr[PSW] = 24
      BY <1>6, InCopyFacts, SMT DEF Odd, MidCopy
    <2>v. PICK v : v = Blocks(h)
      OBVIOUS
    <2>2. Counted(0, v) /\ PC' = PC + 2
      BY <2>1, <2>o, <2>v, SetsCounter
    <2>3. /\ Common' /\ MidCopy(h)' /\ Odd' /\ iram'[24 + 0] = v
          /\ Points0(AREA)' /\ Points1(From(h))'
      BY <1>6, <2>2, <2>o, CopyCounts
    <2>4. PC' = CopyStart(h) + 15 /\ iram'[24] = Blocks(h) - 0
      BY <1>6, <1>s, <2>2, <2>3, <2>v, BlockRange, 24 + 0 = 24
    <2>5. Reached(h, 256 * 0)' /\ Copied(h, 256 * 0)'
      <3>1. AREA + 256 * 0 = AREA /\ From(h) + 256 * 0 = From(h)
        BY Depth DEF AREA
      <3>2. Copied(h, 256 * 0)'
        BY SMT DEF Copied
      <3> QED BY <2>3, <3>1, <3>2 DEF Reached
    <2> QED BY <2>3, <2>4, <2>5 DEF CopyBlock
  <1> QED BY <1>1, <1>2, <1>3, <1>4, <1>5, <1>6 DEF CopyBegins

(* A block more or the end.                                                *)
LEMMA CopyBlockStep ==
    ASSUME Common, Step, NEW h \in 0 .. 2, NEW z \in 0 .. Blocks(h) - 1, CopyBlock(h, z)
    PROVE  /\ Common'
           /\ \/ CopyByte(h, z, 0)' \/ CopyEnded(h)'
              \/ \E m \in 0 .. Blocks(h) - 1 : CopyBlock(h, m)'
  <1>0. MidCopy(h) /\ iram[24] = Blocks(h) - z /\ Odd /\ sfr[PSW] = 24
    BY InCopyFacts DEF CopyBlock, MidCopy
  <1>s. PICK cs \in Nat : cs = CopyStart(h)
    BY Depth
  <1>b. PICK bl \in 1 .. 128 : bl = Blocks(h)
    BY BlockRange
  <1>1. CASE PC = CopyStart(h) + 15 /\ Reached(h, 256 * z) /\ Copied(h, 256 * z)
    <2>1. Op = \h79 /\ Arg1 = 0
      BY <1>1, CopyListing DEF At1
    <2>2. Counted(1, 0) /\ PC' = PC + 2
      BY <1>0, <2>1, SetsCounter
    <2>3. /\ Common' /\ MidCopy(h)' /\ Odd' /\ iram'[24 + 1] = 0
          /\ iram'[24 + (1 - 1)] = iram[24 + (1 - 1)]
          /\ (\A n : Copied(h, n) => Copied(h, n)')
          /\ (\A a : Points0(a) => Points0(a)') /\ (\A a : Points1(a) => Points1(a)')
      BY <1>0, <2>2, CopyCounts
    <2>4. Reached(h, 256 * z)' /\ Copied(h, 256 * z)'
      BY <1>1, <2>3 DEF Reached
    <2>5. 256 * z = 256 * z + 0
      BY <1>b
    <2>6. /\ PC' = CopyStart(h) + 17 /\ iram'[24] = Blocks(h) - z /\ iram'[25] = (256 - 0) % 256
      BY <1>0, <1>1, <1>s, <2>2, <2>3, SMT
    <2>7. Reached(h, 256 * z + 0)' /\ Copied(h, 256 * z + 0)'
      BY <2>4, <2>5
    <2>8. CopyByte(h, z, 0)'
      BY <2>3, <2>6, <2>7 DEF CopyByte
    <2> QED BY <2>3, <2>8
  <1>2. CASE PC = CopyStart(h) + 28 /\ Reached(h, 256 * (z + 1)) /\ Copied(h, 256 * (z + 1))
    <2>1. Op = \hd8 + 0 /\ Arg1 = \hf1
      BY <1>2, CopyListing DEF At1
    <2>u. PICK u : u = iram[24]
      OBVIOUS
    <2>2. /\ Counted(0, (u - 1) % 256)
          /\ PC' = PC + 2 + (IF (u - 1) % 256 # 0 THEN Relative(Arg1) ELSE 0)
      BY <1>0, <2>1, <2>u, 24 + 0 = 24, CountsDown
    <2>3. (u - 1) % 256 = bl - (z + 1)
      <3>1. PICK x \in 0 .. 127 : x = bl - (z + 1)
        BY <1>b
      <3>2. u - 1 = x /\ x % 256 = x
        BY <1>0, <1>b, <2>u, <3>1
      <3> QED BY <3>1, <3>2
    <2>v. PICK v : v = bl - (z + 1)
      OBVIOUS
    <2>4. Counted(0, v)
      BY <2>2, <2>3, <2>v
    <2>5. /\ Common' /\ MidCopy(h)' /\ Odd' /\ iram'[24 + 0] = v
          /\ (\A n : Copied(h, n) => Copied(h, n)')
          /\ (\A a : Points0(a) => Points0(a)') /\ (\A a : Points1(a) => Points1(a)')
      BY <1>0, <2>4, CopyCounts
    <2>6. Reached(h, 256 * (z + 1))' /\ Copied(h, 256 * (z + 1))' /\ iram'[24] = Blocks(h) - (z + 1)
      BY <1>2, <1>b, <2>5, <2>v, 24 + 0 = 24 DEF Reached
    <2>7. CASE z + 1 < bl
      <3>1. PC' = CopyStart(h) + 15
        BY <1>2, <1>s, <2>1, <2>2, <2>3, <2>7, SMT DEF Relative
      <3>2. z + 1 \in 0 .. Blocks(h) - 1
        BY <1>b, <2>7
      <3>3. CopyBlock(h, z + 1)'
        BY <2>5, <2>6, <3>1 DEF CopyBlock
      <3> QED BY <2>5, <3>2, <3>3
    <2>8. CASE ~(z + 1 < bl)
      <3>1. z + 1 = bl
        BY <1>b, <2>8
      <3>2. PC' = CopyStart(h) + 30
        BY <1>2, <1>s, <2>1, <2>2, <2>3, <3>1, SMT DEF Relative
      <3>3. Copied(h, 256 * Blocks(h))'
        BY <1>b, <2>6, <3>1
      <3>4. CopyEnded(h)'
        BY <2>5, <3>2, <3>3 DEF CopyEnded
      <3> QED BY <2>5, <3>4
    <2> QED BY <2>7, <2>8
  <1> QED BY <1>1, <1>2 DEF CopyBlock

(* The state is restored and the function returns to its handler.          *)
LEMMA CopyEndedStep ==
    ASSUME Common, Step, NEW h \in 0 .. 2, CopyEnded(h)
    PROVE  /\ Common'
           /\ \/ CopyEnded(h)'
              \/ h < 2 /\ BankPoint(h)'
              \/ h = 2 /\ RamPoint'
  <1>0. Copied(h, 256 * Blocks(h))
    BY DEF CopyEnded
  <1>s. PICK cs \in Nat : cs = CopyStart(h)
    BY Depth
  <1>d. PICK dep \in 12 .. 13 : dep = CopyDepth(h)
    BY Depth
  <1>1. CASE PC = CopyStart(h) + 30 /\ MidCopy(h)
    <2>1. Op = \h75 /\ Arg1 = DP_TGL /\ Arg2 = 0 /\ DP_TGL \in Sfrs /\ DP_TGL \in {DP_TGL, IE}
      BY <1>1, CopyListing, Registers DEF At2
    <2>2. Steady({DP_TGL}) /\ sfr'[DP_TGL] = 0 /\ PC' = PC + 3
      BY <2>1, SetSfr DEF Works
    <2>3. Common' /\ MidCopy(h)' /\ Copied(h, 256 * Blocks(h))'
      BY <1>0, <1>1, <2>1, <2>2, CopySets
    <2>4. PC' = CopyStart(h) + 33
      BY <1>1, <1>s, <2>2
    <2> QED BY <2>2, <2>3, <2>4 DEF CopyEnded
  <1>2. CASE PC = CopyStart(h) + 33 /\ MidCopy(h) /\ sfr[DP_TGL] = 0
    <2>1. Op = \hd0 /\ Arg1 = IE
      BY <1>2, CopyListing DEF At1
    <2>2. /\ Handling(h, dep + 3) /\ Framed(dep + 3) /\ Same(Free \cup {BANK, IE})
          /\ SP \in Free \cup {BANK, IE} /\ dep + 3 \in 11 .. 16 /\ IE \in {BANK, IE}
          /\ Slot(dep + 3) = sfr0[IE] /\ NotSignalled /\ InCopy(h, 3)
      BY <1>2, <1>d, InCopyFacts, PushedRegs DEF MidCopy
    <2>3. /\ Common' /\ Untouched /\ S' = S /\ Framed((dep + 3) - 1)' /\ PC' = PC + 2
          /\ Same((Free \cup {BANK, IE}) \ {IE})' /\ sfr'[IE] = sfr0[IE]
          /\ (\A d \in 1 .. 16 : Slot(d)' = Slot(d))
          /\ sfr'[PSW] = sfr[PSW] /\ sfr'[DP_TGL] = sfr[DP_TGL] /\ sfr'[BANK] = sfr[BANK]
      BY <2>1, <2>2, PopKept
    <2>4. /\ Framed(dep + 2)' /\ Slot(11)' = Slot(11) /\ Slot(12)' = Slot(12) /\ sfr0' = sfr0
      BY <2>3, (dep + 3) - 1 = dep + 2, 11 \in 1 .. 16, 12 \in 1 .. 16 DEF Untouched
    <2>5. Handling(h, dep + 2)' /\ NotSignalled' /\ Copied(h, 256 * Blocks(h))'
      BY <1>0, <2>2, <2>3, <2>4, HandlingKept, DataKept
    <2>6. Same(Free \cup {BANK, IE})'
      BY <2>3 DEF Same
    <2>7. \A d \in 1 .. CopyDepth(h) + 2 : Slot(d)' = Slot(d)
      BY <2>3, Depth
    <2>8. InCopy(h, 2)'
      BY <1>d, <2>2, <2>3, <2>4, <2>5, <2>6, <2>7, InCopyKept
    <2>9. PC' = CopyStart(h) + 35 /\ sfr'[DP_TGL] = 0 /\ sfr'[IE] = sfr0'[IE]
      BY <1>2, <1>s, <2>3, <2>4
    <2> QED BY <2>3, <2>5, <2>8, <2>9 DEF CopyEnded
  <1>3. CASE PC = CopyStart(h) + 35 /\ InCopy(h, 2) /\ sfr[DP_TGL] = 0 /\ sfr[IE] = sfr0[IE]
    <2>1. Op = \h22
      BY <1>3, CopyListing DEF At
    <2>2. /\ Handling(h, dep + 2) /\ Framed(dep + 2) /\ Same(Free \cup {BANK, IE})
          /\ dep + 2 \in 12 .. 16 /\ SP \in Free \cup {BANK} /\ NotSignalled
          /\ Slot(dep + 1) = Lo(CopyRet(h)) /\ Slot(dep + 2) = Hi(CopyRet(h))
          /\ h < 2 => Slot(13) = sfr0[BANK] /\ sfr[BANK] = Bank(h)
          /\ h = 2 => sfr[BANK] = sfr0[BANK]
      BY <1>3, <1>d, InCopyFacts, PushedRegs
    <2>3. Same(Free \cup {BANK}) /\ CopyRet(h) \in Nat
      BY <1>3, <2>2, Depth DEF Same
    <2>4. Slot((dep + 2) - 1) = Lo(CopyRet(h))
      BY <2>2, (dep + 2) - 1 = dep + 1
    <2>5. /\ Common' /\ Untouched /\ S' = S /\ Framed((dep + 2) - 2)' /\ PC' = CopyRet(h)
          /\ Same(Free \cup {BANK})'
          /\ (\A d \in 1 .. 16 : Slot(d)' = Slot(d))
          /\ sfr'[PSW] = sfr[PSW] /\ sfr'[DP_TGL] = sfr[DP_TGL] /\ sfr'[BANK] = sfr[BANK]
      BY <2>1, <2>2, <2>3, <2>4, ReturnKept
    <2>6. /\ Framed(dep)' /\ Slot(11)' = Slot(11) /\ Slot(12)' = Slot(12) /\ Slot(13)' = Slot(13)
          /\ sfr0' = sfr0
      BY <2>5, (dep + 2) - 2 = dep, 11 \in 1 .. 16, 12 \in 1 .. 16, 13 \in 1 .. 16 DEF Untouched
    <2>7. Handling(h, dep)' /\ NotSignalled' /\ Copied(h, 256 * Blocks(h))' /\ sfr'[DP_TGL] = 0
      BY <1>0, <1>3, <2>2, <2>5, <2>6, HandlingKept, DataKept
    <2>8. CASE h < 2
      <3>1. dep = 13 /\ PC' = HandlerStart(h) + 8
        BY <1>d, <2>5, <2>8 DEF CopyDepth, CopyRet
      <3>2. Handling(h, 13)' /\ Slot(13)' = sfr0'[BANK]
        BY <2>2, <2>6, <2>7, <2>8, <3>1
      <3>3. BankPoint(h)'
        BY <2>5, <2>7, <3>1, <3>2 DEF BankPoint
      <3> QED BY <2>5, <2>8, <3>3
    <2>9. CASE ~(h < 2)
      <3>1. h = 2
        BY <2>9
      <3>2. dep = 12 /\ PC' = 61983 /\ Blocks(h) = XRAM_BLOCKS
        BY <1>d, <2>5, <2>9 DEF CopyDepth, CopyRet, Blocks
      <3>3. Handling(2, 12)' /\ Copied(2, 256 * XRAM_BLOCKS)'
        BY <2>7, <3>1, <3>2
      <3>4. Same(Free)'
        <4>1. sfr'[BANK] = sfr0'[BANK]
          BY <2>2, <2>5, <2>6, <3>1
        <4> QED BY <2>5, <4>1 DEF Same
      <3>5. RamPoint'
        BY <2>7, <3>2, <3>3, <3>4 DEF RamPoint
      <3> QED BY <2>5, <3>1, <3>5
    <2> QED BY <2>8, <2>9
  <1> QED BY <1>1, <1>2, <1>3 DEF CopyEnded

(* The byte that is read is that of the source.                            *)
LEMMA ByteRead ==
    ASSUME Common, Step, NEW h \in 0 .. 2, NEW n \in 0 .. 256 * Blocks(h) - 1,
           MidCopy(h), Op = ReadOp(h), Odd, Points1(From(h) + n), sfr[A] = 0
    PROVE  Works(1, {A}) /\ sfr'[A] = Source(h, n)
  <1>b. PICK bl \in 1 .. 128 : bl = Blocks(h)
    BY BlockRange
  <1>1. n \in Nat /\ n < 256 * bl /\ n < 32768
    <2>1. n \in 0 .. 256 * bl - 1
      BY <1>b
    <2> QED BY <2>1, SMT
  <1>2. InCopy(h, 3)
    BY DEF MidCopy
  <1>3. CASE h < 2
    <2>1. Op = \h93 /\ From(h) = 32768 /\ sfr[BANK] = Bank(h)
      BY <1>2, <1>3, InCopyFacts DEF ReadOp, From
    <2>2. Dptr = 32768 + n
      <3>1. PICK a \in Nat : a = 32768 + n
        OBVIOUS
      <3>2. Points1(a)
        BY <2>1, <3>1
      <3>3. a % 65536 = a
        BY <1>1, <3>1, SMT
      <3> QED BY <3>1, <3>2, <3>3, DptrIs
    <2>3. sfr[A] + Dptr = 32768 + n
      BY <2>2
    <2>4. Works(1, {A}) /\ sfr'[A] = Pmem(Bank(h), 32768 + n)
      BY <2>1, <2>3, LoadsA
    <2>5. Source(h, n) = Pmem(Bank(h), 32768 + n)
      BY <1>3, SMT DEF Source
    <2> QED BY <2>4, <2>5
  <1>4. CASE ~(h < 2)
    <2>1. h = 2
      BY <1>4
    <2>2. Op = \he0 /\ From(h) = 0 /\ Blocks(h) = XRAM_BLOCKS
      BY <1>4 DEF ReadOp, From, Blocks
    <2>3. Dptr = n
      <3>1. Points1(n)
        BY <2>2, 0 + n = n
      <3>2. n % 65536 = n
        BY <1>1, SMT
      <3> QED BY <3>1, <3>2, DptrIs
    <2>4. n \in LowAddr
      BY <1>1, <1>b, <2>2 DEF LowAddr
    <2>5. Works(1, {A}) /\ sfr'[A] = xram[n]
      BY <2>2, <2>3, LoadsA
    <2>6. xram[n] = LowXram[n]
      BY <2>4 DEF Common, LowKept
    <2> QED BY <2>1, <2>5, <2>6 DEF Source
  <1> QED BY <1>3, <1>4

(* ... and is stored behind those that have been copied.                   *)
LEMMA ByteStored ==
    ASSUME Common, Step, NEW h \in 0 .. 2, NEW n \in 0 .. 256 * Blocks(h) - 1,
           MidCopy(h), Op = \hf0, Even, Points0(AREA + n),
           Copied(h, n), sfr[A] = Source(h, n)
    PROVE  /\ Common' /\ MidCopy(h)' /\ PC' = PC + 1 /\ Even'
           /\ Copied(h, n + 1)'
           /\ iram'[24] = iram[24] /\ iram'[25] = iram[25]
           /\ \A c : Points0(c) => Points0(c)'
           /\ \A c : Points1(c) => Points1(c)'
  <1>b. PICK bl \in 1 .. 128 : bl = Blocks(h) /\ (h = 2 => bl \in 1 .. 32)
    BY BlockRange
  <1>1. n \in Nat /\ n \in 0 .. 256 * bl - 1 /\ n < 32768
    <2>1. n \in 0 .. 256 * bl - 1
      BY <1>b
    <2> QED BY <2>1, SMT
  <1>a. PICK a \in Nat : a = AREA + n
    BY <1>1 DEF AREA
  <1>2. Dptr = a
    <2>1. Points0(a)
      BY <1>a
    <2>2. a % 65536 = a
      BY <1>a, <1>1, SMT DEF AREA
    <2> QED BY <2>1, <2>2, DptrIs
  <1>3. a \notin LowAddr /\ a # SIGNAL
    BY <1>a, <1>1, BlocksAssumption, SMT DEF LowAddr, SIGNAL, AREA
  <1>4. InCopy(h, 3) /\ NotSignalled /\ Handling(h, CopyDepth(h) + 3) /\ Same(Free \cup {BANK, IE})
    BY InCopyFacts DEF MidCopy
  <1>5. Stores(a)
    BY <1>2, <1>3, <1>4, StoresA
  <1>6. /\ Common' /\ sfr0' = sfr0 /\ NotSignalled' /\ Handling(h, CopyDepth(h) + 3)'
        /\ Same(Free \cup {BANK, IE})'
        /\ (\A r : sfr'[r] = sfr[r]) /\ (\A d \in 1 .. 16 : Slot(d)' = Slot(d))
        /\ \A b \in 0 .. 255 : iram'[b] = iram[b]
    BY <1>4, <1>5, StoreKept
  <1>7. InCopy(h, 3)'
    <2>1. \A d \in 1 .. CopyDepth(h) + 2 : Slot(d)' = Slot(d)
      BY <1>6, Depth
    <2> QED BY <1>4, <1>6, <2>1, InCopyKept
  <1>8. MidCopy(h)'
    <2>1. Slot(CopyDepth(h) + 3)' = Slot(CopyDepth(h) + 3)
      BY <1>6, Depth
    <2> QED BY <1>6, <1>7, <2>1 DEF MidCopy
  <1>9. Copied(h, n)'
    <2>1. n \in 0 .. 256 * Blocks(h)
      BY <1>1, <1>b
    <2>2. Copied(h, n) /\ \A b \in 0 .. n - 1 : AREA + b # a
      BY <1>a, SMT DEF AREA
    <2> QED BY <1>5, <2>1, <2>2, StoreApart
  <1>10. Copied(h, n + 1)'
    <2>1. xram'[AREA + n] = Source(h, n)
      BY <1>5, <1>a DEF Stores
    <2>2. ASSUME NEW b \in 0 .. (n + 1) - 1 PROVE xram'[AREA + b] = Source(h, b)
      <3>1. CASE b \in 0 .. n - 1
        BY <1>9, <3>1 DEF Copied, Source, Bank
      <3>2. CASE b = n
        BY <2>1, <3>2
      <3> QED BY <3>1, <3>2
    <2> QED BY <2>2 DEF Copied, Source, Bank
  <1>11. Even' /\ (\A c : Points0(c) => Points0(c)') /\ (\A c : Points1(c) => Points1(c)')
    BY <1>6 DEF Even, Points0, Points1
  <1>12. iram'[24] = iram[24] /\ iram'[25] = iram[25] /\ PC' = PC + 1
    BY <1>5, <1>6, 24 \in 0 .. 255, 25 \in 0 .. 255 DEF Stores
  <1> QED BY <1>6, <1>8, <1>10, <1>11, <1>12

(* One byte is read by one pointer, written by the other, and both move on.*)
LEMMA CopyByteStep ==
    ASSUME Common, Step, NEW h \in 0 .. 2, NEW z \in 0 .. Blocks(h) - 1, NEW j \in 0 .. 255,
           CopyByte(h, z, j)
    PROVE  Common' /\ (CopyBlock(h, z)' \/ \E m \in 0 .. 255 : CopyByte(h, z, m)')
  <1> DEFINE n == 256 * z + j
  <1>0. /\ MidCopy(h) /\ iram[24] = Blocks(h) - z /\ iram[25] = (256 - j) % 256 /\ sfr[PSW] = 24
    BY InCopyFacts DEF CopyByte, MidCopy
  <1>s. PICK cs \in Nat : cs = CopyStart(h)
    BY Depth
  <1>b. PICK bl \in 1 .. 128 : bl = Blocks(h)
    BY BlockRange
  <1>n. /\ n \in Nat /\ AREA + n \in Nat /\ From(h) + n \in Nat
        /\ (AREA + n) + 1 = AREA + (n + 1) /\ (From(h) + n) + 1 = From(h) + (n + 1)
    BY <1>b, Depth DEF AREA
  <1>m. n \in 0 .. 256 * Blocks(h) - 1
    <2>1. z \in 0 .. bl - 1
      BY <1>b
    <2> QED BY <1>b, <2>1, SMT
  <1>p. PICK p \in 0 .. 256 * Blocks(h) - 1 : p = n
    BY <1>m
  <1>1. CASE PC = CopyStart(h) + 17 /\ Odd /\ Reached(h, n) /\ Copied(h, n)
    <2>1. Op = \he4
      BY <1>1, CopyListing DEF At
    <2>2. Steady({A}) /\ sfr'[A] = 0 /\ PC' = PC + 1
      BY <2>1, LoadsA DEF Works
    <2>3. /\ {A} \subseteq Works1 /\ DPH0 \notin {A} /\ DPL0 \notin {A}
          /\ DPH1 \notin {A} /\ DPL1 \notin {A}
      BY Names DEF Works1
    <2>4. /\ Common' /\ MidCopy(h)' /\ iram' = iram /\ Odd' /\ Copied(h, n)' /\ Reached(h, n)'
      BY <1>0, <1>1, <2>2, <2>3, CopyWorks DEF Reached
    <2>5. PC' = CopyStart(h) + 18
      BY <1>1, <1>s, <2>2
    <2>6. CopyByte(h, z, j)'
      BY <1>0, <2>2, <2>4, <2>5 DEF CopyByte
    <2> QED BY <2>4, <2>6
  <1>2. CASE PC = CopyStart(h) + 18 /\ Odd /\ Reached(h, n) /\ Copied(h, n) /\ sfr[A] = 0
    <2>1. Op = ReadOp(h)
      BY <1>2, CopyListing DEF At
    <2>2. Steady({A}) /\ sfr'[A] = Source(h, n) /\ PC' = PC + 1
      <3>1. Points1(From(h) + p)
        BY <1>2, <1>p DEF Reached
      <3>2. Steady({A}) /\ sfr'[A] = Source(h, p) /\ PC' = PC + 1
        BY <1>0, <1>2, <2>1, <3>1, ByteRead DEF Works
      <3> QED BY <1>p, <3>2
    <2>3. /\ {A} \subseteq Works1 /\ DPH0 \notin {A} /\ DPL0 \notin {A}
          /\ DPH1 \notin {A} /\ DPL1 \notin {A}
      BY Names DEF Works1
    <2>4. /\ Common' /\ MidCopy(h)' /\ iram' = iram /\ Odd' /\ Copied(h, n)' /\ Reached(h, n)'
      BY <1>0, <1>2, <2>2, <2>3, CopyWorks DEF Reached
    <2>5. PC' = CopyStart(h) + 19
      BY <1>2, <1>s, <2>2
    <2>6. CopyByte(h, z, j)'
      BY <1>0, <2>2, <2>4, <2>5 DEF CopyByte, Source, Bank
    <2> QED BY <2>4, <2>6
  <1>3. CASE /\ PC = CopyStart(h) + 19 /\ Odd /\ Reached(h, n) /\ Copied(h, n)
             /\ sfr[A] = Source(h, n)
    <2>1. Op = \ha3
      BY <1>3, CopyListing DEF At
    <2>a. PICK a \in Nat : a = From(h) + n
      BY <1>n
    <2>2. Steady({DPH1, DPL1}) /\ Points1(a + 1)' /\ PC' = PC + 1
      BY <1>3, <2>1, <2>a, IncsDptr DEF Works, Reached
    <2>3. /\ {DPH1, DPL1} \subseteq Works1 /\ DPH0 \notin {DPH1, DPL1} /\ DPL0 \notin {DPH1, DPL1}
          /\ A \notin {DPH1, DPL1}
      BY Names DEF Works1
    <2>4. /\ Common' /\ MidCopy(h)' /\ iram' = iram /\ Odd' /\ Copied(h, n)' /\ Points0(AREA + n)'
          /\ sfr'[A] = sfr[A]
      BY <1>0, <1>3, <2>2, <2>3, CopyWorks DEF Reached
    <2>5. PC' = CopyStart(h) + 20 /\ Points1(From(h) + (n + 1))'
      BY <1>3, <1>s, <1>n, <2>a, <2>2
    <2>6. CopyByte(h, z, j)'
      BY <1>0, <1>3, <2>4, <2>5 DEF CopyByte, Source, Bank
    <2> QED BY <2>4, <2>6
  <1>4. CASE /\ PC = CopyStart(h) + 20 /\ Odd /\ Points0(AREA + n) /\ Points1(From(h) + (n + 1))
             /\ Copied(h, n) /\ sfr[A] = Source(h, n)
    <2>1. Op = \h05 /\ Arg1 = DP_TGL
      BY <1>4, CopyListing DEF At1
    <2>4. /\ Common' /\ MidCopy(h)' /\ iram' = iram /\ Even' /\ Copied(h, n)' /\ Points0(AREA + n)'
          /\ Points1(From(h) + (n + 1))' /\ sfr'[A] = sfr[A] /\ PC' = PC + 2
      BY <1>0, <1>4, <2>1, CopyToggles
    <2>5. PC' = CopyStart(h) + 22
      BY <1>4, <1>s, <2>4
    <2>6. CopyByte(h, z, j)'
      BY <1>0, <1>4, <2>4, <2>5 DEF CopyByte, Source, Bank
    <2> QED BY <2>4, <2>6
  <1>5. CASE /\ PC = CopyStart(h) + 22 /\ Even /\ Points0(AREA + n) /\ Points1(From(h) + (n + 1))
             /\ Copied(h, n) /\ sfr[A] = Source(h, n)
    <2>1. Op = \hf0
      BY <1>5, CopyListing DEF At
    <2>4. /\ Common' /\ MidCopy(h)' /\ PC' = PC + 1 /\ Even' /\ Copied(h, n + 1)'
          /\ iram'[24] = iram[24] /\ iram'[25] = iram[25]
          /\ Points0(AREA + n)' /\ Points1(From(h) + (n + 1))'
      <3>1. Points0(AREA + p) /\ Copied(h, p) /\ sfr[A] = Source(h, p)
        BY <1>5, <1>p
      <3>2. /\ Common' /\ MidCopy(h)' /\ PC' = PC + 1 /\ Even' /\ Copied(h, p + 1)'
            /\ iram'[24] = iram[24] /\ iram'[25] = iram[25]
            /\ (\A c : Points0(c) => Points0(c)') /\ (\A c : Points1(c) => Points1(c)')
        BY <1>0, <1>5, <2>1, <3>1, ByteStored
      <3> QED BY <1>5, <1>p, <3>2
    <2>5. PC' = CopyStart(h) + 23
      BY <1>5, <1>s, <2>4
    <2>6. CopyByte(h, z, j)'
      BY <1>0, <2>4, <2>5 DEF CopyByte
    <2> QED BY <2>4, <2>6
  <1>6. CASE /\ PC = CopyStart(h) + 23 /\ Even /\ Points0(AREA + n) /\ Points1(From(h) + (n + 1))
             /\ Copied(h, n + 1)
    <2>1. Op = \ha3
      BY <1>6, CopyListing DEF At
    <2>a. PICK a \in Nat : a = AREA + n
      BY <1>n
    <2>2. Steady({DPH0, DPL0}) /\ Points0(a + 1)' /\ PC' = PC + 1
      BY <1>6, <2>1, <2>a, IncsDptr DEF Works
    <2>3. /\ {DPH0, DPL0} \subseteq Works1 /\ DPH1 \notin {DPH0, DPL0} /\ DPL1 \notin {DPH0, DPL0}
      BY Names DEF Works1
    <2>4. /\ Common' /\ MidCopy(h)' /\ iram' = iram /\ Even' /\ Copied(h, n + 1)'
          /\ Points1(From(h) + (n + 1))'
      BY <1>0, <1>6, <2>2, <2>3, CopyWorks
    <2>5. PC' = CopyStart(h) + 24 /\ Reached(h, n + 1)'
      BY <1>6, <1>s, <1>n, <2>a, <2>2, <2>4 DEF Reached
    <2>6. CopyByte(h, z, j)'
      BY <1>0, <2>4, <2>5 DEF CopyByte
    <2> QED BY <2>4, <2>6
  <1>7. CASE PC = CopyStart(h) + 24 /\ Even /\ Reached(h, n + 1) /\ Copied(h, n + 1)
    <2>1. Op = \h05 /\ Arg1 = DP_TGL
      BY <1>7, CopyListing DEF At1
    <2>4. /\ Common' /\ MidCopy(h)' /\ iram' = iram /\ Odd' /\ Copied(h, n + 1)'
          /\ Reached(h, n + 1)' /\ PC' = PC + 2
      BY <1>0, <1>7, <2>1, CopyToggles DEF Reached
    <2>5. PC' = CopyStart(h) + 26
      BY <1>7, <1>s, <2>4
    <2>6. CopyByte(h, z, j)'
      BY <1>0, <2>4, <2>5 DEF CopyByte
    <2> QED BY <2>4, <2>6
  <1>8. CASE PC = CopyStart(h) + 26 /\ Odd /\ Reached(h, n + 1) /\ Copied(h, n + 1)
    <2>1. Op = \hd8 + 1 /\ Arg1 = \hf5
      BY <1>8, CopyListing DEF At1
    <2>u. PICK u : u = (256 - j) % 256
      OBVIOUS
    <2>2. /\ Counted(1, (u - 1) % 256)
          /\ PC' = PC + 2 + (IF (u - 1) % 256 # 0 THEN Relative(Arg1) ELSE 0)
      BY <1>0, <2>1, <2>u, 24 + 1 = 25, CountsDown
    <2>3. /\ (u - 1) % 256 = 255 - j
          /\ j < 255 => 255 - j = (256 - (j + 1)) % 256
      BY <2>u, SMT
    <2>v. PICK v : v = 255 - j
      OBVIOUS
    <2>4. Counted(1, v)
      BY <2>2, <2>3, <2>v
    <2>5. /\ Common' /\ MidCopy(h)' /\ Odd' /\ iram'[24 + 1] = v
          /\ iram'[24 + (1 - 1)] = iram[24 + (1 - 1)]
          /\ Reached(h, n + 1)' /\ Copied(h, n + 1)'
      BY <1>0, <1>8, <2>4, CopyCounts DEF Reached
    <2>6. iram'[25] = v /\ iram'[24] = Blocks(h) - z
      BY <1>0, <2>5, 24 + 1 = 25, 24 + (1 - 1) = 24
    <2>7. CASE j < 255
      <3>1. PC' = CopyStart(h) + 17
        BY <1>8, <1>s, <2>1, <2>2, <2>3, <2>7, SMT DEF Relative
      <3>2. j + 1 \in 0 .. 255 /\ v = (256 - (j + 1)) % 256 /\ n + 1 = 256 * z + (j + 1)
        BY <1>b, <2>3, <2>v, <2>7
      <3>3. Reached(h, 256 * z + (j + 1))' /\ Copied(h, 256 * z + (j + 1))'
        BY <2>5, <3>2
      <3>4. CopyByte(h, z, j + 1)'
        BY <2>5, <2>6, <3>1, <3>2, <3>3 DEF CopyByte
      <3> QED BY <2>5, <3>2, <3>4
    <2>8. CASE j = 255
      <3>1. PC' = CopyStart(h) + 28
        BY <1>8, <1>s, <2>1, <2>2, <2>3, <2>8, SMT DEF Relative
      <3>2. n + 1 = 256 * (z + 1)
        BY <1>b, <2>8
      <3>3. Reached(h, 256 * (z + 1))' /\ Copied(h, 256 * (z + 1))'
        BY <2>5, <3>2
      <3>4. CopyBlock(h, z)'
        BY <2>5, <2>6, <3>1, <3>3 DEF CopyBlock
      <3> QED BY <2>5, <3>4
    <2> QED BY <2>7, <2>8
  <1>9. \/ PC = CopyStart(h) + 17 /\ Odd /\ Reached(h, n) /\ Copied(h, n)
        \/ PC = CopyStart(h) + 18 /\ Odd /\ Reached(h, n) /\ Copied(h, n) /\ sfr[A] = 0
        \/ /\ PC = CopyStart(h) + 19 /\ Odd /\ Reached(h, n) /\ Copied(h, n)
           /\ sfr[A] = Source(h, n)
        \/ /\ PC = CopyStart(h) + 20 /\ Odd /\ Points0(AREA + n) /\ Points1(From(h) + (n + 1))
           /\ Copied(h, n) /\ sfr[A] = Source(h, n)
        \/ /\ PC = CopyStart(h) + 22 /\ Even /\ Points0(AREA + n) /\ Points1(From(h) + (n + 1))
           /\ Copied(h, n) /\ sfr[A] = Source(h, n)
        \/ /\ PC = CopyStart(h) + 23 /\ Even /\ Points0(AREA + n) /\ Points1(From(h) + (n + 1))
           /\ Copied(h, n + 1)
        \/ PC = CopyStart(h) + 24 /\ Even /\ Reached(h, n + 1) /\ Copied(h, n + 1)
        \/ PC = CopyStart(h) + 26 /\ Odd /\ Reached(h, n + 1) /\ Copied(h, n + 1)
    BY DEF CopyByte
  <1> HIDE DEF n
  <1> QED BY <1>1, <1>2, <1>3, <1>4, <1>5, <1>6, <1>7, <1>8, <1>9

-----------------------------------------------------------------------------
(***************************************************************************)
(* The invariant.                                                          *)
(***************************************************************************)
(* The firmware at rest, nothing signalled, is a state of the invariant.   *)
LEMMA HandlerStarts == HandlerInit => HandlerIInv
  <1> SUFFICES ASSUME HandlerInit PROVE HandlerIInv
    OBVIOUS
  <1>1. /\ PC = MAIN_LOOP /\ iram \in [0 .. 255 -> 0 .. 255] /\ iram0 = iram
        /\ sfr \in [Sfrs -> 0 .. 255] /\ sfr0 = sfr /\ sfr \in InitialSfr
        /\ xram = [a \in DataAddr |-> IF a \in LowAddr THEN LowXram[a] ELSE 0]
    BY HandlerAssumption DEF HandlerInit
  <1>2. Room
    <2>1. SP \in Sfrs
      BY Registers
    <2> QED BY <1>1, <2>1, StackAssumption DEF Room, S
  <1>3. Domains
    <2>1. PARAM_VALUE \in 0 .. 255
      BY SMT DEF PARAM_VALUE
    <2> QED BY <1>1, <2>1 DEF Domains, Value
  <1>4. IramKept
    BY <1>1 DEF IramKept
  <1>5. LowKept
    BY <1>1 DEF LowKept, DataAddr
  <1>6. xram[SIGNAL] = 0
    <2>1. SIGNAL \notin LowAddr
      BY BlocksAssumption, SMT DEF SIGNAL, LowAddr
    <2> QED BY <1>1, <2>1 DEF DataAddr
  <1>7. SignalMeansDumped /\ SavedIsStateAtRest
    <2>1. ~Signalled
      BY <1>6, SMT DEF Signalled
    <2> QED BY <2>1 DEF SignalMeansDumped, SavedIsStateAtRest
  <1>8. AtRest
    <2>1. MAIN_LOOP = 31385
      BY SMT DEF MAIN_LOOP
    <2>2. PC = MAIN_LOOP /\ sfr = sfr0
      BY <1>1
    <2> QED BY <2>1, <2>2, SMT DEF AtRest
  <1> QED BY <1>2, <1>3, <1>4, <1>5, <1>7, <1>8 DEF Common, Point, HandlerIInv

(* No other point is the place the firmware calls from.                    *)
LEMMA PointElsewhere == Point => AtRest \/ PC # 31385
  <1>1. /\ Entered => PC # 31385
        /\ Selecting => PC # 31385
        /\ RamPoint => PC # 31385
        /\ IramBegins => PC # 31385
        /\ IramEnded => PC # 31385
    BY SMT DEF Entered, Selecting, RamPoint, IramBegins, IramEnded
  <1>2. ASSUME NEW k \in 0 .. 8
        PROVE  /\ Entering(k) => PC # 31385
               /\ Leaving(k) => PC # 31385
               /\ SfrPoint(k) => PC # 31385
    BY SMT DEF Entering, Leaving, SfrPoint
  <1>3. ASSUME NEW n PROVE IramByte(n) => PC # 31385
    BY SMT DEF IramByte
  <1>4. ASSUME NEW h \in 0 .. 2
        PROVE  /\ HandlerPoint(h) => PC # 31385
               /\ BankPoint(h) => PC # 31385
    <2>1. CopyStart(h) \in 61696 .. 61732 /\ HandlerStart(h) \in 61952 .. 61980
      BY SMT DEF CopyStart, HandlerStart
    <2>2. HandlerRet(h) \in 61952 .. 62023
      BY SMT DEF HandlerRet, HandlerStart
    <2>3. /\ Choosing(h) => PC # 31385
          /\ Back(h) => PC # 31385
          /\ Signalling(h) => PC # 31385
          /\ Signaled(h) => PC # 31385
      BY <2>2, SMT DEF Choosing, Back, Signalling, Signaled
    <2>4. /\ CopyBegins(h) => PC # 31385
          /\ CopyEnded(h) => PC # 31385
      BY <2>1, SMT DEF CopyBegins, CopyEnded
    <2>5. ASSUME NEW z, NEW j
          PROVE  /\ CopyBlock(h, z) => PC # 31385
                 /\ CopyByte(h, z, j) => PC # 31385
      BY <2>1, SMT DEF CopyBlock, CopyByte
    <2>6. BankPoint(h) => PC # 31385
      BY <2>1, SMT DEF BankPoint
    <2> QED BY <2>3, <2>4, <2>5, <2>6 DEF HandlerPoint
  <1>5. \A k \in 0 .. 7 : k \in 0 .. 8
    OBVIOUS
  <1>6. \A h \in 0 .. 1 : h \in 0 .. 2
    OBVIOUS
  <1> QED BY <1>1, <1>2, <1>3, <1>4, <1>5, <1>6 DEF Point

(* A step within a handler leads from one of its points to another.        *)
LEMMA WithinHandler ==
    ASSUME Common, Step, NEW h \in 0 .. 2, HandlerPoint(h)
    PROVE  Common' /\ Point'
  <1>1. CASE Choosing(h)
    <2>1. Common' /\ (h < 2 => BankPoint(h)') /\ (h = 2 => RamPoint')
      BY <1>1, ChooseStep
    <2>2. h \in 0 .. 1 \/ h = 2
      OBVIOUS
    <2> QED BY <2>1, <2>2 DEF Point
  <1>2. CASE Back(h)
    BY <1>2, BackStep, 0 \in 0 .. 8 DEF Point
  <1>3. CASE Signalling(h)
    BY <1>3, SignalStep DEF Point, HandlerPoint
  <1>4. CASE Signaled(h)
    BY <1>4, SignaledStep DEF Point, HandlerPoint
  <1>5. CASE CopyBegins(h)
    <2>1. 0 \in 0 .. Blocks(h) - 1
      BY BlockRange
    <2> QED BY <1>5, <2>1, CopyBeginsStep DEF Point, HandlerPoint
  <1>6. CASE CopyEnded(h)
    <2>1. /\ Common'
          /\ \/ CopyEnded(h)'
             \/ h < 2 /\ BankPoint(h)'
             \/ h = 2 /\ RamPoint'
      BY <1>6, CopyEndedStep
    <2>2. h < 2 => h \in 0 .. 1
      OBVIOUS
    <2> QED BY <2>1, <2>2 DEF Point, HandlerPoint
  <1>7. ASSUME NEW z \in 0 .. Blocks(h) - 1, CopyBlock(h, z)
        PROVE  Common' /\ Point'
    <2>1. /\ Common'
          /\ \/ CopyByte(h, z, 0)' \/ CopyEnded(h)'
             \/ \E m \in 0 .. Blocks(h) - 1 : CopyBlock(h, m)'
      BY <1>7, CopyBlockStep
    <2>2. 0 \in 0 .. 255
      OBVIOUS
    <2>3. HandlerPoint(h)'
      BY <2>1, <2>2 DEF HandlerPoint, Blocks
    <2> QED BY <2>1, <2>3 DEF Point
  <1>8. ASSUME NEW z \in 0 .. Blocks(h) - 1, NEW j \in 0 .. 255, CopyByte(h, z, j)
        PROVE  Common' /\ Point'
    <2>1. Common' /\ (CopyBlock(h, z)' \/ \E m \in 0 .. 255 : CopyByte(h, z, m)')
      BY <1>8, CopyByteStep
    <2>3. HandlerPoint(h)'
      BY <2>1 DEF HandlerPoint, Blocks
    <2> QED BY <2>1, <2>3 DEF Point
  <1> QED BY <1>1, <1>2, <1>3, <1>4, <1>5, <1>6, <1>7, <1>8 DEF HandlerPoint

(* So does every step of the program.                                      *)
LEMMA PointStep ==
    ASSUME Common, Point, Step
    PROVE  Common' /\ Point'
  <1>1. CASE AtRest
    BY <1>1, NothingAtRest DEF AtRest, MAIN_LOOP
  <1>2. CASE Entered
    BY <1>2, EnteredStep DEF Point
  <1>3. CASE Selecting
    BY <1>3, SelectStep, 0 \in 0 .. 8 DEF Point, HandlerPoint
  <1>4. CASE RamPoint
    BY <1>4, RamStep, 0 \in 0 .. 7, 2 \in 0 .. 2 DEF Point, HandlerPoint
  <1>5. CASE IramBegins
    BY <1>5, IramBeginsStep, 0 \in 0 .. 255 DEF Point
  <1>6. CASE IramEnded
    BY <1>6, IramEndedStep DEF Point
  <1>7. ASSUME NEW k \in 0 .. 7, Entering(k) PROVE Common' /\ Point'
    BY <1>7, EnterStep DEF Point
  <1>8. ASSUME NEW k \in 0 .. 8, Leaving(k) PROVE Common' /\ Point'
    BY <1>8, LeaveStep DEF Point
  <1>9. ASSUME NEW h \in 0 .. 1, BankPoint(h) PROVE Common' /\ Point'
    <2>1. Common' /\ (BankPoint(h)' \/ CopyBegins(h)' \/ Signalling(h)')
      BY <1>9, BankStep
    <2>2. h \in 0 .. 2
      OBVIOUS
    <2> QED BY <2>1, <2>2 DEF Point, HandlerPoint
  <1>10. ASSUME NEW k \in 0 .. 7, SfrPoint(k) PROVE Common' /\ Point'
    <2>1. Common' /\ ((\E j \in 0 .. 7 : SfrPoint(j)') \/ Signalling(2)')
      BY <1>10, SfrStep
    <2>2. 2 \in 0 .. 2
      OBVIOUS
    <2> QED BY <2>1, <2>2 DEF Point, HandlerPoint
  <1>11. ASSUME NEW n \in 0 .. 255, IramByte(n) PROVE Common' /\ Point'
    BY <1>11, IramByteStep DEF Point
  <1>12. ASSUME NEW h \in 0 .. 2, HandlerPoint(h) PROVE Common' /\ Point'
    BY <1>12, WithinHandler
  <1> QED BY <1>1, <1>2, <1>3, <1>4, <1>5, <1>6, <1>7, <1>8, <1>9, <1>10, <1>11, <1>12 DEF Point

(* A stuttering step.                                                      *)
LEMMA PlacesKept ==
    ASSUME UNCHANGED handlerVars
    PROVE  /\ NotSignalled' = NotSignalled /\ S' = S /\ Value' = Value /\ Called' = Called
           /\ Even' = Even /\ Odd' = Odd /\ sfr' = sfr /\ iram' = iram /\ PC' = PC /\ sfr0' = sfr0
           /\ \A d : Slot(d)' = Slot(d)
           /\ \A k : Saved(k)' = Saved(k)
           /\ \A X : Same(X)' = Same(X)
           /\ \A n : Framed(n)' = Framed(n)
           /\ \A a : Points0(a)' = Points0(a) /\ Points1(a)' = Points1(a)
           /\ \A h, n : Working(h, n)' = Working(h, n) /\ Handling(h, n)' = Handling(h, n)
           /\ \A h, n : Copied(h, n)' = Copied(h, n)
           /\ \A a, b : ByteSaved(a, b)' = ByteSaved(a, b)
           /\ \A n : IramSaved(n)' = IramSaved(n)
           /\ \A k : SfrsSaved(k)' = SfrsSaved(k)
           /\ \A h : Dumped(h)' = Dumped(h)
  BY DEF handlerVars, machine, NotSignalled, S, Value, Called, Even, Odd, Slot, Saved, Same, Framed, Points0,
         Points1, Working, Handling, Copied, Source, Bank, ByteSaved, IramSaved, SfrsSaved, Dumped

(* A step that changes nothing keeps the point.                            *)
LEMMA PointKept ==
    ASSUME UNCHANGED handlerVars, Point
    PROVE  Point'
  <1>1. AtRest' = AtRest /\ RamPoint' = RamPoint
    BY PlacesKept, SMT DEF AtRest, RamPoint
  <1>2. Entered' = Entered /\ Selecting' = Selecting
    BY PlacesKept, SMT DEF Entered, Selecting
  <1>3. MidIram' = MidIram /\ InIram(2)' = InIram(2)
    BY PlacesKept, SMT DEF InIram, MidIram
  <1>4. IramBegins' = IramBegins /\ IramEnded' = IramEnded
    BY <1>3, PlacesKept, SMT DEF IramBegins, IramEnded
  <1>5. ASSUME NEW n PROVE IramByte(n)' = IramByte(n)
    BY <1>3, PlacesKept, SMT DEF IramByte
  <1>6. ASSUME NEW k
        PROVE  Entering(k)' = Entering(k) /\ Leaving(k)' = Leaving(k) /\ SfrPoint(k)' = SfrPoint(k)
    BY PlacesKept, SMT DEF Entering, Leaving, SfrPoint
  <1>7. ASSUME NEW h
        PROVE  HandlerPoint(h)' = HandlerPoint(h) /\ BankPoint(h)' = BankPoint(h)
    <2>1. Choosing(h)' = Choosing(h) /\ Back(h)' = Back(h) /\ Signaled(h)' = Signaled(h)
      BY PlacesKept, SMT DEF Choosing, Back, Signaled, HandlerRet, HandlerStart
    <2>2. Signalling(h)' = Signalling(h)
      BY PlacesKept, SMT DEF Signalling, HandlerRet, HandlerStart
    <2>3. InCopy(h, 2)' = InCopy(h, 2) /\ MidCopy(h)' = MidCopy(h)
      BY PlacesKept, SMT DEF InCopy, MidCopy, CopyRet, CopyDepth, HandlerStart, Bank
    <2>4. CopyBegins(h)' = CopyBegins(h) /\ CopyEnded(h)' = CopyEnded(h)
      BY <2>3, PlacesKept, SMT DEF CopyBegins, CopyEnded, CopyStart, From, Blocks
    <2>5. ASSUME NEW z, NEW j
          PROVE  CopyBlock(h, z)' = CopyBlock(h, z) /\ CopyByte(h, z, j)' = CopyByte(h, z, j)
      BY <2>3, PlacesKept, SMT DEF CopyBlock, CopyByte, Reached, CopyStart, From, Blocks, Source, Bank
    <2>6. BankPoint(h)' = BankPoint(h)
      BY PlacesKept, SMT DEF BankPoint, HandlerStart, Bank, Blocks
    <2>7. HandlerPoint(h)' = HandlerPoint(h)
      BY <2>1, <2>2, <2>3, <2>4, <2>5 DEF HandlerPoint, Blocks
    <2> QED BY <2>6, <2>7
  <1> QED BY <1>1, <1>2, <1>4, <1>5, <1>6, <1>7 DEF Point

(* No step leaves the invariant.                                           *)
LEMMA HandlerInvariant == HandlerIInv /\ [HandlerNext]_handlerVars => HandlerIInv'
  <1> SUFFICES ASSUME HandlerIInv, [HandlerNext]_handlerVars PROVE HandlerIInv'
    OBVIOUS
  <1>0. Common /\ Point
    BY DEF HandlerIInv
  <1>1. CASE Step
    BY <1>0, <1>1, PointStep DEF HandlerIInv
  <1>2. CASE Trigger
    <2>1. AtRest
      BY <1>0, <1>2, PointElsewhere, SMT DEF Trigger, MAIN_LOOP
    <2> QED BY <1>0, <1>2, <2>1, TriggerStep, 0 \in 0 .. 7 DEF HandlerIInv, Point
  <1>3. CASE UNCHANGED handlerVars
    <2>1. Point'
      BY <1>0, <1>3, PointKept
    <2>2. Untouched /\ iram' = iram /\ sfr' = sfr
      BY <1>3 DEF handlerVars, machine, Untouched
    <2>3. Common'
      <3>1. OnlyRegs({})
        BY <1>0, <2>2 DEF OnlyRegs, Common, Domains
      <3> QED BY <1>0, <2>2, <3>1, SteadySfrs DEF Steady
    <2> QED BY <2>1, <2>3 DEF HandlerIInv
  <1> QED BY <1>1, <1>2, <1>3 DEF HandlerNext

(* At rest the registers and iram are what they were.                      *)
LEMMA Restored == HandlerIInv => RestoredAtReturn
  <1> SUFFICES ASSUME Common, Point, PC = 31385
               PROVE  /\ sfr = sfr0
                      /\ \A a \in 0 .. sfr0[SP] : a \notin Counters => iram[a] = iram0[a]
    BY SMT DEF HandlerIInv, RestoredAtReturn, MAIN_LOOP
  <1>1. sfr = sfr0
    BY PointElsewhere DEF AtRest
  <1>2. ASSUME NEW a \in 0 .. sfr0[SP], a \notin Counters PROVE iram[a] = iram0[a]
    <2>1. S = sfr0[SP] /\ Room
      BY DEF S, Common
    <2>2. S \in 0 .. 255 /\ a \in 0 .. S
      BY <2>1, RoomFacts
    <2>3. a \in 0 .. 255 /\ \A d \in 1 .. STACK_USE : a # S + d
      BY <2>2, SMT DEF STACK_USE
    <2>4. IramKept /\ a \notin Counters
      BY <1>2 DEF Common
    <2> QED BY ONLY <2>3, <2>4, IramKeptAt, Zenon
  <1>3. \A a \in 0 .. sfr0[SP] : a \notin Counters => iram[a] = iram0[a]
    BY <1>2
  <1> QED BY <1>1, <1>3

(* At every step the program is at one of its points, with what it has done  *)
(* so far done.                                                            *)
THEOREM HandlerInductive == HandlerSpec => []HandlerIInv
  <1>1. HandlerInit => HandlerIInv
    BY HandlerStarts
  <1>2. HandlerIInv /\ [HandlerNext]_handlerVars => HandlerIInv'
    BY HandlerInvariant
  <1> QED BY <1>1, <1>2, PTL DEF HandlerSpec

(* Whatever the memories hold and however many blocks are copied, the signal *)
(* is only seen when the area is complete.                                 *)
THEOREM SignalTheorem == HandlerSpec => []SignalMeansDumped
  <1>1. HandlerIInv => SignalMeansDumped
    BY DEF HandlerIInv, Common
  <1> QED BY <1>1, HandlerInductive, PTL

(* What the tool reads out of the area then is the state at rest, wherever   *)
(* the stack of the firmware is.                                           *)
THEOREM SavedTheorem == HandlerSpec => []SavedIsStateAtRest
  <1>1. HandlerIInv => SavedIsStateAtRest
    BY DEF HandlerIInv, Common
  <1> QED BY <1>1, HandlerInductive, PTL

(* The firmware goes on with its registers and its iram.                    *)
THEOREM RestoredTheorem == HandlerSpec => []RestoredAtReturn
  <1>1. HandlerIInv => RestoredAtReturn
    BY Restored
  <1> QED BY <1>1, HandlerInductive, PTL

-----------------------------------------------------------------------------
(***************************************************************************)
(* The tool.                                                               *)
(***************************************************************************)
LEMMA Bounds == PARTS \in Nat /\ PARTS > 0 /\ POLLS \in Nat /\ POLLS > 0 /\ MAX_RUNS \in Nat
  BY DumpAssumption

(* The types, and how far the counters go.                                 *)
LEMMA TypeStep ==
    ASSUME TypeOK, InStep, [Next]_vars
    PROVE  TypeOK' /\ InStep'
  <1> USE Bounds DEF TypeOK, InStep
  <1>1. CASE Start
    BY <1>1 DEF Start, handler, Blank, Sections
  <1>2. CASE Ask
    <2>1. asked' \in Seq(Sections)
      BY <1>2 DEF Ask
    <2> QED BY <1>2, <2>1 DEF Ask
  <1>3. CASE Poll
    <2>1. polls' \in 0 .. POLLS /\ (pc' = "poll" => polls' > 0) /\ pc' # "read"
      BY <1>3 DEF Poll, PollsLeft
    <2>2. section' \in Sections /\ told' \subseteq Sections
      BY <1>3 DEF Poll, Sections
    <2>3. pc' \in {"poll", "clear", "save", "ask"}
      BY <1>3 DEF Poll
    <2> QED BY <1>3, <2>1, <2>2, <2>3 DEF Poll, handler
  <1>4. CASE Clear
    <2>1. signal' \in BOOLEAN
      BY <1>4 DEF Clear, Cleared
    <2>2. pc' = "read" /\ i' = 0 /\ i' \in 0 .. PARTS
      BY <1>4 DEF Clear
    <2> QED BY <1>4, <2>1, <2>2 DEF Clear
  <1>5. CASE Read
    <2>1. i + 1 \in 1 .. PARTS
      BY <1>5 DEF Read
    <2>2. area[i + 1] \in Sections \cup {Nothing}
      BY <2>1
    <2>3. file' \in [Sections -> [1 .. PARTS -> Sections \cup {Nothing}]]
      BY <1>5, <2>1, <2>2 DEF Read
    <2>4. section' \in Sections
      BY <1>5 DEF Read, Following, Sections
    <2> QED BY <1>5, <2>1, <2>3, <2>4 DEF Read, handler
  <1>6. CASE Save
    BY <1>6 DEF Save, handler
  <1>7. CASE Kill
    BY <1>7 DEF Kill, handler
  <1>8. CASE Take
    <2>1. Head(asked) \in Sections /\ Tail(asked) \in Seq(Sections)
      BY <1>8 DEF Take
    <2> QED BY <1>8, <2>1 DEF Take
  <1>9. CASE Fill
    BY <1>9 DEF Fill
  <1>10. CASE Signal
    BY <1>10 DEF Signal
  <1>11. CASE UNCHANGED vars
    BY <1>11 DEF vars, handler
  <1> QED
    BY <1>1, <1>2, <1>3, <1>4, <1>5, <1>6, <1>7, <1>8, <1>9, <1>10, <1>11 DEF Next, Tool

(* A run of the tool that starts with nothing left over has no request      *)
(* under way.                                                              *)
LEMMA StartsQuiet ==
    ASSUME TypeOK, Start
    PROVE  OneRequest'
  BY DEF Start, OneRequest, Quiet, Earlier, handler, TypeOK

(* The tool's steps.                                                       *)
LEMMA AskStep ==
    ASSUME TypeOK, InStep, OneRequest, Ask
    PROVE  OneRequest'
  <1> SUFFICES ASSUME clean, told = {}
               PROVE  OneRequest'
    BY DEF OneRequest, Ask
  <1>1. Quiet /\ \A s \in Earlier[section] : True(s)
    BY DEF OneRequest, Ask
  <1>2. asked' = <<>> \/ asked' = <<section>>
    BY <1>1 DEF Ask, Quiet
  <1>3. Requested(section)'
    BY <1>1, <1>2 DEF Ask, Quiet, Requested
  <1>4. (\A s \in Earlier[section] : True(s))'
    BY <1>1 DEF Ask, True
  <1> QED BY <1>3, <1>4 DEF Ask, OneRequest

LEMMA PollStep ==
    ASSUME TypeOK, InStep, OneRequest, Poll
    PROVE  OneRequest'
  <1> SUFFICES ASSUME clean, told' = {}
               PROVE  OneRequest'
    BY DEF OneRequest, Poll
  <1>1. told = {} /\ section' = section /\ (signal \/ pc' = "poll")
    BY DEF Poll
  <1>2. Requested(section) /\ \A s \in Earlier[section] : True(s)
    BY <1>1 DEF OneRequest, Poll
  <1>3. (\A s \in Earlier[section] : True(s))'
    BY <1>1, <1>2 DEF Poll, True
  <1>4. CASE signal
    <2>1. asked = <<>> /\ doing = Nothing /\ AreaOf(section)
      BY <1>2, <1>4 DEF Requested, Quiet
    <2>2. (asked = <<>> /\ doing = Nothing /\ AreaOf(section))'
      BY <1>1, <2>1 DEF Poll, handler, AreaOf
    <2> QED BY <1>3, <1>4, <2>2 DEF Poll, OneRequest
  <1>5. CASE ~signal
    <2>1. pc' = "poll"
      BY <1>1, <1>5
    <2>2. Requested(section)'
      BY <1>1, <1>2 DEF Poll, handler, Requested, Quiet, AreaOf
    <2> QED BY <1>3, <2>1, <2>2 DEF OneRequest
  <1> QED BY <1>4, <1>5

LEMMA ClearStep ==
    ASSUME TypeOK, InStep, OneRequest, Clear
    PROVE  OneRequest'
  <1> SUFFICES ASSUME clean, told = {}
               PROVE  OneRequest'
    BY DEF OneRequest, Clear
  <1>1. /\ asked = <<>> /\ doing = Nothing /\ AreaOf(section)
        /\ \A s \in Earlier[section] : True(s)
    BY DEF OneRequest, Clear
  <1>2. (Quiet /\ AreaOf(section))'
    BY <1>1 DEF Clear, Cleared, Quiet, AreaOf
  <1>3. (\A s \in Earlier[section] : True(s))'
    BY <1>1 DEF Clear, True
  <1>4. (\A k \in 1 .. i : file[section][k] = section)'
    BY DEF Clear
  <1> QED BY <1>2, <1>3, <1>4 DEF Clear, OneRequest

(* A section whose last piece is read is complete, and so are those before. *)
LEMMA ReadStep ==
    ASSUME TypeOK, InStep, OneRequest, Read
    PROVE  OneRequest'
  <1> SUFFICES ASSUME clean, told = {}
               PROVE  OneRequest'
    BY DEF OneRequest, Read
  <1> USE Bounds
  <1>1. /\ Quiet /\ AreaOf(section)
        /\ \A k \in 1 .. i : file[section][k] = section
        /\ \A s \in Earlier[section] : True(s)
    BY DEF OneRequest, Read
  <1>2. i \in Nat /\ i + 1 \in 1 .. PARTS /\ section \in Sections
    BY DEF TypeOK, InStep, Read
  <1>3. Quiet'
    BY <1>1 DEF Quiet, Read, handler
  <1>4. area' = area /\ area[i + 1] = section
    BY <1>1, <1>2 DEF AreaOf, Read, handler
  <1>5. file' = [file EXCEPT ![section] = [@ EXCEPT ![i + 1] = section]]
    BY <1>4 DEF Read
  <1>6. \A k \in 1 .. i + 1 : file'[section][k] = section
    BY <1>1, <1>2, <1>5 DEF TypeOK
  <1>7. \A s \in Earlier[section] : True(s)'
    <2> SUFFICES ASSUME NEW s \in Earlier[section]
                 PROVE  True(s)'
      OBVIOUS
    <2>1. s # section /\ s \in Sections
      BY <1>2 DEF Earlier, Sections
    <2>2. file'[s] = file[s]
      BY <2>1, <1>5 DEF TypeOK
    <2> QED BY <1>1, <2>2 DEF True
  <1>8. CASE i + 1 < PARTS
    <2>1. pc' = "read" /\ section' = section /\ i' = i + 1
      BY <1>2, <1>8 DEF Read
    <2>2. AreaOf(section)'
      BY <1>1, <1>4, <2>1 DEF AreaOf
    <2> QED BY <2>1, <2>2, <1>3, <1>6, <1>7 DEF OneRequest
  <1>9. CASE i + 1 = PARTS
    <2>1. file'[section] \in [1 .. PARTS -> Sections \cup {Nothing}]
      BY <1>2, <1>5 DEF TypeOK
    <2>2. file'[section] = [k \in 1 .. PARTS |-> section]
      BY <1>6, <1>9, <2>1
    <2>3. CASE section = "ram"
      <3>1. pc' = "save" /\ section' = "ram"
        BY <1>2, <1>9, <2>3 DEF Read
      <3> QED BY <3>1, <2>2, <2>3, <1>7 DEF OneRequest, True
    <2>4. CASE section # "ram"
      <3>1. pc' = "ask" /\ section' = Following[section]
        BY <1>2, <1>9, <2>4 DEF Read
      <3>2. Earlier[section'] = Earlier[section] \cup {section}
        BY <1>2, <3>1, <2>4 DEF Following, Earlier, Sections
      <3>3. \A s \in Earlier[section'] : True(s)'
        BY <1>7, <2>2, <3>2 DEF True
      <3> QED BY <1>3, <3>1, <3>3 DEF OneRequest
    <2> QED BY <2>3, <2>4
  <1> QED BY <1>2, <1>8, <1>9 DEF TypeOK

(* The 8051's steps, which leave the tool alone.                           *)
LEMMA HandlerStep ==
    ASSUME TypeOK, InStep, OneRequest, Take \/ Fill \/ Signal
    PROVE  OneRequest'
  <1> SUFFICES ASSUME pc # "idle", clean, told = {}
               PROVE  OneRequest'
    BY DEF OneRequest, Take, Fill, Signal
  <1>1. UNCHANGED <<pc, section, polls, i, file, told, clean>>
    BY DEF Take, Fill, Signal
  <1>2. (\A s \in Earlier[section] : True(s))'
    BY <1>1 DEF OneRequest, True
  <1>3. CASE pc = "poll"
    <2>1. Requested(section)
      BY <1>3 DEF OneRequest
    <2>2. ASSUME Take PROVE Requested(section)'
      <3>1. ~signal /\ asked = <<section>>
        BY <2>1, <2>2 DEF Take, Requested, Quiet
      <3>2. ~signal' /\ asked' = <<>> /\ doing' = section /\ filled' = 0
        BY <3>1, <2>2 DEF Take
      <3>3. \A k \in 1 .. filled' : area'[k] = section
        BY <3>2
      <3> QED BY <1>1, <3>2, <3>3 DEF Requested
    <2>3. ASSUME Fill PROVE Requested(section)'
      <3>1. /\ ~signal /\ asked = <<>> /\ doing = section
            /\ \A k \in 1 .. filled : area[k] = section
        BY <2>1, <2>3 DEF Fill, Requested, Quiet
      <3>2. ~signal' /\ asked' = <<>> /\ doing' = section
        BY <3>1, <2>3 DEF Fill
      <3>3. \A k \in 1 .. filled' : area'[k] = section
        BY <3>1, <2>3, Bounds DEF Fill, TypeOK
      <3> QED BY <1>1, <3>2, <3>3 DEF Requested
    <2>4. ASSUME Signal PROVE Requested(section)'
      <3>1. /\ asked = <<>> /\ doing = section
            /\ \A k \in 1 .. PARTS : area[k] = section
        BY <2>1, <2>4 DEF Signal, Requested, Quiet
      <3>2. signal' /\ asked' = <<>> /\ doing' = Nothing /\ area' = area
        BY <3>1, <2>4 DEF Signal
      <3>3. AreaOf(section)'
        BY <1>1, <3>1, <3>2 DEF AreaOf, TypeOK
      <3> QED BY <1>1, <3>2, <3>3 DEF Requested
    <2>5. Requested(section)'
      BY <2>2, <2>3, <2>4
    <2> QED BY <1>1, <1>2, <1>3, <2>5 DEF OneRequest
  <1>4. CASE pc = "save"
    BY <1>1, <1>2, <1>4 DEF OneRequest, True
  <1>5. CASE pc \notin {"poll", "save"}
    <2>1. asked = <<>> /\ doing = Nothing
      BY <1>5 DEF OneRequest, Quiet, TypeOK
    <2> QED BY <2>1 DEF Take, Fill, Signal
  <1> QED BY <1>3, <1>4, <1>5

LEMMA OneRequestStep ==
    ASSUME IInv, [Next]_vars
    PROVE  OneRequest'
  <1> USE DEF IInv
  <1>1. CASE Start
    BY <1>1, StartsQuiet
  <1>2. CASE Tool
    BY <1>2, AskStep, PollStep, ClearStep, ReadStep DEF Tool, Save, OneRequest
  <1>3. CASE Kill
    BY <1>3 DEF Kill, OneRequest
  <1>4. CASE Take \/ Fill \/ Signal
    BY <1>4, HandlerStep
  <1>5. CASE UNCHANGED vars
    BY <1>5 DEF vars, handler, OneRequest, Quiet, AreaOf, Requested, True
  <1> QED BY <1>1, <1>2, <1>3, <1>4, <1>5 DEF Next

LEMMA Initially ==
    ASSUME Init
    PROVE  IInv
  <1>1. TypeOK
    <2>1. Blank \in [1 .. PARTS -> Sections \cup {Nothing}]
      BY DEF Blank
    <2>2. asked \in Seq(Sections)
      BY DEF Init
    <2>3. file \in [Sections -> [1 .. PARTS -> Sections \cup {Nothing}]]
      BY <2>1 DEF Init
    <2>4. signal \in BOOLEAN /\ clean \in BOOLEAN
      BY DEF Init
    <2> QED BY <2>1, <2>2, <2>3, <2>4, Bounds DEF Init, TypeOK, Sections
  <1>2. InStep /\ OneRequest
    BY DEF Init, InStep, OneRequest
  <1> QED BY <1>1, <1>2 DEF IInv

THEOREM DumpInductive == Spec => []IInv
  <1>1. IInv /\ [Next]_vars => IInv'
    BY TypeStep, OneRequestStep DEF IInv
  <1> QED BY Initially, <1>1, PTL DEF Spec

(* The variables keep their types in every run of the system.              *)
THEOREM DumpTypeCorrect == Spec => []TypeOK
  BY DumpInductive, PTL DEF IInv

(* A file saved without a message, by a run that nothing was left over for, *)
(* has the right bytes in every section, however the 8051 and the tool are  *)
(* interleaved and whatever requests are lost.                             *)
THEOREM DumpSavedIsTrue == Spec => []SavedIsTrue
  <1>1. IInv => SavedIsTrue
    <2> SUFFICES ASSUME IInv, pc = "save", clean, told = {}, NEW s \in Sections
                 PROVE  True(s)
      BY DEF SavedIsTrue
    <2>1. section = "ram" /\ True("ram") /\ \A t \in Earlier[section] : True(t)
      BY DEF IInv, OneRequest
    <2>2. s \in Earlier["ram"] \cup {"ram"}
      BY DEF Sections, Earlier
    <2> QED BY <2>1, <2>2
  <1> QED BY DumpInductive, <1>1, PTL
=============================================================================
