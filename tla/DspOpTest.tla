------------------------------ MODULE DspOpTest ------------------------------
(***************************************************************************)
(* ca0132-dsp-op-test: single steps the DSP through a function that writes *)
(* all registers to memory, through one operation, and through the         *)
(* function again, and prints which registers the operation changed.       *)
(*                                                                         *)
(* Every step reads the debug register of the DSP, sets its execute bits   *)
(* and writes it back.  The calls of the HIC library that do this say      *)
(* nothing when they are given up: a read answers 0 then, a write is lost. *)
(* Loading the program and reading the results back is left to HicBus.     *)
(***************************************************************************)
EXTENDS DspCore

CONSTANTS
    data,       \* the program: what create_reg_dump_function made
    Start,      \* what the registers hold before
    TestOps,    \* the operations typed, as words
    MaxTests,   \* bound: operations typed in a session
    MaxLost     \* bound: steps lost in a session

(* The entry function moves A_R7 by its modifier where it should move by one. *)
ASSUME StartAssumption == Start[Reg(A_MDFR(7))] = 1 /\ Start[Reg(CR_0)] = 0
ASSUME BoundAssumption == MaxTests \in Nat /\ MaxLost \in Nat

VARIABLES
    stage,     \* how far main() is: a run of steps, or what is between two
    left,      \* steps left of the run
    debug,     \* the bits of the debug register
    dsp,       \* the DSP, as a set of one; empty if nobody knows what it does
    test_op,   \* the operation behind the program, as a set of one
    shown,     \* what was printed of the last operation
    called,    \* the DSP when the run began
    before,    \* the DSP when the last operation was about to run
    lost,      \* steps lost so far
    failed,    \* what else was given up: "read", "pc" or "mode"
    tests      \* operations typed so far
vars == <<stage, left, debug, dsp, test_op, shown, called, before, lost, failed, tests>>

(* The runs of main(), each with the next thing it does. *)
Run(addr, steps, next) == [addr |-> addr, steps |-> steps, next |-> next]
Runs ==
  [first_pre  |-> Run(data.addr.pre_op_func, data.op_cnt, "first_post"),
   first_post |-> Run(data.addr.post_op_func, data.op_cnt, "prompt"),
   pre        |-> Run(data.addr.pre_op_func, data.op_cnt, "test"),
   test       |-> Run(data.addr.test_op, 1, "post"),
   post       |-> Run(data.addr.post_op_func, data.op_cnt, "compare")]

Init ==
  /\ stage = "start" /\ left = 0
  /\ debug \in {{}, {"step", "halt"}}
  /\ dsp = {} /\ test_op = {} /\ shown = {} /\ called = {} /\ before = {}
  /\ lost = 0 /\ failed = {} /\ tests = 0

(***************************************************************************)
(* The debug functions                                                     *)
(***************************************************************************)
(* set_dsp_dbg_single_step(fd, 1): the bits that halt the DSP and make it run
   single steps are set, if they were not.  Only here it matters that the DSP
   stops at a state nobody knows. *)
SetSingleStep ==
  /\ stage = "start" /\ stage' = "first_pre"
  /\ \/ /\ debug' = {"step", "halt"}
        /\ dsp' = {[cells |-> Start, pc |-> 0, calls |-> <<>>]}
        /\ UNCHANGED failed
     \/ /\ debug = {} /\ failed' = failed \union {"mode"}
        /\ UNCHANGED <<debug, dsp>>
  /\ UNCHANGED <<left, test_op, shown, called, before, lost, tests>>

(* set_dsp_pc, with which dsp_run_steps_at_addr begins. *)
SetPc ==
  /\ stage \in DOMAIN Runs /\ left = 0
  /\ left' = Runs[stage].steps
  /\ \/ dsp' = {[d EXCEPT !.pc = Runs[stage].addr] : d \in dsp} /\ UNCHANGED failed
     \/ UNCHANGED dsp /\ failed' = failed \union {"pc"}
  /\ called' = dsp'
  /\ before' = IF stage = "test" THEN dsp' ELSE before
  /\ UNCHANGED <<stage, debug, test_op, shown, lost, tests>>

(* What is known to be at an address. *)
OpsAt(addr) ==
  {data.pgm_data[a] : a \in {addr} \intersect DOMAIN data.pgm_data}
  \union {op \in test_op : addr = data.addr.test_op}

(* A word with execute bits, written to the debug register, makes a DSP in
   single step mode run one operation, and any other run on. *)
Execute(d) == {Ran(d, op) : op \in {op \in OpsAt(d.pc) : Known(d, op)}}
WriteDebug(word) ==
  /\ debug' = word
  /\ dsp' = IF "step" \in word THEN UNION {Execute(d) : d \in dsp} ELSE {}

(* One step of dsp_run_steps: the register is read and written back.  The read
   may be given up, or the write be lost. *)
RunStep ==
  /\ left > 0 /\ left' = left - 1
  /\ stage' = IF left = 1 THEN Runs[stage].next ELSE stage
  /\ \/ WriteDebug(debug) /\ UNCHANGED <<lost, failed>>
     \/ WriteDebug({}) /\ failed' = failed \union {"read"} /\ UNCHANGED lost
     \/ /\ lost < MaxLost /\ lost' = lost + 1
        /\ UNCHANGED <<debug, dsp, failed>>
  /\ UNCHANGED <<test_op, shown, called, before, tests>>

(***************************************************************************)
(* The loop of main()                                                      *)
(***************************************************************************)
Prompt ==
  /\ stage = "prompt" /\ tests < MaxTests /\ tests' = tests + 1
  /\ \E words \in TestOps : test_op' = {Operation(words)}
  /\ stage' = "pre" /\ shown' = {} /\ before' = {}
  /\ UNCHANGED <<left, debug, dsp, called, lost, failed>>

(* read_x_y_ram_dump: the word of the DSP at an address of the bus; and the
   two memories, one word of each at a time. *)
OnBus(addr) ==
  IF addr < 262144 THEN <<"X", addr \div 4>> ELSE <<"Y", (addr - 262144) \div 4>>

(* Fault: both halves are read from the first memory. *)
read_x_y_ram_dump_OneBank(cells, addr) ==
  [i \in DOMAIN data.reg_dump_strs |-> Held(cells, OnBus(addr + 4 * ((i - 1) \div 2)))]

read_x_y_ram_dump(cells, addr) ==
  [i \in DOMAIN data.reg_dump_strs |->
     Held(cells, OnBus(addr + 4 * ((i - 1) \div 2)
                       + (IF i % 2 = 0 THEN 262144 ELSE 0)))]

(* get_test_op_registers: the words of the two areas that differ, with the
   name that belongs to their place. *)
Differences(cells) ==
  LET prev == read_x_y_ram_dump(cells, 73728)     \* 0x12000
      curr == read_x_y_ram_dump(cells, 74752)     \* 0x12400
  IN {[reg |-> data.reg_dump_strs[i], prev |-> prev[i], curr |-> curr[i]]
        : i \in {i \in DOMAIN data.reg_dump_strs : prev[i] /= curr[i]}}
Compare ==
  /\ stage = "compare" /\ stage' = "prompt"
  /\ shown' = UNION {Differences(d.cells) : d \in dsp}
  /\ UNCHANGED <<left, debug, dsp, test_op, called, before, lost, failed, tests>>

(* What is typed is no number. *)
Quit ==
  /\ stage = "prompt" /\ stage' = "done"
  /\ UNCHANGED <<left, debug, dsp, test_op, shown, called, before, lost, failed, tests>>

Next == SetSingleStep \/ SetPc \/ RunStep \/ Prompt \/ Compare \/ Quit
Spec == Init /\ [][Next]_vars

(***************************************************************************)
(* Properties                                                              *)
(***************************************************************************)
(* The function that writes the registers leaves all of them as they were,
   also the conditions and the stack register, and the steps counted for it
   end behind its call, not before and not beyond; a step that is lost costs no
   more than the return.  This is so unless a read of the debug register, which
   then takes the DSP out of single step mode, or a program counter is given
   up. *)
AfterFunction == left = 0 /\ stage \in {"first_post", "prompt", "test", "compare"}
StateComesBack ==
  AfterFunction /\ failed = {} =>
    /\ dsp /= {}
    /\ \A d \in dsp, c \in called :
         /\ \A cell \in DOMAIN Start : d.cells[cell] = c.cells[cell]
         /\ lost = 0 => d.pc = c.pc + 2 /\ d.calls = c.calls

(* What a register of the names holds, as the function sees it: with six words
   more on the stack. *)
Seen(cells, name) == Value([cells EXCEPT ![Reg(A_R(7))] = @ + 6], name)
Change(b, c, name) == <<Seen(b.cells, name), Seen(c.cells, name)>>

(* Every change the operation made is shown, with what the register held
   before and after.  What is shown besides are words of the areas to which the
   function writes nothing. *)
ChangesAreShown ==
  stage = "prompt" /\ failed = {} =>
    \A b \in before, c \in called :
      LET changes == {Change(b, c, name) : name \in ToSet(data.reg_dump_strs)}
          pairs   == {<<s.prev, s.curr>> : s \in shown}
      IN /\ \A change \in changes : change[1] /= change[2] => change \in pairs
         /\ \A pair \in pairs \ changes :
              {pair[1], pair[2]} \intersect {c.cells[cell] : cell \in DOMAIN c.cells} = {}

(* A change is shown under the name of the register that changed. *)
NamesAreTrue ==
  stage = "prompt" /\ failed = {} =>
    \A b \in before, c \in called, s \in shown :
      <<s.prev, s.curr>> = Change(b, c, s.reg)

=============================================================================
