----------------------------- MODULE StateDump -----------------------------
(***************************************************************************)
(* 8051-dump-state against the 8051 whose handlers it has installed.        *)
(*                                                                         *)
(* The tool sets parameter 36 to ask for a dump, polls the signal byte a    *)
(* few times, clears it, and reads the area the handler has filled; three   *)
(* times, with one area.  If the signal does not come in time it says so    *)
(* and leaves the section out; a bank that fails also ends dump_8051_pmem,  *)
(* so that the other bank may be left out with it.  It saves the file       *)
(* whatever happened.                                                      *)
(*                                                                         *)
(* The 8051 takes one request after the other, at any speed.  What a        *)
(* handler does is what DumpHandler8051 shows of the installed code: it     *)
(* fills the area, then signals.  The area is cut into PARTS pieces, each   *)
(* of them read by one call of chipio_8051_read_exram_data_range.           *)
(*                                                                         *)
(* A definition marked "Fault" is a wrong version of the one that follows,  *)
(* kept to show which property would notice it.                             *)
(***************************************************************************)
EXTENDS Integers, Sequences

CONSTANTS
    PARTS,      \* pieces the area is filled and read in
    POLLS,      \* looks at the signal   (code: 4)
    MAX_RUNS    \* bound: uses of the tool

ASSUME DumpAssumption == {PARTS, POLLS, MAX_RUNS} \subseteq Nat \ {0}

(* Values of the parameter, and the sections of the file they are for.     *)
Sections == {"bank0", "bank1", "ram"}
Nothing  == "nothing"

VARIABLES
    signal,     \* exram: the signal byte is \hff
    area,       \* exram: whose bytes each piece of the area holds
    asked,      \* 8051: requests it has not taken yet
    doing,      \* 8051: the request it is at
    filled,     \* 8051: pieces of the area it has filled
    pc,         \* tool: what it does next
    section,    \* tool: the section it is at
    polls,      \* tool: looks at the signal left
    i,          \* tool: pieces of the area read
    file,       \* tool: what it has for each section (zeros at first)
    told,       \* tool: it said that a dump failed
    clean,      \* history: nothing of an earlier run was left at the start
    runs        \* history: uses of the tool

handler == <<signal, area, asked, doing, filled>>
vars    == <<handler, pc, section, polls, i, file, told, clean, runs>>

TypeOK ==
    /\ signal \in BOOLEAN
    /\ area \in [1 .. PARTS -> Sections \cup {Nothing}]
    /\ asked \in Seq(Sections)
    /\ doing \in Sections \cup {Nothing}
    /\ filled \in 0 .. PARTS
    /\ pc \in {"idle", "ask", "poll", "clear", "read", "save"}
    /\ section \in Sections
    /\ polls \in 0 .. POLLS
    /\ i \in 0 .. PARTS
    /\ file \in [Sections -> [1 .. PARTS -> Sections \cup {Nothing}]]
    /\ told \subseteq Sections
    /\ clean \in BOOLEAN
    /\ runs \in 0 .. MAX_RUNS

Blank == [k \in 1 .. PARTS |-> Nothing]

Init ==
    /\ signal = FALSE
    /\ area = Blank
    /\ asked = <<>> /\ doing = Nothing /\ filled = 0
    /\ pc = "idle" /\ section = "bank0" /\ polls = 0 /\ i = 0
    /\ file = [s \in Sections |-> Blank] /\ told = {}
    /\ clean = TRUE /\ runs = 0

-----------------------------------------------------------------------------
(* The tool.                                                               *)

(* main, up to the installed code: no request is made before all of it,     *)
(* and writing it over itself changes nothing.  The signal is not cleared.  *)
Start ==
    /\ pc = "idle" /\ runs < MAX_RUNS
    /\ runs' = runs + 1
    /\ clean' = (~signal /\ asked = <<>> /\ doing = Nothing)
    /\ pc' = "ask" /\ section' = "bank0"
    /\ file' = [s \in Sections |-> Blank] /\ told' = {}
    /\ polls' = 0 /\ i' = 0
    /\ UNCHANGED handler

(* chipio_set_control_param.  Its verbs may be refused; nobody looks.       *)
Ask ==
    /\ pc = "ask"
    /\ asked' \in {asked, Append(asked, section)}
    /\ polls' = POLLS
    /\ pc' = "poll"
    /\ UNCHANGED <<signal, area, doing, filled, section, i, file, told, clean, runs>>

(* What follows a section that was read.                                   *)
Following == [bank0 |-> "bank1", bank1 |-> "ram", ram |-> "ram"]

(* check_dump_status, up to the clearing of the signal.                    *)
\* Fault: polls are not counted.
PollsLeftUncounted == polls
PollsLeft == polls - 1

Poll ==
    /\ pc = "poll"
    /\ \/ /\ signal
          /\ pc' = "clear"
          /\ UNCHANGED <<section, polls, told>>
       \/ /\ ~signal /\ PollsLeft > 0
          /\ polls' = PollsLeft
          /\ UNCHANGED <<pc, section, told>>
       \/ /\ ~signal /\ PollsLeft = 0
          /\ told' = told \cup {section}
          /\ pc' = IF section = "ram" THEN "save" ELSE "ask"
          /\ section' = "ram"
          /\ UNCHANGED polls
    /\ UNCHANGED <<handler, i, file, clean, runs>>

\* Fault: the signal is left as it is.
ClearedLeft == signal
Cleared == FALSE

Clear ==
    /\ pc = "clear"
    /\ signal' = Cleared
    /\ pc' = "read" /\ i' = 0
    /\ UNCHANGED <<area, asked, doing, filled, section, polls, file, told, clean, runs>>

Read ==
    /\ pc = "read"
    /\ file' = [file EXCEPT ![section][i + 1] = area[i + 1]]
    /\ i' = i + 1
    /\ \/ i + 1 < PARTS /\ UNCHANGED <<pc, section>>
       \/ i + 1 = PARTS /\ section = "ram" /\ pc' = "save" /\ UNCHANGED section
       \/ i + 1 = PARTS /\ section # "ram" /\ pc' = "ask" /\ section' = Following[section]
    /\ UNCHANGED <<handler, polls, told, clean, runs>>

Save ==
    /\ pc = "save"
    /\ pc' = "idle"
    /\ UNCHANGED <<handler, section, polls, i, file, told, clean, runs>>

Tool == Ask \/ Poll \/ Clear \/ Read \/ Save

(* The user kills the tool.                                                *)
Kill ==
    /\ pc # "idle"
    /\ pc' = "idle"
    /\ UNCHANGED <<handler, section, polls, i, file, told, clean, runs>>

-----------------------------------------------------------------------------
(* The 8051.                                                               *)
Take ==
    /\ doing = Nothing /\ asked # <<>>
    /\ doing' = Head(asked) /\ asked' = Tail(asked)
    /\ filled' = 0
    /\ UNCHANGED <<signal, area, pc, section, polls, i, file, told, clean, runs>>

Fill ==
    /\ doing # Nothing /\ filled < PARTS
    /\ area' = [area EXCEPT ![filled + 1] = doing]
    /\ filled' = filled + 1
    /\ UNCHANGED <<signal, asked, doing, pc, section, polls, i, file, told, clean, runs>>

Signal ==
    /\ doing # Nothing /\ filled = PARTS
    /\ signal' = TRUE
    /\ doing' = Nothing
    /\ UNCHANGED <<area, asked, filled, pc, section, polls, i, file, told, clean, runs>>

Next == Start \/ Tool \/ Kill \/ Take \/ Fill \/ Signal

Spec == Init /\ [][Next]_vars

FairSpec == Spec /\ WF_vars(Tool)

-----------------------------------------------------------------------------
(***************************************************************************)
(* Properties.                                                             *)
(***************************************************************************)
True(s) == file[s] = [k \in 1 .. PARTS |-> s]

(* A file that is saved without a message, by a run that nothing was left   *)
(* over for, has the right bytes in every section: no signal is taken for   *)
(* another request's, and no handler overwrites the area while it is read.  *)
SavedIsTrue ==
    (pc = "save" /\ clean /\ told = {}) => \A s \in Sections : True(s)

(* Every run ends, also if the 8051 never takes a request.                  *)
RunsEnd == (pc # "idle") ~> (pc = "idle")

-----------------------------------------------------------------------------
(***************************************************************************)
(* The inductive invariant behind SavedIsTrue.                             *)
(***************************************************************************)
InStep ==
    /\ pc = "poll" => polls > 0
    /\ pc = "read" => i < PARTS

Earlier == [bank0 |-> {}, bank1 |-> {"bank0"}, ram |-> {"bank0", "bank1"}]

Quiet     == ~signal /\ asked = <<>> /\ doing = Nothing
AreaOf(s) == area = [k \in 1 .. PARTS |-> s]

(* How far a request for section s may have come: lost, not taken yet,      *)
(* being filled, signalled.                                                *)
Requested(s) ==
    \/ Quiet
    \/ ~signal /\ asked = <<s>> /\ doing = Nothing
    \/ ~signal /\ asked = <<>> /\ doing = s /\ \A k \in 1 .. filled : area[k] = s
    \/ signal /\ asked = <<>> /\ doing = Nothing /\ AreaOf(s)

(* In a run without a message that nothing was left over for, at most one   *)
(* request is under way, and it is the one of the section the tool is at.   *)
OneRequest ==
    (pc # "idle" /\ clean /\ told = {}) =>
        /\ \A s \in Earlier[section] : True(s)
        /\ pc = "ask" => Quiet
        /\ pc = "poll" => Requested(section)
        /\ pc = "clear" => asked = <<>> /\ doing = Nothing /\ AreaOf(section)
        /\ pc = "read" => /\ Quiet /\ AreaOf(section)
                          /\ \A k \in 1 .. i : file[section][k] = section
        /\ pc = "save" => section = "ram" /\ True("ram")

IInv == TypeOK /\ InStep /\ OneRequest
=============================================================================
