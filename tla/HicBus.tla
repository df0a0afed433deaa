------------------------------- MODULE HicBus -------------------------------
(***************************************************************************)
(* The HIC ("HCI") bus of the ca0132, verb by verb, and the chipio tools    *)
(* that use it: chipio-read-data, chipio-read-to-file, chipio-write-data    *)
(* and chipio-write-data-from-file.                                         *)
(*                                                                         *)
(* A tool reaches the 32-bit bus through 16-bit verbs: it latches the two   *)
(* halves of an address, then the two halves of every data word, and the    *)
(* codec performs the transfer on its own and steps the address.  Every     *)
(* verb may be answered "busy"; the library polls and retries a bounded     *)
(* number of times and gives the call up.  The user may kill a tool between *)
(* any two verbs and start another.                                         *)
(*                                                                         *)
(* Actions are single ioctls.  An address is an integer cut into its halves *)
(* by LowHalf and HighHalf (the code's "& 0xffff" and ">> 16"); a data word *)
(* is a pair of opaque halves.                                              *)
(*                                                                         *)
(* A definition marked "Fault" is a wrong version of the one that follows,  *)
(* kept to show which property would notice it.  No action uses it.         *)
(***************************************************************************)
EXTENDS HicWords

CONSTANTS
    STATUS_TRIES,   \* polls of the status verb in chipio_get_status (code: 6)
    VERB_TRIES,     \* sends of a verb in chipio_verb_send_with_status (code: 4)
    PIECES          \* pieces chipio-read-to-file splits a range in  (code: 8)

ASSUME TriesAssumption == /\ STATUS_TRIES \in Nat \ {0}
                          /\ VERB_TRIES \in Nat \ {0}
                          /\ PIECES \in Nat \ {0}

VARIABLES
    mem,        \* codec: the words on the HIC bus
    alo, ahi,   \* codec: the address register, by halves
    dlo, dhi,   \* codec: the data register, by halves
    latch,      \* codec: the word READ_DATA answers
    pend,       \* codec: the transfer it is performing
    job,        \* tool: what it was started for
    phase,      \* tool: it is writing, or reading (back)
    pc,         \* tool: the ioctl it performs next
    tries,      \* tool: ioctls the current poll or send has spent
    off, left,  \* tool: first word of the current range call; words to do
    idx,        \* tool: words of the current range call already done
    got,        \* tool: the buffer read into
    sent,       \* history: words of the job the codec has taken
    before,     \* history: what the bus held when the job started
    how,        \* history: how each word of got came about
    dropped,    \* history: this call gave up a POST_READ
    failed      \* history: a call of this job was aborted

codecVars == <<mem, alo, ahi, dlo, dhi, latch, pend>>
jobVars   == <<job, phase, off, left, before>>
history   == <<sent, how, dropped, failed>>
vars == <<codecVars, jobVars, history, pc, tries, idx, got>>

-----------------------------------------------------------------------------
LowHalf(a)  == a % LOW_SIZE
HighHalf(a) == a \div LOW_SIZE
Join(h, l)  == h * LOW_SIZE + l

(* The address the codec would use now.                                    *)
Here == Join(ahi, alo)

(* What the bus holds once the write in progress, if any, is done.         *)
Settled == IF pend = "write" THEN [mem EXCEPT ![Here] = <<dlo, dhi>>] ELSE mem

(* Words a range call covers: all of them, or a piece of a dump.           *)
ChunkSize == IF job.kind = "load" THEN job.n
             ELSE IF job.n < PIECES THEN 1 ELSE job.n \div PIECES

CallCount == IF phase = "write" THEN job.n
             ELSE IF left < ChunkSize THEN left ELSE ChunkSize

(* The word the current range call works on, counted from 1.               *)
Cur == off + idx + 1

(* The address the current range call starts at.                           *)
\* Fault: the pieces of a dump advance by words, not by addresses.
TargetUnscaled == job.base + off
Target == job.base + WORD_STEP * off

StatusPC == {"addrStatus", "dataStatus", "readStatus", "fetchStatus"}
SendPC   == {"addrLow", "addrHigh", "dataLow", "dataHigh", "postRead"}
PC == StatusPC \cup SendPC \cup {"idle", "fetch", "return", "done"}

TypeOK ==
    /\ mem \in [Addr -> Word]
    /\ alo \in 0 .. LOW_SIZE - 1 /\ ahi \in 0 .. HIGH_SIZE - 1
    /\ dlo \in Datum /\ dhi \in Datum
    /\ latch \in Word
    /\ pend \in {"none", "write", "read"}
    /\ job \in Jobs
    /\ phase \in {"write", "read"}
    /\ pc \in PC
    /\ tries \in Nat
    /\ off \in Nat /\ left \in Nat /\ idx \in Nat
    /\ got \in [1 .. job.n -> Word]
    /\ sent \in 0 .. job.n
    /\ before \in [Addr -> Word]
    /\ how \in [1 .. job.n -> {"unread", "fresh", "stale"}]
    /\ dropped \in BOOLEAN /\ failed \in BOOLEAN

Blank(j) ==
    /\ got' = [k \in 1 .. j.n |-> Zero]
    /\ how' = [k \in 1 .. j.n |-> "unread"]

(* Until the first Start, job is what a tool that did nothing would leave. *)
Init ==
    /\ mem \in InitialMem
    /\ alo = 0 /\ ahi = 0
    /\ dlo = Zero[1] /\ dhi = Zero[2]
    /\ latch = Zero
    /\ pend = "none"
    /\ job \in Jobs
    /\ phase = "read"
    /\ pc = "idle"
    /\ tries = 0
    /\ off = 0 /\ left = 0 /\ idx = 0
    /\ got = [k \in 1 .. job.n |-> Zero]
    /\ sent = 0
    /\ before = mem
    /\ how = [k \in 1 .. job.n |-> "unread"]
    /\ dropped = FALSE /\ failed = FALSE

-----------------------------------------------------------------------------
(* The codec.  A transfer in progress ends at any later time, and the       *)
(* address steps to the next word.  Until then the status verb says busy;   *)
(* it may also do so for a codec at rest, and any verb may be refused.  A   *)
(* verb the codec takes during a transfer is not held back: only the        *)
(* library's polls keep the registers of a transfer from being overwritten. *)
Transfer ==
    LET next == (Here + WORD_STEP) % (LOW_SIZE * HIGH_SIZE)
    IN  /\ pend # "none"
        /\ pend' = "none"
        /\ mem' = Settled
        /\ latch' = IF pend = "read" THEN mem[Here] ELSE latch
        /\ alo' = LowHalf(next)
        /\ ahi' = HighHalf(next)
        /\ UNCHANGED <<dlo, dhi, jobVars, history, pc, tries, idx, got>>

-----------------------------------------------------------------------------
(* The library: one action per kind of ioctl.                              *)

(* Where a range call goes on to after its address, and after each word.   *)
NextWord == IF phase = "write" THEN "dataStatus" ELSE "readStatus"

\* Fault: a range call leaves out its last word.
WordDoneEarly == IF idx + 2 < CallCount THEN NextWord ELSE "return"
WordDone == IF idx + 1 < CallCount THEN NextWord ELSE "return"

\* Fault: the loop over the halves of a word starts at the high one.
AfterStatusHighOnly ==
    CASE pc = "addrStatus"  -> "addrLow"
      [] pc = "dataStatus"  -> "dataHigh"
      [] pc = "readStatus"  -> "postRead"
      [] pc = "fetchStatus" -> "fetch"

AfterStatus ==
    CASE pc = "addrStatus"  -> "addrLow"
      [] pc = "dataStatus"  -> "dataLow"
      [] pc = "readStatus"  -> "postRead"
      [] pc = "fetchStatus" -> "fetch"

\* Fault: the latch is read without waiting for the transfer.
AfterPostReadUnpolled == "fetch"
AfterPostRead == "fetchStatus"

\* Fault: a poll or send is retried without counting.
NextTryUncounted == tries
NextTry == tries + 1

(* chipio_get_status: the poll finds the codec ready.                      *)
PollReady ==
    /\ pc \in StatusPC
    /\ pend = "none"
    /\ pc' = AfterStatus
    /\ tries' = 0
    /\ UNCHANGED <<codecVars, jobVars, history, idx, got>>

(* chipio_get_status: the poll finds it busy; the last one aborts the call. *)
PollBusy ==
    /\ pc \in StatusPC
    /\ IF NextTry < STATUS_TRIES
       THEN tries' = NextTry /\ UNCHANGED <<pc, failed>>
       ELSE tries' = 0 /\ pc' = "return" /\ failed' = TRUE
    /\ UNCHANGED <<codecVars, jobVars, sent, how, dropped, idx, got>>

(* chipio_verb_send_with_status: a verb is refused.  Giving up aborts the   *)
(* call, except that chipio_hic_read_data never looks at what became of     *)
(* its POST_READ.                                                           *)
SendRefused ==
    /\ pc \in SendPC
    /\ IF NextTry < VERB_TRIES
       THEN tries' = NextTry /\ UNCHANGED <<pc, failed, dropped>>
       ELSE /\ tries' = 0
            /\ IF pc = "postRead"
               THEN pc' = AfterPostRead /\ dropped' = TRUE /\ UNCHANGED failed
               ELSE pc' = "return" /\ failed' = TRUE /\ UNCHANGED dropped
    /\ UNCHANGED <<codecVars, jobVars, sent, how, idx, got>>

(* chipio_hic_set_address: the codec takes a half of the address.          *)
SendAddress ==
    /\ tries' = 0
    /\ \/ /\ pc = "addrLow"
          /\ pc' = "addrHigh"
          /\ alo' = LowHalf(Target)
          /\ UNCHANGED ahi
       \/ /\ pc = "addrHigh"
          /\ pc' = NextWord
          /\ ahi' = HighHalf(Target)
          /\ UNCHANGED alo
    /\ UNCHANGED <<mem, dlo, dhi, latch, pend, jobVars, history, idx, got>>

(* chipio_hic_set_data: the codec takes a half of a word; the high half     *)
(* starts the write.                                                        *)
SendData ==
    /\ tries' = 0
    /\ \/ /\ pc = "dataLow"
          /\ pc' = "dataHigh"
          /\ dlo' = job.words[Cur][1]
          /\ UNCHANGED <<dhi, pend, sent, idx>>
       \/ /\ pc = "dataHigh"
          /\ pc' = WordDone
          /\ dhi' = job.words[Cur][2]
          /\ pend' = "write"
          /\ sent' = sent + 1
          /\ idx' = idx + 1
          /\ UNCHANGED dlo
    /\ UNCHANGED <<mem, alo, ahi, latch, jobVars, how, dropped, failed, got>>

(* chipio_hic_read_data: the codec takes the POST_READ.                    *)
PostRead ==
    /\ pc = "postRead"
    /\ pend' = "read"
    /\ pc' = AfterPostRead
    /\ tries' = 0
    /\ UNCHANGED <<mem, alo, ahi, dlo, dhi, latch, jobVars, history, idx, got>>

(* chipio_hic_read_data: READ_DATA answers whatever the latch holds.       *)
Fetch ==
    /\ pc = "fetch"
    /\ got' = [got EXCEPT ![Cur] = latch]
    /\ how' = [how EXCEPT ![Cur] = IF dropped THEN "stale" ELSE "fresh"]
    /\ pc' = WordDone
    /\ idx' = idx + 1
    /\ UNCHANGED <<codecVars, jobVars, sent, dropped, failed, tries>>

-----------------------------------------------------------------------------
(* The tools.                                                              *)

(* Every range call begins with chipio_hic_set_address polling.            *)
\* Fault: the address is sent without waiting for the last write.
CallStartUnpolled == "addrLow"
CallStart == "addrStatus"

(* A tool is started, or asked for its next address.                       *)
Start ==
    /\ pc = "idle"
    /\ job' \in Jobs
    /\ phase' = IF job'.kind = "load" THEN "write" ELSE "read"
    /\ pc' = CallStart
    /\ tries' = 0
    /\ off' = 0 /\ left' = job'.n /\ idx' = 0
    /\ Blank(job')
    /\ sent' = 0
    /\ before' = Settled
    /\ dropped' = FALSE /\ failed' = FALSE
    /\ UNCHANGED codecVars

(* A range write is over, done or aborted: the tool reads back.            *)
WriteReturns ==
    /\ pc = "return" /\ phase = "write"
    /\ phase' = "read"
    /\ pc' = CallStart
    /\ idx' = 0
    /\ UNCHANGED <<codecVars, job, off, left, before, history, tries, got>>

(* Words still to read once the current piece is done with.                *)
\* Fault: the last, shorter piece takes the count below zero.
PieceLeftUnguarded == left - ChunkSize
\* Fault: the words that do not fill a piece are left out.
PieceLeftNoRest == IF left < 2 * ChunkSize THEN 0 ELSE left - ChunkSize
PieceLeft == IF left < ChunkSize THEN 0 ELSE left - ChunkSize

(* A range read is over, done or aborted: the tool reads the next piece,    *)
(* or prints (saves) what it has.                                           *)
ReadReturns ==
    /\ pc = "return" /\ phase = "read"
    /\ left' = PieceLeft
    /\ off' = off + ChunkSize
    /\ idx' = 0
    /\ pc' = IF left' = 0 THEN "done" ELSE CallStart
    /\ dropped' = FALSE
    /\ UNCHANGED <<codecVars, job, phase, before, sent, how, failed, tries, got>>

Finish ==
    /\ pc = "done"
    /\ pc' = "idle"
    /\ UNCHANGED <<codecVars, jobVars, history, tries, idx, got>>

(* The user kills the tool between two ioctls.                             *)
Kill ==
    /\ pc # "idle"
    /\ pc' = "idle"
    /\ UNCHANGED <<codecVars, jobVars, history, tries, idx, got>>

Tool == \/ PollReady \/ PollBusy
        \/ SendRefused \/ SendAddress \/ SendData \/ PostRead \/ Fetch
        \/ WriteReturns \/ ReadReturns \/ Finish

Next == Transfer \/ Tool \/ Start \/ Kill

Spec == Init /\ [][Next]_vars

(* A running tool keeps running; nothing is asked of the codec.            *)
FairSpec == Spec /\ WF_vars(Tool)

-----------------------------------------------------------------------------
(***************************************************************************)
(* Properties.                                                             *)
(***************************************************************************)

(* However many verbs were refused, wherever a call was aborted or the tool *)
(* was killed, and whatever an earlier killed tool left in the latches: the *)
(* bus holds exactly a prefix of the words of the running (or last) job, in *)
(* place and whole, over what it held when that job started.                *)
WritesArePrefix ==
    /\ \A j \in 1 .. sent : Settled[WordAddr(job.base, j)] = job.words[j]
    /\ \A a \in Addr : (\A j \in 1 .. sent : a # WordAddr(job.base, j))
                          => Settled[a] = before[a]

(* A word read while every POST_READ of its call was taken is the word at   *)
(* its own address, whichever piece of the dump it belongs to and whatever  *)
(* became of the other pieces; a place no call reached still holds Zero.    *)
FreshReadsAreTrue ==
    \A j \in 1 .. job.n :
        /\ how[j] = "fresh"  => got[j] = Settled[WordAddr(job.base, j)]
        /\ how[j] = "unread" => got[j] = Zero

(* A tool none of whose calls was aborted has read every word it was asked  *)
(* for: the pieces of a dump leave no word out, at whatever length.         *)
UnfailedJobReadsAll ==
    (pc = "done" /\ ~failed) => \A j \in 1 .. job.n : how[j] # "unread"

(* A load none of whose calls was aborted has written every word.          *)
UnfailedLoadWritesAll ==
    (pc = "done" /\ ~failed /\ job.kind = "load") => sent = job.n

(* The tool changes the bus only while it is writing: reading back, dumping *)
(* and being killed leave what the bus will hold as it is.                  *)
OnlyWritersWrite ==
    [][Settled' # Settled => phase = "write" /\ pc = "dataHigh" /\ pend = "none"]_vars

(* A codec that stays busy for ever cannot hang a tool: bounded retries     *)
(* bring every job to its end.                                              *)
JobsEnd == (pc # "idle") ~> (pc = "idle")

(* Word by word, in order, each whole and all at once: the bus is a memory. *)
Memory == INSTANCE HicMemory WITH
    store <- Settled, cur <- job, put <- sent, vals <- got, seen <- how

ImplementsMemory == Memory!Spec

-----------------------------------------------------------------------------
(***************************************************************************)
(* The inductive invariant behind the safety properties: the parts that tie *)
(* the tool's counters and the codec's registers to the place in the call.  *)
(***************************************************************************)
AddressPC == {"addrStatus", "addrLow", "addrHigh"}
DataPC    == {"dataStatus", "dataLow", "dataHigh"}
ReadPC    == {"readStatus", "postRead", "fetchStatus", "fetch"}

(* Which phase the program counter belongs to, and the counters of a call.  *)
CountersInv ==
    /\ pc \in DataPC => phase = "write"
    /\ pc \in ReadPC \cup {"done"} => phase = "read"
    /\ phase = "write" => /\ job.kind = "load"
                          /\ off = 0
                          /\ sent = idx
                          /\ ~dropped
                          /\ \A j \in 1 .. job.n : how[j] = "unread"
    /\ pc \notin {"idle", "done"} => left >= 1 /\ off + left = job.n
    /\ pc \in AddressPC => idx = 0 /\ ~dropped
    /\ pc \in DataPC \cup ReadPC => idx < CallCount

(* No verb but the status poll is ever sent during a transfer.             *)
QuietInv == pc \in SendPC \cup {"fetch"} => pend = "none"

(* Where the address register stands, and what the latches hold.           *)
RegistersInv ==
    /\ pc = "addrHigh" => alo = LowHalf(Target)
    /\ pc \in DataPC => IF pend = "none" THEN Here = WordAddr(job.base, Cur)
                         ELSE Here + WORD_STEP = WordAddr(job.base, Cur)
    /\ pc = "dataHigh" => dlo = job.words[Cur][1]
    /\ pc \in {"readStatus", "postRead"} /\ ~dropped =>
          IF pend = "none" THEN Here = WordAddr(job.base, Cur)
          ELSE Here + WORD_STEP = WordAddr(job.base, Cur)
    /\ pc \in {"fetchStatus", "fetch"} /\ ~dropped =>
          IF pend = "read" THEN Here = WordAddr(job.base, Cur)
          ELSE /\ pend = "none"
               /\ latch = mem[WordAddr(job.base, Cur)]
               /\ Cur < job.n => Here = WordAddr(job.base, Cur + 1)

(* A call goes through its words in ascending order, whatever was aborted.  *)
AheadInv == pc \notin {"idle", "done"} =>
                /\ idx <= CallCount
                /\ \A k \in 1 .. job.n : k >= Cur => how[k] = "unread"

(* As long as no call was aborted no word is left behind: the calls cover   *)
(* the words before the one in hand, and a call returns at its end only.    *)
UnfailedInv == (~failed /\ pc # "idle") =>
    /\ pc = "return" => idx = CallCount
    /\ phase = "read" /\ job.kind = "load" => sent = job.n
    /\ phase = "read" /\ pc # "done" =>
          \A k \in 1 .. job.n : k < Cur => how[k] # "unread"
    /\ pc = "done" => \A k \in 1 .. job.n : how[k] # "unread"

IInv == /\ TypeOK
        /\ CountersInv
        /\ QuietInv
        /\ RegistersInv
        /\ WritesArePrefix
        /\ FreshReadsAreTrue
=============================================================================
