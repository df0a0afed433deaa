------------------------------ MODULE DspioScp ------------------------------
(***************************************************************************)
(* The DSP command path: send-dsp-scp-cmd sends a typed command, a header   *)
(* and its data words, with dspio_write; the codec queues the words and the *)
(* DSP takes them off the queue and puts packets together again.            *)
(*                                                                         *)
(* dspio_write polls the status, sends the low and the high half of a word  *)
(* and asks once more whether the word was queued.  Any poll may say busy,  *)
(* any verb may be refused, the queue may be full; the tool then tells the  *)
(* user to try again, wherever in the packet it was.                        *)
(*                                                                         *)
(* A definition marked "Fault" is a wrong version of the one that follows,  *)
(* kept to show which property would notice it.                             *)
(***************************************************************************)
EXTENDS ScpHeader

CONSTANTS
    TRIES,          \* polls of dspio_write_wait, sends of a verb (code: 6)
    CAPACITY,       \* words the codec queues for the DSP
    Commands,       \* what the user may type
    MAX_ATTEMPTS    \* commands typed in a behaviour (bound)

HalfWord == { n \in Nat : n < 65536 }
Word == HalfWord \X HalfWord

ASSUME ScpAssumption ==
    /\ TRIES \in Nat \ {0} /\ CAPACITY \in Nat \ {0} /\ MAX_ATTEMPTS \in Nat
    /\ \A c \in Commands :
          /\ DOMAIN c = {"src", "mid", "req", "data"}
          /\ c.src \in Nat /\ c.mid \in Nat /\ c.req \in Nat
          /\ c.data \in Seq(Word)

VARIABLES
    lowHalf,    \* codec: the low half it holds
    stream,     \* codec: every word it has queued, in order
    taken,      \* codec: how many of them the DSP has taken off the queue
    lost,       \* codec: the last word found the queue full
    open,       \* DSP: the packet it is putting together, or <<>>
    packets,    \* DSP: the packets it has put together
    pc,         \* tool: the ioctl it performs next
    tries,      \* tool: ioctls spent on it
    word,       \* tool: the word of the command in hand it sends
    log         \* history: the commands typed; where in the stream each
                \* starts, how many of its words were queued, what was said

codecVars == <<lowHalf, stream, lost>>
dspVars   == <<taken, open, packets>>
vars      == <<codecVars, dspVars, pc, tries, word, log>>

-----------------------------------------------------------------------------
(* The words main sends for a command.                                     *)
WordsOf(c) ==
    <<CreateHeader(Pack(Len(c.data), c.req, c.src, c.mid))>> \o c.data

attempt == log[Len(log)]
sending == WordsOf(attempt.cmd)

Full == Len(stream) - taken = CAPACITY

(* What the DSP still expects of the packet it is putting together.        *)
Missing(packet) == GetScpData(packet[1]).data_size - (Len(packet) - 1)

Attempt == [cmd : Commands, from : Nat, queued : Nat,
            result : {"sending", "ok", "busy", "killed"}]

TypeOK ==
    /\ lowHalf \in HalfWord
    /\ stream \in Seq(Word)
    /\ taken \in 0 .. Len(stream) /\ Len(stream) - taken <= CAPACITY
    /\ lost \in BOOLEAN
    /\ open \in Seq(Word)
    /\ packets \in Seq(Seq(Word))
    /\ pc \in {"prompt", "wait", "low", "high", "check"}
    /\ tries \in 0 .. TRIES - 1
    /\ word \in Nat
    /\ log \in Seq(Attempt)

Init ==
    /\ lowHalf = 0
    /\ stream = <<>> /\ taken = 0
    /\ lost = FALSE
    /\ open = <<>> /\ packets = <<>>
    /\ pc = "prompt" /\ tries = 0 /\ word = 1
    /\ log = <<>>

-----------------------------------------------------------------------------
(* The DSP takes the next word.                                            *)
DspTakes ==
    /\ taken < Len(stream)
    /\ taken' = taken + 1
    /\ LET packet == Append(open, stream[taken + 1])
       IN  IF Missing(packet) = 0
           THEN packets' = Append(packets, packet) /\ open' = <<>>
           ELSE packets' = packets /\ open' = packet
    /\ UNCHANGED <<codecVars, pc, tries, word, log>>

(* The status verb: a word that found the queue full is reported, at least  *)
(* once and until there is room again.                                      *)
ReadStatus == lost' = (lost /\ Full)

-----------------------------------------------------------------------------
Ends(result) ==
    /\ pc' = "prompt"
    /\ tries' = 0
    /\ word' = 1
    /\ log' = [log EXCEPT ![Len(log)].result = result]

(* A command too large for the size field is not accepted.                 *)
\* Fault: it is.
FitsUnchecked(c) == TRUE
Fits(c) == Len(c.data) < SIZES

(* main: a command has been typed.                                         *)
Enter ==
    /\ pc = "prompt"
    /\ Len(log) < MAX_ATTEMPTS
    /\ \E c \in Commands :
          /\ Fits(c)
          /\ log' = Append(log, [cmd |-> c, from |-> Len(stream),
                                 queued |-> 0, result |-> "sending"])
    /\ pc' = "wait"
    /\ UNCHANGED <<codecVars, dspVars, tries, word>>

(* dspio_write_wait: ready.                                                *)
WaitReady ==
    /\ pc = "wait" /\ ~lost
    /\ ReadStatus
    /\ pc' = "low" /\ tries' = 0
    /\ UNCHANGED <<lowHalf, stream, dspVars, word, log>>

\* Fault: the count starts over when it reaches one.
NextTryRestarted == IF tries = 0 THEN 1 ELSE 0
NextTry == tries + 1

TryAgain == IF NextTry < TRIES THEN tries' = NextTry /\ UNCHANGED <<pc, word, log>>
                               ELSE Ends("busy")

(* dspio_write_wait: busy, or the queue still full.                        *)
WaitBusy ==
    /\ pc = "wait"
    /\ ReadStatus
    /\ TryAgain
    /\ UNCHANGED <<lowHalf, stream, dspVars>>

(* dspio_send_verb_with_status: a half word is refused.                    *)
Refused ==
    /\ pc \in {"low", "high"}
    /\ TryAgain
    /\ UNCHANGED <<codecVars, dspVars>>

SendLow ==
    /\ pc = "low"
    /\ lowHalf' = sending[word][1]
    /\ pc' = "high" /\ tries' = 0
    /\ UNCHANGED <<stream, lost, dspVars, word, log>>

(* The high half makes the codec queue the word, if it can.                *)
SendHigh ==
    /\ pc = "high"
    /\ lost' = Full
    /\ IF Full
       THEN UNCHANGED <<stream, log>>
       ELSE /\ stream' = Append(stream, <<lowHalf, sending[word][2]>>)
            /\ log' = [log EXCEPT ![Len(log)].queued = @ + 1]
    /\ pc' = "check" /\ tries' = 0
    /\ UNCHANGED <<lowHalf, dspVars, word>>

\* Fault: what the last status says is not looked at.
ExecutedUnchecked == TRUE
Executed == ~lost

\* Fault: the last data word is left out.
MoreWordsShort == word + 1 < Len(sending)
MoreWords == word < Len(sending)

(* dspio_write looks whether the word was queued; main goes on to the next  *)
(* word or gives the command up.                                            *)
Check ==
    /\ pc = "check"
    /\ ReadStatus
    /\ IF Executed /\ MoreWords
       THEN pc' = "wait" /\ word' = word + 1 /\ UNCHANGED <<tries, log>>
       ELSE Ends(IF Executed THEN "ok" ELSE "busy")
    /\ UNCHANGED <<lowHalf, stream, dspVars>>

(* The user kills the tool and starts it again.                            *)
Kill ==
    /\ pc # "prompt"
    /\ Ends("killed")
    /\ UNCHANGED <<codecVars, dspVars>>

Tool == WaitReady \/ WaitBusy \/ Refused \/ SendLow \/ SendHigh \/ Check

Next == DspTakes \/ Enter \/ Tool \/ Kill

Spec == Init /\ [][Next]_vars

(* A running tool keeps running and the DSP keeps taking words.            *)
FairSpec == Spec /\ WF_vars(Tool) /\ WF_vars(DspTakes)

-----------------------------------------------------------------------------
(***************************************************************************)
(* Properties.                                                             *)
(***************************************************************************)

(* Whatever was refused, found the queue full or was killed, in this and in *)
(* all earlier commands: what the codec has queued is, command after        *)
(* command, a prefix of its words.  No word is torn between two commands,   *)
(* none is left out before a later one, none is queued twice.               *)
StreamIsPrefixes ==
    \A i \in 1 .. Len(log) :
        /\ log[i].queued <= Len(WordsOf(log[i].cmd))
        /\ log[i].from + log[i].queued
              = IF i < Len(log) THEN log[i + 1].from ELSE Len(stream)
        /\ \A k \in 1 .. log[i].queued :
              stream[log[i].from + k] = WordsOf(log[i].cmd)[k]

(* "DSP busy, try again." is never said of a command that was sent in full, *)
(* so trying again does not perform it twice; and a command accepted        *)
(* without a message was sent in full.                                      *)
ResultsAreTrue ==
    \A i \in 1 .. Len(log) :
        /\ log[i].result = "ok"   => log[i].queued = Len(WordsOf(log[i].cmd))
        /\ log[i].result = "busy" => log[i].queued < Len(WordsOf(log[i].cmd))

(* What the DSP reads out of a packet is what was typed.                   *)
Understood(packet, c) ==
    LET header == GetScpData(packet[1])
    IN  /\ header.req = c.req
        /\ header.source_id = c.src /\ header.target_id = c.mid
        /\ header.error_flag = 0 /\ header.resp_flag = 0
        /\ header.device_flag = 0 /\ header.get_flag = 0
        /\ Tail(packet) = c.data

Sent(i) == i <= Len(log) /\ \A j \in 1 .. i : log[j].result = "ok"

(* No command was given up or killed.                                      *)
Unbroken == \A i \in 1 .. Len(log) : log[i].result \in {"ok", "sending"}

(* As long as nothing was given up or killed, the packets the DSP puts      *)
(* together are the commands that were typed, in their order.               *)
UnbrokenRunIsUnderstood ==
    Unbroken =>
        /\ Len(packets) <= Len(log)
        /\ \A i \in 1 .. Len(packets) : Understood(packets[i], log[i].cmd)

(* A codec that stays busy for ever, or a DSP that never makes room, cannot *)
(* hang the tool: bounded retries bring the user back to the prompt.        *)
PromptReturns == (pc # "prompt") ~> (pc = "prompt")

(* While no command has been given up, the DSP comes to have a whole packet *)
(* for every command sent.                                                  *)
SentIsPutTogether ==
    \A i \in 1 .. MAX_ATTEMPTS : Sent(i) ~> Len(packets) >= i

(* What the tool says ("Sends a single DSP scp command.", "DSP busy, try    *)
(* again."): of a user who tries again, and never kills the tool, every     *)
(* command accepted without a message is among the DSP's packets once it    *)
(* has taken all the words.                                                 *)
AcceptedIsACommand ==
    (taken = Len(stream) /\ \A i \in 1 .. Len(log) : log[i].result # "killed") =>
        \A i \in 1 .. Len(log) : log[i].result = "ok" =>
            \E k \in 1 .. Len(packets) : Understood(packets[k], log[i].cmd)

-----------------------------------------------------------------------------
(* The inductive invariant behind the safety properties: where the tool is  *)
(* in the command is what the codec has queued of it.                       *)
PlaceInv ==
    /\ \A i \in 1 .. Len(log) : log[i].result = "sending" => i = Len(log)
    /\ pc = "prompt" /\ log # <<>> => attempt.result # "sending"
    /\ pc # "prompt" =>
          /\ Len(log) > 0
          /\ attempt.result = "sending"
          /\ word <= Len(sending)
          /\ attempt.queued = IF pc = "check" /\ ~lost THEN word ELSE word - 1
    /\ pc = "high" => lowHalf = sending[word][1]
    /\ pc = "prompt" => word = 1
    /\ word >= 1
    /\ log = <<>> => stream = <<>>

(* No command reaches beyond what has been queued.                         *)
WithinInv ==
    \A i \in 1 .. Len(log) : log[i].from + log[i].queued <= Len(stream)

IInv == TypeOK /\ PlaceInv /\ WithinInv /\ StreamIsPrefixes /\ ResultsAreTrue

(* The packets are the first commands typed, sent in full.                 *)
PutTogether ==
    \A i \in 1 .. Len(packets) :
        /\ packets[i] = WordsOf(log[i].cmd)
        /\ log[i].queued = Len(packets[i])

(* What the DSP holds is the beginning of a command, taken where it starts. *)
Holds(a) ==
    /\ taken = a.from + Len(open)
    /\ Len(open) < Len(WordsOf(a.cmd))
    /\ \A k \in 1 .. Len(open) : open[k] = WordsOf(a.cmd)[k]

(* Where the DSP is in an unbroken stream: it has put the first commands    *)
(* together, and holds the beginning of the next one.                       *)
PacketsInv == Unbroken =>
    /\ Len(packets) <= Len(log)
    /\ PutTogether
    /\ Len(packets) = Len(log) => open = <<>> /\ taken = Len(stream)
    /\ Len(packets) < Len(log) => Holds(log[Len(packets) + 1])

(* Only commands the size field can count are sent.                        *)
AcceptedFit == \A i \in 1 .. Len(log) : Fits(log[i].cmd)

(* What the user types fits the fields of a header.                        *)
FieldsFit == \A c \in Commands : c.req < 128 /\ c.src < 256 /\ c.mid < 256
=============================================================================
