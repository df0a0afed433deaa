---------------------------- MODULE MCFrameDump ----------------------------
(* Small instances of FrameDump for TLC: files of up to three calls of the  *)
(* library or of a driver, of which each may be killed at any verb, or send *)
(* any verb again that was refused; files of two codecs; one that is empty,  *)
(* and one that begins within a run of exram bytes.                         *)
EXTENDS FrameDump, SequencesExt, Bitwise

MCBitOr(x, y) == x | y

Send(node, verb, data) ==
    [codec |-> 1, node |-> node, verb |-> verb, data |-> data, ok |-> TRUE]
Chip(verb, data) == Send("chip", verb, data)
Poll == Chip("CHIP_STATUS", 0)

Address(addr) == << Poll, Chip("ADDRESS_LOW", addr[1]), Chip("ADDRESS_HIGH", addr[2]) >>

HicStore(addr, words) ==
    Address(addr) \o FlattenSeq([k \in 1 .. Len(words) |->
        << Poll, Chip("DATA_LOW", words[k][1]), Chip("DATA_HIGH", words[k][2]) >>])

HicLoad(addr, n) ==
    Address(addr) \o FlattenSeq([k \in 1 .. n |->
        << Chip("HIC_POST_READ", 0), Poll, Chip("HIC_READ_DATA", 0) >>])

Aim(addr) == << Chip("RAM_LOW", addr % 256), Chip("RAM_HIGH", addr \div 256) >>

RamStore(addr, bytes) ==
    Aim(addr) \o [k \in 1 .. Len(bytes) |-> Chip("RAM_WRITE", bytes[k])]

(* The second byte of a range read is in the same page.                    *)
RamLoad(addr) ==
    Aim(addr) \o << Chip("RAM_READ", 0), Chip("RAM_LOW", (addr % 256) + 1), Chip("RAM_READ", 0) >>

SetParam(p, val) == << Chip("PARAM_ID", p), Chip("PARAM_VALUE", val) >>
GetParam(p)      == << Chip("PARAM_ID", p), Chip("PARAM_VALUE_GET", 0) >>

ScpWords(words) ==
    FlattenSeq([k \in 1 .. Len(words) |->
        << Send("dsp", "DSP_STATUS", 0), Send("dsp", "SCP_LOW", words[k][1]),
           Send("dsp", "SCP_HIGH", words[k][2]) >>])

Head32(size, get) == CreateHeader([Pack(size, 5, 32, 49) EXCEPT !.get_flag = get])
Command(size, get) == << Head32(size, get) >> \o [k \in 1 .. size |-> <<2 * k, 2 * k + 1>>]

(* The answer to a query, read as a count and two words.                   *)
Answer == << Send("dsp", "SCP_POST_COUNT", 0), Send("dsp", "SCP_READ_COUNT", 0),
             Send("dsp", "SCP_POST_READ", 0), Send("dsp", "SCP_READ", 0),
             Send("dsp", "SCP_POST_READ", 0), Send("dsp", "SCP_READ", 0) >>
ShortAnswer == SubSeq(Answer, 3, 6)

Free == << Chip("PORT_FREE", 0) >>

Pins == << Send("pin", "CONFIG_0", 1), Send("pin", "CONFIG_3", 4), Send("pin", "PIN_CONTROL", 64),
           Send("pin", "AMP", 9), Send("root", "OTHER", 0) >>

Others == << Chip("STREAM_FORMAT", 0), Chip("RAM_WRITE_DIRECT", 3), Chip("PARAM_SET", 2 * 32 + 1),
             Chip("FLAG_SET", 128 + 2), Chip("RAM_LOW", 7), Chip("PLL_WRITE", 1),
             Send("dsp", "OTHER", 0) >>

HicCalls == { HicStore(<<8, 1>>, <<<<5, 6>>, <<7, 9>>>>), HicStore(<<6, 3>>, <<<<4, 8>>>>),
              HicLoad(<<4, 2>>, 2) }
RamCalls == { RamStore(254, <<3, 5, 6>>), RamStore(256, <<9>>), RamLoad(257) }
DspCalls == { ScpWords(Command(2, 0)), ScpWords(Command(0, 0)), ScpWords(Command(1, 1)),
              ScpWords(Command(0, 1)) \o Answer, ScpWords(Command(0, 1)) \o ShortAnswer,
              ScpWords(Command(4, 0)) }
Settings == { SetParam(1, 7), GetParam(2), <<Chip("FLAG_SET", 128 + 3)>>, <<Chip("FLAG_SET", 3)>>,
              Others }
Rest     == { Free, Pins }

Calls == HicCalls \cup RamCalls \cup DspCalls \cup Settings \cup Rest

Killed(call)  == { SubSeq(call, 1, k) : k \in 1 .. Len(call) - 1 }
Refused(f)    == [f EXCEPT !.ok = FALSE]
Again(call)   == { SubSeq(call, 1, k - 1) \o << Refused(call[k]) >> \o SubSeq(call, k, Len(call)) :
                     k \in 1 .. Len(call) }
GivenUp(call) == { SubSeq(call, 1, k - 1) \o << Refused(call[k]), Refused(call[k]) >> :
                     k \in 1 .. Len(call) }

(* Whose verbs are refused and sent again: the HIC's and the packets'.      *)
Broken == UNION { Killed(c) : c \in Calls }
          \cup UNION { Again(c) \cup GivenUp(c) : c \in HicCalls \cup DspCalls }

(* Verbs of two calls of different kinds, sent in turns.                    *)
InTurns(a, b) ==
    LET n == IF Len(a) < Len(b) THEN Len(a) ELSE Len(b)
    IN  FlattenSeq([k \in 1 .. n |-> <<a[k], b[k]>>])
        \o SubSeq(a, n + 1, Len(a)) \o SubSeq(b, n + 1, Len(b))

Mixed == { InTurns(p[1], p[2]) : p \in HicCalls \X (RamCalls \cup DspCalls \cup Settings) }
         \cup { InTurns(p[1], p[2]) : p \in RamCalls \X (DspCalls \cup Settings \cup Rest) }

Whole(f)   == << Chip("EXTENSIONS_ENABLE", 0) >> \o f
OfOther(f) == [k \in 1 .. Len(f) |-> [f[k] EXCEPT !.codec = 2]]

MCFiles ==
    { Whole(a \o b) : a \in Calls \cup Broken \cup Mixed, b \in Calls }
    \cup { Whole(a \o b \o c) : a \in Calls, b \in Calls, c \in Calls }
    \cup { OfOther(<<Chip("EXTENSIONS_ENABLE", 0)>> \o a) \o Whole(InTurns(OfOther(a), b)) :
             a \in RamCalls \cup DspCalls, b \in Calls }
    \cup { Whole(Free), <<>>, Whole(<<Chip("RAM_WRITE", 1)>>) }

MCNodes == {"root", "pin"}
MCRamAddr == 250 .. 260
MCIds == 0 .. 7
=============================================================================
