---------------------------- MODULE FrameDecoder ----------------------------
(***************************************************************************)
(* frame-dump-formatted: it reads the verbs that some driver sent to the    *)
(* codec and says what the driver did.                                     *)
(*                                                                         *)
(* The program goes through the file twice: to count the downloads of DSP   *)
(* code and to find the codec it is about, then to decode.  Several verbs   *)
(* make up one transaction, so it keeps what it has seen of each kind: a    *)
(* HIC transfer, an exram access, a parameter, a packet for the DSP.  At    *)
(* the end of the file it handles the last verb once more, in both passes.  *)
(*                                                                         *)
(* A frame is a verb by its name, with the byte or half word it carries.    *)
(* A line shown is a record; "at" is the frame its address stands for.      *)
(*                                                                         *)
(* A definition marked "Fault" is a wrong version of the one that follows,  *)
(* kept to show which property would notice it.                             *)
(***************************************************************************)
EXTENDS ScpHeader

CONSTANTS
    Files,      \* what a file may hold
    Nodes,      \* nodes other than "chip" and "dsp"
    RunSize,    \* bytes in the array for a run of exram writes
    BitOr(_, _) \* the bitwise or of two half words

HicVerbs  == {"ADDRESS_LOW", "ADDRESS_HIGH", "DATA_LOW", "DATA_HIGH"}
PinConfig == <<"CONFIG_0", "CONFIG_1", "CONFIG_2", "CONFIG_3">>

(* Before the first verb of a file the program has one of zeroes.          *)
NoVerb == [codec |-> 0, node |-> "root", verb |-> "NONE", data |-> 0, ok |-> TRUE]

HalfWord == 0 .. 256 * 256 - 1

Frame == [codec : Nat, node : Nodes \cup {"chip", "dsp"}, verb : STRING,
          data : HalfWord, ok : BOOLEAN]

ASSUME FilesAssumption ==
    /\ "root" \in Nodes /\ Nodes \cap {"chip", "dsp"} = {}
    /\ \A f \in Files : f \in Seq(Frame)

ASSUME RunSizeAssumption == RunSize \in Nat

(* What the decoder relies on: it ors a half into one that is still zero,   *)
(* or that came before.                                                    *)
ASSUME BitOrAssumption == \A x \in HalfWord : BitOr(0, x) = x /\ BitOr(x, x) = x

VARIABLES
    file,       \* the verbs that were sent
    pass,       \* which of the two passes it is in
    pos,        \* verbs read in this pass
    atEnd,      \* nothing was left to read
    cur,        \* the verb read last
    mainCodec,  \* the codec it is about
    downloads,  \* downloads counted in the first pass
    freed,      \* ... and those seen to end in the second
    hic,        \* what it has of a HIC transfer
    ram,        \* ... of an exram access
    param,      \* ... of a parameter
    dsp,        \* ... of a packet
    pins,       \* the pin configuration of each node
    shown       \* the lines shown

reading  == <<file, pass, pos, atEnd, cur>>
counted  == <<mainCodec, downloads>>
gathered == <<freed, hic, ram, param, dsp, pins>>
vars     == <<reading, counted, gathered, shown>>

NoHic == [low |-> FALSE, high |-> FALSE, dataLow |-> FALSE, dataHigh |-> FALSE,
          read |-> FALSE, addr |-> <<0, 0>>, data |-> <<0, 0>>, start |-> 0]

NoRam == [low |-> FALSE, high |-> FALSE, addr |-> <<0, 0>>, start |-> 0, run |-> <<>>]

NoDsp == [low |-> FALSE, high |-> FALSE, dataLow |-> FALSE, header |-> <<0, 0>>,
          data |-> <<0, 0>>, vals |-> <<>>, start |-> 0, reads |-> 0, posts |-> 0]

Init ==
    /\ file \in Files
    /\ pass = "count" /\ pos = 0 /\ atEnd = FALSE /\ cur = NoVerb
    /\ mainCodec = 0 /\ downloads = 0 /\ freed = 0
    /\ hic = NoHic /\ ram = NoRam /\ dsp = NoDsp
    /\ param = [set |-> FALSE, id |-> 0, start |-> 0]
    /\ pins = [n \in Nodes |-> [k \in 1 .. 4 |-> 0]]
    /\ shown = <<>>

-----------------------------------------------------------------------------
(* get_next_verb: at the end of the file the last verb stays.               *)
v  == IF pos < Len(file) THEN file[pos + 1] ELSE cur
At == IF pos < Len(file) THEN pos + 1 ELSE pos

Read ==
    /\ ~atEnd
    /\ pos' = At /\ cur' = v
    /\ atEnd' = (pos = Len(file))
    /\ UNCHANGED <<file, pass>>

(* count_dsp_downloads.                                                    *)
CountFrame ==
    /\ pass = "count" /\ Read
    /\ downloads' = IF v.node = "chip" /\ v.verb = "PORT_FREE" THEN downloads + 1
                                                               ELSE downloads
    /\ mainCodec' = IF v.node = "chip" /\ v.verb = "EXTENSIONS_ENABLE" THEN v.codec
                                                                       ELSE mainCodec
    /\ UNCHANGED <<gathered, shown>>

Rewind ==
    /\ pass = "count" /\ atEnd
    /\ pass' = "decode" /\ pos' = 0 /\ atEnd' = FALSE
    /\ UNCHANGED <<file, cur, counted, gathered, shown>>

-----------------------------------------------------------------------------
(* main's loop and check_verb.                                             *)
Gets(node) == pass = "decode" /\ Read /\ v.codec = mainCodec /\ v.node = node

Handles(node) == Gets(node) /\ UNCHANGED counted

OtherCodec ==
    /\ pass = "decode" /\ Read /\ v.codec # mainCodec
    /\ UNCHANGED <<counted, gathered, shown>>

Show(lines) == shown' = shown \o lines

Raw == [kind |-> "raw", at |-> At]

-----------------------------------------------------------------------------
(* chipio_hic_handler and chipio_hic_check: an address and one word.        *)
\* Fault: a new address does not clear what was there.
HicCleared == hic
HicFresh == NoHic

HicAfter ==
    [ADDRESS_LOW  |-> [HicFresh EXCEPT !.start = At, !.addr = <<v.data, 0>>, !.low = TRUE],
     ADDRESS_HIGH |-> [hic EXCEPT !.addr = <<@[1], BitOr(@[2], v.data)>>, !.high = TRUE],
     DATA_LOW     |-> [hic EXCEPT !.data = <<v.data, 0>>, !.dataLow = TRUE],
     DATA_HIGH    |-> [hic EXCEPT !.data = <<@[1], BitOr(@[2], v.data)>>, !.dataHigh = TRUE]]

HicWrite ==
    /\ Handles("chip") /\ v.verb \in HicVerbs
    /\ LET h    == HicAfter[v.verb]
           done == h.low /\ h.high /\ h.dataLow /\ h.dataHigh
       IN  /\ hic' = IF done THEN NoHic ELSE h
           /\ Show(IF done THEN <<[kind |-> "hicWrite", at |-> h.start, addr |-> h.addr,
                                   data |-> h.data]>> ELSE <<>>)
    /\ UNCHANGED <<freed, ram, param, dsp, pins>>

HicPostRead ==
    /\ Handles("chip") /\ v.verb = "HIC_POST_READ"
    /\ hic' = [hic EXCEPT !.read = @ \/ (hic.low /\ hic.high)]
    /\ UNCHANGED <<freed, ram, param, dsp, pins, shown>>

(* chipio_hic_check_read.                                                  *)
HicRead ==
    /\ Handles("chip") /\ v.verb = "HIC_READ_DATA"
    /\ LET done == hic.low /\ hic.high /\ hic.read
       IN  /\ hic' = IF done THEN NoHic ELSE hic
           /\ Show(IF done THEN <<[kind |-> "hicRead", at |-> hic.start,
                                   addr |-> hic.addr]>> ELSE <<>>)
    /\ UNCHANGED <<freed, ram, param, dsp, pins>>

(* A status poll is shown unless it belongs to what is being gathered.      *)
ChipStatus ==
    /\ Handles("chip") /\ v.verb = "CHIP_STATUS"
    /\ Show(IF (hic.low /\ hic.high) \/ param.set THEN <<>> ELSE <<Raw>>)
    /\ UNCHANGED gathered

-----------------------------------------------------------------------------
(* chipio_8051_handler.  Bytes written one after the other are a run; any   *)
(* other verb for the 8051 ends and shows it.                              *)
RunLine(r) == [kind |-> "ramRun", at |-> r.start, addr |-> r.addr, run |-> r.run]

\* Fault: the address is forgotten, the bytes are not.
EndedBytesKept == [NoRam EXCEPT !.run = ram.run]
Ended      == IF ram.run # <<>> THEN NoRam ELSE ram
EndedLines == IF ram.run # <<>> THEN <<RunLine(ram)>> ELSE <<>>

RamOnly == UNCHANGED <<freed, hic, param, dsp, pins>>

RamLow ==
    /\ Handles("chip") /\ v.verb = "RAM_LOW"
    /\ ram' = [Ended EXCEPT !.start = At, !.addr = <<v.data, 0>>, !.low = TRUE]
    /\ Show(EndedLines)
    /\ RamOnly

RamHigh ==
    /\ Handles("chip") /\ v.verb = "RAM_HIGH"
    /\ ram' = IF Ended.low THEN [Ended EXCEPT !.addr = <<@[1], BitOr(@[2], v.data)>>, !.high = TRUE]
                           ELSE NoRam
    /\ Show(EndedLines)
    /\ RamOnly

RamComplete(r) == r.low /\ r.high
InRun          == RamComplete(ram) \/ ram.run # <<>>

(* The array has a fixed size and nothing checks it.  A byte that comes     *)
(* when it is full is stored over what lies behind it, the number of        *)
(* downloads first: nothing is said of what the program then has or shows,  *)
(* and TLC stops with an error if it ever gets there.                      *)
Overruns == InRun /\ Len(ram.run) >= RunSize

KeepByte ==
    /\ ram' = [ram EXCEPT !.low = @ /\ ~RamComplete(ram), !.high = @ /\ ~RamComplete(ram),
                          !.run = Append(@, v.data)]
    /\ UNCHANGED shown

RamWrite ==
    /\ Gets("chip") /\ v.verb = "RAM_WRITE"
    /\ IF Overruns
       THEN TRUE
       ELSE /\ IF InRun THEN KeepByte ELSE Show(<<Raw>>) /\ UNCHANGED ram
            /\ RamOnly /\ UNCHANGED counted

PllWrite ==
    /\ Handles("chip") /\ v.verb = "PLL_WRITE"
    /\ Show(EndedLines \o
            <<IF Ended.low THEN [kind |-> "pll", at |-> Ended.start, addr |-> Ended.addr,
                                 data |-> v.data]
                           ELSE Raw>>)
    /\ ram' = NoRam
    /\ RamOnly

\* Fault: a read leaves the address behind.
AfterRamReadKept == Ended
AfterRamRead == NoRam

RamRead ==
    /\ Handles("chip") /\ v.verb = "RAM_READ"
    /\ IF RamComplete(Ended)
       THEN /\ Show(EndedLines \o <<[kind |-> "ramRead", at |-> Ended.start,
                                     addr |-> Ended.addr]>>)
            /\ ram' = AfterRamRead
       ELSE /\ Show(EndedLines \o <<Raw>>)
            /\ ram' = Ended
    /\ RamOnly

-----------------------------------------------------------------------------
(* Parameters: an ID, then a value.                                        *)
\* Fault: while an ID waits for its value another one does not count.
NewIdWaits == IF param.set THEN param.id ELSE v.data
NewId == v.data

ParamId ==
    /\ Handles("chip") /\ v.verb = "PARAM_ID"
    /\ param' = [set |-> TRUE, id |-> NewId, start |-> At]
    /\ UNCHANGED <<freed, hic, ram, dsp, pins, shown>>

ParamValue ==
    /\ Handles("chip") /\ v.verb = "PARAM_VALUE"
    /\ Show(IF param.set THEN <<[kind |-> "param", at |-> param.start, id |-> param.id,
                                 val |-> v.data]>> ELSE <<>>)
    /\ param' = [param EXCEPT !.set = FALSE]
    /\ UNCHANGED <<freed, hic, ram, dsp, pins>>

(* The end of the downloads.                                               *)
\* Fault: the end is marked before the last one is counted.
LastFreedEarly == freed = downloads
LastFreed == freed + 1 = downloads

PortFree ==
    /\ Handles("chip") /\ v.verb = "PORT_FREE"
    /\ freed' = freed + 1
    /\ Show(IF LastFreed THEN <<[kind |-> "end", at |-> At]>> ELSE <<>>)
    /\ UNCHANGED <<hic, ram, param, dsp, pins>>

(* Verbs that are shown by themselves.                                     *)
FlagLine       == [kind |-> "flag", at |-> At, id |-> v.data % 128,
                   val |-> (v.data \div 128) % 2]
ShortParamLine == [kind |-> "param", at |-> At, id |-> v.data % 32, val |-> v.data \div 32]

ChipVerb ==
    /\ Handles("chip")
    /\ \/ v.verb = "FLAG_SET"  /\ Show(<<FlagLine>>)
       \/ v.verb = "PARAM_SET" /\ Show(<<ShortParamLine>>)
       \/ v.verb = "RAM_WRITE_DIRECT"
             /\ Show(<<[kind |-> "direct", at |-> At, data |-> v.data]>>)
       \/ v.verb \in {"STREAM_FORMAT", "EXTENSIONS_ENABLE", "PARAM_GET", "PARAM_VALUE_GET"}
             /\ Show(<<Raw>>)
    /\ UNCHANGED gathered

-----------------------------------------------------------------------------
(* dsp_scp_check: a complete packet is shown, of a query only once it has   *)
(* been answered.  The result is what is kept and what is shown.            *)
Header(d) == GetScpData(d.header)
ScpSet(d) == d.low /\ d.high

PacketLine(d) == [kind |-> "scp", at |-> d.start, words |-> <<d.header>> \o d.vals]
WrongLine     == [kind |-> "wrong", at |-> At]

Gathered(d, lines) == [dsp |-> d, lines |-> lines]

ScpCheck(d) ==
    IF /\ ScpSet(d) /\ Len(d.vals) = Header(d).data_size
       /\ Header(d).get_flag = 1 => d.reads = 4 /\ d.posts = 2
    THEN Gathered(NoDsp, <<PacketLine(d)>>)
    ELSE Gathered(d, <<>>)

(* What a packet's first half word leaves.                                 *)
\* Fault: what was kept of the packet before is not cleared.
NewHeaderOver == [dsp EXCEPT !.start = At, !.header = <<v.data, 0>>, !.low = TRUE]
NewHeader == [NoDsp EXCEPT !.start = At, !.header = <<v.data, 0>>, !.low = TRUE]

WantsData == Len(dsp.vals) # Header(dsp).data_size

(* dsp_scp_handler for the low half of a word.                             *)
ScpLow ==
    IF ~ScpSet(dsp)
    THEN IF dsp.low THEN Gathered(NoDsp, <<WrongLine>>) ELSE Gathered(NewHeader, <<>>)
    ELSE IF WantsData
         THEN Gathered([dsp EXCEPT !.data = <<v.data, 0>>, !.dataLow = TRUE], <<>>)
         ELSE Gathered(NewHeader, <<PacketLine(dsp)>>)

SizeLimit == 4

(* ... and for the high half; the format is not checked again once a data   *)
(* word was found to lack its low half.                                    *)
ScpHigh ==
    LET h == [dsp EXCEPT !.header = <<@[1], BitOr(@[2], v.data)>>, !.high = TRUE]
        k == IF dsp.dataLow THEN dsp ELSE NoDsp
        w == <<k.data[1], BitOr(k.data[2], v.data)>>
    IN  IF ~ScpSet(dsp)
        THEN IF dsp.low /\ Header(h).data_size < SizeLimit
             THEN Gathered(h, <<>>) ELSE Gathered(NoDsp, <<WrongLine>>)
        ELSE IF WantsData
             THEN Gathered([k EXCEPT !.data = w, !.vals = Append(@, w)],
                           IF dsp.dataLow THEN <<>> ELSE <<WrongLine>>)
             ELSE Gathered(dsp, <<>>)

ScpWord ==
    /\ Handles("dsp") /\ v.verb \in {"SCP_LOW", "SCP_HIGH"}
    /\ LET g == IF v.verb = "SCP_LOW" THEN ScpLow ELSE ScpHigh
           c == ScpCheck(g.dsp)
       IN  dsp' = c.dsp /\ Show(g.lines \o c.lines)
    /\ UNCHANGED <<freed, hic, ram, param, pins>>

(* dsp_verb_handler: the answer to a query.  POST_READ_DATA counts as both  *)
(* kinds: its case goes on into the next.                                  *)
OneRead(d) == ScpCheck([d EXCEPT !.reads = @ + 1])
OnePost(d) == ScpCheck([d EXCEPT !.posts = @ + 1])

ScpAnswer ==
    /\ Handles("dsp")
    /\ \/ /\ v.verb = "SCP_POST_READ"
          /\ LET c == OneRead(dsp)
                 e == OnePost(c.dsp)
             IN  dsp' = e.dsp /\ Show(c.lines \o e.lines)
       \/ /\ v.verb \in {"SCP_POST_COUNT", "SCP_READ_COUNT"}
          /\ dsp' = OnePost(dsp).dsp /\ Show(OnePost(dsp).lines)
       \/ /\ v.verb = "SCP_READ"
          /\ dsp' = OneRead(dsp).dsp /\ Show(OneRead(dsp).lines)
    /\ UNCHANGED <<freed, hic, ram, param, pins>>

(* The status is never shown; other verbs of this node that have a name of  *)
(* their own group neither.                                                *)
DspVerb ==
    /\ Handles("dsp") /\ v.verb \in {"DSP_STATUS", "DSP_INIT", "OTHER"}
    /\ Show(IF v.verb = "OTHER" THEN <<Raw>> ELSE <<>>)
    /\ UNCHANGED gathered

-----------------------------------------------------------------------------
(* default_node_verb_handler.                                              *)
NodeVerb ==
    \E n \in Nodes :
        /\ Handles(n)
        /\ LET bytes == {k \in 1 .. 4 : PinConfig[k] = v.verb}
               cfg   == [k \in 1 .. 4 |-> IF k \in bytes THEN v.data ELSE pins[n][k]]
           IN  /\ pins' = [pins EXCEPT ![n] = cfg]
               /\ Show(CASE 4 \in bytes -> <<Raw, [kind |-> "pincfg", node |-> n, cfg |-> cfg]>>
                         [] v.verb \in {"PIN_CONTROL", "AMP"} ->
                               <<[kind |-> v.verb, at |-> At, node |-> n, data |-> v.data]>>
                         [] OTHER -> <<Raw>>)
        /\ UNCHANGED <<freed, hic, ram, param, dsp>>

Decode == \/ HicWrite \/ HicPostRead \/ HicRead \/ ChipStatus
          \/ RamLow \/ RamHigh \/ RamWrite \/ PllWrite \/ RamRead
          \/ ParamId \/ ParamValue \/ PortFree \/ ChipVerb
          \/ ScpWord \/ ScpAnswer \/ DspVerb \/ NodeVerb \/ OtherCodec

Next == CountFrame \/ Rewind \/ Decode

Spec == Init /\ [][Next]_vars
=============================================================================
