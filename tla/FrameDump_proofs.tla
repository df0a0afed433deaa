-------------------------- MODULE FrameDump_proofs --------------------------
(***************************************************************************)
(* Machine-checked proofs about FrameDump, for files of any length and of   *)
(* any number of codecs whose verbs come in the order that FrameDump asks   *)
(* for, and whose runs of exram bytes fit the array they are kept in.       *)
(***************************************************************************)
EXTENDS FrameDump, FiniteSetTheorems, TLAPS

-----------------------------------------------------------------------------
(***************************************************************************)
(* The invariant: where the decoder is, and what it keeps beside what the   *)
(* codec holds, by the last verb that each of them has seen.               *)
(***************************************************************************)
IsSeq(s) == \E S : s \in Seq(S)

Blank == /\ shown = <<>> /\ hic = NoHic /\ ram = NoRam /\ dsp = NoDsp
         /\ param.set = FALSE /\ freed = 0 /\ CodecInit

Position ==
    /\ file \in Files /\ pos \in 0 .. Len(file)
    /\ pass \in {"count", "decode"} /\ atEnd \in BOOLEAN
    /\ atEnd => pos = Len(file)
    /\ pos > 0 => cur = file[pos]
    /\ file = <<>> => cur = NoVerb
    /\ IsSeq(shown)
    /\ pass = "count" => Blank

Shapes ==
    /\ DOMAIN hic = DOMAIN NoHic /\ DOMAIN ram = DOMAIN NoRam
    /\ DOMAIN dsp = DOMAIN NoDsp /\ DOMAIN param = {"set", "id", "start"}
    /\ DOMAIN codec = {"hicAddr", "hicLow", "aimed", "stored", "ramAddr", "placed", "exram",
                       "id", "params", "flags", "half", "open", "packets", "torn"}
    /\ DOMAIN codec.exram = RamAddr /\ DOMAIN codec.params = ParamIds
    /\ DOMAIN codec.flags = FlagIds
    /\ codec.ramAddr \in Byte \X Byte

Decoding == pass = "decode" /\ ~atEnd

(* The verb x of the HIC was the last one.  A refused one may be followed   *)
(* by itself or by the low half of an address only.                        *)
HicAsSent(x) ==
    LET word == <<codec.hicAddr, <<codec.hicLow, x.data>>>>
    IN
    /\ x.verb = "ADDRESS_LOW" =>
          /\ hic.low /\ ~hic.high /\ ~hic.dataLow /\ ~hic.dataHigh
          /\ hic.addr = <<x.data, 0>> /\ (x.ok => codec.hicAddr[1] = x.data)
    /\ x.verb = "ADDRESS_HIGH" =>
          /\ hic.low /\ hic.high /\ ~hic.dataLow /\ ~hic.dataHigh
          /\ hic.addr = <<codec.hicAddr[1], x.data>> /\ (x.ok => codec.hicAddr = hic.addr)
    /\ x.verb = "DATA_LOW" =>
          /\ hic.dataLow /\ hic.data = <<x.data, 0>> /\ (x.ok => codec.hicLow = x.data)
          /\ IF hic.low THEN hic.high /\ ~hic.dataHigh /\ hic.addr = codec.hicAddr
                        ELSE ~codec.aimed
    /\ x.verb = "DATA_HIGH" =>
          /\ ~hic.low
          /\ codec.aimed => ~x.ok /\ \E n \in Lines("hicWrite") :
                                        <<shown[n].addr, shown[n].data>> = word
    /\ x.verb = "HIC_POST_READ" =>
          /\ hic.low => hic.high /\ hic.read /\ hic.addr = codec.hicAddr
          /\ x.ok => ~codec.aimed
    /\ x.verb = "HIC_READ_DATA" => ~hic.low /\ ~codec.aimed

HicInv ==
    Decoding =>
        \/ NoneOf(file, mainCodec, HicCallVerbs, pos) /\ ~hic.low /\ ~codec.aimed
        \/ \E h \in 1 .. pos : LastOf(file, mainCodec, HicCallVerbs, h, pos) /\ HicAsSent(file[h])

(* The same for exram.  The bytes of a run lie one after the other, up to   *)
(* where the codec puts the next one.                                      *)
IsRun ==
    /\ ram.run # <<>> => /\ codec.placed /\ IsSeq(ram.run) /\ ram.addr \in Byte \X Byte
                         /\ Number(codec.ramAddr) = Place(ram.addr, Len(ram.run) + 1)
    /\ ram.run = <<>> => ~codec.placed

RamAsSent(h) ==
    LET x == file[h]
    IN
    /\ x.verb = "RAM_LOW" =>
          /\ ram.low /\ ram.run = <<>> /\ ram.addr = <<x.data, 0>> /\ codec.ramAddr[1] = x.data
          /\ ram.high => \E g \in 1 .. h - 1 :
                            LastOf(file, mainCodec, RamVerbs, g, h - 1) /\ file[g].verb \in Aiming
    /\ x.verb = "RAM_HIGH" =>
          /\ ram.low /\ ram.high /\ ram.run = <<>>
          /\ ram.addr = codec.ramAddr /\ codec.placed
    /\ x.verb = "RAM_WRITE" => ~ram.low /\ ~ram.high /\ IsRun
    /\ x.verb = "RAM_READ" => ram.run = <<>> /\ ~ram.high
    /\ x.verb = "PLL_WRITE" => ram = NoRam

RamInv ==
    Decoding =>
        \/ NoneOf(file, mainCodec, RamVerbs, pos) /\ ram = NoRam /\ ~codec.placed
        \/ \E h \in 1 .. pos : LastOf(file, mainCodec, RamVerbs, h, pos) /\ RamAsSent(h)

(* What the decoder has of a run was written behind an address.  At the end *)
(* of the file the last byte is in it twice.                                *)
Started(h) == IsChip(file[h], mainCodec, Aiming) /\ OneRun(file, mainCodec, h, pos)

Bytes(h) == Cardinality(BytesFrom(file, mainCodec, h, pos))
            + (IF atEnd THEN ByteAgain(file, mainCodec, pos) ELSE 0)

RunInv ==
    pass = "decode" =>
        /\ IsSeq(ram.run)
        /\ InRun => \E h \in 1 .. pos : Started(h) /\ Len(ram.run) <= Bytes(h)

(* A step of the second pass that does not write past the array.           *)
Decodes == Decode /\ (RamWrite => ~Overruns)

ParamAsSent(x) ==
    /\ x.verb = "PARAM_ID" => param.set /\ param.id = x.data /\ codec.id = x.data
    /\ x.verb = "PARAM_VALUE" => ~param.set

ParamInv ==
    Decoding =>
        \/ NoneOf(file, mainCodec, IdVerbs, pos) /\ ~param.set
        \/ \E h \in 1 .. pos : LastOf(file, mainCodec, IdVerbs, h, pos) /\ ParamAsSent(file[h])

(* As long as nothing is torn the decoder holds of a packet what the DSP    *)
(* does; a query that is complete it holds until it is answered.            *)
Told == Cardinality(Lines("scp"))
Sent == Len(codec.packets)
Held == <<dsp.header>> \o dsp.vals

HasHead == /\ dsp.low /\ ~dsp.high /\ dsp.vals = <<>> /\ codec.open = <<>>
           /\ dsp.header = <<codec.half[1], 0>>
HasPart == /\ ScpSet(dsp) /\ codec.open = Held /\ Len(dsp.vals) < Header(dsp).data_size
           /\ dsp.header[2] \in HalfWord
HasLow  == dsp.dataLow /\ dsp.data = <<codec.half[1], 0>>
HasNone == ~dsp.low /\ codec.open = <<>>
HasAll  == /\ ScpSet(dsp) /\ codec.open = <<>> /\ Len(dsp.vals) = Header(dsp).data_size
           /\ Header(dsp).get_flag = 1 /\ Sent > 0 /\ codec.packets[Sent] = Held

DspSeqs == IsSeq(dsp.vals) /\ IsSeq(codec.open) /\ IsSeq(codec.packets)

WordsAreSent ==
    \A n \in Lines("scp") : shown[n].words = codec.packets[Cardinality(PacketsUpTo(n))]

DspInv ==
    (Decoding /\ ~codec.torn) =>
        /\ WordsAreSent
        /\ IF codec.half # Nothing
           THEN Told = Sent /\ (HasHead \/ (HasPart /\ HasLow))
           ELSE \/ Told = Sent /\ (HasNone \/ HasPart)
                \/ Told + 1 = Sent /\ HasAll

(* The downloads that ended among the first n verbs; the last verb of the   *)
(* file is handled again behind it.                                        *)
IsFree(f)    == f.node = "chip" /\ f.verb = "PORT_FREE"
FreesUpTo(n) == { k \in Frees : k <= n }
Twice        == IF atEnd /\ Len(file) \in Frees THEN 1 ELSE 0
AllMain      == \A k \in Frees : file[k].codec = mainCodec

EndInv ==
    /\ pass = "count" => downloads = Cardinality(FreesUpTo(pos)) + Twice
    /\ (pass = "decode" /\ AllMain) =>
          /\ downloads = Cardinality(Frees) + (IF Len(file) \in Frees THEN 1 ELSE 0)
          /\ freed = Cardinality(FreesUpTo(pos)) + Twice
          /\ IF freed = downloads /\ freed > 0
             THEN \E n \in DOMAIN shown : /\ Lines("end") = {n}
                                          /\ \A k \in FreesUpTo(pos) : k <= shown[n].at
             ELSE Lines("end") = {}

-----------------------------------------------------------------------------
LEMMA FileFrames ==
    ASSUME NEW f \in Files
    PROVE  /\ f \in Seq(Frame) /\ Len(f) \in Nat /\ DOMAIN f = 1 .. Len(f)
           /\ \A j \in 1 .. Len(f) : f[j] \in Frame
           /\ HicInOrder(f) /\ RamInOrder(f) /\ SettingsInOrder(f) /\ RunsFit(f)
  <1>1. f \in Seq(Frame)
    BY FilesAssumption
  <1>2. ASSUME NEW S, NEW t \in Seq(S)
        PROVE  Len(t) \in Nat /\ DOMAIN t = 1 .. Len(t) /\ \A j \in 1 .. Len(t) : t[j] \in S
    OBVIOUS
  <1> QED BY <1>1, <1>2, OrderAssumption, RunsAssumption

LEMMA Zero == 0 \in HalfWord
  BY DEF HalfWord

(***************************************************************************)
(* Lines are only added.                                                   *)
(***************************************************************************)
Grew == /\ IsSeq(shown') /\ Len(shown) \in Nat /\ Len(shown') \in Nat
        /\ DOMAIN shown = 1 .. Len(shown) /\ DOMAIN shown' = 1 .. Len(shown')
        /\ Len(shown) <= Len(shown') /\ \A n \in DOMAIN shown : shown'[n] = shown[n]

New == Len(shown) + 1 .. Len(shown')

LEMMA SeqFacts ==
    ASSUME NEW s, IsSeq(s)
    PROVE  Len(s) \in Nat /\ DOMAIN s = 1 .. Len(s) /\ s \o <<>> = s
  <1>1. PICK S : s \in Seq(S)
    BY DEF IsSeq
  <1> QED BY <1>1

LEMMA AddLine ==
    ASSUME NEW s, NEW l, IsSeq(s)
    PROVE  /\ IsSeq(s \o <<l>>) /\ Len(s \o <<l>>) = Len(s) + 1
           /\ \A n \in DOMAIN s : (s \o <<l>>)[n] = s[n]
           /\ (s \o <<l>>)[Len(s) + 1] = l
  <1>1. PICK S : s \in Seq(S)
    BY DEF IsSeq
  <1> DEFINE T == S \cup {l}
  <1>2. s \in Seq(T) /\ <<l>> \in Seq(T)
    BY <1>1
  <1>3. s \o <<l>> \in Seq(T)
    BY <1>2
  <1>4. IsSeq(s \o <<l>>)
    BY <1>3 DEF IsSeq
  <1> QED BY <1>2, <1>4

LEMMA AddTwo ==
    ASSUME NEW s, NEW l, NEW m, IsSeq(s)
    PROVE  /\ IsSeq(s \o <<l, m>>) /\ Len(s \o <<l, m>>) = Len(s) + 2
           /\ \A n \in DOMAIN s : (s \o <<l, m>>)[n] = s[n]
           /\ (s \o <<l, m>>)[Len(s) + 1] = l /\ (s \o <<l, m>>)[Len(s) + 2] = m
  <1>1. PICK S : s \in Seq(S)
    BY DEF IsSeq
  <1> DEFINE T == S \cup {l, m}
  <1>2. s \in Seq(T) /\ <<l, m>> \in Seq(T)
    BY <1>1
  <1>3. s \o <<l, m>> \in Seq(T)
    BY <1>2
  <1>4. IsSeq(s \o <<l, m>>)
    BY <1>3 DEF IsSeq
  <1> QED BY <1>2, <1>4

LEMMA NoLines ==
    ASSUME IsSeq(shown), shown' = shown \o <<>> \/ shown' = shown
    PROVE  shown' = shown /\ Grew /\ New = {}
  <1>1. shown' = shown
    BY SeqFacts
  <1> QED BY <1>1, SeqFacts DEF Grew, New

LEMMA OneLine ==
    ASSUME IsSeq(shown), NEW l, shown' = shown \o <<l>>
    PROVE  /\ Grew /\ Len(shown') = Len(shown) + 1
           /\ New = {Len(shown) + 1} /\ shown'[Len(shown) + 1] = l
  <1>1. /\ IsSeq(shown') /\ Len(shown') = Len(shown) + 1 /\ shown'[Len(shown) + 1] = l
        /\ \A n \in DOMAIN shown : shown'[n] = shown[n]
    BY AddLine
  <1>2. Grew
    <2>1. Len(shown) \in Nat /\ DOMAIN shown = 1 .. Len(shown)
      BY SeqFacts
    <2>2. Len(shown') \in Nat /\ DOMAIN shown' = 1 .. Len(shown')
      BY <1>1, SeqFacts
    <2>3. Len(shown) <= Len(shown')
      <3>1. ASSUME NEW k \in Nat PROVE k <= k + 1
        OBVIOUS
      <3> QED BY <1>1, <2>1, <3>1
    <2> QED BY <1>1, <2>1, <2>2, <2>3 DEF Grew
  <1>3. ASSUME NEW k \in Nat PROVE k + 1 .. k + 1 = {k + 1}
    OBVIOUS
  <1> QED BY <1>1, <1>2, <1>3 DEF Grew, New

LEMMA TwoLines ==
    ASSUME IsSeq(shown), NEW l, NEW m, shown' = shown \o <<l, m>>
    PROVE  /\ Grew /\ Len(shown') = Len(shown) + 2
           /\ New = {Len(shown) + 1, Len(shown) + 2}
           /\ shown'[Len(shown) + 1] = l /\ shown'[Len(shown) + 2] = m
  <1>1. /\ IsSeq(shown') /\ Len(shown') = Len(shown) + 2 /\ shown'[Len(shown) + 1] = l
        /\ shown'[Len(shown) + 2] = m
        /\ \A n \in DOMAIN shown : shown'[n] = shown[n]
    BY AddTwo
  <1>2. Grew
    <2>1. Len(shown) \in Nat /\ DOMAIN shown = 1 .. Len(shown)
      BY SeqFacts
    <2>2. Len(shown') \in Nat /\ DOMAIN shown' = 1 .. Len(shown')
      BY <1>1, SeqFacts
    <2>3. Len(shown) <= Len(shown')
      <3>1. ASSUME NEW k \in Nat PROVE k <= k + 2
        OBVIOUS
      <3> QED BY <1>1, <2>1, <3>1
    <2> QED BY <1>1, <2>1, <2>2, <2>3 DEF Grew
  <1>3. ASSUME NEW k \in Nat PROVE k + 1 .. k + 2 = {k + 1, k + 2}
    <2>1. \A i \in Int : k + 1 <= i /\ i <= k + 2 <=> i = k + 1 \/ i = k + 2
      OBVIOUS
    <2> QED BY <2>1
  <1> QED BY <1>1, <1>2, <1>3 DEF Grew, New

LEMMA ShortConcat ==
    ASSUME NEW l, NEW m
    PROVE  /\ <<l>> \o <<m>> = <<l, m>> /\ <<>> \o <<m>> = <<m>>
           /\ <<l>> \o <<>> = <<l>> /\ <<>> \o <<>> = <<>>
  <1> DEFINE S == {l, m}
  <1>1. <<l>> \in Seq(S) /\ <<m>> \in Seq(S) /\ <<l, m>> \in Seq(S) /\ <<>> \in Seq(S)
    OBVIOUS
  <1>2. ASSUME NEW s \in Seq(S) PROVE <<>> \o s = s /\ s \o <<>> = s
    OBVIOUS
  <1>3. <<l>> \o <<m>> = <<l, m>>
    <2> DEFINE c == <<l>> \o <<m>>
    <2>1. c \in Seq(S) /\ Len(c) = 2 /\ c[1] = l /\ c[2] = m
      BY <1>1
    <2>2. ASSUME NEW s \in Seq(S), Len(s) = 2 PROVE s = <<s[1], s[2]>>
      BY <2>2
    <2> HIDE DEF c, S
    <2>3. c = <<c[1], c[2]>>
      BY <2>1, <2>2
    <2> QED BY <2>1, <2>3 DEF c
  <1> HIDE DEF S
  <1> QED BY <1>1, <1>2, <1>3

(* What the actions on a run of exram bytes show of the run.               *)
LEMMA RunThenLine ==
    ASSUME IsSeq(shown), NEW l, shown' = shown \o (EndedLines \o <<l>>)
    PROVE  /\ Grew
           /\ ram.run = <<>> => New = {Len(shown) + 1} /\ shown'[Len(shown) + 1] = l
           /\ ram.run # <<>> => /\ New = {Len(shown) + 1, Len(shown) + 2}
                                /\ shown'[Len(shown) + 1] = RunLine(ram)
                                /\ shown'[Len(shown) + 2] = l
  <1>1. CASE ram.run = <<>>
    <2>1. shown' = shown \o <<l>>
      BY <1>1, ShortConcat DEF EndedLines
    <2> QED BY <1>1, <2>1, OneLine
  <1>2. CASE ram.run # <<>>
    <2>1. shown' = shown \o <<RunLine(ram), l>>
      BY <1>2, ShortConcat DEF EndedLines
    <2> QED BY <1>2, <2>1, TwoLines
  <1> QED BY <1>1, <1>2

LEMMA RunAlone ==
    ASSUME IsSeq(shown), shown' = shown \o EndedLines
    PROVE  /\ Grew
           /\ ram.run = <<>> => New = {} /\ shown' = shown
           /\ ram.run # <<>> => New = {Len(shown) + 1} /\ shown'[Len(shown) + 1] = RunLine(ram)
  <1>1. CASE ram.run = <<>>
    BY <1>1, NoLines DEF EndedLines
  <1>2. CASE ram.run # <<>>
    <2>1. shown' = shown \o <<RunLine(ram)>>
      BY <1>2 DEF EndedLines
    <2> QED BY <1>2, <2>1, OneLine
  <1> QED BY <1>1, <1>2

(* What a look at a packet shows: the packet, or nothing.                  *)
LEMMA CheckLines ==
    ASSUME NEW d
    PROVE  /\ PacketLine(d).kind = "scp"
           /\ \/ ScpCheck(d).lines = <<>> /\ ScpCheck(d).dsp = d
              \/ ScpCheck(d).lines = <<PacketLine(d)>> /\ ScpCheck(d).dsp = NoDsp
  BY DEF ScpCheck, Gathered, PacketLine

LEMMA ScpWordLines ==
    ASSUME IsSeq(shown), ScpWord
    PROVE  Grew /\ \A n \in New : shown'[n].kind \in {"scp", "wrong"}
  <1> DEFINE g == IF v.verb = "SCP_LOW" THEN ScpLow ELSE ScpHigh
             c == ScpCheck(g.dsp)
  <1>1. shown' = shown \o (g.lines \o c.lines)
    BY DEF ScpWord, Show
  <1>2. \/ g.lines = <<>>
        \/ \E l : g.lines = <<l>> /\ l.kind \in {"scp", "wrong"}
    BY DEF ScpLow, ScpHigh, Gathered, PacketLine, WrongLine
  <1>3. \/ c.lines = <<>>
        \/ \E l : c.lines = <<l>> /\ l.kind \in {"scp", "wrong"}
    BY CheckLines
  <1> HIDE DEF g, c
  <1>4. CASE g.lines = <<>> /\ c.lines = <<>>
    BY <1>1, <1>4, ShortConcat, NoLines
  <1>5. CASE g.lines = <<>> /\ c.lines # <<>>
    <2>1. PICK l : c.lines = <<l>> /\ l.kind \in {"scp", "wrong"}
      BY <1>3, <1>5
    <2>2. shown' = shown \o <<l>>
      BY <1>1, <1>5, <2>1, ShortConcat
    <2> QED BY <2>1, <2>2, OneLine
  <1>6. CASE g.lines # <<>> /\ c.lines = <<>>
    <2>1. PICK l : g.lines = <<l>> /\ l.kind \in {"scp", "wrong"}
      BY <1>2, <1>6
    <2>2. shown' = shown \o <<l>>
      BY <1>1, <1>6, <2>1, ShortConcat
    <2> QED BY <2>1, <2>2, OneLine
  <1>7. CASE g.lines # <<>> /\ c.lines # <<>>
    <2>1. PICK l : g.lines = <<l>> /\ l.kind \in {"scp", "wrong"}
      BY <1>2, <1>7
    <2>2. PICK m : c.lines = <<m>> /\ m.kind \in {"scp", "wrong"}
      BY <1>3, <1>7
    <2>3. shown' = shown \o <<l, m>>
      BY <1>1, <2>1, <2>2, ShortConcat
    <2> QED BY <2>1, <2>2, <2>3, TwoLines
  <1> QED BY <1>4, <1>5, <1>6, <1>7

LEMMA ScpAnswerLines ==
    ASSUME IsSeq(shown), ScpAnswer
    PROVE  Grew /\ \A n \in New : shown'[n].kind = "scp"
  <1> DEFINE c == OneRead(dsp)
             e == OnePost(c.dsp)
             o == OnePost(dsp)
  <1>1. ASSUME NEW d
        PROVE  /\ OneRead(d).lines = <<>> \/ \E l : OneRead(d).lines = <<l>> /\ l.kind = "scp"
               /\ OnePost(d).lines = <<>> \/ \E l : OnePost(d).lines = <<l>> /\ l.kind = "scp"
    BY CheckLines DEF OneRead, OnePost
  <1>2. \/ shown' = shown \o (c.lines \o e.lines)
        \/ shown' = shown \o c.lines
        \/ shown' = shown \o o.lines
    BY DEF ScpAnswer, Show
  <1>3. /\ c.lines = <<>> \/ \E l : c.lines = <<l>> /\ l.kind = "scp"
        /\ e.lines = <<>> \/ \E l : e.lines = <<l>> /\ l.kind = "scp"
        /\ o.lines = <<>> \/ \E l : o.lines = <<l>> /\ l.kind = "scp"
    BY <1>1
  <1> HIDE DEF c, e, o
  <1>4. \/ shown' = shown \o <<>>
        \/ \E l : shown' = shown \o <<l>> /\ l.kind = "scp"
        \/ \E l, m : shown' = shown \o <<l, m>> /\ l.kind = "scp" /\ m.kind = "scp"
    <2>1. CASE shown' = shown \o (c.lines \o e.lines)
      <3>1. CASE c.lines = <<>> \/ e.lines = <<>>
        BY <1>3, <2>1, <3>1, ShortConcat
      <3>2. CASE c.lines # <<>> /\ e.lines # <<>>
        <4>1. PICK l : c.lines = <<l>> /\ l.kind = "scp"
          BY <1>3, <3>2
        <4>2. PICK m : e.lines = <<m>> /\ m.kind = "scp"
          BY <1>3, <3>2
        <4> QED BY <2>1, <4>1, <4>2, ShortConcat
      <3> QED BY <3>1, <3>2
    <2>2. CASE shown' = shown \o c.lines \/ shown' = shown \o o.lines
      BY <1>3, <2>2
    <2> QED BY <1>2, <2>1, <2>2
  <1>5. ASSUME NEW l, l.kind = "scp", shown' = shown \o <<l>>
        PROVE  Grew /\ \A n \in New : shown'[n].kind = "scp"
    BY <1>5, OneLine
  <1>6. ASSUME NEW l, NEW m, l.kind = "scp", m.kind = "scp", shown' = shown \o <<l, m>>
        PROVE  Grew /\ \A n \in New : shown'[n].kind = "scp"
    BY <1>6, TwoLines
  <1>7. shown' = shown \o <<>> => Grew /\ New = {}
    BY NoLines
  <1> QED BY <1>4, <1>5, <1>6, <1>7

(* Which actions add a line of which kind.                                 *)
KindsOfActions ==
    \A n \in New :
        /\ shown'[n].kind = "hicWrite" => HicWrite
        /\ shown'[n].kind = "hicRead" => HicRead
        /\ shown'[n].kind = "ramRun" => RamLow \/ RamHigh \/ PllWrite \/ RamRead
        /\ shown'[n].kind = "ramRead" => RamRead
        /\ shown'[n].kind = "param" => ParamValue \/ ChipVerb
        /\ shown'[n].kind = "flag" => ChipVerb
        /\ shown'[n].kind = "scp" => ScpWord \/ ScpAnswer
        /\ shown'[n].kind = "end" => PortFree

OtherKinds == {"raw", "pll", "direct", "wrong", "pincfg", "PIN_CONTROL", "AMP"}

LEMMA SilentActions ==
    ASSUME IsSeq(shown), HicPostRead \/ ParamId \/ OtherCodec
    PROVE  Grew /\ New = {} /\ shown' = shown
  BY NoLines DEF HicPostRead, ParamId, OtherCodec

HicDone(h) == h.low /\ h.high /\ h.dataLow /\ h.dataHigh
HicLine(h) == [kind |-> "hicWrite", at |-> h.start, addr |-> h.addr, data |-> h.data]

LEMMA HicWriteLines ==
    ASSUME IsSeq(shown), HicWrite, NEW h, h = HicAfter[v.verb]
    PROVE  /\ Grew
           /\ ~HicDone(h) => New = {} /\ shown' = shown /\ hic' = h
           /\ HicDone(h) => /\ New = {Len(shown) + 1} /\ hic' = NoHic
                            /\ shown'[Len(shown) + 1] = HicLine(h)
  <1>1. CASE HicDone(h)
    <2>1. shown' = shown \o <<HicLine(h)>> /\ hic' = NoHic
      BY <1>1 DEF HicWrite, Show, HicDone, HicLine
    <2> QED BY <1>1, <2>1, OneLine
  <1>2. CASE ~HicDone(h)
    <2>1. shown' = shown \o <<>> /\ hic' = h
      BY <1>2 DEF HicWrite, Show, HicDone
    <2> QED BY <1>2, <2>1, NoLines
  <1> QED BY <1>1, <1>2

LEMMA HicReadLines ==
    ASSUME IsSeq(shown), HicRead
    PROVE  LET done == hic.low /\ hic.high /\ hic.read
           IN  /\ Grew
               /\ ~done => New = {} /\ shown' = shown
               /\ done => /\ New = {Len(shown) + 1}
                          /\ shown'[Len(shown) + 1] = [kind |-> "hicRead", at |-> hic.start,
                                                       addr |-> hic.addr]
               /\ hic' = IF done THEN NoHic ELSE hic
  <1> DEFINE done == hic.low /\ hic.high /\ hic.read
  <1>1. CASE done
    <2>1. /\ shown' = shown \o <<[kind |-> "hicRead", at |-> hic.start, addr |-> hic.addr]>>
          /\ hic' = NoHic
      BY <1>1 DEF HicRead, Show
    <2> QED BY <1>1, <2>1, OneLine
  <1>2. CASE ~done
    <2>1. shown' = shown \o <<>> /\ hic' = hic
      BY <1>2 DEF HicRead, Show
    <2> QED BY <1>2, <2>1, NoLines
  <1> QED BY <1>1, <1>2

LEMMA RamWriteLines ==
    ASSUME IsSeq(shown), RamWrite, ~Overruns
    PROVE  Grew /\ \A n \in New : shown'[n].kind = "raw"
  <1>1. shown' = shown \/ shown' = shown \o <<Raw>>
    BY DEF RamWrite, KeepByte, Show
  <1> QED BY <1>1, NoLines, OneLine DEF Raw

RamKinds == {"raw", "pll", "ramRead"}

RamShows ==
    /\ Grew
    /\ ram.run = <<>> => \A n \in New : shown'[n].kind \in RamKinds
    /\ ram.run # <<>> =>
          /\ Len(shown) + 1 \in New /\ shown'[Len(shown) + 1] = RunLine(ram)
          /\ \A n \in New : n # Len(shown) + 1 => shown'[n].kind \in RamKinds
    /\ \A n \in New : shown'[n].kind = "ramRead" =>
          RamRead /\ RamComplete(Ended) /\ shown'[n].addr = Ended.addr

LEMMA RunKind == RunLine(ram).kind = "ramRun"
  BY DEF RunLine

LEMMA RunThenShows ==
    ASSUME IsSeq(shown), NEW l, shown' = shown \o (EndedLines \o <<l>>), l.kind \in RamKinds,
           l.kind = "ramRead" => RamRead /\ RamComplete(Ended) /\ l.addr = Ended.addr
    PROVE  RamShows
  <1>1. Grew
    BY RunThenLine
  <1>2. CASE ram.run = <<>>
    <2>1. New = {Len(shown) + 1} /\ shown'[Len(shown) + 1] = l
      BY <1>2, RunThenLine
    <2> QED BY <1>1, <1>2, <2>1 DEF RamShows
  <1>3. CASE ram.run # <<>>
    <2>1. /\ New = {Len(shown) + 1, Len(shown) + 2}
          /\ shown'[Len(shown) + 1] = RunLine(ram) /\ shown'[Len(shown) + 2] = l
      BY <1>3, RunThenLine
    <2>2. RunLine(ram).kind # "ramRead"
      BY RunKind
    <2>3. \A n \in New : n = Len(shown) + 1 \/ shown'[n] = l
      BY <2>1
    <2>4. \A n \in New : shown'[n].kind = "ramRead" => shown'[n] = l
      BY <2>1, <2>2
    <2> QED BY <1>1, <1>3, <2>1, <2>3, <2>4 DEF RamShows
  <1> QED BY <1>2, <1>3

LEMMA RunAloneShows ==
    ASSUME IsSeq(shown), shown' = shown \o EndedLines
    PROVE  RamShows
  <1>1. CASE ram.run = <<>>
    <2>1. Grew /\ New = {}
      BY <1>1, RunAlone
    <2> QED BY <1>1, <2>1 DEF RamShows
  <1>2. CASE ram.run # <<>>
    <2>1. Grew /\ New = {Len(shown) + 1} /\ shown'[Len(shown) + 1] = RunLine(ram)
      BY <1>2, RunAlone
    <2> QED BY <1>2, <2>1, RunKind DEF RamShows
  <1> QED BY <1>1, <1>2

LEMMA RamLines ==
    ASSUME IsSeq(shown), RamLow \/ RamHigh \/ PllWrite \/ RamRead
    PROVE  RamShows
  <1>4. CASE RamLow \/ RamHigh
    <2>1. shown' = shown \o EndedLines
      BY <1>4 DEF RamLow, RamHigh, Show
    <2> QED BY <2>1, RunAloneShows
  <1>5. CASE PllWrite
    <2> DEFINE l == IF Ended.low THEN [kind |-> "pll", at |-> Ended.start, addr |-> Ended.addr,
                                       data |-> v.data]
                    ELSE Raw
    <2>1. shown' = shown \o (EndedLines \o <<l>>)
      BY <1>5 DEF PllWrite, Show
    <2>2. l.kind \in {"raw", "pll"}
      BY DEF Raw
    <2> HIDE DEF l
    <2>3. l.kind \in RamKinds /\ l.kind # "ramRead"
      BY <2>2 DEF RamKinds
    <2> QED BY <2>1, <2>3, RunThenShows
  <1>6. CASE RamRead
    <2> DEFINE l == IF RamComplete(Ended) THEN [kind |-> "ramRead", at |-> Ended.start,
                                                addr |-> Ended.addr]
                    ELSE Raw
    <2>1. shown' = shown \o (EndedLines \o <<l>>)
      BY <1>6 DEF RamRead, Show
    <2>2. /\ l.kind \in {"raw", "ramRead"}
          /\ l.kind = "ramRead" => RamComplete(Ended) /\ l.addr = Ended.addr
      BY DEF Raw
    <2> HIDE DEF l
    <2>3. l.kind \in RamKinds
      BY <2>2 DEF RamKinds
    <2> QED BY <1>6, <2>1, <2>2, <2>3, RunThenShows
  <1> QED BY <1>4, <1>5, <1>6

LEMMA OtherLines ==
    ASSUME IsSeq(shown), ChipStatus \/ ParamValue \/ PortFree \/ ChipVerb \/ DspVerb \/ NodeVerb
    PROVE  /\ Grew
           /\ \/ shown' = shown /\ New = {}
              \/ /\ New = {Len(shown) + 1}
                 /\ shown'[Len(shown) + 1].kind \in {"param", "flag", "end"} \cup OtherKinds
              \/ \A n \in New : shown'[n].kind \in OtherKinds
           /\ \A n \in New : /\ shown'[n].kind = "param" => ParamValue \/ ChipVerb
                             /\ shown'[n].kind = "flag" => ChipVerb
                             /\ shown'[n].kind = "end" => PortFree
  <1> USE DEF OtherKinds
  <1>1. CASE ChipStatus
    <2>1. shown' = shown \o <<>> \/ shown' = shown \o <<Raw>>
      BY <1>1 DEF ChipStatus, Show
    <2> QED BY <2>1, NoLines, OneLine DEF Raw
  <1>2. CASE ParamValue
    <2> DEFINE l == [kind |-> "param", at |-> param.start, id |-> param.id, val |-> v.data]
    <2>1. shown' = shown \o <<>> \/ shown' = shown \o <<l>>
      BY <1>2 DEF ParamValue, Show
    <2> QED BY <1>2, <2>1, NoLines, OneLine
  <1>3. CASE PortFree
    <2> DEFINE l == [kind |-> "end", at |-> At]
    <2>1. shown' = shown \o <<>> \/ shown' = shown \o <<l>>
      BY <1>3 DEF PortFree, Show
    <2> QED BY <1>3, <2>1, NoLines, OneLine
  <1>4. CASE ChipVerb
    <2>1. \E l : shown' = shown \o <<l>> /\ l.kind \in {"flag", "param", "direct", "raw"}
      <3>1. FlagLine.kind = "flag" /\ ShortParamLine.kind = "param" /\ Raw.kind = "raw"
        BY DEF FlagLine, ShortParamLine, Raw
      <3> DEFINE direct == [kind |-> "direct", at |-> At, data |-> v.data]
      <3>2. direct.kind = "direct"
        OBVIOUS
      <3>3. \/ shown' = shown \o <<FlagLine>> \/ shown' = shown \o <<ShortParamLine>>
            \/ shown' = shown \o <<direct>> \/ shown' = shown \o <<Raw>>
        BY <1>4 DEF ChipVerb, Show
      <3> HIDE DEF direct
      <3> QED BY <3>1, <3>2, <3>3
    <2>2. PICK l : shown' = shown \o <<l>> /\ l.kind \in {"flag", "param", "direct", "raw"}
      BY <2>1
    <2> QED BY <1>4, <2>2, OneLine
  <1>5. CASE DspVerb
    <2>1. shown' = shown \o <<>> \/ shown' = shown \o <<Raw>>
      BY <1>5 DEF DspVerb, Show
    <2> QED BY <2>1, NoLines, OneLine DEF Raw
  <1>6. CASE NodeVerb
    <2>1. \/ \E l : shown' = shown \o <<l>> /\ l.kind \in OtherKinds
          \/ \E l, m : shown' = shown \o <<l, m>> /\ l.kind \in OtherKinds /\ m.kind \in OtherKinds
      <3>1. PICK n \in Nodes :
              LET bytes == {k \in 1 .. 4 : PinConfig[k] = v.verb}
                  cfg   == [k \in 1 .. 4 |-> IF k \in bytes THEN v.data ELSE pins[n][k]]
              IN  Show(CASE 4 \in bytes -> <<Raw, [kind |-> "pincfg", node |-> n, cfg |-> cfg]>>
                         [] v.verb \in {"PIN_CONTROL", "AMP"} ->
                               <<[kind |-> v.verb, at |-> At, node |-> n, data |-> v.data]>>
                         [] OTHER -> <<Raw>>)
        BY <1>6 DEF NodeVerb
      <3> DEFINE bytes == {k \in 1 .. 4 : PinConfig[k] = v.verb}
                 cfg   == [k \in 1 .. 4 |-> IF k \in bytes THEN v.data ELSE pins[n][k]]
                 pincfg == [kind |-> "pincfg", node |-> n, cfg |-> cfg]
                 named  == [kind |-> v.verb, at |-> At, node |-> n, data |-> v.data]
      <3>2. \/ shown' = shown \o <<Raw, pincfg>>
            \/ v.verb \in {"PIN_CONTROL", "AMP"} /\ shown' = shown \o <<named>>
            \/ shown' = shown \o <<Raw>>
        BY <3>1 DEF Show
      <3>3. /\ Raw.kind \in OtherKinds /\ pincfg.kind \in OtherKinds
            /\ v.verb \in {"PIN_CONTROL", "AMP"} => named.kind \in OtherKinds
        BY DEF Raw
      <3> HIDE DEF pincfg, named, OtherKinds
      <3> QED BY <3>2, <3>3
    <2> HIDE DEF OtherKinds
    <2>2. ASSUME NEW l, l.kind \in OtherKinds, shown' = shown \o <<l>>
          PROVE  Grew /\ \A n \in New : shown'[n].kind \in OtherKinds
      BY <2>2, OneLine
    <2>3. ASSUME NEW l, NEW m, l.kind \in OtherKinds, m.kind \in OtherKinds,
                 shown' = shown \o <<l, m>>
          PROVE  Grew /\ \A n \in New : shown'[n].kind \in OtherKinds
      BY <2>3, TwoLines
    <2>4. Grew /\ \A n \in New : shown'[n].kind \in OtherKinds
      BY <2>1, <2>2, <2>3
    <2> QED BY <2>4 DEF OtherKinds
  <1> QED BY <1>1, <1>2, <1>3, <1>4, <1>5, <1>6

LEMMA LinesOfActions ==
    ASSUME IsSeq(shown), Decodes
    PROVE  Grew /\ KindsOfActions
  <1>1. CASE HicPostRead \/ ParamId \/ OtherCodec
    BY <1>1, SilentActions DEF KindsOfActions
  <1>2. CASE HicWrite
    <2>1. PICK h : h = HicAfter[v.verb]
      OBVIOUS
    <2>2. Grew /\ (New = {} \/ (New = {Len(shown) + 1} /\ shown'[Len(shown) + 1] = HicLine(h)))
      BY <1>2, <2>1, HicWriteLines
    <2>3. Grew /\ \A n \in New : shown'[n].kind = "hicWrite"
      BY <2>2 DEF HicLine
    <2> QED BY <1>2, <2>3 DEF KindsOfActions
  <1>3. CASE HicRead
    <2>1. Grew /\ \A n \in New : shown'[n].kind = "hicRead"
      BY <1>3, HicReadLines
    <2> QED BY <1>3, <2>1 DEF KindsOfActions
  <1>4. CASE RamWrite
    <2>1. ~Overruns
      BY <1>4 DEF Decodes
    <2> QED BY <1>4, <2>1, RamWriteLines DEF KindsOfActions
  <1>5. CASE RamLow \/ RamHigh \/ PllWrite \/ RamRead
    <2>1. /\ Grew /\ \A n \in New : shown'[n].kind \in {"raw", "pll", "ramRead", "ramRun"}
          /\ \A n \in New : shown'[n].kind = "ramRead" => RamRead
      BY <1>5, RamLines, RunKind DEF RamShows, RamKinds
    <2> QED BY <1>5, <2>1 DEF KindsOfActions
  <1>6. CASE ScpWord
    <2>1. Grew /\ \A n \in New : shown'[n].kind \in {"scp", "wrong"}
      BY <1>6, ScpWordLines
    <2> QED BY <1>6, <2>1 DEF KindsOfActions
  <1>7. CASE ScpAnswer
    <2>1. Grew /\ \A n \in New : shown'[n].kind = "scp"
      BY <1>7, ScpAnswerLines
    <2> QED BY <1>7, <2>1 DEF KindsOfActions
  <1>8. CASE ChipStatus \/ ParamValue \/ PortFree \/ ChipVerb \/ DspVerb \/ NodeVerb
    <2>1. Grew /\ \A n \in New : shown'[n].kind \in {"param", "flag", "end"} \cup OtherKinds
      BY <1>8, OtherLines
    <2> QED BY <1>8, <2>1, OtherLines DEF KindsOfActions, OtherKinds
  <1> QED BY <1>1, <1>2, <1>3, <1>4, <1>5, <1>6, <1>7, <1>8 DEF Decode, Decodes

-----------------------------------------------------------------------------
(***************************************************************************)
(* Steps of the decoder.                                                   *)
(***************************************************************************)
Forward ==
    /\ Decodes /\ pass = "decode" /\ ~atEnd /\ pos \in Nat /\ pos < Len(file)
    /\ v = file[pos + 1] /\ v \in Frame /\ At = pos + 1 /\ cur' = v
    /\ pass' = "decode" /\ pos' = pos + 1 /\ atEnd' = FALSE
    /\ file' = file /\ mainCodec' = mainCodec /\ downloads' = downloads
    /\ CodecTakes(v)

Last ==
    /\ Decodes /\ pass = "decode" /\ ~atEnd /\ pos = Len(file) /\ v = cur /\ cur' = v
    /\ pass' = "decode" /\ pos' = pos /\ atEnd' = TRUE
    /\ file' = file /\ mainCodec' = mainCodec /\ downloads' = downloads
    /\ codec' = codec

Counts ==
    /\ CountFrame /\ pass = "count" /\ ~atEnd /\ pass' = "count"
    /\ pos' = At /\ cur' = v /\ atEnd' = (pos = Len(file)) /\ file' = file
    /\ UNCHANGED <<gathered, shown, codec>>

Rewinds ==
    /\ pass = "count" /\ atEnd /\ pass' = "decode" /\ pos' = 0 /\ atEnd' = FALSE
    /\ UNCHANGED <<file, cur, counted, gathered, shown, codec>>

LEMMA DecodeReads ==
    ASSUME Decodes
    PROVE  /\ pass = "decode" /\ ~atEnd /\ pass' = "decode" /\ pos' = At /\ cur' = v
           /\ atEnd' = (pos = Len(file)) /\ file' = file
           /\ mainCodec' = mainCodec /\ downloads' = downloads
  <1>1. ASSUME NEW n, Handles(n)
        PROVE  pass = "decode" /\ Read /\ UNCHANGED counted
    BY <1>1 DEF Handles, Gets
  <1>2. RamWrite /\ ~Overruns => pass = "decode" /\ Read /\ UNCHANGED counted
    BY DEF RamWrite, Gets
  <1>3. pass = "decode" /\ Read /\ UNCHANGED counted
    BY <1>1, <1>2
       DEF Decodes, Decode, HicWrite, HicPostRead, HicRead, ChipStatus, RamLow, RamHigh,
           PllWrite, RamRead, ParamId, ParamValue, PortFree, ChipVerb, ScpWord, ScpAnswer,
           DspVerb, NodeVerb, OtherCodec
  <1> QED BY <1>3 DEF Read, counted

(***************************************************************************)
(* A byte that is written when the array is full would make a run that the  *)
(* files do not have.                                                      *)
(***************************************************************************)
LEMMA BytesCounted ==
    ASSUME NEW f, NEW c, NEW h \in Nat, NEW n \in Nat, h <= n
    PROVE  /\ Cardinality(BytesFrom(f, c, h, n)) \in Nat
           /\ IF IsChip(f[n + 1], c, {"RAM_WRITE"})
              THEN Cardinality(BytesFrom(f, c, h, n + 1)) = Cardinality(BytesFrom(f, c, h, n)) + 1
              ELSE BytesFrom(f, c, h, n + 1) = BytesFrom(f, c, h, n)
           /\ OneRun(f, c, h, n) /\ (IsChip(f[n + 1], c, RamVerbs) => f[n + 1].verb = "RAM_WRITE") =>
                 OneRun(f, c, h, n + 1)
           /\ OneRun(f, c, n, n)
  <1> DEFINE B == BytesFrom(f, c, h, n)
  <1>1. h + 1 .. n + 1 = (h + 1 .. n) \cup {n + 1} /\ n + 1 \notin h + 1 .. n /\ n + 1 .. n = {}
    OBVIOUS
  <1>2. IsFiniteSet(B)
    <2>1. IsFiniteSet(h + 1 .. n)
      BY FS_Interval
    <2> QED BY <2>1, FS_Subset DEF BytesFrom
  <1>3. /\ IsChip(f[n + 1], c, {"RAM_WRITE"}) => BytesFrom(f, c, h, n + 1) = B \cup {n + 1}
        /\ ~IsChip(f[n + 1], c, {"RAM_WRITE"}) => BytesFrom(f, c, h, n + 1) = B
        /\ n + 1 \notin B
    BY <1>1 DEF BytesFrom
  <1>4. Cardinality(B) \in Nat /\ Cardinality(B \cup {n + 1}) = Cardinality(B) + 1
    BY <1>2, <1>3, FS_AddElement, FS_CardinalityType
  <1>5. /\ OneRun(f, c, h, n) /\ (IsChip(f[n + 1], c, RamVerbs) => f[n + 1].verb = "RAM_WRITE") =>
              OneRun(f, c, h, n + 1)
        /\ OneRun(f, c, n, n)
    BY <1>1 DEF OneRun
  <1> QED BY <1>3, <1>4, <1>5

LEMMA NoOverrun ==
    ASSUME Position, RunInv, RamWrite
    PROVE  ~Overruns
  <1>1. /\ pass = "decode" /\ ~atEnd /\ v.codec = mainCodec /\ v.node = "chip"
        /\ v.verb = "RAM_WRITE"
    BY DEF RamWrite, Gets, Read
  <1>2. /\ file \in Files /\ Len(file) \in Nat /\ DOMAIN file = 1 .. Len(file) /\ RunsFit(file)
        /\ pos \in Nat /\ pos <= Len(file) /\ RunSize \in Nat
    BY FileFrames, RunSizeAssumption DEF Position
  <1> SUFFICES ASSUME InRun PROVE Len(ram.run) \in Nat /\ Len(ram.run) < RunSize
    BY <1>2 DEF Overruns
  <1>3. PICK h \in 1 .. pos : Started(h) /\ Len(ram.run) <= Bytes(h)
    BY <1>1 DEF RunInv
  <1>4. Len(ram.run) \in Nat
    BY <1>1, SeqFacts DEF RunInv
  <1> DEFINE count(n) == Cardinality(BytesFrom(file, mainCodec, h, n))
  <1>5. Len(ram.run) <= count(pos) /\ count(pos) \in Nat /\ h \in Nat /\ h <= pos
    BY <1>1, <1>2, <1>3, BytesCounted DEF Bytes
  <1>6. IsChip(file[h], mainCodec, Aiming) /\ file[h].codec = mainCodec /\ h \in DOMAIN file
        /\ OneRun(file, mainCodec, h, pos)
    <2>1. IsChip(file[h], mainCodec, Aiming) /\ OneRun(file, mainCodec, h, pos)
      BY <1>3 DEF Started
    <2>2. h \in 1 .. Len(file)
      BY <1>2
    <2> QED BY <1>2, <2>1, <2>2 DEF IsChip
  <1>7. ASSUME NEW n \in h .. Len(file), OneRun(file, mainCodec, h, n)
        PROVE  count(n) + ByteAgain(file, mainCodec, n) <= RunSize
    BY <1>2, <1>6, <1>7 DEF RunsFit
  <1>8. CASE pos < Len(file)
    <2>1. IsChip(file[pos + 1], mainCodec, {"RAM_WRITE"}) /\ file[pos + 1].verb = "RAM_WRITE"
      BY <1>1, <1>8 DEF v, IsChip
    <2>2. count(pos + 1) = count(pos) + 1 /\ OneRun(file, mainCodec, h, pos + 1)
      BY <1>2, <1>5, <1>6, <2>1, BytesCounted
    <2>3. pos + 1 \in h .. Len(file)
      BY <1>2, <1>5, <1>8
    <2>4. ByteAgain(file, mainCodec, pos + 1) \in {0, 1}
      BY DEF ByteAgain
    <2>5. count(pos) + 1 + ByteAgain(file, mainCodec, pos + 1) <= RunSize
      BY <1>7, <2>2, <2>3
    <2> HIDE DEF count
    <2> QED BY <1>2, <1>4, <1>5, <2>4, <2>5
  <1>9. CASE ~(pos < Len(file))
    <2>1. pos = Len(file) /\ pos > 0 /\ pos \in h .. Len(file) /\ v = cur
      <3>1. /\ pos \in Nat /\ pos <= Len(file) /\ Len(file) \in Nat /\ ~(pos < Len(file))
            /\ h \in 1 .. pos
        BY <1>2, <1>9
      <3>2. pos = Len(file) /\ pos > 0 /\ pos \in h .. Len(file)
        BY <3>1
      <3> QED BY <1>9, <3>2 DEF v
    <2>2. IsChip(file[pos], mainCodec, {"RAM_WRITE"})
      BY <1>1, <2>1 DEF Position, IsChip
    <2>3. ByteAgain(file, mainCodec, pos) = 1
      BY <2>1, <2>2 DEF ByteAgain
    <2>4. count(pos) + 1 <= RunSize
      BY <1>6, <1>7, <2>1, <2>3
    <2> HIDE DEF count
    <2> QED BY <1>2, <1>4, <1>5, <2>4
  <1> QED BY <1>4, <1>8, <1>9

LEMMA StepKinds ==
    ASSUME Position, RunInv, DumpNext
    PROVE  Counts \/ Rewinds \/ Forward \/ Last
  <1>1. file \in Files /\ pos \in 0 .. Len(file) /\ Len(file) \in Nat
    BY FileFrames DEF Position
  <1>2. CASE CountFrame
    <2>1. pass = "count" /\ Read /\ UNCHANGED <<gathered, shown>>
      BY <1>2 DEF CountFrame
    <2>2. UNCHANGED codec
      BY <2>1 DEF DumpNext
    <2> QED BY <1>2, <2>1, <2>2 DEF Counts, Read
  <1>3. CASE Rewind
    <2>1. UNCHANGED codec
      BY <1>3 DEF DumpNext, Rewind
    <2> QED BY <1>3, <2>1 DEF Rewind, Rewinds
  <1>4. CASE Decode
    <2> Decodes
      BY <1>4, NoOverrun DEF Decodes
    <2>1. CASE pos < Len(file)
      <3>1. v = file[pos + 1] /\ At = pos + 1 /\ pos \in Nat
        BY <1>1, <2>1 DEF v, At
      <3>2. v \in Frame
        BY <1>1, <2>1, <3>1, FileFrames
      <3>3. CodecTakes(v)
        BY <1>4, <2>1, <3>1, DecodeReads DEF DumpNext
      <3>4. atEnd' = FALSE
        <4>1. atEnd' = (pos = Len(file)) /\ pos # Len(file)
          BY <1>1, <1>4, <2>1, DecodeReads
        <4> QED BY <4>1
      <3>5. /\ pass = "decode" /\ ~atEnd /\ pass' = "decode" /\ pos' = pos + 1 /\ cur' = v
            /\ file' = file /\ mainCodec' = mainCodec /\ downloads' = downloads
        BY <1>4, <3>1, DecodeReads
      <3> QED BY <1>4, <2>1, <3>1, <3>2, <3>3, <3>4, <3>5 DEF Forward
    <2>2. CASE ~(pos < Len(file))
      <3>1. pos = Len(file) /\ v = cur /\ At = pos
        BY <1>1, <2>2 DEF v, At
      <3>2. codec' = codec
        BY <2>2 DEF DumpNext
      <3> QED BY <1>4, <3>1, <3>2, DecodeReads DEF Last
    <2> QED BY <2>1, <2>2
  <1> QED BY <1>2, <1>3, <1>4 DEF DumpNext, Next

LEMMA PositionStep ==
    ASSUME Position, RunInv, DumpNext
    PROVE  Position'
  <1>1. file \in Files /\ pos \in 0 .. Len(file) /\ Len(file) \in Nat /\ IsSeq(shown)
    BY FileFrames DEF Position
  <1>2. CASE Counts
    <2>1. v = (IF pos < Len(file) THEN file[pos + 1] ELSE cur) /\ At \in 0 .. Len(file)
          /\ (pos = Len(file) => At = pos) /\ (pos # Len(file) => At = pos + 1)
      BY <1>1 DEF v, At
    <2>2. pos' > 0 => cur' = file[pos']
      BY <1>1, <1>2, <2>1 DEF Counts, Position
    <2>3. file = <<>> => v = cur
      BY <1>1, <2>1
    <2>4. shown' = shown /\ Blank'
      BY <1>2 DEF Position, Counts, gathered, Blank, CodecInit
    <2> QED BY <1>1, <1>2, <2>1, <2>2, <2>3, <2>4 DEF Counts, Position
  <1>3. CASE Rewinds
    <2>1. pos' \in 0 .. Len(file) /\ ~(pos' > 0) /\ ~atEnd'
      BY <1>1, <1>3 DEF Rewinds
    <2> QED BY <1>1, <1>3, <2>1 DEF Position, Rewinds
  <1>4. CASE Forward
    <2>1. IsSeq(shown')
      BY <1>1, <1>4, LinesOfActions DEF Forward, Grew
    <2>2. pos' \in 0 .. Len(file) /\ file # <<>>
      BY <1>1, <1>4 DEF Forward
    <2> QED BY <1>1, <1>4, <2>1, <2>2 DEF Position, Forward
  <1>5. CASE Last
    <2>1. IsSeq(shown')
      BY <1>1, <1>5, LinesOfActions DEF Last, Grew
    <2> QED BY <1>1, <1>5, <2>1 DEF Position, Last
  <1> QED BY <1>2, <1>3, <1>4, <1>5, StepKinds

-----------------------------------------------------------------------------
(***************************************************************************)
(* The last verb of a group, as frames go by.                              *)
(***************************************************************************)
LEMMA OneLast ==
    ASSUME NEW f, NEW c, NEW K, NEW n \in Nat, NEW g, NEW h,
           LastOf(f, c, K, g, n), LastOf(f, c, K, h, n)
    PROVE  g = h
  BY DEF LastOf

LEMMA LastOrNone ==
    ASSUME NEW f, NEW c, NEW K, NEW n \in Nat, NEW h, LastOf(f, c, K, h, n)
    PROVE  ~NoneOf(f, c, K, n)
  BY DEF LastOf, NoneOf

LEMMA LastIsNew ==
    ASSUME NEW f, NEW c, NEW K, NEW n \in Nat, IsChip(f[n + 1], c, K)
    PROVE  n + 1 \in 1 .. n + 1 /\ LastOf(f, c, K, n + 1, n + 1)
  <1>1. n + 1 + 1 .. n + 1 = {} /\ n + 1 \in 1 .. n + 1
    OBVIOUS
  <1> QED BY <1>1 DEF LastOf

LEMMA LastStays ==
    ASSUME NEW f, NEW c, NEW K, NEW n \in Nat, ~IsChip(f[n + 1], c, K)
    PROVE  /\ NoneOf(f, c, K, n) => NoneOf(f, c, K, n + 1)
           /\ \A h \in 1 .. n : LastOf(f, c, K, h, n) =>
                 h \in 1 .. n + 1 /\ LastOf(f, c, K, h, n + 1)
  <1>1. \A g \in 1 .. n + 1 : g \in 1 .. n \/ g = n + 1
    OBVIOUS
  <1>2. \A h \in 1 .. n : h \in 1 .. n + 1 /\ \A g \in h + 1 .. n + 1 : g \in h + 1 .. n \/ g = n + 1
    OBVIOUS
  <1> QED BY <1>1, <1>2 DEF LastOf, NoneOf

LEMMA NoneYet ==
    ASSUME NEW f, NEW c, NEW K
    PROVE  NoneOf(f, c, K, 0)
  BY DEF NoneOf

-----------------------------------------------------------------------------
(***************************************************************************)
(* Which action a verb is handled by.                                      *)
(***************************************************************************)
ToChip(verbs) == v.codec = mainCodec /\ v.node = "chip" /\ v.verb \in verbs

LEMMA ToChipIsChip ==
    ASSUME Forward, NEW K
    PROVE  ToChip(K) <=> IsChip(file[pos + 1], mainCodec, K)
  BY DEF ToChip, IsChip, Forward

ChipActions ==
    /\ HicWrite => ToChip(HicVerbs)
    /\ HicPostRead => ToChip({"HIC_POST_READ"})
    /\ HicRead => ToChip({"HIC_READ_DATA"})
    /\ ChipStatus => ToChip({"CHIP_STATUS"})
    /\ RamLow => ToChip({"RAM_LOW"})
    /\ RamHigh => ToChip({"RAM_HIGH"})
    /\ RamWrite => ToChip({"RAM_WRITE"})
    /\ PllWrite => ToChip({"PLL_WRITE"})
    /\ RamRead => ToChip({"RAM_READ"})
    /\ ParamId => ToChip({"PARAM_ID"})
    /\ ParamValue => ToChip({"PARAM_VALUE"})
    /\ PortFree => ToChip({"PORT_FREE"})
    /\ ChipVerb => ToChip({"FLAG_SET", "PARAM_SET", "RAM_WRITE_DIRECT", "STREAM_FORMAT",
                           "EXTENSIONS_ENABLE", "PARAM_GET", "PARAM_VALUE_GET"})
    /\ ScpWord \/ ScpAnswer \/ DspVerb => v.codec = mainCodec /\ v.node = "dsp"
    /\ NodeVerb => v.codec = mainCodec /\ v.node \notin {"chip", "dsp"}
    /\ OtherCodec => v.codec # mainCodec

LEMMA ActionsOfChip == ChipActions
  <1>1. ASSUME NEW n, Handles(n) \/ Gets(n) PROVE v.codec = mainCodec /\ v.node = n
    BY <1>1 DEF Handles, Gets
  <1>2. \A n \in Nodes : n \notin {"chip", "dsp"}
    BY FilesAssumption
  <1>3. NodeVerb => v.codec = mainCodec /\ v.node \notin {"chip", "dsp"}
    BY <1>1, <1>2 DEF NodeVerb
  <1>4. ScpWord \/ ScpAnswer \/ DspVerb => v.codec = mainCodec /\ v.node = "dsp"
    BY <1>1 DEF ScpWord, ScpAnswer, DspVerb
  <1>5. OtherCodec => v.codec # mainCodec
    BY DEF OtherCodec
  <1> QED BY <1>1, <1>3, <1>4, <1>5
          DEF ChipActions, ToChip, HicWrite, HicPostRead, HicRead, ChipStatus, RamLow, RamHigh,
              RamWrite, PllWrite, RamRead, ParamId, ParamValue, PortFree, ChipVerb

LEMMA ActionOfVerb ==
    ASSUME Decodes
    PROVE  /\ ToChip(HicVerbs) => HicWrite
           /\ ToChip({"HIC_POST_READ"}) => HicPostRead
           /\ ToChip({"HIC_READ_DATA"}) => HicRead
           /\ ToChip({"RAM_LOW"}) => RamLow
           /\ ToChip({"RAM_HIGH"}) => RamHigh
           /\ ToChip({"RAM_WRITE"}) => RamWrite
           /\ ToChip({"PLL_WRITE"}) => PllWrite
           /\ ToChip({"RAM_READ"}) => RamRead
           /\ ToChip({"PARAM_ID"}) => ParamId
           /\ ToChip({"PARAM_VALUE"}) => ParamValue
           /\ ToChip({"PORT_FREE"}) => PortFree
           /\ ToChip({"FLAG_SET", "PARAM_SET"}) => ChipVerb
  BY ActionsOfChip DEF Decodes, Decode, ChipActions, ToChip, HicVerbs

(* What the decoder keeps of a group only the verbs of the group change.    *)
LEMMA KeptApart ==
    ASSUME Decodes
    PROVE  /\ ~ToChip(HicCallVerbs) => hic' = hic
           /\ ~ToChip(RamVerbs) => ram' = ram
           /\ ~ToChip(IdVerbs) => param' = param
           /\ ~ToChip({"PORT_FREE"}) => freed' = freed
           /\ ~(ScpWord \/ ScpAnswer) => dsp' = dsp
  <1>1. ~(HicWrite \/ HicPostRead \/ HicRead) => hic' = hic
    BY DEF Decodes, Decode, ChipStatus, RamLow, RamHigh, RamWrite, PllWrite, RamRead, ParamId, ParamValue,
           PortFree, ChipVerb, ScpWord, ScpAnswer, DspVerb, NodeVerb, OtherCodec, RamOnly,
           gathered
  <1>2. ~(RamLow \/ RamHigh \/ RamWrite \/ PllWrite \/ RamRead) => ram' = ram
    BY DEF Decodes, Decode, HicWrite, HicPostRead, HicRead, ChipStatus, ParamId, ParamValue,
           PortFree, ChipVerb, ScpWord, ScpAnswer, DspVerb, NodeVerb, OtherCodec, gathered
  <1>3. ~(ParamId \/ ParamValue) => param' = param
    BY DEF Decodes, Decode, HicWrite, HicPostRead, HicRead, ChipStatus, RamLow, RamHigh, RamWrite, PllWrite,
           RamRead, PortFree, ChipVerb, ScpWord, ScpAnswer, DspVerb, NodeVerb, OtherCodec,
           RamOnly, gathered
  <1>4. ~PortFree => freed' = freed
    BY DEF Decodes, Decode, HicWrite, HicPostRead, HicRead, ChipStatus, RamLow, RamHigh, RamWrite, PllWrite,
           RamRead, ParamId, ParamValue, ChipVerb, ScpWord, ScpAnswer, DspVerb, NodeVerb,
           OtherCodec, RamOnly, gathered
  <1>5. ~(ScpWord \/ ScpAnswer) => dsp' = dsp
    BY DEF Decodes, Decode, HicWrite, HicPostRead, HicRead, ChipStatus, RamLow, RamHigh, RamWrite, PllWrite,
           RamRead, ParamId, ParamValue, PortFree, ChipVerb, DspVerb, NodeVerb,
           OtherCodec, RamOnly, gathered
  <1> QED BY <1>1, <1>2, <1>3, <1>4, <1>5, ActionsOfChip
          DEF ChipActions, ToChip, HicCallVerbs, HicVerbs, RamVerbs, IdVerbs

-----------------------------------------------------------------------------
(***************************************************************************)
(* What the codec does with a verb.                                        *)
(***************************************************************************)
ToDsp == v.codec = mainCodec /\ v.node = "dsp" /\ v.verb \in {"SCP_LOW", "SCP_HIGH"}

LEMMA CodecSteps ==
    ASSUME CodecTakes(v)
    PROVE  /\ ToDsp => codec' = DspTakes(codec, v)
           /\ v.codec = mainCodec /\ v.node = "chip" /\ v.ok => codec' = ChipTakes(codec, v)
           /\ ~ToDsp /\ ~(v.codec = mainCodec /\ v.node = "chip" /\ v.ok) => codec' = codec
  BY DEF CodecTakes, ToDsp

SameHic  == /\ codec'.hicAddr = codec.hicAddr /\ codec'.hicLow = codec.hicLow
            /\ codec'.aimed = codec.aimed /\ codec'.stored = codec.stored
SameRam  == /\ codec'.ramAddr = codec.ramAddr /\ codec'.placed = codec.placed
            /\ codec'.exram = codec.exram
SameSets == codec'.params = codec.params /\ codec'.flags = codec.flags
SameDsp  == /\ codec'.half = codec.half /\ codec'.open = codec.open
            /\ codec'.packets = codec.packets /\ codec'.torn = codec.torn

SetVerbs == {"PARAM_VALUE", "PARAM_SET", "FLAG_SET"}

LEMMA DspKeeps ==
    ASSUME Shapes, codec' = DspTakes(codec, v)
    PROVE  SameHic /\ SameRam /\ SameSets /\ codec'.id = codec.id
  BY DEF Shapes, DspTakes, SameHic, SameRam, SameSets

LEMMA ChipKeeps ==
    ASSUME Shapes, codec' = ChipTakes(codec, v)
    PROVE  /\ SameDsp
           /\ v.verb \notin HicCallVerbs => SameHic
           /\ v.verb \notin RamVerbs => SameRam
           /\ v.verb # "PARAM_ID" => codec'.id = codec.id
           /\ v.verb \notin SetVerbs => SameSets
  BY DEF Shapes, ChipTakes, SameHic, SameRam, SameSets, SameDsp, HicCallVerbs, HicVerbs,
         RamVerbs, SetVerbs

LEMMA CodecKeeps ==
    ASSUME Shapes, CodecTakes(v)
    PROVE  /\ ~ToDsp => SameDsp
           /\ ~ToChip(HicCallVerbs) => SameHic
           /\ ~ToChip(RamVerbs) => SameRam
           /\ ~ToChip({"PARAM_ID"}) => codec'.id = codec.id
           /\ ~ToChip(SetVerbs) => SameSets
  <1>1. codec' = codec => SameHic /\ SameRam /\ SameSets /\ SameDsp /\ codec'.id = codec.id
    BY DEF SameHic, SameRam, SameSets, SameDsp
  <1> QED BY <1>1, CodecSteps, DspKeeps, ChipKeeps DEF ToChip, ToDsp

LEMMA NextByte ==
    ASSUME NEW a \in Byte \X Byte
    PROVE  NextRamAddr(a) \in Byte \X Byte
  BY DEF NextRamAddr, Byte

LEMMA HicAfterVerb ==
    /\ v.verb = "ADDRESS_LOW" =>
          HicAfter[v.verb] = [HicFresh EXCEPT !.start = At, !.addr = <<v.data, 0>>, !.low = TRUE]
    /\ v.verb = "ADDRESS_HIGH" =>
          HicAfter[v.verb] = [hic EXCEPT !.addr = <<@[1], BitOr(@[2], v.data)>>, !.high = TRUE]
    /\ v.verb = "DATA_LOW" =>
          HicAfter[v.verb] = [hic EXCEPT !.data = <<v.data, 0>>, !.dataLow = TRUE]
    /\ v.verb = "DATA_HIGH" =>
          HicAfter[v.verb] = [hic EXCEPT !.data = <<@[1], BitOr(@[2], v.data)>>, !.dataHigh = TRUE]
  BY DEF HicAfter

RamOnlyWritten ==
    /\ v.verb # "RAM_WRITE" => codec'.exram = codec.exram
    /\ v.verb # "RAM_HIGH" => codec'.placed = codec.placed
    /\ v.verb = "RAM_LOW" => codec'.ramAddr = <<v.data, codec.ramAddr[2]>>
    /\ v.verb = "RAM_HIGH" => codec'.ramAddr = <<codec.ramAddr[1], v.data>> /\ codec'.placed = TRUE
    /\ v.verb = "RAM_WRITE" =>
          /\ codec'.ramAddr = NextRamAddr(codec.ramAddr)
          /\ codec'.exram = IF codec.placed
                            THEN [codec.exram EXCEPT ![Number(codec.ramAddr)] = v.data]
                            ELSE codec.exram
    /\ v.verb \in {"RAM_READ", "PLL_WRITE"} => codec'.ramAddr = codec.ramAddr

SetsOnlySet ==
    /\ codec'.params =
          CASE v.verb = "PARAM_VALUE" -> [codec.params EXCEPT ![codec.id] = v.data]
            [] v.verb = "PARAM_SET"   -> [codec.params EXCEPT ![v.data % 32] = v.data \div 32]
            [] OTHER -> codec.params
    /\ codec'.flags =
          IF v.verb = "FLAG_SET" THEN [codec.flags EXCEPT ![v.data % 128] = v.data \div 128]
                                 ELSE codec.flags
    /\ codec'.id = IF v.verb = "PARAM_ID" THEN v.data ELSE codec.id

HicOnlyAimed ==
    /\ v.verb = "ADDRESS_LOW" => codec'.hicAddr = <<v.data, codec.hicAddr[2]>>
    /\ v.verb = "ADDRESS_HIGH" => codec'.hicAddr = <<codec.hicAddr[1], v.data>>
    /\ v.verb \notin {"ADDRESS_LOW", "ADDRESS_HIGH"} => codec'.hicAddr = codec.hicAddr
    /\ codec'.hicLow = IF v.verb = "DATA_LOW" THEN v.data ELSE codec.hicLow
    /\ codec'.aimed = IF v.verb = "ADDRESS_HIGH" THEN TRUE
                      ELSE IF v.verb \in {"DATA_HIGH", "HIC_POST_READ"} THEN FALSE ELSE codec.aimed
    /\ codec'.stored = IF v.verb = "DATA_HIGH" /\ codec.aimed
                       THEN codec.stored \cup {<<codec.hicAddr, <<codec.hicLow, v.data>>>>}
                       ELSE codec.stored

LEMMA ChipEffects ==
    ASSUME Shapes, codec' = ChipTakes(codec, v)
    PROVE  RamOnlyWritten /\ SetsOnlySet /\ HicOnlyAimed
  <1>1. RamOnlyWritten
    BY DEF ChipTakes, RamOnlyWritten, Shapes
  <1>2. SetsOnlySet
    BY DEF ChipTakes, SetsOnlySet, Shapes
  <1>3. HicOnlyAimed
    BY DEF ChipTakes, HicOnlyAimed, Shapes
  <1> QED BY <1>1, <1>2, <1>3

LEMMA FileOrder ==
    ASSUME Position, Forward
    PROVE  /\ pos + 1 \in DOMAIN file /\ v = file[pos + 1] /\ pos \in Nat /\ pos + 1 - 1 = pos
           /\ HicInOrder(file) /\ RamInOrder(file) /\ SettingsInOrder(file)
  <1>1. file \in Files
    BY DEF Position
  <1> QED BY <1>1, FileFrames DEF Forward

LEMMA RamVerb ==
    ASSUME Position, Forward, ToChip(RamVerbs)
    PROVE  /\ v.ok /\ v.data \in Byte /\ v.codec = mainCodec /\ v.node = "chip"
           /\ v.verb = "RAM_HIGH" => \E h \in 1 .. pos : LastOf(file, mainCodec, RamVerbs, h, pos)
                                                       /\ file[h].verb = "RAM_LOW"
           /\ v.verb = "RAM_WRITE" =>
                 \/ NoneOf(file, mainCodec, RamVerbs, pos)
                 \/ \E h \in 1 .. pos : /\ LastOf(file, mainCodec, RamVerbs, h, pos)
                                        /\ file[h].verb \in {"RAM_HIGH", "RAM_WRITE"}
           /\ v.verb = "RAM_READ" =>
                 \A h \in 1 .. pos :
                    LastOf(file, mainCodec, RamVerbs, h, pos) /\ file[h].verb = "RAM_LOW" =>
                        \A g \in 1 .. h - 1 :
                           LastOf(file, mainCodec, RamVerbs, g, h - 1) => file[g].verb \notin Aiming
  <1>1. IsChip(file[pos + 1], mainCodec, RamVerbs) /\ mainCodec = file[pos + 1].codec
    BY ToChipIsChip, FileOrder DEF ToChip
  <1>2. v.ok /\ v.data \in Byte
    BY <1>1, FileOrder DEF RamInOrder, Byte
  <1>3. v.verb = "RAM_HIGH" =>
           \E h \in 1 .. pos : LastOf(file, mainCodec, RamVerbs, h, pos) /\ file[h].verb = "RAM_LOW"
    BY <1>1, FileOrder DEF RamInOrder
  <1>4. v.verb = "RAM_WRITE" =>
           \/ NoneOf(file, mainCodec, RamVerbs, pos)
           \/ \E h \in 1 .. pos : /\ LastOf(file, mainCodec, RamVerbs, h, pos)
                                  /\ file[h].verb \in {"RAM_HIGH", "RAM_WRITE"}
    BY <1>1, FileOrder DEF RamInOrder
  <1>5. v.verb = "RAM_READ" =>
           \A h \in 1 .. pos :
              LastOf(file, mainCodec, RamVerbs, h, pos) /\ file[h].verb = "RAM_LOW" =>
                  \A g \in 1 .. h - 1 :
                     LastOf(file, mainCodec, RamVerbs, g, h - 1) => file[g].verb \notin Aiming
    BY <1>1, FileOrder DEF RamInOrder
  <1> QED BY <1>2, <1>3, <1>4, <1>5 DEF ToChip

LEMMA ShapesStep ==
    ASSUME Position, Shapes, RunInv, DumpNext
    PROVE  Shapes'
  <1>1. CASE Counts \/ Rewinds
    BY <1>1 DEF Counts, Rewinds, gathered, Shapes
  <1>2. CASE Decodes
    <2>1. DOMAIN hic' = DOMAIN NoHic
      <3>1. CASE HicWrite
        BY <3>1, HicAfterVerb DEF HicWrite, HicFresh, HicVerbs, Shapes, ToChip
      <3>2. CASE HicPostRead \/ HicRead
        BY <3>2 DEF HicPostRead, HicRead, Shapes
      <3>3. CASE ~(HicWrite \/ HicPostRead \/ HicRead)
        <4>1. ~ToChip(HicCallVerbs)
          BY <1>2, <3>3, ActionOfVerb DEF ToChip, HicCallVerbs, HicVerbs
        <4> QED BY <1>2, <4>1, KeptApart DEF Shapes
      <3> QED BY <3>1, <3>2, <3>3
    <2>2. DOMAIN ram' = DOMAIN NoRam
      <3>1. CASE RamLow \/ RamHigh \/ RamWrite \/ PllWrite \/ RamRead
        BY <1>2, <3>1 DEF Decodes, RamLow, RamHigh, RamWrite, KeepByte, PllWrite, RamRead,
                          AfterRamRead, Ended, Shapes
      <3>2. CASE ~(RamLow \/ RamHigh \/ RamWrite \/ PllWrite \/ RamRead)
        <4>1. ~ToChip(RamVerbs)
          BY <1>2, <3>2, ActionOfVerb DEF ToChip, RamVerbs
        <4> QED BY <1>2, <4>1, KeptApart DEF Shapes
      <3> QED BY <3>1, <3>2
    <2>3. DOMAIN param' = {"set", "id", "start"}
      <3>1. CASE ParamId \/ ParamValue
        BY <3>1 DEF ParamId, ParamValue, Shapes
      <3>2. CASE ~(ParamId \/ ParamValue)
        <4>1. ~ToChip(IdVerbs)
          BY <1>2, <3>2, ActionOfVerb DEF ToChip, IdVerbs
        <4> QED BY <1>2, <4>1, KeptApart DEF Shapes
      <3> QED BY <3>1, <3>2
    <2>4. DOMAIN dsp' = DOMAIN NoDsp
      <3>1. ASSUME NEW d, DOMAIN d = DOMAIN NoDsp
            PROVE  /\ DOMAIN ScpCheck(d).dsp = DOMAIN NoDsp
                   /\ DOMAIN OneRead(d).dsp = DOMAIN NoDsp
                   /\ DOMAIN OnePost(d).dsp = DOMAIN NoDsp
        <4>1. ASSUME NEW e, DOMAIN e = DOMAIN NoDsp PROVE DOMAIN ScpCheck(e).dsp = DOMAIN NoDsp
          BY <4>1, CheckLines
        <4> QED BY <3>1, <4>1 DEF OneRead, OnePost
      <3>2. DOMAIN dsp = DOMAIN NoDsp
        BY DEF Shapes
      <3>3. CASE ScpWord
        <4>1. DOMAIN ScpLow.dsp = DOMAIN NoDsp /\ DOMAIN ScpHigh.dsp = DOMAIN NoDsp
          BY <3>2 DEF ScpLow, ScpHigh, Gathered, NewHeader
        <4> QED BY <3>1, <3>3, <4>1 DEF ScpWord
      <3>4. CASE ScpAnswer
        BY <3>1, <3>2, <3>4 DEF ScpAnswer
      <3>5. CASE ~(ScpWord \/ ScpAnswer)
        BY <1>2, <3>2, <3>5, KeptApart
      <3> QED BY <3>3, <3>4, <3>5
    <2>5. codec' = codec =>
             /\ DOMAIN codec' = DOMAIN codec /\ DOMAIN codec'.exram = RamAddr
             /\ DOMAIN codec'.params = ParamIds /\ DOMAIN codec'.flags = FlagIds
             /\ codec'.ramAddr \in Byte \X Byte
      BY DEF Shapes
    <2>6. ASSUME Forward
          PROVE  /\ DOMAIN codec' = DOMAIN codec /\ DOMAIN codec'.exram = RamAddr
                 /\ DOMAIN codec'.params = ParamIds /\ DOMAIN codec'.flags = FlagIds
                 /\ codec'.ramAddr \in Byte \X Byte
      <3>1. CodecTakes(v)
        BY <2>6 DEF Forward
      <3>2. DOMAIN codec' = DOMAIN codec
        BY <3>1 DEF CodecTakes, DspTakes, ChipTakes
      <3>3. DOMAIN codec'.exram = RamAddr
        <4>1. CASE SameRam
          BY <4>1 DEF SameRam, Shapes
        <4>2. CASE codec' = ChipTakes(codec, v)
          <5>1. codec'.exram \in {codec.exram, [codec.exram EXCEPT ![Number(codec.ramAddr)] = v.data]}
            BY <4>2, ChipEffects DEF RamOnlyWritten
          <5> QED BY <5>1 DEF Shapes
        <4>3. CASE codec' = codec
          BY <4>3 DEF Shapes
        <4> QED BY <3>1, <4>1, <4>2, <4>3, CodecSteps, CodecKeeps DEF ToChip, ToDsp
      <3>4. DOMAIN codec'.params = ParamIds /\ DOMAIN codec'.flags = FlagIds
        <4>1. CASE SameSets
          BY <4>1 DEF SameSets, Shapes
        <4>2. CASE codec' = ChipTakes(codec, v)
          <5>1. /\ codec'.params \in {codec.params, [codec.params EXCEPT ![codec.id] = v.data],
                                     [codec.params EXCEPT ![v.data % 32] = v.data \div 32]}
                /\ codec'.flags \in {codec.flags, [codec.flags EXCEPT ![v.data % 128] = v.data \div 128]}
            BY <4>2, ChipEffects DEF SetsOnlySet
          <5> QED BY <5>1 DEF Shapes
        <4>3. CASE codec' = codec
          BY <4>3 DEF Shapes
        <4> QED BY <3>1, <4>1, <4>2, <4>3, CodecSteps, CodecKeeps DEF ToChip, ToDsp
      <3>5. codec'.ramAddr \in Byte \X Byte
        <4>1. CASE ~ToChip(RamVerbs)
          BY <3>1, <4>1, CodecKeeps DEF SameRam, Shapes
        <4>2. CASE ToChip(RamVerbs)
          <5>1. v.data \in Byte /\ codec' = ChipTakes(codec, v)
            BY <2>6, <3>1, <4>2, RamVerb, CodecSteps
          <5>2. codec.ramAddr \in Byte \X Byte /\ NextRamAddr(codec.ramAddr) \in Byte \X Byte
            BY NextByte DEF Shapes
          <5>3. codec'.ramAddr \in {codec.ramAddr, <<v.data, codec.ramAddr[2]>>,
                                    <<codec.ramAddr[1], v.data>>, NextRamAddr(codec.ramAddr)}
            BY <4>2, <5>1, ChipEffects DEF RamOnlyWritten, ToChip, RamVerbs
          <5> QED BY <5>1, <5>2, <5>3
        <4> QED BY <4>1, <4>2
      <3> QED BY <3>2, <3>3, <3>4, <3>5
    <2>7. Forward \/ codec' = codec
      BY <1>2, StepKinds DEF Last, Counts, Rewinds
    <2> QED BY <2>1, <2>2, <2>3, <2>4, <2>5, <2>6, <2>7 DEF Shapes
  <1> QED BY <1>1, <1>2, StepKinds DEF Forward, Last

-----------------------------------------------------------------------------
(***************************************************************************)
(* Transfers on the HIC bus.                                               *)
(***************************************************************************)
LEMMA LinesStay ==
    ASSUME Grew, NEW k, NEW n \in Lines(k)
    PROVE  n \in DOMAIN shown /\ n \in Lines(k)' /\ shown'[n] = shown[n]
  BY DEF Lines, Grew

LEMMA NewIsLine ==
    ASSUME Grew, NEW n \in New, NEW k, shown'[n].kind = k
    PROVE  n \in DOMAIN shown' /\ n \in Lines(k)'
  <1>1. n \in DOMAIN shown'
    BY DEF Grew, New
  <1> QED BY <1>1 DEF Lines

LEMMA OldOrNew ==
    ASSUME Grew, NEW n \in DOMAIN shown'
    PROVE  n \in DOMAIN shown \/ n \in New
  BY DEF Grew, New

LEMMA FrameTaken ==
    ASSUME Shapes, Forward, v.codec = mainCodec, v.node = "chip"
    PROVE  /\ v.ok => RamOnlyWritten /\ SetsOnlySet /\ HicOnlyAimed
           /\ ~v.ok => codec' = codec
  <1>1. CodecTakes(v) /\ ~ToDsp
    BY DEF Forward, ToDsp
  <1> QED BY <1>1, CodecSteps, ChipEffects

LEMMA OrOnce ==
    ASSUME NEW a \in HalfWord
    PROVE  BitOr(0, a) = a /\ BitOr(a, a) = a
  BY BitOrAssumption

HicHalves(h) ==
    /\ v.verb = "ADDRESS_LOW" =>
          h.low = TRUE /\ h.high = FALSE /\ h.dataLow = FALSE /\ h.dataHigh = FALSE
          /\ h.addr = <<v.data, 0>>
    /\ v.verb = "ADDRESS_HIGH" =>
          /\ h.low = hic.low /\ h.high = TRUE /\ h.dataLow = hic.dataLow
          /\ h.dataHigh = hic.dataHigh /\ h.addr = <<hic.addr[1], BitOr(hic.addr[2], v.data)>>
    /\ v.verb = "DATA_LOW" =>
          /\ h.low = hic.low /\ h.high = hic.high /\ h.dataLow = TRUE
          /\ h.dataHigh = hic.dataHigh /\ h.addr = hic.addr /\ h.data = <<v.data, 0>>
    /\ v.verb = "DATA_HIGH" =>
          /\ h.low = hic.low /\ h.high = hic.high /\ h.dataLow = hic.dataLow
          /\ h.dataHigh = TRUE /\ h.addr = hic.addr
          /\ h.data = <<hic.data[1], BitOr(hic.data[2], v.data)>>

LEMMA HicFields ==
    ASSUME Shapes, NEW h, h = HicAfter[v.verb]
    PROVE  HicHalves(h)
  <1> USE HicAfterVerb DEF Shapes, HicFresh, NoHic
  <1>1. CASE v.verb = "ADDRESS_LOW"
    BY <1>1 DEF HicHalves
  <1>2. CASE v.verb = "ADDRESS_HIGH"
    BY <1>2 DEF HicHalves
  <1>3. CASE v.verb = "DATA_LOW"
    <2>1. h = [hic EXCEPT !.data = <<v.data, 0>>, !.dataLow = TRUE]
      BY <1>3
    <2> QED BY <1>3, <2>1 DEF HicHalves
  <1>4. CASE v.verb = "DATA_HIGH"
    <2>1. h = [hic EXCEPT !.data = <<@[1], BitOr(@[2], v.data)>>, !.dataHigh = TRUE]
      BY <1>4
    <2> QED BY <1>4, <2>1 DEF HicHalves
  <1> QED BY <1>1, <1>2, <1>3, <1>4 DEF HicHalves

(* The verb before this one, and what was kept then.                       *)
LEMMA HicBefore ==
    ASSUME Position, HicInv, Forward, ToChip(HicCallVerbs)
    PROVE  \/ ~hic.low /\ ~codec.aimed /\ v.verb # "ADDRESS_HIGH"
           \/ \E x \in Frame : x.verb \in HicCallVerbs /\ HicAsSent(x) /\ HicFollows(x, v)
  <1>1. IsChip(file[pos + 1], mainCodec, HicCallVerbs) /\ mainCodec = file[pos + 1].codec
    BY ToChipIsChip, FileOrder DEF ToChip
  <1>2. \/ NoneOf(file, mainCodec, HicCallVerbs, pos) /\ v.verb # "ADDRESS_HIGH"
        \/ \E h \in 1 .. pos : LastOf(file, mainCodec, HicCallVerbs, h, pos) /\ HicFollows(file[h], v)
    BY <1>1, FileOrder DEF HicInOrder
  <1>3. Decoding /\ pos \in Nat
    BY DEF Forward, Decoding
  <1>4. CASE NoneOf(file, mainCodec, HicCallVerbs, pos) /\ ~hic.low /\ ~codec.aimed
    BY <1>2, <1>3, <1>4, LastOrNone
  <1>5. ASSUME NEW h \in 1 .. pos, LastOf(file, mainCodec, HicCallVerbs, h, pos), HicAsSent(file[h])
        PROVE  \E x \in Frame : x.verb \in HicCallVerbs /\ HicAsSent(x) /\ HicFollows(x, v)
    <2>1. HicFollows(file[h], v)
      BY <1>2, <1>3, <1>5, LastOrNone, OneLast
    <2>2. file[h].verb \in HicCallVerbs
      BY <1>5 DEF LastOf, IsChip
    <2>3. file[h] \in Frame
      <3>1. h \in 1 .. Len(file)
        BY <1>3 DEF Forward, Position
      <3> QED BY <3>1, FileFrames DEF Position
    <2> QED BY <1>5, <2>1, <2>2, <2>3
  <1> QED BY <1>3, <1>4, <1>5 DEF HicInv

(* What each verb leaves.                                                  *)
LEMMA HicSent ==
    ASSUME Position, Shapes, HicInv, Forward, ToChip(HicCallVerbs), NEW x, x = v
    PROVE  HicAsSent(x)'
  <1>1. \/ ~hic.low /\ ~codec.aimed /\ v.verb # "ADDRESS_HIGH"
        \/ \E y \in Frame : y.verb \in HicCallVerbs /\ HicAsSent(y) /\ HicFollows(y, v)
    BY HicBefore
  <1>2. Decodes /\ v \in Frame /\ v.codec = mainCodec /\ v.node = "chip" /\ IsSeq(shown)
    BY DEF Forward, ToChip, Position
  <1>3. (v.ok => HicOnlyAimed) /\ (~v.ok => SameHic)
    BY <1>2, FrameTaken DEF SameHic
  <1>4. v.data \in HalfWord /\ BitOr(0, v.data) = v.data /\ BitOr(v.data, v.data) = v.data
    BY <1>2, OrOnce DEF Frame
  <1>5. CASE v.verb = "ADDRESS_LOW"
    <2>1. PICK h : h = HicAfter[v.verb]
      OBVIOUS
    <2>2. HicHalves(h)
      BY <2>1, HicFields
    <2>3. hic' = h
      BY <1>2, <1>5, <2>1, <2>2, ActionOfVerb, HicWriteLines DEF ToChip, HicVerbs, HicDone, HicHalves
    <2> QED BY <1>3, <1>5, <2>2, <2>3 DEF HicAsSent, HicHalves, HicOnlyAimed
  <1>6. CASE v.verb = "ADDRESS_HIGH"
    <2>1. PICK h : h = HicAfter[v.verb]
      OBVIOUS
    <2>2. HicHalves(h)
      BY <2>1, HicFields
    <2>3. PICK y \in Frame : y.verb \in HicCallVerbs /\ HicAsSent(y) /\ HicFollows(y, v)
      BY <1>1, <1>6
    <2>4. \/ y.verb = "ADDRESS_LOW" /\ y.ok
          \/ y.verb = "ADDRESS_HIGH" /\ ~y.ok /\ y.data = v.data
      BY <1>6, <2>3 DEF HicFollows, HicOrder
    <2>5. /\ hic.low /\ ~hic.dataLow /\ ~hic.dataHigh
          /\ <<hic.addr[1], BitOr(hic.addr[2], v.data)>> = <<codec.hicAddr[1], v.data>>
      BY <1>4, <2>3, <2>4 DEF HicAsSent
    <2>6. hic' = h
      BY <1>2, <1>6, <2>1, <2>2, <2>5, ActionOfVerb, HicWriteLines
         DEF ToChip, HicVerbs, HicDone, HicHalves
    <2>7. /\ hic'.low /\ hic'.high /\ ~hic'.dataLow /\ ~hic'.dataHigh
          /\ hic'.addr = <<codec.hicAddr[1], v.data>>
      BY <1>6, <2>2, <2>5, <2>6 DEF HicHalves
    <2>8. codec'.hicAddr[1] = codec.hicAddr[1] /\ (v.ok => codec'.hicAddr = hic'.addr)
      <3>1. v.ok => codec'.hicAddr = <<codec.hicAddr[1], v.data>>
        BY <1>3, <1>6 DEF HicOnlyAimed
      <3>2. ~v.ok => codec'.hicAddr = codec.hicAddr
        BY <1>3 DEF SameHic
      <3> QED BY <2>7, <3>1, <3>2
    <2> QED BY <1>6, <2>7, <2>8 DEF HicAsSent
  <1>7. CASE v.verb = "DATA_LOW"
    <2>1. PICK h : h = HicAfter[v.verb]
      OBVIOUS
    <2>2. HicHalves(h)
      BY <2>1, HicFields
    <2>3. /\ hic.low => hic.high /\ ~hic.dataHigh /\ hic.addr = codec.hicAddr
          /\ ~hic.low => ~codec.aimed
      <3>1. ASSUME NEW y \in Frame, y.verb \in HicCallVerbs, HicAsSent(y), HicFollows(y, v)
            PROVE  /\ hic.low => hic.high /\ ~hic.dataHigh /\ hic.addr = codec.hicAddr
                   /\ ~hic.low => ~codec.aimed
        <4>1. \/ y.verb \in {"ADDRESS_HIGH", "DATA_HIGH", "HIC_READ_DATA"} /\ y.ok
              \/ y.verb = "DATA_LOW"
          BY <1>7, <3>1 DEF HicFollows, HicOrder
        <4> QED BY <3>1, <4>1 DEF HicAsSent
      <3> QED BY <1>1, <3>1
    <2>4. hic' = h
      BY <1>2, <1>7, <2>1, <2>2, <2>3, ActionOfVerb, HicWriteLines
         DEF ToChip, HicVerbs, HicDone, HicHalves
    <2> QED BY <1>3, <1>7, <2>2, <2>3, <2>4 DEF HicAsSent, HicHalves, HicOnlyAimed, SameHic
  <1>8. CASE v.verb = "DATA_HIGH"
    <2>1. PICK h : h = HicAfter[v.verb]
      OBVIOUS
    <2>2. HicHalves(h)
      BY <2>1, HicFields
    <2>3. ASSUME NEW y \in Frame, y.verb \in HicCallVerbs, HicAsSent(y), HicFollows(y, v)
          PROVE  \/ y.verb = "DATA_LOW" /\ y.ok
                 \/ y.verb = "DATA_HIGH" /\ ~y.ok /\ y.data = v.data
      BY <1>8, <2>3 DEF HicFollows, HicOrder
    <2>4. hic.low => HicDone(h)
      BY <1>1, <1>8, <2>2, <2>3 DEF HicAsSent, HicHalves, HicDone
    <2>5. ~hic'.low
      BY <1>2, <1>8, <2>1, <2>2, <2>4, ActionOfVerb, HicWriteLines
         DEF ToChip, HicVerbs, HicHalves, HicDone, NoHic
    <2>6. CASE v.ok \/ ~codec.aimed
      BY <1>3, <1>8, <2>5, <2>6 DEF HicAsSent, HicOnlyAimed, SameHic
    <2>7. CASE ~v.ok /\ codec.aimed
      <3>1. PICK y \in Frame : y.verb \in HicCallVerbs /\ HicAsSent(y) /\ HicFollows(y, v)
        BY <1>1, <2>7
      <3>2. \E n \in Lines("hicWrite")' :
               <<shown'[n].addr, shown'[n].data>> = <<codec.hicAddr, <<codec.hicLow, v.data>>>>
        <4>1. CASE y.verb = "DATA_LOW" /\ y.ok
          <5>1. hic.low /\ HicDone(h) /\ h.addr = codec.hicAddr /\ h.data = <<codec.hicLow, v.data>>
            BY <1>4, <1>8, <2>2, <2>4, <2>7, <3>1, <4>1 DEF HicAsSent, HicHalves
          <5>2. Grew /\ Len(shown) + 1 \in New /\ shown'[Len(shown) + 1] = HicLine(h)
            BY <1>2, <1>8, <2>1, <5>1, ActionOfVerb, HicWriteLines DEF ToChip, HicVerbs
          <5>3. shown'[Len(shown) + 1].kind = "hicWrite"
            BY <5>2 DEF HicLine
          <5>4. Len(shown) + 1 \in Lines("hicWrite")'
            BY <5>2, <5>3, NewIsLine
          <5> QED BY <5>1, <5>2, <5>4 DEF HicLine
        <4>2. CASE y.verb = "DATA_HIGH" /\ ~y.ok /\ y.data = v.data
          <5>1. PICK n \in Lines("hicWrite") :
                   <<shown[n].addr, shown[n].data>> = <<codec.hicAddr, <<codec.hicLow, v.data>>>>
            BY <2>7, <3>1, <4>2 DEF HicAsSent
          <5>2. Grew
            BY <1>2, LinesOfActions
          <5> QED BY <5>1, <5>2, LinesStay
        <4> QED BY <2>3, <3>1, <4>1, <4>2
      <3> QED BY <1>3, <1>8, <2>5, <2>7, <3>2 DEF HicAsSent, SameHic
    <2> QED BY <2>6, <2>7
  <1>9. CASE v.verb = "HIC_POST_READ"
    <2>1. HicPostRead
      BY <1>2, <1>9, ActionOfVerb DEF ToChip
    <2>2. hic.low => hic.high /\ hic.addr = codec.hicAddr
      <3>1. ASSUME NEW y \in Frame, y.verb \in HicCallVerbs, HicAsSent(y), HicFollows(y, v)
            PROVE  hic.low => hic.high /\ hic.addr = codec.hicAddr
        <4>1. \/ y.verb \in {"ADDRESS_HIGH", "DATA_HIGH", "HIC_READ_DATA"} /\ y.ok
              \/ y.verb = "HIC_POST_READ"
          BY <1>9, <3>1 DEF HicFollows, HicOrder
        <4> QED BY <3>1, <4>1 DEF HicAsSent
      <3> QED BY <1>1, <3>1
    <2>3. /\ hic'.low = hic.low /\ hic'.high = hic.high /\ hic'.addr = hic.addr
          /\ hic.low /\ hic.high => hic'.read
      BY <2>1 DEF HicPostRead, Shapes, NoHic
    <2> QED BY <1>3, <1>9, <2>2, <2>3 DEF HicAsSent, HicOnlyAimed, SameHic
  <1>10. CASE v.verb = "HIC_READ_DATA"
    <2>1. HicRead
      BY <1>2, <1>10, ActionOfVerb DEF ToChip
    <2>2. ~codec.aimed /\ (hic.low => hic.high /\ hic.read)
      <3>1. ASSUME NEW y \in Frame, y.verb \in HicCallVerbs, HicAsSent(y), HicFollows(y, v)
            PROVE  ~codec.aimed /\ (hic.low => hic.high /\ hic.read)
        <4>1. (y.verb = "HIC_POST_READ" /\ y.ok) \/ y.verb = "HIC_READ_DATA"
          BY <1>10, <3>1 DEF HicFollows, HicOrder
        <4> QED BY <3>1, <4>1 DEF HicAsSent
      <3> QED BY <1>1, <3>1
    <2>3. ~hic'.low
      BY <1>2, <2>1, <2>2, HicReadLines DEF NoHic
    <2> QED BY <1>3, <1>10, <2>2, <2>3 DEF HicAsSent, HicOnlyAimed, SameHic
  <1> QED BY <1>5, <1>6, <1>7, <1>8, <1>9, <1>10 DEF ToChip, HicCallVerbs, HicVerbs

LEMMA HicStep ==
    ASSUME Position, Shapes, HicInv, Forward
    PROVE  HicInv'
  <1>1. /\ file' = file /\ mainCodec' = mainCodec /\ pos' = pos + 1 /\ pos \in Nat /\ Decoding
        /\ Decodes /\ CodecTakes(v) /\ v = file[pos + 1]
    BY DEF Forward, Decoding
  <1>2. CASE ToChip(HicCallVerbs)
    <2>1. PICK x : x = v
      OBVIOUS
    <2>2. HicAsSent(x)'
      BY <1>2, <2>1, HicSent
    <2>3. pos + 1 \in 1 .. pos + 1 /\ LastOf(file, mainCodec, HicCallVerbs, pos + 1, pos + 1)
      BY <1>1, <1>2, ToChipIsChip, LastIsNew
    <2>4. ASSUME NEW h, h = pos + 1
          PROVE  h \in 1 .. pos' /\ LastOf(file', mainCodec', HicCallVerbs, h, pos')
                 /\ file'[h] = x
      BY <1>1, <2>1, <2>3, <2>4
    <2> QED BY <2>2, <2>4 DEF HicInv
  <1>3. CASE ~ToChip(HicCallVerbs)
    <2>1. hic' = hic /\ SameHic /\ Grew
      BY <1>1, <1>3, KeptApart, CodecKeeps, LinesOfActions DEF Position
    <2>2. ASSUME NEW x, HicAsSent(x) PROVE HicAsSent(x)'
      <3>1. ASSUME NEW w, \E n \in Lines("hicWrite") : <<shown[n].addr, shown[n].data>> = w
            PROVE  \E n \in Lines("hicWrite")' : <<shown'[n].addr, shown'[n].data>> = w
        BY <2>1, <3>1, LinesStay
      <3> QED BY <2>1, <2>2, <3>1 DEF HicAsSent, SameHic
    <2>3. /\ NoneOf(file, mainCodec, HicCallVerbs, pos) => NoneOf(file', mainCodec', HicCallVerbs, pos')
          /\ \A h \in 1 .. pos : LastOf(file, mainCodec, HicCallVerbs, h, pos) =>
                h \in 1 .. pos' /\ LastOf(file', mainCodec', HicCallVerbs, h, pos')
      BY <1>1, <1>3, ToChipIsChip, LastStays
    <2>4. ASSUME NEW h \in 1 .. pos, LastOf(file, mainCodec, HicCallVerbs, h, pos), HicAsSent(file[h])
          PROVE  HicInv'
      <3>1. PICK x : x = file[h]
        OBVIOUS
      <3>2. HicAsSent(x)'
        BY <2>2, <2>4, <3>1
      <3> QED BY <1>1, <2>3, <2>4, <3>1, <3>2 DEF HicInv
    <2>5. CASE NoneOf(file, mainCodec, HicCallVerbs, pos) /\ ~hic.low /\ ~codec.aimed
      BY <2>1, <2>3, <2>5 DEF HicInv, SameHic
    <2> QED BY <1>1, <2>4, <2>5 DEF HicInv
  <1> QED BY <1>2, <1>3

-----------------------------------------------------------------------------
(***************************************************************************)
(* Accesses to exram.                                                      *)
(***************************************************************************)
LEMMA Modulo ==
    ASSUME NEW a \in Nat
    PROVE  /\ ((a % 65536) + 1) % 65536 = (a + 1) % 65536
           /\ a < 65536 => a % 65536 = a
  OBVIOUS

LEMMA NextByteUp ==
    ASSUME NEW x \in 0 .. 255
    PROVE  /\ x < 255 => (x + 1) % 256 = x + 1 /\ (x + 1) \div 256 = 0
           /\ x = 255 => (x + 1) % 256 = 0 /\ (x + 1) \div 256 = 1
           /\ (x + 0) % 256 = x /\ (x < 255 \/ x = 255) /\ x \in Nat
  OBVIOUS

LEMMA TwoBytes ==
    ASSUME NEW x \in 0 .. 255, NEW y \in 0 .. 255
    PROVE  ((x + 1) % 256) + 256 * ((y + (x + 1) \div 256) % 256) = (x + 256 * y + 1) % 65536
  <1>1. CASE x < 255
    <2>1. (x + 1) % 256 = x + 1 /\ (y + (x + 1) \div 256) % 256 = y
      <3>1. (x + 1) % 256 = x + 1 /\ (x + 1) \div 256 = 0
        BY <1>1, NextByteUp
      <3>2. (y + 0) % 256 = y
        BY NextByteUp
      <3> QED BY <3>1, <3>2
    <2>2. x + 256 * y + 1 \in Nat /\ x + 256 * y + 1 < 65536 /\ x + 1 + 256 * y = x + 256 * y + 1
      BY <1>1
    <2>3. (x + 256 * y + 1) % 65536 = x + 256 * y + 1
      BY <2>2, Modulo
    <2> QED BY <2>1, <2>2, <2>3
  <1>2. CASE x = 255 /\ y < 255
    <2>1. (x + 1) % 256 = 0 /\ (y + (x + 1) \div 256) % 256 = y + 1
      <3>1. (x + 1) % 256 = 0 /\ (x + 1) \div 256 = 1
        BY <1>2, NextByteUp
      <3>2. (y + 1) % 256 = y + 1
        BY <1>2, NextByteUp
      <3> QED BY <3>1, <3>2
    <2>2. /\ x + 256 * y + 1 \in Nat /\ x + 256 * y + 1 < 65536
          /\ 0 + 256 * (y + 1) = x + 256 * y + 1
      BY <1>2
    <2>3. (x + 256 * y + 1) % 65536 = x + 256 * y + 1
      BY <2>2, Modulo
    <2> QED BY <2>1, <2>2, <2>3
  <1>3. CASE x = 255 /\ y = 255
    BY <1>3
  <1>4. (x < 255 \/ x = 255) /\ (y < 255 \/ y = 255)
    BY NextByteUp
  <1> QED BY <1>1, <1>2, <1>3, <1>4

LEMMA NumberRange ==
    ASSUME NEW a \in Byte \X Byte
    PROVE  Number(a) \in Nat /\ Number(a) < 65536
  <1>1. PICK x \in 0 .. 255, y \in 0 .. 255 : x = a[1] /\ y = a[2]
    BY DEF Byte
  <1>2. Number(a) = x + 256 * y
    BY <1>1 DEF Number
  <1>3. x + 256 * y \in Nat /\ x + 256 * y < 65536
    BY <1>1
  <1> QED BY <1>2, <1>3

LEMMA NumberOfNext ==
    ASSUME NEW a \in Byte \X Byte
    PROVE  Number(NextRamAddr(a)) = (Number(a) + 1) % 65536
  <1>1. PICK x \in 0 .. 255, y \in 0 .. 255 : x = a[1] /\ y = a[2]
    BY DEF Byte
  <1>2. Number(a) = x + 256 * y
    BY <1>1 DEF Number
  <1>3. Number(NextRamAddr(a)) = ((x + 1) % 256) + 256 * ((y + (x + 1) \div 256) % 256)
    BY <1>1 DEF NextRamAddr, Number
  <1> QED BY <1>2, <1>3, TwoBytes

LEMMA PlaceOfNext ==
    ASSUME NEW a \in Byte \X Byte, NEW b \in Byte \X Byte, NEW k \in Nat \ {0},
           Number(b) = Place(a, k)
    PROVE  Number(NextRamAddr(b)) = Place(a, k + 1)
  <1>0. ASSUME NEW n \in Nat PROVE n + k - 1 \in Nat /\ n + (k + 1) - 1 = n + k - 1 + 1
    OBVIOUS
  <1>1. Number(a) \in Nat
    BY NumberRange
  <1>2. Number(a) + k - 1 \in Nat /\ Number(a) + (k + 1) - 1 = Number(a) + k - 1 + 1
    BY <1>0, <1>1
  <1>3. Number(NextRamAddr(b)) = (((Number(a) + k - 1) % 65536) + 1) % 65536
    BY NumberOfNext DEF Place
  <1> QED BY <1>2, <1>3, Modulo DEF Place

LEMMA FirstPlace ==
    ASSUME NEW a \in Byte \X Byte
    PROVE  Place(a, 1) = Number(a)
  <1>0. ASSUME NEW n \in Nat PROVE n + 1 - 1 = n
    OBVIOUS
  <1>1. Number(a) \in Nat /\ Number(a) < 65536 /\ Number(a) + 1 - 1 = Number(a)
    BY <1>0, NumberRange
  <1> QED BY <1>1, Modulo DEF Place

LEMMA AppendByte ==
    ASSUME NEW r, IsSeq(r), NEW b
    PROVE  /\ IsSeq(Append(r, b)) /\ Append(r, b) # <<>>
           /\ Len(r) \in Nat /\ DOMAIN r = 1 .. Len(r) /\ Len(Append(r, b)) = Len(r) + 1
           /\ DOMAIN Append(r, b) = 1 .. Len(r) + 1
           /\ \A k \in DOMAIN r : Append(r, b)[k] = r[k]
           /\ Append(r, b)[Len(r) + 1] = b
  <1>1. PICK S : r \in Seq(S)
    BY DEF IsSeq
  <1> DEFINE T == S \cup {b}
  <1>2. r \in Seq(T) /\ b \in T
    BY <1>1
  <1>3. /\ Append(r, b) \in Seq(T) /\ Len(r) \in Nat /\ DOMAIN r = 1 .. Len(r)
        /\ Len(Append(r, b)) = Len(r) + 1 /\ DOMAIN Append(r, b) = 1 .. Len(r) + 1
        /\ \A k \in DOMAIN r : Append(r, b)[k] = r[k]
        /\ Append(r, b)[Len(r) + 1] = b
    BY <1>2
  <1>4. Append(r, b) # <<>>
    BY <1>3
  <1> QED BY <1>3, <1>4 DEF IsSeq

LEMMA NoBytes ==
    /\ IsSeq(<<>>) /\ Len(<<>>) = 0 /\ DOMAIN <<>> = {}
    /\ \A b : Append(<<>>, b) = <<b>> /\ Len(<<b>>) = 1 /\ <<b>> # <<>>
  <1>1. <<>> \in Seq({})
    OBVIOUS
  <1>2. ASSUME NEW b PROVE Append(<<>>, b) = <<b>>
    <2>1. <<>> \in Seq({b})
      OBVIOUS
    <2> QED BY <2>1
  <1> QED BY <1>1, <1>2 DEF IsSeq

(* What each action makes of a run.                                        *)
LEMMA RamFields ==
    ASSUME Shapes
    PROVE  /\ RamLow => /\ ram'.low = TRUE /\ ram'.run = <<>> /\ ram'.addr = <<v.data, 0>>
                        /\ ram'.high = IF ram.run = <<>> THEN ram.high ELSE FALSE
           /\ RamHigh /\ ram.run = <<>> /\ ram.low =>
                 /\ ram'.low = TRUE /\ ram'.high = TRUE /\ ram'.run = <<>>
                 /\ ram'.addr = <<ram.addr[1], BitOr(ram.addr[2], v.data)>>
           /\ RamHigh => ram'.run = <<>>
           /\ RamWrite /\ ~Overruns /\ ((ram.low /\ ram.high) \/ ram.run # <<>>) =>
                 /\ ram'.low = (ram.low /\ ~(ram.low /\ ram.high))
                 /\ ram'.high = (ram.high /\ ~(ram.low /\ ram.high))
                 /\ ram'.addr = ram.addr /\ ram'.run = Append(ram.run, v.data)
                 /\ shown' = shown
           /\ RamWrite /\ ~Overruns /\ ~(ram.low /\ ram.high) /\ ram.run = <<>> => ram' = ram
           /\ PllWrite => ram' = NoRam
           /\ RamRead => /\ ram'.run = <<>> /\ ~RamComplete(ram')
                         /\ ram'.high => ram.run = <<>> /\ ram.high /\ ~ram.low
  <1>1. RamLow => /\ ram'.low = TRUE /\ ram'.run = <<>> /\ ram'.addr = <<v.data, 0>>
                  /\ ram'.high = IF ram.run = <<>> THEN ram.high ELSE FALSE
    BY DEF RamLow, Ended, NoRam, Shapes
  <1>2. RamHigh /\ ram.run = <<>> /\ ram.low =>
           /\ ram'.low = TRUE /\ ram'.high = TRUE /\ ram'.run = <<>>
           /\ ram'.addr = <<ram.addr[1], BitOr(ram.addr[2], v.data)>>
    BY DEF RamHigh, Ended, NoRam, Shapes
  <1>3. RamHigh => ram'.run = <<>>
    BY DEF RamHigh, Ended, NoRam, Shapes
  <1>4. RamWrite /\ ~Overruns /\ ((ram.low /\ ram.high) \/ ram.run # <<>>) =>
                 /\ ram'.low = (ram.low /\ ~(ram.low /\ ram.high))
                 /\ ram'.high = (ram.high /\ ~(ram.low /\ ram.high))
                 /\ ram'.addr = ram.addr /\ ram'.run = Append(ram.run, v.data)
                 /\ shown' = shown
    BY DEF RamWrite, KeepByte, InRun, RamComplete, NoRam, Shapes
  <1>5. RamWrite /\ ~Overruns /\ ~(ram.low /\ ram.high) /\ ram.run = <<>> => ram' = ram
    BY DEF RamWrite, InRun, RamComplete
  <1>6. PllWrite => ram' = NoRam
    BY DEF PllWrite
  <1>7. RamRead => /\ ram'.run = <<>> /\ ~RamComplete(ram')
                   /\ ram'.high => ram.run = <<>> /\ ram.high /\ ~ram.low
    BY DEF RamRead, AfterRamRead, RamComplete, Ended, NoRam
  <1> QED BY <1>1, <1>2, <1>3, <1>4, <1>5, <1>6, <1>7

LEMMA RamBefore ==
    ASSUME Position, RamInv, Forward
    PROVE  \/ NoneOf(file, mainCodec, RamVerbs, pos) /\ ram = NoRam /\ ~codec.placed
           \/ \E h \in 1 .. pos : /\ LastOf(file, mainCodec, RamVerbs, h, pos) /\ RamAsSent(h)
                                  /\ file[h].verb \in RamVerbs /\ file[h].data \in HalfWord
  <1>1. Decoding
    BY DEF Forward, Decoding
  <1>2. ASSUME NEW h \in 1 .. pos, LastOf(file, mainCodec, RamVerbs, h, pos)
        PROVE  file[h].verb \in RamVerbs /\ file[h].data \in HalfWord
    <2>1. h \in 1 .. Len(file)
      BY DEF Forward, Position
    <2>2. file[h] \in Frame
      BY <2>1, FileFrames DEF Position
    <2> QED BY <1>2, <2>2 DEF LastOf, IsChip, Frame
  <1> QED BY <1>1, <1>2 DEF RamInv

LEMMA NoRamFields ==
    NoRam.low = FALSE /\ NoRam.high = FALSE /\ NoRam.run = <<>>
  BY DEF NoRam

(* What was there when a byte is written.                                  *)
LEMMA RamAtWrite ==
    ASSUME Position, Shapes, RamInv, Forward, RamWrite
    PROVE  \/ ~codec.placed /\ ~ram.low /\ ~ram.high /\ ram.run = <<>>
           \/ /\ ram.low /\ ram.high /\ ram.run = <<>> /\ codec.placed
              /\ ram.addr = codec.ramAddr
           \/ /\ ~ram.low /\ ~ram.high /\ ram.run # <<>> /\ codec.placed /\ IsSeq(ram.run)
              /\ ram.addr \in Byte \X Byte
              /\ Number(codec.ramAddr) = Place(ram.addr, Len(ram.run) + 1)
  <1>1. v.verb = "RAM_WRITE" /\ ToChip(RamVerbs) /\ pos \in Nat
    BY ActionsOfChip DEF ChipActions, ToChip, RamVerbs, Forward
  <1>2. CASE ram = NoRam /\ ~codec.placed
    BY <1>2, NoRamFields
  <1>3. ASSUME NEW h \in 1 .. pos, LastOf(file, mainCodec, RamVerbs, h, pos), RamAsSent(h)
        PROVE  file[h].verb \in {"RAM_HIGH", "RAM_WRITE"}
    BY <1>1, <1>3, RamVerb, LastOrNone, OneLast
  <1> QED BY <1>2, <1>3, RamBefore DEF RamAsSent, IsRun

LEMMA RamSent ==
    ASSUME Position, Shapes, RamInv, Forward, ToChip(RamVerbs), NEW h, h = pos + 1
    PROVE  RamAsSent(h)'
  <1>1. /\ file' = file /\ mainCodec' = mainCodec /\ pos \in Nat /\ Decodes /\ file'[h] = v
        /\ v \in Frame /\ v = file[pos + 1] /\ v.codec = mainCodec /\ v.node = "chip"
    BY DEF Forward, ToChip
  <1>2. v.ok /\ v.data \in Byte /\ RamOnlyWritten
    BY <1>1, FrameTaken, RamVerb
  <1>3. codec.ramAddr \in Byte \X Byte
    BY DEF Shapes
  <1>4. BitOr(0, v.data) = v.data
    BY <1>1, OrOnce DEF Frame
  <1>5. CASE v.verb = "RAM_LOW"
    <2>1. RamLow
      BY <1>1, <1>5, ActionOfVerb DEF ToChip
    <2>2. ram'.low /\ ram'.run = <<>> /\ ram'.addr = <<v.data, 0>> /\ codec'.ramAddr[1] = v.data
      <3>1. codec'.ramAddr = <<v.data, codec.ramAddr[2]>>
        BY <1>2, <1>5 DEF RamOnlyWritten
      <3>2. ram'.low /\ ram'.run = <<>> /\ ram'.addr = <<v.data, 0>>
        BY <2>1, RamFields
      <3> QED BY <3>1, <3>2
    <2>3. ram'.high => \E g \in 1 .. pos : LastOf(file, mainCodec, RamVerbs, g, pos)
                                          /\ file[g].verb \in Aiming
      <3>1. ram'.high => ram.run = <<>> /\ ram.high
        BY <2>1, RamFields
      <3>2. CASE ram = NoRam
        BY <3>1, <3>2, NoRamFields
      <3>3. ASSUME NEW g \in 1 .. pos, RamAsSent(g), file[g].verb \in RamVerbs, ram.high
            PROVE  file[g].verb \in Aiming
        BY <3>3, NoRamFields DEF RamAsSent, RamVerbs, Aiming
      <3> QED BY <3>1, <3>2, <3>3, RamBefore
    <2>4. h - 1 = pos
      BY <1>1
    <2> QED BY <1>1, <1>5, <2>2, <2>3, <2>4 DEF RamAsSent
  <1>6. CASE v.verb = "RAM_HIGH"
    <2>1. RamHigh
      BY <1>1, <1>6, ActionOfVerb DEF ToChip
    <2>2. PICK g \in 1 .. pos : LastOf(file, mainCodec, RamVerbs, g, pos) /\ file[g].verb = "RAM_LOW"
      BY <1>6, RamVerb
    <2>3. RamAsSent(g)
      BY <1>1, <2>2, RamBefore, LastOrNone, OneLast
    <2>4. ram.low /\ ram.run = <<>> /\ ram.addr = <<codec.ramAddr[1], 0>>
      BY <2>2, <2>3 DEF RamAsSent
    <2>5. /\ ram'.low /\ ram'.high /\ ram'.run = <<>>
          /\ ram'.addr = <<ram.addr[1], BitOr(ram.addr[2], v.data)>>
      BY <2>1, <2>4, RamFields
    <2>6. ram'.addr = <<codec.ramAddr[1], v.data>>
      BY <1>4, <2>4, <2>5
    <2>7. ram'.addr = codec'.ramAddr /\ codec'.placed
      BY <1>2, <1>6, <2>6 DEF RamOnlyWritten
    <2> QED BY <1>1, <1>6, <2>5, <2>7 DEF RamAsSent
  <1>7. CASE v.verb = "RAM_WRITE"
    <2>1. RamWrite /\ ~Overruns
      BY <1>1, <1>7, ActionOfVerb DEF ToChip, Decodes
    <2>2. codec'.ramAddr = NextRamAddr(codec.ramAddr) /\ codec'.placed = codec.placed
      BY <1>2, <1>7 DEF RamOnlyWritten
    <2>3. ~ram'.low /\ ~ram'.high /\ IsRun'
      <3>1. CASE ~codec.placed /\ ~ram.low /\ ~ram.high /\ ram.run = <<>>
        BY <2>1, <2>2, <3>1, RamFields DEF IsRun
      <3>2. CASE /\ ram.low /\ ram.high /\ ram.run = <<>> /\ codec.placed
                 /\ ram.addr = codec.ramAddr
        <4>1. /\ ~ram'.low /\ ~ram'.high /\ ram'.addr = codec.ramAddr
              /\ ram'.run = Append(<<>>, v.data)
          BY <2>1, <3>2, RamFields
        <4>2. IsSeq(ram'.run) /\ ram'.run # <<>> /\ Len(ram'.run) = 1
          <5>1. Append(<<>>, v.data) = <<v.data>> /\ Len(<<v.data>>) = 1 /\ <<v.data>> # <<>>
            BY NoBytes
          <5>2. IsSeq(Append(<<>>, v.data))
            BY NoBytes, AppendByte
          <5> QED BY <4>1, <5>1, <5>2
        <4>3. Number(codec.ramAddr) = Place(codec.ramAddr, 1)
          BY <1>3, FirstPlace
        <4>4. Number(codec'.ramAddr) = Place(codec.ramAddr, 1 + 1)
          BY <1>3, <2>2, <4>3, PlaceOfNext
        <4> QED BY <1>3, <2>2, <3>2, <4>1, <4>2, <4>4 DEF IsRun
      <3>3. CASE /\ ~ram.low /\ ~ram.high /\ ram.run # <<>> /\ codec.placed /\ IsSeq(ram.run)
                 /\ ram.addr \in Byte \X Byte
                 /\ Number(codec.ramAddr) = Place(ram.addr, Len(ram.run) + 1)
        <4>1. /\ ~ram'.low /\ ~ram'.high /\ ram'.addr = ram.addr
              /\ ram'.run = Append(ram.run, v.data)
          BY <2>1, <3>3, RamFields
        <4>2. /\ IsSeq(ram'.run) /\ ram'.run # <<>> /\ Len(ram'.run) = Len(ram.run) + 1
              /\ Len(ram.run) \in Nat
          BY <3>3, <4>1, AppendByte
        <4>3. Len(ram.run) + 1 \in Nat \ {0}
          BY <4>2
        <4>4. Number(codec'.ramAddr) = Place(ram.addr, Len(ram.run) + 1 + 1)
          BY <1>3, <2>2, <3>3, <4>3, PlaceOfNext
        <4> QED BY <2>2, <3>3, <4>1, <4>2, <4>4 DEF IsRun
      <3> QED BY <2>1, <3>1, <3>2, <3>3, RamAtWrite
    <2> QED BY <1>1, <1>7, <2>3 DEF RamAsSent
  <1>8. CASE v.verb = "PLL_WRITE"
    <2>1. ram' = NoRam
      BY <1>1, <1>8, ActionOfVerb, RamFields DEF ToChip
    <2> QED BY <1>1, <1>8, <2>1 DEF RamAsSent
  <1>9. CASE v.verb = "RAM_READ"
    <2>1. RamRead
      BY <1>1, <1>9, ActionOfVerb DEF ToChip
    <2>2. ram'.run = <<>> /\ (ram'.high => ram.high /\ ~ram.low)
      BY <2>1, RamFields
    <2>3. ~(ram.high /\ ~ram.low)
      BY RamBefore, NoRamFields DEF RamAsSent, RamVerbs
    <2> QED BY <1>1, <1>9, <2>2, <2>3 DEF RamAsSent
  <1> QED BY <1>5, <1>6, <1>7, <1>8, <1>9 DEF ToChip, RamVerbs

LEMMA RamStep ==
    ASSUME Position, Shapes, RamInv, Forward
    PROVE  RamInv'
  <1>1. /\ file' = file /\ mainCodec' = mainCodec /\ pos' = pos + 1 /\ pos \in Nat /\ Decoding
        /\ Decodes /\ CodecTakes(v) /\ v = file[pos + 1]
    BY DEF Forward, Decoding
  <1>2. CASE ToChip(RamVerbs)
    <2>1. PICK h : h = pos + 1
      OBVIOUS
    <2>2. RamAsSent(h)'
      BY <1>2, <2>1, RamSent
    <2>3. pos + 1 \in 1 .. pos + 1 /\ LastOf(file, mainCodec, RamVerbs, pos + 1, pos + 1)
      BY <1>1, <1>2, ToChipIsChip, LastIsNew
    <2> QED BY <1>1, <2>1, <2>2, <2>3 DEF RamInv
  <1>3. CASE ~ToChip(RamVerbs)
    <2>1. ram' = ram /\ SameRam
      BY <1>1, <1>3, KeptApart, CodecKeeps
    <2>2. ASSUME NEW h, RamAsSent(h) PROVE RamAsSent(h)'
      BY <1>1, <2>1, <2>2 DEF RamAsSent, SameRam, IsRun
    <2>3. /\ NoneOf(file, mainCodec, RamVerbs, pos) => NoneOf(file', mainCodec', RamVerbs, pos')
          /\ \A h \in 1 .. pos : LastOf(file, mainCodec, RamVerbs, h, pos) =>
                h \in 1 .. pos' /\ LastOf(file', mainCodec', RamVerbs, h, pos')
      BY <1>1, <1>3, ToChipIsChip, LastStays
    <2>4. ASSUME NEW h \in 1 .. pos, LastOf(file, mainCodec, RamVerbs, h, pos), RamAsSent(h)
          PROVE  RamInv'
      BY <2>2, <2>3, <2>4 DEF RamInv
    <2>5. CASE NoneOf(file, mainCodec, RamVerbs, pos) /\ ram = NoRam /\ ~codec.placed
      BY <2>1, <2>3, <2>5 DEF RamInv, SameRam
    <2> QED BY <1>1, <2>4, <2>5 DEF RamInv
  <1> QED BY <1>2, <1>3

(***************************************************************************)
(* What the runs shown, and the one not shown yet, leave in exram.          *)
(***************************************************************************)
LEMMA NoBytesSpare ==
    ASSUME NEW addr, NEW a
    PROVE  Spares(addr, <<>>, a) /\ \A b : ~Leaves(addr, <<>>, a, b)
  BY NoBytes DEF Spares, Leaves

(* No run came to be shown.                                                *)
LEMMA ShownLeavesStays ==
    ASSUME Grew, \A n \in New : shown'[n].kind # "ramRun", NEW a, NEW b, ShownLeaves(a, b)
    PROVE  ShownLeaves(a, b)'
  <1>1. Lines("ramRun")' = Lines("ramRun") /\ \A n \in Lines("ramRun") : shown'[n] = shown[n]
    <2>1. \A n \in Lines("ramRun")' : n \in Lines("ramRun")
      BY OldOrNew DEF Lines, Grew
    <2>2. \A n \in Lines("ramRun") : n \in Lines("ramRun")' /\ shown'[n] = shown[n]
      BY LinesStay
    <2> QED BY <2>1, <2>2
  <1>2. \A n \in Lines("ramRun") : /\ RunSpares(n, a)' <=> RunSpares(n, a)
                                   /\ RunLeaves(n, a, b)' <=> RunLeaves(n, a, b)
    BY <1>1 DEF RunSpares, RunLeaves
  <1> QED BY <1>1, <1>2 DEF ShownLeaves

(* The run that was gathered is shown now, behind the others.               *)
LEMMA RunIsShown ==
    ASSUME Grew, Len(shown) + 1 \in New, shown'[Len(shown) + 1] = RunLine(ram),
           \A n \in New : n # Len(shown) + 1 => shown'[n].kind # "ramRun",
           NEW a, NEW b,
           \/ Leaves(ram.addr, ram.run, a, b)
           \/ Spares(ram.addr, ram.run, a) /\ ShownLeaves(a, b)
    PROVE  ShownLeaves(a, b)'
  <1>1. PICK z : z = Len(shown) + 1
    OBVIOUS
  <1>2. /\ Lines("ramRun")' = Lines("ramRun") \cup {z} /\ z \notin Lines("ramRun")
        /\ \A n \in Lines("ramRun") : shown'[n] = shown[n] /\ n < z /\ n \in Nat
        /\ z \in Nat
    <2>1. \A n \in Lines("ramRun")' : n \in Lines("ramRun") \/ n = z
      BY <1>1, OldOrNew DEF Lines, Grew
    <2>2. \A n \in Lines("ramRun") : n \in Lines("ramRun")' /\ shown'[n] = shown[n]
      BY LinesStay
    <2>3. \A n \in Lines("ramRun") : n < z /\ n \in Nat
      BY <1>1 DEF Lines, Grew
    <2>4. z \in Lines("ramRun")'
      BY <1>1, NewIsLine, RunKind
    <2>5. z \in Nat
      BY <1>1 DEF Grew
    <2>6. z \notin Lines("ramRun")
      BY <2>3, <2>5
    <2>7. Lines("ramRun")' = Lines("ramRun") \cup {z}
      BY <2>1, <2>2, <2>4
    <2> QED BY <2>2, <2>3, <2>5, <2>6, <2>7
  <1>3. /\ shown'[z].addr = ram.addr /\ shown'[z].run = ram.run
    BY <1>1 DEF RunLine
  <1>4. \A n \in Lines("ramRun") : /\ RunSpares(n, a)' <=> RunSpares(n, a)
                                   /\ RunLeaves(n, a, b)' <=> RunLeaves(n, a, b)
    BY <1>2 DEF RunSpares, RunLeaves
  <1>5. CASE Leaves(ram.addr, ram.run, a, b)
    <2>1. RunLeaves(z, a, b)'
      BY <1>3, <1>5 DEF RunLeaves
    <2>2. \A m \in Lines("ramRun")' : ~(m > z)
      BY <1>2
    <2> QED BY <1>2, <2>1, <2>2 DEF ShownLeaves
  <1>6. CASE Spares(ram.addr, ram.run, a) /\ ShownLeaves(a, b)
    <2>1. RunSpares(z, a)'
      BY <1>3, <1>6 DEF RunSpares
    <2>2. CASE b = 0 /\ \A n \in Lines("ramRun") : RunSpares(n, a)
      BY <1>2, <1>4, <2>1, <2>2 DEF ShownLeaves
    <2>3. ASSUME NEW n \in Lines("ramRun"), RunLeaves(n, a, b),
                 \A m \in Lines("ramRun") : m > n => RunSpares(m, a)
          PROVE  ShownLeaves(a, b)'
      <3>1. n \in Lines("ramRun")' /\ RunLeaves(n, a, b)'
        BY <1>2, <1>4, <2>3
      <3>2. \A m \in Lines("ramRun")' : m > n => RunSpares(m, a)'
        BY <1>2, <1>4, <2>1, <2>3
      <3> QED BY <3>1, <3>2 DEF ShownLeaves
    <2> QED BY <1>6, <2>2, <2>3 DEF ShownLeaves
  <1> QED BY <1>5, <1>6

(* One more byte of a run.                                                 *)
LEMMA OneByteMore ==
    ASSUME NEW addr, NEW run, IsSeq(run), NEW d, NEW a
    PROVE  LET more == Append(run, d)
               z    == Len(run) + 1
           IN  /\ Place(addr, z) = a => Leaves(addr, more, a, d)
               /\ Place(addr, z) # a =>
                     /\ Spares(addr, run, a) => Spares(addr, more, a)
                     /\ \A b : Leaves(addr, run, a, b) => Leaves(addr, more, a, b)
  <1> DEFINE more == Append(run, d)
             z    == Len(run) + 1
  <1>1. /\ Len(run) \in Nat /\ DOMAIN run = 1 .. Len(run) /\ Len(more) = z
        /\ DOMAIN more = 1 .. Len(run) + 1 /\ more[z] = d
        /\ \A k \in DOMAIN run : more[k] = run[k]
    BY AppendByte
  <1>2. /\ z \in DOMAIN more /\ z + 1 .. Len(more) = {}
        /\ \A k \in DOMAIN more : k = z \/ k \in DOMAIN run
        /\ \A k \in DOMAIN run : k \in DOMAIN more
        /\ \A k \in DOMAIN run : \A m \in k + 1 .. Len(more) : m = z \/ m \in k + 1 .. Len(run)
    BY <1>1
  <1> HIDE DEF more, z
  <1>3. Place(addr, z) = a => Leaves(addr, more, a, d)
    BY <1>1, <1>2 DEF Leaves
  <1>4. Place(addr, z) # a /\ Spares(addr, run, a) => Spares(addr, more, a)
    BY <1>1, <1>2 DEF Spares
  <1>5. ASSUME Place(addr, z) # a, NEW b, Leaves(addr, run, a, b)
        PROVE  Leaves(addr, more, a, b)
    BY <1>1, <1>2, <1>5 DEF Leaves
  <1> QED BY <1>3, <1>4, <1>5 DEF more, z

LEMMA ExramStep ==
    ASSUME Position, Shapes, RamInv, ExramIsReplayed, Forward, Len(ram'.run) <= RunSize
    PROVE  ExramIsReplayed'
  <1>1. /\ Decodes /\ CodecTakes(v) /\ ~atEnd /\ ~atEnd' /\ IsSeq(shown) /\ v \in Frame
    BY DEF Forward, Position
  <1>2. Grew /\ KindsOfActions
    BY <1>1, LinesOfActions
  <1> SUFFICES ASSUME NEW a \in RamAddr, NEW c, c = codec'.exram[a]
               PROVE  \/ Leaves(ram'.addr, ram'.run, a, c)
                      \/ Spares(ram'.addr, ram'.run, a) /\ ShownLeaves(a, c)'
    BY DEF ExramIsReplayed
  <1>3. PICK b : b = codec.exram[a]
    OBVIOUS
  <1>4. \/ Leaves(ram.addr, ram.run, a, b)
        \/ Spares(ram.addr, ram.run, a) /\ ShownLeaves(a, b)
    BY <1>1, <1>3 DEF ExramIsReplayed
  <1>5. CASE ~ToChip(RamVerbs)
    <2>1. ram' = ram /\ codec'.exram = codec.exram
      BY <1>1, <1>5, KeptApart, CodecKeeps DEF SameRam
    <2>2. \A n \in New : shown'[n].kind # "ramRun"
      BY <1>2, <1>5, ActionsOfChip DEF KindsOfActions, ChipActions, ToChip, RamVerbs
    <2>3. ShownLeaves(a, b) => ShownLeaves(a, b)'
      BY <1>2, <2>2, ShownLeavesStays
    <2> QED BY <1>3, <1>4, <2>1, <2>3
  <1>6. CASE ToChip(RamVerbs) /\ v.verb # "RAM_WRITE"
    <2>1. codec'.exram = codec.exram
      BY <1>1, <1>6, RamVerb, FrameTaken DEF RamOnlyWritten
    <2>2. RamLow \/ RamHigh \/ PllWrite \/ RamRead
      BY <1>1, <1>6, ActionOfVerb DEF ToChip, RamVerbs
    <2>3. ram'.run = <<>>
      BY <2>2, RamFields, NoRamFields
    <2>4. RamShows
      BY <1>1, <2>2, RamLines
    <2>5. ShownLeaves(a, b)'
      <3>1. CASE ram.run = <<>>
        <4>1. \A n \in New : shown'[n].kind # "ramRun"
          BY <2>4, <3>1 DEF RamShows, RamKinds
        <4>2. ShownLeaves(a, b)
          BY <1>4, <3>1, NoBytesSpare
        <4> QED BY <1>2, <4>1, <4>2, ShownLeavesStays
      <3>2. CASE ram.run # <<>>
        <4>1. /\ Len(shown) + 1 \in New /\ shown'[Len(shown) + 1] = RunLine(ram)
              /\ \A n \in New : n # Len(shown) + 1 => shown'[n].kind # "ramRun"
          BY <2>4, <3>2 DEF RamShows, RamKinds
        <4> QED BY <1>2, <1>4, <4>1, RunIsShown
      <3> QED BY <3>1, <3>2
    <2> QED BY <1>3, <2>1, <2>3, <2>5, NoBytesSpare
  <1>7. CASE ToChip(RamVerbs) /\ v.verb = "RAM_WRITE"
    <2>1. RamWrite /\ ~Overruns
      BY <1>1, <1>7, ActionOfVerb DEF ToChip, Decodes
    <2>2. codec'.exram = IF codec.placed THEN [codec.exram EXCEPT ![Number(codec.ramAddr)] = v.data]
                                         ELSE codec.exram
      BY <1>1, <1>7, RamVerb, FrameTaken DEF RamOnlyWritten
    <2>3. ShownLeaves(a, b) => ShownLeaves(a, b)'
      <3>1. \A n \in New : shown'[n].kind # "ramRun"
        BY <1>1, <2>1, RamWriteLines
      <3> QED BY <1>2, <3>1, ShownLeavesStays
    <2>4. CASE ~codec.placed
      <3>1. ram' = ram
        BY <2>1, <2>4, RamAtWrite, RamFields
      <3> QED BY <1>3, <1>4, <2>2, <2>3, <2>4, <3>1
    <2>5. CASE codec.placed
      <3>1. /\ IsSeq(ram.run) /\ ram'.addr = ram.addr /\ ram'.run = Append(ram.run, v.data)
            /\ Number(codec.ramAddr) = Place(ram.addr, Len(ram.run) + 1)
        <4>1. CASE ram.low /\ ram.high /\ ram.run = <<>> /\ ram.addr = codec.ramAddr
          <5>1. ram'.addr = ram.addr /\ ram'.run = Append(ram.run, v.data)
            BY <2>1, <4>1, RamFields
          <5>2. Len(ram.run) = 0 /\ IsSeq(ram.run)
            BY <4>1, NoBytes
          <5>3. Number(codec.ramAddr) = Place(ram.addr, 1)
            BY <4>1, FirstPlace DEF Shapes
          <5> QED BY <5>1, <5>2, <5>3
        <4>2. CASE /\ ram.run # <<>> /\ IsSeq(ram.run)
                   /\ Number(codec.ramAddr) = Place(ram.addr, Len(ram.run) + 1)
          BY <2>1, <4>2, RamFields
        <4> QED BY <2>1, <2>5, <4>1, <4>2, RamAtWrite
      <3>2. CASE Place(ram.addr, Len(ram.run) + 1) = a
        <4>1. Leaves(ram.addr, Append(ram.run, v.data), a, v.data)
          BY <3>1, <3>2, OneByteMore
        <4>2. c = v.data
          BY <2>2, <2>5, <3>1, <3>2 DEF Shapes
        <4> QED BY <3>1, <4>1, <4>2
      <3>3. CASE Place(ram.addr, Len(ram.run) + 1) # a
        <4>1. c = b
          BY <1>3, <2>2, <2>5, <3>1, <3>3 DEF Shapes
        <4>2. /\ Leaves(ram.addr, ram.run, a, b) => Leaves(ram.addr, Append(ram.run, v.data), a, b)
              /\ Spares(ram.addr, ram.run, a) => Spares(ram.addr, Append(ram.run, v.data), a)
          BY <3>1, <3>3, OneByteMore
        <4> QED BY <1>4, <2>3, <3>1, <4>1, <4>2
      <3> QED BY <3>2, <3>3
    <2> QED BY <2>4, <2>5
  <1> QED BY <1>5, <1>6, <1>7

-----------------------------------------------------------------------------
(***************************************************************************)
(* The end of the file: the last verb is handled again.                     *)
(***************************************************************************)
LEMMA LastAgain ==
    ASSUME Position, Last, NEW K, ToChip(K)
    PROVE  /\ pos \in 1 .. pos /\ LastOf(file, mainCodec, K, pos, pos) /\ v = file[pos]
           /\ pos \in Nat /\ v \in Frame /\ Decoding
  <1>1. file \in Files /\ Len(file) \in Nat /\ pos = Len(file) /\ v = cur
    BY FileFrames DEF Position, Last
  <1>2. file # <<>>
    <2>1. SUFFICES ASSUME file = <<>> PROVE FALSE
      OBVIOUS
    <2>2. v = NoVerb
      BY <1>1, <2>1 DEF Position
    <2> QED BY <2>2, FilesAssumption DEF ToChip, NoVerb
  <1>3. pos > 0
    <2>1. ASSUME NEW S, NEW s \in Seq(S), s # <<>> PROVE Len(s) > 0
      BY <2>1
    <2> QED BY <1>1, <1>2, <2>1, FilesAssumption
  <1>4. v = file[pos] /\ pos \in 1 .. pos /\ pos \in Nat
    BY <1>1, <1>3 DEF Position
  <1>5. v \in Frame
    BY <1>1, <1>4, FileFrames
  <1>6. IsChip(file[pos], mainCodec, K)
    BY <1>4 DEF ToChip, IsChip
  <1>7. pos + 1 .. pos = {}
    BY <1>4
  <1> QED BY <1>4, <1>5, <1>6, <1>7 DEF LastOf, Last, Decoding

LEMMA HicAgain ==
    ASSUME Position, HicInv, Last, ToChip(HicCallVerbs)
    PROVE  HicAsSent(v)
  <1>1. /\ pos \in 1 .. pos /\ LastOf(file, mainCodec, HicCallVerbs, pos, pos) /\ v = file[pos]
        /\ pos \in Nat /\ Decoding
    BY LastAgain
  <1> QED BY <1>1, LastOrNone, OneLast DEF HicInv

LEMMA RamAgain ==
    ASSUME Position, RamInv, Last, ToChip(RamVerbs)
    PROVE  RamAsSent(pos) /\ v = file[pos]
  <1>1. /\ pos \in 1 .. pos /\ LastOf(file, mainCodec, RamVerbs, pos, pos) /\ v = file[pos]
        /\ pos \in Nat /\ Decoding
    BY LastAgain
  <1> QED BY <1>1, LastOrNone, OneLast DEF RamInv

-----------------------------------------------------------------------------
(***************************************************************************)
(* A run is no longer than what was written behind its address.            *)
(***************************************************************************)
LEMMA StartedStays ==
    ASSUME Position, Forward \/ Last, ToChip(RamVerbs) => v.verb = "RAM_WRITE",
           NEW h \in 1 .. pos, Started(h)
    PROVE  /\ h \in 1 .. pos' /\ Started(h)' /\ Bytes(h) \in Nat /\ Bytes(h)' \in Nat
           /\ Bytes(h) <= Bytes(h)'
           /\ ToChip({"RAM_WRITE"}) => Bytes(h)' = Bytes(h) + 1
  <1> DEFINE count(n) == Cardinality(BytesFrom(file, mainCodec, h, n))
  <1>1. pos \in Nat /\ h \in Nat /\ h <= pos
    BY FileFrames DEF Position
  <1>2. Bytes(h) = count(pos) /\ count(pos) \in Nat
    BY <1>1, BytesCounted DEF Bytes, Forward, Last
  <1>3. CASE Forward
    <2>1. Bytes(h)' = count(pos + 1)
      <3>1. Bytes(h)' = count(pos + 1) + 0
        BY <1>3 DEF Bytes, Forward
      <3>2. count(pos + 1) \in Nat
        BY <1>1, BytesCounted
      <3> QED BY <3>1, <3>2
    <2>2. /\ ToChip({"RAM_WRITE"}) => count(pos + 1) = count(pos) + 1
          /\ ~ToChip({"RAM_WRITE"}) => count(pos + 1) = count(pos)
      BY <1>1, <1>3, ToChipIsChip, BytesCounted
    <2>3. OneRun(file, mainCodec, h, pos + 1)
      BY <1>1, <1>3, ToChipIsChip, BytesCounted DEF Started, Forward
    <2>4. Started(h)' /\ h \in 1 .. pos'
      BY <1>1, <1>3, <2>3 DEF Started, Forward
    <2> HIDE DEF count
    <2> QED BY <1>2, <2>1, <2>2, <2>4
  <1>4. CASE Last
    <2>1. Bytes(h)' = count(pos) + ByteAgain(file, mainCodec, pos)
      BY <1>4 DEF Bytes, Last
    <2>2. ByteAgain(file, mainCodec, pos) \in {0, 1}
      BY DEF ByteAgain
    <2>3. ToChip({"RAM_WRITE"}) => ByteAgain(file, mainCodec, pos) = 1
      BY <1>4, LastAgain DEF LastOf, ByteAgain, Last
    <2>4. Started(h)' /\ h \in 1 .. pos'
      BY <1>4 DEF Started, Last
    <2> HIDE DEF count
    <2> QED BY <1>2, <2>1, <2>2, <2>3, <2>4
  <1> QED BY <1>3, <1>4

LEMMA StartsNow ==
    ASSUME Position, Forward \/ Last, ToChip(Aiming), NEW h, h = pos'
    PROVE  h \in 1 .. pos' /\ Started(h)' /\ Bytes(h)' \in Nat
  <1>1. pos \in Nat
    BY FileFrames DEF Position
  <1>2. h \in 1 .. h /\ h \in Nat /\ IsChip(file[h], mainCodec, Aiming)
    <2>1. CASE Forward
      <3>1. h = pos + 1 /\ IsChip(file[pos + 1], mainCodec, Aiming)
        BY <2>1, ToChipIsChip DEF Forward
      <3> QED BY <1>1, <3>1
    <2>2. CASE Last
      BY <2>2, LastAgain DEF LastOf, Last
    <2> QED BY <2>1, <2>2
  <1>3. OneRun(file, mainCodec, h, h) /\ Cardinality(BytesFrom(file, mainCodec, h, h)) \in Nat
    BY <1>2, BytesCounted
  <1>4. file' = file /\ mainCodec' = mainCodec
    BY DEF Forward, Last
  <1>5. Started(h)'
    BY <1>2, <1>3, <1>4 DEF Started
  <1>6. Bytes(h)' \in Nat
    <2>1. ByteAgain(file, mainCodec, h) \in {0, 1}
      BY DEF ByteAgain
    <2>2. \/ Bytes(h)' = Cardinality(BytesFrom(file, mainCodec, h, h)) + 0
          \/ Bytes(h)' = Cardinality(BytesFrom(file, mainCodec, h, h))
                         + ByteAgain(file, mainCodec, h)
      BY <1>4 DEF Bytes
    <2> QED BY <1>3, <2>1, <2>2
  <1> QED BY <1>2, <1>5, <1>6

LEMMA RunStep ==
    ASSUME Position, Shapes, RunInv, Forward \/ Last
    PROVE  RunInv'
  <1>1. Decodes /\ pass = "decode" /\ pass' = "decode" /\ IsSeq(ram.run)
    BY DEF Forward, Last, RunInv
  <1>2. InRun => \E h \in 1 .. pos : Started(h) /\ Len(ram.run) <= Bytes(h)
    BY <1>1 DEF RunInv
  <1>3. Len(ram.run) \in Nat
    BY <1>1, SeqFacts
  <1>4. ASSUME ram' = ram, ToChip(RamVerbs) => v.verb = "RAM_WRITE" PROVE RunInv'
    <2>1. CASE InRun
      <3>1. PICK h \in 1 .. pos : Started(h) /\ Len(ram.run) <= Bytes(h)
        BY <1>2, <2>1
      <3>2. /\ h \in 1 .. pos' /\ Started(h)' /\ Bytes(h) \in Nat /\ Bytes(h)' \in Nat
            /\ Bytes(h) <= Bytes(h)'
        BY <1>4, <3>1, StartedStays
      <3>3. Len(ram'.run) <= Bytes(h)'
        BY <1>3, <1>4, <3>1, <3>2
      <3> QED BY <1>1, <1>4, <3>2, <3>3 DEF RunInv
    <2>2. CASE ~InRun
      BY <1>1, <1>4, <2>2 DEF RunInv, InRun
    <2> QED BY <2>1, <2>2
  <1>5. CASE ~ToChip(RamVerbs)
    BY <1>1, <1>4, <1>5, KeptApart
  <1>6. CASE ToChip({"RAM_WRITE"})
    <2>1. RamWrite /\ ~Overruns /\ v.verb = "RAM_WRITE"
      BY <1>1, <1>6, ActionOfVerb DEF Decodes, ToChip
    <2>2. CASE InRun
      <3>1. ram'.run = Append(ram.run, v.data)
        BY <2>1, <2>2, RamFields DEF InRun, RamComplete
      <3>2. IsSeq(ram'.run) /\ Len(ram'.run) = Len(ram.run) + 1
        BY <1>1, <3>1, AppendByte
      <3>3. PICK h \in 1 .. pos : Started(h) /\ Len(ram.run) <= Bytes(h)
        BY <1>2, <2>2
      <3>4. h \in 1 .. pos' /\ Started(h)' /\ Bytes(h) \in Nat /\ Bytes(h)' = Bytes(h) + 1
        BY <1>6, <2>1, <3>3, StartedStays
      <3>5. Len(ram'.run) <= Bytes(h)'
        BY <1>3, <3>2, <3>3, <3>4
      <3> QED BY <1>1, <3>2, <3>4, <3>5 DEF RunInv
    <2>3. CASE ~InRun
      BY <1>4, <2>1, <2>3, RamFields DEF InRun, RamComplete
    <2> QED BY <2>2, <2>3
  <1>7. CASE ToChip(Aiming)
    <2>1. RamLow \/ RamHigh
      BY <1>1, <1>7, ActionOfVerb DEF ToChip, Aiming
    <2>2. IsSeq(ram'.run) /\ Len(ram'.run) = 0
      BY <2>1, RamFields, NoBytes
    <2>3. PICK h : h = pos'
      OBVIOUS
    <2>4. h \in 1 .. pos' /\ Started(h)' /\ Bytes(h)' \in Nat
      BY <1>7, <2>3, StartsNow
    <2>5. Len(ram'.run) <= Bytes(h)'
      BY <2>2, <2>4
    <2> QED BY <1>1, <2>2, <2>4, <2>5 DEF RunInv
  <1>8. CASE ToChip({"RAM_READ", "PLL_WRITE"})
    <2>1. RamRead \/ PllWrite
      BY <1>1, <1>8, ActionOfVerb DEF ToChip
    <2>2. IsSeq(ram'.run) /\ ~InRun'
      BY <2>1, RamFields, NoRamFields, NoBytes DEF InRun, RamComplete
    <2> QED BY <1>1, <2>2 DEF RunInv
  <1> QED BY <1>5, <1>6, <1>7, <1>8 DEF ToChip, RamVerbs, Aiming

(* So it is in the array.                                                  *)
LEMMA RunWithin ==
    Position /\ RunInv => Len(ram.run) <= RunSize
  <1> SUFFICES ASSUME Position, RunInv PROVE Len(ram.run) <= RunSize
    OBVIOUS
  <1>1. /\ file \in Files /\ Len(file) \in Nat /\ DOMAIN file = 1 .. Len(file) /\ RunsFit(file)
        /\ pos \in Nat /\ pos <= Len(file) /\ RunSize \in Nat /\ (atEnd => pos = Len(file))
    BY FileFrames, RunSizeAssumption DEF Position
  <1>2. CASE ram.run = <<>>
    <2>1. Len(ram.run) = 0
      BY <1>2, NoBytes
    <2>2. \A n \in Nat : 0 <= n
      OBVIOUS
    <2> QED BY <2>1, <2>2, RunSizeAssumption
  <1>3. CASE ram.run # <<>>
    <2>1. pass = "decode"
      BY <1>3, NoRamFields DEF Position, Blank
    <2>2. PICK h \in 1 .. pos : Started(h) /\ Len(ram.run) <= Bytes(h)
      BY <1>3, <2>1 DEF RunInv, InRun
    <2>3. Len(ram.run) \in Nat
      BY <2>1, SeqFacts DEF RunInv
    <2> DEFINE bytes == Cardinality(BytesFrom(file, mainCodec, h, pos))
               again == ByteAgain(file, mainCodec, pos)
    <2>4. bytes \in Nat
      <3>1. pos \in Nat /\ h \in 1 .. pos
        BY <1>1
      <3>2. h \in Nat /\ h <= pos
        BY <3>1
      <3> QED BY <3>1, <3>2, BytesCounted
    <2>5. again \in {0, 1}
      BY DEF ByteAgain
    <2>6. Bytes(h) <= bytes + again
      <3>1. Bytes(h) = bytes + (IF atEnd THEN again ELSE 0)
        BY DEF Bytes
      <3> HIDE DEF bytes, again
      <3> QED BY <2>4, <2>5, <3>1
    <2>7. bytes + again <= RunSize
      <3>1. IsChip(file[h], mainCodec, Aiming) /\ OneRun(file, mainCodec, h, pos)
        BY <2>2 DEF Started
      <3>2. file[h].codec = mainCodec
        BY <3>1 DEF IsChip
      <3>3. pos \in Nat /\ Len(file) \in Nat /\ pos <= Len(file) /\ h \in 1 .. pos
        BY <1>1
      <3>4. h \in 1 .. Len(file) /\ pos \in h .. Len(file)
        BY <3>3
      <3>5. h \in DOMAIN file /\ RunsFit(file)
        BY <1>1, <3>4
      <3> QED BY <3>1, <3>2, <3>4, <3>5 DEF RunsFit
    <2>8. Bytes(h) \in Nat
      <3>1. Bytes(h) = bytes + (IF atEnd THEN again ELSE 0)
        BY DEF Bytes
      <3> HIDE DEF bytes, again
      <3> QED BY <2>4, <2>5, <3>1
    <2>9. Len(ram.run) <= Bytes(h) /\ RunSize \in Nat
      BY <1>1, <2>2
    <2> HIDE DEF bytes, again
    <2> QED BY <2>3, <2>4, <2>5, <2>6, <2>7, <2>8, <2>9
  <1> QED BY <1>2, <1>3

-----------------------------------------------------------------------------
(***************************************************************************)
(* The lines for transfers and reads.                                      *)
(***************************************************************************)
\* A transfer that is complete was aimed where the codec is.
LEMMA HicDoneIsTrue ==
    ASSUME Position, Shapes, HicInv, Forward \/ Last, HicWrite, NEW h, h = HicAfter[v.verb],
           HicDone(h)
    PROVE  h.addr = codec.hicAddr /\ h.data = <<codec.hicLow, v.data>>
  <1>1. HicHalves(h)
    BY HicFields
  <1>2. ToChip(HicVerbs) /\ ToChip(HicCallVerbs)
    BY ActionsOfChip DEF ChipActions, ToChip, HicCallVerbs
  <1>3. CASE Forward
    <2>1. v.data \in HalfWord /\ BitOr(0, v.data) = v.data
      BY <1>3, OrOnce DEF Forward, Frame
    <2>2. \/ ~hic.low /\ v.verb # "ADDRESS_HIGH"
          \/ \E y \in Frame : y.verb \in HicCallVerbs /\ HicAsSent(y) /\ HicFollows(y, v)
      BY <1>2, <1>3, HicBefore
    <2>3. CASE ~hic.low /\ v.verb # "ADDRESS_HIGH"
      BY <1>1, <1>2, <2>3 DEF HicHalves, HicDone, ToChip, HicVerbs
    <2>4. ASSUME NEW y \in Frame, y.verb \in HicCallVerbs, HicAsSent(y), HicFollows(y, v)
          PROVE  h.addr = codec.hicAddr /\ h.data = <<codec.hicLow, v.data>>
      <3>1. v.verb # "ADDRESS_LOW"
        BY <1>1 DEF HicHalves, HicDone
      <3>2. v.verb # "ADDRESS_HIGH"
        <4>1. SUFFICES ASSUME v.verb = "ADDRESS_HIGH" PROVE FALSE
          OBVIOUS
        <4>2. y.verb \in {"ADDRESS_LOW", "ADDRESS_HIGH"}
          BY <2>4, <4>1 DEF HicFollows, HicOrder
        <4> QED BY <1>1, <2>4, <4>1, <4>2 DEF HicHalves, HicDone, HicAsSent
      <3>3. v.verb # "DATA_LOW"
        <4>1. SUFFICES ASSUME v.verb = "DATA_LOW" PROVE FALSE
          OBVIOUS
        <4>2. y.verb \in {"ADDRESS_HIGH", "DATA_HIGH", "HIC_READ_DATA", "DATA_LOW"}
          BY <2>4, <4>1 DEF HicFollows, HicOrder
        <4> QED BY <1>1, <2>4, <4>1, <4>2 DEF HicHalves, HicDone, HicAsSent
      <3>4. v.verb = "DATA_HIGH"
        BY <1>2, <3>1, <3>2, <3>3 DEF ToChip, HicVerbs
      <3>5. (y.verb = "DATA_LOW" /\ y.ok) \/ y.verb = "DATA_HIGH"
        BY <2>4, <3>4 DEF HicFollows, HicOrder
      <3>6. hic.low
        BY <1>1, <3>4 DEF HicHalves, HicDone
      <3>7. hic.addr = codec.hicAddr /\ hic.data = <<codec.hicLow, 0>>
        BY <2>4, <3>5, <3>6 DEF HicAsSent
      <3> QED BY <1>1, <2>1, <3>4, <3>7 DEF HicHalves
    <2> QED BY <2>2, <2>3, <2>4
  <1>4. CASE Last
    <2>1. HicAsSent(v)
      BY <1>2, <1>4, HicAgain
    <2> QED BY <1>1, <1>2, <2>1 DEF HicAsSent, HicHalves, HicDone, ToChip, HicVerbs
  <1> QED BY <1>3, <1>4

LEMMA HicReadIsTrue ==
    ASSUME Position, HicInv, Forward \/ Last, HicRead, hic.low
    PROVE  hic.addr = codec.hicAddr
  <1>1. ToChip({"HIC_READ_DATA"}) /\ ToChip(HicCallVerbs) /\ v.verb = "HIC_READ_DATA"
    BY ActionsOfChip DEF ChipActions, ToChip, HicCallVerbs
  <1>2. CASE Forward
    <2>1. ASSUME NEW y \in Frame, y.verb \in HicCallVerbs, HicAsSent(y), HicFollows(y, v)
          PROVE  hic.addr = codec.hicAddr
      <3>1. y.verb \in {"HIC_POST_READ", "HIC_READ_DATA"}
        BY <1>1, <2>1 DEF HicFollows, HicOrder
      <3> QED BY <2>1, <3>1 DEF HicAsSent
    <2> QED BY <1>1, <1>2, <2>1, HicBefore
  <1>3. CASE Last
    BY <1>1, <1>3, HicAgain DEF HicAsSent
  <1> QED BY <1>2, <1>3

LEMMA RamReadIsTrue ==
    ASSUME Position, RamInv, Forward \/ Last, RamRead, RamComplete(Ended)
    PROVE  Ended.addr = codec.ramAddr
  <1>1. ToChip({"RAM_READ"}) /\ ToChip(RamVerbs) /\ v.verb = "RAM_READ"
    BY ActionsOfChip DEF ChipActions, ToChip, RamVerbs
  <1>2. ram.run = <<>> /\ Ended = ram /\ ram.low /\ ram.high
    BY NoRamFields DEF RamComplete, Ended
  <1>3. CASE Forward
    <2>1. ram # NoRam
      BY <1>2, NoRamFields
    <2>2. PICK h \in 1 .. pos : /\ LastOf(file, mainCodec, RamVerbs, h, pos) /\ RamAsSent(h)
                                /\ file[h].verb \in RamVerbs
      BY <1>3, <2>1, RamBefore
    <2>3. file[h].verb # "RAM_LOW"
      <3>1. SUFFICES ASSUME file[h].verb = "RAM_LOW" PROVE FALSE
        OBVIOUS
      <3>2. PICK g \in 1 .. h - 1 : LastOf(file, mainCodec, RamVerbs, g, h - 1)
                                    /\ file[g].verb \in Aiming
        BY <1>2, <2>2, <3>1 DEF RamAsSent
      <3> QED BY <1>1, <1>3, <2>2, <3>1, <3>2, RamVerb
    <2>4. file[h].verb = "RAM_HIGH"
      BY <1>2, <2>1, <2>2, <2>3 DEF RamAsSent, RamVerbs
    <2> QED BY <1>2, <2>2, <2>4 DEF RamAsSent
  <1>4. CASE Last
    BY <1>1, <1>2, <1>4, RamAgain DEF RamAsSent
  <1> QED BY <1>3, <1>4

TrueLine(n) ==
    /\ shown'[n].kind = "hicWrite" => /\ shown'[n].addr = codec.hicAddr
                                      /\ shown'[n].data = <<codec.hicLow, cur'.data>>
    /\ shown'[n].kind = "hicRead" => shown'[n].addr = codec.hicAddr
    /\ shown'[n].kind = "ramRead" => shown'[n].addr = codec.ramAddr

LEMMA LinesStep ==
    ASSUME Position, Shapes, HicInv, RamInv, RunInv, DumpNext
    PROVE  \A n \in Len(shown) + 1 .. Len(shown') : TrueLine(n)
  <1>1. CASE Counts \/ Rewinds
    <2>1. shown' = shown /\ IsSeq(shown)
      BY <1>1 DEF Counts, Rewinds, Position
    <2> QED BY <2>1, NoLines DEF New
  <1>2. CASE Forward \/ Last
    <2>1. Decodes /\ IsSeq(shown) /\ cur' = v
      BY <1>2 DEF Forward, Last, Position
    <2>2. Grew /\ KindsOfActions
      BY <2>1, LinesOfActions
    <2> SUFFICES ASSUME NEW n \in New PROVE TrueLine(n)
      BY DEF New
    <2>3. CASE shown'[n].kind = "hicWrite"
      <3>1. HicWrite
        BY <2>2, <2>3 DEF KindsOfActions
      <3>2. PICK h : h = HicAfter[v.verb]
        OBVIOUS
      <3>3. HicDone(h) /\ n = Len(shown) + 1 /\ shown'[n] = HicLine(h)
        BY <2>1, <3>1, <3>2, HicWriteLines
      <3>4. h.addr = codec.hicAddr /\ h.data = <<codec.hicLow, v.data>>
        BY <1>2, <3>1, <3>2, <3>3, HicDoneIsTrue
      <3>5. shown'[n].addr = h.addr /\ shown'[n].data = h.data
        BY <3>3 DEF HicLine
      <3> QED BY <2>1, <2>3, <3>4, <3>5 DEF TrueLine
    <2>4. CASE shown'[n].kind = "hicRead"
      <3>1. HicRead
        BY <2>2, <2>4 DEF KindsOfActions
      <3>2. hic.low /\ shown'[n].addr = hic.addr
        BY <2>1, <3>1, HicReadLines
      <3> QED BY <1>2, <2>4, <3>1, <3>2, HicReadIsTrue DEF TrueLine
    <2>5. CASE shown'[n].kind = "ramRead"
      <3>1. RamRead
        BY <2>2, <2>5 DEF KindsOfActions
      <3>2. RamComplete(Ended) /\ shown'[n].addr = Ended.addr
        BY <2>1, <2>5, <3>1, RamLines DEF RamShows
      <3> QED BY <1>2, <2>5, <3>1, <3>2, RamReadIsTrue DEF TrueLine
    <2> QED BY <2>3, <2>4, <2>5 DEF TrueLine
  <1> QED BY <1>1, <1>2, StepKinds

(* Every word that comes to be stored at an address set is shown.           *)
LEMMA WordIsShown ==
    ASSUME Position, Shapes, HicInv, Forward, ToChip({"DATA_HIGH"}), codec.aimed
    PROVE  \E n \in Lines("hicWrite")' :
               <<shown'[n].addr, shown'[n].data>> = <<codec.hicAddr, <<codec.hicLow, v.data>>>>
  <1>1. Decodes /\ IsSeq(shown) /\ v.verb = "DATA_HIGH" /\ ToChip(HicVerbs) /\ ToChip(HicCallVerbs)
    BY DEF Forward, Position, ToChip, HicVerbs, HicCallVerbs
  <1>2. PICK h : h = HicAfter[v.verb]
    OBVIOUS
  <1>3. HicHalves(h) /\ HicWrite
    BY <1>1, <1>2, HicFields, ActionOfVerb
  <1>4. PICK y \in Frame : y.verb \in HicCallVerbs /\ HicAsSent(y) /\ HicFollows(y, v)
    BY <1>1, HicBefore
  <1>5. \/ y.verb = "DATA_LOW" /\ y.ok
        \/ y.verb = "DATA_HIGH" /\ ~y.ok /\ y.data = v.data
    BY <1>1, <1>4 DEF HicFollows, HicOrder
  <1>6. CASE y.verb = "DATA_LOW" /\ y.ok
    <2>1. hic.low /\ HicDone(h)
      BY <1>1, <1>3, <1>4, <1>6 DEF HicAsSent, HicHalves, HicDone
    <2>2. h.addr = codec.hicAddr /\ h.data = <<codec.hicLow, v.data>>
      BY <1>2, <1>3, <2>1, HicDoneIsTrue
    <2>3. Grew /\ Len(shown) + 1 \in New /\ shown'[Len(shown) + 1] = HicLine(h)
      BY <1>1, <1>2, <1>3, <2>1, HicWriteLines
    <2>4. shown'[Len(shown) + 1].kind = "hicWrite"
      BY <2>3 DEF HicLine
    <2>5. Len(shown) + 1 \in Lines("hicWrite")'
      BY <2>3, <2>4, NewIsLine
    <2> QED BY <2>2, <2>3, <2>5 DEF HicLine
  <1>7. CASE y.verb = "DATA_HIGH" /\ ~y.ok /\ y.data = v.data
    <2>1. PICK n \in Lines("hicWrite") :
             <<shown[n].addr, shown[n].data>> = <<codec.hicAddr, <<codec.hicLow, v.data>>>>
      BY <1>4, <1>7 DEF HicAsSent
    <2> QED BY <1>1, <2>1, LinesOfActions, LinesStay
  <1> QED BY <1>5, <1>6, <1>7

LEMMA FirstWordsStep ==
    ASSUME Position, Shapes, HicInv, FirstWordsAreShown, Forward \/ Last
    PROVE  FirstWordsAreShown'
  <1>1. Decodes /\ IsSeq(shown)
    BY DEF Forward, Last, Position
  <1>2. Grew
    BY <1>1, LinesOfActions
  <1>3. \A w \in codec.stored : \E n \in Lines("hicWrite")' : <<shown'[n].addr, shown'[n].data>> = w
    BY <1>2, LinesStay DEF FirstWordsAreShown
  <1>4. CASE codec'.stored = codec.stored
    BY <1>3, <1>4 DEF FirstWordsAreShown
  <1>5. CASE codec'.stored # codec.stored
    <2>1. Forward
      BY <1>5 DEF Last
    <2>2. CodecTakes(v)
      BY <2>1 DEF Forward
    <2>3. ToChip(HicCallVerbs)
      BY <1>5, <2>2, CodecKeeps DEF SameHic
    <2>4. HicOnlyAimed
      BY <1>5, <2>1, <2>3, FrameTaken DEF ToChip
    <2>5. v.verb = "DATA_HIGH" /\ codec.aimed
          /\ codec'.stored = codec.stored \cup {<<codec.hicAddr, <<codec.hicLow, v.data>>>>}
      BY <1>5, <2>4 DEF HicOnlyAimed
    <2>6. ToChip({"DATA_HIGH"})
      BY <2>3, <2>5 DEF ToChip
    <2> QED BY <1>3, <2>1, <2>5, <2>6, WordIsShown DEF FirstWordsAreShown
  <1> QED BY <1>4, <1>5

-----------------------------------------------------------------------------
(***************************************************************************)
(* Parameters and flags.                                                   *)
(***************************************************************************)
SetByLast ==
    (Decoding /\ pos > 0 /\ cur.codec = mainCodec /\ cur.node = "chip") =>
        /\ cur.verb = "PARAM_SET" =>
              \A p \in ParamIds : p = cur.data % 32 => codec.params[p] = cur.data \div 32
        /\ cur.verb = "FLAG_SET" =>
              \A f \in FlagIds : f = cur.data % 128 => codec.flags[f] = cur.data \div 128

SettingVerbs == IdVerbs \cup {"PARAM_SET", "FLAG_SET"}

LEMMA SettingVerb ==
    ASSUME Position, Forward, ToChip(SettingVerbs)
    PROVE  /\ v.ok /\ v.data \in Byte /\ v.codec = mainCodec /\ v.node = "chip"
           /\ v.verb = "PARAM_VALUE" => \E h \in 1 .. pos : LastOf(file, mainCodec, IdVerbs, h, pos)
                                                          /\ file[h].verb = "PARAM_ID"
  <1>1. IsChip(file[pos + 1], mainCodec, SettingVerbs) /\ mainCodec = file[pos + 1].codec
    BY ToChipIsChip, FileOrder DEF ToChip
  <1>2. v.verb = "PARAM_VALUE" => IsChip(file[pos + 1], mainCodec, {"PARAM_VALUE"})
    BY <1>1, FileOrder DEF IsChip
  <1> QED BY <1>1, <1>2, FileOrder DEF SettingsInOrder, SettingVerbs, ToChip, Byte

LEMMA ParamAtValue ==
    ASSUME Position, ParamInv, Forward, ParamValue
    PROVE  param.set /\ param.id = codec.id
  <1>1. ToChip(SettingVerbs) /\ v.verb = "PARAM_VALUE" /\ Decoding /\ pos \in Nat
    BY ActionsOfChip DEF ChipActions, ToChip, SettingVerbs, IdVerbs, Forward, Decoding
  <1>2. PICK h \in 1 .. pos : LastOf(file, mainCodec, IdVerbs, h, pos) /\ file[h].verb = "PARAM_ID"
    BY <1>1, SettingVerb
  <1>3. ParamAsSent(file[h])
    BY <1>1, <1>2, LastOrNone, OneLast DEF ParamInv
  <1> QED BY <1>2, <1>3 DEF ParamAsSent

LEMMA ParamStep ==
    ASSUME Position, Shapes, ParamInv, Forward
    PROVE  ParamInv'
  <1>1. /\ file' = file /\ mainCodec' = mainCodec /\ pos' = pos + 1 /\ pos \in Nat /\ Decoding
        /\ Decodes /\ CodecTakes(v) /\ v = file[pos + 1]
    BY DEF Forward, Decoding
  <1>2. CASE ToChip(IdVerbs)
    <2>1. PICK x : x = v
      OBVIOUS
    <2>2. ParamAsSent(x)'
      <3>1. v.ok /\ SetsOnlySet
        BY <1>1, <1>2, SettingVerb, FrameTaken DEF ToChip, SettingVerbs
      <3>2. v.verb = "PARAM_ID" => param'.set /\ param'.id = v.data
        BY <1>1, <1>2, ActionOfVerb DEF ToChip, ParamId, NewId
      <3>3. v.verb = "PARAM_VALUE" => ~param'.set
        BY <1>1, <1>2, ActionOfVerb DEF ToChip, ParamValue, Shapes
      <3> QED BY <2>1, <3>1, <3>2, <3>3 DEF ParamAsSent, SetsOnlySet
    <2>3. pos + 1 \in 1 .. pos + 1 /\ LastOf(file, mainCodec, IdVerbs, pos + 1, pos + 1)
      BY <1>1, <1>2, ToChipIsChip, LastIsNew
    <2>4. ASSUME NEW h, h = pos + 1
          PROVE  h \in 1 .. pos' /\ LastOf(file', mainCodec', IdVerbs, h, pos') /\ file'[h] = x
      BY <1>1, <2>1, <2>3, <2>4
    <2> QED BY <2>2, <2>4 DEF ParamInv
  <1>3. CASE ~ToChip(IdVerbs)
    <2>1. param' = param /\ codec'.id = codec.id
      <3>1. ~ToChip({"PARAM_ID"})
        BY <1>3 DEF ToChip, IdVerbs
      <3> QED BY <1>1, <1>3, <3>1, KeptApart, CodecKeeps
    <2>2. ASSUME NEW x, ParamAsSent(x) PROVE ParamAsSent(x)'
      BY <2>1, <2>2 DEF ParamAsSent
    <2>3. /\ NoneOf(file, mainCodec, IdVerbs, pos) => NoneOf(file', mainCodec', IdVerbs, pos')
          /\ \A h \in 1 .. pos : LastOf(file, mainCodec, IdVerbs, h, pos) =>
                h \in 1 .. pos' /\ LastOf(file', mainCodec', IdVerbs, h, pos')
      BY <1>1, <1>3, ToChipIsChip, LastStays
    <2>4. ASSUME NEW h \in 1 .. pos, LastOf(file, mainCodec, IdVerbs, h, pos), ParamAsSent(file[h])
          PROVE  ParamInv'
      <3>1. PICK x : x = file[h]
        OBVIOUS
      <3>2. ParamAsSent(x)'
        BY <2>2, <2>4, <3>1
      <3> QED BY <1>1, <2>3, <2>4, <3>1, <3>2 DEF ParamInv
    <2>5. CASE NoneOf(file, mainCodec, IdVerbs, pos) /\ ~param.set
      BY <2>1, <2>3, <2>5 DEF ParamInv
    <2> QED BY <1>1, <2>4, <2>5 DEF ParamInv
  <1> QED BY <1>2, <1>3

LEMMA SetByLastStep ==
    ASSUME Position, Shapes, Forward
    PROVE  SetByLast'
  <1>1. CodecTakes(v) /\ cur' = v /\ mainCodec' = mainCodec
    BY DEF Forward
  <1>2. ASSUME v.codec = mainCodec, v.node = "chip", v.verb \in {"PARAM_SET", "FLAG_SET"}
        PROVE  SetsOnlySet
    <2>1. ToChip(SettingVerbs)
      BY <1>2 DEF ToChip, SettingVerbs
    <2> QED BY <1>2, <2>1, SettingVerb, FrameTaken
  <1>3. ASSUME v.codec = mainCodec, v.node = "chip", v.verb = "PARAM_SET", NEW p \in ParamIds,
               p = v.data % 32
        PROVE  codec'.params[p] = v.data \div 32
    BY <1>2, <1>3 DEF SetsOnlySet, Shapes
  <1>4. ASSUME v.codec = mainCodec, v.node = "chip", v.verb = "FLAG_SET", NEW f \in FlagIds,
               f = v.data % 128
        PROVE  codec'.flags[f] = v.data \div 128
    BY <1>2, <1>4 DEF SetsOnlySet, Shapes
  <1> QED BY <1>1, <1>3, <1>4 DEF SetByLast

LEMMA ReplayedStays ==
    ASSUME Grew, NEW k, NEW id, NEW val,
           \A n \in New : shown'[n].kind = k => shown'[n].id # id,
           Replayed(k, id, val)
    PROVE  Replayed(k, id, val)'
  <1>1. LinesFor(k, id)' = LinesFor(k, id)
    <2>1. \A n \in LinesFor(k, id)' : n \in LinesFor(k, id)
      BY OldOrNew DEF LinesFor, Lines, Grew
    <2>2. \A n \in LinesFor(k, id) : n \in LinesFor(k, id)'
      BY LinesStay DEF LinesFor
    <2> QED BY <2>1, <2>2
  <1>2. \A n \in LinesFor(k, id) : shown'[n] = shown[n]
    BY LinesStay DEF LinesFor
  <1> QED BY <1>1, <1>2 DEF Replayed

LEMMA ReplayedNew ==
    ASSUME Grew, New = {Len(shown) + 1}, NEW k, NEW id, NEW val,
           shown'[Len(shown) + 1].kind = k, shown'[Len(shown) + 1].id = id,
           shown'[Len(shown) + 1].val = val
    PROVE  Replayed(k, id, val)'
  <1>1. PICK z : z = Len(shown) + 1
    OBVIOUS
  <1>2. z \in LinesFor(k, id)' /\ shown'[z].val = val
    BY <1>1, NewIsLine DEF LinesFor
  <1>3. \A m \in LinesFor(k, id)' : m <= z
    <2>1. \A m \in DOMAIN shown' : m \in DOMAIN shown \/ m = z
      BY <1>1, OldOrNew
    <2>2. \A m \in DOMAIN shown : m <= z
      BY <1>1 DEF Grew
    <2>3. z <= z
      BY <1>1 DEF Grew
    <2> QED BY <2>1, <2>2, <2>3 DEF LinesFor, Lines
  <1> QED BY <1>2, <1>3 DEF Replayed

(* One parameter, or one flag, is named by a line, and no other.            *)
LEMMA OneSetting ==
    ASSUME Grew, New = {Len(shown) + 1}, NEW k, NEW id, NEW val, NEW c, NEW other, NEW was,
           shown'[Len(shown) + 1].kind = k, shown'[Len(shown) + 1].id = id,
           shown'[Len(shown) + 1].val = val,
           Replayed(k, other, was), c = IF other = id THEN val ELSE was
    PROVE  Replayed(k, other, c)'
  <1>1. CASE other = id
    BY <1>1, ReplayedNew
  <1>2. CASE other # id
    BY <1>2, ReplayedStays
  <1> QED BY <1>1, <1>2

LEMMA SettingLines ==
    ASSUME IsSeq(shown), ParamValue \/ ChipVerb
    PROVE  LET z == Len(shown) + 1
           IN  /\ Grew
               /\ ParamValue /\ param.set =>
                     /\ New = {z} /\ shown'[z].kind = "param"
                     /\ shown'[z].id = param.id /\ shown'[z].val = v.data
               /\ ParamValue /\ ~param.set => New = {}
               /\ ChipVerb /\ v.verb = "PARAM_SET" =>
                     /\ New = {z} /\ shown'[z].kind = "param"
                     /\ shown'[z].id = v.data % 32 /\ shown'[z].val = v.data \div 32
               /\ ChipVerb /\ v.verb = "FLAG_SET" =>
                     /\ New = {z} /\ shown'[z].kind = "flag"
                     /\ shown'[z].id = v.data % 128 /\ shown'[z].val = (v.data \div 128) % 2
               /\ ChipVerb /\ v.verb \notin {"PARAM_SET", "FLAG_SET"} =>
                     \A n \in New : shown'[n].kind \notin {"param", "flag"}
  <1>1. ASSUME ParamValue, param.set
        PROVE  /\ Grew /\ New = {Len(shown) + 1} /\ shown'[Len(shown) + 1].kind = "param"
               /\ shown'[Len(shown) + 1].id = param.id /\ shown'[Len(shown) + 1].val = v.data
    <2> DEFINE l == [kind |-> "param", at |-> param.start, id |-> param.id, val |-> v.data]
    <2>1. shown' = shown \o <<l>>
      BY <1>1 DEF ParamValue, Show
    <2> QED BY <2>1, OneLine
  <1>2. ASSUME ParamValue, ~param.set PROVE Grew /\ New = {}
    <2>1. shown' = shown \o <<>>
      BY <1>2 DEF ParamValue, Show
    <2> QED BY <2>1, NoLines
  <1>3. ASSUME ChipVerb, v.verb = "PARAM_SET"
        PROVE  /\ Grew /\ New = {Len(shown) + 1} /\ shown'[Len(shown) + 1].kind = "param"
               /\ shown'[Len(shown) + 1].id = v.data % 32
               /\ shown'[Len(shown) + 1].val = v.data \div 32
    <2>1. shown' = shown \o <<ShortParamLine>>
      BY <1>3 DEF ChipVerb, Show
    <2> QED BY <2>1, OneLine DEF ShortParamLine
  <1>4. ASSUME ChipVerb, v.verb = "FLAG_SET"
        PROVE  /\ Grew /\ New = {Len(shown) + 1} /\ shown'[Len(shown) + 1].kind = "flag"
               /\ shown'[Len(shown) + 1].id = v.data % 128
               /\ shown'[Len(shown) + 1].val = (v.data \div 128) % 2
    <2>1. shown' = shown \o <<FlagLine>>
      BY <1>4 DEF ChipVerb, Show
    <2> QED BY <2>1, OneLine DEF FlagLine
  <1>5. ASSUME ChipVerb, v.verb \notin {"PARAM_SET", "FLAG_SET"}
        PROVE  Grew /\ \A n \in New : shown'[n].kind \notin {"param", "flag"}
    <2> DEFINE direct == [kind |-> "direct", at |-> At, data |-> v.data]
    <2>1. shown' = shown \o <<direct>> \/ shown' = shown \o <<Raw>>
      BY <1>5 DEF ChipVerb, Show
    <2>2. direct.kind = "direct" /\ Raw.kind = "raw"
      BY DEF Raw
    <2> HIDE DEF direct
    <2> QED BY <2>1, <2>2, OneLine
  <1> QED BY <1>1, <1>2, <1>3, <1>4, <1>5 DEF ParamValue, ChipVerb

LEMMA ByteFlag ==
    ASSUME NEW d \in Byte
    PROVE  (d \div 128) % 2 = d \div 128
  <1>1. d \in Nat /\ d < 256
    BY DEF Byte
  <1>2. d \div 128 \in 0 .. 1
    BY <1>1
  <1>3. ASSUME NEW q \in 0 .. 1 PROVE q % 2 = q
    OBVIOUS
  <1> QED BY <1>2, <1>3

(* Nothing is set, and no line says so.                                    *)
LEMMA NothingSet ==
    ASSUME Grew, \A n \in New : shown'[n].kind \notin {"param", "flag"}, SameSets,
           SettingsAreReplayed
    PROVE  SettingsAreReplayed'
  <1>1. ASSUME NEW p \in ParamIds, NEW c, c = codec.params[p] PROVE Replayed("param", p, c)'
    BY <1>1, ReplayedStays DEF SettingsAreReplayed
  <1>2. ASSUME NEW f \in FlagIds, NEW c, c = codec.flags[f] PROVE Replayed("flag", f, c)'
    BY <1>2, ReplayedStays DEF SettingsAreReplayed
  <1> QED BY <1>1, <1>2 DEF SettingsAreReplayed, SameSets

(* What the only new line says of a parameter, or of a flag, is what the    *)
(* codec has of it then, and of the others it has what it had.              *)
LEMMA ParamSet ==
    ASSUME Grew, New = {Len(shown) + 1}, shown'[Len(shown) + 1].kind = "param",
           SettingsAreReplayed, codec'.flags = codec.flags,
           \A p \in ParamIds :
              codec'.params[p] = IF p = shown'[Len(shown) + 1].id THEN shown'[Len(shown) + 1].val
                                                                  ELSE codec.params[p]
    PROVE  SettingsAreReplayed'
  <1>1. PICK id, val : id = shown'[Len(shown) + 1].id /\ val = shown'[Len(shown) + 1].val
    OBVIOUS
  <1>2. ASSUME NEW p \in ParamIds, NEW c, c = codec'.params[p] PROVE Replayed("param", p, c)'
    <2>1. PICK was : was = codec.params[p]
      OBVIOUS
    <2>2. Replayed("param", p, was) /\ c = IF p = id THEN val ELSE was
      BY <1>1, <1>2, <2>1 DEF SettingsAreReplayed
    <2> QED BY <1>1, <2>2, OneSetting
  <1>3. ASSUME NEW f \in FlagIds, NEW c, c = codec.flags[f] PROVE Replayed("flag", f, c)'
    BY <1>3, ReplayedStays DEF SettingsAreReplayed
  <1> QED BY <1>2, <1>3 DEF SettingsAreReplayed

LEMMA FlagSet ==
    ASSUME Grew, New = {Len(shown) + 1}, shown'[Len(shown) + 1].kind = "flag",
           SettingsAreReplayed, codec'.params = codec.params,
           \A f \in FlagIds :
              codec'.flags[f] = IF f = shown'[Len(shown) + 1].id THEN shown'[Len(shown) + 1].val
                                                                 ELSE codec.flags[f]
    PROVE  SettingsAreReplayed'
  <1>1. PICK id, val : id = shown'[Len(shown) + 1].id /\ val = shown'[Len(shown) + 1].val
    OBVIOUS
  <1>2. ASSUME NEW f \in FlagIds, NEW c, c = codec'.flags[f] PROVE Replayed("flag", f, c)'
    <2>1. PICK was : was = codec.flags[f]
      OBVIOUS
    <2>2. Replayed("flag", f, was) /\ c = IF f = id THEN val ELSE was
      BY <1>1, <1>2, <2>1 DEF SettingsAreReplayed
    <2> QED BY <1>1, <2>2, OneSetting
  <1>3. ASSUME NEW p \in ParamIds, NEW c, c = codec.params[p] PROVE Replayed("param", p, c)'
    BY <1>3, ReplayedStays DEF SettingsAreReplayed
  <1> QED BY <1>2, <1>3 DEF SettingsAreReplayed

LEMMA SettingsStep ==
    ASSUME Position, Shapes, ParamInv, SettingsAreReplayed, Forward
    PROVE  SettingsAreReplayed'
  <1>1. Decodes /\ CodecTakes(v) /\ IsSeq(shown)
    BY DEF Forward, Position
  <1>2. Grew /\ KindsOfActions
    BY <1>1, LinesOfActions
  <1>3. CASE ParamValue
    <2>1. v.verb = "PARAM_VALUE" /\ ToChip(SettingVerbs)
      BY <1>3, ActionsOfChip DEF ChipActions, ToChip, SettingVerbs, IdVerbs
    <2>2. SetsOnlySet
      BY <1>1, <2>1, SettingVerb, FrameTaken
    <2>3. param.set /\ param.id = codec.id
      BY <1>3, ParamAtValue
    <2>4. /\ New = {Len(shown) + 1} /\ shown'[Len(shown) + 1].kind = "param"
          /\ shown'[Len(shown) + 1].id = codec.id /\ shown'[Len(shown) + 1].val = v.data
      BY <1>1, <1>3, <2>3, SettingLines
    <2>5. codec'.params = [codec.params EXCEPT ![codec.id] = v.data] /\ codec'.flags = codec.flags
      BY <2>1, <2>2 DEF SetsOnlySet
    <2> QED BY <1>2, <2>4, <2>5, ParamSet DEF Shapes
  <1>4. CASE ChipVerb /\ v.verb = "PARAM_SET"
    <2>1. ToChip(SettingVerbs)
      BY <1>4, ActionsOfChip DEF ChipActions, ToChip, SettingVerbs
    <2>2. SetsOnlySet
      BY <1>1, <2>1, SettingVerb, FrameTaken
    <2>3. /\ New = {Len(shown) + 1} /\ shown'[Len(shown) + 1].kind = "param"
          /\ shown'[Len(shown) + 1].id = v.data % 32
          /\ shown'[Len(shown) + 1].val = v.data \div 32
      BY <1>1, <1>4, SettingLines
    <2>4. /\ codec'.params = [codec.params EXCEPT ![v.data % 32] = v.data \div 32]
          /\ codec'.flags = codec.flags
      BY <1>4, <2>2 DEF SetsOnlySet
    <2> QED BY <1>2, <2>3, <2>4, ParamSet DEF Shapes
  <1>5. CASE ChipVerb /\ v.verb = "FLAG_SET"
    <2>1. ToChip(SettingVerbs)
      BY <1>5, ActionsOfChip DEF ChipActions, ToChip, SettingVerbs
    <2>2. SetsOnlySet /\ (v.data \div 128) % 2 = v.data \div 128
      BY <1>1, <2>1, SettingVerb, FrameTaken, ByteFlag
    <2>3. /\ New = {Len(shown) + 1} /\ shown'[Len(shown) + 1].kind = "flag"
          /\ shown'[Len(shown) + 1].id = v.data % 128
          /\ shown'[Len(shown) + 1].val = v.data \div 128
      BY <1>1, <1>5, <2>2, SettingLines
    <2>4. /\ codec'.flags = [codec.flags EXCEPT ![v.data % 128] = v.data \div 128]
          /\ codec'.params = codec.params
      BY <1>5, <2>2 DEF SetsOnlySet
    <2> QED BY <1>2, <2>3, <2>4, FlagSet DEF Shapes
  <1>6. CASE ~ParamValue /\ ~(ChipVerb /\ v.verb \in {"PARAM_SET", "FLAG_SET"})
    <2>1. ~ToChip(SetVerbs)
      <3>1. ~ToChip({"PARAM_VALUE"})
        BY <1>1, <1>6, ActionOfVerb
      <3>2. ~ToChip({"FLAG_SET", "PARAM_SET"})
        BY <1>1, <1>6, ActionOfVerb DEF ToChip
      <3> QED BY <3>1, <3>2 DEF ToChip, SetVerbs
    <2>2. SameSets
      BY <1>1, <2>1, CodecKeeps
    <2>3. \A n \in New : shown'[n].kind \notin {"param", "flag"}
      <3>1. CASE ChipVerb
        BY <1>1, <1>6, <3>1, SettingLines
      <3>2. CASE ~ChipVerb
        BY <1>2, <1>6, <3>2 DEF KindsOfActions
      <3> QED BY <3>1, <3>2
    <2> QED BY <1>2, <2>2, <2>3, NothingSet
  <1> QED BY <1>3, <1>4, <1>5, <1>6

(* The last verb, if it sets anything, sets it to the same value again.     *)
LEMMA SettingsAgain ==
    ASSUME Position, Shapes, ParamInv, SetByLast, SettingsAreReplayed, Last
    PROVE  SettingsAreReplayed'
  <1>1. Decodes /\ IsSeq(shown) /\ codec' = codec /\ SameSets /\ cur = v /\ Decoding
    BY DEF Last, Position, SameSets, Decoding
  <1>2. Grew /\ KindsOfActions
    BY <1>1, LinesOfActions
  <1>3. CASE ParamValue
    <2>1. ToChip(IdVerbs) /\ v.verb = "PARAM_VALUE"
      BY <1>3, ActionsOfChip DEF ChipActions, ToChip, IdVerbs
    <2>2. /\ pos \in 1 .. pos /\ LastOf(file, mainCodec, IdVerbs, pos, pos) /\ v = file[pos]
          /\ pos \in Nat
      BY <2>1, LastAgain
    <2>3. ParamAsSent(v)
      BY <1>1, <2>2, LastOrNone, OneLast DEF ParamInv
    <2>4. New = {}
      BY <1>1, <1>3, <2>1, <2>3, SettingLines DEF ParamAsSent
    <2> QED BY <1>1, <1>2, <2>4, NothingSet
  <1>4. CASE ChipVerb /\ v.verb \in {"PARAM_SET", "FLAG_SET"}
    <2>1. ToChip({"PARAM_SET", "FLAG_SET"}) /\ ToChip(SettingVerbs)
      BY <1>4, ActionsOfChip DEF ChipActions, ToChip, SettingVerbs
    <2>2. pos \in 1 .. pos /\ pos \in Nat /\ v = file[pos] /\ file \in Files /\ pos = Len(file)
      BY <2>1, LastAgain DEF Position, Last
    <2>3. v.data \in Byte
      <3>1. IsChip(file[pos], mainCodec, SettingVerbs) /\ pos \in DOMAIN file
            /\ mainCodec = file[pos].codec
        BY <2>1, <2>2, FileFrames DEF IsChip, ToChip
      <3>2. SettingsInOrder(file)
        BY <2>2, FileFrames
      <3> QED BY <2>2, <3>1, <3>2 DEF SettingsInOrder, SettingVerbs, Byte
    <2>4. SetByLast /\ pos > 0 /\ cur.codec = mainCodec /\ cur.node = "chip"
      BY <1>1, <2>1, <2>2 DEF ToChip
    <2>5. CASE v.verb = "PARAM_SET"
      <3>1. /\ New = {Len(shown) + 1} /\ shown'[Len(shown) + 1].kind = "param"
            /\ shown'[Len(shown) + 1].id = v.data % 32
            /\ shown'[Len(shown) + 1].val = v.data \div 32
        BY <1>1, <1>4, <2>5, SettingLines
      <3>2. \A p \in ParamIds : p = v.data % 32 => codec.params[p] = v.data \div 32
        BY <1>1, <2>4, <2>5 DEF SetByLast
      <3> QED BY <1>1, <1>2, <3>1, <3>2, ParamSet
    <2>6. CASE v.verb = "FLAG_SET"
      <3>1. /\ New = {Len(shown) + 1} /\ shown'[Len(shown) + 1].kind = "flag"
            /\ shown'[Len(shown) + 1].id = v.data % 128
            /\ shown'[Len(shown) + 1].val = v.data \div 128
        BY <1>1, <1>4, <2>3, <2>6, SettingLines, ByteFlag
      <3>2. \A f \in FlagIds : f = v.data % 128 => codec.flags[f] = v.data \div 128
        BY <1>1, <2>4, <2>6 DEF SetByLast
      <3> QED BY <1>1, <1>2, <3>1, <3>2, FlagSet
    <2> QED BY <1>4, <2>5, <2>6
  <1>5. CASE ~ParamValue /\ ~(ChipVerb /\ v.verb \in {"PARAM_SET", "FLAG_SET"})
    <2>1. \A n \in New : shown'[n].kind \notin {"param", "flag"}
      <3>1. CASE ChipVerb
        BY <1>1, <1>5, <3>1, SettingLines
      <3>2. CASE ~ChipVerb
        BY <1>2, <1>5, <3>2 DEF KindsOfActions
      <3> QED BY <3>1, <3>2
    <2> QED BY <1>1, <1>2, <2>1, NothingSet
  <1> QED BY <1>3, <1>4, <1>5

-----------------------------------------------------------------------------
(***************************************************************************)
(* The end of the downloads.                                               *)
(***************************************************************************)
LEMMA FreesCounted ==
    ASSUME Position
    PROVE  /\ Frees \subseteq 1 .. Len(file) /\ Len(file) \in Nat /\ IsFiniteSet(Frees)
           /\ FreesUpTo(Len(file)) = Frees /\ FreesUpTo(0) = {} /\ Cardinality({}) = 0
           /\ \A n \in Nat : /\ IsFiniteSet(FreesUpTo(n)) /\ Cardinality(FreesUpTo(n)) \in Nat
                             /\ Cardinality(FreesUpTo(n)) <= Cardinality(Frees)
                             /\ n + 1 \in Frees =>
                                   /\ Cardinality(FreesUpTo(n + 1)) = Cardinality(FreesUpTo(n)) + 1
                                   /\ \A k \in FreesUpTo(n + 1) : k <= n + 1
                             /\ n + 1 \notin Frees => FreesUpTo(n + 1) = FreesUpTo(n)
  <1>1. Len(file) \in Nat /\ DOMAIN file = 1 .. Len(file)
    BY FileFrames DEF Position
  <1>2. Frees \subseteq 1 .. Len(file)
    BY <1>1 DEF Frees
  <1>3. IsFiniteSet(Frees)
    <2>1. ASSUME NEW l \in Nat PROVE IsFiniteSet(1 .. l)
      BY FS_Interval
    <2> QED BY <1>1, <1>2, <2>1, FS_Subset
  <1>8. \A k \in Frees : k \in Nat /\ ~(k <= 0) /\ k <= Len(file)
    BY <1>1, <1>2
  <1>4. FreesUpTo(Len(file)) = Frees /\ FreesUpTo(0) = {}
    BY <1>8 DEF FreesUpTo
  <1>9. ASSUME NEW n \in Nat PROVE \A k \in Nat : /\ k <= n + 1 <=> (k <= n \/ k = n + 1)
                                                 /\ ~(n + 1 <= n) /\ n + 1 <= n + 1
    OBVIOUS
  <1>5. ASSUME NEW n \in Nat
        PROVE  /\ IsFiniteSet(FreesUpTo(n)) /\ Cardinality(FreesUpTo(n)) \in Nat
               /\ Cardinality(FreesUpTo(n)) <= Cardinality(Frees)
    <2>1. FreesUpTo(n) \subseteq Frees
      BY DEF FreesUpTo
    <2> QED BY <1>3, <2>1, FS_Subset, FS_CardinalityType
  <1>6. ASSUME NEW n \in Nat, n + 1 \in Frees
        PROVE  /\ Cardinality(FreesUpTo(n + 1)) = Cardinality(FreesUpTo(n)) + 1
               /\ \A k \in FreesUpTo(n + 1) : k <= n + 1
    <2>1. FreesUpTo(n + 1) = FreesUpTo(n) \cup {n + 1} /\ n + 1 \notin FreesUpTo(n)
      BY <1>6, <1>8, <1>9 DEF FreesUpTo
    <2>2. Cardinality(FreesUpTo(n) \cup {n + 1}) = Cardinality(FreesUpTo(n)) + 1
      BY <1>5, <2>1, FS_AddElement
    <2> QED BY <2>1, <2>2 DEF FreesUpTo
  <1>7. ASSUME NEW n \in Nat, n + 1 \notin Frees
        PROVE  FreesUpTo(n + 1) = FreesUpTo(n)
    BY <1>7, <1>8, <1>9 DEF FreesUpTo
  <1> QED BY <1>1, <1>2, <1>3, <1>4, <1>5, <1>6, <1>7, FS_EmptySet

LEMMA VerbIsFree ==
    ASSUME Position
    PROVE  /\ pos < Len(file) => (IsFree(v) <=> pos + 1 \in Frees)
           /\ pos = Len(file) => (IsFree(v) <=> Len(file) \in Frees)
  <1>1. /\ file \in Files /\ Len(file) \in Nat /\ DOMAIN file = 1 .. Len(file)
        /\ pos \in 0 .. Len(file)
    BY FileFrames DEF Position
  <1>2. CASE pos < Len(file)
    <2>1. pos + 1 \in 1 .. Len(file) /\ pos # Len(file)
      <3>1. ASSUME NEW l \in Nat, NEW p \in 0 .. l, p < l PROVE p + 1 \in 1 .. l /\ p # l
        BY <3>1
      <3> QED BY <1>1, <1>2, <3>1
    <2>2. v = file[pos + 1]
      BY <1>2 DEF v
    <2> QED BY <1>1, <1>2, <2>1, <2>2 DEF IsFree, Frees
  <1>3. CASE pos = Len(file) /\ pos > 0
    <2>1. Len(file) \in 1 .. Len(file) /\ ~(pos < Len(file))
      BY <1>1, <1>3
    <2>2. v = cur
      BY <2>1 DEF v
    <2>3. cur = file[Len(file)]
      BY <1>3 DEF Position
    <2> QED BY <1>1, <1>3, <2>1, <2>2, <2>3 DEF IsFree, Frees
  <1>4. CASE pos = Len(file) /\ ~(pos > 0)
    <2>1. Len(file) = 0 /\ Len(file) \notin Frees /\ ~(pos < Len(file))
      BY <1>1, <1>4 DEF Frees
    <2>2. file = <<>>
      <3>1. ASSUME NEW S, NEW s \in Seq(S), Len(s) = 0 PROVE s = <<>>
        BY <3>1
      <3> QED BY <1>1, <2>1, <3>1, FilesAssumption
    <2>3. v = NoVerb
      BY <2>1, <2>2 DEF v, Position
    <2>4. "root" # "chip"
      OBVIOUS
    <2> QED BY <1>4, <2>1, <2>3, <2>4 DEF IsFree, NoVerb
  <1> QED BY <1>1, <1>2, <1>3, <1>4

(* A step of the second pass counts a verb that ends a download, and no     *)
(* other, and the last of them that was counted shows the end.             *)
LEMMA FreeOrNot ==
    ASSUME Position, AllMain, Forward \/ Last
    PROVE  LET z == Len(shown) + 1
           IN  /\ Grew
               /\ IsFree(v) =>
                     /\ freed' = freed + 1
                     /\ freed + 1 = downloads => New = {z} /\ shown'[z].kind = "end" /\ shown'[z].at = At
                     /\ freed + 1 # downloads => New = {}
               /\ ~IsFree(v) => freed' = freed /\ \A n \in New : shown'[n].kind # "end"
  <1>1. Decodes /\ IsSeq(shown)
    BY DEF Forward, Last, Position
  <1>2. Grew /\ KindsOfActions
    BY <1>1, LinesOfActions
  <1>3. ASSUME IsFree(v)
        PROVE  /\ freed' = freed + 1
               /\ freed + 1 = downloads => /\ New = {Len(shown) + 1}
                                           /\ shown'[Len(shown) + 1].kind = "end"
                                           /\ shown'[Len(shown) + 1].at = At
               /\ freed + 1 # downloads => New = {}
    <2>1. v.codec = mainCodec
      <3>1. CASE Forward
        BY <1>3, <3>1, VerbIsFree DEF Forward, AllMain
      <3>2. CASE Last
        <4>1. Len(file) \in Frees /\ pos = Len(file) /\ v = cur
          BY <1>3, <3>2, VerbIsFree DEF Last
        <4>2. Len(file) > 0
          BY <4>1, FreesCounted
        <4> QED BY <4>1, <4>2 DEF AllMain, Position
      <3> QED BY <3>1, <3>2
    <2>2. PortFree
      BY <1>1, <1>3, <2>1, ActionOfVerb DEF ToChip, IsFree
    <2>3. CASE freed + 1 = downloads
      <3>1. shown' = shown \o <<[kind |-> "end", at |-> At]>>
        BY <2>2, <2>3 DEF PortFree, LastFreed, Show
      <3> QED BY <1>1, <2>2, <2>3, <3>1, OneLine DEF PortFree
    <2>4. CASE freed + 1 # downloads
      <3>1. shown' = shown \o <<>>
        BY <2>2, <2>4 DEF PortFree, LastFreed, Show
      <3> QED BY <1>1, <2>2, <2>4, <3>1, NoLines DEF PortFree
    <2> QED BY <2>3, <2>4
  <1>4. ASSUME ~IsFree(v)
        PROVE  freed' = freed /\ \A n \in New : shown'[n].kind # "end"
    <2>1. ~ToChip({"PORT_FREE"}) /\ ~PortFree
      BY <1>4, ActionsOfChip DEF ChipActions, ToChip, IsFree
    <2> QED BY <1>1, <1>2, <2>1, KeptApart DEF KindsOfActions
  <1> QED BY <1>2, <1>3, <1>4

LEMMA EndLines ==
    ASSUME Grew
    PROVE  /\ (\A n \in New : shown'[n].kind # "end") => Lines("end")' = Lines("end")
           /\ New = {Len(shown) + 1} /\ shown'[Len(shown) + 1].kind = "end" =>
                 /\ Lines("end")' = Lines("end") \cup {Len(shown) + 1}
                 /\ Len(shown) + 1 \in DOMAIN shown'
  <1>1. \A n \in Lines("end") : n \in Lines("end")'
    BY LinesStay
  <1>2. \A n \in Lines("end")' : n \in Lines("end") \/ (n \in New /\ shown'[n].kind = "end")
    BY OldOrNew DEF Lines, Grew
  <1>3. \A n \in New : shown'[n].kind = "end" => n \in Lines("end")' /\ n \in DOMAIN shown'
    BY NewIsLine
  <1> QED BY <1>1, <1>2, <1>3

LEMMA EndStep ==
    ASSUME Position, RunInv, EndInv, DumpNext
    PROVE  EndInv'
  <1> DEFINE again == IF Len(file) \in Frees THEN 1 ELSE 0
             up(n) == Cardinality(FreesUpTo(n))
  <1>1. /\ Len(file) \in Nat /\ pos \in 0 .. Len(file) /\ pos \in Nat /\ atEnd \in BOOLEAN
        /\ IsSeq(shown) /\ (atEnd => pos = Len(file))
    BY FreesCounted DEF Position
  <1>2. /\ up(Len(file)) = Cardinality(Frees) /\ up(0) = 0
        /\ \A n \in Nat : /\ up(n) \in Nat /\ up(n) <= Cardinality(Frees)
                          /\ n + 1 \in Frees => up(n + 1) = up(n) + 1
                          /\ n + 1 \notin Frees => FreesUpTo(n + 1) = FreesUpTo(n)
    BY FreesCounted
  <1>3. Twice = IF atEnd THEN again ELSE 0
    BY DEF Twice
  <1>4. CASE Counts
    <2>1. /\ pass = "count" /\ pass' = "count" /\ ~atEnd /\ pos' = At /\ atEnd' = (pos = Len(file))
          /\ file' = file /\ downloads = up(pos)
          /\ downloads' = IF IsFree(v) THEN downloads + 1 ELSE downloads
      <3>1. /\ pass = "count" /\ pass' = "count" /\ ~atEnd /\ pos' = At /\ file' = file
            /\ atEnd' = (pos = Len(file))
            /\ downloads' = IF IsFree(v) THEN downloads + 1 ELSE downloads
        BY <1>4 DEF Counts, CountFrame, IsFree
      <3>2. downloads = up(pos) + 0 /\ up(pos) \in Nat
        BY <1>1, <1>2, <1>3, <3>1 DEF EndInv
      <3> QED BY <3>1, <3>2
    <2>2. Frees' = Frees
      BY <2>1 DEF Frees
    <2>3. CASE pos < Len(file)
      <3>1. pos' = pos + 1 /\ ~atEnd'
        BY <1>1, <2>1, <2>3 DEF At
      <3>2. downloads' = up(pos + 1)
        BY <1>1, <1>2, <2>1, <2>3, VerbIsFree
      <3>3. Twice' = 0
        BY <3>1 DEF Twice
      <3>4. up(pos + 1) \in Nat /\ FreesUpTo(pos)' = FreesUpTo(pos + 1)
        <4>1. up(pos + 1) \in Nat
          BY <1>1, <1>2
        <4> QED BY <2>2, <3>1, <4>1 DEF FreesUpTo
      <3>5. downloads' = Cardinality(FreesUpTo(pos))' + Twice'
        BY <3>2, <3>3, <3>4
      <3> QED BY <2>1, <3>5 DEF EndInv
    <2>4. CASE pos = Len(file)
      <3>1. pos' = pos /\ atEnd'
        <4>1. At = pos
          BY <1>1, <2>4 DEF At
        <4> QED BY <2>1, <2>4, <4>1
      <3>2. downloads' = up(pos) + again
        BY <1>1, <1>2, <2>1, <2>4, VerbIsFree
      <3>3. Twice' = again
        BY <2>1, <2>2, <3>1 DEF Twice
      <3>4. FreesUpTo(pos)' = FreesUpTo(pos)
        BY <2>2, <3>1 DEF FreesUpTo
      <3>5. downloads' = Cardinality(FreesUpTo(pos))' + Twice'
        BY <3>2, <3>3, <3>4
      <3> QED BY <2>1, <3>5 DEF EndInv
    <2> QED BY <1>1, <2>3, <2>4
  <1>5. CASE Rewinds
    <2>1. /\ pass = "count" /\ pos = Len(file) /\ pass' = "decode" /\ pos' = 0 /\ ~atEnd' /\ file' = file
          /\ downloads' = downloads /\ freed' = freed /\ shown' = shown
          /\ downloads = Cardinality(Frees) + again
      BY <1>1, <1>2, <1>3, <1>5 DEF Rewinds, EndInv, counted, gathered
    <2>2. freed = 0 /\ shown = <<>>
      BY <2>1 DEF Position, Blank
    <2>3. Frees' = Frees
      BY <2>1 DEF Frees
    <2>4. Twice' = 0 /\ FreesUpTo(pos)' = {}
      BY <2>1, <2>3, FreesCounted DEF Twice, FreesUpTo
    <2>5. Lines("end")' = {}
      BY <2>1, <2>2, NoBytes DEF Lines
    <2>6. downloads' = Cardinality(Frees)' + (IF Len(file') \in Frees' THEN 1 ELSE 0)
      BY <2>1, <2>3
    <2>7. Cardinality(FreesUpTo(pos))' = 0
      BY <2>4, FS_EmptySet
    <2>8. freed' = Cardinality(FreesUpTo(pos))' + Twice' /\ ~(freed' > 0)
      BY <2>1, <2>2, <2>4, <2>7
    <2> QED BY <2>1, <2>5, <2>6, <2>8 DEF EndInv
  <1>6. CASE (Forward \/ Last) /\ AllMain'
    <2>1. /\ pass = "decode" /\ pass' = "decode" /\ ~atEnd /\ file' = file /\ downloads' = downloads
          /\ mainCodec' = mainCodec
      BY <1>6 DEF Forward, Last
    <2>2. Frees' = Frees /\ AllMain
      BY <1>6, <2>1 DEF Frees, AllMain
    <2>3. /\ downloads = Cardinality(Frees) + again /\ freed = up(pos)
          /\ IF freed = downloads /\ freed > 0
             THEN \E n \in DOMAIN shown : /\ Lines("end") = {n}
                                          /\ \A k \in FreesUpTo(pos) : k <= shown[n].at
             ELSE Lines("end") = {}
      <3>1. /\ downloads = Cardinality(Frees) + again /\ freed = up(pos) + Twice
            /\ IF freed = downloads /\ freed > 0
               THEN \E n \in DOMAIN shown : /\ Lines("end") = {n}
                                            /\ \A k \in FreesUpTo(pos) : k <= shown[n].at
               ELSE Lines("end") = {}
        BY <2>1, <2>2 DEF EndInv
      <3>2. Twice = 0 /\ up(pos) \in Nat
        BY <1>1, <1>2, <1>3, <2>1
      <3>3. up(pos) + Twice = up(pos)
        BY <3>2
      <3> QED BY <3>1, <3>3
    <2>4. Grew
      BY <1>6, <2>2, FreeOrNot
    <2>5. PICK m, fm : m = up(pos) + (IF IsFree(v) THEN 1 ELSE 0) /\ fm = FreesUpTo(pos)'
      OBVIOUS
    <2>6. /\ m = Cardinality(FreesUpTo(pos))' + Twice' /\ m <= downloads
          /\ \A k \in FreesUpTo(pos)' : k <= At
          /\ ~IsFree(v) => FreesUpTo(pos)' = FreesUpTo(pos)
          /\ up(pos) \in Nat /\ Cardinality(Frees) \in Nat
      <3>1. CASE Forward
        <4>1. pos' = pos + 1 /\ Twice' = 0 /\ At = pos + 1 /\ (IsFree(v) <=> pos + 1 \in Frees)
          <5>1. pos' = pos + 1 /\ ~atEnd' /\ At = pos + 1 /\ pos < Len(file)
            BY <3>1 DEF Forward
          <5>2. Twice' = 0
            BY <5>1 DEF Twice
          <5> QED BY <5>1, <5>2, VerbIsFree
        <4>2. FreesUpTo(pos)' = FreesUpTo(pos + 1)
          BY <2>2, <4>1 DEF FreesUpTo
        <4>3. m = up(pos + 1) /\ up(pos + 1) \in Nat /\ up(pos + 1) <= Cardinality(Frees)
          <5>1. /\ up(pos) \in Nat /\ up(pos + 1) \in Nat /\ up(pos + 1) <= Cardinality(Frees)
                /\ pos + 1 \in Frees => up(pos + 1) = up(pos) + 1
                /\ pos + 1 \notin Frees => up(pos + 1) = up(pos)
            BY <1>1, <1>2
          <5> HIDE DEF up
          <5>2. m = up(pos + 1)
            BY <2>5, <4>1, <5>1
          <5> QED BY <5>1, <5>2
        <4>4. Cardinality(Frees) \in Nat
          BY FreesCounted, FS_CardinalityType
        <4>5. \A k \in FreesUpTo(pos + 1) : k <= pos + 1
          BY DEF FreesUpTo
        <4>6. m = Cardinality(FreesUpTo(pos))' + Twice' /\ m <= downloads
          BY <2>3, <4>1, <4>2, <4>3, <4>4
        <4>7. ~IsFree(v) => FreesUpTo(pos)' = FreesUpTo(pos)
          BY <1>1, <1>2, <4>1, <4>2
        <4> QED BY <1>1, <1>2, <4>1, <4>2, <4>4, <4>5, <4>6, <4>7
      <3>2. CASE Last
        <4>1. pos' = pos /\ pos = Len(file) /\ atEnd' /\ At = pos
              /\ (IsFree(v) <=> Len(file) \in Frees)
          BY <3>2, <1>1, VerbIsFree DEF Last, At
        <4>2. FreesUpTo(pos)' = FreesUpTo(pos) /\ Twice' = again
          BY <2>1, <2>2, <4>1 DEF FreesUpTo, Twice
        <4>3. m = Cardinality(Frees) + again
          BY <1>2, <2>5, <4>1
        <4>4. Cardinality(Frees) \in Nat
          BY FreesCounted, FS_CardinalityType
        <4>5. \A k \in FreesUpTo(pos) : k <= pos
          BY DEF FreesUpTo
        <4> QED BY <1>1, <1>2, <2>3, <2>5, <4>1, <4>2, <4>3, <4>4, <4>5
      <3> QED BY <1>6, <3>1, <3>2
    <2>7. freed' = m
      BY <1>6, <2>2, <2>3, <2>5, <2>6, FreeOrNot
    <2>8. IF m = downloads /\ m > 0
          THEN \E n \in DOMAIN shown' : /\ Lines("end")' = {n}
                                        /\ \A k \in FreesUpTo(pos)' : k <= shown'[n].at
          ELSE Lines("end")' = {}
      <3>1. CASE IsFree(v)
        <4>1. m = freed + 1 /\ m > 0 /\ freed # downloads
          BY <2>3, <2>5, <2>6, <3>1
        <4>2. Lines("end") = {}
          BY <2>3, <4>1
        <4>3. CASE m = downloads
          <5>1. New = {Len(shown) + 1} /\ shown'[Len(shown) + 1].kind = "end"
                /\ shown'[Len(shown) + 1].at = At
            BY <1>6, <2>2, <3>1, <4>1, <4>3, FreeOrNot
          <5>2. Lines("end")' = {Len(shown) + 1} /\ Len(shown) + 1 \in DOMAIN shown'
            BY <2>4, <4>2, <5>1, EndLines
          <5> QED BY <2>6, <4>1, <4>3, <5>1, <5>2
        <4>4. CASE m # downloads
          <5>1. New = {}
            BY <1>6, <2>2, <3>1, <4>1, <4>4, FreeOrNot
          <5> QED BY <2>4, <4>2, <4>4, <5>1, EndLines
        <4> QED BY <4>3, <4>4
      <3>2. CASE ~IsFree(v)
        <4>1. m = freed /\ FreesUpTo(pos)' = FreesUpTo(pos)
          BY <2>3, <2>5, <2>6, <3>2
        <4>2. \A n \in New : shown'[n].kind # "end"
          BY <1>6, <2>2, <3>2, FreeOrNot
        <4>3. Lines("end")' = Lines("end")
          BY <2>4, <4>2, EndLines
        <4>4. \A n \in DOMAIN shown : n \in DOMAIN shown' /\ shown'[n] = shown[n]
          BY <2>4 DEF Grew
        <4> QED BY <2>3, <4>1, <4>3, <4>4
      <3> QED BY <3>1, <3>2
    <2> QED BY <2>1, <2>2, <2>3, <2>6, <2>7, <2>8 DEF EndInv
  <1>7. CASE (Forward \/ Last) /\ ~AllMain'
    <2>1. pass' = "decode"
      BY <1>7 DEF Forward, Last
    <2> QED BY <1>7, <2>1 DEF EndInv
  <1> QED BY <1>4, <1>5, <1>6, <1>7, StepKinds

LEMMA EndIsMarked ==
    ASSUME Position, EndInv
    PROVE  EndIsMarkedOnce
  <1> SUFFICES ASSUME pass = "decode", atEnd, AllMain
               PROVE  \/ Frees = {} /\ Lines("end") = {}
                      \/ Frees # {} /\ \E n \in DOMAIN shown :
                             Lines("end") = {n} /\ \A k \in Frees : k <= shown[n].at
    BY DEF EndIsMarkedOnce, AllMain
  <1>1. pos = Len(file) /\ FreesUpTo(Len(file)) = Frees /\ IsFiniteSet(Frees)
    BY FreesCounted DEF Position
  <1>2. Twice = IF Len(file) \in Frees THEN 1 ELSE 0
    BY DEF Twice
  <1>3. freed = downloads /\ freed = Cardinality(Frees) + Twice
        /\ IF freed > 0
           THEN \E n \in DOMAIN shown : Lines("end") = {n} /\ \A k \in Frees : k <= shown[n].at
           ELSE Lines("end") = {}
    BY <1>1, <1>2 DEF EndInv
  <1>4. CASE Frees = {}
    <2>1. freed = 0
      BY <1>2, <1>3, <1>4, FS_EmptySet
    <2> QED BY <1>3, <1>4, <2>1
  <1>5. CASE Frees # {}
    <2>1. Cardinality(Frees) \in Nat /\ Cardinality(Frees) # 0
      BY <1>1, <1>5, FS_EmptySet, FS_CardinalityType
    <2>2. freed > 0
      BY <1>2, <1>3, <2>1
    <2> QED BY <1>3, <1>5, <2>2
  <1> QED BY <1>4, <1>5

-----------------------------------------------------------------------------
(***************************************************************************)
(* Packets for the DSP.                                                    *)
(***************************************************************************)
LEMMA AppendTo ==
    ASSUME NEW s, NEW w, IsSeq(s)
    PROVE  /\ IsSeq(Append(s, w)) /\ Len(Append(s, w)) = Len(s) + 1 /\ Append(s, w)[Len(s) + 1] = w
           /\ \A i \in 1 .. Len(s) : Append(s, w)[i] = s[i]
  <1>1. PICK S : s \in Seq(S)
    BY DEF IsSeq
  <1> DEFINE T == S \cup {w}
  <1>2. s \in Seq(T) /\ w \in T
    BY <1>1
  <1>3. Append(s, w) \in Seq(T)
    BY <1>2
  <1>4. IsSeq(Append(s, w))
    BY <1>3 DEF IsSeq
  <1> QED BY <1>2, <1>4

LEMMA HeaderFirst ==
    ASSUME NEW h, NEW s, IsSeq(s)
    PROVE  /\ IsSeq(<<h>> \o s) /\ Len(<<h>> \o s) = Len(s) + 1 /\ (<<h>> \o s)[1] = h
           /\ \A w : Append(<<h>> \o s, w) = <<h>> \o Append(s, w)
  <1>1. PICK S : s \in Seq(S)
    BY DEF IsSeq
  <1>2. ASSUME NEW w PROVE Append(<<h>> \o s, w) = <<h>> \o Append(s, w)
    <2> DEFINE T == S \cup {h, w}
    <2>1. s \in Seq(T) /\ w \in T /\ <<h>> \in Seq(T)
      BY <1>1
    <2>2. ASSUME NEW U, NEW t \in Seq(U), NEW x \in U, NEW y \in Seq(U)
          PROVE  Append(y \o t, x) = y \o Append(t, x)
      BY <2>2
    <2> HIDE DEF T
    <2> QED BY <2>1, <2>2
  <1> DEFINE T == S \cup {h}
  <1>3. s \in Seq(T) /\ <<h>> \in Seq(T)
    BY <1>1
  <1>4. <<h>> \o s \in Seq(T) /\ Len(<<h>> \o s) = Len(s) + 1 /\ (<<h>> \o s)[1] = h
    BY <1>3
  <1>5. IsSeq(<<h>> \o s)
    BY <1>4 DEF IsSeq
  <1>6. \A w : Append(<<h>> \o s, w) = <<h>> \o Append(s, w)
    BY <1>2
  <1> HIDE DEF T
  <1> QED BY <1>4, <1>5, <1>6

LEMMA UpToIsNat ==
    ASSUME NEW n, NEW a \in 0 .. n
    PROVE  a \in Nat
  BY SMT

LEMMA HalfIsNat ==
    ASSUME NEW a \in HalfWord
    PROVE  a \in Nat
  <1>1. PICK n : a \in 0 .. n
    BY Zenon DEF HalfWord
  <1> QED BY <1>1, UpToIsNat

LEMMA SizeIsNat ==
    ASSUME NEW w, NEW a \in HalfWord, a = w[2]
    PROVE  GetScpData(w).data_size \in Nat
  <1>1. ASSUME NEW n \in Nat PROVE (n \div 2048) % SIZES \in Nat
    <2>1. n \div 2048 \in Nat
      OBVIOUS
    <2> QED BY <2>1, HeaderAssumption, SMT
  <1>2. a \in Nat
    BY HalfIsNat
  <1>3. (a \div 2048) % SIZES \in Nat
    BY <1>1, <1>2, SMT
  <1> QED BY <1>3, SMT DEF GetScpData

(* A step shows no packet, or one.                                         *)
TellsNone       == Grew /\ \A n \in New : shown'[n].kind # "scp"
TellsOne(words) == /\ Grew /\ New = {Len(shown) + 1} /\ shown'[Len(shown) + 1].kind = "scp"
                   /\ shown'[Len(shown) + 1].words = words

LEMMA PacketsCounted ==
    ASSUME IsSeq(shown)
    PROVE  /\ IsFiniteSet(Lines("scp")) /\ Told \in Nat
           /\ \A n \in Lines("scp") : Cardinality(PacketsUpTo(n)) \in 1 .. Told
  <1>1. Lines("scp") \subseteq 1 .. Len(shown) /\ Len(shown) \in Nat
    BY SeqFacts DEF Lines
  <1>2. IsFiniteSet(Lines("scp"))
    <2>1. ASSUME NEW l \in Nat PROVE IsFiniteSet(1 .. l)
      BY FS_Interval
    <2> QED BY <1>1, <2>1, FS_Subset
  <1>3. Told \in Nat
    BY <1>2, FS_CardinalityType DEF Told
  <1>4. ASSUME NEW n \in Lines("scp") PROVE Cardinality(PacketsUpTo(n)) \in 1 .. Told
    <2>1. PacketsUpTo(n) \subseteq Lines("scp") /\ n \in PacketsUpTo(n)
      BY <1>1 DEF PacketsUpTo
    <2>2. IsFiniteSet(PacketsUpTo(n)) /\ Cardinality(PacketsUpTo(n)) <= Told
      BY <1>2, <2>1, FS_Subset DEF Told
    <2>3. Cardinality(PacketsUpTo(n)) \in Nat /\ Cardinality(PacketsUpTo(n)) # 0
      BY <2>1, <2>2, FS_EmptySet, FS_CardinalityType
    <2> QED BY <1>3, <2>2, <2>3
  <1> QED BY <1>2, <1>3, <1>4

LEMMA NoneTold ==
    ASSUME IsSeq(shown), TellsNone
    PROVE  /\ Lines("scp")' = Lines("scp") /\ Told' = Told
           /\ \A n \in Lines("scp") : shown'[n] = shown[n] /\ PacketsUpTo(n)' = PacketsUpTo(n)
  <1>1. \A n \in Lines("scp")' : n \in Lines("scp")
    BY OldOrNew DEF Lines, Grew, TellsNone
  <1>2. \A n \in Lines("scp") : n \in Lines("scp")' /\ shown'[n] = shown[n]
    BY LinesStay DEF TellsNone
  <1>3. Lines("scp")' = Lines("scp")
    BY <1>1, <1>2
  <1> QED BY <1>2, <1>3 DEF Told, PacketsUpTo

LEMMA OneTold ==
    ASSUME IsSeq(shown), NEW words, TellsOne(words), NEW z, z = Len(shown) + 1
    PROVE  /\ Lines("scp")' = Lines("scp") \cup {z} /\ z \notin Lines("scp") /\ Told' = Told + 1
           /\ \A n \in Lines("scp") : shown'[n] = shown[n] /\ PacketsUpTo(n)' = PacketsUpTo(n)
           /\ PacketsUpTo(z)' = Lines("scp")' /\ shown'[z].words = words
  <1>2. Grew /\ New = {z} /\ shown'[z].kind = "scp" /\ shown'[z].words = words /\ z \in Nat
        /\ ~(z <= Len(shown)) /\ z <= z
    BY DEF TellsOne, Grew
  <1>3. \A n \in Lines("scp")' : n \in Lines("scp") \/ n = z
    BY <1>2, OldOrNew DEF Lines, Grew
  <1>4. z \in Lines("scp")'
    BY <1>2, NewIsLine
  <1>5. \A n \in Lines("scp") : n \in Lines("scp")' /\ shown'[n] = shown[n]
    BY <1>2, LinesStay
  <1>6. Lines("scp")' = Lines("scp") \cup {z}
    BY <1>3, <1>4, <1>5
  <1>7. \A n \in Lines("scp") : n \in Nat /\ n <= Len(shown)
    BY <1>2 DEF Lines, Grew
  <1>8. z \notin Lines("scp")
    BY <1>2, <1>7
  <1>9. Told' = Told + 1
    BY <1>6, <1>8, PacketsCounted, FS_AddElement DEF Told
  <1>10. \A n \in Lines("scp") : n <= z /\ ~(z <= n)
    BY <1>2, <1>7
  <1>11. \A n \in Lines("scp") : PacketsUpTo(n)' = PacketsUpTo(n)
    BY <1>6, <1>10 DEF PacketsUpTo
  <1>12. PacketsUpTo(z)' = Lines("scp")'
    BY <1>2, <1>6, <1>10 DEF PacketsUpTo
  <1> QED BY <1>2, <1>5, <1>6, <1>8, <1>9, <1>11, <1>12

(* The packets shown stay those that were sent ...                         *)
LEMMA WordsStay ==
    ASSUME IsSeq(shown), TellsNone, WordsAreSent,
           \A i \in 1 .. Told : codec'.packets[i] = codec.packets[i]
    PROVE  WordsAreSent'
  <1>1. \A n \in Lines("scp") : Cardinality(PacketsUpTo(n))' = Cardinality(PacketsUpTo(n))
    BY NoneTold
  <1>2. ASSUME NEW n \in Lines("scp")
        PROVE  shown'[n].words = codec'.packets[Cardinality(PacketsUpTo(n))']
    <2>1. Cardinality(PacketsUpTo(n)) \in 1 .. Told
      BY PacketsCounted
    <2> QED BY <1>1, <2>1, NoneTold DEF WordsAreSent
  <1> QED BY <1>2, NoneTold DEF WordsAreSent

(* ... with the one that is shown now.                                     *)
LEMMA WordsAdded ==
    ASSUME IsSeq(shown), NEW words, TellsOne(words), WordsAreSent,
           \A i \in 1 .. Told : codec'.packets[i] = codec.packets[i],
           codec'.packets[Told + 1] = words
    PROVE  WordsAreSent'
  <1>1. PICK z : z = Len(shown) + 1
    OBVIOUS
  <1>2. \A n \in Lines("scp") : Cardinality(PacketsUpTo(n))' = Cardinality(PacketsUpTo(n))
    BY <1>1, OneTold
  <1>3. ASSUME NEW n \in Lines("scp")
        PROVE  shown'[n].words = codec'.packets[Cardinality(PacketsUpTo(n))']
    <2>1. Cardinality(PacketsUpTo(n)) \in 1 .. Told
      BY PacketsCounted
    <2> QED BY <1>1, <1>2, <2>1, OneTold DEF WordsAreSent
  <1>4. shown'[z].words = codec'.packets[Cardinality(PacketsUpTo(z))']
    <2>1. Cardinality(PacketsUpTo(z))' = Told + 1
      BY <1>1, OneTold DEF Told
    <2>2. shown'[z].words = words
      BY <1>1, OneTold
    <2> QED BY <2>1, <2>2
  <1>5. \A n \in Lines("scp")' : n \in Lines("scp") \/ n = z
    BY <1>1, OneTold
  <1> QED BY <1>3, <1>4, <1>5 DEF WordsAreSent

(* What the decoder holds of a packet, and a look at it.                    *)
Complete(d) == ScpSet(d) /\ Len(d.vals) = Header(d).data_size
Words(d)    == <<d.header>> \o d.vals

LEMMA CheckShows ==
    ASSUME NEW d
    PROVE  /\ ~Complete(d) => ScpCheck(d).dsp = d /\ ScpCheck(d).lines = <<>>
           /\ \/ /\ ScpCheck(d).dsp = d /\ ScpCheck(d).lines = <<>>
                 /\ Complete(d) => Header(d).get_flag = 1
              \/ /\ ScpCheck(d).dsp = NoDsp /\ ScpCheck(d).lines = <<PacketLine(d)>>
                 /\ Complete(d)
  BY DEF ScpCheck, Complete, Gathered

LEMMA TellsPacket ==
    ASSUME IsSeq(shown), NEW d, shown' = shown \o <<PacketLine(d)>>
    PROVE  TellsOne(Words(d))
  <1>1. PacketLine(d).kind = "scp" /\ PacketLine(d).words = Words(d)
    BY DEF PacketLine, Words
  <1> QED BY <1>1, OneLine DEF TellsOne

(* The DSP takes a half word, and nothing is torn.                          *)
TakesLow == /\ v.ok /\ codec.half = Nothing /\ codec'.half = <<v.data>> /\ ~codec.torn
            /\ codec'.open = codec.open /\ codec'.packets = codec.packets

Word   == <<codec.half[1], v.data>>
Opened == Append(codec.open, Word)
Whole  == Len(Opened) = 1 + GetScpData(Opened[1]).data_size

TakesHigh == /\ v.ok /\ codec.half # Nothing /\ codec'.half = Nothing /\ ~codec.torn
             /\ codec'.open = IF Whole THEN <<>> ELSE Opened
             /\ codec'.packets = IF Whole THEN Append(codec.packets, Opened) ELSE codec.packets
             /\ ~(GetScpData(Opened[1]).data_size >= 4)

LEMMA DspTook ==
    ASSUME Shapes, Forward, ToDsp
    PROVE  /\ v.verb = "SCP_LOW" /\ ~codec'.torn => TakesLow
           /\ v.verb = "SCP_HIGH" /\ ~codec'.torn => TakesHigh
           /\ codec'.torn \/ v.ok
           /\ codec'.open \in {codec.open, Opened, <<>>}
           /\ codec'.packets \in {codec.packets, Append(codec.packets, Opened)}
  <1>1. codec' = DspTakes(codec, v)
    BY CodecSteps DEF Forward
  <1> DEFINE low == v.verb = "SCP_LOW"
             t == GetScpData(Opened[1]).data_size >= 4
  <1>2. CASE ~v.ok \/ low # (codec.half = Nothing)
    <2>1. codec' = [codec EXCEPT !.torn = TRUE]
      BY <1>1, <1>2 DEF DspTakes
    <2> QED BY <2>1 DEF Shapes
  <1>3. CASE v.ok /\ low /\ codec.half = Nothing
    <2>1. codec' = [codec EXCEPT !.half = <<v.data>>]
      BY <1>1, <1>3 DEF DspTakes
    <2> QED BY <1>3, <2>1 DEF Shapes, TakesLow
  <1>4. CASE v.ok /\ ~low /\ codec.half # Nothing
    <2>1. codec' = [codec EXCEPT !.half = Nothing, !.open = IF Whole THEN <<>> ELSE Opened,
                                 !.packets = IF Whole THEN Append(@, Opened) ELSE @,
                                 !.torn = @ \/ t]
      BY <1>1, <1>4 DEF DspTakes, Whole, Opened, Word
    <2> HIDE DEF t
    <2>2. /\ codec'.half = Nothing /\ codec'.open = (IF Whole THEN <<>> ELSE Opened)
          /\ codec'.packets = (IF Whole THEN Append(codec.packets, Opened) ELSE codec.packets)
          /\ codec'.torn = (codec.torn \/ t)
      BY <2>1 DEF Shapes
    <2> QED BY <1>4, <2>2 DEF TakesHigh, t
  <1> QED BY <1>2, <1>3, <1>4

LEMMA TornStays ==
    ASSUME Shapes, Forward, ~codec'.torn
    PROVE  ~codec.torn
  <1>1. ~ToDsp => codec'.torn = codec.torn
    BY CodecKeeps DEF Forward, SameDsp
  <1>2. ToDsp => ~codec.torn
    BY DspTook DEF ToDsp, TakesLow, TakesHigh
  <1> QED BY <1>1, <1>2

LEMMA NewHeaderFields ==
    /\ NewHeader.low = TRUE /\ NewHeader.high = FALSE /\ NewHeader.vals = <<>>
    /\ NewHeader.header = <<v.data, 0>> /\ ~Complete(NewHeader)
  BY DEF NewHeader, NoDsp, Complete, ScpSet

LEMMA NoDspFields ==
    NoDsp.low = FALSE /\ NoDsp.high = FALSE /\ NoDsp.vals = <<>> /\ ~Complete(NoDsp)
  BY DEF NoDsp, Complete, ScpSet

LEMMA DspSeqsStep ==
    ASSUME Position, Shapes, DspSeqs, Forward \/ Last
    PROVE  DspSeqs'
  <1>1. Decodes /\ (CodecTakes(v) \/ codec' = codec) /\ IsSeq(dsp.vals) /\ IsSeq(codec.open) /\ IsSeq(codec.packets)
    BY DEF Forward, Last, DspSeqs
  <1>2. IsSeq(codec'.open) /\ IsSeq(codec'.packets)
    <2>1. CASE ToDsp /\ Forward
      <3>1. IsSeq(Opened) /\ IsSeq(Append(codec.packets, Opened))
        BY <1>1, AppendTo DEF Opened
      <3> QED BY <1>1, <2>1, <3>1, NoBytes, DspTook
    <2>2. CASE ~ToDsp /\ Forward
      BY <1>1, <2>2, CodecKeeps DEF SameDsp, Forward
    <2>3. CASE Last
      BY <1>1, <2>3 DEF Last
    <2> QED BY <2>1, <2>2, <2>3
  <1>3. ASSUME NEW d, IsSeq(d.vals) PROVE IsSeq(ScpCheck(d).dsp.vals)
    BY <1>3, CheckLines, NoDspFields, NoBytes
  <1>4. CASE ScpWord
    <2> DEFINE g == IF v.verb = "SCP_LOW" THEN ScpLow ELSE ScpHigh
    <2>1. IsSeq(ScpLow.dsp.vals)
      <3>1. ScpLow.dsp \in {NoDsp, NewHeader, [dsp EXCEPT !.data = <<v.data, 0>>, !.dataLow = TRUE]}
        BY DEF ScpLow, Gathered
      <3>2. [dsp EXCEPT !.data = <<v.data, 0>>, !.dataLow = TRUE].vals = dsp.vals
        BY DEF Shapes, NoDsp
      <3> QED BY <1>1, <3>1, <3>2, NoBytes, NoDspFields, NewHeaderFields
    <2>2. IsSeq(ScpHigh.dsp.vals)
      <3> DEFINE h == [dsp EXCEPT !.header = <<@[1], BitOr(@[2], v.data)>>, !.high = TRUE]
                 k == IF dsp.dataLow THEN dsp ELSE NoDsp
                 w == <<k.data[1], BitOr(k.data[2], v.data)>>
                 l == [k EXCEPT !.data = w, !.vals = Append(@, w)]
      <3>1. ScpHigh.dsp \in {NoDsp, h, l, dsp}
        BY DEF ScpHigh, Gathered
      <3>2. h.vals = dsp.vals
        BY DEF Shapes, NoDsp
      <3>3. IsSeq(k.vals) /\ DOMAIN k = DOMAIN NoDsp
        BY <1>1, NoBytes, NoDspFields DEF Shapes
      <3>4. l.vals = Append(k.vals, w)
        <4> HIDE DEF k, w
        <4> QED BY <3>3 DEF NoDsp
      <3>5. IsSeq(l.vals)
        <4> HIDE DEF k, w, l
        <4> QED BY <3>3, <3>4, AppendTo
      <3> HIDE DEF h, k, w, l
      <3> QED BY <1>1, <3>1, <3>2, <3>5, NoBytes, NoDspFields
    <2>3. dsp' = ScpCheck(g.dsp).dsp
      BY <1>4 DEF ScpWord
    <2> QED BY <1>2, <1>3, <2>1, <2>2, <2>3 DEF DspSeqs
  <1>5. CASE ScpAnswer
    <2>1. ASSUME NEW d, DOMAIN d = DOMAIN NoDsp, IsSeq(d.vals)
          PROVE  /\ IsSeq(OneRead(d).dsp.vals) /\ IsSeq(OnePost(d).dsp.vals)
                 /\ DOMAIN OneRead(d).dsp = DOMAIN NoDsp
      <3> DEFINE r == [d EXCEPT !.reads = @ + 1]
                 p == [d EXCEPT !.posts = @ + 1]
      <3>1. r.vals = d.vals /\ p.vals = d.vals /\ DOMAIN r = DOMAIN NoDsp
        BY <2>1 DEF NoDsp
      <3> HIDE DEF r, p
      <3>2. IsSeq(ScpCheck(r).dsp.vals) /\ IsSeq(ScpCheck(p).dsp.vals)
        BY <1>3, <2>1, <3>1
      <3>3. DOMAIN ScpCheck(r).dsp = DOMAIN NoDsp
        BY <3>1, CheckLines
      <3> QED BY <3>2, <3>3 DEF OneRead, OnePost, r, p
    <2>2. DOMAIN dsp = DOMAIN NoDsp
      BY DEF Shapes
    <2>3. dsp' \in {OnePost(OneRead(dsp).dsp).dsp, OnePost(dsp).dsp, OneRead(dsp).dsp}
      BY <1>5 DEF ScpAnswer
    <2> QED BY <1>1, <1>2, <2>1, <2>2, <2>3 DEF DspSeqs
  <1>6. CASE ~(ScpWord \/ ScpAnswer)
    <2>1. dsp' = dsp
      BY <1>1, <1>6, KeptApart
    <2> QED BY <1>1, <1>2, <2>1 DEF DspSeqs
  <1> QED BY <1>4, <1>5, <1>6

(* The packet d was looked at.                                             *)
Checked(d) == \/ TellsNone /\ dsp' = d /\ (Complete(d) => Header(d).get_flag = 1)
              \/ TellsOne(Words(d)) /\ dsp' = NoDsp /\ Complete(d)

LEMMA CheckedOnce ==
    ASSUME IsSeq(shown), NEW d, dsp' = ScpCheck(d).dsp, shown' = shown \o ScpCheck(d).lines
    PROVE  Checked(d)
  <1>1. CASE ScpCheck(d).dsp = d /\ ScpCheck(d).lines = <<>> /\ (Complete(d) => Header(d).get_flag = 1)
    <2>1. TellsNone
      BY <1>1, NoLines DEF TellsNone
    <2> QED BY <1>1, <2>1 DEF Checked
  <1>2. CASE ScpCheck(d).dsp = NoDsp /\ ScpCheck(d).lines = <<PacketLine(d)>> /\ Complete(d)
    <2>1. TellsOne(Words(d))
      BY <1>2, TellsPacket
    <2> QED BY <1>2, <2>1 DEF Checked
  <1> QED BY <1>1, <1>2, CheckShows

(* The low half of a word begins a packet, or goes to the one at hand, or   *)
(* shows that a query was not answered.                                    *)
LEMMA LowShows ==
    ASSUME IsSeq(shown), Shapes, ScpWord, v.verb = "SCP_LOW"
    PROVE  /\ ~dsp.low => dsp' = NewHeader /\ TellsNone
           /\ Complete(dsp) => dsp' = NewHeader /\ TellsOne(Words(dsp))
           /\ ScpSet(dsp) /\ ~Complete(dsp) =>
                 /\ TellsNone /\ dsp'.low = dsp.low /\ dsp'.high = dsp.high /\ dsp'.vals = dsp.vals
                 /\ dsp'.header = dsp.header /\ dsp'.dataLow /\ dsp'.data = <<v.data, 0>>
  <1>1. shown' = shown \o (ScpLow.lines \o ScpCheck(ScpLow.dsp).lines) /\ dsp' = ScpCheck(ScpLow.dsp).dsp
    BY DEF ScpWord, Show
  <1>2. ASSUME ~dsp.low PROVE dsp' = NewHeader /\ TellsNone
    <2>1. ScpLow.dsp = NewHeader /\ ScpLow.lines = <<>>
      BY <1>2 DEF ScpLow, Gathered, ScpSet
    <2>2. dsp' = NewHeader /\ shown' = shown \o <<>>
      BY <1>1, <2>1, NewHeaderFields, CheckShows, ShortConcat
    <2> QED BY <2>2, NoLines DEF TellsNone
  <1>3. ASSUME Complete(dsp) PROVE dsp' = NewHeader /\ TellsOne(Words(dsp))
    <2>1. ScpLow.dsp = NewHeader /\ ScpLow.lines = <<PacketLine(dsp)>>
      BY <1>3 DEF ScpLow, Gathered, Complete, WantsData
    <2>2. dsp' = NewHeader /\ shown' = shown \o <<PacketLine(dsp)>>
      BY <1>1, <2>1, NewHeaderFields, CheckShows, ShortConcat
    <2> QED BY <2>2, TellsPacket
  <1>4. ASSUME ScpSet(dsp), ~Complete(dsp)
        PROVE  /\ TellsNone /\ dsp'.low = dsp.low /\ dsp'.high = dsp.high /\ dsp'.vals = dsp.vals
               /\ dsp'.header = dsp.header /\ dsp'.dataLow /\ dsp'.data = <<v.data, 0>>
    <2>1. PICK d : d = [dsp EXCEPT !.data = <<v.data, 0>>, !.dataLow = TRUE]
      OBVIOUS
    <2>2. /\ d.low = dsp.low /\ d.high = dsp.high /\ d.vals = dsp.vals
          /\ d.header = dsp.header /\ d.dataLow = TRUE /\ d.data = <<v.data, 0>>
      BY <2>1 DEF Shapes, NoDsp
    <2>3. ScpLow.dsp = d /\ ScpLow.lines = <<>>
      BY <1>4, <2>1 DEF ScpLow, Gathered, Complete, WantsData
    <2>4. ~Complete(d)
      BY <1>4, <2>2 DEF Complete, ScpSet, Header
    <2>5. dsp' = d /\ shown' = shown \o <<>>
      BY <1>1, <2>3, <2>4, CheckShows, ShortConcat
    <2> QED BY <2>2, <2>5, NoLines DEF TellsNone
  <1> QED BY <1>2, <1>3, <1>4

LEMMA HighChecked ==
    ASSUME IsSeq(shown), ScpWord, v.verb = "SCP_HIGH", NEW d, ScpHigh.dsp = d, ScpHigh.lines = <<>>
    PROVE  Checked(d)
  <1>1. shown' = shown \o (ScpHigh.lines \o ScpCheck(ScpHigh.dsp).lines) /\ dsp' = ScpCheck(ScpHigh.dsp).dsp
    BY DEF ScpWord, Show
  <1>2. ScpCheck(d).lines = <<>> \/ ScpCheck(d).lines = <<PacketLine(d)>>
    BY CheckShows
  <1>3. shown' = shown \o ScpCheck(d).lines
    BY <1>1, <1>2, ShortConcat
  <1> QED BY <1>1, <1>3, CheckedOnce

(* The high half ends the header ...                                       *)
LEMMA HeaderEnds ==
    ASSUME IsSeq(shown), Shapes, ScpWord, v.verb = "SCP_HIGH", dsp.low, ~dsp.high,
           NEW w, w = <<dsp.header[1], BitOr(dsp.header[2], v.data)>>,
           GetScpData(w).data_size < SizeLimit
    PROVE  \E d : Checked(d) /\ ScpSet(d) /\ d.header = w /\ d.vals = dsp.vals
  <1>1. PICK d : d = [dsp EXCEPT !.header = <<@[1], BitOr(@[2], v.data)>>, !.high = TRUE]
    OBVIOUS
  <1>2. d.header = w /\ d.high = TRUE /\ d.low = dsp.low /\ d.vals = dsp.vals
    BY <1>1 DEF Shapes, NoDsp
  <1>3. ScpHigh.dsp = d /\ ScpHigh.lines = <<>>
    BY <1>1, <1>2 DEF ScpHigh, Gathered, ScpSet, Header
  <1>4. Checked(d)
    BY <1>3, HighChecked
  <1> QED BY <1>2, <1>4 DEF ScpSet

(* ... or a word of the packet at hand.                                    *)
LEMMA WordEnds ==
    ASSUME IsSeq(shown), Shapes, ScpWord, v.verb = "SCP_HIGH", ScpSet(dsp), ~Complete(dsp),
           dsp.dataLow, NEW w, w = <<dsp.data[1], BitOr(dsp.data[2], v.data)>>
    PROVE  \E d : /\ Checked(d) /\ ScpSet(d) /\ d.header = dsp.header
                  /\ d.vals = Append(dsp.vals, w)
  <1>1. PICK d : d = [dsp EXCEPT !.data = w, !.vals = Append(@, w)]
    OBVIOUS
  <1>2. d.header = dsp.header /\ d.high = dsp.high /\ d.low = dsp.low
        /\ d.vals = Append(dsp.vals, w)
    BY <1>1 DEF Shapes, NoDsp
  <1>3. ScpHigh.dsp = d /\ ScpHigh.lines = <<>>
    BY <1>1 DEF ScpHigh, Gathered, Complete, WantsData
  <1>4. Checked(d)
    BY <1>3, HighChecked
  <1> QED BY <1>2, <1>4 DEF ScpSet

(* d holds what e does, but for the answers that were seen.                 *)
SameButAnswers(d, e) ==
    /\ DOMAIN d = DOMAIN NoDsp /\ d.low = e.low /\ d.high = e.high /\ d.vals = e.vals
    /\ d.header = e.header /\ d.dataLow = e.dataLow /\ d.data = e.data

LEMMA OneAnswer ==
    ASSUME NEW d, NEW e, SameButAnswers(d, e), NEW g, g = OneRead(d) \/ g = OnePost(d)
    PROVE  \/ g.lines = <<>> /\ SameButAnswers(g.dsp, e)
           \/ g.dsp = NoDsp /\ Complete(e) /\ \E c : g.lines = <<PacketLine(c)>> /\ Words(c) = Words(e)
  <1>1. ASSUME NEW c, c = [d EXCEPT !.reads = @ + 1] \/ c = [d EXCEPT !.posts = @ + 1]
        PROVE  SameButAnswers(c, e) /\ Words(c) = Words(e) /\ (Complete(c) <=> Complete(e))
    <2>1. SameButAnswers(c, e)
      BY <1>1 DEF SameButAnswers, NoDsp
    <2> QED BY <2>1 DEF SameButAnswers, Words, Complete, ScpSet, Header
  <1>2. \E c : g = ScpCheck(c) /\ SameButAnswers(c, e) /\ Words(c) = Words(e) /\ (Complete(c) <=> Complete(e))
    BY <1>1 DEF OneRead, OnePost
  <1> QED BY <1>2, CheckShows

(* Answers show the packet that waits for them, if any.                     *)
LEMMA AnswerShows ==
    ASSUME IsSeq(shown), Shapes, ScpAnswer
    PROVE  \/ TellsNone /\ SameButAnswers(dsp', dsp)
           \/ TellsOne(Words(dsp)) /\ Complete(dsp) /\ ~dsp'.low
  <1>1. SameButAnswers(dsp, dsp)
    BY DEF SameButAnswers, Shapes
  <1>2. ASSUME NEW g, g = OneRead(dsp) \/ g = OnePost(dsp), dsp' = g.dsp,
               shown' = shown \o g.lines
        PROVE  \/ TellsNone /\ SameButAnswers(dsp', dsp)
               \/ TellsOne(Words(dsp)) /\ Complete(dsp) /\ ~dsp'.low
    <2>1. CASE g.lines = <<>> /\ SameButAnswers(g.dsp, dsp)
      BY <1>2, <2>1, NoLines DEF TellsNone
    <2>2. CASE g.dsp = NoDsp /\ Complete(dsp) /\ \E c : g.lines = <<PacketLine(c)>> /\ Words(c) = Words(dsp)
      BY <1>2, <2>2, TellsPacket, NoDspFields
    <2> QED BY <1>1, <1>2, <2>1, <2>2, OneAnswer
  <1>3. ASSUME NEW c, NEW e, c = OneRead(dsp), e = OnePost(c.dsp), dsp' = e.dsp,
               shown' = shown \o (c.lines \o e.lines)
        PROVE  \/ TellsNone /\ SameButAnswers(dsp', dsp)
               \/ TellsOne(Words(dsp)) /\ Complete(dsp) /\ ~dsp'.low
    <2>1. CASE c.lines = <<>> /\ SameButAnswers(c.dsp, dsp)
      <3>1. CASE e.lines = <<>> /\ SameButAnswers(e.dsp, dsp)
        <4>1. shown' = shown \o <<>>
          BY <1>3, <2>1, <3>1, ShortConcat
        <4> QED BY <1>3, <3>1, <4>1, NoLines DEF TellsNone
      <3>2. CASE e.dsp = NoDsp /\ Complete(dsp) /\ \E p : e.lines = <<PacketLine(p)>> /\ Words(p) = Words(dsp)
        <4>1. PICK p : e.lines = <<PacketLine(p)>> /\ Words(p) = Words(dsp)
          BY <3>2
        <4>2. shown' = shown \o <<PacketLine(p)>>
          BY <1>3, <2>1, <4>1, ShortConcat
        <4> QED BY <1>3, <3>2, <4>1, <4>2, TellsPacket, NoDspFields
      <3> QED BY <1>3, <2>1, <3>1, <3>2, OneAnswer
    <2>2. CASE c.dsp = NoDsp /\ Complete(dsp) /\ \E p : c.lines = <<PacketLine(p)>> /\ Words(p) = Words(dsp)
      <3>1. PICK p : c.lines = <<PacketLine(p)>> /\ Words(p) = Words(dsp)
        BY <2>2
      <3>2. SameButAnswers(NoDsp, NoDsp)
        BY DEF SameButAnswers
      <3>3. e.lines = <<>> /\ SameButAnswers(e.dsp, NoDsp)
        BY <1>3, <2>2, <3>2, OneAnswer, NoDspFields
      <3>4. shown' = shown \o <<PacketLine(p)>>
        BY <1>3, <3>1, <3>3, ShortConcat
      <3>5. ~dsp'.low
        BY <1>3, <3>3, NoDspFields DEF SameButAnswers
      <3> QED BY <2>2, <3>1, <3>4, <3>5, TellsPacket
    <2> QED BY <1>1, <1>3, <2>1, <2>2, OneAnswer
  <1>4. \/ dsp' = OnePost(OneRead(dsp).dsp).dsp
           /\ shown' = shown \o (OneRead(dsp).lines \o OnePost(OneRead(dsp).dsp).lines)
        \/ dsp' = OnePost(dsp).dsp /\ shown' = shown \o OnePost(dsp).lines
        \/ dsp' = OneRead(dsp).dsp /\ shown' = shown \o OneRead(dsp).lines
    BY DEF ScpAnswer, Show
  <1> QED BY <1>2, <1>3, <1>4

(* A step that sends nothing and shows nothing leaves what is held.         *)
LEMMA NothingSent ==
    ASSUME Position, DspInv, Decoding, ~codec.torn, TellsNone, SameDsp, SameButAnswers(dsp', dsp)
    PROVE  DspInv'
  <1>1. WordsAreSent'
    BY WordsStay DEF DspInv, SameDsp, Position
  <1>2. Told' = Told /\ Sent' = Sent /\ codec'.half = codec.half
    BY NoneTold DEF Position, Sent, SameDsp
  <1>3. /\ HasHead => HasHead'
        /\ HasPart => HasPart'
        /\ HasLow => HasLow'
        /\ HasNone => HasNone'
        /\ HasAll => HasAll'
    <2>1. Held' = Held /\ Header(dsp)' = Header(dsp) /\ ScpSet(dsp)' = ScpSet(dsp)
      BY DEF Held, Header, ScpSet, SameButAnswers
    <2> QED BY <1>2, <2>1 DEF HasHead, HasPart, HasLow, HasNone, HasAll, SameDsp, SameButAnswers
  <1> QED BY <1>1, <1>2, <1>3 DEF DspInv

(* The word that the DSP has put to its packet the decoder has as well.     *)
LEMMA WordTaken ==
    ASSUME Position, DspSeqs, WordsAreSent, TakesHigh, Told = Sent,
           NEW d, Checked(d), ScpSet(d), Words(d) = Opened, d.header = Opened[1],
           NEW a \in HalfWord, a = d.header[2],
           IsSeq(d.vals), Len(d.vals) <= Header(d).data_size
    PROVE  DspInv'
  <1>1. Header(d).data_size \in Nat /\ Header(d) = GetScpData(Opened[1])
    BY SizeIsNat DEF Header
  <1>2. Len(d.vals) \in Nat /\ Len(Opened) = Len(d.vals) + 1
    BY SeqFacts, HeaderFirst DEF Words
  <1>3. Whole <=> Complete(d)
    <2>1. Whole <=> Len(d.vals) + 1 = 1 + Header(d).data_size
      BY <1>1, <1>2 DEF Whole
    <2>2. Complete(d) <=> Len(d.vals) = Header(d).data_size
      BY DEF Complete
    <2>3. ASSUME NEW m \in Nat, NEW n \in Nat PROVE m + 1 = 1 + n <=> m = n
      OBVIOUS
    <2> QED BY <1>1, <1>2, <2>1, <2>2, <2>3
  <1>4. Sent \in Nat /\ IsSeq(shown) /\ codec'.half = Nothing
    BY SeqFacts DEF DspSeqs, Sent, Position, TakesHigh
  <1>5. CASE ~Complete(d)
    <2>1. TellsNone /\ dsp' = d /\ codec'.packets = codec.packets /\ codec'.open = Opened
      BY <1>3, <1>5 DEF Checked, TakesHigh
    <2>2. WordsAreSent' /\ Told' = Told /\ Sent' = Sent
      BY <1>4, <2>1, WordsStay, NoneTold DEF Sent
    <2>3. HasPart'
      <3>1. Len(d.vals) # Header(d).data_size
        BY <1>5 DEF Complete
      <3>2. Len(d.vals) < Header(d).data_size
        BY <1>1, <1>2, <3>1
      <3> QED BY <2>1, <3>2 DEF HasPart, Held, Words
    <2> QED BY <1>4, <2>2, <2>3 DEF DspInv
  <1>6. CASE Complete(d)
    <2>1. codec'.packets = Append(codec.packets, Opened) /\ codec'.open = <<>>
      BY <1>3, <1>6 DEF TakesHigh
    <2>2. /\ Sent' = Sent + 1 /\ codec'.packets[Sent + 1] = Opened
          /\ \A i \in 1 .. Sent : codec'.packets[i] = codec.packets[i]
      BY <2>1, AppendTo DEF DspSeqs, Sent
    <2>3. CASE TellsNone /\ dsp' = d /\ Header(d).get_flag = 1
      <3>1. WordsAreSent' /\ Told' = Told
        BY <1>4, <2>2, <2>3, WordsStay, NoneTold
      <3>2. Sent' > 0
        BY <1>4, <2>2
      <3>3. HasAll'
        BY <1>6, <2>1, <2>2, <2>3, <3>2 DEF HasAll, Complete, Held, Words
      <3> QED BY <1>4, <2>2, <3>1, <3>3 DEF DspInv
    <2>4. CASE TellsOne(Words(d)) /\ dsp' = NoDsp
      <3>1. WordsAreSent'
        BY <1>4, <2>2, <2>4, WordsAdded
      <3>2. Told' = Told + 1
        BY <1>4, <2>4, OneTold
      <3>3. HasNone'
        BY <2>1, <2>4, NoDspFields DEF HasNone
      <3> QED BY <1>4, <2>2, <3>1, <3>2, <3>3 DEF DspInv
    <2> QED BY <1>6, <2>3, <2>4 DEF Checked
  <1> QED BY <1>5, <1>6

LEMMA DspHigh ==
    ASSUME Position, Shapes, DspSeqs, DspInv, Decoding, Forward, ScpWord, v.verb = "SCP_HIGH",
           TakesHigh
    PROVE  DspInv'
  <1>1. /\ v.data \in HalfWord /\ BitOr(0, v.data) = v.data /\ IsSeq(shown)
    BY OrOnce DEF Forward, Frame, Position
  <1>2. WordsAreSent /\ Told = Sent /\ (HasHead \/ (HasPart /\ HasLow))
    BY DEF DspInv, TakesHigh
  <1>3. CASE HasHead
    <2>1. dsp.low /\ ~dsp.high /\ dsp.vals = <<>> /\ codec.open = <<>> /\ dsp.header = <<codec.half[1], 0>>
      BY <1>3 DEF HasHead
    <2>2. Opened = <<Word>> /\ Opened[1] = Word /\ Word[2] = v.data
      BY <2>1, NoBytes DEF Opened, Word
    <2>3. Word = <<dsp.header[1], BitOr(dsp.header[2], v.data)>>
      BY <1>1, <2>1 DEF Word
    <2>4. GetScpData(Word).data_size \in Nat
      BY <1>1, <2>2, SizeIsNat
    <2>5. GetScpData(Word).data_size < SizeLimit
      BY <2>2, <2>4 DEF TakesHigh, SizeLimit
    <2>6. PICK d : Checked(d) /\ ScpSet(d) /\ d.header = Word /\ d.vals = <<>>
      BY <1>1, <2>1, <2>3, <2>5, HeaderEnds
    <2>7. Words(d) = Opened
      BY <2>2, <2>6, ShortConcat DEF Words
    <2>8. Len(d.vals) <= Header(d).data_size /\ IsSeq(d.vals)
      BY <2>4, <2>6, NoBytes DEF Header
    <2> QED BY <1>1, <1>2, <2>2, <2>6, <2>7, <2>8, WordTaken
  <1>4. CASE HasPart /\ HasLow
    <2>1. /\ ScpSet(dsp) /\ codec.open = Words(dsp) /\ Len(dsp.vals) < Header(dsp).data_size
          /\ dsp.header[2] \in HalfWord /\ dsp.dataLow /\ dsp.data = <<codec.half[1], 0>>
          /\ IsSeq(dsp.vals)
      BY <1>4 DEF HasPart, HasLow, Held, Words, DspSeqs
    <2>2. Word = <<dsp.data[1], BitOr(dsp.data[2], v.data)>>
      BY <1>1, <2>1 DEF Word
    <2>3. Header(dsp).data_size \in Nat /\ Len(dsp.vals) \in Nat
      BY <2>1, SizeIsNat, SeqFacts DEF Header
    <2>4. ~Complete(dsp)
      BY <2>1, <2>3 DEF Complete
    <2>5. PICK d : /\ Checked(d) /\ ScpSet(d) /\ d.header = dsp.header
                   /\ d.vals = Append(dsp.vals, Word)
      BY <1>1, <2>1, <2>2, <2>4, WordEnds
    <2>6. /\ IsSeq(d.vals) /\ Len(d.vals) = Len(dsp.vals) + 1 /\ Words(d) = Opened
      <3>1. IsSeq(d.vals) /\ Len(d.vals) = Len(dsp.vals) + 1
        BY <2>1, <2>5, AppendTo
      <3>2. Words(d) = <<dsp.header>> \o Append(dsp.vals, Word)
        BY <2>5 DEF Words
      <3>3. Opened = Append(<<dsp.header>> \o dsp.vals, Word)
        BY <2>1 DEF Words, Opened
      <3>4. Append(<<dsp.header>> \o dsp.vals, Word) = <<dsp.header>> \o Append(dsp.vals, Word)
        BY <2>1, HeaderFirst
      <3> QED BY <3>1, <3>2, <3>3, <3>4
    <2>7. Opened[1] = d.header
      BY <2>6, HeaderFirst DEF Words
    <2>8. Len(d.vals) <= Header(d).data_size
      BY <2>1, <2>3, <2>5, <2>6 DEF Header
    <2> QED BY <1>2, <2>1, <2>5, <2>6, <2>7, <2>8, WordTaken
  <1> QED BY <1>2, <1>3, <1>4

LEMMA DspLow ==
    ASSUME Position, Shapes, DspSeqs, DspInv, Decoding, ScpWord, v.verb = "SCP_LOW", TakesLow
    PROVE  DspInv'
  <1>1. /\ IsSeq(shown) /\ WordsAreSent /\ codec'.half # Nothing /\ codec'.half[1] = v.data
        /\ codec'.packets = codec.packets /\ codec'.open = codec.open /\ Sent' = Sent
    BY NoBytes DEF DspInv, TakesLow, Position, Nothing, Sent
  <1>2. CASE Told = Sent /\ HasNone
    <2>1. dsp' = NewHeader /\ TellsNone /\ codec.open = <<>>
      BY <1>1, <1>2, LowShows DEF HasNone
    <2>2. WordsAreSent' /\ Told' = Told
      BY <1>1, <2>1, WordsStay, NoneTold
    <2>3. HasHead'
      BY <1>1, <2>1, NewHeaderFields DEF HasHead
    <2> QED BY <1>1, <1>2, <2>2, <2>3 DEF DspInv
  <1>3. CASE Told = Sent /\ HasPart
    <2>1. ScpSet(dsp) /\ Len(dsp.vals) < Header(dsp).data_size /\ dsp.header[2] \in HalfWord
          /\ IsSeq(dsp.vals)
      BY <1>3 DEF HasPart, DspSeqs
    <2>2. Header(dsp).data_size \in Nat /\ Len(dsp.vals) \in Nat
      BY <2>1, SizeIsNat, SeqFacts DEF Header
    <2>3. ~Complete(dsp)
      BY <2>1, <2>2 DEF Complete
    <2>4. /\ TellsNone /\ dsp'.low = dsp.low /\ dsp'.high = dsp.high /\ dsp'.vals = dsp.vals
          /\ dsp'.header = dsp.header /\ dsp'.dataLow /\ dsp'.data = <<v.data, 0>>
      BY <1>1, <2>1, <2>3, LowShows
    <2>5. WordsAreSent' /\ Told' = Told
      BY <1>1, <2>4, WordsStay, NoneTold
    <2>6. HasPart' /\ HasLow'
      BY <1>1, <1>3, <2>4 DEF HasPart, HasLow, Held, Header, ScpSet
    <2> QED BY <1>1, <1>3, <2>5, <2>6 DEF DspInv
  <1>4. CASE Told + 1 = Sent /\ HasAll
    <2>1. dsp' = NewHeader /\ TellsOne(Words(dsp)) /\ codec.open = <<>>
      BY <1>1, <1>4, LowShows DEF HasAll, Complete
    <2>2. codec'.packets[Told + 1] = Words(dsp)
      BY <1>1, <1>4 DEF HasAll, Held, Words
    <2>3. WordsAreSent'
      BY <1>1, <2>1, <2>2, WordsAdded
    <2>4. Told' = Told + 1
      BY <1>1, <2>1, OneTold
    <2>5. HasHead'
      BY <1>1, <2>1, NewHeaderFields DEF HasHead
    <2> QED BY <1>1, <1>4, <2>3, <2>4, <2>5 DEF DspInv
  <1> QED BY <1>2, <1>3, <1>4 DEF DspInv, TakesLow

LEMMA DspAnswer ==
    ASSUME Position, Shapes, DspSeqs, DspInv, Decoding, ~codec.torn, ScpAnswer, SameDsp
    PROVE  DspInv'
  <1>1. IsSeq(shown) /\ WordsAreSent /\ Sent' = Sent
    BY DEF DspInv, Position, SameDsp, Sent
  <1>2. CASE TellsNone /\ SameButAnswers(dsp', dsp)
    BY <1>2, NothingSent
  <1>3. CASE TellsOne(Words(dsp)) /\ Complete(dsp) /\ ~dsp'.low
    <2>1. ~HasHead /\ ~HasNone
      BY <1>3 DEF HasHead, HasNone, Complete, ScpSet
    <2>2. ~HasPart
      <3>1. SUFFICES ASSUME HasPart PROVE FALSE
        OBVIOUS
      <3>2. dsp.header[2] \in HalfWord /\ Len(dsp.vals) < Header(dsp).data_size /\ IsSeq(dsp.vals)
        BY <3>1 DEF HasPart, DspSeqs
      <3>3. Header(dsp).data_size \in Nat /\ Len(dsp.vals) \in Nat
        BY <3>2, SizeIsNat, SeqFacts DEF Header
      <3> QED BY <1>3, <3>2, <3>3 DEF Complete
    <2>3. codec.half = Nothing /\ Told + 1 = Sent /\ HasAll
      BY <2>1, <2>2 DEF DspInv
    <2>4. codec'.packets[Told + 1] = Words(dsp)
      BY <2>3 DEF HasAll, Held, Words, SameDsp
    <2>5. WordsAreSent'
      BY <1>1, <1>3, <2>4, WordsAdded DEF SameDsp
    <2>6. Told' = Told + 1
      BY <1>1, <1>3, OneTold
    <2>7. HasNone' /\ codec'.half = Nothing
      BY <1>3, <2>3 DEF HasNone, HasAll, SameDsp
    <2> QED BY <1>1, <2>3, <2>5, <2>6, <2>7 DEF DspInv
  <1> QED BY <1>1, <1>2, <1>3, AnswerShows

LEMMA DspStep ==
    ASSUME Position, Shapes, DspSeqs, DspInv, Forward
    PROVE  DspInv'
  <1>1. Decodes /\ CodecTakes(v) /\ Decoding /\ IsSeq(shown)
    BY DEF Forward, Decoding, Position
  <1> SUFFICES ASSUME ~codec'.torn PROVE DspInv'
    BY DEF DspInv
  <1>2. ~codec.torn
    BY TornStays
  <1>3. CASE ScpWord
    <2>1. ToDsp
      BY <1>3, ActionsOfChip DEF ChipActions, ToDsp, ScpWord
    <2> QED BY <1>1, <1>3, <2>1, DspTook, DspLow, DspHigh DEF ScpWord
  <1>4. CASE ScpAnswer
    <2>1. ~ToDsp
      BY <1>4 DEF ToDsp, ScpAnswer
    <2> QED BY <1>1, <1>2, <1>4, <2>1, CodecKeeps, DspAnswer
  <1>5. CASE ~(ScpWord \/ ScpAnswer)
    <2>1. ~ToDsp
      <3>1. \A n \in Nodes : n # "dsp"
        BY FilesAssumption
      <3> QED BY <1>1, <1>5, <3>1, ActionsOfChip
              DEF ToDsp, Decodes, Decode, ChipActions, ToChip, DspVerb, HicVerbs
    <2>2. dsp' = dsp /\ SameDsp
      BY <1>1, <1>5, <2>1, KeptApart, CodecKeeps
    <2>3. TellsNone
      BY <1>1, <1>5, LinesOfActions DEF KindsOfActions, TellsNone
    <2>4. SameButAnswers(dsp', dsp)
      BY <2>2 DEF SameButAnswers, Shapes
    <2> QED BY <1>1, <1>2, <2>2, <2>3, <2>4, NothingSent
  <1> QED BY <1>3, <1>4, <1>5

LEMMA BlankPackets ==
    Blank => DspSeqs /\ DspInv /\ PacketsAreShown
  <1> SUFFICES ASSUME Blank PROVE DspSeqs /\ DspInv /\ PacketsAreShown
    OBVIOUS
  <1>1. /\ Lines("scp") = {} /\ codec.packets = <<>> /\ codec.open = <<>> /\ codec.half = Nothing
        /\ dsp = NoDsp
    BY NoBytes DEF Blank, Lines, CodecInit
  <1>2. Told = 0 /\ Sent = 0
    BY <1>1, FS_EmptySet, NoBytes DEF Told, Sent
  <1>3. DspSeqs /\ HasNone
    BY <1>1, NoBytes, NoDspFields DEF DspSeqs, HasNone
  <1> QED BY <1>1, <1>2, <1>3 DEF DspInv, WordsAreSent, PacketsAreShown, Told, Sent

(* The packets are shown as they were sent; only one that the decoder holds *)
(* complete, a query, may still be missing.                                 *)
LEMMA PacketsByInv ==
    ASSUME Position, DspSeqs, DspInv
    PROVE  PacketsAreShown
  <1>1. CASE pass = "count"
    BY <1>1, BlankPackets DEF Position
  <1>2. CASE Decoding /\ ~codec.torn
    <2>1. WordsAreSent
      BY <1>2 DEF DspInv
    <2>2. Told + 1 = Sent /\ HasAll => GetScpData(codec.packets[Sent][1]).get_flag = 1
      <3>1. HasAll => codec.packets[Sent] = Held /\ Held[1] = dsp.header
        BY HeaderFirst DEF HasAll, Held, DspSeqs
      <3> QED BY <3>1 DEF HasAll, Header
    <2>3. Told = Sent \/ (Told + 1 = Sent /\ HasAll)
      BY <1>2 DEF DspInv
    <2> QED BY <2>1, <2>2, <2>3 DEF PacketsAreShown, WordsAreSent, Told, Sent
  <1>3. CASE atEnd \/ codec.torn
    BY <1>3 DEF PacketsAreShown
  <1> QED BY <1>1, <1>2, <1>3 DEF Position, Decoding

-----------------------------------------------------------------------------
(***************************************************************************)
(* All of it together.                                                     *)
(***************************************************************************)
IInv == /\ Position /\ Shapes
        /\ HicInv /\ RamInv /\ RunInv /\ ParamInv /\ SetByLast /\ EndInv /\ DspSeqs /\ DspInv
        /\ FirstWordsAreShown /\ ExramIsReplayed /\ SettingsAreReplayed

(* Before the first verb that is decoded nothing is kept, and nothing shown. *)
LEMMA BlankShows ==
    Blank => FirstWordsAreShown /\ ExramIsReplayed /\ SettingsAreReplayed
  <1> SUFFICES ASSUME Blank PROVE FirstWordsAreShown /\ ExramIsReplayed /\ SettingsAreReplayed
    OBVIOUS
  <1>1. \A k : Lines(k) = {}
    BY NoBytes DEF Blank, Lines
  <1>2. FirstWordsAreShown
    BY DEF Blank, CodecInit, FirstWordsAreShown
  <1>3. ExramIsReplayed
    <2>1. ram.run = <<>> /\ \A a \in RamAddr : codec.exram[a] = 0
      BY DEF Blank, CodecInit, NoRam
    <2>4. Len(ram.run) <= RunSize
      BY <2>1, NoBytes, RunSizeAssumption
    <2>2. \A a : Spares(ram.addr, ram.run, a)
      BY <2>1, NoBytesSpare
    <2>3. \A a : ShownLeaves(a, 0)
      BY <1>1 DEF ShownLeaves
    <2> QED BY <2>1, <2>2, <2>3, <2>4 DEF ExramIsReplayed
  <1>4. SettingsAreReplayed
    <2>1. /\ \A p \in ParamIds : codec.params[p] = 0
          /\ \A f \in FlagIds : codec.flags[f] = 0
      BY DEF Blank, CodecInit
    <2>2. \A k, id : Replayed(k, id, 0)
      BY <1>1 DEF Replayed, LinesFor
    <2> QED BY <2>1, <2>2 DEF SettingsAreReplayed
  <1> QED BY <1>2, <1>3, <1>4

Start == Blank /\ pos = 0

LEMMA BlankStarts ==
    Start => HicInv /\ RamInv /\ RunInv /\ ParamInv /\ SetByLast
  <1> SUFFICES ASSUME Blank, pos = 0 PROVE HicInv /\ RamInv /\ RunInv /\ ParamInv /\ SetByLast
    BY DEF Start
  <1>1. /\ ~hic.low /\ ~codec.aimed /\ ram = NoRam /\ ~codec.placed /\ ~param.set
    BY DEF Blank, CodecInit, NoHic
  <1>2. \A K : NoneOf(file, mainCodec, K, pos)
    BY NoneYet
  <1>3. RunInv
    BY <1>1, NoRamFields, NoBytes DEF RunInv, InRun, RamComplete
  <1> QED BY <1>1, <1>2, <1>3 DEF HicInv, RamInv, ParamInv, SetByLast

LEMMA CountsNothing ==
    ASSUME pass = "count"
    PROVE  HicInv /\ RamInv /\ RunInv /\ ParamInv /\ SetByLast
  BY DEF HicInv, RamInv, RunInv, ParamInv, SetByLast, Decoding

LEMMA InitIInv ==
    ASSUME DumpInit
    PROVE  IInv
  <1>1. Blank /\ pass = "count" /\ pos = 0 /\ atEnd = FALSE /\ file \in Files /\ cur = NoVerb
        /\ downloads = 0
    BY DEF DumpInit, Init, Blank
  <1>2. Position
    <2>1. Len(file) \in Nat /\ IsSeq(shown)
      BY <1>1, FileFrames, NoBytes DEF Blank
    <2>2. pos \in 0 .. Len(file)
      <3>1. ASSUME NEW l \in Nat PROVE 0 \in 0 .. l
        OBVIOUS
      <3> QED BY <1>1, <2>1, <3>1
    <2>3. atEnd \in BOOLEAN /\ ~atEnd
      BY <1>1
    <2>4. ~(pos > 0)
      BY <1>1
    <2>5. pass \in {"count", "decode"}
      BY <1>1
    <2> QED BY <1>1, <2>1, <2>2, <2>3, <2>4, <2>5 DEF Position
  <1>3. Shapes
    <2>1. <<0, 0>> \in Byte \X Byte
      BY DEF Byte
    <2> QED BY <2>1 DEF DumpInit, Init, CodecInit, Shapes
  <1>4. EndInv
    <2>1. FreesUpTo(0) = {} /\ Twice = 0 /\ Cardinality({}) = 0
      BY <1>1, <1>2, FreesCounted DEF Twice
    <2> QED BY <1>1, <2>1 DEF EndInv
  <1> QED BY <1>1, <1>2, <1>3, <1>4, BlankShows, BlankPackets, CountsNothing DEF IInv

LEMMA NextIInv ==
    ASSUME IInv, DumpNext
    PROVE  IInv'
  <1>1. /\ Position /\ Shapes /\ HicInv /\ RamInv /\ RunInv /\ ParamInv /\ SetByLast /\ EndInv
        /\ DspSeqs /\ DspInv
        /\ FirstWordsAreShown /\ ExramIsReplayed /\ SettingsAreReplayed
    BY DEF IInv
  <1>2. Position' /\ Shapes' /\ EndInv'
    BY <1>1, PositionStep, ShapesStep, EndStep
  <1>3. Blank' => /\ FirstWordsAreShown' /\ ExramIsReplayed' /\ SettingsAreReplayed'
                  /\ DspSeqs' /\ DspInv'
    BY BlankShows, BlankPackets, PTL
  <1>4. Position' /\ RunInv' => Len(ram'.run) <= RunSize
    <2>1. (Position /\ RunInv => Len(ram.run) <= RunSize)'
      BY RunWithin, PTL
    <2> QED BY <2>1
  <1>5. CASE Counts
    <2>1. Blank' /\ ~Decoding'
      BY <1>2, <1>5 DEF Counts, Position, Decoding
    <2>2. RunInv'
      BY <1>5 DEF Counts, RunInv
    <2> QED BY <1>2, <1>3, <2>1, <2>2 DEF IInv, HicInv, RamInv, ParamInv, SetByLast
  <1>6. CASE Rewinds
    <2>1. Blank' /\ pos' = 0
      BY <1>1, <1>6 DEF Rewinds, Position, Blank, gathered, CodecInit
    <2>2. Start' => HicInv' /\ RamInv' /\ RunInv' /\ ParamInv' /\ SetByLast'
      BY BlankStarts, PTL
    <2> QED BY <1>2, <1>3, <2>1, <2>2 DEF IInv, Start
  <1>7. CASE Forward
    <2>1. RunInv' /\ Len(ram'.run) <= RunSize
      BY <1>1, <1>2, <1>4, <1>7, RunStep
    <2>2. ExramIsReplayed'
      BY <1>1, <1>7, <2>1, ExramStep
    <2> QED BY <1>1, <1>2, <1>7, <2>1, <2>2, HicStep, RamStep, ParamStep, SetByLastStep,
               FirstWordsStep, SettingsStep, DspSeqsStep, DspStep DEF IInv
  <1>8. CASE Last
    <2>1. ~Decoding' /\ atEnd'
      BY <1>8 DEF Last, Decoding
    <2>2. FirstWordsAreShown' /\ SettingsAreReplayed'
      BY <1>1, <1>8, FirstWordsStep, SettingsAgain
    <2>3. DspSeqs'
      BY <1>1, <1>8, DspSeqsStep
    <2>4. RunInv' /\ Len(ram'.run) <= RunSize
      BY <1>1, <1>2, <1>4, <1>8, RunStep
    <2> QED BY <1>2, <2>1, <2>2, <2>3, <2>4
            DEF IInv, HicInv, RamInv, ParamInv, SetByLast, DspInv, ExramIsReplayed
  <1> QED BY <1>1, <1>5, <1>6, <1>7, <1>8, StepKinds

LEMMA StutterIInv ==
    ASSUME IInv, UNCHANGED allVars
    PROVE  IInv'
  <1>1. /\ file' = file /\ pass' = pass /\ pos' = pos /\ atEnd' = atEnd /\ cur' = cur
        /\ mainCodec' = mainCodec /\ downloads' = downloads /\ freed' = freed /\ hic' = hic
        /\ ram' = ram /\ param' = param /\ dsp' = dsp /\ shown' = shown /\ codec' = codec
    BY DEF allVars, vars, reading, counted, gathered
  <1>2. Position' /\ Shapes'
    BY <1>1 DEF IInv, Position, Blank, CodecInit, Shapes
  <1>3. \A k : Lines(k)' = Lines(k)
    BY <1>1 DEF Lines
  <1>4. HicInv'
    BY <1>1, <1>3 DEF IInv, HicInv, HicAsSent, Decoding
  <1>5. RamInv' /\ RunInv'
    BY <1>1 DEF IInv, RamInv, RamAsSent, IsRun, Decoding, RunInv, InRun, Started, Bytes
  <1>6. ParamInv' /\ SetByLast'
    BY <1>1 DEF IInv, ParamInv, ParamAsSent, SetByLast, Decoding
  <1>7. EndInv'
    <2>1. Frees' = Frees
      BY <1>1 DEF Frees
    <2>2. Twice' = Twice /\ AllMain' = AllMain /\ FreesUpTo(pos)' = FreesUpTo(pos)
      BY <1>1, <2>1 DEF Twice, AllMain, FreesUpTo
    <2> QED BY <1>1, <1>3, <2>1, <2>2 DEF IInv, EndInv
  <1>8. FirstWordsAreShown' /\ SettingsAreReplayed'
    BY <1>1, <1>3 DEF IInv, FirstWordsAreShown, SettingsAreReplayed, Replayed, LinesFor
  <1>9. ExramIsReplayed'
    BY <1>1, <1>3 DEF IInv, ExramIsReplayed, ShownLeaves, RunSpares, RunLeaves
  <1>10. DspSeqs' /\ DspInv'
    <2>1. Told' = Told /\ Sent' = Sent /\ WordsAreSent' = WordsAreSent
      BY <1>1, <1>3 DEF Told, Sent, WordsAreSent, PacketsUpTo
    <2> QED BY <1>1, <2>1 DEF IInv, DspSeqs, DspInv, Decoding, HasHead, HasPart, HasLow, HasNone,
                              HasAll, Held, ScpSet, Header
  <1> QED BY <1>2, <1>4, <1>5, <1>6, <1>7, <1>8, <1>9, <1>10 DEF IInv

(* Where the decoder is, and what it keeps beside what the codec holds.     *)
THEOREM Inductive == DumpSpec => []IInv
  <1>1. DumpInit => IInv
    BY InitIInv
  <1>2. IInv /\ [DumpNext]_allVars => IInv'
    BY NextIInv, StutterIInv
  <1> QED BY <1>1, <1>2, PTL DEF DumpSpec

(* check_verb and what it calls: however often a verb of the HIC was sent   *)
(* again, given up, or left alone by a driver that was killed, a line names *)
(* the address and the word that the codec had.                            *)
THEOREM LinesTheorem == DumpSpec => LinesAreTrue
  <1>1. IInv /\ [DumpNext]_allVars =>
           [\A n \in Len(shown) + 1 .. Len(shown') :
               /\ shown'[n].kind = "hicWrite" => /\ shown'[n].addr = codec.hicAddr
                                                 /\ shown'[n].data = <<codec.hicLow, cur'.data>>
               /\ shown'[n].kind = "hicRead" => shown'[n].addr = codec.hicAddr
               /\ shown'[n].kind = "ramRead" => shown'[n].addr = codec.ramAddr]_allVars
    BY LinesStep DEF IInv, TrueLine
  <1> QED BY <1>1, Inductive, PTL DEF DumpSpec, LinesAreTrue

(* chipio_hic_check: no word that the codec stored at an address just set   *)
(* is left out.                                                            *)
THEOREM FirstWordsTheorem == DumpSpec => []FirstWordsAreShown
  <1>1. IInv => FirstWordsAreShown
    BY DEF IInv
  <1> QED BY <1>1, Inductive, PTL

(* chipio_8051_handler: the runs shown, done in order to an empty exram,    *)
(* give the one of the codec, for runs at any address that fit the array    *)
(* they are kept in (RunsAssumption), which is then never written past.     *)
THEOREM ExramTheorem == DumpSpec => []ExramIsReplayed
  <1>1. IInv => ExramIsReplayed
    BY DEF IInv
  <1> QED BY <1>1, Inductive, PTL

(* The handlers of parameters and flags: what the lines set is what the     *)
(* codec has, also when the last verb is handled twice.                    *)
THEOREM SettingsTheorem == DumpSpec => []SettingsAreReplayed
  <1>1. IInv => SettingsAreReplayed
    BY DEF IInv
  <1> QED BY <1>1, Inductive, PTL

(* count_dsp_downloads beside check_verb: the end of the downloads is       *)
(* marked once and behind the last of them, however many there are.         *)
THEOREM EndTheorem == DumpSpec => []EndIsMarkedOnce
  <1>1. IInv => EndIsMarkedOnce
    BY EndIsMarked DEF IInv
  <1> QED BY <1>1, Inductive, PTL

(* dsp_scp_handler, dsp_verb_handler and dsp_scp_check: of the packets that *)
(* the DSP put together none is lost, doubled or mixed with another one.    *)
THEOREM PacketsTheorem == DumpSpec => []PacketsAreShown
  <1>1. IInv => PacketsAreShown
    BY PacketsByInv DEF IInv
  <1> QED BY <1>1, Inductive, PTL
=============================================================================
