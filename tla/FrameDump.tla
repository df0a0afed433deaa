------------------------------ MODULE FrameDump ------------------------------
(***************************************************************************)
(* frame-dump-formatted beside the codec whose traffic it reads.            *)
(*                                                                         *)
(* The codec, which is external, takes the verbs of the file while the      *)
(* second pass of the decoder goes over them.  A frame that is not "ok" was *)
(* refused: the decoder, which does not see answers, cannot tell.           *)
(***************************************************************************)
EXTENDS FrameDecoder, FiniteSets

CONSTANTS RamAddr, ParamIds, FlagIds    \* what the files name

-----------------------------------------------------------------------------
(***************************************************************************)
(* The order of the verbs of a file.  The decoder counts on it: that of the *)
(* chipio_hic_* and chipio_8051_* functions of ca0132_base_functions.c, any *)
(* of which may be killed between two verbs, and in which a verb of the HIC *)
(* that is refused is sent again, or given up.                             *)
(***************************************************************************)
IsChip(frame, c, verbs) == frame.codec = c /\ frame.node = "chip" /\ frame.verb \in verbs

(* Of the first n frames, h is the last of these verbs for codec c.        *)
LastOf(f, c, verbs, h, n) ==
    /\ h \in 1 .. n /\ IsChip(f[h], c, verbs)
    /\ \A g \in h + 1 .. n : ~IsChip(f[g], c, verbs)

NoneOf(f, c, verbs, n) == \A g \in 1 .. n : ~IsChip(f[g], c, verbs)

(* A transfer on the HIC bus: an address, then words to store, or words to  *)
(* load.                                                                   *)
HicCallVerbs == HicVerbs \cup {"HIC_POST_READ", "HIC_READ_DATA"}

HicOrder ==
    {<<"ADDRESS_LOW", "ADDRESS_HIGH">>, <<"DATA_LOW", "DATA_HIGH">>,
     <<"HIC_POST_READ", "HIC_READ_DATA">>}
    \cup ({"ADDRESS_HIGH", "DATA_HIGH", "HIC_READ_DATA"} \X {"DATA_LOW", "HIC_POST_READ"})

HicFollows(x, y) ==
    \/ y.verb = "ADDRESS_LOW"
    \/ x.ok /\ <<x.verb, y.verb>> \in HicOrder
    \/ ~x.ok /\ y.verb = x.verb /\ y.data = x.data

HicInOrder(f) ==
    \A j \in DOMAIN f : \A c \in {f[j].codec} :
        IsChip(f[j], c, HicCallVerbs) =>
            \/ NoneOf(f, c, HicCallVerbs, j - 1) /\ f[j].verb # "ADDRESS_HIGH"
            \/ \E h \in 1 .. j - 1 : LastOf(f, c, HicCallVerbs, h, j - 1) /\ HicFollows(f[h], f[j])

(* An access to exram: both halves of an address, then bytes to store, or a *)
(* byte to load; the next one in its page needs the low half alone.         *)
RamVerbs == {"RAM_LOW", "RAM_HIGH", "RAM_WRITE", "RAM_READ", "PLL_WRITE"}
Aiming   == {"RAM_LOW", "RAM_HIGH"}

RamInOrder(f) ==
    \A j \in DOMAIN f : \A c \in {f[j].codec} :
        LET none(n)    == NoneOf(f, c, RamVerbs, n)
            last(h, n) == LastOf(f, c, RamVerbs, h, n)
        IN  IsChip(f[j], c, RamVerbs) =>
              /\ f[j].ok /\ f[j].data \in 0 .. 255
              /\ f[j].verb = "RAM_HIGH" =>
                    \E h \in 1 .. j - 1 : last(h, j - 1) /\ f[h].verb = "RAM_LOW"
              /\ f[j].verb = "RAM_WRITE" =>
                    \/ none(j - 1)
                    \/ \E h \in 1 .. j - 1 : last(h, j - 1) /\ f[h].verb \in {"RAM_HIGH", "RAM_WRITE"}
              /\ f[j].verb = "RAM_READ" =>
                    \A h \in 1 .. j - 1 : last(h, j - 1) /\ f[h].verb = "RAM_LOW" =>
                        \A g \in 1 .. h - 1 : last(g, h - 1) => f[g].verb \notin Aiming

(* The bytes written behind an address are one run, up to another verb for  *)
(* exram; a byte that ends the file is handled twice.  All of them are to   *)
(* fit the array that the decoder keeps a run in, which it does not check.  *)
OneRun(f, c, h, n)    == \A k \in h + 1 .. n : IsChip(f[k], c, RamVerbs) => f[k].verb = "RAM_WRITE"
BytesFrom(f, c, h, n) == { k \in h + 1 .. n : IsChip(f[k], c, {"RAM_WRITE"}) }
ByteAgain(f, c, n)    == IF n = Len(f) /\ IsChip(f[n], c, {"RAM_WRITE"}) THEN 1 ELSE 0

RunsFit(f) ==
    \A h \in DOMAIN f : \A n \in h .. Len(f) : \A c \in {f[h].codec} :
        IsChip(f[h], c, Aiming) /\ OneRun(f, c, h, n) =>
            Cardinality(BytesFrom(f, c, h, n)) + ByteAgain(f, c, n) <= RunSize

ASSUME RunsAssumption == \A f \in Files : RunsFit(f)

(* A value for a parameter comes behind its ID; what sets one is not        *)
(* refused.                                                                *)
IdVerbs == {"PARAM_ID", "PARAM_VALUE"}

SettingsInOrder(f) ==
    \A j \in DOMAIN f : \A c \in {f[j].codec} :
        /\ IsChip(f[j], c, IdVerbs \cup {"PARAM_SET", "FLAG_SET"}) => f[j].ok /\ f[j].data \in 0 .. 255
        /\ IsChip(f[j], c, {"PARAM_VALUE"}) =>
              \E h \in 1 .. j - 1 : LastOf(f, c, IdVerbs, h, j - 1) /\ f[h].verb = "PARAM_ID"

ASSUME OrderAssumption ==
    \A f \in Files : HicInOrder(f) /\ RamInOrder(f) /\ SettingsInOrder(f)

-----------------------------------------------------------------------------
VARIABLE
    codec       \* what it holds, and what it did

allVars == <<vars, codec>>

Nothing == <<>>

CodecInit ==
    codec = [hicAddr |-> <<0, 0>>, hicLow |-> 0, aimed |-> FALSE, stored |-> {},
             ramAddr |-> <<0, 0>>, placed |-> FALSE, exram |-> [a \in RamAddr |-> 0],
             id |-> 0, params |-> [p \in ParamIds |-> 0], flags |-> [f \in FlagIds |-> 0],
             half |-> Nothing, open |-> <<>>, packets |-> <<>>, torn |-> FALSE]

Number(addr) == addr[1] + 256 * addr[2]

NextRamAddr(addr) == << (addr[1] + 1) % 256, (addr[2] + (addr[1] + 1) \div 256) % 256 >>

(* The DSP puts packets together; a half word that did not come as one of a *)
(* pair is remembered.                                                     *)
DspTakes(c, f) ==
    LET low  == f.verb = "SCP_LOW"
        word == <<c.half[1], f.data>>
        open == Append(c.open, word)
        whole == Len(open) = 1 + GetScpData(open[1]).data_size
    IN  IF ~f.ok \/ low # (c.half = Nothing) THEN [c EXCEPT !.torn = TRUE]
        ELSE IF low THEN [c EXCEPT !.half = <<f.data>>]
        ELSE [c EXCEPT !.half = Nothing,
                       !.open = IF whole THEN <<>> ELSE open,
                       !.packets = IF whole THEN Append(@, open) ELSE @,
                       !.torn = @ \/ GetScpData(open[1]).data_size >= 4]

(* The codec takes a verb.  That a transfer steps the HIC address does not  *)
(* matter here: only the first one at an address is ever shown.  Where a    *)
(* byte goes that is written before the file has set an address, is not     *)
(* known.                                                                  *)
ChipTakes(c, f) ==
    CASE f.verb = "ADDRESS_LOW"  -> [c EXCEPT !.hicAddr = <<f.data, @[2]>>]
      [] f.verb = "ADDRESS_HIGH" -> [c EXCEPT !.hicAddr = <<@[1], f.data>>, !.aimed = TRUE]
      [] f.verb = "DATA_LOW"     -> [c EXCEPT !.hicLow = f.data]
      [] f.verb = "DATA_HIGH"    ->
            [c EXCEPT !.stored = IF c.aimed THEN @ \cup {<<c.hicAddr, <<c.hicLow, f.data>>>>}
                                            ELSE @,
                      !.aimed = FALSE]
      [] f.verb = "HIC_POST_READ" -> [c EXCEPT !.aimed = FALSE]
      [] f.verb = "RAM_LOW"      -> [c EXCEPT !.ramAddr = <<f.data, @[2]>>]
      [] f.verb = "RAM_HIGH"     -> [c EXCEPT !.ramAddr = <<@[1], f.data>>, !.placed = TRUE]
      [] f.verb = "RAM_WRITE"    -> 
            [c EXCEPT !.exram = IF c.placed THEN [@ EXCEPT ![Number(c.ramAddr)] = f.data] ELSE @,
                      !.ramAddr = NextRamAddr(@)]
      [] f.verb = "PARAM_ID"     -> [c EXCEPT !.id = f.data]
      [] f.verb = "PARAM_VALUE"  -> [c EXCEPT !.params[c.id] = f.data]
      [] f.verb = "PARAM_SET"    -> [c EXCEPT !.params[f.data % 32] = f.data \div 32]
      [] f.verb = "FLAG_SET"     -> [c EXCEPT !.flags[f.data % 128] = f.data \div 128]
      [] OTHER -> c

CodecTakes(f) ==
    codec' = IF f.codec # mainCodec THEN codec
             ELSE IF f.node = "dsp" /\ f.verb \in {"SCP_LOW", "SCP_HIGH"} THEN DspTakes(codec, f)
             ELSE IF f.node = "chip" /\ f.ok THEN ChipTakes(codec, f)
             ELSE codec

DumpNext ==
    /\ Next
    /\ IF pass = "decode" /\ pos < Len(file) THEN CodecTakes(file[pos + 1])
                                             ELSE UNCHANGED codec

DumpInit == Init /\ CodecInit

DumpSpec == DumpInit /\ [][DumpNext]_allVars

-----------------------------------------------------------------------------
(***************************************************************************)
(* Properties.                                                             *)
(***************************************************************************)
Lines(kind) == { n \in DOMAIN shown : shown[n].kind = kind }

(* A HIC transfer or an exram read is shown with the address the codec has  *)
(* at that moment, and a HIC write with the word the codec is given: what   *)
(* was sent again, given up or killed before leaves nothing behind.         *)
LinesAreTrue ==
    [][\A n \in Len(shown) + 1 .. Len(shown') :
          /\ shown'[n].kind = "hicWrite" => /\ shown'[n].addr = codec.hicAddr
                                            /\ shown'[n].data = <<codec.hicLow, cur'.data>>
          /\ shown'[n].kind = "hicRead" => shown'[n].addr = codec.hicAddr
          /\ shown'[n].kind = "ramRead" => shown'[n].addr = codec.ramAddr]_allVars

(* Every word the codec stored first at an address set is shown; those that *)
(* follow it in a range are not.                                           *)
FirstWordsAreShown ==
    \A w \in codec.stored :
        \E n \in Lines("hicWrite") : <<shown[n].addr, shown[n].data>> = w

(* Byte k of a run goes to this address; the memory has 16 bits of it.      *)
Place(addr, k) == (Number(addr) + k - 1) % 65536

Spares(addr, run, a) == \A k \in DOMAIN run : Place(addr, k) # a

(* The last byte of the run that goes to address a is b.                   *)
Leaves(addr, run, a, b) ==
    \E k \in DOMAIN run : /\ Place(addr, k) = a /\ run[k] = b
                          /\ \A m \in k + 1 .. Len(run) : Place(addr, m) # a

(* The last of the runs shown that goes over an address leaves its byte     *)
(* there, or none does.                                                    *)
RunSpares(n, a)    == Spares(shown[n].addr, shown[n].run, a)
RunLeaves(n, a, b) == Leaves(shown[n].addr, shown[n].run, a, b)

ShownLeaves(a, b) ==
    \/ b = 0 /\ \A n \in Lines("ramRun") : RunSpares(n, a)
    \/ \E n \in Lines("ramRun") : /\ RunLeaves(n, a, b)
                                 /\ \A m \in Lines("ramRun") : m > n => RunSpares(m, a)

(* Doing to an empty exram what the runs shown say, and what is left of the *)
(* last one, gives the exram of the codec: no byte is left out, and none is *)
(* shown at another address, also where a run goes over into the next page. *)
(* No run outgrows the array it is kept in, whatever it comes behind.       *)
ExramIsReplayed ==
    /\ Len(ram.run) <= RunSize
    /\ ~atEnd => \A a \in RamAddr :
          \/ Leaves(ram.addr, ram.run, a, codec.exram[a])
          \/ Spares(ram.addr, ram.run, a) /\ ShownLeaves(a, codec.exram[a])

(* The last line that names a parameter or a flag has its value.            *)
LinesFor(kind, id) == { n \in Lines(kind) : shown[n].id = id }

Replayed(kind, id, val) ==
    \/ val = 0 /\ LinesFor(kind, id) = {}
    \/ \E n \in LinesFor(kind, id) : /\ shown[n].val = val
                                     /\ \A m \in LinesFor(kind, id) : m <= n

(* Setting the parameters and flags that the lines name gives those of the  *)
(* codec.                                                                  *)
SettingsAreReplayed ==
    /\ \A p \in ParamIds : Replayed("param", p, codec.params[p])
    /\ \A f \in FlagIds : Replayed("flag", f, codec.flags[f])

(* As long as half words came in pairs and packets were no longer than the  *)
(* decoder allows, the packets shown are those the DSP put together, in     *)
(* their order; only a query at the end may still be missing.               *)
PacketsUpTo(n) == { m \in Lines("scp") : m <= n }

PacketsAreShown ==
    (~codec.torn /\ ~atEnd) =>
        LET sent == Len(codec.packets)
            told == Cardinality(Lines("scp"))
        IN  /\ \/ told = sent
               \/ told + 1 = sent /\ GetScpData(codec.packets[sent][1]).get_flag = 1
            /\ \A n \in Lines("scp") :
                  shown[n].words = codec.packets[Cardinality(PacketsUpTo(n))]

(* When the decoder is done it has marked the end of the downloads once,    *)
(* behind the last of them, if there were any (and all of its own codec),   *)
(* though the last verb is both counted and handled twice.                  *)
Frees == { k \in DOMAIN file : file[k].node = "chip" /\ file[k].verb = "PORT_FREE" }

EndIsMarkedOnce ==
    (pass = "decode" /\ atEnd /\ \A k \in Frees : file[k].codec = mainCodec) =>
        \/ Frees = {} /\ Lines("end") = {}
        \/ Frees # {} /\ \E n \in DOMAIN shown :
               Lines("end") = {n} /\ \A k \in Frees : k <= shown[n].at
=============================================================================
