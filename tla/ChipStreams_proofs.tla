------------------------- MODULE ChipStreams_proofs -------------------------
(***************************************************************************)
(* Machine-checked proofs about ChipStreams, for any number of streams, of  *)
(* bytes of an entry, of ports, of values of a counter and of bytes that    *)
(* the firmware writes meanwhile.                                          *)
(***************************************************************************)
EXTENDS ChipStreams, TLAPS

-----------------------------------------------------------------------------
LEMMA Bounds ==
    /\ STREAMS \in Nat /\ STREAMS > 1 /\ FIELDS \in Nat /\ FIELDS > 1
    /\ MAX_PORT \in Nat /\ WORDS \in Nat /\ WORDS > MAX_PORT + 1
    /\ MAX_CHANGES \in Nat
  BY StreamsAssumption

(***************************************************************************)
(* The third table, as an array of entries.                                *)
(***************************************************************************)
LEMMA EntryBytes == STREAMS * FIELDS \in Nat /\ STREAMS * FIELDS > 0
  <1>1. ASSUME NEW m \in Nat, NEW n \in Nat, m > 1, n > 1
        PROVE  m * n \in Nat /\ m * n > 0
    <2>1. m * n = (m - 1) * n + n /\ (m - 1) * n \in Nat
      BY <1>1
    <2> QED BY <1>1, <2>1
  <1> QED BY <1>1, Bounds

LEMMA TimesMonotone ==
    ASSUME NEW m \in Nat, NEW n \in Nat, NEW w \in Nat, m <= n
    PROVE  m * w \in Nat /\ n * w \in Nat /\ m * w <= n * w
  <1>1. n * w = m * w + (n - m) * w
    OBVIOUS
  <1>2. (n - m) * w \in Nat
    BY n - m \in Nat
  <1> QED BY <1>1, <1>2

LEMMA NextTimes ==
    ASSUME NEW n \in Nat, NEW w \in Nat
    PROVE  (n + 1) * w = n * w + w
  OBVIOUS

LEMMA InfoOfIsAddr ==
    ASSUME NEW s \in 0 .. STREAMS - 1, NEW f \in 0 .. FIELDS - 1
    PROVE  InfoOf(s, f) \in Nat /\ InfoOf(s, f) \in InfoAddr
  <1>1. (s + 1) * FIELDS = s * FIELDS + FIELDS /\ s * FIELDS \in Nat
    BY NextTimes, TimesMonotone, Bounds
  <1>2. (s + 1) * FIELDS <= STREAMS * FIELDS
    BY TimesMonotone, Bounds
  <1>3. ASSUME NEW p \in Nat, NEW q \in Nat, p + FIELDS <= q
        PROVE  p + f \in Nat /\ p + f \in 0 .. q - 1
    BY <1>3, Bounds
  <1> QED BY <1>1, <1>2, <1>3, EntryBytes DEF InfoOf, InfoAddr

LEMMA InfoOfIsOne ==
    ASSUME NEW s \in 0 .. STREAMS - 1, NEW f \in 0 .. FIELDS - 1,
           NEW t \in 0 .. STREAMS - 1, NEW g \in 0 .. FIELDS - 1,
           InfoOf(s, f) = InfoOf(t, g)
    PROVE  s = t
  <1>1. ASSUME NEW x \in 0 .. STREAMS - 1, NEW y \in 0 .. STREAMS - 1, x < y,
               NEW a \in 0 .. FIELDS - 1, NEW b \in 0 .. FIELDS - 1
        PROVE  InfoOf(x, a) < InfoOf(y, b)
    <2>1. (x + 1) * FIELDS = x * FIELDS + FIELDS /\ x * FIELDS \in Nat
      BY NextTimes, TimesMonotone, Bounds
    <2>2. (x + 1) * FIELDS <= y * FIELDS /\ y * FIELDS \in Nat
      BY <1>1, TimesMonotone, Bounds
    <2>3. ASSUME NEW p \in Nat, NEW q \in Nat, p + FIELDS <= q
          PROVE  p + a < q + b
      BY <2>3, Bounds
    <2> QED BY <2>1, <2>2, <2>3 DEF InfoOf
  <1>2. InfoOf(s, f) \in Nat /\ InfoOf(t, g) \in Nat
    BY InfoOfIsAddr
  <1>3. ~(s < t) /\ ~(t < s)
    BY <1>1, <1>2
  <1> QED BY <1>3, Bounds

-----------------------------------------------------------------------------
(***************************************************************************)
(* The types of the variables, and how far the copies go.                  *)
(***************************************************************************)
Line == [stream : 0 .. STREAMS - 1, fields : Seq(0 .. Written), ports : Seq(0 .. WORDS - 1)]

LEMMA ByteIsWord == Byte \subseteq 0 .. WORDS - 1 /\ 0 \in Byte /\ None \in Byte
  BY Bounds DEF Byte, Port, None

LEMMA EntryBounds ==
    /\ Entry \subseteq 0 .. STREAMS - 1 /\ 0 \in Entry
    /\ \A s \in 0 .. STREAMS - 1 : s \in Entry \/ s = STREAMS - 1
  BY Bounds DEF Entry

LEMMA TableBytes ==
    ASSUME TypeOK, NEW s \in 0 .. STREAMS - 1
    PROVE  FirstAt(s) \in Byte /\ LastAt(s) \in Byte
  BY ByteIsWord, EntryBounds DEF TypeOK, FirstAt, LastAt

(* Reading: the copies grow by a byte, and the next one begins when the     *)
(* last has all.                                                           *)
LEMMA ReadInfoStep ==
    ASSUME TypeOK, Progress, ReadInfo
    PROVE  /\ TypeOK' /\ Progress'
           /\ buf' = Append(buf, info[i]) /\ i \in InfoAddr /\ Len(buf) = i
  <1> USE Bounds, EntryBytes
  <1>1. /\ pc = "info" /\ tool = "data" /\ i \in InfoAddr /\ Len(buf) = i
        /\ start = <<>> /\ end = <<>> /\ shown = <<>>
    BY DEF ReadInfo, Progress, TypeOK, InfoAddr
  <1>2. info[i] \in 0 .. Written
    BY <1>1 DEF TypeOK
  <1>3. buf' \in Seq(0 .. Written) /\ Len(buf') = i + 1
    BY <1>1, <1>2 DEF ReadInfo, TypeOK
  <1>4. i' \in Nat
    BY DEF ReadInfo, ReadByte, TypeOK
  <1>5. TypeOK'
    <2>1. UNCHANGED <<first, last, behind, info, touched, changes, tool, start, end,
                      curAddr, k, cnt, shown>>
      BY DEF ReadInfo, tables, loop
    <2>2. pc' \in {"info", "start"}
      BY DEF ReadInfo, ReadByte
    <2> QED BY <1>3, <1>4, <2>1, <2>2 DEF TypeOK
  <1>6. Progress'
    <2>1. CASE i + 1 < STREAMS * FIELDS
      BY <1>1, <1>3, <2>1 DEF ReadInfo, ReadByte, Progress
    <2>2. CASE ~(i + 1 < STREAMS * FIELDS)
      <3>1. i + 1 = STREAMS * FIELDS
        BY <1>1, <2>2 DEF InfoAddr
      <3> QED BY <1>1, <1>3, <2>2, <3>1 DEF ReadInfo, ReadByte, Progress
    <2> QED BY <2>1, <2>2
  <1> QED BY <1>1, <1>5, <1>6 DEF ReadInfo

LEMMA ReadStartStep ==
    ASSUME TypeOK, Progress, ReadStart
    PROVE  /\ TypeOK' /\ Progress'
           /\ start' = Append(start, FirstAt(i)) /\ i \in 0 .. STREAMS - 1 /\ Len(start) = i
  <1> USE Bounds
  <1>1. pc = "start" /\ i \in 0 .. STREAMS - 1 /\ Len(start) = i /\ end = <<>> /\ shown = <<>>
    BY DEF ReadStart, Progress, TypeOK
  <1>2. FirstAt(i) \in Byte
    BY <1>1, TableBytes
  <1>3. start' \in Seq(Byte) /\ Len(start') = i + 1
    BY <1>1, <1>2 DEF ReadStart, TypeOK
  <1>4. UNCHANGED <<first, last, behind, info, touched, changes, tool, end, buf,
                    curAddr, k, cnt, shown>>
    BY DEF ReadStart, tables, loop
  <1>5. TypeOK'
    BY <1>3, <1>4 DEF ReadStart, ReadByte, TypeOK
  <1>6. Progress'
    <2>1. CASE i + 1 < STREAMS
      BY <1>1, <1>3, <1>4, <2>1 DEF ReadStart, ReadByte, Progress
    <2>2. CASE ~(i + 1 < STREAMS)
      BY <1>1, <1>3, <1>4, <2>2 DEF ReadStart, ReadByte, Progress
    <2> QED BY <2>1, <2>2
  <1> QED BY <1>1, <1>5, <1>6 DEF ReadStart

LEMMA ReadEndStep ==
    ASSUME TypeOK, Progress, ReadEnd
    PROVE  /\ TypeOK' /\ Progress'
           /\ end' = Append(end, LastAt(i)) /\ i \in 0 .. STREAMS - 1 /\ Len(end) = i
  <1> USE Bounds
  <1>1. /\ pc = "end" /\ i \in 0 .. STREAMS - 1 /\ Len(start) = STREAMS
        /\ Len(end) = i /\ shown = <<>>
    BY DEF ReadEnd, Progress, TypeOK
  <1>2. LastAt(i) \in Byte
    BY <1>1, TableBytes
  <1>3. end' \in Seq(Byte) /\ Len(end') = i + 1
    BY <1>1, <1>2 DEF ReadEnd, TypeOK
  <1>4. UNCHANGED <<first, last, behind, info, touched, changes, tool, start, buf,
                    curAddr, k, cnt, shown>>
    BY DEF ReadEnd, tables, loop
  <1>5. TypeOK'
    BY <1>3, <1>4 DEF ReadEnd, ReadByte, TypeOK
  <1>6. Progress'
    <2>1. CASE i + 1 < STREAMS
      BY <1>1, <1>3, <1>4, <2>1 DEF ReadEnd, ReadByte, Progress
    <2>2. CASE ~(i + 1 < STREAMS)
      BY <1>1, <1>3, <1>4, <2>2 DEF ReadEnd, ReadByte, Progress
    <2> QED BY <2>1, <2>2
  <1> QED BY <1>1, <1>5, <1>6 DEF ReadEnd

LEMMA ElementType ==
    ASSUME NEW S, NEW t \in Seq(S), NEW n \in 1 .. Len(t)
    PROVE  t[n] \in S
  OBVIOUS

LEMMA ShownType == TypeOK => /\ shown \in Seq(Line) /\ Len(shown) \in Nat
                             /\ DOMAIN shown = 1 .. Len(shown) /\ i \in Nat
                             /\ \A n \in DOMAIN shown : shown[n].stream \in Nat
  <1>1. TypeOK => shown \in Seq(Line) /\ i \in Nat
    BY DEF TypeOK, Line
  <1>2. ASSUME NEW t \in Seq(Line) PROVE Len(t) \in Nat /\ DOMAIN t = 1 .. Len(t)
    OBVIOUS
  <1>3. ASSUME NEW t \in Seq(Line), NEW n \in DOMAIN t PROVE t[n].stream \in Nat
    <2>1. t[n] \in Line
      BY <1>2, <1>3, ElementType
    <2> QED BY <2>1, Bounds DEF Line
  <1> QED BY <1>1, <1>2, <1>3

(* Printing: the copies stay, and the lines have the ports and the bytes of *)
(* the copies.                                                             *)
LEMMA AtStream ==
    ASSUME TypeOK, Progress, pc \in {"print", "port"}
    PROVE  /\ i \in 0 .. STREAMS - 1 /\ Len(start) = STREAMS /\ Len(end) = STREAMS
           /\ StartPort \in Byte /\ EndPort \in Byte
           /\ StartPort \in 0 .. WORDS - 1 /\ EndPort \in 0 .. WORDS - 1
           /\ tool = "data" => Len(buf) = STREAMS * FIELDS
  <1>1. i \in 0 .. STREAMS - 1 /\ Len(start) = STREAMS /\ Len(end) = STREAMS
    BY Bounds DEF TypeOK, Progress
  <1>2. i + 1 \in 1 .. Len(start) /\ i + 1 \in 1 .. Len(end)
    BY <1>1, Bounds
  <1>3. start \in Seq(Byte) /\ end \in Seq(Byte)
    BY DEF TypeOK
  <1>4. start[i + 1] \in Byte /\ end[i + 1] \in Byte
    BY <1>2, <1>3, ElementType
  <1> QED BY <1>1, <1>4, ByteIsWord DEF StartPort, EndPort, Progress

LEMMA FunctionIsSeq ==
    ASSUME NEW S, NEW n \in Nat, NEW g \in [1 .. n -> S]
    PROVE  g \in Seq(S) /\ Len(g) = n
  OBVIOUS

LEMMA ShortSeqs ==
    ASSUME NEW S, NEW x \in S, NEW y \in S
    PROVE  <<>> \in Seq(S) /\ <<x, y>> \in Seq(S)
  OBVIOUS

LEMMA AppendType ==
    ASSUME NEW S, NEW t \in Seq(S), NEW x \in S
    PROVE  Append(t, x) \in Seq(S)
  OBVIOUS

LEMMA ModuloType ==
    ASSUME NEW a \in Nat, NEW n \in Nat, n > 0
    PROVE  a % n \in 0 .. n - 1
  OBVIOUS

LEMMA FieldsType ==
    ASSUME TypeOK, Progress, pc = "print", tool = "data"
    PROVE  Fields(i) \in Seq(0 .. Written)
  <1>1. i \in 0 .. STREAMS - 1 /\ Len(buf) = STREAMS * FIELDS
    BY AtStream
  <1>2. FIELDS - 1 \in Nat
    BY Bounds
  <1>3. ASSUME NEW f \in 1 .. FIELDS - 1 PROVE buf[InfoOf(i, f) + 1] \in 0 .. Written
    <2>1. InfoOf(i, f) \in Nat /\ InfoOf(i, f) \in InfoAddr
      BY <1>1, InfoOfIsAddr
    <2>2. InfoOf(i, f) + 1 \in 1 .. Len(buf)
      BY <1>1, <2>1, EntryBytes DEF InfoAddr
    <2> QED BY <2>2, ElementType DEF TypeOK
  <1>4. Fields(i) \in [1 .. FIELDS - 1 -> 0 .. Written]
    BY <1>3 DEF Fields
  <1> QED BY <1>2, <1>4, FunctionIsSeq

LEMMA NextStreamStep ==
    ASSUME TypeOK, Progress, NextStream, pc \in {"print", "port"},
           UNCHANGED <<tables, tool, copies>>
    PROVE  /\ Progress' /\ i' = i + 1 /\ i' \in Nat /\ pc' \in {"print", "done"}
           /\ UNCHANGED <<first, last, behind, info, touched, changes, tool, start, end, buf>>
  <1> USE Bounds
  <1>1. i \in 0 .. STREAMS - 1
    BY AtStream
  <1>2. /\ UNCHANGED <<first, last, behind, info, touched, changes, tool, start, end, buf>>
        /\ i' = i + 1 /\ i' \in Nat /\ pc' \in {"print", "done"}
    BY <1>1 DEF NextStream, tables, copies
  <1>3. CASE i + 1 < STREAMS
    BY <1>1, <1>2, <1>3 DEF NextStream, Progress
  <1>4. CASE ~(i + 1 < STREAMS)
    BY <1>1, <1>2, <1>4 DEF NextStream, Progress
  <1> QED BY <1>2, <1>3, <1>4

LEMMA PrintDataStep ==
    ASSUME TypeOK, Progress, PrintData
    PROVE  TypeOK' /\ Progress' /\ i' = i + 1 /\ pc' \in {"print", "done"}
  <1>1. i \in 0 .. STREAMS - 1 /\ StartPort \in 0 .. WORDS - 1 /\ EndPort \in 0 .. WORDS - 1
    BY AtStream DEF PrintData
  <1>2. Fields(i) \in Seq(0 .. Written)
    BY FieldsType DEF PrintData
  <1> DEFINE ports == IF HasPorts(i) THEN <<StartPort, EndPort>> ELSE <<>>
  <1>3. ports \in Seq(0 .. WORDS - 1)
    BY <1>1, ShortSeqs
  <1> HIDE DEF ports
  <1>4. [stream |-> i, fields |-> Fields(i), ports |-> ports] \in Line
    BY <1>1, <1>2, <1>3 DEF Line
  <1>5. shown' \in Seq(Line)
    BY <1>4 DEF PrintData, TypeOK, Line, ports
  <1>6. /\ Progress' /\ i' = i + 1 /\ i' \in Nat /\ pc' \in {"print", "done"}
        /\ UNCHANGED <<first, last, behind, info, touched, changes, tool, start, end, buf>>
    BY NextStreamStep DEF PrintData
  <1> QED BY <1>5, <1>6 DEF PrintData, loop, TypeOK, Line

LEMMA SkipStreamStep ==
    ASSUME TypeOK, Progress, SkipStream \/ PortsPrinted
    PROVE  TypeOK' /\ Progress' /\ i' = i + 1 /\ pc' \in {"print", "done"}
  <1>1. /\ Progress' /\ i' = i + 1 /\ i' \in Nat /\ pc' \in {"print", "done"}
        /\ UNCHANGED <<first, last, behind, info, touched, changes, tool, start, end, buf>>
    BY NextStreamStep DEF SkipStream, PortsPrinted
  <1> QED BY <1>1 DEF SkipStream, PortsPrinted, loop, TypeOK

LEMMA DistanceType == ASSUME TypeOK, Progress, pc = "print"
                      PROVE  Distance \in 0 .. WORDS - 1
  BY AtStream, Bounds DEF Distance

LEMMA PrintStreamStep ==
    ASSUME TypeOK, Progress, PrintStream
    PROVE  TypeOK' /\ Progress' /\ i' = i /\ pc' = "port"
  <1> USE Bounds
  <1>1. i \in 0 .. STREAMS - 1 /\ StartPort \in 0 .. WORDS - 1
    BY AtStream DEF PrintStream
  <1>2. Distance \in 0 .. WORDS - 1
    BY DistanceType DEF PrintStream
  <1>3. [stream |-> i, fields |-> <<>>, ports |-> <<>>] \in Line
    BY <1>1 DEF Line
  <1>4. shown' \in Seq(Line)
    BY <1>3 DEF PrintStream, TypeOK, Line
  <1>5. UNCHANGED <<first, last, behind, info, touched, changes, tool, i, start, end, buf>>
    BY DEF PrintStream, tables, copies
  <1>6. curAddr' \in 0 .. 4 * WORDS - 1
    BY <1>1 DEF PrintStream
  <1>7. Progress'
    BY <1>5 DEF PrintStream, Progress
  <1> QED BY <1>2, <1>4, <1>5, <1>6, <1>7 DEF PrintStream, TypeOK, Line

LEMMA KeptType ==
    ASSUME NEW ports \in Seq(0 .. WORDS - 1), NEW p \in 0 .. WORDS - 1
    PROVE  Kept(ports, p) \in Seq(0 .. WORDS - 1)
  BY AppendType DEF Kept

LEMMA PortOfAddr == TypeOK => curAddr \div 4 \in 0 .. WORDS - 1
  BY Bounds DEF TypeOK

(* A port adds to the last line, and to nothing else.                      *)
LEMMA PrintPortStep ==
    ASSUME TypeOK, Progress, ShownInOrder, PrintPort
    PROVE  /\ TypeOK' /\ Progress'
           /\ Len(shown) > 0 /\ Len(shown') = Len(shown) /\ DOMAIN shown' = DOMAIN shown
           /\ \A n \in DOMAIN shown : n # Len(shown) => shown'[n] = shown[n]
           /\ shown'[Len(shown)].stream = shown[Len(shown)].stream
           /\ shown'[Len(shown)] = [shown[Len(shown)] EXCEPT !.ports = Kept(@, curAddr \div 4)]
  <1> DEFINE n == Len(shown)
             line == [shown[n] EXCEPT !.ports = Kept(@, curAddr \div 4)]
  <1>1. shown \in Seq(Line) /\ n \in Nat /\ n > 0 /\ n \in DOMAIN shown
    BY ShownType DEF ShownInOrder, PrintPort
  <1>2. shown[n] \in Line
    BY <1>1, ShownType, ElementType
  <1>3. Kept(shown[n].ports, curAddr \div 4) \in Seq(0 .. WORDS - 1)
    BY <1>2, KeptType, PortOfAddr DEF Line
  <1>4. line \in Line /\ line.stream = shown[n].stream
    BY <1>2, <1>3 DEF Line
  <1>5. shown' = [shown EXCEPT ![n] = line]
    BY DEF PrintPort
  <1> HIDE DEF line, n
  <1>6. /\ shown' \in Seq(Line) /\ Len(shown') = n /\ DOMAIN shown' = DOMAIN shown
        /\ shown'[n] = line /\ \A m \in DOMAIN shown : m # n => shown'[m] = shown[m]
    BY <1>1, <1>4, <1>5 DEF n
  <1>7. UNCHANGED <<first, last, behind, info, touched, changes, tool, i, pc, start, end, buf, cnt>>
    BY DEF PrintPort, tables, copies
  <1>8. curAddr' \in 0 .. 4 * WORDS - 1 /\ k' \in 0 .. WORDS - 1
    <2>1. curAddr + 4 \in Nat /\ 4 * WORDS \in Nat /\ 4 * WORDS > 0 /\ k + 1 \in Nat /\ WORDS > 0
      BY Bounds DEF TypeOK
    <2> QED BY <2>1, ModuloType, Bounds DEF PrintPort
  <1>9. TypeOK'
    BY <1>6, <1>7, <1>8 DEF TypeOK, Line
  <1>10. Progress'
    BY <1>7 DEF PrintPort, Progress
  <1> QED BY <1>1, <1>4, <1>6, <1>9, <1>10 DEF n, line

LEMMA FirmwareStep ==
    ASSUME TypeOK, Progress, Firmware
    PROVE  TypeOK' /\ Progress'
  <1>1. UNCHANGED <<behind, tool, pc, i, start, end, buf, curAddr, k, cnt, shown>>
    BY DEF Firmware, copies, loop
  <1>2. changes' \in 0 .. MAX_CHANGES
    BY Bounds DEF Firmware, TypeOK
  <1>3. touched' \subseteq Entry
    BY DEF Firmware, TypeOK
  <1>4. first' \in [Entry -> Byte] /\ last' \in [Entry -> Byte]
    BY DEF Firmware, TypeOK, Byte
  <1>5. Written \in 0 .. Written
    BY EntryBytes DEF Written
  <1>6. info' \in [InfoAddr -> 0 .. Written]
    BY <1>5 DEF Firmware, TypeOK
  <1>7. Progress'
    BY <1>1 DEF Progress
  <1> QED BY <1>1, <1>2, <1>3, <1>4, <1>6, <1>7 DEF TypeOK

LEMMA TypeAndProgressStep ==
    ASSUME TypeOK, Progress, ShownInOrder, [Next]_vars
    PROVE  TypeOK' /\ Progress'
  <1>1. CASE UNCHANGED vars
    BY <1>1 DEF vars, tables, copies, loop, TypeOK, Progress
  <1> QED BY <1>1, ReadInfoStep, ReadStartStep, ReadEndStep, PrintDataStep, SkipStreamStep,
             PrintStreamStep, PrintPortStep, FirmwareStep DEF Next, Tool

LEMMA TypesInit == Init => TypeOK /\ Progress
  <1> SUFFICES ASSUME Init PROVE TypeOK /\ Progress
    OBVIOUS
  <1> USE Bounds
  <1>1. first \in [Entry -> Byte] /\ last \in [Entry -> Byte]
    BY DEF Init, Byte
  <1>2. info \in [InfoAddr -> 0 .. Written]
    BY EntryBytes DEF Init, InfoAddr, Written
  <1>3. pc \in {"info", "start"}
    BY DEF Init
  <1>4. curAddr \in 0 .. 4 * WORDS - 1 /\ k \in 0 .. WORDS - 1 /\ cnt \in 0 .. WORDS - 1
    BY DEF Init
  <1>5. start \in Seq(Byte) /\ end \in Seq(Byte) /\ buf \in Seq(0 .. Written) /\ shown \in Seq(Line)
    BY DEF Init
  <1>6. TypeOK
    BY <1>1, <1>2, <1>3, <1>4, <1>5 DEF TypeOK, Init, Line
  <1>7. Progress
    BY EntryBytes DEF Init, Progress, Tools
  <1> QED BY <1>6, <1>7

-----------------------------------------------------------------------------
(***************************************************************************)
(* Streams that the firmware leaves alone.                                 *)
(***************************************************************************)
LEMMA BytesInit == Init => BytesAreFirst
  <1> SUFFICES ASSUME Init, NEW s \in Entry
               PROVE  /\ \/ first[s] \in Port /\ last[s] \in Port /\ first[s] <= last[s]
                         \/ first[s] = None /\ last[s] = None
                      /\ \A f \in 0 .. FIELDS - 1 : info[InfoOf(s, f)] = InfoOf(s, f)
    BY DEF BytesAreFirst
  <1>1. PICK ports \in [Entry -> { p \in Port \X Port : p[1] <= p[2] } \cup {<<None, None>>}] :
           first = [t \in Entry |-> ports[t][1]] /\ last = [t \in Entry |-> ports[t][2]]
    BY DEF Init
  <1>2. ports[s] \in { p \in Port \X Port : p[1] <= p[2] } \cup {<<None, None>>}
    BY <1>1
  <1>3. \/ first[s] \in Port /\ last[s] \in Port /\ first[s] <= last[s]
        \/ first[s] = None /\ last[s] = None
    BY <1>1, <1>2
  <1>4. ASSUME NEW f \in 0 .. FIELDS - 1 PROVE info[InfoOf(s, f)] = InfoOf(s, f)
    BY InfoOfIsAddr, EntryBounds DEF Init
  <1> QED BY <1>3, <1>4

(* Its bytes stay what they were.                                          *)
LEMMA BytesStay ==
    ASSUME TypeOK, [Next]_vars, NEW s \in Entry \ touched'
    PROVE  /\ s \in Entry \ touched /\ first'[s] = first[s] /\ last'[s] = last[s]
           /\ \A f \in 0 .. FIELDS - 1 : info'[InfoOf(s, f)] = info[InfoOf(s, f)]
  <1>1. CASE Firmware
    <2>1. PICK t \in Entry :
             /\ touched' = touched \cup {t}
             /\ \/ \E p \in Port \cup {None} : first' = [first EXCEPT ![t] = p]
                   /\ UNCHANGED <<last, info>>
                \/ \E p \in Port \cup {None} : last' = [last EXCEPT ![t] = p]
                   /\ UNCHANGED <<first, info>>
                \/ \E f \in 0 .. FIELDS - 1 : info' = [info EXCEPT ![InfoOf(t, f)] = Written]
                   /\ UNCHANGED <<first, last>>
      BY <1>1 DEF Firmware
    <2>2. s # t
      BY <2>1
    <2>3. ASSUME NEW f \in 0 .. FIELDS - 1, NEW g \in 0 .. FIELDS - 1
          PROVE  InfoOf(s, f) # InfoOf(t, g)
      BY <2>2, InfoOfIsOne, EntryBounds
    <2>4. ASSUME NEW f \in 0 .. FIELDS - 1 PROVE InfoOf(s, f) \in InfoAddr
      BY InfoOfIsAddr, EntryBounds
    <2> HIDE DEF InfoAddr
    <2>5. ASSUME NEW f \in 0 .. FIELDS - 1 PROVE info'[InfoOf(s, f)] = info[InfoOf(s, f)]
      BY <2>1, <2>3, <2>4 DEF TypeOK
    <2> QED BY <2>1, <2>2, <2>5 DEF TypeOK
  <1>2. CASE Tool \/ UNCHANGED vars
    BY <1>2 DEF Tool, vars, tables, ReadInfo, ReadStart, ReadEnd, PrintData, SkipStream,
                PrintStream, PrintPort, PortsPrinted
  <1> QED BY <1>1, <1>2 DEF Next

LEMMA BytesStep ==
    ASSUME TypeOK, BytesAreFirst, [Next]_vars
    PROVE  BytesAreFirst'
  BY BytesStay DEF BytesAreFirst

(* What is copied of it is what it is, and stays so.                       *)
LEMMA CopiesStep ==
    ASSUME TypeOK, Progress, BytesAreFirst, CopiesAreTrue, [Next]_vars
    PROVE  CopiesAreTrue'
  <1> SUFFICES ASSUME NEW s \in Entry \ touched'
               PROVE  /\ s < Len(start') => start'[s + 1] = first[s]
                      /\ s < Len(end') => end'[s + 1] = last[s]
                      /\ \A f \in 0 .. FIELDS - 1 :
                            InfoOf(s, f) < Len(buf') => buf'[InfoOf(s, f) + 1] = InfoOf(s, f)
    BY BytesStay DEF CopiesAreTrue
  <1>1. s \in Entry \ touched /\ s \in 0 .. STREAMS - 1 /\ s \in Nat
    BY BytesStay, EntryBounds, Bounds
  <1>2. /\ s < Len(start) => start[s + 1] = first[s]
        /\ s < Len(end) => end[s + 1] = last[s]
        /\ \A f \in 0 .. FIELDS - 1 :
              InfoOf(s, f) < Len(buf) => buf[InfoOf(s, f) + 1] = InfoOf(s, f)
    BY <1>1 DEF CopiesAreTrue
  <1>3. ASSUME NEW S, NEW t \in Seq(S), NEW x, NEW n \in Nat, n < Len(Append(t, x))
        PROVE  Append(t, x)[n + 1] = IF n < Len(t) THEN t[n + 1] ELSE x
    BY <1>3
  <1>4. ASSUME NEW S, NEW t \in Seq(S), NEW x PROVE Len(Append(t, x)) = Len(t) + 1
    OBVIOUS
  <1>5. CASE ReadInfo
    <2>1. buf' = Append(buf, info[i]) /\ Len(buf) = i /\ i \in Nat /\ UNCHANGED <<start, end>>
      BY <1>5, ReadInfoStep DEF ReadInfo, TypeOK
    <2>2. ASSUME NEW f \in 0 .. FIELDS - 1, InfoOf(s, f) < Len(buf')
          PROVE  buf'[InfoOf(s, f) + 1] = InfoOf(s, f)
      <3>1. InfoOf(s, f) \in Nat
        BY <1>1, InfoOfIsAddr
      <3>2. info[InfoOf(s, f)] = InfoOf(s, f)
        BY <1>1 DEF BytesAreFirst
      <3>3. buf \in Seq(0 .. Written)
        BY DEF TypeOK
      <3>4. InfoOf(s, f) <= i
        BY <2>1, <2>2, <3>1, <3>3, <1>4
      <3>5. buf'[InfoOf(s, f) + 1] = IF InfoOf(s, f) < i THEN buf[InfoOf(s, f) + 1] ELSE info[i]
        BY <2>1, <2>2, <3>1, <3>3, <1>3
      <3> QED BY <1>2, <2>1, <3>1, <3>2, <3>4, <3>5
    <2> QED BY <1>2, <2>1, <2>2
  <1>6. CASE ReadStart
    <2>1. /\ start' = Append(start, FirstAt(i)) /\ Len(start) = i /\ i \in Nat
          /\ UNCHANGED <<buf, end>> /\ start \in Seq(Byte)
      BY <1>6, ReadStartStep DEF ReadStart, TypeOK
    <2>2. ASSUME s < Len(start') PROVE start'[s + 1] = first[s]
      <3>1. s <= i
        BY <2>1, <2>2, <1>1, <1>4
      <3>2. start'[s + 1] = IF s < i THEN start[s + 1] ELSE FirstAt(i)
        BY <2>1, <2>2, <1>1, <1>3
      <3> QED BY <1>1, <1>2, <2>1, <3>1, <3>2 DEF FirstAt
    <2> QED BY <1>2, <2>1, <2>2
  <1>7. CASE ReadEnd
    <2>1. /\ end' = Append(end, LastAt(i)) /\ Len(end) = i /\ i \in Nat
          /\ UNCHANGED <<buf, start>> /\ end \in Seq(Byte)
      BY <1>7, ReadEndStep DEF ReadEnd, TypeOK
    <2>2. ASSUME s < Len(end') PROVE end'[s + 1] = last[s]
      <3>1. s <= i
        BY <2>1, <2>2, <1>1, <1>4
      <3>2. end'[s + 1] = IF s < i THEN end[s + 1] ELSE LastAt(i)
        BY <2>1, <2>2, <1>1, <1>3
      <3> QED BY <1>1, <1>2, <2>1, <3>1, <3>2 DEF LastAt
    <2> QED BY <1>2, <2>1, <2>2
  <1>8. CASE PrintData \/ SkipStream \/ PrintStream \/ PrintPort \/ PortsPrinted
             \/ Firmware \/ UNCHANGED vars
    <2>1. UNCHANGED copies
      BY <1>8 DEF vars, PrintData, SkipStream, PrintStream, PrintPort, PortsPrinted, Firmware
    <2> QED BY <1>2, <2>1 DEF copies
  <1> QED BY <1>5, <1>6, <1>7, <1>8 DEF Next, Tool

-----------------------------------------------------------------------------
(***************************************************************************)
(* The lines: each is for one stream, in the order of the streams.         *)
(***************************************************************************)
LEMMA AppendLine ==
    ASSUME NEW S, NEW t \in Seq(S), NEW x
    PROVE  /\ Len(Append(t, x)) = Len(t) + 1 /\ Len(t) \in Nat
           /\ DOMAIN t = 1 .. Len(t) /\ DOMAIN Append(t, x) = 1 .. Len(t) + 1
           /\ Append(t, x)[Len(t) + 1] = x
           /\ \A n \in DOMAIN t : Append(t, x)[n] = t[n]
  OBVIOUS

LEMMA OrderStep ==
    ASSUME TypeOK, Progress, ShownInOrder, [Next]_vars
    PROVE  ShownInOrder'
  <1>1. CASE pc \in {"info", "start", "end"}
    <2>1. shown = <<>> /\ shown' = <<>>
      BY <1>1 DEF Progress, Next, Tool, vars, ReadInfo, ReadStart, ReadEnd, PrintData, SkipStream,
                  PrintStream, PrintPort, PortsPrinted, Firmware
    <2>2. pc' # "port"
      BY <1>1 DEF Next, Tool, vars, ReadInfo, ReadStart, ReadEnd, ReadByte, PrintData, SkipStream,
                  PrintStream, PrintPort, PortsPrinted, Firmware
    <2> QED BY <2>1, <2>2 DEF ShownInOrder
  <1>2. CASE PrintData
    <2>1. /\ i' = i + 1 /\ pc' # "port" /\ pc # "port"
          /\ shown' = Append(shown, [stream |-> i, fields |-> Fields(i),
                                     ports |-> IF HasPorts(i) THEN <<StartPort, EndPort>> ELSE <<>>])
      BY <1>2, PrintDataStep DEF PrintData
    <2>2. /\ DOMAIN shown' = 1 .. Len(shown) + 1 /\ shown'[Len(shown) + 1].stream = i
          /\ \A n \in DOMAIN shown : shown'[n] = shown[n]
      BY <2>1, ShownType, AppendLine
    <2> QED BY <2>1, <2>2, ShownType DEF ShownInOrder
  <1>3. CASE SkipStream \/ PortsPrinted
    <2>1. i' = i + 1 /\ pc' # "port" /\ shown' = shown
      BY <1>3, SkipStreamStep DEF SkipStream, PortsPrinted
    <2> QED BY <2>1, ShownType DEF ShownInOrder
  <1>4. CASE PrintStream
    <2>1. /\ i' = i /\ pc' = "port" /\ pc # "port"
          /\ shown' = Append(shown, [stream |-> i, fields |-> <<>>, ports |-> <<>>])
      BY <1>4, PrintStreamStep DEF PrintStream
    <2>2. /\ DOMAIN shown' = 1 .. Len(shown) + 1 /\ shown'[Len(shown) + 1].stream = i
          /\ Len(shown') = Len(shown) + 1
          /\ \A n \in DOMAIN shown : shown'[n] = shown[n]
      BY <2>1, ShownType, AppendLine
    <2> QED BY <2>1, <2>2, ShownType DEF ShownInOrder
  <1>5. CASE PrintPort
    <2>1. i' = i /\ pc' = "port" /\ pc = "port"
      BY <1>5 DEF PrintPort
    <2> QED BY <1>5, <2>1, PrintPortStep, ShownType DEF ShownInOrder
  <1>6. CASE pc = "done" \/ UNCHANGED vars
    <2>1. UNCHANGED <<pc, i, shown>>
      BY <1>6 DEF Next, Tool, vars, ReadInfo, ReadStart, ReadEnd, PrintData, SkipStream,
                  PrintStream, PrintPort, PortsPrinted, Firmware
    <2> QED BY <2>1 DEF ShownInOrder
  <1> QED BY <1>1, <1>2, <1>3, <1>4, <1>5, <1>6
             DEF Next, Tool, ReadInfo, ReadStart, ReadEnd, Firmware

(* The loop over the ports of a stream.                                    *)
LEMMA CopiesAreBytes ==
    ASSUME TypeOK, Progress, BytesAreFirst, CopiesAreTrue, pc \in {"print", "port"},
           i \in Entry \ touched
    PROVE  /\ StartPort = first[i] /\ EndPort = last[i] /\ (HasPorts(i) <=> Routed(i))
           /\ Routed(i) => first[i] \in Port /\ last[i] \in Port /\ first[i] <= last[i]
  <1>1. i \in Nat /\ i < Len(start) /\ i < Len(end)
    BY AtStream, Bounds
  <1>2. start[i + 1] = first[i] /\ end[i + 1] = last[i]
    BY <1>1 DEF CopiesAreTrue
  <1> QED BY <1>2 DEF StartPort, EndPort, HasPorts, Routed, BytesAreFirst

LEMMA AppendToRow ==
    ASSUME NEW n \in Nat, NEW a \in Nat
    PROVE  Append([j \in 1 .. n |-> a + j - 1], a + n) = [j \in 1 .. n + 1 |-> a + j - 1]
  OBVIOUS

LEMMA SmallModulo == ASSUME NEW a \in Nat, NEW w \in Nat, a < w PROVE a % w = a
  OBVIOUS

LEMMA FourTimes == ASSUME NEW a \in Nat PROVE (4 * a) \div 4 = a
  OBVIOUS

LEMMA LoopStep ==
    ASSUME TypeOK, Progress, BytesAreFirst, CopiesAreTrue, ShownInOrder, LoopIsTrue, [Next]_vars
    PROVE  LoopIsTrue'
  <1> SUFFICES ASSUME pc' = "port", i' \in Entry \ touched'
               PROVE  /\ Routed(i)'
                      /\ cnt' = last'[i'] - first'[i'] /\ k' <= cnt' + 1
                      /\ curAddr' = 4 * (first'[i'] + k')
                      /\ shown'[Len(shown')] = [stream |-> i', fields |-> <<>>,
                                                ports |-> [n \in 1 .. k' |-> first'[i'] + n - 1]]
    BY DEF LoopIsTrue
  <1> USE Bounds
  <1>1. CASE PrintStream
    <2>1. i \in Entry \ touched /\ UNCHANGED <<i, first, last>> /\ pc = "print" /\ HasPorts(i)
      BY <1>1 DEF PrintStream, tables
    <2>2. /\ StartPort = first[i] /\ EndPort = last[i] /\ Routed(i)
          /\ first[i] \in Port /\ last[i] \in Port /\ first[i] <= last[i]
      BY <2>1, CopiesAreBytes
    <2>3. Distance = last[i] - first[i]
      BY <2>2 DEF Distance, Port
    <2>4. shown'[Len(shown')] = [stream |-> i, fields |-> <<>>, ports |-> <<>>]
      BY <1>1, ShownType, AppendLine DEF PrintStream
    <2>5. k' = 0 /\ cnt' = last[i] - first[i] /\ curAddr' = 4 * first[i]
      BY <1>1, <2>2, <2>3 DEF PrintStream
    <2>6. <<>> = [n \in 1 .. 0 |-> first[i] + n - 1]
      OBVIOUS
    <2> QED BY <2>1, <2>2, <2>4, <2>5, <2>6 DEF Routed, Port
  <1>2. CASE PrintPort
    <2>1. i \in Entry \ touched /\ UNCHANGED <<i, first, last, cnt>> /\ pc = "port" /\ MorePorts
      BY <1>2 DEF PrintPort, tables
    <2>2. /\ Routed(i) /\ cnt = last[i] - first[i] /\ k <= cnt + 1
          /\ curAddr = 4 * (first[i] + k)
      BY <2>1 DEF LoopIsTrue
    <2> DEFINE row == [n \in 1 .. k |-> first[i] + n - 1]
    <2>3. shown[Len(shown)] = [stream |-> i, fields |-> <<>>, ports |-> row]
      BY <2>1 DEF LoopIsTrue
    <2> HIDE DEF row
    <2>4. /\ first[i] \in Nat /\ last[i] \in Nat /\ last[i] <= MAX_PORT
          /\ first[i] <= last[i] /\ k \in Nat /\ WORDS \in Nat
      BY <2>1, <2>2, CopiesAreBytes DEF Port, TypeOK
    <2>5. k < cnt + 1 /\ cnt + 1 \in Nat /\ cnt + 1 < WORDS
      <3>1. cnt + 1 \in Nat /\ cnt + 1 < WORDS
        BY <2>2, <2>4
      <3>2. (cnt + 1) % WORDS = cnt + 1
        BY <3>1, SmallModulo
      <3> QED BY <2>1, <3>1, <3>2 DEF MorePorts
    <2>6. k' = k + 1 /\ curAddr \div 4 = first[i] + k /\ curAddr' = curAddr + 4
      <3>1. k + 1 \in Nat /\ k + 1 < WORDS /\ first[i] + k \in Nat
        BY <2>2, <2>4, <2>5
      <3>2. curAddr + 4 < 4 * WORDS /\ curAddr + 4 \in Nat /\ 4 * WORDS \in Nat
        BY <2>2, <2>4, <2>5
      <3>3. (k + 1) % WORDS = k + 1 /\ (curAddr + 4) % (4 * WORDS) = curAddr + 4
        BY <3>1, <3>2, SmallModulo
      <3>4. curAddr \div 4 = first[i] + k
        BY <2>2, <3>1, FourTimes
      <3> QED BY <1>2, <3>3, <3>4 DEF PrintPort
    <2>7. Kept(row, first[i] + k) = [n \in 1 .. k + 1 |-> first[i] + n - 1]
      <3>1. Len(row) = k
        BY <2>4 DEF row
      <3>2. Append(row, first[i] + k) = [n \in 1 .. k + 1 |-> first[i] + n - 1]
        BY <2>4, AppendToRow DEF row
      <3>3. Len(row) < WORDS
        BY <2>4, <2>5, <3>1
      <3> QED BY <3>2, <3>3 DEF Kept
    <2>8. shown'[Len(shown')] = [shown[Len(shown)] EXCEPT !.ports = Kept(@, curAddr \div 4)]
      BY <1>2, PrintPortStep
    <2>9. shown'[Len(shown')] = [stream |-> i, fields |-> <<>>,
                                 ports |-> Kept(row, first[i] + k)]
      BY <2>3, <2>6, <2>8
    <2>10. shown'[Len(shown')] = [stream |-> i, fields |-> <<>>,
                                  ports |-> [n \in 1 .. k' |-> first[i] + n - 1]]
      BY <2>6, <2>7, <2>9
    <2>11. k' <= cnt + 1 /\ curAddr' = 4 * (first[i] + k')
      <3>1. 4 * (first[i] + k) + 4 = 4 * (first[i] + (k + 1)) /\ k + 1 <= cnt + 1
        BY <2>4, <2>5
      <3> QED BY <2>2, <2>6, <3>1
    <2>12. Routed(i)' /\ i' = i
      BY <2>1, <2>2 DEF Routed
    <2> QED BY <2>1, <2>2, <2>10, <2>11, <2>12
  <1>3. CASE UNCHANGED vars
    <2>1. UNCHANGED <<pc, i, touched, first, last, cnt, k, curAddr, shown>>
      BY <1>3 DEF vars, tables, loop
    <2> QED BY <2>1 DEF LoopIsTrue, Routed
  <1>4. CASE ReadInfo \/ ReadStart \/ ReadEnd \/ PrintData \/ SkipStream \/ PortsPrinted \/ Firmware
    BY <1>4, PrintDataStep, SkipStreamStep
       DEF ReadInfo, ReadStart, ReadEnd, ReadByte, Firmware
  <1> QED BY <1>1, <1>2, <1>3, <1>4 DEF Next, Tool

-----------------------------------------------------------------------------
(***************************************************************************)
(* A stream is shown as wanted, and stays so.                              *)
(***************************************************************************)
LEMMA WantedStays ==
    ASSUME TypeOK, [Next]_vars, NEW s \in Entry \ touched'
    PROVE  Wanted(s)' = Wanted(s) /\ Routed(s)' = Routed(s) /\ tool' = tool
  <1>1. first'[s] = first[s] /\ last'[s] = last[s]
    BY BytesStay
  <1>2. tool' = tool
    BY DEF Next, Tool, vars, ReadInfo, ReadStart, ReadEnd, PrintData, SkipStream,
           PrintStream, PrintPort, PortsPrinted, Firmware
  <1> QED BY <1>1, <1>2 DEF Wanted, Routed

(* A line for another stream, or a change of one, leaves it as it is.       *)
LEMMA OthersStay ==
    ASSUME TypeOK, [Next]_vars, NEW s \in Entry \ touched', ShownAsWanted(s),
           \A n \in DOMAIN shown' : \/ n \in DOMAIN shown /\ shown'[n] = shown[n]
                                    \/ shown'[n].stream # s,
           \A n \in DOMAIN shown : \/ n \in DOMAIN shown' /\ shown'[n] = shown[n]
                                   \/ shown[n].stream # s
    PROVE  ShownAsWanted(s)'
  <1>1. Wanted(s)' = Wanted(s) /\ Routed(s)' = Routed(s) /\ tool' = tool
    BY WantedStays
  <1>2. ShownFor(s)' = ShownFor(s)
    BY DEF ShownFor
  <1>3. CASE tool = "data" \/ Routed(s)
    <2>1. PICK n \in DOMAIN shown : ShownFor(s) = {n} /\ shown[n] = Wanted(s)
      BY <1>3 DEF ShownAsWanted
    <2>2. n \in ShownFor(s)
      BY <2>1
    <2>3. n \in DOMAIN shown' /\ shown'[n] = shown[n]
      BY <2>2 DEF ShownFor
    <2> QED BY <1>1, <1>2, <1>3, <2>1, <2>3 DEF ShownAsWanted
  <1>4. CASE ~(tool = "data" \/ Routed(s))
    BY <1>1, <1>2, <1>4 DEF ShownAsWanted
  <1> QED BY <1>3, <1>4

(* A line that is the only one of its stream and is as wanted.             *)
LEMMA OneLine ==
    ASSUME NEW s, NEW n \in DOMAIN shown', shown'[n].stream = s,
           \A m \in DOMAIN shown' : m # n => shown'[m].stream # s,
           (tool = "data" \/ Routed(s))', shown'[n] = Wanted(s)'
    PROVE  ShownAsWanted(s)'
  <1>1. ShownFor(s)' = {n}
    BY DEF ShownFor
  <1> QED BY <1>1 DEF ShownAsWanted

LEMMA LineOfData ==
    ASSUME TypeOK, Progress, BytesAreFirst, CopiesAreTrue, ShownInOrder, PrintData,
           NEW s \in Entry \ touched, s = i
    PROVE  ShownAsWanted(s)'
  <1>1. /\ i' = i + 1 /\ pc # "port" /\ tool' = tool /\ tool = "data" /\ pc = "print"
        /\ shown' = Append(shown, [stream |-> i, fields |-> Fields(i),
                                   ports |-> IF HasPorts(i) THEN <<StartPort, EndPort>> ELSE <<>>])
        /\ UNCHANGED <<first, last>>
    BY PrintDataStep DEF PrintData, tables
  <1>2. i \in 0 .. STREAMS - 1 /\ Len(buf) = STREAMS * FIELDS
    BY <1>1, AtStream
  <1>3. Fields(i) = [f \in 1 .. FIELDS - 1 |-> InfoOf(i, f)]
    <2>1. ASSUME NEW f \in 1 .. FIELDS - 1 PROVE buf[InfoOf(i, f) + 1] = InfoOf(i, f)
      <3>1. f \in 0 .. FIELDS - 1
        BY Bounds
      <3>2. InfoOf(i, f) \in Nat /\ InfoOf(i, f) < Len(buf)
        BY <1>2, <3>1, InfoOfIsAddr, EntryBytes DEF InfoAddr
      <3> QED BY <3>1, <3>2 DEF CopiesAreTrue
    <2> QED BY <2>1 DEF Fields
  <1>4. StartPort = first[i] /\ EndPort = last[i] /\ (HasPorts(i) <=> Routed(i))
    BY <1>1, CopiesAreBytes
  <1>5. Routed(s)' <=> Routed(i)
    BY <1>1 DEF Routed
  <1>6. Wanted(s)' = [stream |-> i, fields |-> Fields(i),
                      ports |-> IF HasPorts(i) THEN <<StartPort, EndPort>> ELSE <<>>]
    BY <1>1, <1>3, <1>4, <1>5 DEF Wanted
  <1> DEFINE n == Len(shown) + 1
  <1>7. /\ n \in DOMAIN shown' /\ shown'[n] = Wanted(s)' /\ shown'[n].stream = i
        /\ \A m \in DOMAIN shown' : m # n => m \in DOMAIN shown /\ shown'[m] = shown[m]
    BY <1>1, <1>6, ShownType, AppendLine
  <1>8. \A m \in DOMAIN shown : shown[m].stream # i
    BY <1>1, ShownType DEF ShownInOrder
  <1> HIDE DEF n
  <1> QED BY <1>1, <1>7, <1>8, OneLine

LEMMA LineOfPorts ==
    ASSUME TypeOK, Progress, BytesAreFirst, CopiesAreTrue, ShownInOrder, LoopIsTrue, PortsPrinted,
           NEW s \in Entry \ touched, s = i
    PROVE  ShownAsWanted(s)'
  <1>1. /\ pc = "port" /\ ~MorePorts /\ shown' = shown /\ tool' = tool /\ tool = "ports"
        /\ UNCHANGED <<first, last>>
    BY DEF PortsPrinted, tables, Progress
  <1>2. /\ Routed(i) /\ cnt = last[i] - first[i] /\ k <= cnt + 1
    BY <1>1 DEF LoopIsTrue
  <1>3. shown[Len(shown)] = [stream |-> i, fields |-> <<>>,
                             ports |-> [m \in 1 .. k |-> first[i] + m - 1]]
    BY <1>1 DEF LoopIsTrue
  <1>4. /\ first[i] \in Nat /\ last[i] \in Nat /\ last[i] <= MAX_PORT
        /\ first[i] <= last[i] /\ k \in Nat /\ WORDS \in Nat
    BY <1>1, <1>2, CopiesAreBytes, Bounds DEF Port, TypeOK
  <1>5. k = last[i] - first[i] + 1
    <2>1. cnt + 1 \in Nat /\ cnt + 1 < WORDS
      BY <1>2, <1>4, Bounds
    <2>2. (cnt + 1) % WORDS = cnt + 1
      BY <1>4, <2>1, SmallModulo
    <2> QED BY <1>1, <1>2, <1>4, <2>1, <2>2 DEF MorePorts
  <1>6. shown'[Len(shown)] = Wanted(s)'
    <2>1. Wanted(s)' = [stream |-> i, fields |-> <<>>,
                        ports |-> [m \in 1 .. last[i] - first[i] + 1 |-> first[i] + m - 1]]
      BY <1>1 DEF Wanted
    <2> QED BY <1>1, <1>3, <1>5, <2>1
  <1>7. Len(shown) \in DOMAIN shown' /\ shown'[Len(shown)].stream = i
    BY <1>1, ShownType DEF ShownInOrder
  <1>8. \A m \in DOMAIN shown' : m # Len(shown) => shown'[m].stream # i
    BY <1>1, ShownType DEF ShownInOrder
  <1>9. Routed(s)'
    BY <1>1, <1>2 DEF Routed
  <1> QED BY <1>6, <1>7, <1>8, <1>9, OneLine

LEMMA NoLine ==
    ASSUME TypeOK, Progress, BytesAreFirst, CopiesAreTrue, ShownInOrder, SkipStream,
           NEW s \in Entry \ touched, s = i
    PROVE  ShownAsWanted(s)'
  <1>1. /\ pc = "print" /\ ~HasPorts(i) /\ shown' = shown /\ tool' = tool /\ tool = "ports"
        /\ UNCHANGED <<first, last>>
    BY DEF SkipStream, tables
  <1>2. ~Routed(s)'
    BY <1>1, CopiesAreBytes DEF Routed
  <1>3. ShownFor(s)' = {}
    BY <1>1, ShownType DEF ShownInOrder, ShownFor
  <1> QED BY <1>1, <1>2, <1>3 DEF ShownAsWanted

LEMMA WantedStep ==
    ASSUME TypeOK, Progress, BytesAreFirst, CopiesAreTrue, ShownInOrder, LoopIsTrue,
           SoFarAsWanted, [Next]_vars
    PROVE  SoFarAsWanted'
  <1> SUFFICES ASSUME pc' \in {"print", "port", "done"}, NEW s \in Entry \ touched', s < i'
               PROVE  ShownAsWanted(s)'
    BY DEF SoFarAsWanted
  <1>1. s \in Entry \ touched /\ s \in Nat /\ i \in Nat
    BY BytesStay, EntryBounds, Bounds DEF TypeOK
  <1>2. ASSUME pc \in {"print", "port", "done"}, s < i PROVE ShownAsWanted(s)
    BY <1>1, <1>2 DEF SoFarAsWanted
  <1>3. CASE ReadInfo \/ ReadStart \/ ReadEnd
    <2>1. ReadEnd /\ pc = "end" /\ ~(i + 1 < STREAMS)
      BY <1>3 DEF ReadInfo, ReadStart, ReadEnd, ReadByte
    <2>2. i' = 0
      BY <2>1 DEF ReadEnd, ReadByte
    <2> QED BY <1>1, <2>2
  <1>4. CASE PrintData
    <2>1. /\ i' = i + 1 /\ pc = "print"
          /\ shown' = Append(shown, [stream |-> i, fields |-> Fields(i),
                                     ports |-> IF HasPorts(i) THEN <<StartPort, EndPort>> ELSE <<>>])
      BY <1>4, PrintDataStep DEF PrintData
    <2>2. CASE s = i
      BY <1>1, <1>4, <2>2, LineOfData
    <2>3. CASE s < i
      <3>1. /\ \A n \in DOMAIN shown' : \/ n \in DOMAIN shown /\ shown'[n] = shown[n]
                                        \/ shown'[n].stream # s
            /\ \A n \in DOMAIN shown : n \in DOMAIN shown' /\ shown'[n] = shown[n]
        BY <1>1, <2>1, <2>3, ShownType, AppendLine
      <3> QED BY <1>2, <2>1, <2>3, <3>1, OthersStay
    <2> QED BY <1>1, <2>1, <2>2, <2>3
  <1>5. CASE SkipStream \/ PortsPrinted
    <2>1. i' = i + 1 /\ pc \in {"print", "port"} /\ shown' = shown
      BY <1>5, SkipStreamStep DEF SkipStream, PortsPrinted
    <2>2. CASE s = i
      BY <1>1, <1>5, <2>2, NoLine, LineOfPorts
    <2>3. CASE s < i
      BY <1>2, <2>1, <2>3, OthersStay
    <2> QED BY <1>1, <2>1, <2>2, <2>3
  <1>6. CASE PrintStream
    <2>1. /\ i' = i /\ pc = "print"
          /\ shown' = Append(shown, [stream |-> i, fields |-> <<>>, ports |-> <<>>])
      BY <1>6, PrintStreamStep DEF PrintStream
    <2>2. /\ \A n \in DOMAIN shown' : \/ n \in DOMAIN shown /\ shown'[n] = shown[n]
                                      \/ shown'[n].stream # s
          /\ \A n \in DOMAIN shown : n \in DOMAIN shown' /\ shown'[n] = shown[n]
      BY <1>1, <2>1, ShownType, AppendLine
    <2> QED BY <1>2, <2>1, <2>2, OthersStay
  <1>7. CASE PrintPort
    <2>1. i' = i /\ pc = "port" /\ s < i
      BY <1>7 DEF PrintPort
    <2>2. /\ DOMAIN shown' = DOMAIN shown
          /\ \A n \in DOMAIN shown : n # Len(shown) => shown'[n] = shown[n]
          /\ shown'[Len(shown)].stream = i /\ shown[Len(shown)].stream = i
      BY <1>7, <2>1, PrintPortStep DEF ShownInOrder
    <2> QED BY <1>1, <1>2, <2>1, <2>2, OthersStay
  <1>8. CASE Firmware
    BY <1>8 DEF Firmware
  <1>9. CASE UNCHANGED vars
    <2>1. UNCHANGED <<i, pc, shown>>
      BY <1>9 DEF vars
    <2> QED BY <1>2, <2>1, OthersStay
  <1> QED BY <1>3, <1>4, <1>5, <1>6, <1>7, <1>8, <1>9 DEF Next, Tool

-----------------------------------------------------------------------------
(***************************************************************************)
(* The theorems.                                                           *)
(***************************************************************************)
LEMMA InitIInv == Init => IInv
  <1> SUFFICES ASSUME Init PROVE IInv
    OBVIOUS
  <1>1. TypeOK /\ Progress /\ BytesAreFirst
    BY TypesInit, BytesInit
  <1>2. start = <<>> /\ end = <<>> /\ buf = <<>> /\ shown = <<>> /\ pc \in {"info", "start"}
    BY DEF Init
  <1>3. CopiesAreTrue
    <2>1. ASSUME NEW s \in Entry PROVE s \in Nat /\ \A f \in 0 .. FIELDS - 1 : InfoOf(s, f) \in Nat
      BY EntryBounds, InfoOfIsAddr, Bounds
    <2> QED BY <1>2, <2>1 DEF CopiesAreTrue
  <1>4. ShownInOrder /\ LoopIsTrue /\ SoFarAsWanted
    BY <1>2 DEF ShownInOrder, LoopIsTrue, SoFarAsWanted
  <1> QED BY <1>1, <1>3, <1>4 DEF IInv

LEMMA NextIInv == IInv /\ [Next]_vars => IInv'
  BY TypeAndProgressStep, BytesStep, CopiesStep, OrderStep, LoopStep, WantedStep DEF IInv

(* Each part of the inductive invariant holds in every state: the types,    *)
(* the copies, which are true for the streams that the firmware leaves      *)
(* alone, and the lines, which are in the order of the streams.             *)
THEOREM Inductive == Spec => []IInv
  BY InitIInv, NextIInv, PTL DEF Spec

(* get-chipio-stream-ports and get-chipio-stream-data: a stream whose bytes *)
(* are not written while the tool reads them is shown once, with all its    *)
(* ports and no others, whatever happens to the other streams.             *)
THEOREM ShownTheorem == Spec => []StableIsShown
  <1>1. IInv => StableIsShown
    <2> SUFFICES ASSUME IInv, pc = "done", NEW s \in Entry \ touched PROVE ShownAsWanted(s)
      BY DEF StableIsShown
    <2>1. s < i
      BY EntryBounds, Bounds DEF IInv, Progress
    <2> QED BY <2>1 DEF IInv, SoFarAsWanted
  <1> QED BY <1>1, Inductive, PTL
=============================================================================
