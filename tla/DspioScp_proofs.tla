--------------------------- MODULE DspioScp_proofs ---------------------------
(***************************************************************************)
(* Theorems about the SCP header and the DSP command path, for every width  *)
(* of the size field, every retry count and queue capacity, every set of    *)
(* commands and however many of them are typed.                             *)
(***************************************************************************)
EXTENDS DspioScp, TLAPS

(***************************************************************************)
(* The header: packing fields into a number and taking them out again.      *)
(***************************************************************************)

(* The low part of a number made of two parts.                             *)
LEMMA LowPart ==
    ASSUME NEW n \in Nat \ {0}, NEW h \in Nat, NEW l \in 0 .. n - 1
    PROVE  (h * n + l) % n = l /\ (h * n + l) \div n = h
  OBVIOUS

HighOf(size, error, resp, device, req, get) ==
    size * 2048 + error * 1024 + resp * 512 + device * 256 + req * 2 + get

LowOf(source, target) == source * 256 + target

(* The high half of a header, field by field: each field is the low part of *)
(* what is left above the fields below it.                                  *)
LEMMA HighHalfFields ==
    ASSUME NEW size, NEW error, NEW resp, NEW device, NEW req, NEW get,
           size \in Nat, error \in 0 .. 1, resp \in 0 .. 1,
           device \in 0 .. 1, req \in 0 .. 127, get \in 0 .. 1
    PROVE  LET high == HighOf(size, error, resp, device, req, get)
           IN  /\ high \div 2048 = size
               /\ (high \div 1024) % 2 = error
               /\ (high \div 512) % 2 = resp
               /\ (high \div 256) % 2 = device
               /\ (high \div 2) % 128 = req
               /\ high % 2 = get
<1> DEFINE high == HighOf(size, error, resp, device, req, get)
<1>h. high = size * 2048 + error * 1024 + resp * 512 + device * 256 + req * 2 + get
  BY DEF HighOf
<1> HIDE DEF high
<1>1. high \div 2048 = size
  <2>1. error * 1024 + resp * 512 + device * 256 + req * 2 + get \in 0 .. 2047
    OBVIOUS
  <2> QED BY <1>h, <2>1, LowPart
<1>2. (high \div 1024) % 2 = error
  <2>1. /\ resp * 512 + device * 256 + req * 2 + get \in 0 .. 1023
        /\ size * 2 + error \in Nat
    OBVIOUS
  <2>2. high \div 1024 = size * 2 + error
    BY <1>h, <2>1, LowPart
  <2> QED BY <2>2, LowPart
<1>3. (high \div 512) % 2 = resp
  <2>1. /\ device * 256 + req * 2 + get \in 0 .. 511
        /\ size * 2 + error \in Nat
        /\ (size * 2 + error) * 2 + resp \in Nat
    OBVIOUS
  <2>2. high \div 512 = (size * 2 + error) * 2 + resp
    BY <1>h, <2>1, LowPart
  <2> QED BY <2>1, <2>2, LowPart
<1>4. (high \div 256) % 2 = device
  <2>1. /\ req * 2 + get \in 0 .. 255
        /\ (size * 2 + error) * 2 + resp \in Nat
        /\ ((size * 2 + error) * 2 + resp) * 2 + device \in Nat
    OBVIOUS
  <2>2. high \div 256 = ((size * 2 + error) * 2 + resp) * 2 + device
    BY <1>h, <2>1, LowPart
  <2> QED BY <2>1, <2>2, LowPart
<1>5. (high \div 2) % 128 = req
  <2>1. /\ ((size * 2 + error) * 2 + resp) * 2 + device \in Nat
        /\ (((size * 2 + error) * 2 + resp) * 2 + device) * 128 + req \in Nat
    OBVIOUS
  <2>2. high \div 2 = (((size * 2 + error) * 2 + resp) * 2 + device) * 128 + req
    BY <1>h, <2>1, LowPart
  <2> QED BY <2>1, <2>2, LowPart
<1>6. high % 2 = get
  <2>1. (((size * 2 + error) * 2 + resp) * 2 + device) * 128 + req \in Nat
    OBVIOUS
  <2> QED BY <1>h, <2>1, LowPart
<1> QED BY <1>1, <1>2, <1>3, <1>4, <1>5, <1>6 DEF high

(* The low half of a header.                                               *)
LEMMA LowHalfFields ==
    ASSUME NEW source, NEW target, source \in 0 .. 255, target \in 0 .. 255
    PROVE  /\ (LowOf(source, target) \div 256) % 256 = source
           /\ LowOf(source, target) % 256 = target
<1>1. LowOf(source, target) \div 256 = source
  BY LowPart DEF LowOf
<1>2. LowOf(source, target) % 256 = target
  BY LowPart DEF LowOf
<1> QED BY <1>1, <1>2

(* Every header the tools can make is taken apart into what it was made of. *)
THEOREM HeaderRoundTrip ==
    \A d \in ScpData : GetScpData(CreateHeader(d)) = d
<1> SUFFICES ASSUME NEW d \in ScpData
             PROVE  GetScpData(CreateHeader(d)) = d
  OBVIOUS
<1> DEFINE low  == LowOf(d.source_id, d.target_id)
           high == HighOf(d.data_size, d.error_flag, d.resp_flag, d.device_flag,
                          d.req, d.get_flag)
<1>1. /\ d.data_size \in 0 .. SIZES - 1
      /\ d.error_flag \in 0 .. 1 /\ d.resp_flag \in 0 .. 1
      /\ d.device_flag \in 0 .. 1 /\ d.get_flag \in 0 .. 1
      /\ d.req \in 0 .. 127
      /\ d.source_id \in 0 .. 255 /\ d.target_id \in 0 .. 255
  BY DEF ScpData, Bit, Byte
<1>2. CreateHeader(d) = <<low, high>>
  BY DEF CreateHeader, LowOf, HighOf
<1>3. d.data_size \in Nat /\ d.data_size % SIZES = d.data_size
  BY <1>1, HeaderAssumption
<1>4. /\ high \div 2048 = d.data_size
      /\ (high \div 1024) % 2 = d.error_flag
      /\ (high \div 512) % 2 = d.resp_flag
      /\ (high \div 256) % 2 = d.device_flag
      /\ (high \div 2) % 128 = d.req
      /\ high % 2 = d.get_flag
  BY <1>1, <1>3, HighHalfFields
<1>5. /\ (low \div 256) % 256 = d.source_id
      /\ low % 256 = d.target_id
  BY <1>1, LowHalfFields
<1> HIDE DEF low, high
<1>6. GetScpData(CreateHeader(d)) =
         [data_size |-> d.data_size, error_flag |-> d.error_flag,
          resp_flag |-> d.resp_flag, device_flag |-> d.device_flag,
          req |-> d.req, get_flag |-> d.get_flag,
          source_id |-> d.source_id, target_id |-> d.target_id]
  BY <1>2, <1>3, <1>4, <1>5 DEF GetScpData
<1> QED BY <1>6 DEF ScpData

-----------------------------------------------------------------------------
(***************************************************************************)
(* The command path.                                                       *)
(***************************************************************************)

(* A remainder is below what it is taken by.                               *)
LEMMA Remainder ==
    ASSUME NEW x, NEW n, x \in Nat, n \in Nat \ {0}
    PROVE  x % n \in Nat /\ x % n < n
  OBVIOUS

(* The two halves of a header fit sixteen bits.                            *)
LEMMA LowHalfFits ==
    ASSUME NEW source, NEW target, source \in Nat, target \in Nat,
           source < 256, target < 256
    PROVE  LowOf(source, target) \in HalfWord
<1>1. /\ source * 256 + target \in Nat
      /\ source * 256 + target < 65536
  OBVIOUS
<1> QED BY <1>1 DEF LowOf, HalfWord

LEMMA HighHalfFits ==
    ASSUME NEW size, NEW error, NEW resp, NEW device, NEW req, NEW get,
           size \in Nat, error \in Nat, resp \in Nat, device \in Nat,
           req \in Nat, get \in Nat,
           size < 32, error < 2, resp < 2, device < 2, req < 128, get < 2
    PROVE  HighOf(size, error, resp, device, req, get) \in HalfWord
<1>1. /\ size * 2048 + error * 1024 + resp * 512 + device * 256 + req * 2 + get
           \in Nat
      /\ size * 2048 + error * 1024 + resp * 512 + device * 256 + req * 2 + get
           < 65536
  OBVIOUS
<1> QED BY <1>1 DEF HighOf, HalfWord

(* What main sends for a command is a sequence of words.                   *)
LEMMA WordsTyped ==
    ASSUME NEW c \in Commands
    PROVE  /\ WordsOf(c) \in Seq(Word)
           /\ Len(WordsOf(c)) = Len(c.data) + 1
<1> DEFINE d == Pack(Len(c.data), c.req, c.src, c.mid)
<1>1. c.data \in Seq(Word) /\ c.req \in Nat /\ c.src \in Nat /\ c.mid \in Nat
  BY ScpAssumption
<1>2. /\ d.error_flag = 0 /\ d.resp_flag = 0
      /\ d.device_flag = 0 /\ d.get_flag = 0
  BY DEF Pack
<1>3. d.data_size \in Nat /\ d.data_size < 32
  <2>1. Len(c.data) \in Nat /\ SIZES \in Nat \ {0} /\ SIZES <= 32
    BY <1>1, HeaderAssumption
  <2>2. d.data_size \in Nat /\ d.data_size < SIZES
    BY <2>1, Remainder DEF Pack
  <2> HIDE DEF d
  <2> QED BY <2>1, <2>2
<1>4. d.req \in Nat /\ d.req < 128
  <2>1. c.req % 128 \in Nat /\ c.req % 128 < 128
    BY <1>1, Remainder
  <2> QED BY <2>1 DEF Pack
<1>5. /\ d.source_id \in Nat /\ d.source_id < 256
      /\ d.target_id \in Nat /\ d.target_id < 256
  <2>1. /\ c.src % 256 \in Nat /\ c.src % 256 < 256
        /\ c.mid % 256 \in Nat /\ c.mid % 256 < 256
    BY <1>1, Remainder
  <2> QED BY <2>1 DEF Pack
<1> HIDE DEF d
<1>6. CreateHeader(d) = << LowOf(d.source_id, d.target_id),
                           HighOf(d.data_size, d.error_flag, d.resp_flag,
                                  d.device_flag, d.req, d.get_flag) >>
  BY DEF CreateHeader, LowOf, HighOf
<1>7. CreateHeader(d) \in Word
  <2>1. LowOf(d.source_id, d.target_id) \in HalfWord
    BY <1>2, <1>3, <1>4, <1>5, LowHalfFits
  <2>2. HighOf(d.data_size, d.error_flag, d.resp_flag, d.device_flag,
               d.req, d.get_flag) \in HalfWord
    BY <1>2, <1>3, <1>4, <1>5, HighHalfFits
  <2> QED BY <1>6, <2>1, <2>2 DEF Word
<1> QED BY <1>1, <1>7 DEF WordsOf, d

WithResult(l, r) == [l EXCEPT ![Len(l)].result = r]
WithCount(l)     == [l EXCEPT ![Len(l)].queued = @ + 1]

(* Noting the result of the last attempt changes nothing else in the log.   *)
LEMMA SetResult ==
    ASSUME NEW l \in Seq(Attempt), l # <<>>,
           NEW r \in {"sending", "ok", "busy", "killed"}
    PROVE  LET m == WithResult(l, r) IN
           /\ m \in Seq(Attempt) /\ Len(m) = Len(l)
           /\ \A i \in 1 .. Len(l) :
                 /\ m[i].cmd = l[i].cmd /\ m[i].from = l[i].from
                 /\ m[i].queued = l[i].queued
                 /\ m[i].result = IF i = Len(l) THEN r ELSE l[i].result
<1> DEFINE new == [l[Len(l)] EXCEPT !.result = r]
<1>1. l[Len(l)] \in Attempt /\ Len(l) \in 1 .. Len(l)
  OBVIOUS
<1>2. /\ new \in Attempt
      /\ new.cmd = l[Len(l)].cmd /\ new.from = l[Len(l)].from
      /\ new.queued = l[Len(l)].queued /\ new.result = r
  BY <1>1 DEF Attempt
<1> HIDE DEF new
<1> DEFINE m == WithResult(l, r)
<1>3. m = [l EXCEPT ![Len(l)] = new]
  BY DEF new, WithResult
<1> HIDE DEF m
<1>4. m \in Seq(Attempt) /\ Len(m) = Len(l)
  BY <1>1, <1>2, <1>3
<1>5. \A i \in 1 .. Len(l) : m[i] = IF i = Len(l) THEN new ELSE l[i]
  BY <1>1, <1>3
<1> QED BY <1>2, <1>4, <1>5 DEF m

(* Nor does counting one more of its words as queued.                      *)
LEMMA CountQueued ==
    ASSUME NEW l \in Seq(Attempt), l # <<>>
    PROVE  LET m == WithCount(l) IN
           /\ m \in Seq(Attempt) /\ Len(m) = Len(l)
           /\ \A i \in 1 .. Len(l) :
                 /\ m[i].cmd = l[i].cmd /\ m[i].from = l[i].from
                 /\ m[i].result = l[i].result
                 /\ m[i].queued = IF i = Len(l) THEN l[i].queued + 1
                                                ELSE l[i].queued
<1> DEFINE queued == l[Len(l)].queued + 1
           new    == [l[Len(l)] EXCEPT !.queued = queued]
<1>1. l[Len(l)] \in Attempt /\ Len(l) \in 1 .. Len(l)
  OBVIOUS
<1>2. queued \in Nat
  BY <1>1 DEF Attempt
<1> DEFINE m == WithCount(l)
<1>6. m = [l EXCEPT ![Len(l)] = new]
  BY <1>1 DEF WithCount
<1> HIDE DEF m
<1>7. queued = l[Len(l)].queued + 1
  OBVIOUS
<1> HIDE DEF queued
<1>8. /\ new \in Attempt
      /\ new.cmd = l[Len(l)].cmd /\ new.from = l[Len(l)].from
      /\ new.result = l[Len(l)].result /\ new.queued = queued
  BY <1>1, <1>2 DEF Attempt
<1> HIDE DEF new
<1>4. m \in Seq(Attempt) /\ Len(m) = Len(l)
  BY <1>1, <1>6, <1>8
<1>5. \A i \in 1 .. Len(l) : m[i] = IF i = Len(l) THEN new ELSE l[i]
  BY <1>1, <1>6
<1> QED BY <1>4, <1>5, <1>7, <1>8 DEF m

(* Ending a command, with a result that is true of it, keeps the invariant. *)
LEMMA EndsKeeps ==
    ASSUME IInv, pc # "prompt",
           NEW r \in {"ok", "busy", "killed"}, Ends(r),
           r = "ok"   => attempt.queued = Len(sending),
           r = "busy" => attempt.queued < Len(sending),
           stream' = stream
    PROVE  /\ pc' = "prompt" /\ tries' \in 0 .. TRIES - 1 /\ word' \in Nat
           /\ log' \in Seq(Attempt)
           /\ PlaceInv' /\ WithinInv' /\ StreamIsPrefixes' /\ ResultsAreTrue'
<1>1. /\ log \in Seq(Attempt) /\ log # <<>>
      /\ PlaceInv /\ WithinInv /\ StreamIsPrefixes /\ ResultsAreTrue
  BY DEF IInv, TypeOK, PlaceInv
<1>2. /\ log' \in Seq(Attempt) /\ Len(log') = Len(log)
      /\ \A i \in 1 .. Len(log) :
            /\ log'[i].cmd = log[i].cmd /\ log'[i].from = log[i].from
            /\ log'[i].queued = log[i].queued
            /\ log'[i].result = IF i = Len(log) THEN r ELSE log[i].result
  <2>1. log \in Seq(Attempt) /\ log # <<>>
    BY <1>1
  <2>2. log' = WithResult(log, r)
    BY DEF Ends, WithResult
  <2>3. r \in {"sending", "ok", "busy", "killed"}
    OBVIOUS
  <2>4. /\ WithResult(log, r) \in Seq(Attempt)
        /\ Len(WithResult(log, r)) = Len(log)
        /\ \A i \in 1 .. Len(log) :
              /\ WithResult(log, r)[i].cmd = log[i].cmd
              /\ WithResult(log, r)[i].from = log[i].from
              /\ WithResult(log, r)[i].queued = log[i].queued
              /\ WithResult(log, r)[i].result
                    = IF i = Len(log) THEN r ELSE log[i].result
    BY <2>1, <2>3, SetResult
  <2> QED BY <2>2, <2>4, Zenon
<1>3. /\ pc' = "prompt" /\ word' = 1 /\ tries' \in 0 .. TRIES - 1
  BY ScpAssumption DEF Ends
<1>4. PlaceInv'
  BY <1>1, <1>2, <1>3 DEF PlaceInv, attempt
<1>5. StreamIsPrefixes'
  <2> SUFFICES ASSUME NEW i \in 1 .. Len(log')
               PROVE  /\ log'[i].queued <= Len(WordsOf(log'[i].cmd))
                      /\ log'[i].from + log'[i].queued
                            = IF i < Len(log') THEN log'[i + 1].from
                                               ELSE Len(stream')
                      /\ \A k \in 1 .. log'[i].queued :
                            stream'[log'[i].from + k] = WordsOf(log'[i].cmd)[k]
    BY DEF StreamIsPrefixes, WordsOf
  <2>1. i < Len(log) => i + 1 \in 1 .. Len(log)
    BY <1>1, <1>2
  <2>2. /\ log[i].queued <= Len(WordsOf(log[i].cmd))
        /\ log[i].from + log[i].queued
              = IF i < Len(log) THEN log[i + 1].from ELSE Len(stream)
        /\ \A k \in 1 .. log[i].queued :
              stream[log[i].from + k] = WordsOf(log[i].cmd)[k]
    BY <1>1, <1>2 DEF StreamIsPrefixes
  <2>3. /\ log'[i].queued = log[i].queued /\ log'[i].from = log[i].from
        /\ log'[i].cmd = log[i].cmd
        /\ i < Len(log) => log'[i + 1].from = log[i + 1].from
    BY <1>2, <2>1
  <2> QED BY <1>2, <2>2, <2>3
<1>6. ResultsAreTrue'
  BY <1>1, <1>2 DEF ResultsAreTrue, attempt, sending
<1>7. WithinInv'
  BY <1>1, <1>2 DEF WithinInv
<1> QED BY <1>2, <1>3, <1>4, <1>5, <1>6, <1>7

(* Polling or sending once more, or giving up, keeps the invariant.         *)
LEMMA TryAgainKeeps ==
    ASSUME IInv, pc \in {"wait", "low", "high"}, TryAgain,
           UNCHANGED <<lowHalf, stream, dspVars>>, lost' \in BOOLEAN
    PROVE  IInv'
<1>1. TypeOK /\ PlaceInv /\ WithinInv /\ StreamIsPrefixes /\ ResultsAreTrue
  BY DEF IInv
<1>2. CASE NextTry < TRIES
  <2>1. /\ tries' = tries + 1 /\ tries + 1 < TRIES
        /\ pc' = pc /\ word' = word /\ log' = log
    BY <1>2 DEF TryAgain, NextTry
  <2>2. TypeOK'
    BY <1>1, <2>1, ScpAssumption DEF TypeOK, dspVars
  <2>3. PlaceInv'
    BY <1>1, <2>1 DEF PlaceInv, attempt, sending
  <2>4. WithinInv' /\ StreamIsPrefixes' /\ ResultsAreTrue'
    BY <1>1, <2>1 DEF WithinInv, StreamIsPrefixes, ResultsAreTrue
  <2> QED BY <2>2, <2>3, <2>4 DEF IInv
<1>3. CASE ~(NextTry < TRIES)
  <2>1. Ends("busy") /\ pc # "prompt"
    BY <1>3 DEF TryAgain
  <2>2. attempt.queued < Len(sending)
    <3>1. /\ log # <<>> /\ attempt.queued = word - 1 /\ word <= Len(sending)
      BY <1>1 DEF PlaceInv
    <3>2. word \in Nat /\ Len(sending) \in Nat
      <4>1. attempt.cmd \in Commands
        <5>1. log \in Seq(Attempt) /\ Len(log) \in 1 .. Len(log)
          BY <1>1, <3>1 DEF TypeOK
        <5>2. attempt \in Attempt
          BY <5>1 DEF attempt
        <5> QED BY <5>2 DEF Attempt
      <4> QED BY <1>1, <4>1, WordsTyped DEF TypeOK, sending
    <3> QED BY <3>1, <3>2
  <2>3. /\ pc' = "prompt" /\ tries' \in 0 .. TRIES - 1 /\ word' \in Nat
        /\ log' \in Seq(Attempt)
        /\ PlaceInv' /\ WithinInv' /\ StreamIsPrefixes' /\ ResultsAreTrue'
    BY <2>1, <2>2, EndsKeeps
  <2>4. TypeOK'
    BY <1>1, <2>3 DEF TypeOK, dspVars
  <2> QED BY <2>3, <2>4 DEF IInv
<1> QED BY <1>2, <1>3

LEMMA InitInv == Init => IInv
<1> SUFFICES ASSUME Init PROVE IInv
  OBVIOUS
<1>1. TypeOK
  <2>1. lowHalf \in HalfWord
    BY DEF Init, HalfWord
  <2>2. /\ stream \in Seq(Word) /\ open \in Seq(Word)
        /\ packets \in Seq(Seq(Word)) /\ log \in Seq(Attempt)
    BY DEF Init
  <2>3. /\ taken \in 0 .. Len(stream) /\ Len(stream) - taken <= CAPACITY
        /\ tries \in 0 .. TRIES - 1 /\ word \in Nat
    BY ScpAssumption DEF Init
  <2>4. lost \in BOOLEAN /\ pc \in {"prompt", "wait", "low", "high", "check"}
    BY DEF Init
  <2> QED BY <2>1, <2>2, <2>3, <2>4 DEF TypeOK
<1>2. PlaceInv
  BY DEF Init, PlaceInv, attempt
<1>3. WithinInv /\ StreamIsPrefixes /\ ResultsAreTrue
  BY DEF Init, WithinInv, StreamIsPrefixes, ResultsAreTrue
<1> QED BY <1>1, <1>2, <1>3 DEF IInv

(* Facts about the command in hand used in several steps.                   *)
LEMMA InHand ==
    ASSUME IInv, pc # "prompt"
    PROVE  /\ log # <<>> /\ Len(log) \in 1 .. Len(log)
           /\ attempt \in Attempt /\ attempt.result = "sending"
           /\ sending \in Seq(Word)
           /\ word \in 1 .. Len(sending) /\ sending[word] \in Word
           /\ attempt.queued = IF pc = "check" /\ ~lost THEN word ELSE word - 1
<1>1. /\ log # <<>> /\ attempt.result = "sending"
      /\ log \in Seq(Attempt) /\ word \in Nat /\ word >= 1
      /\ word <= Len(sending)
      /\ attempt.queued = IF pc = "check" /\ ~lost THEN word ELSE word - 1
  BY DEF IInv, TypeOK, PlaceInv
<1>2. attempt \in Attempt /\ Len(log) \in 1 .. Len(log)
  BY <1>1 DEF attempt
<1>3. sending \in Seq(Word)
  BY <1>2, WordsTyped DEF sending, Attempt
<1> QED BY <1>1, <1>2, <1>3

LEMMA StepInv == IInv /\ [Next]_vars => IInv'
<1> SUFFICES ASSUME IInv, [Next]_vars PROVE IInv'
  OBVIOUS
<1>a. TypeOK /\ PlaceInv /\ WithinInv /\ StreamIsPrefixes /\ ResultsAreTrue
  BY DEF IInv
<1>1. CASE DspTakes
  <2>1. UNCHANGED <<codecVars, pc, tries, word, log>>
    BY <1>1 DEF DspTakes
  <2>2. TypeOK'
    <3>1. stream[taken + 1] \in Word /\ taken' = taken + 1 /\ taken < Len(stream)
      BY <1>a, <1>1 DEF TypeOK, DspTakes
    <3>2. Append(open, stream[taken + 1]) \in Seq(Word)
      BY <1>a, <3>1 DEF TypeOK
    <3>3. open' \in Seq(Word) /\ packets' \in Seq(Seq(Word))
      <4> DEFINE packet == Append(open, stream[taken + 1])
      <4>1. /\ packet \in Seq(Word) /\ <<>> \in Seq(Word)
            /\ packets \in Seq(Seq(Word))
        BY <1>a, <3>2 DEF TypeOK
      <4>2. \/ packets' = Append(packets, packet) /\ open' = <<>>
            \/ packets' = packets /\ open' = packet
        BY <1>1 DEF DspTakes
      <4> HIDE DEF packet
      <4>3. Append(packets, packet) \in Seq(Seq(Word))
        BY <4>1
      <4> QED BY <4>1, <4>2, <4>3, Zenon
    <3> QED BY <1>a, <2>1, <3>1, <3>3, ScpAssumption DEF TypeOK, codecVars
  <2>3. PlaceInv'
    BY <1>a, <2>1 DEF PlaceInv, codecVars, attempt, sending
  <2>4. WithinInv' /\ StreamIsPrefixes' /\ ResultsAreTrue'
    BY <1>a, <2>1 DEF WithinInv, StreamIsPrefixes, ResultsAreTrue, codecVars
  <2> QED BY <2>2, <2>3, <2>4 DEF IInv
<1>2. CASE Enter
  <2>1. PICK c \in Commands :
          log' = Append(log, [cmd |-> c, from |-> Len(stream),
                              queued |-> 0, result |-> "sending"])
    BY <1>2 DEF Enter
  <2> DEFINE new == [cmd |-> c, from |-> Len(stream),
                     queued |-> 0, result |-> "sending"]
  <2>2. /\ pc = "prompt" /\ pc' = "wait" /\ word = 1
        /\ UNCHANGED <<codecVars, dspVars, tries, word>>
    BY <1>a, <1>2 DEF Enter, PlaceInv
  <2>3. new \in Attempt /\ new.cmd = c /\ new.from = Len(stream)
        /\ new.queued = 0 /\ new.result = "sending"
    BY <1>a DEF TypeOK, Attempt
  <2>4. log' = Append(log, new)
    BY <2>1
  <2> HIDE DEF new
  <2>5. /\ log' \in Seq(Attempt) /\ Len(log') = Len(log) + 1 /\ log' # <<>>
        /\ \A i \in 1 .. Len(log) : log'[i] = log[i]
        /\ log'[Len(log')] = new
    <3>1. log \in Seq(Attempt) /\ new \in Attempt
      BY <1>a, <2>3 DEF TypeOK
    <3> QED BY <2>4, <3>1
  <2>6. TypeOK'
    BY <1>a, <2>2, <2>5 DEF TypeOK, codecVars, dspVars
  <2>7. PlaceInv'
    <3>1. \A i \in 1 .. Len(log') : log'[i].result = "sending" => i = Len(log')
      <4> SUFFICES ASSUME NEW i \in 1 .. Len(log'), i # Len(log')
                   PROVE  log'[i].result # "sending"
        OBVIOUS
      <4>1. Len(log) \in Nat
        BY <1>a DEF TypeOK
      <4>2. i \in 1 .. Len(log) /\ log'[i] = log[i] /\ log # <<>>
        BY <1>a, <2>5, <4>1 DEF TypeOK
      <4>3. log[Len(log)].result # "sending"
        BY <1>a, <2>2, <4>2 DEF PlaceInv, attempt
      <4> QED BY <1>a, <4>2, <4>3 DEF PlaceInv
    <3>2. Len(WordsOf(c)) \in Nat /\ Len(WordsOf(c)) >= 1
      <4>1. Len(c.data) \in Nat
        BY ScpAssumption
      <4> QED BY <4>1, WordsTyped
    <3>3. attempt' = new
      BY <2>5 DEF attempt
    <3>4. sending' = WordsOf(c)
      BY <2>3, <3>3 DEF sending, WordsOf
    <3> QED BY <2>2, <2>3, <2>5, <3>1, <3>2, <3>3, <3>4 DEF PlaceInv
  <2>8. StreamIsPrefixes'
    <3>1. Len(WordsOf(c)) \in Nat /\ Len(stream) \in Nat /\ stream' = stream
      BY <1>a, <2>2, WordsTyped DEF TypeOK, codecVars
    <3> SUFFICES ASSUME NEW i \in 1 .. Len(log')
                 PROVE  /\ log'[i].queued <= Len(WordsOf(log'[i].cmd))
                        /\ log'[i].from + log'[i].queued
                              = IF i < Len(log') THEN log'[i + 1].from
                                                 ELSE Len(stream')
                        /\ \A k \in 1 .. log'[i].queued :
                              stream'[log'[i].from + k] = WordsOf(log'[i].cmd)[k]
      BY DEF StreamIsPrefixes, WordsOf
    <3>2. CASE i = Len(log')
      BY <2>3, <2>5, <3>1, <3>2
    <3>3. CASE i < Len(log')
      <4>1. i \in 1 .. Len(log) /\ log'[i] = log[i]
        BY <1>a, <2>5, <3>3 DEF TypeOK
      <4>2. i < Len(log) => log'[i + 1] = log[i + 1]
        <5>1. i < Len(log) => i + 1 \in 1 .. Len(log)
          BY <1>a, <4>1 DEF TypeOK
        <5> QED BY <2>5, <5>1
      <4>3. i = Len(log) => log'[i + 1].from = Len(stream)
        BY <1>a, <2>3, <2>5 DEF TypeOK
      <4>4. /\ log[i].queued <= Len(WordsOf(log[i].cmd))
            /\ log[i].from + log[i].queued
                  = IF i < Len(log) THEN log[i + 1].from ELSE Len(stream)
            /\ \A k \in 1 .. log[i].queued :
                  stream[log[i].from + k] = WordsOf(log[i].cmd)[k]
        BY <1>a, <4>1 DEF StreamIsPrefixes
      <4> QED BY <3>1, <3>3, <4>1, <4>2, <4>3, <4>4
    <3> QED BY <2>5, <3>2, <3>3
  <2>9. ResultsAreTrue'
    <3> SUFFICES ASSUME NEW i \in 1 .. Len(log')
                 PROVE  /\ log'[i].result = "ok"
                              => log'[i].queued = Len(WordsOf(log'[i].cmd))
                        /\ log'[i].result = "busy"
                              => log'[i].queued < Len(WordsOf(log'[i].cmd))
      BY DEF ResultsAreTrue, WordsOf
    <3>1. Len(log) \in Nat
      BY <1>a DEF TypeOK
    <3>2. CASE i = Len(log')
      BY <2>3, <2>5, <3>2
    <3>3. CASE i # Len(log')
      <4>1. i \in 1 .. Len(log) /\ log'[i] = log[i]
        BY <2>5, <3>1, <3>3
      <4> QED BY <1>a, <4>1 DEF ResultsAreTrue
    <3> QED BY <3>2, <3>3
  <2>10. WithinInv'
    <3> SUFFICES ASSUME NEW i \in 1 .. Len(log')
                 PROVE  log'[i].from + log'[i].queued <= Len(stream')
      BY DEF WithinInv
    <3>1. Len(log) \in Nat /\ Len(stream) \in Nat /\ stream' = stream
      BY <1>a, <2>2 DEF TypeOK, codecVars
    <3>2. CASE i = Len(log')
      BY <2>3, <2>5, <3>1, <3>2
    <3>3. CASE i # Len(log')
      <4>1. i \in 1 .. Len(log) /\ log'[i] = log[i]
        BY <2>5, <3>1, <3>3
      <4> QED BY <1>a, <3>1, <4>1 DEF WithinInv
    <3> QED BY <3>2, <3>3
  <2> QED BY <2>6, <2>7, <2>8, <2>9, <2>10 DEF IInv
<1>3. CASE WaitReady
  <2>1. /\ pc = "wait" /\ pc' = "low" /\ tries' = 0 /\ lost' = FALSE
        /\ UNCHANGED <<lowHalf, stream, dspVars, word, log>>
    BY <1>3 DEF WaitReady, ReadStatus
  <2>2. TypeOK'
    <3>1. lost' \in BOOLEAN /\ tries' \in 0 .. TRIES - 1
      <4>1. tries' \in 0 .. TRIES - 1
        BY <2>1, ScpAssumption
      <4>2. lost' \in BOOLEAN
        BY <2>1, Zenon
      <4> QED BY <4>1, <4>2
    <3> QED BY <1>a, <2>1, <3>1 DEF TypeOK, dspVars
  <2>3. PlaceInv'
    BY <1>a, <2>1 DEF PlaceInv, attempt, sending
  <2>4. WithinInv' /\ StreamIsPrefixes' /\ ResultsAreTrue'
    BY <1>a, <2>1 DEF WithinInv, StreamIsPrefixes, ResultsAreTrue
  <2> QED BY <2>2, <2>3, <2>4 DEF IInv
<1>4. CASE WaitBusy
  <2>1. /\ pc = "wait" /\ TryAgain /\ lost' \in BOOLEAN
        /\ UNCHANGED <<lowHalf, stream, dspVars>>
    BY <1>4 DEF WaitBusy, ReadStatus
  <2> QED BY <2>1, TryAgainKeeps
<1>5. CASE Refused
  <2>1. /\ pc \in {"low", "high"} /\ TryAgain
        /\ UNCHANGED <<codecVars, dspVars>>
    BY <1>5 DEF Refused
  <2>2. UNCHANGED <<lowHalf, stream, dspVars>> /\ lost' \in BOOLEAN
    BY <1>a, <2>1 DEF codecVars, TypeOK
  <2> QED BY <2>1, <2>2, TryAgainKeeps
<1>6. CASE SendLow
  <2>1. /\ pc = "low" /\ pc' = "high" /\ tries' = 0
        /\ lowHalf' = sending[word][1]
        /\ UNCHANGED <<stream, lost, dspVars, word, log>>
    BY <1>6 DEF SendLow
  <2>2. lowHalf' \in HalfWord
    BY <2>1, InHand DEF Word
  <2>3. TypeOK'
    BY <1>a, <2>1, <2>2, ScpAssumption DEF TypeOK, dspVars
  <2>4. PlaceInv'
    BY <1>a, <2>1 DEF PlaceInv, attempt, sending
  <2>5. WithinInv' /\ StreamIsPrefixes' /\ ResultsAreTrue'
    BY <1>a, <2>1 DEF WithinInv, StreamIsPrefixes, ResultsAreTrue
  <2> QED BY <2>3, <2>4, <2>5 DEF IInv
<1>7. CASE SendHigh
  <2>1. /\ pc = "high" /\ pc' = "check" /\ tries' = 0 /\ lost' = Full
        /\ UNCHANGED <<lowHalf, dspVars, word>>
    BY <1>7 DEF SendHigh
  <2>2. CASE Full
    <3>1. UNCHANGED <<stream, log>>
      BY <1>7, <2>2 DEF SendHigh
    <3>2. TypeOK'
      BY <1>a, <2>1, <2>2, <3>1, ScpAssumption DEF TypeOK, dspVars, Full
    <3>3. PlaceInv'
      BY <1>a, <2>1, <2>2, <3>1 DEF PlaceInv, attempt, sending
    <3>4. WithinInv' /\ StreamIsPrefixes' /\ ResultsAreTrue'
      BY <1>a, <3>1 DEF WithinInv, StreamIsPrefixes, ResultsAreTrue
    <3> QED BY <3>2, <3>3, <3>4 DEF IInv
  <2>3. CASE ~Full
    <3> DEFINE w == <<lowHalf, sending[word][2]>>
    <3>1. /\ stream' = Append(stream, w)
          /\ log' = [log EXCEPT ![Len(log)].queued = @ + 1]
      BY <1>7, <2>3 DEF SendHigh
    <3>2. w = sending[word] /\ w \in Word
      BY <1>a, <2>1, InHand DEF PlaceInv, Word
    <3> HIDE DEF w
    <3>3. /\ stream' \in Seq(Word) /\ Len(stream') = Len(stream) + 1
          /\ \A k \in 1 .. Len(stream) : stream'[k] = stream[k]
          /\ stream'[Len(stream) + 1] = w
      BY <1>a, <3>1, <3>2 DEF TypeOK
    <3>4. /\ log' \in Seq(Attempt) /\ Len(log') = Len(log) /\ log # <<>>
          /\ \A i \in 1 .. Len(log) :
                /\ log'[i].cmd = log[i].cmd /\ log'[i].from = log[i].from
                /\ log'[i].result = log[i].result
                /\ log'[i].queued = IF i = Len(log) THEN log[i].queued + 1
                                                    ELSE log[i].queued
      <4>1. log \in Seq(Attempt) /\ log # <<>>
        BY <1>a, <2>1, InHand DEF TypeOK
      <4>2. log' = WithCount(log)
        BY <3>1 DEF WithCount
      <4>3. /\ WithCount(log) \in Seq(Attempt)
            /\ Len(WithCount(log)) = Len(log)
            /\ \A i \in 1 .. Len(log) :
                  /\ WithCount(log)[i].cmd = log[i].cmd
                  /\ WithCount(log)[i].from = log[i].from
                  /\ WithCount(log)[i].result = log[i].result
                  /\ WithCount(log)[i].queued
                        = IF i = Len(log) THEN log[i].queued + 1 ELSE log[i].queued
        BY <4>1, CountQueued
      <4> QED BY <4>1, <4>2, <4>3, Zenon
    <3>5. TypeOK'
      <4>1. Len(stream) - taken < CAPACITY
        BY <1>a, <2>3, ScpAssumption DEF TypeOK, Full
      <4>2. taken' \in 0 .. Len(stream') /\ Len(stream') - taken' <= CAPACITY
        BY <1>a, <2>1, <3>3, <4>1, ScpAssumption DEF TypeOK, dspVars
      <4>3. lost' \in BOOLEAN
        BY <2>1 DEF Full
      <4> QED BY <1>a, <2>1, <3>3, <3>4, <4>2, <4>3, ScpAssumption DEF TypeOK, dspVars
    <3>6. PlaceInv'
      BY <1>a, <2>1, <2>3, <3>4, InHand DEF PlaceInv, attempt, sending, WordsOf
    <3>7. StreamIsPrefixes'
      <4>1. /\ attempt.queued = word - 1 /\ word \in 1 .. Len(sending)
            /\ attempt.from \in Nat /\ Len(log) \in 1 .. Len(log)
        BY <2>1, InHand DEF Attempt
      <4>2. attempt.from + attempt.queued = Len(stream)
        BY <1>a, <4>1 DEF StreamIsPrefixes, attempt
      <4> SUFFICES ASSUME NEW i \in 1 .. Len(log')
                   PROVE  /\ log'[i].queued <= Len(WordsOf(log'[i].cmd))
                          /\ log'[i].from + log'[i].queued
                                = IF i < Len(log') THEN log'[i + 1].from
                                                   ELSE Len(stream')
                          /\ \A k \in 1 .. log'[i].queued :
                                stream'[log'[i].from + k] = WordsOf(log'[i].cmd)[k]
        BY DEF StreamIsPrefixes, WordsOf
      <4>3. /\ log[i].from \in Nat /\ log[i].queued \in Nat
            /\ log[i].queued <= Len(WordsOf(log[i].cmd))
            /\ log[i].from + log[i].queued
                  = IF i < Len(log) THEN log[i + 1].from ELSE Len(stream)
            /\ \A k \in 1 .. log[i].queued :
                  stream[log[i].from + k] = WordsOf(log[i].cmd)[k]
        <5>1. i \in 1 .. Len(log) /\ log[i] \in Attempt
          BY <1>a, <3>4 DEF TypeOK
        <5>2. log[i].from \in Nat /\ log[i].queued \in Nat
          BY <5>1 DEF Attempt
        <5> QED BY <1>a, <5>1, <5>2 DEF StreamIsPrefixes
      <4>4. CASE i = Len(log)
        <5>1. /\ log'[i].queued = word /\ log'[i].from = attempt.from
              /\ WordsOf(log'[i].cmd) = sending
          BY <3>4, <4>1, <4>4 DEF attempt, sending
        <5>2. attempt.from + word = Len(stream) + 1
          BY <4>1, <4>2
        <5>3. \A k \in 1 .. word : stream'[attempt.from + k] = sending[k]
          <6> SUFFICES ASSUME NEW k \in 1 .. word
                       PROVE  stream'[attempt.from + k] = sending[k]
            OBVIOUS
          <6>1. CASE k = word
            BY <3>2, <3>3, <5>2, <6>1
          <6>2. CASE k # word
            <7>1. k \in 1 .. log[i].queued /\ attempt.from + k \in 1 .. Len(stream)
              BY <4>1, <4>4, <5>2, <6>2 DEF attempt
            <7>2. stream[attempt.from + k] = sending[k]
              BY <4>3, <4>4, <7>1 DEF attempt, sending
            <7> QED BY <3>3, <7>1, <7>2
          <6> QED BY <6>1, <6>2
        <5> QED BY <3>3, <3>4, <4>1, <4>4, <5>1, <5>2, <5>3
      <4>5. CASE i < Len(log)
        <5>1. /\ i + 1 \in 1 .. Len(log)
              /\ log'[i + 1].from = log[i + 1].from
          BY <3>4, <4>5
        <5>2. log[i].from + log[i].queued <= Len(stream)
          BY <1>a, <3>4 DEF WithinInv
        <5>3. /\ log'[i].queued = log[i].queued /\ log'[i].from = log[i].from
              /\ log'[i].cmd = log[i].cmd
          BY <3>4, <4>5
        <5>4. \A k \in 1 .. log[i].queued :
                 stream'[log[i].from + k] = WordsOf(log[i].cmd)[k]
          <6> SUFFICES ASSUME NEW k \in 1 .. log[i].queued
                       PROVE  stream'[log[i].from + k] = WordsOf(log[i].cmd)[k]
            OBVIOUS
          <6>1. log[i].from + k \in 1 .. Len(stream)
            <7>1. Len(stream) \in Nat
              BY <1>a DEF TypeOK
            <7>2. k \in Nat /\ k >= 1 /\ k <= log[i].queued
              BY <4>3
            <7>3. ASSUME NEW f \in Nat, NEW n \in Nat, NEW m \in Nat, NEW l \in Nat,
                         m >= 1, m <= n, f + n <= l
                  PROVE  f + m \in 1 .. l
              BY <7>3
            <7>4. log[i].from \in Nat /\ log[i].queued \in Nat
              BY <4>3
            <7> QED BY <5>2, <7>1, <7>2, <7>3, <7>4
          <6> QED BY <3>3, <4>3, <6>1
        <5> QED BY <3>4, <4>3, <4>5, <5>1, <5>3, <5>4
      <4> QED BY <3>4, <4>4, <4>5
    <3>8. ResultsAreTrue'
      BY <1>a, <2>1, <3>4, InHand DEF ResultsAreTrue, attempt
    <3>9. WithinInv'
      <4> SUFFICES ASSUME NEW i \in 1 .. Len(log')
                   PROVE  log'[i].from + log'[i].queued <= Len(stream')
        BY DEF WithinInv
      <4>1. /\ i \in 1 .. Len(log) /\ log[i] \in Attempt
            /\ log[i].from + log[i].queued <= Len(stream) /\ Len(stream) \in Nat
        BY <1>a, <3>4 DEF WithinInv, TypeOK
      <4>2. log[i].from \in Nat /\ log[i].queued \in Nat
        BY <4>1 DEF Attempt
      <4> QED BY <3>3, <3>4, <4>1, <4>2
    <3> QED BY <3>5, <3>6, <3>7, <3>8, <3>9 DEF IInv
  <2> QED BY <2>2, <2>3
<1>8. CASE Check
  <2>1. /\ pc = "check" /\ lost' \in BOOLEAN
        /\ UNCHANGED <<lowHalf, stream, dspVars>>
    BY <1>8 DEF Check, ReadStatus
  <2>2. CASE Executed /\ MoreWords
    <3>1. /\ ~lost /\ word < Len(sending)
          /\ pc' = "wait" /\ word' = word + 1 /\ UNCHANGED <<tries, log>>
      BY <1>8, <2>2 DEF Check, Executed, MoreWords
    <3>2. TypeOK'
      BY <1>a, <2>1, <3>1 DEF TypeOK, dspVars
    <3>3. PlaceInv'
      <4>1. /\ attempt.queued = word /\ word \in Nat /\ Len(sending) \in Nat
        BY <2>1, <3>1, InHand
      <4> QED BY <1>a, <2>1, <3>1, <4>1 DEF PlaceInv, attempt, sending
    <3>4. WithinInv' /\ StreamIsPrefixes' /\ ResultsAreTrue'
      BY <1>a, <2>1, <3>1 DEF WithinInv, StreamIsPrefixes, ResultsAreTrue
    <3> QED BY <3>2, <3>3, <3>4 DEF IInv
  <2>3. CASE ~(Executed /\ MoreWords)
    <3> DEFINE r == IF Executed THEN "ok" ELSE "busy"
    <3>1. Ends(r) /\ r \in {"ok", "busy", "killed"}
      BY <1>8, <2>3 DEF Check
    <3>2. r = "ok" => attempt.queued = Len(sending)
      BY <2>1, <2>3, InHand DEF Executed, MoreWords
    <3>3. r = "busy" => attempt.queued < Len(sending)
      BY <2>1, <2>3, InHand DEF Executed, MoreWords
    <3> HIDE DEF r
    <3>4. /\ pc' = "prompt" /\ tries' \in 0 .. TRIES - 1 /\ word' \in Nat
          /\ log' \in Seq(Attempt)
          /\ PlaceInv' /\ WithinInv' /\ StreamIsPrefixes' /\ ResultsAreTrue'
      BY <2>1, <3>1, <3>2, <3>3, EndsKeeps
    <3>5. TypeOK'
      BY <1>a, <2>1, <3>4 DEF TypeOK, dspVars
    <3> QED BY <3>4, <3>5 DEF IInv
  <2> QED BY <2>2, <2>3
<1>9. CASE Kill
  <2>1. pc # "prompt" /\ Ends("killed") /\ UNCHANGED <<codecVars, dspVars>>
    BY <1>9 DEF Kill
  <2>2. stream' = stream
    BY <2>1 DEF codecVars
  <2>3. /\ pc' = "prompt" /\ tries' \in 0 .. TRIES - 1 /\ word' \in Nat
        /\ log' \in Seq(Attempt)
        /\ PlaceInv' /\ WithinInv' /\ StreamIsPrefixes' /\ ResultsAreTrue'
    BY <2>1, <2>2, EndsKeeps
  <2>4. TypeOK'
    BY <1>a, <2>1, <2>3 DEF TypeOK, codecVars, dspVars
  <2> QED BY <2>3, <2>4 DEF IInv
<1>10. CASE UNCHANGED vars
  BY <1>a, <1>10 DEF IInv, TypeOK, PlaceInv, WithinInv, StreamIsPrefixes,
                     ResultsAreTrue, attempt, sending, vars, codecVars, dspVars
<1> QED BY <1>1, <1>2, <1>3, <1>4, <1>5, <1>6, <1>7, <1>8, <1>9, <1>10
        DEF Next, Tool

(* The codec's, the DSP's and the tool's state stay in their types.         *)
THEOREM ScpTypeCorrect == Spec => []TypeOK
<1>1. IInv => TypeOK
  BY DEF IInv
<1> QED BY <1>1, InitInv, StepInv, PTL DEF Spec

(* What the codec has queued is, command after command, a prefix of its     *)
(* words, whatever was refused, lost or killed.                             *)
THEOREM StreamCorrect == Spec => []StreamIsPrefixes
<1>1. IInv => StreamIsPrefixes
  BY DEF IInv
<1> QED BY <1>1, InitInv, StepInv, PTL DEF Spec

(* What main tells the user of a command is true of it.                     *)
THEOREM ResultsCorrect == Spec => []ResultsAreTrue
<1>1. IInv => ResultsAreTrue
  BY DEF IInv
<1> QED BY <1>1, InitInv, StepInv, PTL DEF Spec
-----------------------------------------------------------------------------
(***************************************************************************)
(* What the DSP makes of an unbroken stream.                               *)
(***************************************************************************)

(* A number below what it is divided by is its own remainder.              *)
LEMMA SmallRemainder ==
    ASSUME NEW x, NEW n, x \in Nat, n \in Nat, x < n
    PROVE  x % n = x
  OBVIOUS

LEMMA RemainderRange ==
    ASSUME NEW x, NEW n, x \in Nat, n \in Nat \ {0}
    PROVE  x % n \in 0 .. n - 1
  OBVIOUS

(* The header of a command the size field can count announces its data.    *)
LEMMA HeaderOfCommand ==
    ASSUME NEW c \in Commands, Fits(c)
    PROVE  LET header == GetScpData(WordsOf(c)[1])
           IN  /\ header.data_size = Len(c.data)
               /\ header.req = c.req % 128
               /\ header.source_id = c.src % 256
               /\ header.target_id = c.mid % 256
               /\ header.error_flag = 0 /\ header.resp_flag = 0
               /\ header.device_flag = 0 /\ header.get_flag = 0
<1> DEFINE d == Pack(Len(c.data), c.req, c.src, c.mid)
<1>1. /\ Len(c.data) \in Nat /\ Len(c.data) < SIZES
      /\ c.req \in Nat /\ c.src \in Nat /\ c.mid \in Nat
  BY ScpAssumption DEF Fits
<1>2. /\ d.data_size = Len(c.data)
      /\ d.req = c.req % 128 /\ d.source_id = c.src % 256
      /\ d.target_id = c.mid % 256
      /\ d.error_flag = 0 /\ d.resp_flag = 0
      /\ d.device_flag = 0 /\ d.get_flag = 0
  <2>1. Len(c.data) \in Nat /\ SIZES \in Nat /\ Len(c.data) < SIZES
    BY <1>1, HeaderAssumption
  <2>2. Len(c.data) % SIZES = Len(c.data)
    BY <2>1, SmallRemainder
  <2> QED BY <2>2 DEF Pack
<1>3. d \in ScpData
  <2>1. SIZES \in Nat \ {0}
    BY HeaderAssumption
  <2>2. Len(c.data) % SIZES \in 0 .. SIZES - 1
    BY <1>1, <2>1, RemainderRange
  <2>3. c.req % 128 \in 0 .. 127
    <3>1. c.req % 128 \in Nat /\ c.req % 128 < 128
      BY <1>1, Remainder
    <3> QED BY <3>1
  <2>4. c.src % 256 \in 0 .. 255
    <3>1. c.src % 256 \in Nat /\ c.src % 256 < 256
      BY <1>1, Remainder
    <3> QED BY <3>1
  <2>5. c.mid % 256 \in 0 .. 255
    <3>1. c.mid % 256 \in Nat /\ c.mid % 256 < 256
      BY <1>1, Remainder
    <3> QED BY <3>1
  <2> QED BY <2>2, <2>3, <2>4, <2>5 DEF Pack, ScpData, Bit, Byte
<1>4. GetScpData(CreateHeader(d)) = d
  BY <1>3, HeaderRoundTrip
<1>5. WordsOf(c)[1] = CreateHeader(d)
  BY ScpAssumption DEF WordsOf
<1> HIDE DEF d
<1> QED BY <1>2, <1>4, <1>5

(* A beginning of a command is complete for the DSP when it is all of it.   *)
LEMMA MissingWords ==
    ASSUME NEW c \in Commands, Fits(c), NEW packet \in Seq(Word),
           packet # <<>>, packet[1] = WordsOf(c)[1]
    PROVE  Missing(packet) = 0 <=> Len(packet) = Len(WordsOf(c))
<1>1. Missing(packet) = Len(c.data) - (Len(packet) - 1)
  BY HeaderOfCommand DEF Missing
<1>2. Len(c.data) \in Nat /\ Len(WordsOf(c)) = Len(c.data) + 1
  BY ScpAssumption, WordsTyped
<1> QED BY <1>1, <1>2

(* Words that agree one by one are the same command.                       *)
LEMMA SameWords ==
    ASSUME NEW s \in Seq(Word), NEW t \in Seq(Word), Len(s) = Len(t),
           \A k \in 1 .. Len(s) : s[k] = t[k]
    PROVE  s = t
  OBVIOUS

(* What is said of the log, the stream and the DSP by a step that queues no *)
(* word, types no command and takes none.                                  *)
LEMMA PacketsKept ==
    ASSUME PacketsInv, AcceptedFit, UNCHANGED <<stream, dspVars>>,
           Unbroken' => Unbroken, Len(log') = Len(log), Len(log) \in Nat,
           Len(packets) \in Nat,
           \A i \in 1 .. Len(log) : /\ log'[i].cmd = log[i].cmd
                                    /\ log'[i].from = log[i].from
                                    /\ log'[i].queued = log[i].queued
    PROVE  PacketsInv' /\ AcceptedFit'
<1>1. AcceptedFit'
  BY DEF AcceptedFit, Fits
<1>2. ASSUME Unbroken' PROVE PacketsInv'
  <2>1. Unbroken
    BY <1>2
  <2>2. UNCHANGED <<taken, open, packets>>
    BY DEF dspVars
  <2>3. ASSUME NEW i \in 1 .. Len(packets)
        PROVE  packets[i] = WordsOf(log'[i].cmd) /\ log'[i].queued = Len(packets[i])
    <3>1. i \in 1 .. Len(log)
      BY <2>1 DEF PacketsInv
    <3> QED BY <2>1, <2>3, <3>1 DEF PacketsInv, PutTogether
  <2>4. PutTogether'
    BY <2>2, <2>3 DEF PutTogether, WordsOf
  <2>5. ASSUME Len(packets) < Len(log)
        PROVE  Holds(log[Len(packets) + 1])'
    <3>1. Len(packets) + 1 \in 1 .. Len(log)
      BY <2>5
    <3>2. /\ log'[Len(packets) + 1].cmd = log[Len(packets) + 1].cmd
          /\ log'[Len(packets) + 1].from = log[Len(packets) + 1].from
      BY <3>1
    <3>3. Holds(log[Len(packets) + 1])
      BY <2>1, <2>5 DEF PacketsInv
    <3> QED BY <2>2, <3>2, <3>3 DEF Holds, WordsOf
  <2> QED BY <2>1, <2>2, <2>4, <2>5 DEF PacketsInv
<1> QED BY <1>1, <1>2 DEF PacketsInv

(* Ending a command says nothing new of the DSP.                           *)
LEMMA EndsPackets ==
    ASSUME IInv, PacketsInv, AcceptedFit, pc # "prompt",
           NEW r \in {"ok", "busy", "killed"}, Ends(r),
           UNCHANGED <<stream, dspVars>>
    PROVE  PacketsInv' /\ AcceptedFit'
<1>1. /\ log \in Seq(Attempt) /\ log # <<>> /\ attempt.result = "sending"
      /\ packets \in Seq(Seq(Word))
  BY DEF IInv, TypeOK, PlaceInv
<1>2. log' = WithResult(log, r)
  BY DEF Ends, WithResult
<1>3. /\ Len(WithResult(log, r)) = Len(log)
      /\ \A i \in 1 .. Len(log) :
            /\ WithResult(log, r)[i].cmd = log[i].cmd
            /\ WithResult(log, r)[i].from = log[i].from
            /\ WithResult(log, r)[i].queued = log[i].queued
            /\ WithResult(log, r)[i].result
                  = IF i = Len(log) THEN r ELSE log[i].result
  <2>1. log \in Seq(Attempt) /\ log # <<>>
    BY <1>1
  <2>2. r \in {"sending", "ok", "busy", "killed"}
    OBVIOUS
  <2> QED BY <2>1, <2>2, SetResult
<1>4. /\ Len(log') = Len(log)
      /\ \A i \in 1 .. Len(log) : /\ log'[i].cmd = log[i].cmd
                                  /\ log'[i].from = log[i].from
                                  /\ log'[i].queued = log[i].queued
                                  /\ i # Len(log) =>
                                        log'[i].result = log[i].result
  BY <1>2, <1>3, Zenon
<1>5. Unbroken' => Unbroken
  BY <1>1, <1>4 DEF Unbroken, attempt
<1>6. Len(log) \in Nat /\ Len(packets) \in Nat
  BY <1>1
<1> QED BY <1>4, <1>5, <1>6, PacketsKept

(* The DSP takes the next word of the command it is putting together.      *)
LEMMA TakesPackets ==
    ASSUME IInv, PacketsInv, AcceptedFit, DspTakes
    PROVE  PacketsInv' /\ AcceptedFit'
<1>1. /\ UNCHANGED <<stream, log>>
      /\ taken < Len(stream) /\ taken' = taken + 1
  BY DEF DspTakes, codecVars
<1>2. AcceptedFit' /\ (Unbroken' => Unbroken)
  BY <1>1 DEF AcceptedFit, Fits, Unbroken
<1> SUFFICES ASSUME Unbroken' PROVE PacketsInv'
  BY <1>2 DEF PacketsInv
<1>3. /\ log \in Seq(Attempt) /\ stream \in Seq(Word) /\ open \in Seq(Word)
      /\ packets \in Seq(Seq(Word)) /\ taken \in Nat
      /\ PlaceInv /\ StreamIsPrefixes /\ ResultsAreTrue
  BY DEF IInv, TypeOK
<1> DEFINE p == Len(packets)
           next == log[p + 1]
           words == WordsOf(next.cmd)
           packet == Append(open, stream[taken + 1])
<1>4. /\ p \in Nat /\ p < Len(log) /\ p + 1 \in 1 .. Len(log)
      /\ taken = next.from + Len(open) /\ Len(open) < Len(words)
      /\ \A k \in 1 .. Len(open) : open[k] = words[k]
      /\ \A i \in 1 .. p : /\ packets[i] = WordsOf(log[i].cmd)
                           /\ log[i].queued = Len(packets[i])
  <2>1. Unbroken /\ p \in Nat /\ Len(log) \in Nat /\ taken # Len(stream)
    BY <1>1, <1>2, <1>3
  <2>2. p <= Len(log) /\ p # Len(log)
    BY <2>1 DEF PacketsInv
  <2>3. p < Len(log) /\ p + 1 \in 1 .. Len(log)
    BY <2>1, <2>2
  <2> QED BY <2>1, <2>3 DEF PacketsInv, PutTogether, Holds
<1>5. /\ next \in Attempt /\ next.cmd \in Commands /\ Fits(next.cmd)
      /\ next.from \in Nat /\ next.queued \in Nat
  <2>1. next \in Attempt /\ Fits(next.cmd)
    BY <1>3, <1>4 DEF AcceptedFit
  <2> QED BY <2>1 DEF Attempt
<1>6. words \in Seq(Word) /\ Len(words) \in Nat /\ Len(words) >= 1
  <2>1. Len(next.cmd.data) \in Nat
    BY <1>5, ScpAssumption
  <2> QED BY <1>5, <2>1, WordsTyped
<1>7. /\ next.queued <= Len(words)
      /\ next.from + next.queued
            = IF p + 1 < Len(log) THEN log[p + 2].from ELSE Len(stream)
      /\ \A k \in 1 .. next.queued : stream[next.from + k] = words[k]
  <2>1. (p + 1) + 1 = p + 2
    BY <1>4
  <2> QED BY <1>3, <1>4, <2>1 DEF StreamIsPrefixes
<1>8. p + 1 < Len(log) => next.queued = Len(words)
  <2> SUFFICES ASSUME p + 1 < Len(log) PROVE next.queued = Len(words)
    OBVIOUS
  <2>1. next.result \in {"ok", "sending"} /\ next.result # "sending"
    BY <1>2, <1>3, <1>4 DEF PlaceInv, Unbroken
  <2> QED BY <1>3, <1>4, <2>1 DEF ResultsAreTrue
<1>9. Len(open) + 1 <= next.queued
  <2>1. Len(open) \in Nat /\ Len(stream) \in Nat /\ Len(log) \in Nat
    BY <1>3
  <2>2. CASE p + 1 < Len(log)
    BY <1>4, <1>6, <1>8, <2>1, <2>2
  <2>3. CASE ~(p + 1 < Len(log))
    <3>1. next.from + next.queued = Len(stream)
      BY <1>7, <2>3
    <3>2. taken < Len(stream) /\ taken = next.from + Len(open)
      BY <1>1, <1>4
    <3>3. next.from \in Nat /\ next.queued \in Nat
      BY <1>5
    <3> HIDE DEF next
    <3> QED BY <2>1, <3>1, <3>2, <3>3
  <2> QED BY <2>2, <2>3
<1>10. /\ packet \in Seq(Word) /\ Len(packet) = Len(open) + 1
       /\ \A k \in 1 .. Len(packet) : packet[k] = words[k]
  <2>1. Len(open) \in Nat
    BY <1>3
  <2>2. stream[taken + 1] = words[Len(open) + 1]
    <3>1. taken + 1 = next.from + (Len(open) + 1)
      <4>1. taken = next.from + Len(open) /\ next.from \in Nat
        BY <1>4, <1>5
      <4> HIDE DEF next
      <4> QED BY <2>1, <4>1
    <3>2. Len(open) + 1 \in 1 .. next.queued
      BY <1>5, <1>9, <2>1
    <3> QED BY <1>7, <3>1, <3>2
  <2>3. stream[taken + 1] \in Word
    BY <1>1, <1>3
  <2> HIDE DEF words, next
  <2> QED BY <1>3, <1>4, <2>1, <2>2, <2>3
<1>11. Missing(packet) = 0 <=> Len(packet) = Len(words)
  <2>1. packet # <<>> /\ packet[1] = words[1]
    <3>1. Len(open) \in Nat
      BY <1>3
    <3> HIDE DEF packet, words
    <3> QED BY <1>10, <3>1
  <2> HIDE DEF packet
  <2> QED BY <1>5, <1>10, <2>1, MissingWords
<1>12. IF Missing(packet) = 0
       THEN packets' = Append(packets, packet) /\ open' = <<>>
       ELSE packets' = packets /\ open' = packet
  BY DEF DspTakes
<1>13. CASE Len(packet) = Len(words)
  <2>1. packet = words
    <3> HIDE DEF packet, words
    <3> QED BY <1>6, <1>10, <1>13, SameWords
  <2>2. packets' = Append(packets, packet) /\ open' = <<>>
    BY <1>11, <1>12, <1>13
  <2>3. next.queued = Len(words)
    <3>1. Len(open) + 1 = Len(words)
      BY <1>10, <1>13
    <3> HIDE DEF packet, words, next
    <3> QED BY <1>5, <1>6, <1>7, <1>9, <3>1
  <2> HIDE DEF packet
  <2>4. /\ Len(packets') = p + 1 /\ packets'[p + 1] = packet
        /\ \A i \in 1 .. p : packets'[i] = packets[i]
    <3>1. packet \in Seq(Word)
      BY <1>10
    <3> QED BY <1>3, <2>2, <3>1
  <2>5. ASSUME NEW i \in 1 .. p + 1
        PROVE  /\ packets'[i] = WordsOf(log[i].cmd)
               /\ log[i].queued = Len(packets'[i])
    <3>1. CASE i = p + 1
      BY <2>1, <2>3, <2>4, <3>1
    <3>2. CASE i # p + 1
      <4>1. i \in 1 .. p
        BY <1>4, <3>2
      <4> QED BY <1>4, <2>4, <4>1
    <3> QED BY <3>1, <3>2
  <2>6. taken' = next.from + next.queued
    <3>1. Len(open) \in Nat /\ Len(open) + 1 = Len(words)
      BY <1>3, <1>10, <1>13
    <3>2. taken = next.from + Len(open) /\ taken' = taken + 1
      BY <1>1, <1>4
    <3>3. next.from \in Nat
      BY <1>5
    <3> HIDE DEF words, next, packet
    <3> QED BY <2>3, <3>1, <3>2, <3>3
  <2>7. p + 1 = Len(log) => taken' = Len(stream)
    BY <1>7, <2>6
  <2>8. p + 1 < Len(log) =>
           /\ taken' = log[p + 2].from + 0
           /\ 0 < Len(WordsOf(log[p + 2].cmd))
    <3> SUFFICES ASSUME p + 1 < Len(log)
                 PROVE  /\ taken' = log[p + 2].from + 0
                        /\ 0 < Len(WordsOf(log[p + 2].cmd))
      OBVIOUS
    <3>1. p + 2 \in 1 .. Len(log)
      BY <1>3, <1>4
    <3>2. log[p + 2].from \in Nat /\ log[p + 2].cmd \in Commands
      <4>1. log[p + 2] \in Attempt
        BY <1>3, <3>1
      <4> QED BY <4>1 DEF Attempt
    <3>3. Len(log[p + 2].cmd.data) \in Nat
      BY <3>2, ScpAssumption
    <3> QED BY <1>7, <2>6, <3>2, <3>3, WordsTyped
  <2>9. Len(log) \in Nat /\ p + 1 <= Len(log) /\ (p + 1) + 1 = p + 2
    BY <1>3, <1>4
  <2>10. PacketsInv'
    <3> HIDE DEF p, words, next
    <3>1. Len(packets') = p + 1 /\ Len(open') = 0
      BY <2>2, <2>4
    <3>2. log' = log /\ stream' = stream
      BY <1>1
    <3>3. PutTogether'
      BY <2>5, <3>1, <3>2 DEF PutTogether, WordsOf
    <3>4. Len(packets') = Len(log') => open' = <<>> /\ taken' = Len(stream')
      BY <2>2, <2>7, <3>1, <3>2
    <3>5. ASSUME Len(packets') < Len(log')
          PROVE  Holds(log[Len(packets) + 1])'
      <4>1. log'[Len(packets') + 1] = log[p + 2]
        BY <2>9, <3>1, <3>2
      <4>2. /\ taken' = log[p + 2].from + Len(open')
            /\ Len(open') < Len(WordsOf(log[p + 2].cmd))
        BY <2>8, <3>1, <3>2, <3>5
      <4> QED BY <3>1, <4>1, <4>2 DEF Holds, WordsOf
    <3>6. Len(packets') <= Len(log')
      BY <2>9, <3>1, <3>2
    <3> QED BY <3>3, <3>4, <3>5, <3>6 DEF PacketsInv
  <2> QED BY <2>10
<1>14. CASE Len(packet) # Len(words)
  <2>1. packets' = packets /\ open' = packet
    BY <1>11, <1>12, <1>14
  <2>2. Len(packet) < Len(words) /\ taken' = next.from + Len(packet)
    <3>1. Len(open) \in Nat
      BY <1>3
    <3> HIDE DEF words, next
    <3>2. taken = next.from + Len(open) /\ taken' = taken + 1
          /\ Len(packet) = Len(open) + 1
      BY <1>1, <1>4, <1>10
    <3>3. next.from \in Nat /\ Len(words) \in Nat /\ Len(open) < Len(words)
      BY <1>4, <1>5, <1>6
    <3> HIDE DEF packet
    <3> QED BY <1>14, <3>1, <3>2, <3>3
  <2> HIDE DEF packet
  <2>3. UNCHANGED <<log, stream>>
    BY <1>1
  <2>4. PutTogether'
    BY <1>4, <2>1, <2>3 DEF PutTogether, WordsOf
  <2>5. Holds(log[Len(packets) + 1])'
    BY <1>10, <2>1, <2>2, <2>3 DEF Holds, WordsOf
  <2>6. Len(packets') <= Len(log') /\ Len(packets') # Len(log')
    BY <1>4, <2>1, <2>3
  <2> QED BY <2>4, <2>5, <2>6 DEF PacketsInv
<1> QED BY <1>13, <1>14

(* A command is typed: the DSP has it all before it.                       *)
LEMMA EnterPackets ==
    ASSUME IInv, PacketsInv, AcceptedFit, Enter
    PROVE  PacketsInv' /\ AcceptedFit'
<1>1. PICK c \in Commands :
        /\ Fits(c)
        /\ log' = Append(log, [cmd |-> c, from |-> Len(stream),
                               queued |-> 0, result |-> "sending"])
  BY DEF Enter
<1> DEFINE new == [cmd |-> c, from |-> Len(stream),
                   queued |-> 0, result |-> "sending"]
<1>2. /\ log \in Seq(Attempt) /\ packets \in Seq(Seq(Word))
      /\ Len(stream) \in Nat /\ Len(log) \in Nat /\ Len(packets) \in Nat
  BY DEF IInv, TypeOK
<1>3. UNCHANGED <<stream, taken, open, packets>>
  BY DEF Enter, codecVars, dspVars
<1>4. new \in Attempt /\ new.cmd = c /\ new.from = Len(stream)
  BY <1>2 DEF Attempt
<1>5. log' = Append(log, new)
  BY <1>1
<1> HIDE DEF new
<1>6. /\ Len(log') = Len(log) + 1 /\ log'[Len(log) + 1] = new
      /\ \A i \in 1 .. Len(log) : log'[i] = log[i]
  BY <1>2, <1>4, <1>5
<1>7. AcceptedFit'
  <2> SUFFICES ASSUME NEW i \in 1 .. Len(log')
               PROVE  Fits(log'[i].cmd)
    BY DEF AcceptedFit, Fits
  <2>1. i = Len(log) + 1 \/ i \in 1 .. Len(log)
    BY <1>2, <1>6
  <2> QED BY <1>1, <1>4, <1>6, <2>1 DEF AcceptedFit
<1>8. ASSUME Unbroken' PROVE PacketsInv'
  <2>1. Unbroken
    BY <1>2, <1>6, <1>8 DEF Unbroken
  <2>2. Len(packets) <= Len(log)
    BY <2>1 DEF PacketsInv
  <2>3. ASSUME NEW i \in 1 .. Len(packets)
        PROVE  packets[i] = WordsOf(log'[i].cmd) /\ log'[i].queued = Len(packets[i])
    <3>1. i \in 1 .. Len(log)
      BY <1>2, <2>2
    <3> QED BY <1>6, <2>1, <2>3, <3>1 DEF PacketsInv, PutTogether
  <2>4. PutTogether'
    BY <1>3, <2>3 DEF PutTogether, WordsOf
  <2>5. Len(packets') <= Len(log') /\ Len(packets') # Len(log')
    BY <1>2, <1>3, <1>6, <2>2
  <2>6. CASE Len(packets) = Len(log)
    <3>1. open = <<>> /\ taken = Len(stream)
      BY <2>1, <2>6 DEF PacketsInv
    <3>2. Len(c.data) \in Nat
      BY ScpAssumption
    <3>3. 0 < Len(WordsOf(c))
      BY <3>2, WordsTyped
    <3>4. log'[Len(packets) + 1].from = Len(stream)
          /\ log'[Len(packets) + 1].cmd = c
      BY <1>4, <1>6, <2>6
    <3>5. Holds(log[Len(packets) + 1])'
      BY <1>2, <1>3, <3>1, <3>3, <3>4 DEF Holds, WordsOf
    <3> QED BY <2>4, <2>5, <3>5 DEF PacketsInv
  <2>7. CASE Len(packets) < Len(log)
    <3>1. log'[Len(packets) + 1] = log[Len(packets) + 1]
      <4>1. Len(packets) + 1 \in 1 .. Len(log)
        BY <1>2, <2>7
      <4> QED BY <1>6, <4>1
    <3>2. Holds(log[Len(packets) + 1])
      BY <2>1, <2>7 DEF PacketsInv
    <3>3. Holds(log[Len(packets) + 1])'
      BY <1>3, <3>1, <3>2 DEF Holds, WordsOf
    <3> QED BY <2>4, <2>5, <3>3 DEF PacketsInv
  <2> QED BY <1>2, <2>2, <2>6, <2>7
<1> QED BY <1>7, <1>8 DEF PacketsInv

(* A word is queued: it belongs to a command the DSP has not put together.  *)
LEMMA QueuedPackets ==
    ASSUME IInv, PacketsInv, AcceptedFit, SendHigh, ~Full
    PROVE  PacketsInv' /\ AcceptedFit'
<1>1. /\ log \in Seq(Attempt) /\ log # <<>> /\ packets \in Seq(Seq(Word))
      /\ Len(log) \in Nat /\ Len(packets) \in Nat
  BY DEF IInv, TypeOK, SendHigh, PlaceInv
<1>2. log' = WithCount(log) /\ UNCHANGED <<taken, open, packets>>
  BY DEF SendHigh, WithCount, dspVars
<1>3. /\ Len(WithCount(log)) = Len(log)
      /\ \A i \in 1 .. Len(log) :
            /\ WithCount(log)[i].cmd = log[i].cmd
            /\ WithCount(log)[i].from = log[i].from
            /\ WithCount(log)[i].result = log[i].result
            /\ WithCount(log)[i].queued
                  = IF i = Len(log) THEN log[i].queued + 1 ELSE log[i].queued
  BY <1>1, CountQueued
<1>4. /\ Len(log') = Len(log)
      /\ \A i \in 1 .. Len(log) : /\ log'[i].cmd = log[i].cmd
                                  /\ log'[i].from = log[i].from
                                  /\ log'[i].result = log[i].result
                                  /\ i # Len(log) =>
                                        log'[i].queued = log[i].queued
  BY <1>2, <1>3, Zenon
<1>5. AcceptedFit'
  BY <1>4 DEF AcceptedFit, Fits
<1>6. ASSUME Unbroken' PROVE PacketsInv'
  <2>1. Unbroken
    BY <1>4, <1>6 DEF Unbroken
  <2>2. attempt.queued < Len(sending)
    <3>1. /\ pc = "high" /\ pc # "prompt"
      BY DEF SendHigh
    <3>2. attempt.queued = word - 1 /\ word \in 1 .. Len(sending)
          /\ sending \in Seq(Word)
      BY <3>1, InHand
    <3> QED BY <3>2
  <2>3. Len(packets) < Len(log)
    <3>1. Len(packets) <= Len(log)
      BY <2>1 DEF PacketsInv
    <3>2. Len(packets) # Len(log)
      <4> SUFFICES ASSUME Len(packets) = Len(log) PROVE FALSE
        OBVIOUS
      <4>1. Len(log) \in 1 .. Len(packets)
        BY <1>1
      <4>2. attempt.queued = Len(sending)
        BY <2>1, <4>1 DEF PacketsInv, PutTogether, attempt, sending
      <4>3. attempt \in Attempt
        BY <1>1, <4>1 DEF attempt
      <4>4. attempt.queued \in Nat
        BY <4>3 DEF Attempt
      <4> QED BY <2>2, <4>2, <4>4
    <3> QED BY <1>1, <3>1, <3>2
  <2>4. ASSUME NEW i \in 1 .. Len(packets)
        PROVE  packets[i] = WordsOf(log'[i].cmd) /\ log'[i].queued = Len(packets[i])
    <3>1. i \in 1 .. Len(log) /\ i # Len(log)
      BY <1>1, <2>3
    <3> QED BY <1>4, <2>1, <2>4, <3>1 DEF PacketsInv, PutTogether
  <2>5. Len(packets) + 1 \in 1 .. Len(log)
    BY <1>1, <2>3
  <2>6. /\ log'[Len(packets) + 1].from = log[Len(packets) + 1].from
        /\ log'[Len(packets) + 1].cmd = log[Len(packets) + 1].cmd
    BY <1>4, <2>5
  <2>7. PutTogether'
    BY <1>2, <2>4 DEF PutTogether, WordsOf
  <2>8. Holds(log[Len(packets) + 1])
    BY <2>1, <2>3 DEF PacketsInv
  <2>9. Holds(log[Len(packets) + 1])'
    BY <1>2, <2>6, <2>8 DEF Holds, WordsOf
  <2>10. Len(packets') <= Len(log') /\ Len(packets') # Len(log')
    BY <1>1, <1>2, <1>4, <2>3
  <2> QED BY <2>7, <2>9, <2>10 DEF PacketsInv
<1> QED BY <1>5, <1>6 DEF PacketsInv

LEMMA InitPackets == Init => PacketsInv /\ AcceptedFit
  BY DEF Init, PacketsInv, PutTogether, AcceptedFit

LEMMA StepPackets ==
    IInv /\ PacketsInv /\ AcceptedFit /\ [Next]_vars => (PacketsInv /\ AcceptedFit)'
<1> SUFFICES ASSUME IInv, PacketsInv, AcceptedFit, [Next]_vars
             PROVE  PacketsInv' /\ AcceptedFit'
  OBVIOUS
<1>1. Len(log) \in Nat /\ Len(packets) \in Nat
  BY DEF IInv, TypeOK
<1>2. ASSUME UNCHANGED <<stream, dspVars, log>>
      PROVE  PacketsInv' /\ AcceptedFit'
  <2>1. Unbroken' => Unbroken
    BY <1>2 DEF Unbroken
  <2>2. Len(log') = Len(log)
        /\ \A i \in 1 .. Len(log) : /\ log'[i].cmd = log[i].cmd
                                    /\ log'[i].from = log[i].from
                                    /\ log'[i].queued = log[i].queued
    BY <1>2
  <2> QED BY <1>1, <1>2, <2>1, <2>2, PacketsKept
<1>3. CASE DspTakes
  BY <1>3, TakesPackets
<1>4. CASE Enter
  BY <1>4, EnterPackets
<1>5. CASE WaitReady
  BY <1>2, <1>5 DEF WaitReady
<1>6. CASE WaitBusy \/ Refused
  <2>1. TryAgain /\ UNCHANGED <<stream, dspVars>> /\ pc # "prompt"
    BY <1>6 DEF WaitBusy, Refused, codecVars
  <2>2. UNCHANGED log \/ Ends("busy")
    BY <2>1 DEF TryAgain
  <2> QED BY <1>2, <2>1, <2>2, EndsPackets
<1>7. CASE SendLow
  BY <1>2, <1>7 DEF SendLow
<1>8. CASE SendHigh
  <2>1. CASE Full
    <3>1. UNCHANGED <<stream, dspVars, log>>
      BY <1>8, <2>1 DEF SendHigh
    <3> QED BY <1>2, <3>1
  <2> QED BY <1>8, <2>1, QueuedPackets
<1>9. CASE Check
  <2>1. UNCHANGED <<stream, dspVars>> /\ pc # "prompt"
    BY <1>9 DEF Check
  <2>2. UNCHANGED log \/ Ends("ok") \/ Ends("busy")
    BY <1>9 DEF Check
  <2> QED BY <1>2, <2>1, <2>2, EndsPackets
<1>10. CASE Kill
  <2>1. UNCHANGED <<stream, dspVars>> /\ pc # "prompt" /\ Ends("killed")
    BY <1>10 DEF Kill, codecVars
  <2> QED BY <2>1, EndsPackets
<1>11. CASE UNCHANGED vars
  BY <1>2, <1>11 DEF vars, codecVars
<1> QED BY <1>3, <1>4, <1>5, <1>6, <1>7, <1>8, <1>9, <1>10, <1>11 DEF Next, Tool

(* The words of a command are read out of a packet as they were typed.     *)
LEMMA WordsUnderstood ==
    ASSUME FieldsFit, NEW c \in Commands, Fits(c)
    PROVE  Understood(WordsOf(c), c)
<1>1. /\ c.req \in Nat /\ c.src \in Nat /\ c.mid \in Nat
      /\ c.req < 128 /\ c.src < 256 /\ c.mid < 256
  BY ScpAssumption DEF FieldsFit
<1>2. c.req % 128 = c.req /\ c.src % 256 = c.src /\ c.mid % 256 = c.mid
  BY <1>1
<1>3. Tail(WordsOf(c)) = c.data
  <2> DEFINE h == CreateHeader(Pack(Len(c.data), c.req, c.src, c.mid))
  <2>1. c.data \in Seq(Word) /\ WordsOf(c) \in Seq(Word)
        /\ Len(WordsOf(c)) = Len(c.data) + 1
    BY ScpAssumption, WordsTyped
  <2>2. Tail(WordsOf(c)) \in Seq(Word) /\ Len(Tail(WordsOf(c))) = Len(c.data)
    BY <2>1
  <2>3. ASSUME NEW k \in 1 .. Len(c.data)
        PROVE  Tail(WordsOf(c))[k] = c.data[k]
    <3>1. Tail(WordsOf(c))[k] = WordsOf(c)[k + 1]
      BY <2>1
    <3>2. WordsOf(c)[k + 1] = c.data[k]
      <4> HIDE DEF h
      <4>1. WordsOf(c) = <<h>> \o c.data
        BY DEF WordsOf, h
      <4> QED BY <2>1, <4>1
    <3> QED BY <3>1, <3>2
  <2> QED BY <2>1, <2>2, <2>3, SameWords
<1> QED BY <1>2, <1>3, HeaderOfCommand DEF Understood

(* Of commands whose fields fit a header: as long as nothing was given up   *)
(* or killed, the DSP's packets are the commands typed, in their order,     *)
(* for every queue capacity, retry count and number of commands.           *)
THEOREM UnbrokenCorrect ==
    ASSUME FieldsFit
    PROVE  Spec => []UnbrokenRunIsUnderstood
<1>1. IInv /\ PacketsInv /\ AcceptedFit => UnbrokenRunIsUnderstood
  <2> SUFFICES ASSUME IInv, PacketsInv, AcceptedFit, Unbroken
               PROVE  /\ Len(packets) <= Len(log)
                      /\ \A i \in 1 .. Len(packets) :
                            Understood(packets[i], log[i].cmd)
    BY DEF UnbrokenRunIsUnderstood
  <2>1. Len(packets) <= Len(log)
    BY DEF PacketsInv
  <2>2. ASSUME NEW i \in 1 .. Len(packets)
        PROVE  Understood(packets[i], log[i].cmd)
    <3>1. log \in Seq(Attempt) /\ packets \in Seq(Seq(Word))
      BY DEF IInv, TypeOK
    <3>2. i \in 1 .. Len(log) /\ log[i] \in Attempt
      BY <2>1, <3>1
    <3>3. log[i].cmd \in Commands /\ Fits(log[i].cmd)
      BY <3>2 DEF Attempt, AcceptedFit
    <3>4. packets[i] = WordsOf(log[i].cmd)
      BY DEF PacketsInv, PutTogether
    <3> QED BY <3>3, <3>4, WordsUnderstood
  <2> QED BY <2>1, <2>2
<1>2. Spec => []IInv
  BY InitInv, StepInv, PTL DEF Spec
<1>3. Spec => [](PacketsInv /\ AcceptedFit)
  BY <1>2, InitPackets, StepPackets, PTL DEF Spec
<1> QED BY <1>1, <1>2, <1>3, PTL
=============================================================================
