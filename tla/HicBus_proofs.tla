---------------------------- MODULE HicBus_proofs ----------------------------
(***************************************************************************)
(* Machine-checked proofs about HicBus, for every width of an address half, *)
(* every data word, every number of retries and every set of jobs.          *)
(***************************************************************************)
EXTENDS HicBus, TLAPS

-----------------------------------------------------------------------------
(* Cutting an address into halves loses nothing.                           *)
LEMMA SplitJoin ==
    ASSUME NEW a \in Addr
    PROVE  /\ LowHalf(a) \in 0 .. LOW_SIZE - 1
           /\ HighHalf(a) \in 0 .. HIGH_SIZE - 1
           /\ Join(HighHalf(a), LowHalf(a)) = a
  BY SizesAssumption DEF Addr, LowHalf, HighHalf, Join

(* Any two halves, even of different addresses, make an address.           *)
LEMMA JoinIsAddr ==
    ASSUME NEW h \in 0 .. HIGH_SIZE - 1, NEW l \in 0 .. LOW_SIZE - 1
    PROVE  Join(h, l) \in Addr
  BY SizesAssumption DEF Addr, Join

(* Stepping an address that has a successor does not wrap.                 *)
LEMMA StepStays ==
    ASSUME NEW a \in Addr
    PROVE  /\ (a + WORD_STEP) % (LOW_SIZE * HIGH_SIZE) \in Addr
           /\ a + WORD_STEP \in Addr =>
                 (a + WORD_STEP) % (LOW_SIZE * HIGH_SIZE) = a + WORD_STEP
  <1> DEFINE S == LOW_SIZE * HIGH_SIZE
  <1>1. S \in Nat \ {0}
    BY SizesAssumption
  <1>2. a \in 0 .. S - 1
    BY DEF Addr
  <1>3. \A x \in Nat : x % S \in 0 .. S - 1
    <2> HIDE DEF S
    <2> QED BY <1>1
  <1>4. \A x \in 0 .. S - 1 : x % S = x
    <2> HIDE DEF S
    <2> QED BY <1>1
  <1>5. QED
    <2> HIDE DEF S
    <2>1. Addr = 0 .. S - 1
      BY DEF Addr, S
    <2>2. (a + WORD_STEP) \in Nat
      BY <1>1, <1>2 DEF WORD_STEP
    <2>3. (a + WORD_STEP) % S \in Addr
      BY <1>3, <2>1, <2>2
    <2>4. a + WORD_STEP \in Addr => (a + WORD_STEP) % S = a + WORD_STEP
      BY <1>4, <2>1
    <2> QED BY <2>3, <2>4 DEF S

(* What is known of a job: its words have addresses of their own.          *)
LEMMA JobFacts ==
    ASSUME NEW j \in Jobs
    PROVE  /\ j.n \in Nat /\ j.n >= 1
           /\ j.kind \in {"dump", "load"}
           /\ j.base \in Addr
           /\ j.kind = "load" => \A k \in 1 .. j.n : j.words[k] \in Word
           /\ \A k \in 1 .. j.n : WordAddr(j.base, k) \in Addr
  <1>1. j \in Job /\ j.n >= 1 /\ WordAddr(j.base, j.n) \in Addr
        /\ (j.kind = "load" => Len(j.words) = j.n)
    BY JobsAssumption
  <1>2. j.n \in Nat /\ j.kind \in {"dump", "load"} /\ j.base \in Addr
        /\ j.words \in Seq(Word)
    BY <1>1 DEF Job
  <1>3. \A k \in 1 .. j.n : WordAddr(j.base, k) \in Addr
    <2> TAKE k \in 1 .. j.n
    <2> DEFINE S == LOW_SIZE * HIGH_SIZE
    <2>1. S \in Nat
      BY SizesAssumption
    <2>2. Addr = 0 .. S - 1
      BY DEF Addr
    <2>3. ASSUME NEW s \in Nat, NEW b \in 0 .. s - 1, NEW n \in Nat, NEW m \in 1 .. n,
                 b + 4 * (n - 1) \in 0 .. s - 1
          PROVE  b + 4 * (m - 1) \in 0 .. s - 1
      BY <2>3
    <2> HIDE DEF S
    <2>4. j.base \in 0 .. S - 1 /\ j.base + 4 * (j.n - 1) \in 0 .. S - 1
      BY <1>1, <1>2, <2>2 DEF WordAddr, WORD_STEP
    <2>5. j.base + 4 * (k - 1) \in 0 .. S - 1
      BY <1>2, <2>1, <2>3, <2>4
    <2> QED BY <2>2, <2>5 DEF WordAddr, WORD_STEP
  <1>4. j.kind = "load" => \A k \in 1 .. j.n : j.words[k] \in Word
    BY <1>1, <1>2
  <1> QED BY <1>1, <1>2, <1>3, <1>4

(* Two different words of a job have different addresses.                  *)
LEMMA WordAddrInjective ==
    ASSUME NEW b \in Int, NEW i \in Int, NEW k \in Int, i # k
    PROVE  WordAddr(b, i) # WordAddr(b, k)
  BY DEF WordAddr, WORD_STEP

(* A piece has at least one word.                                          *)
LEMMA ChunkPositive ==
    ASSUME job \in Jobs
    PROVE  ChunkSize \in Nat /\ ChunkSize >= 1
  <1>1. job.n \in Nat /\ job.n >= 1
    BY JobFacts
  <1>2. ASSUME job.n >= PIECES
        PROVE  job.n \div PIECES \in Nat /\ job.n \div PIECES >= 1
    BY <1>1, <1>2, TriesAssumption
  <1> QED BY <1>1, <1>2, TriesAssumption DEF ChunkSize

(* Data words are taken apart and put together again.                      *)
LEMMA WordHalves ==
    ASSUME NEW w \in Word
    PROVE  w[1] \in Datum /\ w[2] \in Datum /\ w = <<w[1], w[2]>>
  BY DEF Word

-----------------------------------------------------------------------------
(* Type correctness of the codec's registers in use.                       *)
LEMMA HereIsAddr ==
    ASSUME TypeOK
    PROVE  Here \in Addr /\ Settled \in [Addr -> Word]
  <1>1. Here \in Addr
    BY JoinIsAddr DEF TypeOK, Here
  <1>2. <<dlo, dhi>> \in Word
    BY DEF TypeOK, Word
  <1> QED BY <1>1, <1>2 DEF TypeOK, Settled

(* The word in hand is a word of the job.                                  *)
LEMMA CurInJob ==
    ASSUME TypeOK, CountersInv, pc \in DataPC \cup ReadPC
    PROVE  /\ Cur \in 1 .. job.n
           /\ Cur = off + idx + 1
           /\ idx < CallCount
           /\ WordAddr(job.base, Cur) \in Addr
           /\ idx + 1 < CallCount => Cur < job.n
  <1>1. job \in Jobs /\ off \in Nat /\ left \in Nat /\ idx \in Nat
    BY DEF TypeOK
  <1>2. job.n \in Nat /\ ChunkSize \in Nat
    BY <1>1, JobFacts, ChunkPositive
  <1>3. pc \notin {"idle", "done"}
    BY DEF DataPC, ReadPC
  <1>4. left >= 1 /\ off + left = job.n /\ idx < CallCount
    BY <1>3 DEF CountersInv
  <1>5. phase = "write" => off = 0
    BY DEF CountersInv
  <1>6. off + CallCount <= job.n /\ CallCount \in Nat
    BY <1>1, <1>2, <1>4, <1>5 DEF CallCount
  <1>7. Cur \in 1 .. job.n /\ (idx + 1 < CallCount => Cur < job.n)
    BY <1>1, <1>2, <1>4, <1>6 DEF Cur
  <1> QED BY <1>1, <1>4, <1>7, JobFacts DEF Cur

(* What an action that leaves the bus and the words done alone preserves.  *)
LEMMA HistoryKept ==
    ASSUME WritesArePrefix, FreshReadsAreTrue,
           Settled' = Settled, UNCHANGED <<job, sent, before, got, how>>
    PROVE  WritesArePrefix' /\ FreshReadsAreTrue'
  BY DEF WritesArePrefix, FreshReadsAreTrue, WordAddr

-----------------------------------------------------------------------------
LEMMA InitIInv == Init => IInv
  <1> SUFFICES ASSUME Init PROVE IInv
    OBVIOUS
  <1>1. mem \in [Addr -> Word] /\ Zero \in Word /\ Zero = <<Zero[1], Zero[2]>>
        /\ Zero[1] \in Datum /\ Zero[2] \in Datum
    BY WordAssumption, WordHalves DEF Init
  <1>2. job \in Jobs /\ job.n \in Nat /\ job.n >= 1
    BY JobFacts DEF Init
  <1>3. TypeOK
    <2>1. alo \in 0 .. LOW_SIZE - 1 /\ ahi \in 0 .. HIGH_SIZE - 1
      BY SizesAssumption DEF Init
    <2>2. pc \in PC /\ phase \in {"write", "read"} /\ pend = "none"
      BY DEF Init, PC
    <2>3. got \in [1 .. job.n -> Word]
          /\ how \in [1 .. job.n -> {"unread", "fresh", "stale"}]
      BY <1>1 DEF Init
    <2>4. sent \in 0 .. job.n /\ tries \in Nat /\ off \in Nat /\ left \in Nat
          /\ idx \in Nat
      BY <1>2 DEF Init
    <2>5. dlo \in Datum /\ dhi \in Datum /\ latch \in Word /\ mem \in [Addr -> Word]
          /\ before \in [Addr -> Word] /\ dropped \in BOOLEAN /\ failed \in BOOLEAN
      BY <1>1 DEF Init
    <2> QED BY <1>2, <2>1, <2>2, <2>3, <2>4, <2>5 DEF TypeOK
  <1>4. CountersInv /\ QuietInv /\ RegistersInv
    BY DEF Init, CountersInv, QuietInv, RegistersInv, AddressPC, DataPC,
           ReadPC, SendPC
  <1>5. Settled = mem
    BY DEF Init, Settled
  <1>6. WritesArePrefix /\ FreshReadsAreTrue
    BY <1>5 DEF Init, WritesArePrefix, FreshReadsAreTrue
  <1> QED BY <1>3, <1>4, <1>6 DEF IInv

(* The end of a transfer: what was settled becomes what is stored.         *)
LEMMA StepTransfer == IInv /\ Transfer => IInv'
  <1> SUFFICES ASSUME IInv, Transfer PROVE IInv'
    OBVIOUS
  <1> DEFINE next == (Here + WORD_STEP) % (LOW_SIZE * HIGH_SIZE)
  <1>1. TypeOK /\ CountersInv /\ QuietInv /\ RegistersInv
        /\ WritesArePrefix /\ FreshReadsAreTrue
    BY DEF IInv
  <1>2. pend # "none" /\ pend' = "none" /\ mem' = Settled
        /\ latch' = (IF pend = "read" THEN mem[Here] ELSE latch)
        /\ alo' = LowHalf(next) /\ ahi' = HighHalf(next)
        /\ UNCHANGED <<dlo, dhi, job, phase, off, left, before,
                       sent, how, dropped, failed, pc, tries, idx, got>>
    BY DEF Transfer, jobVars, history
  <1>3. Here \in Addr /\ Settled \in [Addr -> Word]
    BY <1>1, HereIsAddr
  <1>4. next \in Addr
    BY <1>3, StepStays
  <1>5. Here' = next
    BY <1>2, <1>4, SplitJoin DEF Here
  <1>6. Settled' = Settled
    BY <1>2 DEF Settled
  <1>7. TypeOK'
    <2>1. alo' \in 0 .. LOW_SIZE - 1 /\ ahi' \in 0 .. HIGH_SIZE - 1
      BY <1>2, <1>4, SplitJoin
    <2>2. mem' \in [Addr -> Word] /\ latch' \in Word
      BY <1>1, <1>2, <1>3 DEF TypeOK
    <2> QED BY <1>1, <1>2, <2>1, <2>2 DEF TypeOK
  <1>8. CountersInv'
    BY <1>1, <1>2 DEF CountersInv, CallCount, ChunkSize
  <1>9. QuietInv'
    BY <1>2 DEF QuietInv
  <1>10. RegistersInv'
    <2>1. Cur' = Cur /\ Target' = Target /\ job' = job
      BY <1>2 DEF Cur, Target
    <2>2. ASSUME pc \in DataPC \cup {"readStatus", "postRead"},
                 Here + WORD_STEP = WordAddr(job.base, Cur)
          PROVE  Here' = WordAddr(job.base, Cur)
      <3>1. WordAddr(job.base, Cur) \in Addr
        BY <1>1, <2>2, CurInJob DEF ReadPC
      <3> QED BY <1>3, <1>5, <2>2, <3>1, StepStays
    <2>3. ASSUME pc \in {"fetchStatus", "fetch"}, ~dropped
          PROVE  /\ latch' = mem'[WordAddr(job.base, Cur)]
                 /\ Cur < job.n => Here' = WordAddr(job.base, Cur + 1)
      <3>1. pend = "read" /\ Here = WordAddr(job.base, Cur) /\ mem' = mem
            /\ latch' = mem[Here]
        BY <1>1, <1>2, <2>3 DEF RegistersInv, Settled
      <3>2. job \in Jobs /\ Cur \in 1 .. job.n
        BY <1>1, <2>3, CurInJob DEF ReadPC, TypeOK
      <3>3. ASSUME Cur < job.n
            PROVE  Here' = WordAddr(job.base, Cur + 1)
        <4>1. job.n \in Nat
          BY <3>2, JobFacts
        <4>2. Cur + 1 \in 1 .. job.n
          BY <3>2, <3>3, <4>1
        <4>3. WordAddr(job.base, Cur + 1) \in Addr
          BY <3>2, <4>2, JobFacts
        <4>4. job.base \in Int
          BY <3>2, JobFacts DEF Addr
        <4>5. Here + WORD_STEP = WordAddr(job.base, Cur + 1)
          BY <3>1, <3>2, <4>1, <4>4 DEF WordAddr, WORD_STEP
        <4> QED BY <1>3, <1>5, <4>3, <4>5, StepStays
      <3> QED BY <3>1, <3>3
    <2>4. pc # "addrHigh"
      BY <1>1, <1>2 DEF QuietInv, SendPC
    <2> QED BY <1>1, <1>2, <2>1, <2>2, <2>3, <2>4
            DEF RegistersInv, WordAddr, DataPC
  <1>11. WritesArePrefix' /\ FreshReadsAreTrue'
    BY <1>1, <1>2, <1>6, HistoryKept
  <1> QED BY <1>7, <1>8, <1>9, <1>10, <1>11 DEF IInv

(* Polls, refusals and the end of a tool touch only the place in the call.  *)
LEMMA StepPollReady == IInv /\ PollReady => IInv'
  <1> SUFFICES ASSUME IInv, PollReady PROVE IInv'
    OBVIOUS
  <1>1. TypeOK /\ CountersInv /\ QuietInv /\ RegistersInv
        /\ WritesArePrefix /\ FreshReadsAreTrue
    BY DEF IInv
  <1>2. pc \in StatusPC /\ pend = "none" /\ pc' = AfterStatus /\ tries' = 0
        /\ UNCHANGED <<mem, alo, ahi, dlo, dhi, latch, pend, job, phase, off,
                       left, before, sent, how, dropped, failed, idx, got>>
    BY DEF PollReady, codecVars, jobVars, history
  <1>3. \/ pc = "addrStatus"  /\ pc' = "addrLow"
        \/ pc = "dataStatus"  /\ pc' = "dataLow"
        \/ pc = "readStatus"  /\ pc' = "postRead"
        \/ pc = "fetchStatus" /\ pc' = "fetch"
    BY <1>2 DEF StatusPC, AfterStatus
  <1>4. TypeOK'
    BY <1>1, <1>2, <1>3 DEF TypeOK, PC, SendPC
  <1>5. CountersInv'
    BY <1>1, <1>2, <1>3
       DEF CountersInv, CallCount, ChunkSize, AddressPC, DataPC, ReadPC
  <1>6. QuietInv'
    BY <1>2 DEF QuietInv
  <1>7. Cur' = Cur /\ Target' = Target /\ Here' = Here /\ Settled' = Settled
    BY <1>2 DEF Cur, Target, Here, Settled
  <1>8. RegistersInv'
    BY <1>1, <1>2, <1>3, <1>7 DEF RegistersInv, DataPC, WordAddr
  <1>9. WritesArePrefix' /\ FreshReadsAreTrue'
    BY <1>1, <1>2, <1>7, HistoryKept
  <1> QED BY <1>4, <1>5, <1>6, <1>8, <1>9 DEF IInv

LEMMA StepPollBusy == IInv /\ PollBusy => IInv'
  <1> SUFFICES ASSUME IInv, PollBusy PROVE IInv'
    OBVIOUS
  <1>1. TypeOK /\ CountersInv /\ QuietInv /\ RegistersInv
        /\ WritesArePrefix /\ FreshReadsAreTrue
    BY DEF IInv
  <1>2. pc \in StatusPC
        /\ UNCHANGED <<mem, alo, ahi, dlo, dhi, latch, pend, job, phase, off,
                       left, before, sent, how, dropped, idx, got>>
    BY DEF PollBusy, codecVars, jobVars
  <1>3. tries' \in Nat /\ failed' \in BOOLEAN /\ (pc' = pc \/ pc' = "return")
    <2>1. tries \in Nat /\ failed \in BOOLEAN
      BY <1>1 DEF TypeOK
    <2>2. \/ tries' = tries + 1 /\ pc' = pc /\ failed' = failed
          \/ tries' = 0 /\ pc' = "return" /\ failed' = TRUE
      BY ZenonT(30) DEF PollBusy, NextTry
    <2>3. tries' \in Nat /\ (pc' = pc \/ pc' = "return")
      BY <2>1, <2>2
    <2>4. failed' \in BOOLEAN
      BY <2>1, <2>2, Zenon
    <2> QED BY <2>3, <2>4
  <1>4. TypeOK'
    BY <1>1, <1>2, <1>3 DEF TypeOK, PC
  <1>5. CountersInv'
    BY <1>1, <1>2, <1>3
       DEF CountersInv, CallCount, ChunkSize, AddressPC, DataPC, ReadPC, StatusPC
  <1>6. QuietInv'
    BY <1>1, <1>2, <1>3 DEF QuietInv, SendPC
  <1>7. Cur' = Cur /\ Target' = Target /\ Here' = Here /\ Settled' = Settled
    BY <1>2 DEF Cur, Target, Here, Settled
  <1>8. RegistersInv'
    BY <1>1, <1>2, <1>3, <1>7 DEF RegistersInv, DataPC, WordAddr
  <1>9. WritesArePrefix' /\ FreshReadsAreTrue'
    BY <1>1, <1>2, <1>7, HistoryKept
  <1> QED BY <1>4, <1>5, <1>6, <1>8, <1>9 DEF IInv

LEMMA StepSendRefused == IInv /\ SendRefused => IInv'
  <1> SUFFICES ASSUME IInv, SendRefused PROVE IInv'
    OBVIOUS
  <1>1. TypeOK /\ CountersInv /\ QuietInv /\ RegistersInv
        /\ WritesArePrefix /\ FreshReadsAreTrue
    BY DEF IInv
  <1>2. pc \in SendPC
        /\ UNCHANGED <<mem, alo, ahi, dlo, dhi, latch, pend, job, phase, off,
                       left, before, sent, how, idx, got>>
    BY DEF SendRefused, codecVars, jobVars
  <1>3. tries' \in Nat /\ failed' \in BOOLEAN /\ dropped' \in BOOLEAN
    <2>1. tries \in Nat /\ failed \in BOOLEAN /\ dropped \in BOOLEAN
      BY <1>1 DEF TypeOK
    <2>2. /\ tries' = tries + 1 \/ tries' = 0
          /\ failed' = failed \/ failed' = TRUE
          /\ dropped' = dropped \/ dropped' = TRUE
      BY ZenonT(30) DEF SendRefused, NextTry, AfterPostRead
    <2>3. tries' \in Nat
      BY <2>1, <2>2
    <2>4. failed' \in BOOLEAN /\ dropped' \in BOOLEAN
      BY <2>1, <2>2, Zenon
    <2> QED BY <2>3, <2>4
  <1>4. \/ pc' = pc /\ dropped' = dropped
        \/ pc' = "return" /\ dropped' = dropped
        \/ pc = "postRead" /\ pc' = "fetchStatus" /\ dropped'
    BY DEF SendRefused, AfterPostRead
  <1>5. TypeOK'
    BY <1>1, <1>2, <1>3, <1>4 DEF TypeOK, PC, StatusPC
  <1>6. CountersInv'
    BY <1>1, <1>2, <1>4
       DEF CountersInv, CallCount, ChunkSize, AddressPC, DataPC, ReadPC, SendPC
  <1>7. QuietInv'
    BY <1>1, <1>2, <1>4 DEF QuietInv, SendPC
  <1>8. Cur' = Cur /\ Target' = Target /\ Here' = Here /\ Settled' = Settled
    BY <1>2 DEF Cur, Target, Here, Settled
  <1>9. RegistersInv'
    BY <1>1, <1>2, <1>4, <1>8 DEF RegistersInv, DataPC, WordAddr
  <1>10. WritesArePrefix' /\ FreshReadsAreTrue'
    BY <1>1, <1>2, <1>8, HistoryKept
  <1> QED BY <1>5, <1>6, <1>7, <1>9, <1>10 DEF IInv

(* Both halves of the target address make the target address.              *)
LEMMA StepSendAddress == IInv /\ SendAddress => IInv'
  <1> SUFFICES ASSUME IInv, SendAddress PROVE IInv'
    OBVIOUS
  <1>1. TypeOK /\ CountersInv /\ QuietInv /\ RegistersInv
        /\ WritesArePrefix /\ FreshReadsAreTrue
    BY DEF IInv
  <1>2. pc \in {"addrLow", "addrHigh"} /\ tries' = 0
        /\ UNCHANGED <<mem, dlo, dhi, latch, pend, job, phase, off, left, before,
                       sent, how, dropped, failed, idx, got>>
    BY DEF SendAddress, jobVars, history
  <1>3. pend = "none" /\ idx = 0 /\ ~dropped /\ left >= 1 /\ off + left = job.n
    BY <1>1, <1>2 DEF QuietInv, SendPC, CountersInv, AddressPC
  <1>4. job \in Jobs /\ off \in Nat /\ left \in Nat /\ job.base \in Int
        /\ job.n \in Nat
    BY <1>1, JobFacts DEF TypeOK, Addr
  <1>5. off + 1 \in 1 .. job.n
    BY <1>3, <1>4
  <1>6. Target = WordAddr(job.base, off + 1)
    BY <1>4 DEF Target, WordAddr, WORD_STEP
  <1>7. Target \in Addr
    BY <1>4, <1>5, <1>6, JobFacts
  <1>8. /\ pc' = "addrHigh" /\ pc = "addrLow" /\ alo' = LowHalf(Target) /\ ahi' = ahi
        \/ /\ pc = "addrHigh" /\ pc' = NextWord
           /\ ahi' = HighHalf(Target) /\ alo' = alo
    BY DEF SendAddress
  <1>9. TypeOK'
    <2>1. alo' \in 0 .. LOW_SIZE - 1 /\ ahi' \in 0 .. HIGH_SIZE - 1
      BY <1>1, <1>7, <1>8, SplitJoin DEF TypeOK
    <2>2. pc' \in PC
      BY <1>8 DEF PC, SendPC, StatusPC, NextWord
    <2> QED BY <1>1, <1>2, <2>1, <2>2 DEF TypeOK
  <1>10. 0 < CallCount
    BY <1>3, <1>4, ChunkPositive DEF CallCount
  <1>11. CountersInv'
    BY <1>1, <1>2, <1>3, <1>8, <1>10
       DEF CountersInv, CallCount, ChunkSize, AddressPC, DataPC, ReadPC,
           NextWord, TypeOK
  <1>12. QuietInv'
    BY <1>2, <1>3 DEF QuietInv
  <1>13. Settled' = Settled
    BY <1>2, <1>3 DEF Settled
  <1>14. RegistersInv'
    <2>1. Cur' = Cur /\ Target' = Target /\ Cur = off + 1
      BY <1>2, <1>3, <1>4 DEF Cur, Target
    <2>2. CASE pc' = "addrHigh" /\ alo' = LowHalf(Target)
      BY <2>1, <2>2 DEF RegistersInv, DataPC
    <2>3. CASE pc = "addrHigh" /\ pc' = NextWord
      <3>1. alo = LowHalf(Target) /\ alo' = alo /\ ahi' = HighHalf(Target)
        BY <1>1, <1>8, <2>3 DEF RegistersInv, NextWord
      <3>2. Here' = Target
        BY <1>7, <3>1, SplitJoin DEF Here
      <3>3. pc' \in {"dataStatus", "readStatus"}
        BY <2>3 DEF NextWord
      <3> QED BY <1>2, <1>3, <1>6, <2>1, <3>2, <3>3
              DEF RegistersInv, DataPC, WordAddr
    <2> QED BY <1>8, <2>2, <2>3
  <1>15. WritesArePrefix' /\ FreshReadsAreTrue'
    BY <1>1, <1>2, <1>13, HistoryKept
  <1> QED BY <1>9, <1>11, <1>12, <1>14, <1>15 DEF IInv

(* The high half of a word starts its write, at the word's own address.    *)
LEMMA StepSendData == IInv /\ SendData => IInv'
  <1> SUFFICES ASSUME IInv, SendData PROVE IInv'
    OBVIOUS
  <1>1. TypeOK /\ CountersInv /\ QuietInv /\ RegistersInv
        /\ WritesArePrefix /\ FreshReadsAreTrue
    BY DEF IInv
  <1>2. pc \in {"dataLow", "dataHigh"} /\ tries' = 0
        /\ UNCHANGED <<mem, alo, ahi, latch, job, phase, off, left, before,
                       how, dropped, failed, got>>
    BY DEF SendData, jobVars
  <1>3. pend = "none" /\ phase = "write" /\ job.kind = "load" /\ off = 0
        /\ sent = idx /\ ~dropped /\ Here = WordAddr(job.base, Cur)
    BY <1>1, <1>2 DEF QuietInv, SendPC, CountersInv, RegistersInv, DataPC
  <1>4. job \in Jobs /\ idx \in Nat /\ job.n \in Nat /\ off \in Nat
    BY <1>1, JobFacts DEF TypeOK
  <1>5. Cur \in 1 .. job.n /\ Cur = idx + 1 /\ CallCount = job.n
        /\ WordAddr(job.base, Cur) \in Addr /\ idx < CallCount
    BY <1>1, <1>2, <1>3, <1>4, CurInJob DEF DataPC, CallCount
  <1>6. job.words[Cur] \in Word
    BY <1>3, <1>4, <1>5, JobFacts
  <1>7. job.words[Cur][1] \in Datum /\ job.words[Cur][2] \in Datum
        /\ job.words[Cur] = <<job.words[Cur][1], job.words[Cur][2]>>
    BY <1>6, WordHalves
  <1>8. Here' = Here /\ CallCount' = CallCount /\ Target' = Target
    BY <1>2 DEF Here, CallCount, ChunkSize, Target
  <1>9. CASE pc = "dataLow"
    <2>1. pc' = "dataHigh" /\ dlo' = job.words[Cur][1]
          /\ UNCHANGED <<dhi, pend, sent, idx>>
      BY <1>9 DEF SendData
    <2>2. TypeOK'
      BY <1>1, <1>2, <1>7, <2>1 DEF TypeOK, PC, SendPC
    <2>3. CountersInv'
      BY <1>1, <1>2, <1>9, <2>1
         DEF CountersInv, CallCount, ChunkSize, AddressPC, DataPC, ReadPC
    <2>4. QuietInv'
      BY <1>3, <2>1 DEF QuietInv
    <2>5. Cur' = Cur /\ Settled' = Settled
      BY <1>2, <1>3, <2>1 DEF Cur, Settled
    <2>6. RegistersInv'
      BY <1>2, <1>3, <1>8, <2>1, <2>5 DEF RegistersInv, WordAddr
    <2>7. WritesArePrefix' /\ FreshReadsAreTrue'
      BY <1>1, <1>2, <2>1, <2>5, HistoryKept
    <2> QED BY <2>2, <2>3, <2>4, <2>6, <2>7 DEF IInv
  <1>10. CASE pc = "dataHigh"
    <2>1. pc' = WordDone /\ dhi' = job.words[Cur][2] /\ pend' = "write"
          /\ sent' = sent + 1 /\ idx' = idx + 1 /\ dlo' = dlo
      BY <1>10 DEF SendData
    <2>2. pc' = (IF idx + 1 < CallCount THEN "dataStatus" ELSE "return")
      BY <1>3, <2>1 DEF WordDone, NextWord
    <2>3. dlo = job.words[Cur][1]
      BY <1>1, <1>10 DEF RegistersInv
    <2>4. TypeOK'
      <3>1. pc' \in PC
        BY <2>2 DEF PC, StatusPC
      <3>2. sent' \in 0 .. job.n /\ idx' \in Nat
        BY <1>3, <1>4, <1>5, <2>1
      <3> QED BY <1>1, <1>2, <1>7, <2>1, <3>1, <3>2 DEF TypeOK
    <2>5. CountersInv'
      BY <1>1, <1>2, <1>3, <1>8, <1>10, <2>1, <2>2
         DEF CountersInv, AddressPC, DataPC, ReadPC
    <2>6. QuietInv'
      BY <2>2 DEF QuietInv, SendPC
    <2>7. Cur' = Cur + 1
      BY <1>2, <1>3, <1>4, <1>5, <2>1 DEF Cur
    <2>8. job.base \in Int
      BY <1>4, JobFacts DEF Addr
    <2>9. Here + WORD_STEP = WordAddr(job.base, Cur')
      BY <1>3, <1>4, <1>5, <2>7, <2>8 DEF WordAddr, WORD_STEP
    <2>10. RegistersInv'
      BY <1>2, <1>8, <2>1, <2>2, <2>9 DEF RegistersInv, DataPC, WordAddr
    <2>11. Settled = mem /\ Settled' = [mem EXCEPT ![Here] = job.words[Cur]]
      BY <1>2, <1>3, <1>7, <1>8, <2>1, <2>3 DEF Settled
    <2>12. Settled \in [Addr -> Word]
      BY <1>1, HereIsAddr
    <2>13. Settled'[WordAddr(job.base, Cur)] = job.words[Cur]
      BY <1>3, <1>5, <2>11, <2>12
    <2>14. \A a \in Addr : a # WordAddr(job.base, Cur) => Settled'[a] = Settled[a]
      BY <1>3, <2>11, <2>12
    <2>15. sent = Cur - 1 /\ sent' = Cur
      BY <1>3, <1>4, <1>5, <2>1
    <2>16. WritesArePrefix'
      <3>1. ASSUME NEW j \in 1 .. Cur
            PROVE  Settled'[WordAddr(job.base, j)] = job.words[j]
        <4>1. CASE j = Cur
          BY <2>13, <4>1
        <4>2. CASE j # Cur
          <5>1. j \in 1 .. sent /\ j \in 1 .. job.n /\ j \in Int /\ Cur \in Int
            BY <1>4, <1>5, <2>15, <4>2
          <5>2. WordAddr(job.base, j) # WordAddr(job.base, Cur)
            BY <2>8, <4>2, <5>1, WordAddrInjective
          <5>3. WordAddr(job.base, j) \in Addr
            BY <1>4, <5>1, JobFacts
          <5>4. Settled[WordAddr(job.base, j)] = job.words[j]
            BY <1>1, <5>1 DEF WritesArePrefix
          <5> QED BY <2>14, <5>2, <5>3, <5>4
        <4> QED BY <4>1, <4>2
      <3>2. ASSUME NEW a \in Addr, \A j \in 1 .. Cur : a # WordAddr(job.base, j)
            PROVE  Settled'[a] = before[a]
        <4>1. \A j \in 1 .. sent : a # WordAddr(job.base, j)
          BY <1>4, <1>5, <2>15, <3>2
        <4>2. a # WordAddr(job.base, Cur)
          BY <1>4, <1>5, <3>2
        <4> QED BY <1>1, <2>14, <4>1, <4>2 DEF WritesArePrefix
      <3> QED BY <1>2, <2>15, <3>1, <3>2 DEF WritesArePrefix, WordAddr
    <2>17. FreshReadsAreTrue'
      <3>1. \A j \in 1 .. job.n : how[j] = "unread"
        BY <1>1, <1>3 DEF CountersInv
      <3> QED BY <1>1, <1>2, <3>1 DEF FreshReadsAreTrue
    <2> QED BY <2>4, <2>5, <2>6, <2>10, <2>16, <2>17 DEF IInv
  <1> QED BY <1>2, <1>9, <1>10

LEMMA StepPostRead == IInv /\ PostRead => IInv'
  <1> SUFFICES ASSUME IInv, PostRead PROVE IInv'
    OBVIOUS
  <1>1. TypeOK /\ CountersInv /\ QuietInv /\ RegistersInv
        /\ WritesArePrefix /\ FreshReadsAreTrue
    BY DEF IInv
  <1>2. pc = "postRead" /\ pc' = "fetchStatus" /\ pend' = "read" /\ tries' = 0
        /\ UNCHANGED <<mem, alo, ahi, dlo, dhi, latch, job, phase, off, left,
                       before, sent, how, dropped, failed, idx, got>>
    BY DEF PostRead, AfterPostRead, jobVars, history
  <1>3. pend = "none"
    BY <1>1, <1>2 DEF QuietInv, SendPC
  <1>4. Cur' = Cur /\ Here' = Here /\ Settled' = Settled
    BY <1>2, <1>3 DEF Cur, Here, Settled
  <1>5. TypeOK'
    BY <1>1, <1>2 DEF TypeOK, PC, StatusPC
  <1>6. CountersInv'
    BY <1>1, <1>2
       DEF CountersInv, CallCount, ChunkSize, AddressPC, DataPC, ReadPC
  <1>7. QuietInv' /\ RegistersInv'
    BY <1>1, <1>2, <1>3, <1>4
       DEF QuietInv, RegistersInv, SendPC, DataPC, WordAddr
  <1>8. WritesArePrefix' /\ FreshReadsAreTrue'
    BY <1>1, <1>2, <1>4, HistoryKept
  <1> QED BY <1>5, <1>6, <1>7, <1>8 DEF IInv

(* The latch holds the word in hand unless a POST_READ was given up.       *)
LEMMA StepFetch == IInv /\ Fetch => IInv'
  <1> SUFFICES ASSUME IInv, Fetch PROVE IInv'
    OBVIOUS
  <1>1. TypeOK /\ CountersInv /\ QuietInv /\ RegistersInv
        /\ WritesArePrefix /\ FreshReadsAreTrue
    BY DEF IInv
  <1>2. pc = "fetch" /\ got' = [got EXCEPT ![Cur] = latch]
        /\ how' = [how EXCEPT ![Cur] = IF dropped THEN "stale" ELSE "fresh"]
        /\ pc' = WordDone /\ idx' = idx + 1
        /\ UNCHANGED <<mem, alo, ahi, dlo, dhi, latch, pend, job, phase, off,
                       left, before, sent, dropped, failed, tries>>
    BY DEF Fetch, codecVars, jobVars
  <1>3. pend = "none" /\ phase = "read"
    BY <1>1, <1>2 DEF QuietInv, CountersInv, ReadPC
  <1>4. Cur \in 1 .. job.n /\ Cur = off + idx + 1 /\ idx < CallCount
        /\ (idx + 1 < CallCount => Cur < job.n)
    BY <1>1, <1>2, CurInJob DEF ReadPC
  <1>5. pc' = (IF idx + 1 < CallCount THEN "readStatus" ELSE "return")
    BY <1>2, <1>3 DEF WordDone, NextWord
  <1>6. Settled = mem /\ Settled' = mem /\ Here' = Here /\ CallCount' = CallCount
    BY <1>2, <1>3 DEF Settled, Here, CallCount, ChunkSize
  <1>7. ~dropped => /\ latch = mem[WordAddr(job.base, Cur)]
                    /\ Cur < job.n => Here = WordAddr(job.base, Cur + 1)
    BY <1>1, <1>2, <1>3 DEF RegistersInv
  <1>8. job \in Jobs /\ off \in Nat /\ idx \in Nat /\ job.n \in Nat
    BY <1>1, JobFacts DEF TypeOK
  <1>9. TypeOK'
    <2>1. pc' \in PC /\ idx' \in Nat
      BY <1>2, <1>5, <1>8 DEF PC, StatusPC
    <2>2. got' \in [1 .. job.n -> Word]
          /\ how' \in [1 .. job.n -> {"unread", "fresh", "stale"}]
      BY <1>1, <1>2 DEF TypeOK
    <2> QED BY <1>1, <1>2, <2>1, <2>2 DEF TypeOK
  <1>10. CountersInv'
    BY <1>1, <1>2, <1>3, <1>5, <1>6
       DEF CountersInv, AddressPC, DataPC, ReadPC
  <1>11. QuietInv'
    BY <1>5 DEF QuietInv, SendPC
  <1>12. Cur' = Cur + 1
    BY <1>2, <1>4, <1>8 DEF Cur
  <1>13. RegistersInv'
    BY <1>2, <1>3, <1>4, <1>5, <1>6, <1>7, <1>12
       DEF RegistersInv, DataPC, WordAddr
  <1>14. WritesArePrefix'
    BY <1>1, <1>2, <1>6 DEF WritesArePrefix, WordAddr
  <1>15. FreshReadsAreTrue'
    <2> SUFFICES ASSUME NEW j \in 1 .. job.n
                 PROVE  /\ how'[j] = "fresh" => got'[j] = mem[WordAddr(job.base, j)]
                        /\ how'[j] = "unread" => got'[j] = Zero
      BY <1>2, <1>6 DEF FreshReadsAreTrue, WordAddr
    <2>1. CASE j = Cur
      BY <1>1, <1>2, <1>4, <1>7, <2>1 DEF TypeOK
    <2>2. CASE j # Cur
      <3>1. how'[j] = how[j] /\ got'[j] = got[j]
        BY <1>1, <1>2, <2>2 DEF TypeOK
      <3> QED BY <1>1, <1>6, <3>1 DEF FreshReadsAreTrue
    <2> QED BY <2>1, <2>2
  <1> QED BY <1>9, <1>10, <1>11, <1>13, <1>14, <1>15 DEF IInv

-----------------------------------------------------------------------------
LEMMA StepStart == IInv /\ Start => IInv'
  <1> SUFFICES ASSUME IInv, Start PROVE IInv'
    OBVIOUS
  <1>1. TypeOK
    BY DEF IInv
  <1>2. pc = "idle" /\ job' \in Jobs /\ pc' = "addrStatus" /\ tries' = 0
        /\ phase' = (IF job'.kind = "load" THEN "write" ELSE "read")
        /\ off' = 0 /\ left' = job'.n /\ idx' = 0 /\ sent' = 0
        /\ before' = Settled /\ dropped' = FALSE /\ failed' = FALSE
        /\ got' = [k \in 1 .. job'.n |-> Zero]
        /\ how' = [k \in 1 .. job'.n |-> "unread"]
        /\ UNCHANGED <<mem, alo, ahi, dlo, dhi, latch, pend>>
    BY DEF Start, CallStart, Blank, codecVars
  <1>3. job'.n \in Nat /\ job'.n >= 1
    BY <1>2, JobFacts
  <1>4. Settled' = Settled /\ Settled \in [Addr -> Word]
    BY <1>1, <1>2, HereIsAddr DEF Settled, Here
  <1>5. TypeOK'
    <2>1. got' \in [1 .. job'.n -> Word]
          /\ how' \in [1 .. job'.n -> {"unread", "fresh", "stale"}]
      BY <1>2, WordAssumption
    <2>2. pc' \in PC /\ phase' \in {"write", "read"}
      BY <1>2 DEF PC, StatusPC
    <2>3. sent' \in 0 .. job'.n /\ left' \in Nat
      BY <1>2, <1>3
    <2> QED BY <1>1, <1>2, <1>4, <2>1, <2>2, <2>3 DEF TypeOK
  <1>6. CountersInv'
    BY <1>2, <1>3 DEF CountersInv, AddressPC, DataPC, ReadPC
  <1>7. QuietInv' /\ RegistersInv'
    BY <1>2 DEF QuietInv, RegistersInv, SendPC, DataPC
  <1>8. WritesArePrefix' /\ FreshReadsAreTrue'
    BY <1>2, <1>3, <1>4 DEF WritesArePrefix, FreshReadsAreTrue
  <1> QED BY <1>5, <1>6, <1>7, <1>8 DEF IInv

LEMMA StepWriteReturns == IInv /\ WriteReturns => IInv'
  <1> SUFFICES ASSUME IInv, WriteReturns PROVE IInv'
    OBVIOUS
  <1>1. TypeOK /\ CountersInv /\ WritesArePrefix /\ FreshReadsAreTrue
    BY DEF IInv
  <1>2. pc = "return" /\ phase = "write" /\ phase' = "read"
        /\ pc' = "addrStatus" /\ idx' = 0
        /\ UNCHANGED <<mem, alo, ahi, dlo, dhi, latch, pend, job, off, left,
                       before, sent, how, dropped, failed, tries, got>>
    BY DEF WriteReturns, CallStart, codecVars, history
  <1>3. Settled' = Settled
    BY <1>2 DEF Settled, Here
  <1>4. TypeOK'
    BY <1>1, <1>2 DEF TypeOK, PC, StatusPC
  <1>5. CountersInv'
    BY <1>1, <1>2 DEF CountersInv, AddressPC, DataPC, ReadPC
  <1>6. QuietInv' /\ RegistersInv'
    BY <1>2 DEF QuietInv, RegistersInv, SendPC, DataPC
  <1>7. WritesArePrefix' /\ FreshReadsAreTrue'
    BY <1>1, <1>2, <1>3, HistoryKept
  <1> QED BY <1>4, <1>5, <1>6, <1>7 DEF IInv

LEMMA StepReadReturns == IInv /\ ReadReturns => IInv'
  <1> SUFFICES ASSUME IInv, ReadReturns PROVE IInv'
    OBVIOUS
  <1>1. TypeOK /\ CountersInv /\ WritesArePrefix /\ FreshReadsAreTrue
    BY DEF IInv
  <1>2. pc = "return" /\ phase = "read" /\ off' = off + ChunkSize /\ idx' = 0
        /\ left' = (IF left < ChunkSize THEN 0 ELSE left - ChunkSize)
        /\ pc' = (IF left' = 0 THEN "done" ELSE "addrStatus")
        /\ dropped' = FALSE
        /\ UNCHANGED <<mem, alo, ahi, dlo, dhi, latch, pend, job, phase,
                       before, sent, how, failed, tries, got>>
    BY DEF ReadReturns, PieceLeft, CallStart, codecVars
  <1>3. ChunkSize \in Nat /\ ChunkSize >= 1 /\ left \in Nat /\ off \in Nat
        /\ left >= 1 /\ off + left = job.n
    BY <1>1, <1>2, ChunkPositive DEF TypeOK, CountersInv
  <1>4. left' \in Nat /\ off' \in Nat
        /\ (pc' # "done" => left' >= 1 /\ off' + left' = job.n)
    BY <1>2, <1>3
  <1>5. Settled' = Settled
    BY <1>2 DEF Settled, Here
  <1>6. TypeOK'
    <2>1. pc' \in PC
      BY <1>2 DEF PC, StatusPC
    <2> QED BY <1>1, <1>2, <1>4, <2>1 DEF TypeOK
  <1>7. CountersInv'
    BY <1>2, <1>4 DEF CountersInv, AddressPC, DataPC, ReadPC
  <1>8. QuietInv' /\ RegistersInv'
    BY <1>2 DEF QuietInv, RegistersInv, SendPC, DataPC
  <1>9. WritesArePrefix' /\ FreshReadsAreTrue'
    BY <1>1, <1>2, <1>5, HistoryKept
  <1> QED BY <1>6, <1>7, <1>8, <1>9 DEF IInv

(* Finish and Kill leave everything but the program counter as it is.      *)
LEMMA StepIdle ==
    ASSUME IInv, pc' = "idle",
           UNCHANGED <<codecVars, jobVars, history, tries, idx, got>>
    PROVE  IInv'
  <1>1. TypeOK /\ CountersInv /\ WritesArePrefix /\ FreshReadsAreTrue
    BY DEF IInv
  <1>2. UNCHANGED <<mem, alo, ahi, dlo, dhi, latch, pend, job, phase, off, left,
                    before, sent, how, dropped, failed, tries, idx, got>>
    BY DEF codecVars, jobVars, history
  <1>3. Settled' = Settled
    BY <1>2 DEF Settled, Here
  <1>4. TypeOK'
    BY <1>1, <1>2 DEF TypeOK, PC
  <1>5. CountersInv' /\ QuietInv' /\ RegistersInv'
    BY <1>1, <1>2 DEF CountersInv, QuietInv, RegistersInv, AddressPC, DataPC,
                      ReadPC, SendPC
  <1>6. WritesArePrefix' /\ FreshReadsAreTrue'
    BY <1>1, <1>2, <1>3, HistoryKept
  <1> QED BY <1>4, <1>5, <1>6 DEF IInv

LEMMA StepStutter ==
    ASSUME IInv, UNCHANGED vars
    PROVE  IInv'
  <1>1. TypeOK /\ CountersInv /\ QuietInv /\ RegistersInv
        /\ WritesArePrefix /\ FreshReadsAreTrue
    BY DEF IInv
  <1>2. UNCHANGED <<mem, alo, ahi, dlo, dhi, latch, pend, job, phase, off, left,
                    before, sent, how, dropped, failed, tries, idx, got, pc>>
    BY DEF vars, codecVars, jobVars, history
  <1>3. Settled' = Settled /\ Here' = Here /\ Cur' = Cur /\ Target' = Target
    BY <1>2 DEF Settled, Here, Cur, Target
  <1>4. TypeOK' /\ QuietInv'
    BY <1>1, <1>2 DEF TypeOK, QuietInv
  <1>5. CountersInv' /\ RegistersInv'
    BY <1>1, <1>2, <1>3
       DEF CountersInv, RegistersInv, CallCount, ChunkSize, WordAddr
  <1>6. WritesArePrefix' /\ FreshReadsAreTrue'
    BY <1>1, <1>2, <1>3, HistoryKept
  <1> QED BY <1>4, <1>5, <1>6 DEF IInv

-----------------------------------------------------------------------------
(* Every step of the tools, the user and the codec keeps the invariant.    *)
LEMMA NextIInv == IInv /\ [Next]_vars => IInv'
  <1> SUFFICES ASSUME IInv, [Next]_vars PROVE IInv'
    OBVIOUS
  <1>1. CASE Transfer
    BY <1>1, StepTransfer
  <1>2. CASE PollReady \/ PollBusy \/ SendRefused
    BY <1>2, StepPollReady, StepPollBusy, StepSendRefused
  <1>3. CASE SendAddress \/ SendData \/ PostRead \/ Fetch
    BY <1>3, StepSendAddress, StepSendData, StepPostRead, StepFetch
  <1>4. CASE Start \/ WriteReturns \/ ReadReturns
    BY <1>4, StepStart, StepWriteReturns, StepReadReturns
  <1>5. CASE Finish \/ Kill
    BY <1>5, StepIdle DEF Finish, Kill
  <1>6. CASE UNCHANGED vars
    BY <1>6, StepStutter
  <1> QED BY <1>1, <1>2, <1>3, <1>4, <1>5, <1>6 DEF Next, Tool

LEMMA InvariantIInv == Spec => []IInv
  <1> QED BY InitIInv, NextIInv, PTL DEF Spec

(* Type correctness of the tools and of the codec's registers.             *)
THEOREM TypeCorrect == Spec => []TypeOK
  <1>1. IInv => TypeOK
    BY DEF IInv
  <1> QED BY <1>1, InvariantIInv, PTL

(* Whatever is refused, aborted or killed: the bus holds a prefix of the    *)
(* job's words, whole and in place, over what it held before.               *)
THEOREM PrefixCorrect == Spec => []WritesArePrefix
  <1>1. IInv => WritesArePrefix
    BY DEF IInv
  <1> QED BY <1>1, InvariantIInv, PTL

(* A word read in a call that lost no POST_READ is the word at its address. *)
THEOREM FreshReadsCorrect == Spec => []FreshReadsAreTrue
  <1>1. IInv => FreshReadsAreTrue
    BY DEF IInv
  <1> QED BY <1>1, InvariantIInv, PTL

-----------------------------------------------------------------------------
(* The one step that changes what the bus holds, or will hold.             *)
LEMMA DataHighPuts ==
    ASSUME IInv, SendData, pc = "dataHigh"
    PROVE  /\ phase = "write" /\ pend = "none" /\ job.kind = "load"
           /\ sent < job.n /\ sent' = sent + 1
           /\ \A k \in 1 .. job.n : how[k] = "unread"
           /\ Settled' = [Settled EXCEPT ![WordAddr(job.base, sent + 1)] =
                              job.words[sent + 1]]
  <1>1. TypeOK /\ CountersInv /\ QuietInv /\ RegistersInv
    BY DEF IInv
  <1>2. pend = "none" /\ phase = "write" /\ job.kind = "load" /\ off = 0
        /\ sent = idx /\ Here = WordAddr(job.base, Cur)
        /\ dlo = job.words[Cur][1]
        /\ \A k \in 1 .. job.n : how[k] = "unread"
    BY <1>1 DEF QuietInv, SendPC, CountersInv, RegistersInv, DataPC
  <1>3. pend' = "write" /\ dhi' = job.words[Cur][2] /\ sent' = sent + 1
        /\ UNCHANGED <<mem, alo, ahi, dlo>>
    BY DEF SendData
  <1>4. job \in Jobs /\ idx \in Nat /\ job.n \in Nat
    BY <1>1, JobFacts DEF TypeOK
  <1>5. Cur \in 1 .. job.n /\ Cur = sent + 1
    BY <1>1, <1>2, <1>4, CurInJob DEF DataPC
  <1>6. job.words[Cur] = <<job.words[Cur][1], job.words[Cur][2]>>
    BY <1>2, <1>4, <1>5, JobFacts, WordHalves
  <1>7. Settled' = [Settled EXCEPT ![WordAddr(job.base, sent + 1)] =
                        job.words[sent + 1]]
    BY <1>2, <1>3, <1>5, <1>6 DEF Settled, Here
  <1> QED BY <1>2, <1>3, <1>4, <1>5, <1>7

LEMMA SettledKept ==
    ASSUME IInv, [Next]_vars, ~(SendData /\ pc = "dataHigh")
    PROVE  Settled' = Settled
  <1>1. QuietInv
    BY DEF IInv
  <1>2. CASE Transfer
    BY <1>2 DEF Transfer, Settled
  <1>3. CASE UNCHANGED codecVars
    BY <1>3 DEF codecVars, Settled, Here
  <1>4. CASE SendAddress \/ SendData
    <2>1. pc \in SendPC /\ UNCHANGED <<mem, pend>>
      BY <1>4 DEF SendAddress, SendData, SendPC
    <2> QED BY <1>1, <2>1 DEF QuietInv, Settled
  <1>5. CASE PostRead
    <2>1. pc = "postRead" /\ pend' = "read" /\ mem' = mem
      BY <1>5 DEF PostRead
    <2> QED BY <1>1, <2>1 DEF QuietInv, SendPC, Settled
  <1>6. Transfer \/ UNCHANGED codecVars \/ SendAddress \/ SendData \/ PostRead
    BY DEF Next, Tool, PollReady, PollBusy, SendRefused, Fetch, WriteReturns,
           ReadReturns, Finish, Start, Kill, vars
  <1> QED BY <1>2, <1>3, <1>4, <1>5, <1>6

(* Reading back, dumping, failing and being killed never change the bus.   *)
THEOREM OnlyWritersWriteCorrect == Spec => OnlyWritersWrite
  <1>1. IInv /\ [Next]_vars =>
          [Settled' # Settled => phase = "write" /\ pc = "dataHigh"
                                    /\ pend = "none"]_vars
    BY SettledKept, DataHighPuts
  <1> QED BY <1>1, InvariantIInv, PTL DEF Spec, OnlyWritersWrite

-----------------------------------------------------------------------------
LEMMA InitAhead == Init => AheadInv
  BY DEF Init, AheadInv

(* The words ahead of the one in hand have not been read.                  *)
LEMMA NextAhead == IInv /\ AheadInv /\ [Next]_vars => AheadInv'
  <1> SUFFICES ASSUME IInv, AheadInv, [Next]_vars, pc' \notin {"idle", "done"}
               PROVE  /\ idx' <= CallCount'
                      /\ \A k \in 1 .. job'.n : k >= Cur' => how'[k] = "unread"
    BY DEF AheadInv
  <1>1. TypeOK /\ CountersInv
    BY DEF IInv
  <1>2. job \in Jobs /\ job.n \in Nat /\ off \in Nat /\ left \in Nat
        /\ idx \in Nat /\ ChunkSize \in Nat /\ ChunkSize >= 1
    BY <1>1, JobFacts, ChunkPositive DEF TypeOK
  <1>3. CASE /\ UNCHANGED <<job, phase, off, left, idx, how>>
             /\ pc \notin {"idle", "done"}
    BY <1>3 DEF AheadInv, CallCount, ChunkSize, Cur
  <1>4. CASE SendData
    <2>1. UNCHANGED <<job, phase, off, left, how>> /\ pc \in DataPC
          /\ (idx' = idx \/ idx' = idx + 1)
      BY <1>4 DEF SendData, jobVars, DataPC
    <2>2. idx < CallCount /\ CallCount' = CallCount /\ CallCount \in Nat
      BY <1>1, <1>2, <2>1 DEF CountersInv, CallCount, ChunkSize
    <2>3. \A k \in 1 .. job.n : k >= Cur => how[k] = "unread"
      BY <2>1 DEF AheadInv, DataPC
    <2> QED BY <1>2, <2>1, <2>2, <2>3 DEF Cur
  <1>5. CASE Fetch
    <2>1. UNCHANGED <<job, phase, off, left>> /\ pc = "fetch" /\ idx' = idx + 1
          /\ how' = [how EXCEPT ![Cur] = IF dropped THEN "stale" ELSE "fresh"]
      BY <1>5 DEF Fetch, jobVars
    <2>2. idx < CallCount /\ CallCount' = CallCount /\ CallCount \in Nat
      BY <1>1, <1>2, <2>1 DEF CountersInv, CallCount, ChunkSize, ReadPC
    <2>3. \A k \in 1 .. job.n : k >= Cur => how[k] = "unread"
      BY <2>1 DEF AheadInv
    <2>4. Cur' = Cur + 1 /\ Cur \in Nat
      BY <1>2, <2>1 DEF Cur
    <2>5. ASSUME NEW k \in 1 .. job'.n, k >= Cur'
          PROVE  how'[k] = "unread"
      <3>1. k # Cur /\ k \in 1 .. job.n /\ k >= Cur
        BY <2>1, <2>4, <2>5
      <3> QED BY <1>1, <2>1, <2>3, <3>1 DEF TypeOK
    <2> QED BY <1>2, <2>1, <2>2, <2>5
  <1>6. CASE Start
    <2>1. job' \in Jobs /\ idx' = 0 /\ left' = job'.n
          /\ phase' = (IF job'.kind = "load" THEN "write" ELSE "read")
          /\ how' = [k \in 1 .. job'.n |-> "unread"]
      BY <1>6 DEF Start, Blank
    <2>2. job'.n \in Nat /\ ChunkSize' \in Nat
      <3>1. job'.n \in Nat /\ job'.n >= 1
        BY <2>1, JobFacts
      <3>2. job'.n >= PIECES => job'.n \div PIECES \in Nat
        BY <3>1, TriesAssumption
      <3> QED BY <3>1, <3>2, TriesAssumption DEF ChunkSize
    <2> QED BY <2>1, <2>2 DEF CallCount
  <1>7. CASE WriteReturns
    <2>1. UNCHANGED <<job, off, left, how>> /\ idx' = 0 /\ phase = "write"
          /\ phase' = "read"
      BY <1>7 DEF WriteReturns, history
    <2>2. \A k \in 1 .. job.n : how[k] = "unread"
      BY <1>1, <2>1 DEF CountersInv
    <2> QED BY <1>2, <2>1, <2>2 DEF CallCount, ChunkSize
  <1>8. CASE ReadReturns
    <2>1. UNCHANGED <<job, phase, how>> /\ pc = "return" /\ phase = "read"
          /\ idx' = 0 /\ off' = off + ChunkSize
          /\ left' = (IF left < ChunkSize THEN 0 ELSE left - ChunkSize)
      BY <1>8 DEF ReadReturns, PieceLeft
    <2>2. ChunkSize' = ChunkSize
      BY <2>1 DEF ChunkSize
    <2>3. idx <= ChunkSize /\ \A k \in 1 .. job.n : k >= Cur => how[k] = "unread"
      BY <1>2, <2>1 DEF AheadInv, CallCount
    <2>4. left' \in Nat
      BY <1>2, <2>1
    <2> QED BY <1>2, <2>1, <2>2, <2>3, <2>4 DEF CallCount, Cur
  <1>9. CASE Transfer \/ PollReady \/ PollBusy \/ SendRefused \/ SendAddress
             \/ PostRead \/ UNCHANGED vars
    <2>1. UNCHANGED <<job, phase, off, left, idx, how>>
      BY <1>9 DEF Transfer, PollReady, PollBusy, SendRefused, SendAddress,
                  PostRead, vars, jobVars, history
    <2>2. pc \notin {"idle", "done"}
      BY <1>9 DEF Transfer, PollReady, PollBusy, SendRefused, SendAddress,
                  PostRead, vars, StatusPC, SendPC
    <2> QED BY <1>3, <2>1, <2>2
  <1>10. ~Finish /\ ~Kill
    BY DEF Finish, Kill
  <1> QED BY <1>4, <1>5, <1>6, <1>7, <1>8, <1>9, <1>10 DEF Next, Tool

LEMMA InitUnfailed == Init => UnfailedInv
  BY DEF Init, UnfailedInv

(* A call that is not aborted goes on to its last word, and the tool goes   *)
(* on to the last call.                                                    *)
LEMMA NextUnfailed == IInv /\ UnfailedInv /\ [Next]_vars => UnfailedInv'
  <1> SUFFICES ASSUME IInv, UnfailedInv, [Next]_vars, ~failed', pc' # "idle"
               PROVE  UnfailedInv'
    BY DEF UnfailedInv
  <1>1. TypeOK /\ CountersInv
    BY DEF IInv
  <1>2. job \in Jobs /\ job.n \in Nat /\ off \in Nat /\ left \in Nat
        /\ idx \in Nat /\ ChunkSize \in Nat /\ ChunkSize >= 1
    BY <1>1, JobFacts, ChunkPositive DEF TypeOK
  <1>3. CallCount \in Nat
    BY <1>2 DEF CallCount
  <1>4. ASSUME UNCHANGED <<job, phase, off, left, idx, how, sent>>,
               ~failed, pc \notin {"idle", "done", "return"},
               pc' \notin {"done", "return"}
        PROVE  UnfailedInv'
    BY <1>4 DEF UnfailedInv, Cur
  <1>5. CASE Transfer \/ UNCHANGED vars
    <2>1. UNCHANGED <<job, phase, off, left, idx, how, sent, failed, pc>>
      BY <1>5 DEF Transfer, vars, jobVars, history
    <2> QED BY <2>1 DEF UnfailedInv, CallCount, ChunkSize, Cur
  <1>6. CASE PollReady \/ PollBusy \/ SendRefused \/ SendAddress \/ PostRead
    <2>1. UNCHANGED <<job, phase, off, left, idx, how, sent>>
      BY <1>6 DEF PollReady, PollBusy, SendRefused, SendAddress, PostRead,
                  jobVars, history
    <2>2. pc \in StatusPC \cup SendPC
      BY <1>6 DEF PollReady, PollBusy, SendRefused, SendAddress, PostRead,
                  SendPC
    <2>3. ~failed /\ pc' \notin {"done", "return"}
      <3>1. CASE PollReady
        BY <1>6, <3>1 DEF PollReady, AfterStatus, StatusPC, history
      <3>2. CASE PollBusy
        <4>1. UNCHANGED <<pc, failed>>
          BY <3>2 DEF PollBusy
        <4> QED BY <2>2, <4>1 DEF StatusPC, SendPC
      <3>3. CASE SendRefused
        <4>1. UNCHANGED failed /\ (pc' = pc \/ pc' = "fetchStatus")
          BY <3>3 DEF SendRefused, AfterPostRead
        <4> QED BY <2>2, <4>1 DEF StatusPC, SendPC
      <3>4. CASE SendAddress
        BY <3>4 DEF SendAddress, NextWord, history
      <3>5. CASE PostRead
        BY <3>5 DEF PostRead, AfterPostRead, history
      <3> QED BY <1>6, <3>1, <3>2, <3>3, <3>4, <3>5
    <2> QED BY <1>4, <2>1, <2>2, <2>3 DEF StatusPC, SendPC
  <1>7. CASE SendData
    <2>1. UNCHANGED <<job, phase, off, left, how>> /\ phase = "write"
          /\ failed' = failed /\ pc \in DataPC
      BY <1>1, <1>7 DEF SendData, jobVars, CountersInv, DataPC
    <2>2. CASE pc = "dataLow"
      BY <1>7, <2>1, <2>2 DEF SendData, UnfailedInv
    <2>3. CASE pc = "dataHigh"
      <3>1. idx' = idx + 1 /\ pc' = WordDone
        BY <1>7, <2>3 DEF SendData
      <3>2. idx < CallCount /\ CallCount' = CallCount
        BY <1>1, <2>1 DEF CountersInv, CallCount, ChunkSize
      <3>3. pc' = "return" => idx' = CallCount'
        BY <1>2, <1>3, <2>1, <3>1, <3>2 DEF WordDone, NextWord
      <3>4. pc' # "done"
        BY <2>1, <3>1 DEF WordDone, NextWord
      <3> QED BY <2>1, <3>3, <3>4 DEF UnfailedInv
    <2> QED BY <1>7, <2>2, <2>3 DEF SendData
  <1>8. CASE Fetch
    <2>1. UNCHANGED <<job, phase, off, left, sent, failed>> /\ pc = "fetch"
          /\ phase = "read" /\ idx' = idx + 1 /\ pc' = WordDone
          /\ how' = [how EXCEPT ![Cur] = IF dropped THEN "stale" ELSE "fresh"]
      BY <1>1, <1>8 DEF Fetch, jobVars, CountersInv, ReadPC
    <2>2. idx < CallCount /\ CallCount' = CallCount
      BY <1>1, <2>1 DEF CountersInv, CallCount, ChunkSize, ReadPC
    <2>3. pc' = "return" => idx' = CallCount'
      BY <1>2, <1>3, <2>1, <2>2 DEF WordDone, NextWord
    <2>4. pc' # "done"
      BY <2>1 DEF WordDone, NextWord
    <2>5. ASSUME NEW k \in 1 .. job.n, k < Cur'
          PROVE  how'[k] # "unread"
      <3>1. Cur' = Cur + 1 /\ Cur \in Nat
        BY <1>2, <2>1 DEF Cur
      <3>2. k = Cur \/ k < Cur
        BY <2>5, <3>1
      <3>3. k < Cur => how[k] # "unread"
        BY <2>1 DEF UnfailedInv
      <3>4. how \in [1 .. job.n -> {"unread", "fresh", "stale"}]
        BY <1>1 DEF TypeOK
      <3> QED BY <2>1, <3>2, <3>3, <3>4
    <2> QED BY <2>1, <2>3, <2>4, <2>5 DEF UnfailedInv
  <1>9. CASE Start
    <2>1. job' \in Jobs /\ off' = 0 /\ idx' = 0 /\ pc' = "addrStatus"
          /\ phase' = (IF job'.kind = "load" THEN "write" ELSE "read")
      BY <1>9 DEF Start, CallStart
    <2>2. \A k \in 1 .. job'.n : ~(k < Cur')
      BY <2>1 DEF Cur
    <2> QED BY <2>1, <2>2 DEF UnfailedInv
  <1>10. CASE WriteReturns
    <2>1. UNCHANGED <<job, off, sent, failed, how>> /\ pc = "return"
          /\ phase = "write" /\ phase' = "read" /\ idx' = 0
          /\ pc' = "addrStatus"
      BY <1>10 DEF WriteReturns, CallStart, history
    <2>2. off = 0 /\ sent = job.n
      BY <1>1, <2>1 DEF CountersInv, UnfailedInv, CallCount
    <2>3. \A k \in 1 .. job'.n : ~(k < Cur')
      BY <2>1, <2>2 DEF Cur
    <2> QED BY <2>1, <2>2, <2>3 DEF UnfailedInv
  <1>11. CASE ReadReturns
    <2>1. UNCHANGED <<job, phase, sent, how, failed>> /\ pc = "return"
          /\ phase = "read" /\ idx' = 0 /\ off' = off + ChunkSize
          /\ left' = (IF left < ChunkSize THEN 0 ELSE left - ChunkSize)
          /\ pc' = (IF left' = 0 THEN "done" ELSE "addrStatus")
      BY <1>11 DEF ReadReturns, PieceLeft, CallStart
    <2>2. idx = CallCount /\ CallCount = (IF left < ChunkSize THEN left ELSE ChunkSize)
          /\ off + left = job.n
          /\ \A k \in 1 .. job.n : k < Cur => how[k] # "unread"
      BY <1>1, <2>1 DEF UnfailedInv, CallCount, CountersInv
    <2>3. CASE left' = 0
      <3>1. Cur = job.n + 1
        BY <1>2, <2>1, <2>2, <2>3 DEF Cur
      <3>2. \A k \in 1 .. job.n : how[k] # "unread"
        BY <1>2, <2>2, <3>1
      <3> QED BY <2>1, <2>2, <2>3, <3>2 DEF UnfailedInv
    <2>4. CASE left' # 0
      <3>1. Cur' = Cur
        BY <1>2, <2>1, <2>2, <2>4 DEF Cur
      <3> QED BY <2>1, <2>2, <2>4, <3>1 DEF UnfailedInv
    <2> QED BY <2>3, <2>4
  <1>12. ~Finish /\ ~Kill
    BY DEF Finish, Kill
  <1> QED BY <1>5, <1>6, <1>7, <1>8, <1>9, <1>10, <1>11, <1>12 DEF Next, Tool

LEMMA InvariantUnfailed == Spec => []UnfailedInv
  <1> QED BY InitUnfailed, NextUnfailed, InvariantIInv, PTL DEF Spec

(* A dump or a read back none of whose calls was aborted has read every     *)
(* word, for every length and every number of pieces it is split in.        *)
THEOREM UnfailedReadsCorrect == Spec => []UnfailedJobReadsAll
  <1>1. UnfailedInv => UnfailedJobReadsAll
    BY DEF UnfailedInv, UnfailedJobReadsAll
  <1> QED BY <1>1, InvariantUnfailed, PTL

(* A load none of whose calls was aborted has written every word.          *)
THEOREM UnfailedLoadsCorrect == Spec => []UnfailedLoadWritesAll
  <1>1. IInv /\ UnfailedInv => UnfailedLoadWritesAll
    BY DEF IInv, CountersInv, UnfailedInv, UnfailedLoadWritesAll
  <1> QED BY <1>1, InvariantIInv, InvariantUnfailed, PTL

-----------------------------------------------------------------------------
(* The verbs implement a memory of whole words: each step of the bus is one *)
(* step of HicMemory or none.                                               *)
THEOREM Refinement == Spec => ImplementsMemory
  <1>1. Init => Memory!Init
    BY DEF Init, Memory!Init, Memory!Blank, Settled
  <1> USE DEF Memory!WordAddr, WordAddr, Memory!WORD_STEP, WORD_STEP,
              Memory!Word, Word
  <1>2. IInv /\ AheadInv /\ [Next]_vars => [Memory!Next]_(Memory!vars)
    <2> SUFFICES ASSUME IInv, AheadInv, [Next]_vars
                 PROVE  Memory!Next \/ UNCHANGED <<Settled, job, sent, got, how>>
      BY DEF Memory!vars
    <2>1. TypeOK /\ CountersInv /\ FreshReadsAreTrue /\ RegistersInv /\ QuietInv
      BY DEF IInv
    <2>2. CASE Start
      <3>1. Settled' = Settled
        BY <2>2, SettledKept DEF Start, SendData
      <3>2. job' \in Jobs /\ sent' = 0
            /\ got' = [k \in 1 .. job'.n |-> Zero]
            /\ how' = [k \in 1 .. job'.n |-> "unread"]
        BY <2>2 DEF Start, Blank
      <3>3. Memory!Begin
        BY <3>1, <3>2 DEF Memory!Begin, Memory!Blank
      <3> QED BY <3>3 DEF Memory!Next
    <2>3. CASE SendData /\ pc = "dataHigh"
      <3>1. UNCHANGED <<job, got, how>>
        BY <2>3 DEF SendData, jobVars
      <3> QED BY <2>3, <3>1, DataHighPuts DEF Memory!Next, Memory!Put
    <2>4. CASE Fetch
      <3>1. Settled' = Settled /\ UNCHANGED <<job, sent>>
        BY <2>4, SettledKept DEF Fetch, SendData, jobVars
      <3>2. pc = "fetch" /\ pend = "none" /\ Cur \in 1 .. job.n
        BY <2>1, <2>4, CurInJob DEF Fetch, QuietInv, ReadPC
      <3>3. \A k \in Cur .. job.n : how[k] = "unread"
        BY <3>2 DEF AheadInv
      <3>4. CASE dropped
        <4>1. how' = [how EXCEPT ![Cur] = "stale"]
              /\ got' = [got EXCEPT ![Cur] = latch] /\ latch \in Word
          BY <2>1, <2>4, <3>4 DEF Fetch, TypeOK
        <4>2. \E w \in Word : got' = [got EXCEPT ![Cur] = w]
          BY <4>1
        <4>3. Memory!Get(Cur)
          BY <3>1, <3>3, <4>1, <4>2 DEF Memory!Get
        <4> QED BY <3>2, <4>3 DEF Memory!Next
      <3>5. CASE ~dropped
        <4>1. how' = [how EXCEPT ![Cur] = "fresh"]
              /\ got' = [got EXCEPT ![Cur] = latch]
          BY <2>4, <3>5 DEF Fetch
        <4>2. latch = Settled[WordAddr(job.base, Cur)]
          BY <2>1, <3>2, <3>5 DEF RegistersInv, Settled
        <4>3. Memory!Get(Cur)
          BY <3>1, <3>3, <4>1, <4>2 DEF Memory!Get
        <4> QED BY <3>2, <4>3 DEF Memory!Next
      <3> QED BY <3>4, <3>5
    <2>5. CASE ~Start /\ ~(SendData /\ pc = "dataHigh") /\ ~Fetch
      <3>1. Settled' = Settled
        BY <2>5, SettledKept
      <3>2. UNCHANGED <<job, sent, got, how>>
        BY <2>5 DEF Next, Tool, Transfer, PollReady, PollBusy, SendRefused,
             SendAddress, SendData, PostRead, WriteReturns, ReadReturns, Finish,
             Kill, vars, jobVars, history
      <3> QED BY <3>1, <3>2
    <2> QED BY <2>2, <2>3, <2>4, <2>5
  <1>3. Spec => []AheadInv
    BY InitAhead, NextAhead, InvariantIInv, PTL DEF Spec
  <1> QED BY <1>1, <1>2, <1>3, InvariantIInv, PTL
          DEF Spec, ImplementsMemory, Memory!Spec
=============================================================================
