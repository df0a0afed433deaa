--------------------------- MODULE Exram8051_proofs ---------------------------
(***************************************************************************)
(* Machine-checked proofs about Exram8051, for every page size, number of   *)
(* pages and pieces, every content of the memories and every request.       *)
(***************************************************************************)
EXTENDS Exram8051, TLAPS

-----------------------------------------------------------------------------
(* Cutting an address into halves loses nothing, and no address has the     *)
(* upper half that a range read starts with.                                *)
LEMMA Halves ==
    ASSUME NEW a \in Addr
    PROVE  /\ LowerHalf(a) \in 0 .. PAGE - 1
           /\ UpperHalf(a) \in 0 .. PAGES - 1
           /\ UpperHalf(a) * PAGE + LowerHalf(a) = a
  BY ExramAssumption DEF Addr, SIZE, LowerHalf, UpperHalf

LEMMA UpperParts ==
    ASSUME NEW a \in Addr
    PROVE  /\ UpperPart(a) \in Nat
           /\ UpperPart(a) # NoUpper
  <1>1. UpperHalf(a) \in Nat
    BY Halves, ExramAssumption
  <1>2. \A h \in Nat : h * PAGE \in Nat /\ h * PAGE # PAGE - 1
    <2> TAKE h \in Nat
    <2>1. h = 0 \/ h * PAGE >= PAGE
      BY ExramAssumption
    <2> QED BY <2>1, ExramAssumption
  <1> QED BY <1>1, <1>2 DEF UpperPart, NoUpper

(* What a range read compares is the upper half, shifted.                  *)
LEMMA SameUpper ==
    ASSUME NEW a \in Addr, NEW b \in Addr, UpperPart(a) = UpperPart(b)
    PROVE  UpperHalf(a) = UpperHalf(b)
  <1>1. UpperHalf(a) \in Nat /\ UpperHalf(b) \in Nat
    BY Halves, ExramAssumption
  <1>2. \A g, h \in Nat : g * PAGE = h * PAGE => g = h
    BY ExramAssumption
  <1> QED BY <1>1, <1>2 DEF UpperPart

(* Any two halves make an address.                                         *)
LEMMA HereIsAddr ==
    ASSUME TypeOK
    PROVE  Here \in Addr
  <1>1. alo \in 0 .. PAGE - 1 /\ ahi \in 0 .. PAGES - 1
    BY DEF TypeOK
  <1>2. PAGE \in Nat /\ PAGES \in Nat
    BY ExramAssumption
  <1>3. \A h \in 0 .. PAGES - 1 : h * PAGE >= 0 /\ h * PAGE <= PAGE * PAGES - PAGE
    <2> TAKE h \in 0 .. PAGES - 1
    <2>1. PAGES - 1 - h \in Nat
      BY <1>2
    <2>2. (PAGES - 1 - h) * PAGE >= 0 /\ h * PAGE >= 0
      BY <1>2, <2>1
    <2> QED BY <1>2, <2>2
  <1> QED BY <1>1, <1>2, <1>3 DEF Here, Addr, SIZE

LEMMA SizePositive == SIZE \in Nat \ {0}
  BY ExramAssumption DEF SIZE

(* Stepping an address that has a successor does not wrap.                 *)
LEMMA StepStays ==
    ASSUME NEW a \in Addr
    PROVE  /\ (a + 1) % SIZE \in Addr
           /\ a + 1 \in Addr => (a + 1) % SIZE = a + 1
  BY SizePositive DEF Addr

(* What is known of a request.                                             *)
LEMMA AskedFacts ==
    ASSUME NEW r \in Asked
    PROVE  /\ r.kind \in Kinds /\ r.base \in Nat /\ r.base < SIZE /\ r.n \in Nat
           /\ r.kind \in Writing => \A k \in 1 .. r.n : r.bytes[k] \in Datum
           /\ ~TooBig(r) => r.base + r.n <= SIZE
  <1>1. /\ r.kind \in Kinds /\ r.base \in Addr /\ r.n \in Nat
        /\ r.kind \in Writing => r.bytes \in [1 .. r.n -> Datum]
        /\ r.kind \in {"peek", "poke"} => r.n = 1
        /\ r.kind = "code" => r.base + r.n <= SIZE
    BY ExramAssumption
  <1>2. r.base \in Nat /\ r.base < SIZE
    BY <1>1, SizePositive DEF Addr
  <1>3. ~TooBig(r) => r.base + r.n <= SIZE
    <2>1. r.kind \in {"dump", "load"} /\ ~TooBig(r) => r.base + r.n <= SIZE
      BY <1>1, <1>2, SizePositive DEF TooBig
    <2>2. r.kind \in {"peek", "poke"} => r.base + r.n <= SIZE
      BY <1>1, <1>2, SizePositive
    <2> QED BY <1>1, <2>1, <2>2 DEF Kinds
  <1> QED BY <1>1, <1>2, <1>3

LEMMA ChunkIsNat ==
    ASSUME job \in Asked
    PROVE  ChunkSize \in Nat
  BY AskedFacts, ExramAssumption DEF ChunkSize

(* The byte in hand is a byte of the request.                              *)
LEMMA CurInJob ==
    ASSUME TypeOK, CountersInv, pc \in {"addrLow", "addrHigh", "lowOnly", "data"}
    PROVE  /\ Cur \in Addr
           /\ CallCount \in Nat
           /\ i < CallCount => /\ Place \in 1 .. job.n
                               /\ job.base + Place - 1 = Cur
                               /\ off + CallCount <= job.n
                               /\ i + 1 < CallCount => Cur + 1 \in Addr
           /\ phase = "read" => i < CallCount
  <1>1. job \in Asked /\ off \in Nat /\ left \in Nat /\ i \in Nat
        /\ phase \in {"write", "read"}
    BY DEF TypeOK
  <1>2. /\ job.base \in Nat /\ job.base < SIZE /\ job.n \in Nat
        /\ ChunkSize \in Nat
    BY <1>1, AskedFacts, ChunkIsNat
  <1>3. Running
    BY DEF Running
  <1>4. job.base + job.n <= SIZE /\ off + left = job.n
    BY <1>3 DEF CountersInv
  <1>5. phase = "write" => off = 0
    BY <1>3 DEF CountersInv
  <1>6. CallCount \in Nat /\ off + CallCount <= job.n
    BY <1>1, <1>2, <1>4, <1>5 DEF CallCount
  <1>7. i < CallCount \/ (phase = "write" /\ i = 0)
    BY <1>1 DEF CountersInv
  <1>8. Cur \in Addr
    <2>1. CASE i < CallCount
      BY <2>1, <1>1, <1>2, <1>4, <1>6, SizePositive DEF Cur, Addr
    <2>2. CASE phase = "write" /\ i = 0
      BY <2>2, <1>1, <1>2, <1>5, SizePositive DEF Cur, Addr
    <2> QED BY <2>1, <2>2, <1>7
  <1>9. i < CallCount => /\ Place \in 1 .. job.n
                         /\ job.base + Place - 1 = Cur
                         /\ i + 1 < CallCount => Cur + 1 \in Addr
    BY <1>1, <1>2, <1>4, <1>6, SizePositive DEF Cur, Place, Addr
  <1>10. phase = "read" => i < CallCount
    BY <1>7
  <1> QED BY <1>6, <1>8, <1>9, <1>10

-----------------------------------------------------------------------------
THEOREM InitIInv == Init => IInv
  <1> SUFFICES ASSUME Init PROVE IInv
    OBVIOUS
  <1>1. job \in Asked /\ job.n \in Nat
    BY AskedFacts DEF Init
  <1>2. TypeOK
    <2>1. alo \in 0 .. PAGE - 1 /\ ahi \in 0 .. PAGES - 1
      BY ExramAssumption DEF Init
    <2>2. exram \in [Addr -> Datum] /\ pmem \in [Addr -> Datum]
          /\ before \in [Addr -> Datum]
      BY ExramAssumption DEF Init
    <2>3. got \in [1 .. job.n -> Datum]
      BY ExramAssumption DEF Init
    <2>4. sent \in 0 .. job.n
      BY <1>1 DEF Init
    <2> QED BY <1>1, <2>1, <2>2, <2>3, <2>4 DEF TypeOK, Init
  <1>3. CountersInv
    BY DEF Init, CountersInv, Running
  <1>4. AimInv
    BY DEF Init, AimInv
  <1>5. ReadsAreTrue
    BY DEF Init, ReadsAreTrue
  <1>6. WritesArePrefix
    <2> SUFFICES ASSUME NEW a \in Addr
                 PROVE  exram[a] = before[a] /\ ~(job.base <= a /\ a < job.base + sent)
      BY DEF WritesArePrefix
    <2> QED BY <1>1, AskedFacts, SizePositive DEF Init, Addr
  <1>7. DoneMeansAll
    BY DEF Init, DoneMeansAll
  <1> QED BY <1>2, <1>3, <1>4, <1>5, <1>6, <1>7 DEF IInv

-----------------------------------------------------------------------------
(* However a read aims, it then believes the upper half of where it aims;   *)
(* it saves the verb only when it believed so before.                       *)
LEMMA Aiming ==
    ASSUME NEW a, NEW u, AimAt(a, u)
    PROVE  /\ pc' \in {"addrLow", "lowOnly"}
           /\ curUpper' = UpperPart(a)
           /\ pc' = "lowOnly" => u = UpperPart(a)
  BY DEF AimAt

LEMMA AskKeeps == IInv /\ Ask => IInv'
  <1> SUFFICES ASSUME IInv, Ask PROVE IInv'
    OBVIOUS
  <1> USE DEF IInv
  <1>1. /\ job' \in Asked /\ off' = 0 /\ left' = job'.n /\ i' = 0 /\ sent' = 0
        /\ seen' = {} /\ got' = [k \in 1 .. job'.n |-> Zero] /\ before' = exram
        /\ exram' = exram
        /\ pc' \in {"refused", "done", "begin"}
        /\ phase' = IF job'.kind \in Writing THEN "write" ELSE "read"
    BY DEF Ask, codecVars
  <1>2. /\ job'.n \in Nat /\ job'.base \in Nat /\ job'.base < SIZE
        /\ ~TooBig(job') => job'.base + job'.n <= SIZE
    BY <1>1, AskedFacts
  <1>3. seen' = 1 .. 0
    BY <1>1
  <1>4. TypeOK'
    <2>1. got' \in [1 .. job'.n -> Datum]
      BY <1>1, ExramAssumption
    <2>2. sent' \in 0 .. job'.n
      BY <1>1, <1>2
    <2> QED BY <1>1, <1>2, <2>1, <2>2 DEF TypeOK, Ask, codecVars
  <1>5. CountersInv'
    <2>1. Running' => pc' = "begin" /\ job'.base + job'.n <= SIZE
      BY <1>1, <1>2 DEF Running, Ask
    <2>2. phase' = "read" => job'.kind \notin Writing
      BY <1>1
    <2>3. CallCount' \in Nat
      <3>1. ChunkSize' \in Nat
        BY <1>1, <1>2, ExramAssumption DEF ChunkSize
      <3> QED BY <1>1, <1>2, <3>1 DEF CallCount
    <2>4. off' + left' = job'.n /\ i' <= CallCount' /\ off' + i' = 0
      BY <1>1, <1>2, <2>3
    <2> QED BY <1>1, <1>3, <2>1, <2>2, <2>4 DEF CountersInv, Running
  <1>6. AimInv'
    BY <1>1 DEF AimInv
  <1>7. ReadsAreTrue'
    BY <1>1 DEF ReadsAreTrue
  <1>8. WritesArePrefix'
    <2> SUFFICES ASSUME NEW a \in Addr
                 PROVE  exram'[a] = before'[a]
                        /\ ~(job'.base <= a /\ a < job'.base + sent')
      BY DEF WritesArePrefix
    <2> QED BY <1>1, <1>2, SizePositive DEF Addr
  <1>9. DoneMeansAll'
    <2> SUFFICES ASSUME pc' = "done" PROVE job'.kind = "dump" /\ job'.n = 0
      BY <1>1, <1>3 DEF DoneMeansAll, Writing
    <2> QED BY DEF Ask
  <1> QED BY <1>4, <1>5, <1>6, <1>7, <1>8, <1>9

LEMMA BeginCallKeeps == IInv /\ BeginCall => IInv'
  <1> SUFFICES ASSUME IInv, BeginCall PROVE IInv'
    OBVIOUS
  <1> USE DEF IInv
  <1>1. pc = "begin" /\ UNCHANGED <<codecVars, jobVars, i, got, sent, seen>>
    BY DEF BeginCall
  <1>2. /\ exram' = exram /\ pmem' = pmem /\ alo' = alo /\ ahi' = ahi
        /\ job' = job /\ phase' = phase /\ off' = off /\ left' = left
        /\ before' = before /\ i' = i /\ got' = got /\ sent' = sent /\ seen' = seen
    BY <1>1 DEF codecVars, jobVars
  <1>3. Running /\ i = 0
    BY <1>1 DEF Running, CountersInv
  <1>4. CallCount' = CallCount /\ Cur' = Cur /\ Memory' = Memory
    BY <1>2 DEF CallCount, ChunkSize, Cur, Memory
  <1>5. Cur \in Addr \/ (phase = "read" /\ CallCount = 0)
    <2>1. job.base \in Nat /\ job.base < SIZE /\ job.base + job.n <= SIZE
          /\ job.n \in Nat /\ off \in Nat /\ left \in Nat
      BY <1>3, AskedFacts DEF TypeOK, CountersInv
    <2>2. off + left = job.n /\ (phase = "write" => off = 0)
      BY <1>3 DEF CountersInv
    <2>3. phase \in {"write", "read"} /\ ChunkSize \in Nat
      BY ChunkIsNat DEF TypeOK
    <2>4. phase = "write" => Cur \in Addr
      BY <2>1, <2>2, <1>3, SizePositive DEF Cur, Addr
    <2>5. phase = "read" /\ CallCount # 0 => left > 0
      BY <2>1, <2>3 DEF CallCount
    <2>6. left > 0 => Cur \in Addr
      BY <2>1, <2>2, <1>3, SizePositive DEF Cur, Addr
    <2> QED BY <2>3, <2>4, <2>5, <2>6
  <1>6. TypeOK' /\ CountersInv' /\ AimInv'
    <2>1. CASE phase = "write" /\ pc' = "addrLow" /\ UNCHANGED curUpper
      <3>1. TypeOK'
        BY <1>2, <2>1 DEF TypeOK
      <3>2. CountersInv'
        BY <1>1, <1>2, <1>3, <1>4, <2>1 DEF CountersInv, Running
      <3>3. AimInv'
        BY <1>2, <2>1 DEF AimInv
      <3> QED BY <3>1, <3>2, <3>3
    <2>2. CASE phase = "read" /\ CallCount > 0 /\ AimAt(Cur, NoUpper)
      <3>1. Cur \in Addr
        <4>1. CallCount # 0
          BY <2>2
        <4> QED BY <4>1, <1>5
      <3>2. pc' = "addrLow" /\ curUpper' = UpperPart(Cur) /\ curUpper' \in Nat
        BY <2>2, <3>1, Aiming, UpperParts
      <3>3. TypeOK'
        BY <1>2, <3>2 DEF TypeOK
      <3>4. CountersInv'
        BY <1>1, <1>2, <1>3, <1>4, <2>2, <3>2 DEF CountersInv, Running
      <3>5. AimInv'
        BY <1>2, <1>4, <3>2 DEF AimInv
      <3> QED BY <3>3, <3>4, <3>5
    <2>3. CASE phase = "read" /\ CallCount = 0 /\ pc' = "return" /\ UNCHANGED curUpper
      <3>1. TypeOK'
        BY <1>2, <2>3 DEF TypeOK
      <3>2. CountersInv'
        BY <1>1, <1>2, <1>3, <1>4, <2>3 DEF CountersInv, Running
      <3>3. AimInv'
        BY <1>2, <2>3 DEF AimInv
      <3> QED BY <3>1, <3>2, <3>3
    <2> QED BY <2>1, <2>2, <2>3 DEF BeginCall
  <1>7. ReadsAreTrue' /\ WritesArePrefix'
    BY <1>2, <1>4 DEF ReadsAreTrue, WritesArePrefix
  <1>8. DoneMeansAll'
    BY <1>6, <1>2 DEF BeginCall, AimAt, DoneMeansAll
  <1> QED BY <1>6, <1>7, <1>8

(* The three steps that set halves of the address.                         *)
LEMMA AddressStepsKeep == IInv /\ (SetLow \/ SetHigh \/ SetLowOnly) => IInv'
  <1> SUFFICES ASSUME IInv, SetLow \/ SetHigh \/ SetLowOnly PROVE IInv'
    OBVIOUS
  <1> USE DEF IInv
  <1>1. /\ exram' = exram /\ pmem' = pmem /\ job' = job /\ phase' = phase
        /\ off' = off /\ left' = left /\ before' = before /\ i' = i
        /\ curUpper' = curUpper /\ got' = got /\ sent' = sent /\ seen' = seen
        /\ pc \in {"addrLow", "addrHigh", "lowOnly"}
    BY DEF SetLow, SetHigh, SetLowOnly, jobVars
  <1>2. CallCount' = CallCount /\ Cur' = Cur /\ Memory' = Memory
    BY <1>1 DEF CallCount, ChunkSize, Cur, Memory
  <1>3. Cur \in Addr /\ (phase = "read" => i < CallCount) /\ Running
    BY <1>1, CurInJob DEF Running
  <1>4. LowerHalf(Cur) \in 0 .. PAGE - 1 /\ UpperHalf(Cur) \in 0 .. PAGES - 1
    BY <1>3, Halves
  <1>5. TypeOK' /\ CountersInv' /\ AimInv'
    <2>1. CASE SetLow
      <3>1. TypeOK'
        BY <1>1, <1>4, <2>1 DEF TypeOK, SetLow
      <3>2. CountersInv'
        BY <1>1, <1>2, <2>1 DEF CountersInv, Running, SetLow
      <3>3. AimInv'
        BY <1>1, <1>2, <2>1 DEF AimInv, SetLow
      <3> QED BY <3>1, <3>2, <3>3
    <2>2. CASE SetHigh
      <3>1. TypeOK'
        BY <1>1, <1>4, <2>2 DEF TypeOK, SetHigh
      <3>2. CountersInv'
        <4>1. phase = "write" => i = 0 /\ CallCount = job.n /\ job.n \in Nat
          BY <2>2, AskedFacts DEF SetHigh, CountersInv, TypeOK, CallCount
        <4>2. phase \in {"write", "read"}
          BY DEF TypeOK
        <4>3. IF phase = "write" /\ job.n = 0 THEN pc' = "return" ELSE pc' = "data"
          BY <2>2 DEF SetHigh
        <4>4. pc' = "data" => i < CallCount
          BY <4>1, <4>2, <4>3, <1>3
        <4>5. pc' = "return" => i = CallCount
          BY <4>1, <4>3
        <4> QED BY <1>1, <1>2, <1>3, <4>3, <4>4, <4>5 DEF CountersInv, Running
      <3>3. AimInv'
        BY <1>1, <1>2, <2>2 DEF AimInv, SetHigh
      <3> QED BY <3>1, <3>2, <3>3
    <2>3. CASE SetLowOnly
      <3>1. TypeOK'
        BY <1>1, <1>4, <2>3 DEF TypeOK, SetLowOnly
      <3>2. CountersInv'
        BY <1>1, <1>2, <2>3 DEF CountersInv, Running, SetLowOnly
      <3>3. AimInv'
        BY <1>1, <1>2, <2>3 DEF AimInv, SetLowOnly
      <3> QED BY <3>1, <3>2, <3>3
    <2> QED BY <2>1, <2>2, <2>3
  <1>6. ReadsAreTrue' /\ WritesArePrefix'
    BY <1>1, <1>2 DEF ReadsAreTrue, WritesArePrefix
  <1>7. DoneMeansAll'
    BY DEF SetLow, SetHigh, SetLowOnly, DoneMeansAll
  <1> QED BY <1>5, <1>6, <1>7

-----------------------------------------------------------------------------
LEMMA WriteByteKeeps == IInv /\ WriteByte => IInv'
  <1> SUFFICES ASSUME IInv, WriteByte PROVE IInv'
    OBVIOUS
  <1> USE DEF IInv
  <1> DEFINE next == (Here + 1) % SIZE
  <1>1. /\ pc = "data" /\ phase = "write"
        /\ exram' = [exram EXCEPT ![Here] = job.bytes[i + 1]]
        /\ alo' = LowerHalf(next) /\ ahi' = UpperHalf(next)
        /\ sent' = sent + 1 /\ i' = i + 1
        /\ pc' = IF i + 1 < job.n THEN "data" ELSE "return"
        /\ pmem' = pmem /\ job' = job /\ phase' = phase /\ off' = off
        /\ left' = left /\ before' = before /\ curUpper' = curUpper
        /\ got' = got /\ seen' = seen
    BY DEF WriteByte, jobVars
  <1>2. /\ job.n \in Nat /\ job.base \in Nat /\ i \in Nat /\ off = 0 /\ sent = i
        /\ seen = {} /\ job.kind \in Writing /\ i < job.n
        /\ CallCount = job.n /\ Running
    BY <1>1, AskedFacts DEF TypeOK, CountersInv, Running, CallCount
  <1>3. /\ Cur \in Addr /\ Cur = job.base + i
        /\ i + 1 < job.n => Cur + 1 \in Addr
    BY <1>1, <1>2, AskedFacts, CurInJob DEF Cur
  <1>4. Here = Cur
    BY <1>1, <1>3, Halves DEF AimInv, Here
  <1>5. next \in Addr /\ (i + 1 < job.n => next = Cur + 1)
    BY <1>3, <1>4, StepStays
  <1> HIDE DEF next
  <1>6. CallCount' = CallCount /\ Running' /\ Cur' = Cur + 1
    <2>1. CallCount' = CallCount
      BY <1>1 DEF CallCount, ChunkSize
    <2>2. Cur' = Cur + 1
      BY <1>1, <1>2, <1>3 DEF Cur
    <2> QED BY <1>1, <2>1, <2>2 DEF Running
  <1>7. job.bytes[i + 1] \in Datum
    BY <1>2, AskedFacts DEF TypeOK
  <1>8. TypeOK'
    <2>1. exram' \in [Addr -> Datum]
      BY <1>1, <1>7 DEF TypeOK
    <2>2. alo' \in 0 .. PAGE - 1 /\ ahi' \in 0 .. PAGES - 1
      BY <1>1, <1>5, Halves
    <2>3. sent' \in 0 .. job'.n /\ i' \in Nat
      BY <1>1, <1>2
    <2> QED BY <1>1, <2>1, <2>2, <2>3 DEF TypeOK
  <1>9. CountersInv'
    <2>1. i' \in Nat /\ i' <= CallCount' /\ sent' = i'
      BY <1>1, <1>2, <1>6
    <2>2. pc' = "data" => i' < CallCount'
      BY <1>1, <1>2, <1>6
    <2>3. pc' = "return" => i' = CallCount'
      BY <1>1, <1>2, <1>6
    <2> QED BY <1>1, <1>2, <2>1, <2>2, <2>3 DEF CountersInv, Running
  <1>10. AimInv'
    <2>1. pc' = "data" => next = Cur'
      BY <1>1, <1>5, <1>6
    <2> QED BY <1>1, <2>1 DEF AimInv
  <1>11. ReadsAreTrue'
    BY <1>1, <1>2 DEF ReadsAreTrue
  <1>12. WritesArePrefix'
    <2> SUFFICES ASSUME NEW a \in Addr
                 PROVE  exram'[a] = IF job.base <= a /\ a < job.base + sent'
                                    THEN job.bytes[a - job.base + 1] ELSE before[a]
      BY <1>1 DEF WritesArePrefix
    <2>1. exram[a] = IF job.base <= a /\ a < job.base + sent
                     THEN job.bytes[a - job.base + 1] ELSE before[a]
      BY DEF WritesArePrefix
    <2>2. exram'[a] = IF a = Cur THEN job.bytes[i + 1] ELSE exram[a]
      BY <1>1, <1>4 DEF TypeOK
    <2>3. a \in Int
      BY SizePositive DEF Addr
    <2>4. CASE a = Cur
      <3>1. a - job.base + 1 = i + 1 /\ job.base <= a /\ a < job.base + sent'
        BY <2>4, <1>1, <1>2, <1>3
      <3> QED BY <2>2, <2>4, <3>1
    <2>5. CASE a # Cur
      <3>1. (job.base <= a /\ a < job.base + sent')
            <=> (job.base <= a /\ a < job.base + sent)
        BY <2>3, <2>5, <1>1, <1>2, <1>3
      <3> QED BY <2>1, <2>2, <2>5, <3>1
    <2> QED BY <2>4, <2>5
  <1>13. DoneMeansAll'
    BY <1>1 DEF DoneMeansAll
  <1> QED BY <1>8, <1>9, <1>10, <1>11, <1>12, <1>13

LEMMA ReadByteKeeps == IInv /\ ReadByte => IInv'
  <1> SUFFICES ASSUME IInv, ReadByte PROVE IInv'
    OBVIOUS
  <1> USE DEF IInv
  <1>1. /\ pc = "data" /\ phase = "read"
        /\ got' = [got EXCEPT ![Place] = Memory[Here]]
        /\ seen' = seen \cup {Place}
        /\ i' = i + 1
        /\ exram' = exram /\ pmem' = pmem /\ alo' = alo /\ ahi' = ahi
        /\ job' = job /\ phase' = phase /\ off' = off
        /\ left' = left /\ before' = before /\ sent' = sent
    BY DEF ReadByte, jobVars, codecVars
  <1>2. /\ i \in Nat /\ off \in Nat /\ left \in Nat /\ job.n \in Nat
        /\ Cur \in Addr /\ CallCount \in Nat /\ i < CallCount /\ Running
        /\ Place \in 1 .. job.n /\ job.base + Place - 1 = Cur
        /\ i + 1 < CallCount => Cur + 1 \in Addr
    BY <1>1, CurInJob, AskedFacts DEF TypeOK, Running
  <1>3. Here = Cur
    BY <1>1, <1>2, Halves DEF AimInv, Here
  <1>4. CallCount' = CallCount /\ Memory' = Memory
    BY <1>1 DEF CallCount, ChunkSize, Memory
  <1>5. Cur' = Cur + 1
    <2>1. job.base \in Nat
      BY AskedFacts DEF TypeOK
    <2> QED BY <2>1, <1>1, <1>2 DEF Cur
  <1>6. Memory[Here] \in Datum
    BY HereIsAddr DEF Memory, TypeOK
  <1>7. \/ i + 1 < CallCount /\ AimAt(Cur + 1, curUpper)
        \/ ~(i + 1 < CallCount) /\ pc' = "return" /\ curUpper' = curUpper
    BY DEF ReadByte
  <1>8. pc' \in {"addrLow", "lowOnly", "return"} /\ curUpper' \in Nat
    <2>1. i + 1 < CallCount => UpperPart(Cur + 1) \in Nat
      BY <1>2, UpperParts
    <2> QED BY <1>7, <2>1, Aiming DEF TypeOK
  <1>9. TypeOK'
    <2>1. got' \in [1 .. job'.n -> Datum] /\ seen' \subseteq 1 .. job'.n
      BY <1>1, <1>2, <1>6 DEF TypeOK
    <2>2. i' \in Nat
      BY <1>1, <1>2
    <2> QED BY <1>1, <1>8, <2>1, <2>2 DEF TypeOK
  <1>10. CountersInv'
    <2>1. seen' = 1 .. off' + i'
      <3>1. seen = 1 .. off + i /\ Place = off + i + 1
        BY <1>1, <1>2 DEF CountersInv, Place
      <3>2. (1 .. off + i) \cup {off + i + 1} = 1 .. off + (i + 1)
        BY <1>2
      <3> QED BY <1>1, <3>1, <3>2
    <2>2. i' \in Nat /\ i' <= CallCount'
      BY <1>1, <1>2, <1>4
    <2>3. pc' = "return" => i' = CallCount'
      BY <1>1, <1>2, <1>4, <1>7, Aiming
    <2>4. pc' \in {"addrLow", "lowOnly"} => i' < CallCount'
      BY <1>1, <1>2, <1>4, <1>7
    <2> QED BY <1>1, <1>2, <1>8, <2>1, <2>2, <2>3, <2>4 DEF CountersInv, Running
  <1>11. AimInv'
    <2>1. pc' \in {"addrLow", "lowOnly"} => curUpper' = UpperPart(Cur')
      BY <1>5, <1>7, Aiming
    <2>2. pc' = "lowOnly" => ahi' = UpperHalf(Cur')
      <3> SUFFICES ASSUME pc' = "lowOnly" PROVE ahi' = UpperHalf(Cur')
        OBVIOUS
      <3>1. curUpper = UpperPart(Cur + 1) /\ Cur + 1 \in Addr
        BY <1>2, <1>7, Aiming
      <3>2. curUpper = UpperPart(Cur) /\ ahi = UpperHalf(Cur)
        BY <1>1 DEF AimInv
      <3>3. UpperHalf(Cur + 1) = UpperHalf(Cur)
        BY <3>1, <3>2, <1>2, SameUpper
      <3> QED BY <3>2, <3>3, <1>1, <1>5
    <2> QED BY <1>8, <2>1, <2>2 DEF AimInv
  <1>12. ReadsAreTrue'
    <2> SUFFICES ASSUME NEW k \in 1 .. job.n
                 PROVE  got'[k] = IF k \in seen' THEN Memory[job.base + k - 1]
                                                 ELSE Zero
      BY <1>1, <1>4 DEF ReadsAreTrue
    <2>1. got[k] = IF k \in seen THEN Memory[job.base + k - 1] ELSE Zero
      BY DEF ReadsAreTrue
    <2>2. got'[k] = IF k = Place THEN Memory[Cur] ELSE got[k]
      BY <1>1, <1>3 DEF TypeOK
    <2>3. CASE k = Place
      BY <2>2, <2>3, <1>1, <1>2
    <2>4. CASE k # Place
      BY <2>1, <2>2, <2>4, <1>1
    <2> QED BY <2>3, <2>4
  <1>13. WritesArePrefix'
    BY <1>1 DEF WritesArePrefix
  <1>14. DoneMeansAll'
    BY <1>8 DEF DoneMeansAll
  <1> QED BY <1>9, <1>10, <1>11, <1>12, <1>13, <1>14

-----------------------------------------------------------------------------
LEMMA WriteReturnsKeeps == IInv /\ WriteReturns => IInv'
  <1> SUFFICES ASSUME IInv, WriteReturns PROVE IInv'
    OBVIOUS
  <1> USE DEF IInv
  <1>1. /\ pc = "return" /\ phase = "write" /\ phase' = "read" /\ pc' = "begin"
        /\ i' = 0
        /\ exram' = exram /\ pmem' = pmem /\ alo' = alo /\ ahi' = ahi
        /\ job' = job /\ off' = off /\ left' = left /\ before' = before
        /\ curUpper' = curUpper /\ got' = got /\ sent' = sent /\ seen' = seen
    BY DEF WriteReturns, codecVars
  <1>2. /\ off = 0 /\ sent = job.n /\ seen = {} /\ job.kind \in Writing
        /\ job.base + job.n <= SIZE /\ off + left = job.n
    BY <1>1 DEF CountersInv, Running, CallCount
  <1>3. TypeOK'
    BY <1>1 DEF TypeOK
  <1>4. CountersInv'
    <2>1. CallCount' \in Nat
      <3>1. ChunkSize' \in Nat /\ left' \in Nat
        BY <1>1, ChunkIsNat DEF TypeOK, ChunkSize
      <3> QED BY <1>1, <3>1 DEF CallCount
    <2>2. seen' = 1 .. off' + i'
      BY <1>1, <1>2
    <2> QED BY <1>1, <1>2, <2>1, <2>2 DEF CountersInv, Running
  <1>5. AimInv'
    BY <1>1 DEF AimInv
  <1>6. ReadsAreTrue' /\ WritesArePrefix'
    BY <1>1 DEF ReadsAreTrue, WritesArePrefix, Memory
  <1>7. DoneMeansAll'
    BY <1>1 DEF DoneMeansAll
  <1> QED BY <1>3, <1>4, <1>5, <1>6, <1>7

LEMMA ReadReturnsKeeps == IInv /\ ReadReturns => IInv'
  <1> SUFFICES ASSUME IInv, ReadReturns PROVE IInv'
    OBVIOUS
  <1> USE DEF IInv
  <1>1. /\ pc = "return" /\ phase = "read" /\ phase' = phase
        /\ left' = PieceLeft /\ off' = off + ChunkSize /\ i' = 0
        /\ pc' = IF left' = 0 THEN "done" ELSE "begin"
        /\ exram' = exram /\ pmem' = pmem /\ alo' = alo /\ ahi' = ahi
        /\ job' = job /\ before' = before
        /\ curUpper' = curUpper /\ got' = got /\ sent' = sent /\ seen' = seen
    BY DEF ReadReturns, codecVars
  <1>2. /\ off \in Nat /\ left \in Nat /\ job.n \in Nat /\ ChunkSize \in Nat
        /\ off + left = job.n /\ i = CallCount /\ seen = 1 .. off + i
        /\ job.base + job.n <= SIZE
        /\ job.kind \in Writing => sent = job.n
    BY <1>1, AskedFacts, ChunkIsNat DEF TypeOK, CountersInv, Running
  <1>3. CallCount = IF left < ChunkSize THEN left ELSE ChunkSize
    BY <1>1 DEF CallCount
  <1>4. left' \in Nat /\ off' \in Nat
    BY <1>1, <1>2 DEF PieceLeft
  <1>5. TypeOK'
    BY <1>1, <1>4 DEF TypeOK
  <1>6. left' # 0 => off' + left' = job.n /\ seen = 1 .. off'
    BY <1>1, <1>2, <1>3 DEF PieceLeft
  <1>7. left' = 0 => seen = 1 .. job.n
    <2> SUFFICES ASSUME left' = 0 PROVE off + i = job.n
      BY <1>2
    <2> QED BY <1>1, <1>2, <1>3 DEF PieceLeft
  <1>8. CountersInv'
    <2>1. CallCount' \in Nat
      <3>1. ChunkSize' \in Nat
        BY <1>1, <1>2 DEF ChunkSize
      <3> QED BY <1>1, <1>4, <3>1 DEF CallCount
    <2>2. off' + i' = off'
      BY <1>1, <1>4
    <2>3. job.kind \notin Writing => sent = 0
      BY DEF CountersInv
    <2>4. pc' = "begin" => left' # 0
      BY <1>1
    <2> QED BY <1>1, <1>2, <1>6, <2>1, <2>2, <2>3, <2>4 DEF CountersInv, Running
  <1>9. AimInv'
    BY <1>1 DEF AimInv
  <1>10. ReadsAreTrue' /\ WritesArePrefix'
    BY <1>1 DEF ReadsAreTrue, WritesArePrefix, Memory
  <1>11. DoneMeansAll'
    BY <1>1, <1>2, <1>7 DEF DoneMeansAll
  <1> QED BY <1>5, <1>8, <1>9, <1>10, <1>11

LEMMA KillKeeps == IInv /\ Kill => IInv'
  <1> SUFFICES ASSUME IInv, Kill PROVE IInv'
    OBVIOUS
  <1>1. /\ pc' = "idle" /\ i' = i /\ curUpper' = curUpper /\ got' = got
        /\ sent' = sent /\ seen' = seen /\ phase' = phase /\ off' = off
        /\ exram' = exram /\ pmem' = pmem /\ alo' = alo /\ ahi' = ahi
        /\ job' = job /\ left' = left /\ before' = before
    BY DEF Kill, codecVars, jobVars
  <1>2. TypeOK'
    BY <1>1 DEF IInv, TypeOK
  <1>3. CountersInv' /\ AimInv' /\ DoneMeansAll'
    BY <1>1 DEF IInv, CountersInv, Running, AimInv, DoneMeansAll
  <1>4. ReadsAreTrue' /\ WritesArePrefix'
    BY <1>1 DEF IInv, ReadsAreTrue, WritesArePrefix, Memory
  <1> QED BY <1>2, <1>3, <1>4 DEF IInv

LEMMA StutterKeeps == IInv /\ UNCHANGED vars => IInv'
  <1> SUFFICES ASSUME IInv, UNCHANGED vars PROVE IInv'
    OBVIOUS
  <1>1. UNCHANGED <<exram, pmem, alo, ahi, job, phase, off, left, before,
                    pc, i, curUpper, got, sent, seen>>
    BY DEF vars, codecVars, jobVars
  <1>2. TypeOK' /\ CountersInv' /\ AimInv' /\ DoneMeansAll'
    <2>1. CallCount' = CallCount /\ Cur' = Cur
      BY <1>1 DEF CallCount, ChunkSize, Cur
    <2> QED BY <1>1, <2>1 DEF IInv, TypeOK, CountersInv, Running, AimInv, DoneMeansAll
  <1>3. ReadsAreTrue' /\ WritesArePrefix'
    BY <1>1 DEF IInv, ReadsAreTrue, WritesArePrefix, Memory
  <1> QED BY <1>2, <1>3 DEF IInv

(* The strengthened invariant: every state the tools reach satisfies it.    *)
THEOREM Invariance == Spec => []IInv
  <1>1. IInv /\ [Next]_vars => IInv'
    BY AskKeeps, BeginCallKeeps, AddressStepsKeep, WriteByteKeeps, ReadByteKeeps,
       WriteReturnsKeeps, ReadReturnsKeeps, KillKeeps, StutterKeeps
       DEF Next, Tool
  <1> QED BY InitIInv, <1>1, PTL DEF Spec

(* Every variable keeps its type: no byte outside the buffer or the file is *)
(* ever touched, and the count of bytes left never goes below zero          *)
(* (chipio_8051_read_exram_range and the tools' loops over pieces).         *)
THEOREM ExramTypeCorrect == Spec => []TypeOK
  BY Invariance, PTL DEF IInv

(* Every byte that was read is the byte at its own address, although most   *)
(* reads send only half of it (chipio_8051_read_exram_range).               *)
THEOREM ExramReadsCorrect == Spec => []ReadsAreTrue
  BY Invariance, PTL DEF IInv

(* exram always holds a prefix of what was loaded, at its own addresses,    *)
(* and is otherwise as it was (chipio_8051_write_exram_range).              *)
THEOREM ExramWritesCorrect == Spec => []WritesArePrefix
  BY Invariance, PTL DEF IInv

(* A tool that is done has read (back) all it was asked for, whatever the   *)
(* length and the number of pieces (8051-read-exram-to-file).               *)
THEOREM ExramDoneComplete == Spec => []DoneMeansAll
  BY Invariance, PTL DEF IInv
=============================================================================
