---- MODULE DspListing_proofs ----
EXTENDS DspListing, SequenceTheorems, WellFoundedInduction, TLAPS

LEMMA NatSetInduction ==
  ASSUME NEW T, 0 \in T, \A n \in Nat : n \in T => n + 1 \in T
  PROVE  Nat \subseteq T
<1> DEFINE Out == {n \in Nat : n \notin T}
           R == OpToRel(<, Nat)
<1>1. SUFFICES ASSUME Out # {} PROVE FALSE
  OBVIOUS
<1>2. PICK x \in Out : \A y \in Out : ~(<<y, x>> \in R)
  <2>1. IsWellFoundedOn(R, Nat)
    BY NatLessThanWellFounded
  <2>2. Out \subseteq Nat
    OBVIOUS
  <2> HIDE DEF R, Out
  <2> QED BY <1>1, <2>1, <2>2, WFMin
<1>3. x # 0 /\ x - 1 \in Nat /\ x - 1 \notin T
  <2>1. x \in Nat /\ x \notin T
    OBVIOUS
  <2> QED BY <2>1, SMT
<1>4. <<x - 1, x>> \in R
  BY <1>3, SMT DEF OpToRel
<1> QED BY <1>2, <1>3, <1>4

(* Functions and sequences. *)
LEMMA FunctionIsSeq ==
  ASSUME NEW V, NEW n \in Nat, NEW f \in [1 .. n -> V]
  PROVE  f \in Seq(V) /\ Len(f) = n
OBVIOUS

LEMMA SeqIsFunction ==
  ASSUME NEW V, NEW f \in Seq(V)
  PROVE  /\ Len(f) \in Nat /\ DOMAIN f = 1 .. Len(f)
         /\ f = [k \in 1 .. Len(f) |-> f[k]]
         /\ \A k \in 1 .. Len(f) : f[k] \in V
<1>1. f \in [1 .. Len(f) -> V] /\ Len(f) \in Nat
  BY LenProperties
<1> QED BY <1>1

(* How much of the sequences is joined when i of them are. *)
Joined(f, seqs, n) ==
  \A i \in 1 .. n : f[i] = IF i = 1 THEN seqs[i] ELSE f[i - 1] \o seqs[i]

LEMMA JoinedAt ==
  ASSUME NEW f, NEW seqs, NEW n \in Nat, Joined(f, seqs, n + 1)
  PROVE  f[n + 1] = IF n = 0 THEN seqs[n + 1] ELSE f[n] \o seqs[n + 1]
<1>1. n + 1 \in 1 .. n + 1 /\ n + 1 - 1 = n /\ (n + 1 = 1 <=> n = 0)
  BY SMT
<1>2. f[n + 1] = IF n + 1 = 1 THEN seqs[n + 1] ELSE f[n + 1 - 1] \o seqs[n + 1]
  BY <1>1, SMT DEF Joined
<1> QED BY <1>1, <1>2

LEMMA JoinedExists ==
  ASSUME NEW W, NEW seqs \in Seq(Seq(W))
  PROVE  \E f \in [1 .. Len(seqs) -> Seq(W)] : Joined(f, seqs, Len(seqs))
<1> DEFINE T == {n \in Nat : n <= Len(seqs) =>
                   \E f \in [1 .. n -> Seq(W)] : Joined(f, seqs, n)}
<1>1. 0 \in T
  <2>1. [i \in 1 .. 0 |-> <<>>] \in [1 .. 0 -> Seq(W)]
    OBVIOUS
  <2>2. Joined([i \in 1 .. 0 |-> <<>>], seqs, 0)
    BY SMT DEF Joined
  <2> QED BY <2>1, <2>2
<1>2. ASSUME NEW n \in Nat, n \in T PROVE n + 1 \in T
  <2>1. SUFFICES ASSUME n + 1 <= Len(seqs)
                 PROVE  \E g \in [1 .. n + 1 -> Seq(W)] : Joined(g, seqs, n + 1)
    OBVIOUS
  <2>2. n <= Len(seqs)
    BY <2>1, SMT
  <2>3. PICK f \in [1 .. n -> Seq(W)] : Joined(f, seqs, n)
    BY <1>2, <2>2
  <2> DEFINE new == IF n + 1 = 1 THEN seqs[n + 1] ELSE f[n] \o seqs[n + 1]
             g == [i \in 1 .. n + 1 |-> IF i = n + 1 THEN new ELSE f[i]]
  <2>4. seqs[n + 1] \in Seq(W)
    BY <2>1, SMT
  <2>5. new \in Seq(W)
    <3>1. CASE n = 0
      BY <3>1, <2>4
    <3>2. CASE n # 0
      <4>1. f[n] \in Seq(W)
        BY <3>2, SMT
      <4> QED BY <4>1, <2>4, <3>2, SMT
    <3> QED BY <3>1, <3>2
  <2>6. g \in [1 .. n + 1 -> Seq(W)]
    <3> HIDE DEF new
    <3>1. \A i \in 1 .. n + 1 : i # n + 1 => f[i] \in Seq(W)
      BY SMT
    <3> QED BY <3>1, <2>5
  <2>7. Joined(g, seqs, n + 1)
    <3>1. SUFFICES ASSUME NEW i \in 1 .. n + 1
                   PROVE  g[i] = IF i = 1 THEN seqs[i] ELSE g[i - 1] \o seqs[i]
      BY DEF Joined
    <3>2. CASE i = n + 1
      <4>1. g[i] = new
        BY <3>2
      <4>2. i # 1 => g[i - 1] = f[n]
        BY <3>2, SMT
      <4> QED BY <4>1, <4>2, <3>2
    <3>3. CASE i # n + 1
      <4>1. i \in 1 .. n
        BY <3>3, SMT
      <4>2. g[i] = f[i]
        BY <3>3
      <4>3. i # 1 => g[i - 1] = f[i - 1]
        BY <4>1, SMT
      <4> QED BY <4>1, <4>2, <4>3, <2>3 DEF Joined
    <3> QED BY <3>2, <3>3
  <2> QED BY <2>6, <2>7
<1> HIDE DEF T
<1>3. Nat \subseteq T
  BY <1>1, <1>2, NatSetInduction
<1>4. Len(seqs) \in T
  BY <1>3, LenProperties
<1> QED BY <1>4 DEF T

LEMMA JoinedUnique ==
  ASSUME NEW seqs, Len(seqs) \in Nat,
         NEW f, NEW g, Joined(f, seqs, Len(seqs)), Joined(g, seqs, Len(seqs))
  PROVE  \A i \in 1 .. Len(seqs) : f[i] = g[i]
<1> DEFINE T == {n \in Nat : n \in 1 .. Len(seqs) => f[n] = g[n]}
<1>1. 0 \in T
  BY SMT
<1>2. ASSUME NEW n \in Nat, n \in T PROVE n + 1 \in T
  <2>1. SUFFICES ASSUME n + 1 \in 1 .. Len(seqs) PROVE f[n + 1] = g[n + 1]
    OBVIOUS
  <2>2. n + 1 - 1 = n /\ (n + 1 = 1 <=> n = 0)
    BY SMT
  <2>3. n # 0 => n \in 1 .. Len(seqs)
    BY <2>1, SMT
  <2>4. n # 0 => f[n] = g[n]
    BY <2>3, <1>2
  <2> QED BY <2>1, <2>2, <2>4 DEF Joined
<1> HIDE DEF T
<1>3. Nat \subseteq T
  BY <1>1, <1>2, NatSetInduction
<1> QED BY <1>3, SMT DEF T

LEMMA FlattenSeqIs ==
  ASSUME NEW W, NEW seqs \in Seq(Seq(W)), seqs # <<>>,
         NEW f, f = [i \in 1 .. Len(seqs) |-> f[i]], Joined(f, seqs, Len(seqs))
  PROVE  FlattenSeq(seqs) = f[Len(seqs)]
<1> DEFINE c == CHOOSE h : h = [i \in 1 .. Len(seqs) |->
                                  IF i = 1 THEN seqs[i] ELSE h[i - 1] \o seqs[i]]
<1>1. f = [i \in 1 .. Len(seqs) |-> IF i = 1 THEN seqs[i] ELSE f[i - 1] \o seqs[i]]
  BY Zenon DEF Joined
<1>2. c = [i \in 1 .. Len(seqs) |-> IF i = 1 THEN seqs[i] ELSE c[i - 1] \o seqs[i]]
  BY <1>1, Zenon
<1>3. Len(seqs) \in Nat /\ Len(seqs) # 0
  BY LenProperties, EmptySeq
<1>4. FlattenSeq(seqs) = c[Len(seqs)]
  BY <1>3, Zenon DEF FlattenSeq
<1> HIDE DEF c
<1>5. Joined(c, seqs, Len(seqs))
  BY <1>2, Zenon DEF Joined
<1>6. \A i \in 1 .. Len(seqs) : c[i] = f[i]
  <2> HIDE DEF Joined
  <2> QED BY <1>5, <1>3, JoinedUnique, SMT
<1>7. Len(seqs) \in 1 .. Len(seqs)
  BY <1>3, SMT
<1> QED BY <1>4, <1>6, <1>7

LEMMA FlattenEmpty == FlattenSeq(<<>>) = <<>>
BY SMT DEF FlattenSeq

LEMMA FlattenType ==
  ASSUME NEW W, NEW seqs \in Seq(Seq(W))
  PROVE  FlattenSeq(seqs) \in Seq(W)
<1>1. CASE seqs = <<>>
  <2>1. FlattenSeq(seqs) = <<>>
    BY <1>1, FlattenEmpty, Zenon
  <2>2. <<>> \in Seq(W)
    BY EmptySeq, Zenon
  <2> QED BY <2>1, <2>2, Zenon
<1>2. CASE seqs # <<>>
  <2>1. PICK f \in [1 .. Len(seqs) -> Seq(W)] : Joined(f, seqs, Len(seqs))
    BY JoinedExists
  <2>2. f = [i \in 1 .. Len(seqs) |-> f[i]]
    OBVIOUS
  <2>3. FlattenSeq(seqs) = f[Len(seqs)]
    BY <1>2, <2>1, <2>2, FlattenSeqIs
  <2>4. Len(seqs) \in 1 .. Len(seqs)
    BY <1>2, EmptySeq, LenProperties, SMT
  <2> QED BY <2>3, <2>4
<1> QED BY <1>1, <1>2

(* FlattenSeq joins one sequence more. *)
LEMMA FlattenAppend ==
  ASSUME NEW W, NEW seqs \in Seq(Seq(W)), NEW last \in Seq(W)
  PROVE  FlattenSeq(Append(seqs, last)) = FlattenSeq(seqs) \o last
<1> DEFINE more == Append(seqs, last)
           n == Len(seqs)
<1>1. n \in Nat
  BY LenProperties
<1>2. /\ more \in Seq(Seq(W)) /\ Len(more) = n + 1 /\ more[n + 1] = last
      /\ \A i \in 1 .. n : more[i] = seqs[i]
  BY AppendProperties
<1>3. PICK f \in [1 .. Len(more) -> Seq(W)] : Joined(f, more, Len(more))
  <2> HIDE DEF more
  <2> QED BY <1>2, JoinedExists
<1>4. FlattenSeq(more) = f[n + 1]
  <2>1. more # <<>>
    BY <1>1, <1>2, EmptySeq, SMT
  <2>2. f = [i \in 1 .. Len(more) |-> f[i]]
    OBVIOUS
  <2> HIDE DEF more
  <2> QED BY <1>2, <1>3, <2>1, <2>2, FlattenSeqIs
<1>5. f[n + 1] = IF n = 0 THEN last ELSE f[n] \o last
  <2>1. Joined(f, more, n + 1)
    BY <1>2, <1>3
  <2>2. more[n + 1] = last
    BY <1>2
  <2> HIDE DEF more, n
  <2> QED BY <1>1, <2>1, <2>2, JoinedAt
<1>6. CASE seqs = <<>>
  <2>1. n = 0 /\ FlattenSeq(seqs) = <<>>
    BY <1>6, FlattenEmpty, EmptySeq
  <2>2. <<>> \o last = last
    BY ConcatEmptySeq
  <2> HIDE DEF more, n
  <2>4. FlattenSeq(more) = last
    BY <1>4, <1>5, <2>1
  <2> QED BY <2>1, <2>2, <2>4 DEF more
<1>7. CASE seqs # <<>>
  <2> DEFINE g == [i \in 1 .. n |-> f[i]]
  <2>1. n # 0
    BY <1>7, EmptySeq
  <2>2. Joined(g, seqs, n)
    <3>1. SUFFICES ASSUME NEW i \in 1 .. n
                   PROVE  g[i] = IF i = 1 THEN seqs[i] ELSE g[i - 1] \o seqs[i]
      BY DEF Joined
    <3> HIDE DEF more
    <3>2. i \in 1 .. Len(more)
      BY <1>1, <1>2, SMT
    <3>3. f[i] = IF i = 1 THEN more[i] ELSE f[i - 1] \o more[i]
      BY <1>3, <3>2 DEF Joined
    <3>4. i # 1 => g[i - 1] = f[i - 1]
      BY <1>1, SMT
    <3>5. g[i] = f[i] /\ more[i] = seqs[i]
      BY <1>2
    <3> HIDE DEF g
    <3> QED BY <3>3, <3>4, <3>5
  <2>3. g = [i \in 1 .. n |-> g[i]]
    OBVIOUS
  <2>4. FlattenSeq(seqs) = g[n]
    <3> HIDE DEF g, more
    <3> QED BY <1>7, <2>2, <2>3, FlattenSeqIs
  <2>5. g[n] = f[n]
    BY <1>1, <2>1, SMT
  <2> HIDE DEF g, more, n
  <2>7. FlattenSeq(more) = f[n] \o last
    BY <1>4, <1>5, <2>1
  <2> QED BY <2>4, <2>5, <2>7 DEF more
<1> QED BY <1>6, <1>7


(***************************************************************************)
(* The invariant.                                                          *)
(***************************************************************************)
Word == SUBSET (0 .. 24)
Reached == {"assembling", "listing", "listed", "done", "refused", "died"}

(* The words of the entries, one after another. *)
WordsListed == [k \in DOMAIN listing |-> listing[k].words]

Typed ==
  /\ file \in Seq(Word)
  /\ cur_op \in [1 .. 4 -> Word]
  /\ cur_addr \in Nat
  /\ listing \in Seq(Range(listing))
  /\ \A k \in DOMAIN listing : listing[k].words \in Seq(Word)
  /\ status \in Reached
  /\ again \in BOOLEAN

(* A listing is made once, of the first file. *)
Once ==
  /\ again => status \notin {"listing", "listed"}
  /\ ~again /\ status = "assembling" => cur_addr = 0 /\ listing = <<>>

(* What was listed is the file up to the current address, and more than the
   file if the last operation was cut off. *)
ListedSoFar ==
  status \in {"listing", "listed"} =>
    IF cur_addr <= Len(file)
    THEN FlattenSeq(WordsListed) = SubSeq(file, 1, cur_addr)
    ELSE IsPrefix(file, FlattenSeq(WordsListed))
ListedToTheEnd == status = "listed" => AtEnd

ListInv == Typed /\ Once /\ ListedSoFar /\ ListedToTheEnd

(***************************************************************************)
(* What the assembler writes.                                              *)
(***************************************************************************)
LEMMA OpLenType == \A word : OpLen(word) \in {1, 2, 4}
BY DEF OpLen

LEMMA FormLen == \A form \in Forms : form.len \in {1, 2, 4}
BY DEF Forms

LEMMA WordsOfType ==
  ASSUME NEW bits, NEW len \in {1, 2, 4}
  PROVE  WordsOf(bits, len) \in Seq(Word) /\ Len(WordsOf(bits, len)) = len
<1>1. WordsOf(bits, len) \in [1 .. len -> Word]
  BY DEF WordsOf, Word
<1>2. len \in Nat
  OBVIOUS
<1> HIDE DEF Word
<1> QED BY <1>1, <1>2, SMT

(* What is chosen for a line is an operation of its name and of a length that
   it allows, and the first that takes it. *)
LEMMA Chosen ==
  ASSUME NEW line, NEW c \in Choice(line)
  PROVE  \E form \in Forms : \E k \in LayoutFits(line, form) :
           /\ c = [form |-> form, alt |-> form.layout[k]]
           /\ form.name = line.op /\ MdfrFits(line, form)
           /\ form.len \in AllowedLens(line)
           /\ \A d \in OpFits(line) :
                LET own == [form |-> form, alt |-> k]
                IN own = d \/ Before(own, d)
<1>1. PICK own \in OpFits(line) :
        /\ c = [form |-> own.form, alt |-> own.form.layout[own.alt]]
        /\ \A d \in OpFits(line) : own = d \/ Before(own, d)
  BY Zenon DEF Choice, First
<1>2. PICK form \in (IF line.op \in Names THEN Named[line.op] ELSE {}) :
        /\ MdfrFits(line, form) /\ form.len \in AllowedLens(line)
        /\ own \in Found(form, LayoutFits(line, form))
  BY Zenon DEF OpFits
<1>3. PICK k \in LayoutFits(line, form) : own = [form |-> form, alt |-> k]
  BY <1>2, Zenon DEF Found
<1>4. form \in Forms /\ form.name = line.op
  <2>1. line.op \in Names /\ form \in Named[line.op]
    BY <1>2, Zenon
  <2>2. Named[line.op] = {f \in Forms : f.name = line.op}
    BY <2>1, Zenon DEF Named
  <2> QED BY <2>1, <2>2
<1>5. own.form = form /\ own.alt = k
  BY <1>3
<1> QED BY <1>1, <1>2, <1>3, <1>4, <1>5, Zenon

LEMMA WrittenType ==
  ASSUME NEW line, NEW c \in Choice(line)
  PROVE  c.form.len \in {1, 2, 4} /\ c.form.len \in AllowedLens(line)
<1>1. PICK form \in Forms : c.form = form /\ form.len \in AllowedLens(line)
  <2>1. PICK form \in Forms : \E k \in LayoutFits(line, form) :
           c = [form |-> form, alt |-> form.layout[k]] /\ form.len \in AllowedLens(line)
    BY Chosen, Zenon
  <2> QED BY <2>1
<1> QED BY <1>1, FormLen

(***************************************************************************)
(* The listing is the file.                                                *)
(***************************************************************************)
LEMMA ListingIsSeq ==
  ASSUME Typed
  PROVE  /\ Len(listing) \in Nat /\ DOMAIN listing = 1 .. Len(listing)
         /\ WordsListed \in Seq(Seq(Word))
         /\ Len(WordsListed) = Len(listing)
<1>1. listing \in Seq(Range(listing))
  BY DEF Typed
<1>2. Len(listing) \in Nat /\ DOMAIN listing = 1 .. Len(listing)
  BY <1>1, LenProperties
<1>3. \A k \in DOMAIN listing : listing[k].words \in Seq(Word)
  BY DEF Typed
<1>4. WordsListed \in [1 .. Len(listing) -> Seq(Word)]
  BY <1>2, <1>3 DEF WordsListed
<1> QED BY <1>2, <1>4, SMT

(* A listing with one entry more. *)
LEMMA OneEntryMore ==
  ASSUME Typed, NEW entry, entry.words \in Seq(Word),
         listing' = Append(listing, entry)
  PROVE  /\ listing' \in Seq(Range(listing'))
         /\ Len(listing') = Len(listing) + 1
         /\ DOMAIN listing' = 1 .. Len(listing) + 1
         /\ \A k \in 1 .. Len(listing) : listing'[k] = listing[k]
         /\ listing'[Len(listing) + 1] = entry
         /\ \A k \in DOMAIN listing' : listing'[k].words \in Seq(Word)
         /\ WordsListed' = Append(WordsListed, entry.words)
<1> DEFINE All == Range(listing) \union {entry}
           n == Len(listing)
<1>1. n \in Nat /\ DOMAIN listing = 1 .. n
  BY ListingIsSeq
<1>2. listing \in Seq(All)
  <2>1. listing \in Seq(Range(listing))
    BY DEF Typed
  <2>2. Range(listing) \subseteq All
    OBVIOUS
  <2> HIDE DEF All
  <2> QED BY <2>1, <2>2, SeqMonotonic
<1>3. entry \in All
  OBVIOUS
<1>4. /\ listing' \in Seq(All) /\ Len(listing') = n + 1
      /\ listing'[n + 1] = entry
      /\ \A k \in 1 .. n : listing'[k] = listing[k]
  <2> HIDE DEF All
  <2> QED BY <1>2, <1>3, AppendProperties
<1>5. listing' \in Seq(Range(listing'))
  <2>1. listing' = [k \in 1 .. n + 1 |-> listing'[k]] /\ DOMAIN listing' = 1 .. n + 1
    <3> HIDE DEF All, n
    <3> QED BY <1>4, SeqIsFunction
  <2>2. n + 1 \in Nat
    BY <1>1, SMT
  <2>3. \A k \in 1 .. n + 1 : listing'[k] \in Range(listing')
    BY <2>1 DEF Range
  <2> HIDE DEF n
  <2>4. listing' \in [1 .. n + 1 -> Range(listing')]
    BY <2>1, <2>3
  <2> QED BY <2>2, <2>4, FunctionIsSeq
<1>6. DOMAIN listing' = 1 .. n + 1
  <2> HIDE DEF All, n
  <2> QED BY <1>1, <1>4, SMT
<1>7. \A k \in 1 .. n : listing[k].words \in Seq(Word)
  BY <1>1 DEF Typed
<1>8. \A k \in DOMAIN listing' : listing'[k].words \in Seq(Word)
  <2> SUFFICES ASSUME NEW k \in 1 .. n + 1 PROVE listing'[k].words \in Seq(Word)
    BY <1>6
  <2>1. CASE k = n + 1
    BY <2>1, <1>4
  <2>2. CASE k # n + 1
    <3>1. k \in 1 .. n
      BY <2>2, <1>1, SMT
    <3> QED BY <3>1, <1>4, <1>7
  <2> QED BY <2>1, <2>2
<1>9. WordsListed' = Append(WordsListed, entry.words)
  <2>1. /\ WordsListed \in Seq(Seq(Word)) /\ Len(WordsListed) = n
    BY ListingIsSeq
  <2>2. /\ Append(WordsListed, entry.words) \in Seq(Seq(Word))
        /\ Len(Append(WordsListed, entry.words)) = n + 1
        /\ Append(WordsListed, entry.words)[n + 1] = entry.words
        /\ \A k \in 1 .. n : Append(WordsListed, entry.words)[k] = WordsListed[k]
    BY <2>1, AppendProperties
  <2>3. WordsListed' = [k \in 1 .. n + 1 |-> listing'[k].words]
    BY <1>6 DEF WordsListed
  <2>4. \A k \in 1 .. n : WordsListed[k] = listing[k].words
    BY <1>1 DEF WordsListed
  <2> DEFINE more == Append(WordsListed, entry.words)
  <2>5. more = [k \in 1 .. n + 1 |-> more[k]]
    <3> HIDE DEF n, more
    <3> QED BY <2>2, <1>1, SMT DEF more
  <2>6. \A k \in 1 .. n + 1 : more[k] = listing'[k].words
    <3> SUFFICES ASSUME NEW k \in 1 .. n + 1 PROVE more[k] = listing'[k].words
      OBVIOUS
    <3>1. CASE k = n + 1
      BY <3>1, <1>4, <2>2
    <3>2. CASE k # n + 1
      <4>1. k \in 1 .. n
        BY <3>2, <1>1, SMT
      <4> QED BY <4>1, <1>4, <2>2, <2>4
    <3> QED BY <3>1, <3>2
  <2> HIDE DEF more, n
  <2>7. more = WordsListed'
    BY <2>3, <2>5, <2>6
  <2> QED BY <2>7 DEF more
<1> QED BY <1>4, <1>5, <1>6, <1>8, <1>9

(* The words of the operation that is listed: those of the file from the
   current address on, and others only where the file has ended. *)
LEMMA WordsAt ==
  ASSUME Typed, ~AtEnd, cur_op' = OpAt
  PROVE  LET len == OpLen(cur_op'[1])
             words == SubSeq(cur_op', 1, len)
         IN /\ len \in {1, 2, 4}
            /\ cur_op' \in [1 .. 4 -> Word]
            /\ words \in Seq(Word) /\ Len(words) = len
            /\ \A i \in 1 .. len :
                 cur_addr + i <= Len(file) => words[i] = file[cur_addr + i]
            /\ cur_addr < Len(file) /\ cur_addr \in Nat /\ Len(file) \in Nat
<1>1. file \in Seq(Word) /\ cur_addr \in Nat /\ cur_op \in [1 .. 4 -> Word]
  BY DEF Typed
<1>2. Len(file) \in Nat
  BY <1>1, LenProperties
<1>3. cur_addr < Len(file)
  BY <1>1, <1>2, SMT DEF AtEnd
<1>4. \A i \in 1 .. 4 : cur_op'[i] =
        IF i <= OpLen(file[cur_addr + 1]) /\ cur_addr + i <= Len(file)
        THEN file[cur_addr + i] ELSE cur_op[i]
  BY DEF OpAt
<1>5. cur_op' \in [1 .. 4 -> Word]
  <2>1. \A i \in 1 .. 4 : cur_addr + i <= Len(file) => file[cur_addr + i] \in Word
    <3> HIDE DEF Word
    <3> QED BY <1>1, <1>2, SMT
  <2>2. cur_op' = [i \in 1 .. 4 |-> cur_op'[i]]
    BY DEF OpAt
  <2>3. \A i \in 1 .. 4 : cur_op'[i] \in Word
    <3> HIDE DEF Word
    <3> QED BY <1>1, <1>4, <2>1
  <2> HIDE DEF Word
  <2> QED BY <2>2, <2>3
<1> DEFINE len == OpLen(file[cur_addr + 1])
<1>6. len \in {1, 2, 4}
  BY OpLenType
<1>7. cur_op'[1] = file[cur_addr + 1]
  <2> HIDE DEF len
  <2> QED BY <1>1, <1>2, <1>3, <1>4, <1>6, SMT DEF len
<1> DEFINE words == SubSeq(cur_op', 1, len)
<1>8. /\ words \in Seq(Word) /\ Len(words) = len
      /\ \A i \in 1 .. len : words[i] = cur_op'[i]
  <2> HIDE DEF Word, len
  <2> PICK op : op = cur_op'
    OBVIOUS
  <2>1. op \in [1 .. 4 -> Word]
    BY <1>5
  <2>2. len \in Int /\ 1 \in Int /\ len - 1 + 1 = len /\ 1 <= len
        /\ \A i \in 1 .. len : i \in 1 .. 4 /\ 1 + i - 1 = i
    BY <1>6, SMT
  <2>3. \A i \in 1 .. len : op[i] \in Word
    BY <2>1, <2>2
  <2>4. /\ SubSeq(op, 1, len) \in Seq(Word)
        /\ Len(SubSeq(op, 1, len)) = IF 1 <= len THEN len - 1 + 1 ELSE 0
        /\ \A i \in 1 .. len - 1 + 1 : SubSeq(op, 1, len)[i] = op[1 + i - 1]
    BY <2>2, <2>3, SubSeqProperties
  <2>5. \A i \in 1 .. len : SubSeq(op, 1, len)[i] = op[i]
    BY <2>2, <2>4, SMT
  <2> QED BY <2>2, <2>4, <2>5
<1>9. \A i \in 1 .. len : cur_addr + i <= Len(file) => words[i] = file[cur_addr + i]
  <2> HIDE DEF Word, words
  <2>1. \A i \in 1 .. len : i \in 1 .. 4 /\ i <= len
    BY <1>6, SMT
  <2> QED BY <2>1, <1>4, <1>8
<1> HIDE DEF Word, words, len
<1> QED BY <1>1, <1>2, <1>3, <1>5, <1>6, <1>7, <1>8, <1>9 DEF words, len

(* A sequence that agrees with another as far as both go. *)
LEMMA FirstPart ==
  ASSUME NEW V, NEW f \in Seq(V), NEW n \in 0 .. Len(f)
  PROVE  /\ SubSeq(f, 1, n) \in Seq(V) /\ Len(SubSeq(f, 1, n)) = n
         /\ \A i \in 1 .. n : SubSeq(f, 1, n)[i] = f[i]
<1>1. Len(f) \in Nat /\ \A i \in 1 .. Len(f) : f[i] \in V
  BY SeqIsFunction
<1>2. /\ n \in Int /\ 1 \in Int /\ n - 1 + 1 = n /\ (1 <= n <=> n # 0)
      /\ \A i \in 1 .. n : i \in 1 .. Len(f) /\ 1 + i - 1 = i
  BY <1>1, SMT
<1>3. \A i \in 1 .. n : f[i] \in V
  BY <1>1, <1>2
<1>4. /\ SubSeq(f, 1, n) \in Seq(V)
      /\ Len(SubSeq(f, 1, n)) = IF 1 <= n THEN n - 1 + 1 ELSE 0
      /\ \A i \in 1 .. n - 1 + 1 : SubSeq(f, 1, n)[i] = f[1 + i - 1]
  BY <1>2, <1>3, SubSeqProperties
<1>5. Len(SubSeq(f, 1, n)) = n
  BY <1>2, <1>4
<1>6. \A i \in 1 .. n : SubSeq(f, 1, n)[i] = f[i]
  BY <1>2, <1>4, SMT
<1> QED BY <1>4, <1>5, <1>6

LEMMA Agreeing ==
  ASSUME NEW V, NEW f \in Seq(V), NEW g \in Seq(V),
         \A i \in 1 .. Len(g) : i <= Len(f) => g[i] = f[i]
  PROVE  /\ Len(g) <= Len(f) => g = SubSeq(f, 1, Len(g))
         /\ Len(f) <= Len(g) => IsPrefix(f, g)
<1>1. Len(f) \in Nat /\ Len(g) \in Nat
  BY SeqIsFunction
<1>2. ASSUME Len(g) <= Len(f) PROVE g = SubSeq(f, 1, Len(g))
  <2>1. Len(g) \in 0 .. Len(f)
    BY <1>1, <1>2, SMT
  <2> DEFINE part == SubSeq(f, 1, Len(g))
  <2>2. /\ part \in Seq(V) /\ Len(part) = Len(g)
        /\ \A i \in 1 .. Len(g) : part[i] = f[i]
    BY <2>1, FirstPart
  <2>3. \A i \in 1 .. Len(g) : i <= Len(f)
    BY <1>1, <1>2, SMT
  <2>4. \A i \in 1 .. Len(g) : g[i] = part[i]
    BY <2>2, <2>3
  <2> HIDE DEF part
  <2>5. g = part
    BY <2>2, <2>4, SeqEqual
  <2> QED BY <2>5 DEF part
<1>3. ASSUME Len(f) <= Len(g) PROVE IsPrefix(f, g)
  <2>1. Len(f) \in 0 .. Len(f) /\ Len(f) \in 0 .. Len(g)
    BY <1>1, <1>3, SMT
  <2> DEFINE part == SubSeq(f, 1, Len(f))
             other == SubSeq(g, 1, Len(f))
  <2>2. /\ part \in Seq(V) /\ Len(part) = Len(f)
        /\ \A i \in 1 .. Len(f) : part[i] = f[i]
    BY <2>1, FirstPart
  <2>3. /\ other \in Seq(V) /\ Len(other) = Len(f)
        /\ \A i \in 1 .. Len(f) : other[i] = g[i]
    BY <2>1, FirstPart
  <2>4. \A i \in 1 .. Len(f) : i \in 1 .. Len(g) /\ i <= Len(f)
    BY <1>1, <1>3, SMT
  <2>5. \A i \in 1 .. Len(part) : part[i] = other[i]
    BY <2>2, <2>3, <2>4
  <2> HIDE DEF part, other
  <2>6. part = other
    BY <2>2, <2>3, <2>5, SeqEqual
  <2> QED BY <1>3, <2>6 DEF part, other, IsPrefix
<1> QED BY <1>2, <1>3

(* A listing that agrees with the file still does with one operation more. *)
Follows(f, n, more) ==
  \A i \in 1 .. Len(more) : n + i <= Len(f) => more[i] = f[n + i]

LEMMA OneOpMore ==
  ASSUME NEW f \in Seq(Word), NEW done \in Seq(Word), NEW more \in Seq(Word),
         NEW n \in Nat, n < Len(f), done = SubSeq(f, 1, n), Follows(f, n, more)
  PROVE  /\ Len(done \o more) = n + Len(more)
         /\ n + Len(more) <= Len(f) => done \o more = SubSeq(f, 1, n + Len(more))
         /\ Len(f) <= n + Len(more) => IsPrefix(f, done \o more)
<1>1. Len(f) \in Nat /\ Len(more) \in Nat
  BY SeqIsFunction
<1>2. n \in 0 .. Len(f)
  BY <1>1, SMT
<1>3. Len(done) = n /\ \A i \in 1 .. n : done[i] = f[i]
  BY <1>2, FirstPart
<1> DEFINE all == done \o more
<1>4. /\ all \in Seq(Word) /\ Len(all) = n + Len(more)
      /\ \A i \in 1 .. n + Len(more) :
           all[i] = IF i <= n THEN done[i] ELSE more[i - n]
  <2>1. /\ all \in Seq(Word) /\ Len(all) = Len(done) + Len(more)
        /\ \A i \in 1 .. Len(done) + Len(more) :
             all[i] = IF i <= Len(done) THEN done[i] ELSE more[i - Len(done)]
    BY ConcatProperties, Zenon
  <2> HIDE DEF all
  <2> QED BY <1>3, <2>1, Zenon
<1> HIDE DEF all
<1>5. ASSUME NEW i \in 1 .. Len(all), i <= Len(f) PROVE all[i] = f[i]
  <2>0. i \in 1 .. n + Len(more)
    BY <1>4
  <2>1. CASE i <= n
    <3>1. i \in 1 .. n
      BY <2>0, <2>1, SMT
    <3> QED BY <1>3, <1>4, <2>0, <2>1, <3>1
  <2>2. CASE ~(i <= n)
    <3> PICK k : k = i - n
      OBVIOUS
    <3>1. k \in 1 .. Len(more) /\ n + k = i
      BY <2>0, <2>2, <1>1, SMT
    <3>2. all[i] = more[k]
      BY <1>4, <2>0, <2>2
    <3> QED BY <1>5, <3>1, <3>2 DEF Follows
  <2> QED BY <2>1, <2>2
<1>6. /\ Len(all) <= Len(f) => all = SubSeq(f, 1, Len(all))
      /\ Len(f) <= Len(all) => IsPrefix(f, all)
  BY <1>4, <1>5, Agreeing
<1> QED BY <1>4, <1>6 DEF all

(* One step of the disassembler. *)
LEMMA ListOpEntry ==
  ASSUME Typed, ListOp
  PROVE  \E len \in {1, 2, 4} : \E entry :
           /\ listing' = Append(listing, entry)
           /\ entry.words \in Seq(Word) /\ Len(entry.words) = len
           /\ entry.addr = cur_addr /\ cur_addr' = cur_addr + len
           /\ entry.item \in Shown(BitsOf(cur_op')) /\ len = OpLen(cur_op'[1])
           /\ cur_op' \in [1 .. 4 -> Word]
           /\ \A i \in 1 .. len :
                cur_addr + i <= Len(file) => entry.words[i] = file[cur_addr + i]
           /\ cur_addr < Len(file)
<1>1. ~AtEnd /\ cur_op' = OpAt /\ cur_addr' = cur_addr + OpLen(cur_op'[1])
  BY DEF ListOp
<1>2. PICK len : len = OpLen(cur_op'[1])
  OBVIOUS
<1>3. PICK words : words = SubSeq(cur_op', 1, len)
  OBVIOUS
<1>4. /\ len \in {1, 2, 4} /\ cur_op' \in [1 .. 4 -> Word]
      /\ words \in Seq(Word) /\ Len(words) = len
      /\ \A i \in 1 .. len : cur_addr + i <= Len(file) => words[i] = file[cur_addr + i]
      /\ cur_addr < Len(file)
  BY <1>1, <1>2, <1>3, WordsAt
<1>5. PICK item \in Shown(BitsOf(cur_op')) :
        listing' = Append(listing,
          [addr |-> cur_addr, item |-> item, target |-> Target(BitsOf(cur_op')), words |-> words])
  BY <1>2, <1>3, Zenon DEF ListOp
<1>e. PICK entry : entry = [addr |-> cur_addr, item |-> item,
                          target |-> Target(BitsOf(cur_op')), words |-> words]
  OBVIOUS
<1>6. /\ entry.words = words /\ entry.addr = cur_addr /\ entry.item = item
      /\ listing' = Append(listing, entry)
  BY <1>e, <1>5
<1>7. /\ listing' = Append(listing, entry)
      /\ entry.words \in Seq(Word) /\ Len(entry.words) = len
      /\ entry.addr = cur_addr /\ cur_addr' = cur_addr + len
      /\ entry.item \in Shown(BitsOf(cur_op')) /\ len = OpLen(cur_op'[1])
      /\ cur_op' \in [1 .. 4 -> Word]
      /\ \A i \in 1 .. len :
           cur_addr + i <= Len(file) => entry.words[i] = file[cur_addr + i]
      /\ cur_addr < Len(file)
  BY <1>1, <1>2, <1>4, <1>6
<1> QED BY <1>4, <1>7, Zenon

LEMMA ListOpKeeps ==
  ASSUME ListInv, ListOp
  PROVE  ListInv'
<1>0. Typed /\ Once /\ ListedSoFar
  BY DEF ListInv
<1>a. PICK len \in {1, 2, 4} : \E entry :
        /\ listing' = Append(listing, entry)
        /\ entry.words \in Seq(Word) /\ Len(entry.words) = len
        /\ cur_addr' = cur_addr + len
        /\ cur_op' \in [1 .. 4 -> Word]
        /\ \A i \in 1 .. len :
             cur_addr + i <= Len(file) => entry.words[i] = file[cur_addr + i]
        /\ cur_addr < Len(file)
  BY <1>0, ListOpEntry
<1>1. PICK entry :
        /\ listing' = Append(listing, entry)
        /\ entry.words \in Seq(Word) /\ Len(entry.words) = len
        /\ cur_addr' = cur_addr + len
        /\ cur_op' \in [1 .. 4 -> Word]
        /\ \A i \in 1 .. len :
             cur_addr + i <= Len(file) => entry.words[i] = file[cur_addr + i]
        /\ cur_addr < Len(file)
  BY <1>a
<1>2. /\ status = "listing" /\ status' = status /\ file' = file /\ again' = again
  BY DEF ListOp, assembling
<1>3. /\ listing' \in Seq(Range(listing'))
      /\ \A k \in DOMAIN listing' : listing'[k].words \in Seq(Word)
      /\ WordsListed' = Append(WordsListed, entry.words)
  BY <1>0, <1>1, OneEntryMore
<1>4. cur_addr \in Nat /\ file \in Seq(Word) /\ Len(file) \in Nat
  BY <1>0, SeqIsFunction DEF Typed
<1>5. Typed'
  BY <1>0, <1>1, <1>2, <1>3, <1>4 DEF Typed
<1>6. Once'
  BY <1>0, <1>2 DEF Once
<1>7. WordsListed \in Seq(Seq(Word))
  BY <1>0, ListingIsSeq
<1> DEFINE done == FlattenSeq(WordsListed)
<1>8. done \in Seq(Word) /\ FlattenSeq(WordsListed') = done \o entry.words
  BY <1>1, <1>3, <1>7, FlattenType, FlattenAppend
<1>9. done = SubSeq(file, 1, cur_addr)
  BY <1>0, <1>1, <1>2, <1>4 DEF ListedSoFar
<1> HIDE DEF done
<1>10. /\ cur_addr' <= Len(file) => done \o entry.words = SubSeq(file, 1, cur_addr')
       /\ Len(file) <= cur_addr' => IsPrefix(file, done \o entry.words)
  <2>1. PICK words \in Seq(Word) : words = entry.words
    BY <1>1
  <2>2. PICK n \in Nat : n = cur_addr
    BY <1>4
  <2>3. /\ file \in Seq(Word) /\ n < Len(file) /\ done = SubSeq(file, 1, n)
        /\ \A i \in 1 .. Len(words) : n + i <= Len(file) => words[i] = file[n + i]
    BY <1>1, <1>4, <1>9, <2>1, <2>2
  <2>4. /\ n + Len(words) <= Len(file) =>
             done \o words = SubSeq(file, 1, n + Len(words))
        /\ Len(file) <= n + Len(words) => IsPrefix(file, done \o words)
    <3>1. PICK d \in Seq(Word) : d = done
      BY <1>8
    <3>2. PICK f \in Seq(Word) : f = file
      BY <2>3
    <3>3. /\ n < Len(f) /\ d = SubSeq(f, 1, n)
          /\ Follows(f, n, words)
      BY <2>3, <3>1, <3>2 DEF Follows
    <3>4. /\ n + Len(words) <= Len(f) => d \o words = SubSeq(f, 1, n + Len(words))
          /\ Len(f) <= n + Len(words) => IsPrefix(f, d \o words)
      BY <3>3, OneOpMore
    <3> QED BY <3>1, <3>2, <3>4
  <2>5. cur_addr' = n + Len(words)
    BY <1>1, <2>1, <2>2
  <2> QED BY <2>1, <2>4, <2>5
<1>11. ListedSoFar'
  <2>1. cur_addr' <= Len(file) \/ Len(file) <= cur_addr'
    BY <1>1, <1>4, SMT
  <2> QED BY <1>2, <1>8, <1>10, <2>1 DEF ListedSoFar
<1>12. ListedToTheEnd'
  BY <1>2 DEF ListedToTheEnd
<1> QED BY <1>5, <1>6, <1>11, <1>12 DEF ListInv

(* What leaves the listing alone. *)
LEMMA ListingKept ==
  ASSUME ListInv, UNCHANGED listed, file' \in Seq(Word), status' \in Reached,
         again' \in BOOLEAN
  PROVE  Typed' /\ WordsListed' = WordsListed
BY DEF ListInv, Typed, listed, WordsListed

LEMMA AssemblingKeeps ==
  ASSUME ListInv, status = "assembling", UNCHANGED listed, file' \in Seq(Word),
         again' = again,
         status' = status \/ (again /\ status' \in {"done", "refused", "died"})
           \/ (~again /\ status' = "listing")
  PROVE  ListInv'
<1>1. Typed /\ Once /\ again \in BOOLEAN
  BY DEF ListInv, Typed
<1>2. Typed' /\ WordsListed' = WordsListed /\ cur_addr' = cur_addr /\ listing' = listing
  BY <1>1, ListingKept DEF Reached, listed
<1>3. Once'
  BY <1>1, <1>2 DEF Once
<1>4. ListedSoFar'
  <2>1. CASE ~again /\ status' = "listing"
    <3>1. cur_addr' = 0 /\ listing' = <<>>
      BY <1>1, <1>2, <2>1 DEF Once
    <3>2. WordsListed' = <<>>
      BY <3>1 DEF WordsListed
    <3>3. FlattenSeq(WordsListed') = <<>>
      BY <3>2, FlattenEmpty, Zenon
    <3>4. SubSeq(file', 1, 0) = <<>>
      BY SubSeqEmpty
    <3>5. Len(file') \in Nat
      BY SeqIsFunction
    <3> QED BY <3>1, <3>3, <3>4, <3>5 DEF ListedSoFar
  <2>2. CASE ~(~again /\ status' = "listing")
    BY <2>2 DEF ListedSoFar
  <2> QED BY <2>1, <2>2
<1>5. ListedToTheEnd'
  BY DEF ListedToTheEnd
<1> QED BY <1>2, <1>3, <1>4, <1>5 DEF ListInv

(* The words that are written. *)
LEMMA WriteKeeps ==
  ASSUME ListInv, status = "assembling", NEW words \in Seq(Word),
         Write(words)
  PROVE  ListInv'
<1>1. file' = file \o words /\ status' = status /\ again' = again /\ UNCHANGED listed
  BY DEF Write
<1>2. file \in Seq(Word)
  BY DEF ListInv, Typed
<1>3. file' \in Seq(Word)
  BY <1>1, <1>2, ConcatProperties
<1> QED BY <1>1, <1>3, AssemblingKeeps

LEMMA CutShortKeeps ==
  ASSUME ListInv, CutShort
  PROVE  ListInv'
<1>1. /\ status = "listing" /\ cur_addr = 0 /\ UNCHANGED listed
      /\ status' = status /\ again' = again
  BY DEF CutShort
<1>2. PICK n \in 0 .. Len(file) - 1 : file' = SubSeq(file, 1, n)
  BY DEF CutShort
<1>3. file \in Seq(Word) /\ Len(file) \in Nat /\ Once /\ ListedSoFar /\ again \in BOOLEAN
  BY SeqIsFunction DEF ListInv, Typed
<1>4. n \in 0 .. Len(file)
  BY <1>3, SMT
<1>5. file' \in Seq(Word)
  BY <1>2, <1>3, <1>4, FirstPart
<1>6. Typed' /\ WordsListed' = WordsListed /\ cur_addr' = 0
  BY <1>1, <1>3, <1>5, ListingKept DEF Reached, listed
<1>7. Once'
  BY <1>1, <1>3 DEF Once
<1>8. ListedSoFar'
  <2>1. FlattenSeq(WordsListed) = SubSeq(file, 1, 0)
    BY <1>1, <1>3 DEF ListedSoFar
  <2>2. SubSeq(file, 1, 0) = <<>> /\ SubSeq(file', 1, 0) = <<>>
    BY SubSeqEmpty
  <2>3. Len(file') \in Nat
    BY <1>5, SeqIsFunction
  <2> QED BY <1>6, <2>1, <2>2, <2>3 DEF ListedSoFar
<1>9. ListedToTheEnd'
  BY <1>1 DEF ListedToTheEnd
<1> QED BY <1>6, <1>7, <1>8, <1>9 DEF ListInv

LEMMA EndOfFileKeeps ==
  ASSUME ListInv, EndOfFile
  PROVE  ListInv'
<1>1. /\ status = "listing" /\ AtEnd /\ status' = "listed" /\ again' = again
      /\ UNCHANGED listed /\ file' = file
  BY DEF EndOfFile, assembling
<1>2. Typed' /\ WordsListed' = WordsListed
  BY <1>1, ListingKept DEF ListInv, Typed, Reached
<1>3. Once' /\ ListedSoFar' /\ ListedToTheEnd'
  BY <1>1, <1>2 DEF ListInv, Once, ListedSoFar, ListedToTheEnd, AtEnd, listed
<1> QED BY <1>2, <1>3 DEF ListInv

LEMMA ReassembleKeeps ==
  ASSUME ListInv, Reassemble
  PROVE  ListInv'
<1>1. /\ status' = "assembling" /\ again' = TRUE /\ UNCHANGED listed /\ file' = <<>>
  BY DEF Reassemble
<1>2. Typed'
  BY <1>1, ListingKept, EmptySeq DEF Reached
<1> QED BY <1>1, <1>2 DEF ListInv, Once, ListedSoFar, ListedToTheEnd

LEMMA ListInvStep == ListInv /\ [Next]_vars => ListInv'
<1> SUFFICES ASSUME ListInv, [Next]_vars PROVE ListInv'
  OBVIOUS
<1>0. file \in Seq(Word) /\ again \in BOOLEAN
  BY DEF ListInv, Typed
<1>1. CASE AssembleLine
  <2>1. PICK c \in Choice(ReadLine) :
          Write(WordsOf(OpWords(ReadLine, c.form, c.alt), c.form.len))
    BY <1>1 DEF AssembleLine
  <2>2. c.form.len \in {1, 2, 4}
    BY WrittenType
  <2>3. WordsOf(OpWords(ReadLine, c.form, c.alt), c.form.len) \in Seq(Word)
    BY <2>2, WordsOfType
  <2>4. status = "assembling"
    BY <1>1 DEF AssembleLine, Reading
  <2> QED BY <2>1, <2>3, <2>4, WriteKeeps
<1>2. CASE AssembleExplicit \/ WriteZero
  <2>1. status = "assembling" /\ Write(<<{}>>)
    BY <1>2 DEF AssembleExplicit, WriteZero, Reading
  <2>2. <<{}>> \in Seq(Word)
    BY DEF Word
  <2> QED BY <2>1, <2>2, WriteKeeps
<1>3. CASE ReadOn
  <2>1. /\ status = "assembling" /\ status' = status /\ again' = again
        /\ file' = file /\ UNCHANGED listed
    BY <1>3 DEF ReadOn, Reading
  <2> QED BY <1>0, <2>1, AssemblingKeeps
<1>4. CASE EndOfText \/ Refuse
  <2>1. /\ status = "assembling" /\ again' = again /\ file' = file /\ UNCHANGED listed
        /\ \E end \in {"done", "refused"} : status' = IF again THEN end ELSE "listing"
    BY <1>4 DEF EndOfText, Refuse, IsRefused, Reading, Leave, assembling
  <2> QED BY <1>0, <2>1, AssemblingKeeps
<1>5. CASE Die
  <2>1. /\ status = "assembling" /\ again' = again /\ file' = <<>> /\ UNCHANGED listed
        /\ status' = IF again THEN "died" ELSE "listing"
    BY <1>5 DEF Die, Leave
  <2>2. file' \in Seq(Word)
    BY <2>1, EmptySeq
  <2> QED BY <1>0, <2>1, <2>2, AssemblingKeeps
<1>6. CASE UNCHANGED vars
  BY <1>6 DEF vars, ListInv, Typed, Once, ListedSoFar, ListedToTheEnd, AtEnd, WordsListed
<1> QED
  BY <1>1, <1>2, <1>3, <1>4, <1>5, <1>6, CutShortKeeps, ListOpKeeps,
     EndOfFileKeeps, ReassembleKeeps DEF Next

LEMMA ListInvInit == Init => ListInv
<1> SUFFICES ASSUME Init PROVE ListInv
  OBVIOUS
<1>1. /\ cur_op = <<{}, {}, {}, {}>> /\ cur_addr = 0 /\ listing = <<>> /\ again = FALSE
  BY DEF Init
<1>2. PICK n \in 0 .. MaxItems :
        \/ file = <<>> /\ status = "assembling"
        \/ file \in Dumps(n) /\ status = "listing"
  BY DEF Init
<1>3. file \in Seq(Word) /\ status \in {"assembling", "listing"}
  <2>1. CASE file = <<>> /\ status = "assembling"
    BY <2>1, EmptySeq
  <2>2. CASE file \in Dumps(n) /\ status = "listing"
    BY <2>2, DumpsAssumption DEF Word
  <2> QED BY <1>2, <2>1, <2>2
<1>4. Typed
  <2>1. cur_op \in [1 .. 4 -> Word]
    BY <1>1 DEF Word
  <2>2. listing \in Seq(Range(listing)) /\ \A k \in DOMAIN listing : listing[k].words \in Seq(Word)
    BY <1>1
  <2> QED BY <1>1, <1>3, <2>1, <2>2 DEF Typed, Reached
<1>5. Once
  BY <1>1 DEF Once
<1>6. ListedSoFar
  <2>1. WordsListed = <<>>
    BY <1>1 DEF WordsListed
  <2>2. FlattenSeq(WordsListed) = <<>>
    BY <2>1, FlattenEmpty, Zenon
  <2>3. SubSeq(file, 1, 0) = <<>>
    BY SubSeqEmpty
  <2>4. Len(file) \in Nat
    BY <1>3, SeqIsFunction
  <2> QED BY <1>1, <2>2, <2>3, <2>4 DEF ListedSoFar
<1>7. ListedToTheEnd
  BY <1>3 DEF ListedToTheEnd
<1> QED BY <1>4, <1>5, <1>6, <1>7 DEF ListInv

(* Whatever is assembled or comes from elsewhere, and whatever cuts it short:
   what was listed is the file as far as it was read. *)
THEOREM ListInductive == Spec => []ListInv
<1> QED BY ListInvInit, ListInvStep, PTL DEF Spec

LEMMA ListedIsTheFile == ListInv => ListingIsTheFile
<1> SUFFICES ASSUME ListInv, status = "listed"
             PROVE  \/ IsPrefix(file, FlattenSeq(WordsListed))
                    \/ /\ file /= <<>>
                       /\ file = Append(FlattenSeq(WordsListed), file[Len(file)])
                       /\ OpLen(file[Len(file)]) > 1
  BY Zenon DEF ListingIsTheFile, WordsListed
<1> PICK words : words = FlattenSeq(WordsListed)
  OBVIOUS
<1>1. /\ AtEnd /\ file \in Seq(Word) /\ Len(file) \in Nat /\ cur_addr \in Nat
      /\ IF cur_addr <= Len(file) THEN words = SubSeq(file, 1, cur_addr)
                                  ELSE IsPrefix(file, words)
  BY SeqIsFunction DEF ListInv, Typed, ListedSoFar, ListedToTheEnd
<1>2. CASE cur_addr > Len(file)
  BY <1>1, <1>2
<1>3. CASE cur_addr = Len(file)
  <2>1. words = file
    BY <1>1, <1>3, SubSeqFull
  <2> QED BY <2>1, <1>1 DEF IsPrefix
<1>4. CASE cur_addr < Len(file)
  <2>1. cur_addr + 1 = Len(file) /\ OpLen(file[Len(file)]) > 1
    BY <1>1, <1>4, SMT DEF AtEnd
  <2>2. cur_addr \in 0 .. Len(file)
    BY <1>1, <1>4, SMT
  <2>3. /\ words \in Seq(Word) /\ Len(words) = cur_addr
        /\ \A i \in 1 .. cur_addr : words[i] = file[i]
    <3>1. words = SubSeq(file, 1, cur_addr)
      BY <1>1, <1>4
    <3> QED BY <1>1, <2>2, <3>1, FirstPart
  <2> PICK last \in Word : last = file[Len(file)]
    <3>1. Len(file) \in 1 .. Len(file)
      BY <1>1, <2>1, SMT
    <3> QED BY <1>1, <3>1, SeqIsFunction
  <2> DEFINE more == Append(words, last)
  <2>4. /\ more \in Seq(Word) /\ Len(more) = cur_addr + 1 /\ more[cur_addr + 1] = last
        /\ \A i \in 1 .. cur_addr : more[i] = words[i]
    BY <2>3, AppendProperties
  <2> HIDE DEF more
  <2>5. \A i \in 1 .. Len(file) : file[i] = more[i]
    <3> SUFFICES ASSUME NEW i \in 1 .. Len(file) PROVE file[i] = more[i]
      OBVIOUS
    <3>1. CASE i = cur_addr + 1
      BY <2>1, <2>4, <3>1
    <3>2. CASE i # cur_addr + 1
      <4>1. i \in 1 .. cur_addr
        BY <1>1, <2>1, <3>2, SMT
      <4> QED BY <2>3, <2>4, <4>1
    <3> QED BY <3>1, <3>2
  <2>6. file = more
    BY <1>1, <2>1, <2>4, <2>5, SeqEqual
  <2>7. file # <<>>
    BY <1>1, <2>1, EmptySeq, SMT
  <2> QED BY <2>1, <2>6, <2>7 DEF more
<1> QED BY <1>1, <1>2, <1>3, <1>4, SMT

(* The listing is the file, word for word, for every text and every file. *)
THEOREM ListingTheorem == Spec => []ListingIsTheFile
BY ListInductive, ListedIsTheFile, PTL

(***************************************************************************)
(* The numbers of the operations.                                          *)
(***************************************************************************)
(* The names that several operations have. *)
JumpNames  == {"JMP", "CALL"}
MovxNames  == {"MOVX", "MOVX_T1"}
MoveNames  == {"MOV", "MOV_T1", "MOV_T2", "U_MOV_ACC"}
ShiftNames == {"I_CMP", "RO_L", "RO_R", "SH_L", "SH_R", "A_SH_L", "A_SH_R",
               "SH_R_CHK", "SET_BIT", "CLR_BIT", "TGL_BIT"}
SharedNames == JumpNames \union MovxNames \union MoveNames \union ShiftNames

(* The number of any other name that has a layout. *)
Number(name) ==
  IF name \in SharedNames THEN -1 ELSE
  IF name = "NOP" THEN 0 ELSE IF name = "JMPC" THEN 2 ELSE
  IF name = "JMPC_T1" THEN 3 ELSE IF name = "CALL_T1" THEN 5 ELSE
  IF name = "CALL_T2" THEN 6 ELSE IF name = "RET" THEN 7 ELSE
  IF name = "S_JMP" THEN 16 ELSE IF name = "S_JMPC" THEN 17 ELSE
  IF name = "S_JMPC_T1" THEN 18 ELSE IF name = "S_CALL" THEN 19 ELSE
  IF name = "S_CALL_T1" THEN 20 ELSE IF name = "S_CALL_T2" THEN 21 ELSE
  IF name = "RETI" THEN 22 ELSE IF name = "UNK-0x18" THEN 24 ELSE
  IF name = "LOOP-0x19" THEN 25 ELSE IF name = "LOOP-0x10d" THEN 26 ELSE
  IF name = "LOOP-0x01c" THEN 28 ELSE IF name = "LOOP-0x01d" THEN 29 ELSE
  IF name = "INT_CLR" THEN 34 ELSE IF name = "HALT" THEN 35 ELSE
  IF name = "INT_ENABLE" THEN 36 ELSE IF name = "INT_DISABLE" THEN 37 ELSE
  IF name = "LMA_S" THEN 64 ELSE IF name = "LMA_AC_MV_S" THEN 65 ELSE
  IF name = "LMA_AC_S" THEN 66 ELSE IF name = "LNMA_LMA_S" THEN 67 ELSE
  IF name = "LNMA_S" THEN 68 ELSE IF name = "LMS_AC_MV_S" THEN 69 ELSE
  IF name = "LMS_S" THEN 70 ELSE IF name = "LMA_O" THEN 71 ELSE
  IF name = "LMA_AC_MV_O" THEN 72 ELSE IF name = "LMA_AC_O" THEN 73 ELSE
  IF name = "LNMA_LMA_O" THEN 74 ELSE IF name = "LNMA_O" THEN 75 ELSE
  IF name = "U_ADD_S" THEN 76 ELSE IF name = "LMS_O" THEN 77 ELSE
  IF name = "U_ADD3_S" THEN 78 ELSE IF name = "U_SUB_S" THEN 79 ELSE
  IF name = "LMUL_S" THEN 80 ELSE IF name = "U_ADD_O" THEN 82 ELSE
  IF name = "U_ADDC_O" THEN 83 ELSE IF name = "U_SUB_O" THEN 84 ELSE
  IF name = "U_SUBB_O" THEN 85 ELSE IF name = "U_ADDSUB" THEN 86 ELSE
  IF name = "U_SUBADD" THEN 87 ELSE IF name = "LMUL_O" THEN 90 ELSE
  IF name = "LNMUL_O" THEN 91 ELSE IF name = "LMUL_US_O" THEN 92 ELSE
  IF name = "LMUL_US_O_T1" THEN 93 ELSE IF name = "INTERP" THEN 94 ELSE
  IF name = "INTERP_T1" THEN 95 ELSE IF name = "MA_S" THEN 96 ELSE
  IF name = "MA_C_S" THEN 97 ELSE IF name = "MA_AC_MV_S" THEN 98 ELSE
  IF name = "MA_AC_S" THEN 99 ELSE IF name = "NMA_MA_S" THEN 100 ELSE
  IF name = "NMA_S" THEN 101 ELSE IF name = "MS_S" THEN 102 ELSE
  IF name = "MA_O" THEN 103 ELSE IF name = "MA_C_O" THEN 104 ELSE
  IF name = "MA_AC_MV_O" THEN 105 ELSE IF name = "MA_AC_O" THEN 106 ELSE
  IF name = "NMA_MA_O" THEN 107 ELSE IF name = "NMA_O" THEN 108 ELSE
  IF name = "MS_O" THEN 109 ELSE IF name = "ADD_S" THEN 110 ELSE
  IF name = "ADDC_S" THEN 111 ELSE IF name = "SUB_S" THEN 112 ELSE
  IF name = "SUBB_S" THEN 113 ELSE IF name = "ADD_O" THEN 114 ELSE
  IF name = "ADDC_O" THEN 115 ELSE IF name = "SUB_O" THEN 116 ELSE
  IF name = "SUBB_O" THEN 117 ELSE IF name = "MUL_O" THEN 122 ELSE
  IF name = "NMUL_O" THEN 123 ELSE IF name = "MUL_US" THEN 124 ELSE
  IF name = "MUL_US_T1" THEN 125 ELSE IF name = "MOV_ACC_S" THEN 126 ELSE
  IF name = "U_MOV_ACC_S" THEN 127 ELSE IF name = "F_MA" THEN 128 ELSE
  IF name = "F_MA_AC_MV" THEN 129 ELSE IF name = "F_MA_AC" THEN 130 ELSE
  IF name = "F_MA_NMA" THEN 131 ELSE IF name = "F_NMA_MA" THEN 132 ELSE
  IF name = "F_NMA" THEN 133 ELSE IF name = "F_MA_MS_AC_MV" THEN 134 ELSE
  IF name = "F_MS" THEN 135 ELSE IF name = "F_ADD" THEN 136 ELSE
  IF name = "F_SUB" THEN 137 ELSE IF name = "F_SUBADD" THEN 138 ELSE
  IF name = "F_ADDSUB" THEN 139 ELSE IF name = "F_MUL" THEN 140 ELSE
  IF name = "F_NMUL" THEN 141 ELSE IF name = "F_CMP" THEN 142 ELSE
  IF name = "F_INV" THEN 143 ELSE IF name = "F_ABS" THEN 144 ELSE
  IF name = "F_LIMIT" THEN 145 ELSE IF name = "F_LIMIT_T1" THEN 146 ELSE
  IF name = "F_ADD_EXP" THEN 147 ELSE IF name = "F_GET_SIG" THEN 148 ELSE
  IF name = "F_GET_EXP" THEN 149 ELSE IF name = "F_TO_I" THEN 150 ELSE
  IF name = "I_TO_F" THEN 151 ELSE IF name = "UNK-0x098" THEN 152 ELSE
  IF name = "F_SINCOS" THEN 153 ELSE IF name = "F_ARCTAN" THEN 154 ELSE
  IF name = "F_RCP_DIV" THEN 155 ELSE IF name = "F_RCP" THEN 156 ELSE
  IF name = "F_RCP_SQRT" THEN 157 ELSE IF name = "EXP" THEN 158 ELSE
  IF name = "LOG" THEN 159 ELSE IF name = "F_DFT_TWDL" THEN 160 ELSE
  IF name = "F_DFT_BFLY" THEN 161 ELSE IF name = "UNK-0x0a2" THEN 162 ELSE
  IF name = "UNK-0x0a3" THEN 163 ELSE IF name = "UNK-0x0a4" THEN 164 ELSE
  IF name = "UNK-0x0a5" THEN 165 ELSE IF name = "UNK-0x0a6" THEN 166 ELSE
  IF name = "UNK-0x0a7" THEN 167 ELSE IF name = "UNK-0x0a8" THEN 168 ELSE
  IF name = "UNK-0x0a9" THEN 169 ELSE IF name = "UNK-0x0aa" THEN 170 ELSE
  IF name = "UNK-0x0ab" THEN 171 ELSE IF name = "UNK-0x0ac" THEN 172 ELSE
  IF name = "UNK-0x0ad" THEN 173 ELSE IF name = "UNK-0x0ae" THEN 174 ELSE
  IF name = "UNK-0x0af" THEN 175 ELSE IF name = "ADD" THEN 176 ELSE
  IF name = "MOV_L_T1" THEN 195 ELSE IF name = "MOV_L" THEN 196 ELSE
  IF name = "MOV_L_T2" THEN 197 ELSE IF name = "MOV_U_T1" THEN 198 ELSE
  IF name = "MOV_U" THEN 199 ELSE IF name = "UNK-0x0cb" THEN 203 ELSE
  IF name = "XOR" THEN 204 ELSE IF name = "OR" THEN 205 ELSE
  IF name = "AND" THEN 206 ELSE IF name = "I_ABS_FFS" THEN 207 ELSE
  IF name = "I_INV" THEN 208 ELSE IF name = "CMPL" THEN 209 ELSE
  IF name = "I_ABS" THEN 210 ELSE IF name = "LIMIT" THEN 213 ELSE
  IF name = "LIMIT_T1" THEN 214 ELSE IF name = "TST_NEG" THEN 215 ELSE
  IF name = "UNK-0x0d8" THEN 216 ELSE IF name = "UNK-0x0d9" THEN 217 ELSE
  IF name = "UNK-0x0da" THEN 218 ELSE IF name = "UNK-0x0db" THEN 219 ELSE
  IF name = "UNK-0x0dc" THEN 220 ELSE IF name = "UNK-0x0dd" THEN 221 ELSE
  IF name = "UNK-0x0de" THEN 222 ELSE IF name = "UNK-0x0df" THEN 223 ELSE
  IF name = "FFS" THEN 224 ELSE IF name = "FFU" THEN 225 ELSE
  IF name = "SET_SEM_G_BIT" THEN 240 ELSE
  IF name = "CLR_SEM_G_BIT" THEN 241 ELSE IF name = "SET_BITS" THEN 248 ELSE
  IF name = "SET_BITS_T1" THEN 249 ELSE
  IF name = "SET_BITS_T2" THEN 250 ELSE IF name = "GET_BITS" THEN 251 ELSE
  IF name = "UNK-0x0fc" THEN 252 ELSE IF name = "UNK-0x0fd" THEN 253 ELSE
  IF name = "POP" THEN 254 ELSE IF name = "PUSH" THEN 255 ELSE -1

(* Where a name is shared the layouts, the modifier and the order of the
   operands tell the number. *)
JumpNumber        == [JMP |-> 1, CALL |-> 4]
MovxNumber        == [MOVX_T1 |-> 48, MOVX |-> 50]
LiteralMoveNumber == [MOV_T1 |-> 192, MOV |-> 193, MOV_T2 |-> 194]
MoveNumber ==
  [MOV       |-> [NONE |-> 200, INC |-> 118, DEC |-> 119, RL |-> 120, RR |-> 121],
   MOV_T1    |-> [NONE |-> 201],
   MOV_T2    |-> [NONE |-> 202],
   U_MOV_ACC |-> [NONE |-> 81, INC |-> 88, DEC |-> 89]]
ShiftNumber ==
  [I_CMP |-> 211, RO_L |-> 226, RO_R |-> 227, SH_L |-> 230, SH_R |-> 231,
   A_SH_L |-> 234, A_SH_R |-> 235, SH_R_CHK |-> 238, SET_BIT |-> 242,
   CLR_BIT |-> 244, TGL_BIT |-> 246]
LiteralShiftNumber ==
  [I_CMP |-> 212, RO_L |-> 228, RO_R |-> 229, SH_L |-> 232, SH_R |-> 233,
   A_SH_L |-> 236, A_SH_R |-> 237, SH_R_CHK |-> 239, SET_BIT |-> 243,
   CLR_BIT |-> 245, TGL_BIT |-> 247]

IsSingle(info) == info.op = Number(info.name) /\ info.op \in Nat
IsJump(info) ==
  /\ info.name \in JumpNames /\ info.op \in Nat /\ info.swap = FALSE
  /\ \/ info.layouts = JUMP /\ info.op = JumpNumber[info.name]
     \/ info.layouts = JUMP_REG /\ info.op = JumpNumber[info.name] + 11
IsMovx(info) ==
  /\ info.name \in MovxNames /\ info.op \in Nat /\ info.swap \in BOOLEAN
  /\ \/ /\ info.layouts = MOVX_MDFR
        /\ info.op = MovxNumber[info.name] + IF info.swap THEN 1 ELSE 0
     \/ /\ info.layouts = MOVX_LIT
        /\ info.op = MovxNumber[info.name] + IF info.swap THEN 5 ELSE 4
IsMove(info) ==
  /\ info.name \in MoveNames /\ info.op \in Nat /\ info.swap = FALSE
  /\ \/ info.layouts = MOVE_LIT /\ info.op = LiteralMoveNumber[info.name]
     \/ /\ info.layouts = MOVE /\ info.mdfr \notin Hints
        /\ info.op = MoveNumber[info.name][info.mdfr]
IsShift(info) ==
  /\ info.name \in ShiftNames /\ info.op \in Nat /\ info.swap = FALSE
  /\ \/ info.layouts = RXY /\ info.op = ShiftNumber[info.name]
     \/ info.layouts = RXLY /\ info.op = LiteralShiftNumber[info.name]

HasNumber(info) ==
  \/ info.layouts = NO_LAYOUT
  \/ IsSingle(info) \/ IsJump(info) \/ IsMovx(info) \/ IsMove(info) \/ IsShift(info)

LEMMA SharedNumber == \A name \in SharedNames : Number(name) = -1
<1> SUFFICES ASSUME NEW name \in SharedNames PROVE Number(name) = -1
  OBVIOUS
<1> QED BY SMT DEF Number

LEMMA NoLayoutHas == \A op, name : HasNumber(Op(op, name, NO_LAYOUT))
<1> SUFFICES ASSUME NEW op, NEW name PROVE HasNumber(Op(op, name, NO_LAYOUT))
  OBVIOUS
<1>1. Op(op, name, NO_LAYOUT).layouts = NO_LAYOUT
  BY SMT DEF Op, Info
<1> QED BY <1>1, Zenon DEF HasNumber

LEMMA SomeHas ==
  \A info : IsSingle(info) \/ IsJump(info) \/ IsMovx(info) \/ IsMove(info) \/ IsShift(info)
    => HasNumber(info)
BY Zenon DEF HasNumber

LEMMA Num_00 == \A i \in 1 .. 20 : HasNumber(OPS_00[i])
<1>1. /\ IsSingle(Op(0, "NOP", NO_OPERANDS))
      /\ IsSingle(Op(2, "JMPC", JUMP))
      /\ IsSingle(Op(3, "JMPC_T1", JUMP))
      /\ IsSingle(Op(5, "CALL_T1", JUMP))
  BY SMTT(30) DEF Op, Info, IsSingle, Number, SharedNames, JumpNames,
     MovxNames, MoveNames, ShiftNames
<1>2. /\ IsSingle(Op(6, "CALL_T2", JUMP))
      /\ IsSingle(Op(7, "RET", NO_OPERANDS))
      /\ IsSingle(Op(16, "S_JMP", SHORT_JUMP))
      /\ IsSingle(Op(17, "S_JMPC", SHORT_JUMP))
  BY SMTT(30) DEF Op, Info, IsSingle, Number, SharedNames, JumpNames,
     MovxNames, MoveNames, ShiftNames
<1>3. /\ IsSingle(Op(18, "S_JMPC_T1", SHORT_JUMP))
      /\ IsSingle(Op(19, "S_CALL", SHORT_JUMP))
  BY SMTT(30) DEF Op, Info, IsSingle, Number, SharedNames, JumpNames,
     MovxNames, MoveNames, ShiftNames
<1>4. /\ IsJump(Op(1, "JMP", JUMP))
      /\ IsJump(Op(4, "CALL", JUMP))
      /\ IsJump(Op(12, "JMP", JUMP_REG))
      /\ IsJump(Op(15, "CALL", JUMP_REG))
  BY SMTT(30) DEF Op, Info, IsJump, JumpNumber, JumpNames
<1> QED
  BY SMTT(60), <1>1, <1>2, <1>3, <1>4, SomeHas, NoLayoutHas
  DEF OPS_00

LEMMA Num_14 == \A i \in 1 .. 20 : HasNumber(OPS_14[i])
<1>1. /\ IsSingle(Op(20, "S_CALL_T1", SHORT_JUMP))
      /\ IsSingle(Op(21, "S_CALL_T2", SHORT_JUMP))
      /\ IsSingle(Op(22, "RETI", NO_OPERANDS))
      /\ IsSingle(Op(24, "UNK-0x18", LOOP_2))
  BY SMTT(30) DEF Op, Info, IsSingle, Number, SharedNames, JumpNames,
     MovxNames, MoveNames, ShiftNames
<1>2. /\ IsSingle(Op(25, "LOOP-0x19", LOOP_2))
      /\ IsSingle(Op(26, "LOOP-0x10d", LOOP_2))
      /\ IsSingle(Op(28, "LOOP-0x01c", LOOP_LIT))
      /\ IsSingle(Op(29, "LOOP-0x01d", LOOP_REG))
  BY SMTT(30) DEF Op, Info, IsSingle, Number, SharedNames, JumpNames,
     MovxNames, MoveNames, ShiftNames
<1>3. /\ IsSingle(Op(34, "INT_CLR", INT_CLEAR))
      /\ IsSingle(Op(35, "HALT", NO_OPERANDS))
      /\ IsSingle(Op(36, "INT_ENABLE", NO_OPERANDS))
      /\ IsSingle(Op(37, "INT_DISABLE", NO_OPERANDS))
  BY SMTT(30) DEF Op, Info, IsSingle, Number, SharedNames, JumpNames,
     MovxNames, MoveNames, ShiftNames
<1> QED
  BY SMTT(60), <1>1, <1>2, <1>3, SomeHas, NoLayoutHas
  DEF OPS_14

LEMMA Num_28 == \A i \in 1 .. 16 : HasNumber(OPS_28[i])
<1>1. /\ IsMovx(Op(48, "MOVX_T1", MOVX_MDFR))
      /\ IsMovx(OpSwap(49, "MOVX_T1", MOVX_MDFR))
      /\ IsMovx(Op(50, "MOVX", MOVX_MDFR))
      /\ IsMovx(OpSwap(51, "MOVX", MOVX_MDFR))
  BY SMTT(30) DEF Op, OpSwap, Info, IsMovx, MovxNumber, MovxNames
<1>2. /\ IsMovx(Op(52, "MOVX_T1", MOVX_LIT))
      /\ IsMovx(OpSwap(53, "MOVX_T1", MOVX_LIT))
      /\ IsMovx(Op(54, "MOVX", MOVX_LIT))
      /\ IsMovx(OpSwap(55, "MOVX", MOVX_LIT))
  BY SMTT(30) DEF Op, OpSwap, Info, IsMovx, MovxNumber, MovxNames
<1> QED
  BY SMTT(60), <1>1, <1>2, SomeHas, NoLayoutHas
  DEF OPS_28

LEMMA Num_40 == \A i \in 1 .. 20 : HasNumber(OPS_40[i])
<1>1. /\ IsSingle(Op(64, "LMA_S", RXYA))
      /\ IsSingle(Op(65, "LMA_AC_MV_S", RXYA))
      /\ IsSingle(Op(66, "LMA_AC_S", RXY))
      /\ IsSingle(Op(67, "LNMA_LMA_S", RXYA))
  BY SMTT(30) DEF Op, Info, IsSingle, Number, SharedNames, JumpNames,
     MovxNames, MoveNames, ShiftNames
<1>2. /\ IsSingle(Op(68, "LNMA_S", RXYA))
      /\ IsSingle(Op(69, "LMS_AC_MV_S", RXYA))
      /\ IsSingle(Op(70, "LMS_S", RXYA))
      /\ IsSingle(Op(71, "LMA_O", RXYA))
  BY SMTT(30) DEF Op, Info, IsSingle, Number, SharedNames, JumpNames,
     MovxNames, MoveNames, ShiftNames
<1>3. /\ IsSingle(Op(72, "LMA_AC_MV_O", RXYA))
      /\ IsSingle(Op(73, "LMA_AC_O", RXY))
      /\ IsSingle(Op(74, "LNMA_LMA_O", RXYA))
      /\ IsSingle(Op(75, "LNMA_O", RXYA))
  BY SMTT(30) DEF Op, Info, IsSingle, Number, SharedNames, JumpNames,
     MovxNames, MoveNames, ShiftNames
<1>4. /\ IsSingle(Op(76, "U_ADD_S", RXY))
      /\ IsSingle(Op(77, "LMS_O", RXYA))
      /\ IsSingle(Op(78, "U_ADD3_S", RXYA))
      /\ IsSingle(Op(79, "U_SUB_S", RXY))
  BY SMTT(30) DEF Op, Info, IsSingle, Number, SharedNames, JumpNames,
     MovxNames, MoveNames, ShiftNames
<1>5. /\ IsSingle(Op(80, "LMUL_S", RXY))
      /\ IsSingle(Op(82, "U_ADD_O", RXY))
      /\ IsSingle(Op(83, "U_ADDC_O", RXY))
  BY SMTT(30) DEF Op, Info, IsSingle, Number, SharedNames, JumpNames,
     MovxNames, MoveNames, ShiftNames
<1>6. /\ IsMove(Op(81, "U_MOV_ACC", MOVE))
  BY SMTT(30) DEF Op, Info, IsMove, LiteralMoveNumber, MoveNumber, Hints,
     MoveNames
<1> QED
  BY SMTT(60), <1>1, <1>2, <1>3, <1>4, <1>5, <1>6, SomeHas
  DEF OPS_40

LEMMA Num_54 == \A i \in 1 .. 20 : HasNumber(OPS_54[i])
<1>1. /\ IsSingle(Op(84, "U_SUB_O", RXY))
      /\ IsSingle(Op(85, "U_SUBB_O", RXY))
      /\ IsSingle(Op(86, "U_ADDSUB", RXY))
      /\ IsSingle(Op(87, "U_SUBADD", RXY))
  BY SMTT(30) DEF Op, Info, IsSingle, Number, SharedNames, JumpNames,
     MovxNames, MoveNames, ShiftNames
<1>2. /\ IsSingle(Op(90, "LMUL_O", RXY))
      /\ IsSingle(Op(91, "LNMUL_O", RXY))
      /\ IsSingle(Op(92, "LMUL_US_O", RXY))
      /\ IsSingle(Op(93, "LMUL_US_O_T1", RXY))
  BY SMTT(30) DEF Op, Info, IsSingle, Number, SharedNames, JumpNames,
     MovxNames, MoveNames, ShiftNames
<1>3. /\ IsSingle(Op(94, "INTERP", RXYA))
      /\ IsSingle(Op(95, "INTERP_T1", RXYA))
      /\ IsSingle(Op(96, "MA_S", RXYA))
      /\ IsSingle(Op(97, "MA_C_S", RXYA))
  BY SMTT(30) DEF Op, Info, IsSingle, Number, SharedNames, JumpNames,
     MovxNames, MoveNames, ShiftNames
<1>4. /\ IsSingle(Op(98, "MA_AC_MV_S", RXYA))
      /\ IsSingle(Op(99, "MA_AC_S", RXY))
      /\ IsSingle(Op(100, "NMA_MA_S", RXYA))
      /\ IsSingle(Op(101, "NMA_S", RXYA))
  BY SMTT(30) DEF Op, Info, IsSingle, Number, SharedNames, JumpNames,
     MovxNames, MoveNames, ShiftNames
<1>5. /\ IsSingle(Op(102, "MS_S", RXYA))
      /\ IsSingle(Op(103, "MA_O", RXYA))
  BY SMTT(30) DEF Op, Info, IsSingle, Number, SharedNames, JumpNames,
     MovxNames, MoveNames, ShiftNames
<1>6. /\ IsMove(OpMdfr(88, "U_MOV_ACC", MOVE, "INC"))
      /\ IsMove(OpMdfr(89, "U_MOV_ACC", MOVE, "DEC"))
  BY SMTT(30) DEF OpMdfr, Info, IsMove, LiteralMoveNumber, MoveNumber,
     Hints, MoveNames
<1> QED
  BY SMTT(60), <1>1, <1>2, <1>3, <1>4, <1>5, <1>6, SomeHas
  DEF OPS_54

LEMMA Num_68 == \A i \in 1 .. 20 : HasNumber(OPS_68[i])
<1>1. /\ IsSingle(Op(104, "MA_C_O", RXYA))
      /\ IsSingle(Op(105, "MA_AC_MV_O", RXYA))
      /\ IsSingle(Op(106, "MA_AC_O", RXY))
      /\ IsSingle(Op(107, "NMA_MA_O", RXYA))
  BY SMTT(30) DEF Op, Info, IsSingle, Number, SharedNames, JumpNames,
     MovxNames, MoveNames, ShiftNames
<1>2. /\ IsSingle(Op(108, "NMA_O", RXYA))
      /\ IsSingle(Op(109, "MS_O", RXYA_LONG))
      /\ IsSingle(Op(110, "ADD_S", RXY))
      /\ IsSingle(Op(111, "ADDC_S", RXY))
  BY SMTT(30) DEF Op, Info, IsSingle, Number, SharedNames, JumpNames,
     MovxNames, MoveNames, ShiftNames
<1>3. /\ IsSingle(Op(112, "SUB_S", RXY))
      /\ IsSingle(Op(113, "SUBB_S", RXY))
      /\ IsSingle(Op(114, "ADD_O", RXY))
      /\ IsSingle(Op(115, "ADDC_O", RXY))
  BY SMTT(30) DEF Op, Info, IsSingle, Number, SharedNames, JumpNames,
     MovxNames, MoveNames, ShiftNames
<1>4. /\ IsSingle(Op(116, "SUB_O", RXY))
      /\ IsSingle(Op(117, "SUBB_O", RXY))
      /\ IsSingle(Op(122, "MUL_O", RXY))
      /\ IsSingle(Op(123, "NMUL_O", RXY))
  BY SMTT(30) DEF Op, Info, IsSingle, Number, SharedNames, JumpNames,
     MovxNames, MoveNames, ShiftNames
<1>5. /\ IsMove(OpMdfr(118, "MOV", MOVE, "INC"))
      /\ IsMove(OpMdfr(119, "MOV", MOVE, "DEC"))
      /\ IsMove(OpMdfr(120, "MOV", MOVE, "RL"))
      /\ IsMove(OpMdfr(121, "MOV", MOVE, "RR"))
  BY SMTT(30) DEF OpMdfr, Info, IsMove, LiteralMoveNumber, MoveNumber,
     Hints, MoveNames
<1> QED
  BY SMTT(60), <1>1, <1>2, <1>3, <1>4, <1>5, SomeHas
  DEF OPS_68

LEMMA Num_7C == \A i \in 1 .. 20 : HasNumber(OPS_7C[i])
<1>1. /\ IsSingle(Op(124, "MUL_US", RXY))
      /\ IsSingle(Op(125, "MUL_US_T1", RXY))
      /\ IsSingle(Op(126, "MOV_ACC_S", MOVE))
      /\ IsSingle(Op(127, "U_MOV_ACC_S", MOVE))
  BY SMTT(30) DEF Op, Info, IsSingle, Number, SharedNames, JumpNames,
     MovxNames, MoveNames, ShiftNames
<1>2. /\ IsSingle(Op(128, "F_MA", RXYA))
      /\ IsSingle(Op(129, "F_MA_AC_MV", RXYA))
      /\ IsSingle(Op(130, "F_MA_AC", RXY))
      /\ IsSingle(Op(131, "F_MA_NMA", RXYA))
  BY SMTT(30) DEF Op, Info, IsSingle, Number, SharedNames, JumpNames,
     MovxNames, MoveNames, ShiftNames
<1>3. /\ IsSingle(Op(132, "F_NMA_MA", RXYA_LONG))
      /\ IsSingle(Op(133, "F_NMA", RXYA))
      /\ IsSingle(Op(134, "F_MA_MS_AC_MV", RXYA))
      /\ IsSingle(Op(135, "F_MS", RXYA))
  BY SMTT(30) DEF Op, Info, IsSingle, Number, SharedNames, JumpNames,
     MovxNames, MoveNames, ShiftNames
<1>4. /\ IsSingle(Op(136, "F_ADD", RXY))
      /\ IsSingle(Op(137, "F_SUB", RXY))
      /\ IsSingle(Op(138, "F_SUBADD", RXY))
      /\ IsSingle(Op(139, "F_ADDSUB", RXY))
  BY SMTT(30) DEF Op, Info, IsSingle, Number, SharedNames, JumpNames,
     MovxNames, MoveNames, ShiftNames
<1>5. /\ IsSingle(Op(140, "F_MUL", RXY))
      /\ IsSingle(Op(141, "F_NMUL", RXY))
      /\ IsSingle(Op(142, "F_CMP", RXY))
      /\ IsSingle(Op(143, "F_INV", MOVE))
  BY SMTT(30) DEF Op, Info, IsSingle, Number, SharedNames, JumpNames,
     MovxNames, MoveNames, ShiftNames
<1> QED
  BY SMTT(60), <1>1, <1>2, <1>3, <1>4, <1>5, SomeHas
  DEF OPS_7C

LEMMA Num_90 == \A i \in 1 .. 20 : HasNumber(OPS_90[i])
<1>1. /\ IsSingle(Op(144, "F_ABS", MOVE))
      /\ IsSingle(Op(145, "F_LIMIT", RXYA))
      /\ IsSingle(Op(146, "F_LIMIT_T1", RXYA))
      /\ IsSingle(Op(147, "F_ADD_EXP", RXY))
  BY SMTT(30) DEF Op, Info, IsSingle, Number, SharedNames, JumpNames,
     MovxNames, MoveNames, ShiftNames
<1>2. /\ IsSingle(Op(148, "F_GET_SIG", MOVE))
      /\ IsSingle(Op(149, "F_GET_EXP", MOVE))
      /\ IsSingle(Op(150, "F_TO_I", RXY))
      /\ IsSingle(Op(151, "I_TO_F", RXY))
  BY SMTT(30) DEF Op, Info, IsSingle, Number, SharedNames, JumpNames,
     MovxNames, MoveNames, ShiftNames
<1>3. /\ IsSingle(Op(152, "UNK-0x098", RXYA))
      /\ IsSingle(Op(153, "F_SINCOS", MOVE))
      /\ IsSingle(Op(154, "F_ARCTAN", MOVE))
      /\ IsSingle(Op(155, "F_RCP_DIV", RXY))
  BY SMTT(30) DEF Op, Info, IsSingle, Number, SharedNames, JumpNames,
     MovxNames, MoveNames, ShiftNames
<1>4. /\ IsSingle(Op(156, "F_RCP", MOVE))
      /\ IsSingle(Op(157, "F_RCP_SQRT", MOVE))
      /\ IsSingle(Op(158, "EXP", RXYA))
      /\ IsSingle(Op(159, "LOG", RXYA))
  BY SMTT(30) DEF Op, Info, IsSingle, Number, SharedNames, JumpNames,
     MovxNames, MoveNames, ShiftNames
<1>5. /\ IsSingle(Op(160, "F_DFT_TWDL", RXY))
      /\ IsSingle(Op(161, "F_DFT_BFLY", RXYA))
      /\ IsSingle(Op(162, "UNK-0x0a2", RXYA))
      /\ IsSingle(Op(163, "UNK-0x0a3", RXYA))
  BY SMTT(30) DEF Op, Info, IsSingle, Number, SharedNames, JumpNames,
     MovxNames, MoveNames, ShiftNames
<1> QED
  BY SMTT(60), <1>1, <1>2, <1>3, <1>4, <1>5, SomeHas
  DEF OPS_90

LEMMA Num_A4 == \A i \in 1 .. 14 : HasNumber(OPS_A4[i])
<1>1. /\ IsSingle(Op(164, "UNK-0x0a4", RXYA))
      /\ IsSingle(Op(165, "UNK-0x0a5", RXYA))
      /\ IsSingle(Op(166, "UNK-0x0a6", RXYA))
      /\ IsSingle(Op(167, "UNK-0x0a7", RXYA))
  BY SMTT(30) DEF Op, Info, IsSingle, Number, SharedNames, JumpNames,
     MovxNames, MoveNames, ShiftNames
<1>2. /\ IsSingle(Op(168, "UNK-0x0a8", RXYA))
      /\ IsSingle(Op(169, "UNK-0x0a9", RXYA))
      /\ IsSingle(Op(170, "UNK-0x0aa", RXYA))
      /\ IsSingle(Op(171, "UNK-0x0ab", RXYA))
  BY SMTT(30) DEF Op, Info, IsSingle, Number, SharedNames, JumpNames,
     MovxNames, MoveNames, ShiftNames
<1>3. /\ IsSingle(Op(172, "UNK-0x0ac", RXYA))
      /\ IsSingle(Op(173, "UNK-0x0ad", RXYA))
      /\ IsSingle(Op(174, "UNK-0x0ae", RXYA))
      /\ IsSingle(Op(175, "UNK-0x0af", RXYA))
  BY SMTT(30) DEF Op, Info, IsSingle, Number, SharedNames, JumpNames,
     MovxNames, MoveNames, ShiftNames
<1>4. /\ IsSingle(OpMdfr(176, "ADD", RXLY, "16_BIT_SIGNED"))
  BY SMTT(30) DEF OpMdfr, Info, IsSingle, Number, SharedNames, JumpNames,
     MovxNames, MoveNames, ShiftNames
<1> QED
  BY SMTT(60), <1>1, <1>2, <1>3, <1>4, SomeHas, NoLayoutHas
  DEF OPS_A4

LEMMA Num_C0 == \A i \in 1 .. 20 : HasNumber(OPS_C0[i])
<1>1. /\ IsSingle(Op(195, "MOV_L_T1", MOVE_LIT_2))
      /\ IsSingle(Op(196, "MOV_L", MOVE_LIT_2))
      /\ IsSingle(Op(197, "MOV_L_T2", MOVE_LIT))
      /\ IsSingle(OpMdfr(198, "MOV_U_T1", MOVE_LIT, "16_BIT_UPPER"))
  BY SMTT(30) DEF Op, OpMdfr, Info, IsSingle, Number, SharedNames,
     JumpNames, MovxNames, MoveNames, ShiftNames
<1>2. /\ IsSingle(OpMdfr(199, "MOV_U", MOVE_LIT, "16_BIT_UPPER"))
      /\ IsSingle(Op(203, "UNK-0x0cb", RXYA))
      /\ IsSingle(Op(204, "XOR", RXY))
      /\ IsSingle(Op(205, "OR", RXY))
  BY SMTT(30) DEF Op, OpMdfr, Info, IsSingle, Number, SharedNames,
     JumpNames, MovxNames, MoveNames, ShiftNames
<1>3. /\ IsSingle(Op(206, "AND", RXY))
      /\ IsSingle(Op(207, "I_ABS_FFS", MOVE))
      /\ IsSingle(Op(208, "I_INV", MOVE))
      /\ IsSingle(Op(209, "CMPL", MOVE))
  BY SMTT(30) DEF Op, Info, IsSingle, Number, SharedNames, JumpNames,
     MovxNames, MoveNames, ShiftNames
<1>4. /\ IsSingle(Op(210, "I_ABS", MOVE))
  BY SMTT(30) DEF Op, Info, IsSingle, Number, SharedNames, JumpNames,
     MovxNames, MoveNames, ShiftNames
<1>5. /\ IsMove(Op(192, "MOV_T1", MOVE_LIT))
      /\ IsMove(Op(193, "MOV", MOVE_LIT))
      /\ IsMove(Op(194, "MOV_T2", MOVE_LIT))
      /\ IsMove(Op(200, "MOV", MOVE))
  BY SMTT(30) DEF Op, Info, IsMove, LiteralMoveNumber, MoveNumber, Hints,
     MoveNames
<1>6. /\ IsMove(Op(201, "MOV_T1", MOVE))
      /\ IsMove(Op(202, "MOV_T2", MOVE))
  BY SMTT(30) DEF Op, Info, IsMove, LiteralMoveNumber, MoveNumber, Hints,
     MoveNames
<1>7. /\ IsShift(Op(211, "I_CMP", RXY))
  BY SMTT(30) DEF Op, Info, IsShift, ShiftNumber, LiteralShiftNumber,
     ShiftNames
<1> QED
  BY SMTT(60), <1>1, <1>2, <1>3, <1>4, <1>5, <1>6, <1>7, SomeHas
  DEF OPS_C0

LEMMA Num_D4 == \A i \in 1 .. 18 : HasNumber(OPS_D4[i])
<1>1. /\ IsSingle(Op(213, "LIMIT", RXYA))
      /\ IsSingle(Op(214, "LIMIT_T1", RXYA))
      /\ IsSingle(Op(215, "TST_NEG", RXYA))
      /\ IsSingle(Op(216, "UNK-0x0d8", RXYA))
  BY SMTT(30) DEF Op, Info, IsSingle, Number, SharedNames, JumpNames,
     MovxNames, MoveNames, ShiftNames
<1>2. /\ IsSingle(Op(217, "UNK-0x0d9", RXYA))
      /\ IsSingle(Op(218, "UNK-0x0da", RXYA))
      /\ IsSingle(Op(219, "UNK-0x0db", RXY))
      /\ IsSingle(Op(220, "UNK-0x0dc", RXYA))
  BY SMTT(30) DEF Op, Info, IsSingle, Number, SharedNames, JumpNames,
     MovxNames, MoveNames, ShiftNames
<1>3. /\ IsSingle(Op(221, "UNK-0x0dd", RXY))
      /\ IsSingle(Op(222, "UNK-0x0de", MOVE))
      /\ IsSingle(Op(223, "UNK-0x0df", RXYA))
      /\ IsSingle(Op(224, "FFS", MOVE))
  BY SMTT(30) DEF Op, Info, IsSingle, Number, SharedNames, JumpNames,
     MovxNames, MoveNames, ShiftNames
<1>4. /\ IsSingle(Op(225, "FFU", MOVE))
  BY SMTT(30) DEF Op, Info, IsSingle, Number, SharedNames, JumpNames,
     MovxNames, MoveNames, ShiftNames
<1>5. /\ IsShift(Op(212, "I_CMP", RXLY))
      /\ IsShift(Op(226, "RO_L", RXY))
      /\ IsShift(Op(227, "RO_R", RXY))
      /\ IsShift(Op(228, "RO_L", RXLY))
  BY SMTT(30) DEF Op, Info, IsShift, ShiftNumber, LiteralShiftNumber,
     ShiftNames
<1>6. /\ IsShift(Op(229, "RO_R", RXLY))
  BY SMTT(30) DEF Op, Info, IsShift, ShiftNumber, LiteralShiftNumber,
     ShiftNames
<1> QED
  BY SMTT(60), <1>1, <1>2, <1>3, <1>4, <1>5, <1>6, SomeHas
  DEF OPS_D4

LEMMA Num_E6 == \A i \in 1 .. 13 : HasNumber(OPS_E6[i])
<1>1. /\ IsSingle(Op(240, "SET_SEM_G_BIT", RXLY))
      /\ IsSingle(Op(241, "CLR_SEM_G_BIT", RXLY))
  BY SMTT(30) DEF Op, Info, IsSingle, Number, SharedNames, JumpNames,
     MovxNames, MoveNames, ShiftNames
<1>2. /\ IsShift(Op(230, "SH_L", RXY))
      /\ IsShift(Op(231, "SH_R", RXY))
      /\ IsShift(Op(232, "SH_L", RXLY))
      /\ IsShift(Op(233, "SH_R", RXLY))
  BY SMTT(30) DEF Op, Info, IsShift, ShiftNumber, LiteralShiftNumber,
     ShiftNames
<1>3. /\ IsShift(Op(234, "A_SH_L", RXY))
      /\ IsShift(Op(235, "A_SH_R", RXY))
      /\ IsShift(Op(236, "A_SH_L", RXLY))
      /\ IsShift(Op(237, "A_SH_R", RXLY))
  BY SMTT(30) DEF Op, Info, IsShift, ShiftNumber, LiteralShiftNumber,
     ShiftNames
<1>4. /\ IsShift(Op(238, "SH_R_CHK", RXY))
      /\ IsShift(Op(239, "SH_R_CHK", RXLY))
      /\ IsShift(Op(242, "SET_BIT", RXY))
  BY SMTT(30) DEF Op, Info, IsShift, ShiftNumber, LiteralShiftNumber,
     ShiftNames
<1> QED
  BY SMTT(60), <1>1, <1>2, <1>3, <1>4, SomeHas
  DEF OPS_E6

LEMMA Num_F3 == \A i \in 1 .. 13 : HasNumber(OPS_F3[i])
<1>1. /\ IsSingle(Op(248, "SET_BITS", RXYA))
      /\ IsSingle(Op(249, "SET_BITS_T1", RXYA))
      /\ IsSingle(Op(250, "SET_BITS_T2", RXYA))
      /\ IsSingle(Op(251, "GET_BITS", RXY))
  BY SMTT(30) DEF Op, Info, IsSingle, Number, SharedNames, JumpNames,
     MovxNames, MoveNames, ShiftNames
<1>2. /\ IsSingle(Op(252, "UNK-0x0fc", RXYA))
      /\ IsSingle(Op(253, "UNK-0x0fd", RXY))
      /\ IsSingle(Op(254, "POP", STACK))
      /\ IsSingle(OpSwap(255, "PUSH", STACK))
  BY SMTT(30) DEF Op, OpSwap, Info, IsSingle, Number, SharedNames,
     JumpNames, MovxNames, MoveNames, ShiftNames
<1>3. /\ IsShift(Op(243, "SET_BIT", RXLY))
      /\ IsShift(Op(244, "CLR_BIT", RXY))
      /\ IsShift(Op(245, "CLR_BIT", RXLY))
      /\ IsShift(Op(246, "TGL_BIT", RXY))
  BY SMTT(30) DEF Op, Info, IsShift, ShiftNumber, LiteralShiftNumber,
     ShiftNames
<1>4. /\ IsShift(Op(247, "TGL_BIT", RXLY))
  BY SMTT(30) DEF Op, Info, IsShift, ShiftNumber, LiteralShiftNumber,
     ShiftNames
<1> QED
  BY SMTT(60), <1>1, <1>2, <1>3, <1>4, SomeHas
  DEF OPS_F3

(***************************************************************************)
(* The rows of the table that have no operands.                            *)
(***************************************************************************)
NopNames == {"NOP", "RET", "RETI", "HALT", "INT_ENABLE", "INT_DISABLE"}
NumberOf == [NOP |-> 0, RET |-> 7, RETI |-> 22, HALT |-> 35,
             INT_ENABLE |-> 36, INT_DISABLE |-> 37]

(* The layouts of operations of one word that have operands, and none. *)
OneWord ==
  {"NONE", "MOV_1", "MOVX_MDFR_OFFSET_1", "MOVX_LIT_OFFSET_1", "R_X_Y_1",
   "R_X_Y_A_1", "R_X_LIT_8_Y_1", "PC_OFFSET_1", "LOOP_PC_OFFSET_REG_CNT_1",
   "LOOP_PC_OFFSET_LIT_8_CNT_1", "PC_SET_REG_1", "STACK_UNK_1",
   "INTERRUPT_CLR_1"}

(* An operation without operands has a name of its own and no modifier; any
   other has operands if it has a layout of one word. *)
IsNop(info) ==
  /\ info.layouts = NO_OPERANDS /\ info.name \in NopNames
  /\ info.op = NumberOf[info.name] /\ info.mdfr = "NONE"
IsOther(info) == info.name \notin NopNames /\ info.layouts[1] \in OneWord

IsRow(info) == (IsNop(info) \/ IsOther(info)) /\ HasNumber(info)

Known(infos) ==
  /\ infos = [i \in 1 .. Len(infos) |-> infos[i]] /\ Len(infos) \in Nat
  /\ \A i \in 1 .. Len(infos) : IsRow(infos[i])

LEMMA KnownConcat ==
  ASSUME NEW f, NEW g, Known(f), Known(g)
  PROVE  Known(f \o g)
<1> DEFINE All == {f[i] : i \in 1 .. Len(f)} \union {g[i] : i \in 1 .. Len(g)}
           h == f \o g
<1>1. f \in Seq(All) /\ g \in Seq(All)
  <2>1. f \in [1 .. Len(f) -> All] /\ g \in [1 .. Len(g) -> All]
    BY DEF Known
  <2> HIDE DEF All
  <2> QED BY <2>1, FunctionIsSeq DEF Known
<1>2. /\ h \in Seq(All) /\ Len(h) = Len(f) + Len(g)
      /\ \A i \in 1 .. Len(f) + Len(g) :
           h[i] = IF i <= Len(f) THEN f[i] ELSE g[i - Len(f)]
  <2> HIDE DEF All
  <2> QED BY <1>1, ConcatProperties, Zenon
<1>3. h = [i \in 1 .. Len(h) |-> h[i]] /\ Len(h) \in Nat
  <2> HIDE DEF All, h
  <2> QED BY <1>2, SeqIsFunction
<1>4. Len(f) \in Nat /\ Len(g) \in Nat
  BY DEF Known
<1>5. ASSUME NEW i \in 1 .. Len(h) PROVE IsRow(h[i])
  <2> HIDE DEF h, All
  <2>0. i \in 1 .. Len(f) + Len(g)
    BY <1>2
  <2>1. CASE i <= Len(f)
    <3>1. i \in 1 .. Len(f)
      BY <1>4, <2>0, <2>1, SMT
    <3>2. h[i] = f[i]
      BY <1>2, <2>0, <2>1
    <3> QED BY <3>1, <3>2 DEF Known
  <2>2. CASE ~(i <= Len(f))
    <3>0. i - Len(f) \in 1 .. Len(g)
      BY <1>4, <2>0, <2>2, SMT
    <3>1. PICK j \in 1 .. Len(g) : j = i - Len(f)
      BY <3>0
    <3>2. h[i] = g[j]
      BY <1>2, <2>0, <2>2, <3>1
    <3> QED BY <3>1, <3>2 DEF Known
  <2> QED BY <2>1, <2>2
<1> HIDE DEF h
<1>6. Known(h)
  BY <1>3, <1>5, Zenon DEF Known
<1> QED BY <1>6 DEF h

LEMMA Ops_00 == Known(OPS_00)
<1>1. Len(OPS_00) = 20 /\ OPS_00 = [i \in 1 .. 20 |-> OPS_00[i]]
  BY SMT DEF OPS_00
<1>2. ASSUME NEW i \in 1 .. 20 PROVE IsNop(OPS_00[i]) \/ IsOther(OPS_00[i])
  BY SMTT(60) DEF OPS_00, Op, Info, Layouts, JUMP, SHORT_JUMP,
     JUMP_REG, NO_OPERANDS, NO_LAYOUT, IsNop, IsOther, NopNames, NumberOf,
     OneWord
<1> QED BY <1>1, <1>2, Num_00 DEF Known, IsRow

LEMMA Ops_14 == Known(OPS_14)
<1>1. Len(OPS_14) = 20 /\ OPS_14 = [i \in 1 .. 20 |-> OPS_14[i]]
  BY SMT DEF OPS_14
<1>2. ASSUME NEW i \in 1 .. 20 PROVE IsNop(OPS_14[i]) \/ IsOther(OPS_14[i])
  BY SMTT(60) DEF OPS_14, Op, Info, Layouts, SHORT_JUMP, LOOP_2,
     LOOP_LIT, LOOP_REG, INT_CLEAR, NO_OPERANDS, NO_LAYOUT, IsNop, IsOther,
     NopNames, NumberOf, OneWord
<1> QED BY <1>1, <1>2, Num_14 DEF Known, IsRow

LEMMA Ops_28 == Known(OPS_28)
<1>1. Len(OPS_28) = 16 /\ OPS_28 = [i \in 1 .. 16 |-> OPS_28[i]]
  BY SMT DEF OPS_28
<1>2. ASSUME NEW i \in 1 .. 16 PROVE IsNop(OPS_28[i]) \/ IsOther(OPS_28[i])
  BY SMTT(60) DEF OPS_28, Op, OpSwap, Info, Layouts, MOVX_MDFR,
     MOVX_LIT, NO_LAYOUT, NO_OPERANDS, IsNop, IsOther, NopNames, NumberOf,
     OneWord
<1> QED BY <1>1, <1>2, Num_28 DEF Known, IsRow

LEMMA Ops_40 == Known(OPS_40)
<1>1. Len(OPS_40) = 20 /\ OPS_40 = [i \in 1 .. 20 |-> OPS_40[i]]
  BY SMT DEF OPS_40
<1>2. ASSUME NEW i \in 1 .. 20 PROVE IsNop(OPS_40[i]) \/ IsOther(OPS_40[i])
  BY SMTT(60) DEF OPS_40, Op, Info, Layouts, MOVE, RXY, RXYA,
     NO_OPERANDS, IsNop, IsOther, NopNames, NumberOf, OneWord
<1> QED BY <1>1, <1>2, Num_40 DEF Known, IsRow

LEMMA Ops_54 == Known(OPS_54)
<1>1. Len(OPS_54) = 20 /\ OPS_54 = [i \in 1 .. 20 |-> OPS_54[i]]
  BY SMT DEF OPS_54
<1>2. ASSUME NEW i \in 1 .. 20 PROVE IsNop(OPS_54[i]) \/ IsOther(OPS_54[i])
  BY SMTT(60) DEF OPS_54, Op, OpMdfr, Info, Layouts, MOVE, RXY, RXYA,
     NO_OPERANDS, IsNop, IsOther, NopNames, NumberOf, OneWord
<1> QED BY <1>1, <1>2, Num_54 DEF Known, IsRow

LEMMA Ops_68 == Known(OPS_68)
<1>1. Len(OPS_68) = 20 /\ OPS_68 = [i \in 1 .. 20 |-> OPS_68[i]]
  BY SMT DEF OPS_68
<1>2. ASSUME NEW i \in 1 .. 20 PROVE IsNop(OPS_68[i]) \/ IsOther(OPS_68[i])
  BY SMTT(60) DEF OPS_68, Op, OpMdfr, Info, Layouts, MOVE, RXY, RXYA,
     RXYA_LONG, NO_OPERANDS, IsNop, IsOther, NopNames, NumberOf, OneWord
<1> QED BY <1>1, <1>2, Num_68 DEF Known, IsRow

LEMMA Ops_7C == Known(OPS_7C)
<1>1. Len(OPS_7C) = 20 /\ OPS_7C = [i \in 1 .. 20 |-> OPS_7C[i]]
  BY SMT DEF OPS_7C
<1>2. ASSUME NEW i \in 1 .. 20 PROVE IsNop(OPS_7C[i]) \/ IsOther(OPS_7C[i])
  BY SMTT(60) DEF OPS_7C, Op, Info, Layouts, MOVE, RXY, RXYA,
     RXYA_LONG, NO_OPERANDS, IsNop, IsOther, NopNames, NumberOf, OneWord
<1> QED BY <1>1, <1>2, Num_7C DEF Known, IsRow

LEMMA Ops_90 == Known(OPS_90)
<1>1. Len(OPS_90) = 20 /\ OPS_90 = [i \in 1 .. 20 |-> OPS_90[i]]
  BY SMT DEF OPS_90
<1>2. ASSUME NEW i \in 1 .. 20 PROVE IsNop(OPS_90[i]) \/ IsOther(OPS_90[i])
  BY SMTT(60) DEF OPS_90, Op, Info, Layouts, MOVE, RXY, RXYA,
     NO_OPERANDS, IsNop, IsOther, NopNames, NumberOf, OneWord
<1> QED BY <1>1, <1>2, Num_90 DEF Known, IsRow

LEMMA Ops_A4 == Known(OPS_A4)
<1>1. Len(OPS_A4) = 14 /\ OPS_A4 = [i \in 1 .. 14 |-> OPS_A4[i]]
  BY SMT DEF OPS_A4
<1>2. ASSUME NEW i \in 1 .. 14 PROVE IsNop(OPS_A4[i]) \/ IsOther(OPS_A4[i])
  BY SMTT(60) DEF OPS_A4, Op, OpMdfr, Info, Layouts, RXYA, RXLY,
     NO_LAYOUT, NO_OPERANDS, IsNop, IsOther, NopNames, NumberOf, OneWord
<1> QED BY <1>1, <1>2, Num_A4 DEF Known, IsRow

LEMMA Ops_C0 == Known(OPS_C0)
<1>1. Len(OPS_C0) = 20 /\ OPS_C0 = [i \in 1 .. 20 |-> OPS_C0[i]]
  BY SMT DEF OPS_C0
<1>2. ASSUME NEW i \in 1 .. 20 PROVE IsNop(OPS_C0[i]) \/ IsOther(OPS_C0[i])
  BY SMTT(60) DEF OPS_C0, Op, OpMdfr, Info, Layouts, MOVE, MOVE_LIT,
     MOVE_LIT_2, RXY, RXYA, NO_OPERANDS, IsNop, IsOther, NopNames, NumberOf,
     OneWord
<1> QED BY <1>1, <1>2, Num_C0 DEF Known, IsRow

LEMMA Ops_D4 == Known(OPS_D4)
<1>1. Len(OPS_D4) = 18 /\ OPS_D4 = [i \in 1 .. 18 |-> OPS_D4[i]]
  BY SMT DEF OPS_D4
<1>2. ASSUME NEW i \in 1 .. 18 PROVE IsNop(OPS_D4[i]) \/ IsOther(OPS_D4[i])
  BY SMTT(60) DEF OPS_D4, Op, Info, Layouts, MOVE, RXY, RXYA, RXLY,
     NO_OPERANDS, IsNop, IsOther, NopNames, NumberOf, OneWord
<1> QED BY <1>1, <1>2, Num_D4 DEF Known, IsRow

LEMMA Ops_E6 == Known(OPS_E6)
<1>1. Len(OPS_E6) = 13 /\ OPS_E6 = [i \in 1 .. 13 |-> OPS_E6[i]]
  BY SMT DEF OPS_E6
<1>2. ASSUME NEW i \in 1 .. 13 PROVE IsNop(OPS_E6[i]) \/ IsOther(OPS_E6[i])
  BY SMTT(60) DEF OPS_E6, Op, Info, Layouts, RXY, RXLY, NO_OPERANDS,
     IsNop, IsOther, NopNames, NumberOf, OneWord
<1> QED BY <1>1, <1>2, Num_E6 DEF Known, IsRow

LEMMA Ops_F3 == Known(OPS_F3)
<1>1. Len(OPS_F3) = 13 /\ OPS_F3 = [i \in 1 .. 13 |-> OPS_F3[i]]
  BY SMT DEF OPS_F3
<1>2. ASSUME NEW i \in 1 .. 13 PROVE IsNop(OPS_F3[i]) \/ IsOther(OPS_F3[i])
  BY SMTT(60) DEF OPS_F3, Op, OpSwap, Info, Layouts, RXY, RXYA, RXLY,
     STACK, NO_OPERANDS, IsNop, IsOther, NopNames, NumberOf, OneWord
<1> QED BY <1>1, <1>2, Num_F3 DEF Known, IsRow

LEMMA AllKnown == Known(asm_ops)
<1> DEFINE
  t1 == OPS_00 \o OPS_14
  t2 == t1 \o OPS_28
  t3 == t2 \o OPS_40
  t4 == t3 \o OPS_54
  t5 == t4 \o OPS_68
  t6 == t5 \o OPS_7C
  t7 == t6 \o OPS_90
  t8 == t7 \o OPS_A4
  t9 == t8 \o OPS_C0
  t10 == t9 \o OPS_D4
  t11 == t10 \o OPS_E6
  t12 == t11 \o OPS_F3
<1>1. Known(t1)
  BY Ops_00, Ops_14, KnownConcat, Zenon
<1>2. Known(t2)
  <2> HIDE DEF t1
  <2> QED BY <1>1, Ops_28, KnownConcat, Zenon
<1>3. Known(t3)
  <2> HIDE DEF t2
  <2> QED BY <1>2, Ops_40, KnownConcat, Zenon
<1>4. Known(t4)
  <2> HIDE DEF t3
  <2> QED BY <1>3, Ops_54, KnownConcat, Zenon
<1>5. Known(t5)
  <2> HIDE DEF t4
  <2> QED BY <1>4, Ops_68, KnownConcat, Zenon
<1>6. Known(t6)
  <2> HIDE DEF t5
  <2> QED BY <1>5, Ops_7C, KnownConcat, Zenon
<1>7. Known(t7)
  <2> HIDE DEF t6
  <2> QED BY <1>6, Ops_90, KnownConcat, Zenon
<1>8. Known(t8)
  <2> HIDE DEF t7
  <2> QED BY <1>7, Ops_A4, KnownConcat, Zenon
<1>9. Known(t9)
  <2> HIDE DEF t8
  <2> QED BY <1>8, Ops_C0, KnownConcat, Zenon
<1>10. Known(t10)
  <2> HIDE DEF t9
  <2> QED BY <1>9, Ops_D4, KnownConcat, Zenon
<1>11. Known(t11)
  <2> HIDE DEF t10
  <2> QED BY <1>10, Ops_E6, KnownConcat, Zenon
<1>12. Known(t12)
  <2> HIDE DEF t11
  <2> QED BY <1>11, Ops_F3, KnownConcat, Zenon
<1> QED BY <1>12, Zenon DEF asm_ops

(* None of these layouts is that of an operation without operands. *)
LEMMA OneWordIsNotNop == \A name \in OneWord : Layout[name] # Layout.NOP
<1>0. Layout.NOP = NOP /\ NOP[1].fields[1].type = "NOP"
  <2>1. Layout.NOP = NOP
    BY DEF Layout
  <2>2. NOP[1].fields[1].type = "NOP"
    BY DEF NOP, OptSingle, Alternative, N, Field
  <2> QED BY <2>1, <2>2
<1>1. Layout.NONE # Layout.NOP
  <2>1. Layout.NONE = NONE
    BY DEF Layout
  <2>2. NOP # <<>>
    BY DEF NOP
  <2> QED BY <1>0, <2>1, <2>2 DEF NONE
<1>2. Layout.MOV_1 # Layout.NOP
  <2>1. Layout.MOV_1 = MOV_1
    BY DEF Layout
  <2>2. MOV_1[1].fields[1].type = "REG_7"
    BY DEF MOV_1, Single, Double, Alternative, D, S, Field
  <2> QED BY <1>0, <2>1, <2>2
<1>3. Layout.MOVX_MDFR_OFFSET_1 # Layout.NOP
  <2>1. Layout.MOVX_MDFR_OFFSET_1 = MOVX_MDFR_OFFSET_1
    BY DEF Layout
  <2>2. MOVX_MDFR_OFFSET_1[1].fields[1].type = "REG_5"
    BY DEF MOVX_MDFR_OFFSET_1, Single, Alternative, D, S2, Field
  <2> QED BY <1>0, <2>1, <2>2
<1>4. Layout.MOVX_LIT_OFFSET_1 # Layout.NOP
  <2>1. Layout.MOVX_LIT_OFFSET_1 = MOVX_LIT_OFFSET_1
    BY DEF Layout
  <2>2. MOVX_LIT_OFFSET_1[1].fields[1].type = "REG_5"
    BY DEF MOVX_LIT_OFFSET_1, Single, Alternative, D, S2, Field
  <2> QED BY <1>0, <2>1, <2>2
<1>5. Layout.R_X_Y_1 # Layout.NOP
  <2>1. Layout.R_X_Y_1 = R_X_Y_1
    BY DEF Layout
  <2>2. R_X_Y_1[1].fields[1].type = "REG_5"
    BY DEF R_X_Y_1, Single, Double, Alternative, D, X, Y, Y2, Field
  <2> QED BY <1>0, <2>1, <2>2
<1>6. Layout.R_X_Y_A_1 # Layout.NOP
  <2>1. Layout.R_X_Y_A_1 = R_X_Y_A_1
    BY DEF Layout
  <2>2. R_X_Y_A_1[1].fields[1].type = "REG_3_FMA"
    BY DEF R_X_Y_A_1, Single, Alternative, D, X, Y, A, Field
  <2> QED BY <1>0, <2>1, <2>2
<1>7. Layout.R_X_LIT_8_Y_1 # Layout.NOP
  <2>1. Layout.R_X_LIT_8_Y_1 = R_X_LIT_8_Y_1
    BY DEF Layout
  <2>2. R_X_LIT_8_Y_1[1].fields[1].type = "REG_4"
    BY DEF R_X_LIT_8_Y_1, Single, Alternative, D, X, Y, Field
  <2> QED BY <1>0, <2>1, <2>2
<1>8. Layout.PC_OFFSET_1 # Layout.NOP
  <2>1. Layout.PC_OFFSET_1 = PC_OFFSET_1
    BY DEF Layout
  <2>2. PC_OFFSET_1[1].fields[1].type = "LITERAL_8"
    BY DEF PC_OFFSET_1, Single, Alternative, N, Field
  <2> QED BY <1>0, <2>1, <2>2
<1>9. Layout.LOOP_PC_OFFSET_REG_CNT_1 # Layout.NOP
  <2>1. Layout.LOOP_PC_OFFSET_REG_CNT_1 = LOOP_PC_OFFSET_REG_CNT_1
    BY DEF Layout
  <2>2. LOOP_PC_OFFSET_REG_CNT_1[1].fields[1].type = "REG_5"
    BY DEF LOOP_PC_OFFSET_REG_CNT_1, Single, Alternative, N, Field
  <2> QED BY <1>0, <2>1, <2>2
<1>10. Layout.LOOP_PC_OFFSET_LIT_8_CNT_1 # Layout.NOP
  <2>1. Layout.LOOP_PC_OFFSET_LIT_8_CNT_1 = LOOP_PC_OFFSET_LIT_8_CNT_1
    BY DEF Layout
  <2>2. LOOP_PC_OFFSET_LIT_8_CNT_1[1].fields[1].type = "LITERAL_8_INT"
    BY DEF LOOP_PC_OFFSET_LIT_8_CNT_1, Single, Alternative, N, Field
  <2> QED BY <1>0, <2>1, <2>2
<1>11. Layout.PC_SET_REG_1 # Layout.NOP
  <2>1. Layout.PC_SET_REG_1 = PC_SET_REG_1
    BY DEF Layout
  <2>2. PC_SET_REG_1[1].fields[1].type = "LITERAL_8"
    BY DEF PC_SET_REG_1, Single, Alternative, N, Field
  <2> QED BY <1>0, <2>1, <2>2
<1>12. Layout.STACK_UNK_1 # Layout.NOP
  <2>1. Layout.STACK_UNK_1 = STACK_UNK_1
    BY DEF Layout
  <2>2. STACK_UNK_1[1].fields[1].type = "REG_11"
    BY DEF STACK_UNK_1, Single, Alternative, D, S, Field
  <2> QED BY <1>0, <2>1, <2>2
<1>13. Layout.INTERRUPT_CLR_1 # Layout.NOP
  <2>1. Layout.INTERRUPT_CLR_1 = INTERRUPT_CLR_1
    BY DEF Layout
  <2>2. INTERRUPT_CLR_1[1].fields[1].type = "LITERAL_8"
    BY DEF INTERRUPT_CLR_1, Single, Alternative, N, Field
  <2> QED BY <1>0, <2>1, <2>2
<1> QED
  BY <1>1, <1>2, <1>3, <1>4, <1>5, <1>6, <1>7, <1>8, <1>9, <1>10, <1>11, <1>12, <1>13 DEF OneWord

LEMMA FormInfo ==
  ASSUME NEW form \in Forms
  PROVE  \E info \in Range(asm_ops), len \in {1, 2, 4} :
           form = [op |-> info.op, name |-> info.name, mdfr |-> info.mdfr,
                   swap |-> info.swap, len |-> len,
                   layout |-> Layout[info.layouts[LEN_IDS[len]]]]
BY SMT DEF Forms

LEMMA FormRow ==
  ASSUME NEW form \in Forms
  PROVE  \E info : /\ IsRow(info)
                   /\ form.op = info.op /\ form.name = info.name
                   /\ form.mdfr = info.mdfr /\ form.swap = info.swap
                   /\ form.len \in {1, 2, 4}
                   /\ form.layout = Layout[info.layouts[LEN_IDS[form.len]]]
<1>1. PICK info \in Range(asm_ops), len \in {1, 2, 4} :
        form = [op |-> info.op, name |-> info.name, mdfr |-> info.mdfr,
                swap |-> info.swap, len |-> len,
                layout |-> Layout[info.layouts[LEN_IDS[len]]]]
  BY FormInfo, Zenon
<1>2. PICK i \in DOMAIN asm_ops : info = asm_ops[i]
  BY Zenon DEF Range
<1>3. IsRow(info)
  <2>1. /\ asm_ops = [k \in 1 .. Len(asm_ops) |-> asm_ops[k]]
        /\ \A k \in 1 .. Len(asm_ops) : IsRow(asm_ops[k])
    BY AllKnown, Zenon DEF Known
  <2>2. DOMAIN asm_ops = 1 .. Len(asm_ops)
    BY <2>1, Zenon
  <2> QED BY <1>2, <2>1, <2>2, Zenon
<1>4. /\ form.op = info.op /\ form.name = info.name /\ form.mdfr = info.mdfr
      /\ form.swap = info.swap /\ form.len = len
      /\ form.layout = Layout[info.layouts[LEN_IDS[len]]]
  BY <1>1, Zenon
<1> QED BY <1>3, <1>4, Zenon

LEMMA FormNamed ==
  ASSUME NEW form \in Forms
  PROVE  form.name \in Names /\ form \in Named[form.name]
<1>1. PICK info \in Range(asm_ops), len \in {1, 2, 4} :
        form = [op |-> info.op, name |-> info.name, mdfr |-> info.mdfr,
                swap |-> info.swap, len |-> len,
                layout |-> Layout[info.layouts[LEN_IDS[len]]]]
  BY FormInfo, Zenon
<1>2. form.name = info.name
  BY <1>1, Zenon
<1>3. form.name \in Names
  BY <1>2, Zenon DEF Names
<1> QED BY <1>3, Zenon DEF Named

(* An operation of one word without operands is the only one of its name. *)
LEMMA NopForm ==
  ASSUME NEW form \in Forms, form.len = 1, form.layout = Layout.NOP
  PROVE  /\ form.name \in NopNames /\ form.op = NumberOf[form.name]
         /\ form.mdfr = "NONE"
<1>1. PICK info : /\ IsRow(info)
                  /\ form.op = info.op /\ form.name = info.name
                  /\ form.mdfr = info.mdfr
                  /\ form.layout = Layout[info.layouts[LEN_IDS[form.len]]]
  BY FormRow
<1>2. LEN_IDS[1] = 1
  BY DEF LEN_IDS
<1>3. Layout[info.layouts[1]] = Layout.NOP
  BY <1>1, <1>2
<1>4. ~IsOther(info)
  BY <1>3, OneWordIsNotNop, Zenon DEF IsOther
<1> QED BY <1>1, <1>4, Zenon DEF IsRow, IsNop

LEMMA NamedNop ==
  ASSUME NEW form \in Forms, form.name \in NopNames
  PROVE  form.op = NumberOf[form.name]
<1>1. PICK info : /\ IsRow(info)
                  /\ form.op = info.op /\ form.name = info.name
  BY FormRow
<1> QED BY <1>1, Zenon DEF IsRow, IsNop, IsOther

LEMMA NumberIsInt == \A name \in NopNames : NumberOf[name] \in Int
BY SMT DEF NopNames, NumberOf

(***************************************************************************)
(* What the disassembler prints.                                           *)
(***************************************************************************)
LEMMA BitsOfFirst ==
  ASSUME NEW op \in [1 .. 4 -> Word], NEW b \in 0 .. 24
  PROVE  b \in BitsOf(op) <=> b \in op[1]
<1>1. b \in BitsOf(op) <=> \E i \in DOMAIN op : \E c \in op[i] : b = 25 * (i - 1) + c
  <2> DEFINE word(i) == {25 * (i - 1) + c : c \in op[i]}
  <2>1. b \in BitsOf(op) <=> \E i \in DOMAIN op : b \in word(i)
    BY SMT DEF BitsOf
  <2>2. \A i : b \in word(i) <=> \E c \in op[i] : b = 25 * (i - 1) + c
    BY SMT
  <2> HIDE DEF word
  <2> QED BY <2>1, <2>2
<1>2. ASSUME NEW i \in DOMAIN op, NEW c \in op[i], b = 25 * (i - 1) + c
      PROVE  i = 1 /\ b = c
  <2>1. i \in 1 .. 4 /\ c \in 0 .. 24
    BY DEF Word
  <2> QED BY <1>2, <2>1, SMT
<1>3. ASSUME b \in op[1] PROVE b \in BitsOf(op)
  <2>1. 1 \in DOMAIN op /\ b = 25 * (1 - 1) + b
    BY SMT
  <2> QED BY <1>1, <1>3, <2>1
<1>4. ASSUME b \in BitsOf(op) PROVE b \in op[1]
  <2>1. PICK i \in DOMAIN op : \E c \in op[i] : b = 25 * (i - 1) + c
    BY <1>1, <1>4
  <2>2. PICK c \in op[i] : b = 25 * (i - 1) + c
    BY <2>1
  <2> QED BY <1>2, <2>2
<1> QED BY <1>3, <1>4

LEMMA OpLenOfBits ==
  ASSUME NEW op \in [1 .. 4 -> Word]
  PROVE  OpLen(BitsOf(op)) = OpLen(op[1])
<1>1. 0 \in BitsOf(op) <=> 0 \in op[1]
  BY BitsOfFirst
<1>2. 1 \in BitsOf(op) <=> 1 \in op[1]
  BY BitsOfFirst
<1> QED BY <1>1, <1>2, Zenon DEF OpLen

(* What an entry of the listing is. *)
IsEntry(entry) ==
  \E op \in [1 .. 4 -> Word] :
    entry.item \in Shown(BitsOf(op)) /\ Len(entry.words) = OpLen(op[1])

LEMMA ShownLine ==
  ASSUME NEW bits, NEW item \in Shown(bits)
  PROVE  \/ item.kind \in {"unknown", "bare"}
         \/ /\ item.kind = "line"
            /\ \E form \in Forms : \E alt :
                 form.len = OpLen(bits) /\ item.line = Disassembled(bits, form, alt)
<1>1. CASE ShownOps(bits) # {}
  <2>1. PICK op \in ShownOps(bits) :
          item = Item("line", Disassembled(bits, op.form, op.alt))
    BY <1>1, Zenon DEF Shown
  <2>2. PICK form \in KnownOps(bits) : op = [form |-> form, alt |-> AltOf(form.layout, bits)]
    BY <2>1, Zenon DEF ShownOps
  <2>3. form.len = OpLen(bits)
    BY <2>2, Zenon DEF KnownOps
  <2>4. form \in Forms
    <3>1. OpNumber(bits) \in 0 .. 255 /\ form \in Numbered[OpNumber(bits)]
      BY <2>2, Zenon DEF KnownOps
    <3> QED BY <3>1, Zenon DEF Numbered
  <2>5. item.kind = "line" /\ item.line = Disassembled(bits, form, op.alt)
    BY <2>1, <2>2 DEF Item
  <2> QED BY <2>3, <2>4, <2>5, Zenon
<1>2. CASE ShownOps(bits) = {}
  <2>1. \E kind \in {"unknown", "bare"} : item = Item(kind, NoLine)
    BY <1>2, Zenon DEF Shown
  <2> QED BY <2>1 DEF Item
<1> QED BY <1>1, <1>2

(* An entry that keeps its length is given that length again. *)
LEMMA EntryLength ==
  ASSUME NEW entry, IsEntry(entry), KeepsLength(entry), entry.item.kind = "line",
         NEW c \in Choice(entry.item.line)
  PROVE  c.form.len = Len(entry.words)
<1> PICK line : line = entry.item.line
  OBVIOUS
<1>1. PICK op \in [1 .. 4 -> Word] :
        entry.item \in Shown(BitsOf(op)) /\ Len(entry.words) = OpLen(op[1])
  BY DEF IsEntry
<1> PICK bits : bits = BitsOf(op)
  OBVIOUS
<1>2. PICK form \in Forms : \E alt :
        form.len = OpLen(bits) /\ line = Disassembled(bits, form, alt)
  <2>1. \/ entry.item.kind \in {"unknown", "bare"}
        \/ \E form \in Forms : \E alt :
             form.len = OpLen(bits) /\ line = Disassembled(bits, form, alt)
    BY <1>1, ShownLine, Zenon
  <2> QED BY <2>1
<1>3. PICK alt : form.len = OpLen(bits) /\ line = Disassembled(bits, form, alt)
  BY <1>2
<1>4. form.len = Len(entry.words)
  BY <1>1, <1>3, OpLenOfBits
<1>0. c \in Choice(line)
  OBVIOUS
<1>5. PICK chosen \in Forms : \E k \in LayoutFits(line, chosen) :
        /\ c = [form |-> chosen, alt |-> chosen.layout[k]]
        /\ chosen.name = line.op /\ MdfrFits(line, chosen)
        /\ chosen.len \in AllowedLens(line)
        /\ \A d \in OpFits(line) :
             LET own == [form |-> chosen, alt |-> k]
             IN own = d \/ Before(own, d)
  BY ONLY <1>0, Chosen, Zenon
<1>6. PICK k \in LayoutFits(line, chosen) :
        /\ c = [form |-> chosen, alt |-> chosen.layout[k]]
        /\ chosen.name = line.op
        /\ chosen.len \in AllowedLens(line)
        /\ \A d \in OpFits(line) :
             LET own == [form |-> chosen, alt |-> k]
             IN own = d \/ Before(own, d)
  BY <1>5
<1>7. c.form.len = chosen.len
  BY <1>6
<1>8. CASE form.layout # Layout.NOP
  <2>1. line.len = form.len
    BY <1>3, <1>8 DEF Disassembled, Line
  <2>2. line.len # 0
    BY <2>1, FormLen
  <2>3. AllowedLens(line) = {line.len}
    BY <2>2, Zenon DEF AllowedLens
  <2> QED BY <1>4, <1>6, <1>7, <2>1, <2>3
<1>9. CASE form.layout = Layout.NOP
  <2>1. line.args = <<>> /\ line.len = 0 /\ line.op = form.name /\ line.mdfr = "NONE"
        /\ (form.len = 1 => line.par = {})
    BY <1>3, <1>9 DEF Disassembled, Line
  <2>2. form.len = 1
    BY <1>4, <2>1 DEF KeepsLength
  <2>3. /\ form.name \in NopNames /\ form.op = NumberOf[form.name]
        /\ form.mdfr = "NONE"
    BY <1>9, <2>2, NopForm
  <2>4. chosen.op = form.op
    BY <1>6, <2>1, <2>3, NamedNop
  <2> DEFINE d == [form |-> form, alt |-> 1]
             own == [form |-> chosen, alt |-> k]
  <2>5. d \in OpFits(line)
    <3>1. MdfrFits(line, form)
      BY <2>1, <2>3 DEF MdfrFits, Hints
    <3>2. form.len \in AllowedLens(line)
      BY <2>1, <2>2 DEF AllowedLens
    <3>3. LayoutFits(line, form) = {1}
      BY <1>9, <2>1, Zenon DEF LayoutFits
    <3>4. form \in Named[line.op] /\ line.op \in Names
      BY <2>1, FormNamed
    <3>5. d \in Found(form, LayoutFits(line, form))
      BY <3>3, Zenon DEF Found
    <3> HIDE DEF d
    <3> QED BY <3>1, <3>2, <3>4, <3>5, Zenon DEF OpFits
  <2>6. own = d \/ Before(own, d)
    BY <1>6, <2>5, Zenon
  <2>7. own.form = chosen /\ d.form = form
    OBVIOUS
  <2>8. CASE own = d
    BY <1>4, <1>7, <2>7, <2>8
  <2>9. CASE Before(own, d)
    <3>1. chosen.op \in Int
      BY <2>3, <2>4, NumberIsInt
    <3>2. ~(chosen.op < form.op)
      BY <2>4, <3>1, SMT
    <3>3. ~(chosen.len < 1)
      BY FormLen
    <3> HIDE DEF own, d
    <3>4. chosen = form
      BY <2>2, <2>7, <2>9, <3>2, <3>3, Zenon DEF Before
    <3> QED BY <1>4, <1>7, <3>4
  <2> QED BY <2>6, <2>8, <2>9, Zenon
<1> QED BY <1>8, <1>9

(***************************************************************************)
(* The addresses are kept.                                                 *)
(***************************************************************************)
AddrOf(k) == IF k \in DOMAIN listing THEN listing[k].addr ELSE cur_addr

(* The entries are operations, one behind the other from address 0 on. *)
Contiguous ==
  /\ AddrOf(1) = 0
  /\ \A k \in DOMAIN listing :
       /\ IsEntry(listing[k]) /\ AddrOf(k) \in Nat
       /\ AddrOf(k + 1) = AddrOf(k) + Len(listing[k].words)

(* What is assembled again is the listing. *)
Given ==
  /\ again => text = [k \in DOMAIN listing |-> listing[k].item]
  /\ status = "done" => again

(* The entries read so far were written at the addresses they had. *)
Back ==
  /\ read \in 0 .. Len(listing) /\ pending = FALSE
  /\ status = "done" => read = Len(listing)
  /\ Len(file) = AddrOf(read + 1)
  /\ written = [k \in 1 .. read |-> [item |-> k, addr |-> AddrOf(k)]]

AllKeep == \A k \in DOMAIN listing : KeepsLength(listing[k])
PutBack == again /\ status \in {"assembling", "done"} /\ AllKeep => Back

KeptInv == ListInv /\ Contiguous /\ Given /\ PutBack

(* What leaves the listing alone. *)
LEMMA AddressesStay ==
  ASSUME UNCHANGED listed
  PROVE  /\ \A k : AddrOf(k)' = AddrOf(k)
         /\ Contiguous => Contiguous'
         /\ AllKeep' <=> AllKeep
BY DEF listed, AddrOf, Contiguous, AllKeep

(* One operation more is listed behind the others. *)
LEMMA ListOpContiguous ==
  ASSUME ListInv, Contiguous, ListOp
  PROVE  Contiguous'
<1>0. Typed
  BY DEF ListInv
<1>a. PICK len \in {1, 2, 4} : \E entry :
        /\ listing' = Append(listing, entry)
        /\ entry.words \in Seq(Word) /\ Len(entry.words) = len
        /\ entry.addr = cur_addr /\ cur_addr' = cur_addr + len
        /\ entry.item \in Shown(BitsOf(cur_op')) /\ len = OpLen(cur_op'[1])
        /\ cur_op' \in [1 .. 4 -> Word]
  BY <1>0, ListOpEntry
<1>1. PICK entry :
        /\ listing' = Append(listing, entry)
        /\ entry.words \in Seq(Word) /\ Len(entry.words) = len
        /\ entry.addr = cur_addr /\ cur_addr' = cur_addr + len
        /\ entry.item \in Shown(BitsOf(cur_op')) /\ len = OpLen(cur_op'[1])
        /\ cur_op' \in [1 .. 4 -> Word]
  BY <1>a
<1>2. IsEntry(entry)
  <2>1. PICK op \in [1 .. 4 -> Word] : op = cur_op'
    BY <1>1
  <2>2. entry.item \in Shown(BitsOf(op)) /\ Len(entry.words) = OpLen(op[1])
    BY <1>1, <2>1
  <2> QED BY <2>2, Zenon DEF IsEntry
<1> PICK n : n = Len(listing)
  OBVIOUS
<1>3. n \in Nat /\ DOMAIN listing = 1 .. n /\ cur_addr \in Nat
  BY <1>0, ListingIsSeq DEF Typed
<1>4. /\ DOMAIN listing' = 1 .. n + 1
      /\ \A k \in 1 .. n : listing'[k] = listing[k]
      /\ listing'[n + 1] = entry
  BY <1>0, <1>1, OneEntryMore
<1>5. \A k \in 1 .. n : AddrOf(k) = listing[k].addr /\ AddrOf(k)' = listing[k].addr
  <2> SUFFICES ASSUME NEW k \in 1 .. n
               PROVE  AddrOf(k) = listing[k].addr /\ AddrOf(k)' = listing[k].addr
    OBVIOUS
  <2>1. k \in 1 .. n + 1
    BY <1>3
  <2> QED BY <1>3, <1>4, <2>1 DEF AddrOf
<1>6. AddrOf(n + 1) = cur_addr /\ AddrOf(n + 1)' = cur_addr
  <2>1. n + 1 \notin 1 .. n /\ n + 1 \in 1 .. n + 1
    BY <1>3
  <2> QED BY <1>1, <1>3, <1>4, <2>1 DEF AddrOf
<1>7. AddrOf(n + 2)' = cur_addr + len
  <2>1. n + 2 \notin 1 .. n + 1
    BY <1>3
  <2> QED BY <1>1, <1>4, <2>1 DEF AddrOf
<1>8. \A k \in 1 .. n + 1 : AddrOf(k)' = AddrOf(k)
  <2> SUFFICES ASSUME NEW k \in 1 .. n + 1 PROVE AddrOf(k)' = AddrOf(k)
    OBVIOUS
  <2>1. k \in 1 .. n \/ k = n + 1
    BY <1>3
  <2> QED BY <1>5, <1>6, <2>1
<1>9. AddrOf(1)' = 0
  <2>1. 1 \in 1 .. n + 1
    BY <1>3
  <2> QED BY <1>8, <2>1 DEF Contiguous
<1>10. ASSUME NEW k \in 1 .. n + 1
       PROVE  /\ IsEntry(listing'[k]) /\ AddrOf(k)' \in Nat
              /\ AddrOf(k + 1)' = AddrOf(k)' + Len(listing'[k].words)
  <2>1. CASE k \in 1 .. n
    <3>1. /\ IsEntry(listing[k]) /\ AddrOf(k) \in Nat
          /\ AddrOf(k + 1) = AddrOf(k) + Len(listing[k].words)
      BY <1>3, <2>1 DEF Contiguous
    <3>2. k + 1 \in 1 .. n + 1
      BY <1>3, <2>1
    <3> QED BY <1>4, <1>8, <2>1, <3>1, <3>2
  <2>2. CASE k = n + 1
    <3>1. k + 1 = n + 2
      BY <1>3, <2>2
    <3> QED BY <1>1, <1>2, <1>3, <1>4, <1>6, <1>7, <2>2, <3>1
  <2> QED BY <1>3, <2>1, <2>2
<1>11. \A k \in DOMAIN listing' : IsEntry(listing'[k])
  BY <1>4, <1>10
<1>12. IsEntry(entry)' <=> IsEntry(entry)
  BY DEF IsEntry
<1> QED BY <1>4, <1>9, <1>10 DEF Contiguous

(* An entry of the listing is put back. *)
LEMMA AppendMap ==
  ASSUME NEW n \in Nat, NEW f, NEW g,
         f = [k \in 1 .. n |-> g[k]]
  PROVE  Append(f, g[n + 1]) = [k \in 1 .. n + 1 |-> g[k]]
OBVIOUS

LEMMA WriteBack ==
  ASSUME ListInv, Contiguous, Back, AllKeep, status = "assembling",
         read < Len(listing), NEW words \in Seq(Word), Write(words),
         Len(words) = Len(listing[read + 1].words)
  PROVE  Back'
<1>0. Typed /\ file \in Seq(Word)
  BY DEF ListInv, Typed
<1>1. /\ file' = file \o words /\ status' = status /\ UNCHANGED listed
      /\ written' = Append(written, [item |-> read + 1, addr |-> Len(file)])
      /\ read' = read + 1 /\ pending' = FALSE
  BY DEF Write
<1>2. Len(listing) \in Nat /\ DOMAIN listing = 1 .. Len(listing)
  BY <1>0, ListingIsSeq
<1> PICK r : r = read
  OBVIOUS
<1>3. r \in Nat /\ r + 1 \in 1 .. Len(listing)
  BY <1>2 DEF Back
<1>4. AddrOf(r + 2) = AddrOf(r + 1) + Len(words)
  <2>1. AddrOf(r + 1 + 1) = AddrOf(r + 1) + Len(listing[r + 1].words)
    BY <1>2, <1>3 DEF Contiguous
  <2>2. r + 1 + 1 = r + 2
    BY <1>3
  <2> QED BY <2>1, <2>2
<1>5. Len(file') = AddrOf(r + 2)
  <2>1. Len(file') = Len(file) + Len(words)
    BY <1>0, <1>1, ConcatProperties
  <2> QED BY <1>4, <2>1 DEF Back
<1>6. Len(file)' = AddrOf(read + 1)'
  <2>1. \A k : AddrOf(k)' = AddrOf(k)
    BY <1>1, AddressesStay
  <2>2. read' + 1 = r + 2
    BY <1>1, <1>3
  <2> PICK x : x = AddrOf(r + 2)
    OBVIOUS
  <2>3. AddrOf(r + 2)' = x
    BY <2>1
  <2> QED BY <1>5, <2>2, <2>3 DEF AddrOf
<1>7. written' = [k \in 1 .. r + 1 |-> [item |-> k, addr |-> AddrOf(k)]]
  <2> PICK g : g = [k \in 1 .. r + 1 |-> [item |-> k, addr |-> AddrOf(k)]]
    OBVIOUS
  <2>1. r + 1 \in 1 .. r + 1 /\ \A k \in 1 .. r : k \in 1 .. r + 1
    BY <1>3
  <2>2. written = [k \in 1 .. r |-> g[k]]
    BY <2>1 DEF Back
  <2>3. g[r + 1] = [item |-> r + 1, addr |-> Len(file)]
    BY <2>1 DEF Back
  <2>4. Append(written, g[r + 1]) = [k \in 1 .. r + 1 |-> g[k]]
    BY <1>3, <2>2, AppendMap
  <2>5. g = [k \in 1 .. r + 1 |-> g[k]]
    OBVIOUS
  <2> QED BY <1>1, <2>3, <2>4, <2>5
<1>8. written' = [k \in 1 .. read' |-> [item |-> k, addr |-> AddrOf(k)']]
  <2>1. \A k : AddrOf(k)' = AddrOf(k)
    BY <1>1, AddressesStay
  <2> QED BY <1>1, <1>7, <2>1
<1>9. read' \in 0 .. Len(listing)' /\ pending' = FALSE /\ status' # "done"
  BY <1>1, <1>2, <1>3 DEF listed
<1> QED BY <1>6, <1>8, <1>9 DEF Back

LEMMA KindOfEntry ==
  ASSUME NEW entry, IsEntry(entry)
  PROVE  entry.item.kind \in {"line", "unknown", "bare"}
<1>1. PICK op \in [1 .. 4 -> Word] : entry.item \in Shown(BitsOf(op))
  BY DEF IsEntry
<1> QED BY <1>1, ShownLine, Zenon

(* The next item is that of the next entry. *)
LEMMA NextItem ==
  ASSUME ListInv, Contiguous, Given, again, status = "assembling",
         NEW kind, Reading(kind)
  PROVE  /\ read < Len(listing) \/ read \notin 0 .. Len(listing)
         /\ read \in 0 .. Len(listing) =>
              /\ read + 1 \in DOMAIN listing
              /\ text[read + 1] = listing[read + 1].item
              /\ IsEntry(listing[read + 1])
              /\ listing[read + 1].item.kind = kind
<1>1. Len(listing) \in Nat /\ DOMAIN listing = 1 .. Len(listing)
  BY ListingIsSeq DEF ListInv
<1>2. text = [k \in 1 .. Len(listing) |-> listing[k].item]
  BY <1>1 DEF Given
<1>3. Len(text) = Len(listing)
  BY <1>1, <1>2
<1>4. read < Len(listing) /\ text[read + 1].kind = kind
  BY <1>3 DEF Reading
<1>5. ASSUME read \in 0 .. Len(listing)
      PROVE  /\ read + 1 \in DOMAIN listing
             /\ text[read + 1] = listing[read + 1].item
  <2>1. read + 1 \in 1 .. Len(listing)
    BY <1>1, <1>4, <1>5
  <2> QED BY <1>1, <1>2, <2>1
<1> QED BY <1>4, <1>5 DEF Contiguous

(* What the assembler does with a listing. *)
LEMMA AssemblingKeepsAddresses ==
  ASSUME KeptInv, status = "assembling", UNCHANGED <<listed, text, again>>,
         status' = status \/ (again /\ status' \in {"done", "refused", "died"})
           \/ (~again /\ status' = "listing"),
         again /\ AllKeep /\ Back /\ status' \in {"assembling", "done"} => Back'
  PROVE  Contiguous' /\ Given' /\ PutBack'
<1>1. Contiguous' /\ (AllKeep' <=> AllKeep)
  BY AddressesStay DEF KeptInv
<1>2. Given'
  BY DEF KeptInv, Given, listed
<1>3. PutBack'
  BY <1>1 DEF KeptInv, PutBack
<1> QED BY <1>1, <1>2, <1>3

LEMMA AssembleLineKeepsAddresses ==
  ASSUME KeptInv, AssembleLine
  PROVE  Contiguous' /\ Given' /\ PutBack'
<1>1. /\ Reading("line") /\ status = "assembling"
      /\ UNCHANGED <<listed, text, again, status>>
  BY DEF AssembleLine, Reading, Write
<1>2. PICK c \in Choice(ReadLine) :
        Write(WordsOf(OpWords(ReadLine, c.form, c.alt), c.form.len))
  BY DEF AssembleLine
<1>3. ASSUME again, AllKeep, Back PROVE Back'
  <2>1. /\ read < Len(listing) /\ read + 1 \in DOMAIN listing
        /\ text[read + 1] = listing[read + 1].item
        /\ IsEntry(listing[read + 1]) /\ listing[read + 1].item.kind = "line"
    BY <1>1, <1>3, NextItem DEF KeptInv, Back
  <2>2. PICK entry : entry = listing[read + 1]
    OBVIOUS
  <2>3. /\ IsEntry(entry) /\ KeepsLength(entry) /\ entry.item.kind = "line"
    BY <1>3, <2>1, <2>2 DEF AllKeep
  <2>4. ReadLine = entry.item.line
    BY <1>3, <2>1, <2>2 DEF ReadLine, ThisLine, Back
  <2>5. c \in Choice(entry.item.line)
    BY <2>4
  <2>6. c.form.len = Len(entry.words)
    BY <2>3, <2>5, EntryLength
  <2>7. c.form.len \in {1, 2, 4}
    BY <1>2, WrittenType
  <2>8. PICK words : words = WordsOf(OpWords(ReadLine, c.form, c.alt), c.form.len)
    OBVIOUS
  <2>9. words \in Seq(Word) /\ Len(words) = Len(entry.words)
    BY <2>6, <2>7, <2>8, WordsOfType
  <2>10. Write(words)
    BY <1>2, <2>8
  <2> QED BY <1>1, <1>3, <2>1, <2>2, <2>9, <2>10, WriteBack DEF KeptInv
<1> QED BY <1>1, <1>3, AssemblingKeepsAddresses

LEMMA WriteZeroKeepsAddresses ==
  ASSUME KeptInv, AssembleExplicit \/ WriteZero
  PROVE  Contiguous' /\ Given' /\ PutBack'
<1>1. PICK kind \in {"explicit", "unknown"} : Reading(kind)
  BY DEF AssembleExplicit, WriteZero
<1>2. Write(<<{}>>) /\ status = "assembling" /\ UNCHANGED <<listed, text, again, status>>
  BY DEF AssembleExplicit, WriteZero, Reading, Write
<1>3. ASSUME again, AllKeep, Back PROVE Back'
  <2>1. /\ read < Len(listing) /\ read + 1 \in DOMAIN listing
        /\ IsEntry(listing[read + 1]) /\ listing[read + 1].item.kind = kind
    BY <1>1, <1>2, <1>3, NextItem DEF KeptInv, Back
  <2>2. kind = "unknown"
    BY <2>1, KindOfEntry
  <2>3. Len(listing[read + 1].words) = 1
    BY <1>3, <2>1, <2>2 DEF AllKeep, KeepsLength
  <2>4. PICK words : words = <<{}>>
    OBVIOUS
  <2>5. words \in Seq(Word) /\ Len(words) = 1
    BY <2>4 DEF Word
  <2> QED BY <1>2, <1>3, <2>1, <2>3, <2>4, <2>5, WriteBack DEF KeptInv
<1> QED BY <1>2, <1>3, AssemblingKeepsAddresses

LEMMA ReadOnKeepsAddresses ==
  ASSUME KeptInv, ReadOn
  PROVE  Contiguous' /\ Given' /\ PutBack'
<1>1. /\ Reading("bare") /\ status = "assembling"
      /\ UNCHANGED <<listed, text, again, status>>
  BY DEF ReadOn, Reading
<1>2. ~(again /\ AllKeep /\ Back)
  <2> SUFFICES ASSUME again, AllKeep, Back PROVE FALSE
    OBVIOUS
  <2>1. /\ read + 1 \in DOMAIN listing /\ listing[read + 1].item.kind = "bare"
    BY <1>1, NextItem DEF KeptInv, Back
  <2> QED BY <2>1 DEF AllKeep, KeepsLength
<1> QED BY <1>1, <1>2, AssemblingKeepsAddresses

LEMMA EndingKeepsAddresses ==
  ASSUME KeptInv, EndOfText \/ Refuse \/ Die
  PROVE  Contiguous' /\ Given' /\ PutBack'
<1>1. /\ status = "assembling" /\ UNCHANGED <<listed, text, again>>
      /\ \/ EndOfText /\ UNCHANGED assembling /\ read = Len(text) /\ Leave("done")
         \/ Leave("refused")
         \/ Leave("died")
  BY DEF EndOfText, Refuse, IsRefused, Reading, Die, assembling
<1>2. ASSUME again, AllKeep, Back, status' \in {"assembling", "done"} PROVE Back'
  <2>1. EndOfText /\ UNCHANGED assembling /\ read = Len(text) /\ status' = "done"
    BY <1>1, <1>2 DEF Leave
  <2>2. DOMAIN listing = 1 .. Len(listing) /\ Len(listing) \in Nat
    BY ListingIsSeq DEF KeptInv, ListInv
  <2>3. text = [k \in 1 .. Len(listing) |-> listing[k].item]
    BY <1>2, <2>2 DEF KeptInv, Given
  <2>4. read = Len(listing)
    BY <2>1, <2>2, <2>3
  <2>5. \A k : AddrOf(k)' = AddrOf(k)
    BY <1>1, AddressesStay
  <2>6. written' = [k \in 1 .. read |-> [item |-> k, addr |-> AddrOf(k)']]
    BY <1>2, <2>1, <2>5 DEF Back, assembling
  <2>7. Len(file)' = AddrOf(read + 1)'
    <3>1. PICK r : r = read
      OBVIOUS
    <3>2. AddrOf(r + 1)' = AddrOf(r + 1)
      BY <2>5
    <3>3. Len(file') = AddrOf(r + 1) /\ read' = r
      BY <1>2, <2>1, <3>1 DEF Back, assembling
    <3> QED BY <3>2, <3>3 DEF AddrOf
  <2>8. read' = read /\ pending' = pending /\ listing' = listing
    BY <1>1, <2>1 DEF assembling, listed
  <2> QED BY <1>2, <2>4, <2>6, <2>7, <2>8 DEF Back
<1>3. status' = status \/ (again /\ status' \in {"done", "refused", "died"})
        \/ (~again /\ status' = "listing")
  BY <1>1 DEF Leave, KeptInv, ListInv, Typed
<1> QED BY <1>1, <1>2, <1>3, AssemblingKeepsAddresses

LEMMA ReassembleKeepsAddresses ==
  ASSUME KeptInv, Reassemble
  PROVE  Contiguous' /\ Given' /\ PutBack'
<1>1. /\ UNCHANGED listed /\ text' = [k \in DOMAIN listing |-> listing[k].item]
      /\ read' = 0 /\ pending' = FALSE /\ file' = <<>> /\ written' = <<>>
      /\ status' = "assembling" /\ again' = TRUE
  BY DEF Reassemble
<1>2. Contiguous' /\ \A k : AddrOf(k)' = AddrOf(k)
  BY <1>1, AddressesStay DEF KeptInv
<1>3. Given'
  BY <1>1 DEF Given, listed
<1>4. Back'
  <2>1. Len(listing) \in Nat
    BY ListingIsSeq DEF KeptInv, ListInv
  <2>2. read' \in 0 .. Len(listing)'
    BY <1>1, <2>1 DEF listed
  <2>3. AddrOf(read + 1)' = 0
    <3>1. AddrOf(1)' = 0
      BY <1>2 DEF KeptInv, Contiguous
    <3>2. read' + 1 = 1
      BY <1>1
    <3> QED BY <3>1, <3>2 DEF AddrOf
  <2>4. Len(file)' = 0
    BY <1>1
  <2>5. written' = [k \in 1 .. read' |-> [item |-> k, addr |-> AddrOf(k)']]
    BY <1>1
  <2> QED BY <1>1, <2>2, <2>3, <2>4, <2>5 DEF Back
<1> QED BY <1>2, <1>3, <1>4 DEF PutBack

LEMMA KeptStep == KeptInv /\ [Next]_vars => KeptInv'
<1> SUFFICES ASSUME KeptInv, [Next]_vars PROVE KeptInv'
  OBVIOUS
<1>0. ListInv' /\ Once
  BY ListInvStep DEF KeptInv, ListInv
<1>1. CASE AssembleLine
  BY <1>0, <1>1, AssembleLineKeepsAddresses DEF KeptInv
<1>2. CASE AssembleExplicit \/ WriteZero
  BY <1>0, <1>2, WriteZeroKeepsAddresses DEF KeptInv
<1>3. CASE ReadOn
  BY <1>0, <1>3, ReadOnKeepsAddresses DEF KeptInv
<1>4. CASE EndOfText \/ Refuse \/ Die
  BY <1>0, <1>4, EndingKeepsAddresses DEF KeptInv
<1>5. CASE CutShort \/ EndOfFile
  <2>1. UNCHANGED <<listed, again>> /\ ~again /\ status' # "done"
    BY <1>0, <1>5 DEF CutShort, EndOfFile, Once
  <2>2. Contiguous'
    BY <2>1, AddressesStay DEF KeptInv
  <2> QED BY <1>0, <2>1, <2>2 DEF KeptInv, Given, PutBack
<1>6. CASE ListOp
  <2>1. again' = again /\ ~again /\ status' # "done"
    BY <1>0, <1>6 DEF ListOp, Once
  <2>2. Contiguous'
    BY <1>6, ListOpContiguous DEF KeptInv
  <2> QED BY <1>0, <2>1, <2>2 DEF KeptInv, Given, PutBack
<1>7. CASE Reassemble
  BY <1>0, <1>7, ReassembleKeepsAddresses DEF KeptInv
<1>8. CASE UNCHANGED vars
  <2>1. UNCHANGED <<listed, assembling, status, again>>
    BY <1>8 DEF vars, listed, assembling
  <2>2. Contiguous' /\ (AllKeep' <=> AllKeep) /\ \A k : AddrOf(k)' = AddrOf(k)
    BY <2>1, AddressesStay DEF KeptInv
  <2>3. Given'
    BY <2>1 DEF KeptInv, Given, listed, assembling
  <2>4. Back' <=> Back
    BY <1>8 DEF vars, Back, AddrOf
  <2>5. PutBack'
    BY <2>1, <2>2, <2>4 DEF KeptInv, PutBack
  <2> QED BY <1>0, <2>2, <2>3, <2>5 DEF KeptInv
<1> QED
  BY <1>1, <1>2, <1>3, <1>4, <1>5, <1>6, <1>7, <1>8 DEF Next

LEMMA KeptInit == Init => KeptInv
<1> SUFFICES ASSUME Init PROVE KeptInv
  OBVIOUS
<1>1. ListInv
  BY ListInvInit
<1>2. cur_addr = 0 /\ listing = <<>> /\ again = FALSE /\ status # "done"
  BY DEF Init
<1>3. Contiguous
  BY <1>2 DEF Contiguous, AddrOf
<1> QED BY <1>1, <1>2, <1>3 DEF KeptInv, Given, PutBack

(* Whatever was listed and given back: entry by entry, the words written so
   far end where the entry began that comes next. *)
THEOREM KeptInductive == Spec => []KeptInv
<1> QED BY KeptInit, KeptStep, PTL DEF Spec

LEMMA KeptAddresses == KeptInv => AddressesKept
<1> SUFFICES ASSUME KeptInv, status = "done", AllKeep
             PROVE  /\ Len(file) = cur_addr
                    /\ \A k \in DOMAIN written :
                         written[k].addr = listing[written[k].item].addr
  BY DEF AddressesKept, AllKeep
<1>1. Back /\ read = Len(listing)
  BY DEF KeptInv, Given, PutBack, Back
<1>2. Len(listing) \in Nat /\ DOMAIN listing = 1 .. Len(listing)
  BY ListingIsSeq DEF KeptInv, ListInv
<1>3. Len(file) = cur_addr
  <2>1. Len(listing) + 1 \notin DOMAIN listing
    BY <1>2
  <2> QED BY <1>1, <2>1 DEF Back, AddrOf
<1>4. written = [k \in DOMAIN listing |-> [item |-> k, addr |-> listing[k].addr]]
  BY <1>1, <1>2 DEF Back, AddrOf
<1> QED BY <1>3, <1>4

(* A listing that is assembled again without a message gives every operation
   the address it had, for every text and every file. *)
THEOREM AddressesTheorem == Spec => []AddressesKept
BY KeptInductive, KeptAddresses, PTL

(***************************************************************************)
(* What the text of an operand tells of its type.                          *)
(***************************************************************************)
RegTypes == {"REG_2", "REG_3", "REG_3_Y_T1", "REG_4", "REG_5", "REG_5_MOVX",
             "REG_7", "REG_10", "REG_11", "A_REG_CALL", "A_REG_CALL_MDFR"}
LiteralTypes    == {"LITERAL_8_INT", "LITERAL_16", "LITERAL_32"}
MdfrOffsetTypes == {"A_REG_X_MDFR_OFFSET", "A_REG_Y_MDFR_OFFSET"}
LitOffsetTypes  ==
  {"A_REG_INT_7_OFFSET", "A_REG_INT_17_OFFSET", "A_REG_X_INT_11_OFFSET"}

MdfrOffsetTexts == {"IND_A_REG_X_MDFR_OFFSET", "IND_A_REG_Y_MDFR_OFFSET"}
LitOffsetTexts  == {"IND_A_REG_X_LIT_OFFSET", "IND_A_REG_Y_LIT_OFFSET"}

(* The texts that the operands of a set of types are taken from. *)
LEMMA RegText ==
  ASSUME NEW t \in RegTypes, NEW o, NEW twin, NEW mdfr, Fits(t, o, twin, mdfr)
  PROVE  o.type = "REG"
<1>1. CASE t = "REG_2"
  BY <1>1, SMT DEF Fits, Registers, Addresses, Offsets, Unsigned, Signed
<1>2. CASE t = "REG_3"
  BY <1>2, SMT DEF Fits, Registers, Addresses, Offsets, Unsigned, Signed
<1>3. CASE t = "REG_3_Y_T1"
  BY <1>3, SMT DEF Fits, Registers, Addresses, Offsets, Unsigned, Signed
<1>4. CASE t = "REG_4"
  BY <1>4, SMT DEF Fits, Registers, Addresses, Offsets, Unsigned, Signed
<1>5. CASE t = "REG_5"
  BY <1>5, SMT DEF Fits, Registers, Addresses, Offsets, Unsigned, Signed
<1>6. CASE t = "REG_5_MOVX"
  BY <1>6, SMT DEF Fits, Registers, Addresses, Offsets, Unsigned, Signed
<1>7. CASE t = "REG_7"
  BY <1>7, SMT DEF Fits, Registers, Addresses, Offsets, Unsigned, Signed
<1>8. CASE t = "REG_10"
  BY <1>8, SMT DEF Fits, Registers, Addresses, Offsets, Unsigned, Signed
<1>9. CASE t = "REG_11"
  BY <1>9, SMT DEF Fits, Registers, Addresses, Offsets, Unsigned, Signed
<1>10. CASE t = "A_REG_CALL"
  BY <1>10, SMT DEF Fits, Registers, Addresses, Offsets, Unsigned, Signed
<1>11. CASE t = "A_REG_CALL_MDFR"
  BY <1>11, SMT DEF Fits, Registers, Addresses, Offsets, Unsigned, Signed
<1> QED
  BY <1>1, <1>2, <1>3, <1>4, <1>5, <1>6, <1>7, <1>8, <1>9, <1>10, <1>11 DEF RegTypes

LEMMA LiteralText ==
  ASSUME NEW t \in LiteralTypes, NEW o, NEW twin, NEW mdfr, Fits(t, o, twin, mdfr)
  PROVE  o.type = "LITERAL"
<1>1. CASE t = "LITERAL_8_INT"
  BY <1>1, SMT DEF Fits, Registers, Addresses, Offsets, Unsigned, Signed
<1>2. CASE t = "LITERAL_16"
  BY <1>2, SMT DEF Fits, Registers, Addresses, Offsets, Unsigned, Signed, FitsLiteral16
<1>3. CASE t = "LITERAL_32"
  BY <1>3, SMT DEF Fits, Registers, Addresses, Offsets, Unsigned, Signed
<1> QED
  BY <1>1, <1>2, <1>3 DEF LiteralTypes

LEMMA AddressText ==
  ASSUME NEW o, NEW twin, NEW mdfr, Fits("LITERAL_16_ADDR", o, twin, mdfr)
  PROVE  o.type \in {"IND_LITERAL_X", "IND_LITERAL_Y"}
BY SMT DEF Fits, Registers, Addresses, Offsets, Unsigned, Signed

LEMMA MdfrOffsetText ==
  ASSUME NEW t \in MdfrOffsetTypes, NEW o, NEW twin, NEW mdfr, Fits(t, o, twin, mdfr)
  PROVE  o.type \in MdfrOffsetTexts
<1>1. CASE t = "A_REG_X_MDFR_OFFSET"
  BY <1>1, SMT DEF Fits, Registers, Addresses, Offsets, Unsigned, Signed, MdfrOffsetTexts
<1>2. CASE t = "A_REG_Y_MDFR_OFFSET"
  BY <1>2, SMT DEF Fits, Registers, Addresses, Offsets, Unsigned, Signed, MdfrOffsetTexts
<1> QED
  BY <1>1, <1>2 DEF MdfrOffsetTypes

LEMMA LitOffsetText ==
  ASSUME NEW t \in LitOffsetTypes, NEW o, NEW twin, NEW mdfr, Fits(t, o, twin, mdfr)
  PROVE  o.type \in LitOffsetTexts
<1>1. CASE t = "A_REG_INT_7_OFFSET"
  BY <1>1, SMT DEF Fits, Registers, Addresses, Offsets, Unsigned, Signed, LitOffsetTexts
<1>2. CASE t = "A_REG_INT_17_OFFSET"
  BY <1>2, SMT DEF Fits, Registers, Addresses, Offsets, Unsigned, Signed, LitOffsetTexts
<1>3. CASE t = "A_REG_X_INT_11_OFFSET"
  BY <1>3, SMT DEF Fits, Registers, Addresses, Offsets, Unsigned, Signed, LitOffsetTexts
<1> QED
  BY <1>1, <1>2, <1>3 DEF LitOffsetTypes

(***************************************************************************)
(* What a layout tells of the operands of a line that it takes.            *)
(***************************************************************************)
(* Operand i of every alternative has one of the types. *)
HasTypes(layout, i, types) ==
  \A k \in DOMAIN layout :
    i <= Len(layout[k].fields) /\ layout[k].fields[i].type \in types

(* The layouts of an operation, by the number of words. *)
LayoutsOf(layouts) == {Layout[layouts[LEN_IDS[len]]] : len \in {1, 2, 4}}

LEMMA NoneTypes == \A i, types : HasTypes(NONE, i, types)
<1>1. DOMAIN NONE = {}
  BY SMT DEF NONE
<1> QED BY <1>1, Zenon DEF HasTypes

LEMMA LenIds == LEN_IDS[1] = 1 /\ LEN_IDS[2] = 2 /\ LEN_IDS[4] = 3
BY DEF LEN_IDS

(* The types of fields, and the fields of alternatives. *)
LEMMA FieldType ==
  /\ \A type, at, n : N(type, at, n).type = type
  /\ \A type, at, n : D(type, at, n).type = type
  /\ \A type, at, n : S(type, at, n).type = type
  /\ \A type, at, n : X(type, at, n).type = type
  /\ \A type, at, n : Y(type, at, n).type = type
<1>1. \A dir, type, place : Field(dir, type, place).type = type
  BY SMT DEF Field
<1> QED BY <1>1, Zenon DEF N, D, S, X, Y

LEMMA FieldType2 ==
  /\ \A type, at, n, at2, n2 : D2(type, at, n, at2, n2).type = type
  /\ \A type, at, n, at2, n2 : S2(type, at, n, at2, n2).type = type
  /\ \A type, at, n, at2, n2 : X2(type, at, n, at2, n2).type = type
  /\ \A type, at, n, at2, n2 : Y2(type, at, n, at2, n2).type = type
<1>1. \A dir, type, place : Field(dir, type, place).type = type
  BY SMT DEF Field
<1> QED BY <1>1, Zenon DEF D2, S2, X2, Y2

(* Operand i of an alternative has one of the types. *)
Has(alt, i, types) == i <= Len(alt.fields) /\ alt.fields[i].type \in types

LEMMA AlternativeHas ==
  ASSUME NEW when, NEW opt, NEW ones, NEW first, NEW second, NEW types, NEW i \in Nat,
         first \in Seq(Range(first)), second \in Seq(Range(second)),
         1 <= i, i <= Len(first), first[i].type \in types
  PROVE  Has(Alternative(when, opt, ones, first, second), i, types)
<1>1. Alternative(when, opt, ones, first, second).fields = first \o second
  BY SMT DEF Alternative
<1>2. first \in Seq(Range(first) \union Range(second))
      /\ second \in Seq(Range(first) \union Range(second))
  OBVIOUS
<1>3. i <= Len(first \o second) /\ (first \o second)[i] = first[i]
  BY <1>2, SMT
<1> QED BY <1>1, <1>3, SMT DEF Has

LEMMA TuplesAreSeqs ==
  /\ <<>> \in Seq(Range(<<>>))
  /\ \A a, b : <<a, b>> \in Seq(Range(<<a, b>>)) /\ Len(<<a, b>>) = 2
               /\ <<a, b>>[1] = a /\ <<a, b>>[2] = b
  /\ \A a, b, c : <<a, b, c>> \in Seq(Range(<<a, b, c>>)) /\ Len(<<a, b, c>>) = 3
               /\ <<a, b, c>>[3] = c
BY SMT DEF Range

LEMMA TwoHave ==
  ASSUME NEW when, NEW opt, NEW ones, NEW a, NEW b, NEW second, NEW types,
         second \in Seq(Range(second))
  PROVE  /\ a.type \in types => Has(Alternative(when, opt, ones, <<a, b>>, second), 1, types)
         /\ b.type \in types => Has(Alternative(when, opt, ones, <<a, b>>, second), 2, types)
<1> DEFINE first == <<a, b>>
<1>1. first \in Seq(Range(first)) /\ Len(first) = 2 /\ first[1] = a /\ first[2] = b
  BY TuplesAreSeqs, Zenon
<1> HIDE DEF first
<1>2. ASSUME a.type \in types PROVE Has(Alternative(when, opt, ones, first, second), 1, types)
  <2>1. 1 \in Nat /\ 1 <= 1 /\ 1 <= Len(first)
    BY <1>1, SMT
  <2> QED BY <1>1, <1>2, <2>1, AlternativeHas
<1>3. ASSUME b.type \in types PROVE Has(Alternative(when, opt, ones, first, second), 2, types)
  <2>1. 2 \in Nat /\ 1 <= 2 /\ 2 <= Len(first)
    BY <1>1, SMT
  <2> QED BY <1>1, <1>3, <2>1, AlternativeHas
<1> QED BY <1>2, <1>3 DEF first

LEMMA ThreeHave ==
  ASSUME NEW when, NEW opt, NEW ones, NEW a, NEW b, NEW c, NEW second, NEW types,
         second \in Seq(Range(second)), c.type \in types
  PROVE  Has(Alternative(when, opt, ones, <<a, b, c>>, second), 3, types)
<1> DEFINE first == <<a, b, c>>
<1>1. first \in Seq(Range(first)) /\ Len(first) = 3 /\ first[3] = c
  BY TuplesAreSeqs, Zenon
<1> HIDE DEF first
<1>2. 3 \in Nat /\ 1 <= 3 /\ 3 <= Len(first)
  BY <1>1, SMT
<1>3. Has(Alternative(when, opt, ones, first, second), 3, types)
  BY <1>1, <1>2, AlternativeHas
<1> QED BY <1>3 DEF first

(* The alternatives with two and with three operands, and double ones. *)
LEMMA TwosHave ==
  ASSUME NEW when, NEW ones, NEW a, NEW b, NEW types
  PROVE  /\ a.type \in types =>
              /\ Has(Single(when, ones, <<a, b>>), 1, types)
              /\ Has(OptSingle(when, ones, <<a, b>>), 1, types)
              /\ \A c, d : /\ Has(Double(when, ones, <<a, b>>, <<c, d>>), 1, types)
                          /\ Has(OptDouble(when, ones, <<a, b>>, <<c, d>>), 1, types)
         /\ b.type \in types =>
              /\ Has(Single(when, ones, <<a, b>>), 2, types)
              /\ Has(OptSingle(when, ones, <<a, b>>), 2, types)
              /\ \A c, d : /\ Has(Double(when, ones, <<a, b>>, <<c, d>>), 2, types)
                          /\ Has(OptDouble(when, ones, <<a, b>>, <<c, d>>), 2, types)
BY TuplesAreSeqs, TwoHave, Zenon DEF Single, OptSingle, Double, OptDouble

LEMMA ThreesHave ==
  ASSUME NEW when, NEW ones, NEW a, NEW b, NEW c, NEW types, c.type \in types
  PROVE  /\ Has(Single(when, ones, <<a, b, c>>), 3, types)
         /\ Has(OptSingle(when, ones, <<a, b, c>>), 3, types)
         /\ \A d, e, f : /\ Has(Double(when, ones, <<a, b, c>>, <<d, e, f>>), 3, types)
                        /\ Has(OptDouble(when, ones, <<a, b, c>>, <<d, e, f>>), 3, types)
BY TuplesAreSeqs, ThreeHave, Zenon DEF Single, OptSingle, Double, OptDouble

LEMMA HasEach ==
  ASSUME NEW layout, NEW i, NEW types, \A k \in DOMAIN layout : Has(layout[k], i, types)
  PROVE  HasTypes(layout, i, types)
BY Zenon DEF HasTypes, Has

LEMMA JumpTypes ==
  /\ HasTypes(PC_LIT_16_2, 2, LiteralTypes)
  /\ HasTypes(PC_SET_REG_1, 2, RegTypes)
<1>1. HasTypes(PC_LIT_16_2, 2, LiteralTypes)
  <2>1. N("LITERAL_16", 34, 16).type \in LiteralTypes
    BY FieldType, FieldType2, SMT DEF LiteralTypes
  <2>2. Has(PC_LIT_16_2[1], 2, LiteralTypes)
    BY <2>1, TwosHave, Zenon DEF PC_LIT_16_2
  <2>3. DOMAIN PC_LIT_16_2 = {1}
    BY SMT DEF PC_LIT_16_2
  <2> QED BY <2>2, <2>3, HasEach, Zenon
<1>2. HasTypes(PC_SET_REG_1, 2, RegTypes)
  BY SMT DEF HasTypes, PC_SET_REG_1, Single, Alternative, N, Field, RegTypes
<1> QED BY <1>1, <1>2

LEMMA MovxMdfrTypes ==
  /\ HasTypes(MOVX_MDFR_OFFSET_1, 1, RegTypes)
  /\ HasTypes(MOVX_MDFR_OFFSET_1, 2, MdfrOffsetTypes)
  /\ HasTypes(MOVX_MDFR_OFFSET_2, 1, RegTypes)
  /\ HasTypes(MOVX_MDFR_OFFSET_2, 2, MdfrOffsetTypes)
<1>1. HasTypes(MOVX_MDFR_OFFSET_1, 1, RegTypes)
  <2>1. D("REG_5", 16, 5).type \in RegTypes
    BY FieldType, FieldType2, SMT DEF RegTypes
  <2>2. Has(MOVX_MDFR_OFFSET_1[1], 1, RegTypes)
    BY <2>1, TwosHave, Zenon DEF MOVX_MDFR_OFFSET_1
  <2>3. Has(MOVX_MDFR_OFFSET_1[2], 1, RegTypes)
    BY <2>1, TwosHave, Zenon DEF MOVX_MDFR_OFFSET_1
  <2>4. DOMAIN MOVX_MDFR_OFFSET_1 = {1, 2}
    BY SMT DEF MOVX_MDFR_OFFSET_1
  <2> QED BY <2>2, <2>3, <2>4, HasEach, Zenon
<1>2. HasTypes(MOVX_MDFR_OFFSET_1, 2, MdfrOffsetTypes)
  <2>1. /\ S2("A_REG_Y_MDFR_OFFSET", 13, 3, 22, 3).type \in MdfrOffsetTypes
        /\ S2("A_REG_X_MDFR_OFFSET", 13, 3, 22, 3).type \in MdfrOffsetTypes
    BY FieldType, FieldType2, SMT DEF MdfrOffsetTypes
  <2>2. Has(MOVX_MDFR_OFFSET_1[1], 2, MdfrOffsetTypes)
    BY <2>1, TwosHave, Zenon DEF MOVX_MDFR_OFFSET_1
  <2>3. Has(MOVX_MDFR_OFFSET_1[2], 2, MdfrOffsetTypes)
    BY <2>1, TwosHave, Zenon DEF MOVX_MDFR_OFFSET_1
  <2>4. DOMAIN MOVX_MDFR_OFFSET_1 = {1, 2}
    BY SMT DEF MOVX_MDFR_OFFSET_1
  <2> QED BY <2>2, <2>3, <2>4, HasEach, Zenon
<1>3. HasTypes(MOVX_MDFR_OFFSET_2, 1, RegTypes)
  <2>1. /\ D("REG_5", 41, 5).type \in RegTypes
        /\ D2("REG_5_MOVX", 21, 1, 41, 5).type \in RegTypes
    BY FieldType, FieldType2, SMT DEF RegTypes
  <2>2. Has(MOVX_MDFR_OFFSET_2[1], 1, RegTypes)
    BY <2>1, TwosHave, Zenon DEF MOVX_MDFR_OFFSET_2
  <2>3. Has(MOVX_MDFR_OFFSET_2[2], 1, RegTypes)
    BY <2>1, TwosHave, Zenon DEF MOVX_MDFR_OFFSET_2
  <2>4. Has(MOVX_MDFR_OFFSET_2[3], 1, RegTypes)
    BY <2>1, TwosHave, Zenon DEF MOVX_MDFR_OFFSET_2
  <2>5. DOMAIN MOVX_MDFR_OFFSET_2 = {1, 2, 3}
    BY SMT DEF MOVX_MDFR_OFFSET_2
  <2> QED BY <2>2, <2>3, <2>4, <2>5, HasEach, Zenon
<1>4. HasTypes(MOVX_MDFR_OFFSET_2, 2, MdfrOffsetTypes)
  <2>1. /\ S2("A_REG_X_MDFR_OFFSET", 38, 3, 47, 3).type \in MdfrOffsetTypes
        /\ S2("A_REG_Y_MDFR_OFFSET", 38, 3, 47, 3).type \in MdfrOffsetTypes
    BY FieldType, FieldType2, SMT DEF MdfrOffsetTypes
  <2>2. Has(MOVX_MDFR_OFFSET_2[1], 2, MdfrOffsetTypes)
    BY <2>1, TwosHave, Zenon DEF MOVX_MDFR_OFFSET_2
  <2>3. Has(MOVX_MDFR_OFFSET_2[2], 2, MdfrOffsetTypes)
    BY <2>1, TwosHave, Zenon DEF MOVX_MDFR_OFFSET_2
  <2>4. Has(MOVX_MDFR_OFFSET_2[3], 2, MdfrOffsetTypes)
    BY <2>1, TwosHave, Zenon DEF MOVX_MDFR_OFFSET_2
  <2>5. DOMAIN MOVX_MDFR_OFFSET_2 = {1, 2, 3}
    BY SMT DEF MOVX_MDFR_OFFSET_2
  <2> QED BY <2>2, <2>3, <2>4, <2>5, HasEach, Zenon
<1> QED BY <1>1, <1>2, <1>3, <1>4

LEMMA MovxLitTypes ==
  /\ HasTypes(MOVX_LIT_OFFSET_1, 1, RegTypes)
  /\ HasTypes(MOVX_LIT_OFFSET_1, 2, LitOffsetTypes)
  /\ HasTypes(MOVX_LIT_OFFSET_2, 1, RegTypes)
  /\ HasTypes(MOVX_LIT_OFFSET_2, 2, LitOffsetTypes)
<1>1. HasTypes(MOVX_LIT_OFFSET_1, 1, RegTypes)
  <2>1. D("REG_5", 16, 5).type \in RegTypes
    BY FieldType, FieldType2, SMT DEF RegTypes
  <2>2. Has(MOVX_LIT_OFFSET_1[1], 1, RegTypes)
    BY <2>1, TwosHave, Zenon DEF MOVX_LIT_OFFSET_1
  <2>3. DOMAIN MOVX_LIT_OFFSET_1 = {1}
    BY SMT DEF MOVX_LIT_OFFSET_1
  <2> QED BY <2>2, <2>3, HasEach, Zenon
<1>2. HasTypes(MOVX_LIT_OFFSET_1, 2, LitOffsetTypes)
  <2>1. S2("A_REG_INT_7_OFFSET", 9, 7, 21, 4).type \in LitOffsetTypes
    BY FieldType, FieldType2, SMT DEF LitOffsetTypes
  <2>2. Has(MOVX_LIT_OFFSET_1[1], 2, LitOffsetTypes)
    BY <2>1, TwosHave, Zenon DEF MOVX_LIT_OFFSET_1
  <2>3. DOMAIN MOVX_LIT_OFFSET_1 = {1}
    BY SMT DEF MOVX_LIT_OFFSET_1
  <2> QED BY <2>2, <2>3, HasEach, Zenon
<1>3. HasTypes(MOVX_LIT_OFFSET_2, 1, RegTypes)
  <2>1. /\ D("REG_5", 41, 5).type \in RegTypes
        /\ D2("REG_5_MOVX", 21, 1, 41, 5).type \in RegTypes
    BY FieldType, FieldType2, SMT DEF RegTypes
  <2>2. Has(MOVX_LIT_OFFSET_2[1], 1, RegTypes)
    BY <2>1, TwosHave, Zenon DEF MOVX_LIT_OFFSET_2
  <2>3. Has(MOVX_LIT_OFFSET_2[2], 1, RegTypes)
    BY <2>1, TwosHave, Zenon DEF MOVX_LIT_OFFSET_2
  <2>4. DOMAIN MOVX_LIT_OFFSET_2 = {1, 2}
    BY SMT DEF MOVX_LIT_OFFSET_2
  <2> QED BY <2>2, <2>3, <2>4, HasEach, Zenon
<1>4. HasTypes(MOVX_LIT_OFFSET_2, 2, LitOffsetTypes)
  <2>1. /\ S2("A_REG_X_INT_11_OFFSET", 30, 11, 47, 3).type \in LitOffsetTypes
        /\ S2("A_REG_INT_17_OFFSET", 23, 18, 47, 3).type \in LitOffsetTypes
    BY FieldType, FieldType2, SMT DEF LitOffsetTypes
  <2>2. Has(MOVX_LIT_OFFSET_2[1], 2, LitOffsetTypes)
    BY <2>1, TwosHave, Zenon DEF MOVX_LIT_OFFSET_2
  <2>3. Has(MOVX_LIT_OFFSET_2[2], 2, LitOffsetTypes)
    BY <2>1, TwosHave, Zenon DEF MOVX_LIT_OFFSET_2
  <2>4. DOMAIN MOVX_LIT_OFFSET_2 = {1, 2}
    BY SMT DEF MOVX_LIT_OFFSET_2
  <2> QED BY <2>2, <2>3, <2>4, HasEach, Zenon
<1> QED BY <1>1, <1>2, <1>3, <1>4

AddressOrReg == RegTypes \union {"LITERAL_16_ADDR"}

LEMMA MoveTypes ==
  /\ HasTypes(MOV_1, 2, AddressOrReg)
  /\ HasTypes(MOV_2, 2, AddressOrReg)
  /\ HasTypes(MOV_4, 2, AddressOrReg)
  /\ HasTypes(MOV_LIT_16_2, 2, LiteralTypes)
  /\ HasTypes(MOV_LIT_32_4, 2, LiteralTypes)
<1>1. HasTypes(MOV_1, 2, AddressOrReg)
  <2>1. /\ S("REG_7", 18, 7).type \in AddressOrReg
        /\ S("REG_3", 21, 3).type \in AddressOrReg
    BY FieldType, FieldType2, SMT DEF AddressOrReg, RegTypes
  <2>2. Has(MOV_1[1], 2, AddressOrReg)
    BY <2>1, TwosHave, Zenon DEF MOV_1
  <2>3. Has(MOV_1[2], 2, AddressOrReg)
    BY <2>1, TwosHave, Zenon DEF MOV_1
  <2>4. DOMAIN MOV_1 = {1, 2}
    BY SMT DEF MOV_1
  <2> QED BY <2>2, <2>3, <2>4, HasEach, Zenon
<1>2. HasTypes(MOV_2, 2, AddressOrReg)
  <2>1. /\ S("REG_4", 17, 4).type \in AddressOrReg
        /\ S("LITERAL_16_ADDR", 29, 21).type \in AddressOrReg
        /\ S("REG_10", 39, 10).type \in AddressOrReg
        /\ S("REG_4", 45, 4).type \in AddressOrReg
    BY FieldType, FieldType2, SMT DEF AddressOrReg, RegTypes
  <2>2. Has(MOV_2[1], 2, AddressOrReg)
    BY <2>1, TwosHave, Zenon DEF MOV_2
  <2>3. Has(MOV_2[2], 2, AddressOrReg)
    BY <2>1, TwosHave, Zenon DEF MOV_2
  <2>4. Has(MOV_2[3], 2, AddressOrReg)
    BY <2>1, TwosHave, Zenon DEF MOV_2
  <2>5. Has(MOV_2[4], 2, AddressOrReg)
    BY <2>1, TwosHave, Zenon DEF MOV_2
  <2>6. DOMAIN MOV_2 = {1, 2, 3, 4}
    BY SMT DEF MOV_2
  <2> QED BY <2>2, <2>3, <2>4, <2>5, <2>6, HasEach, Zenon
<1>3. HasTypes(MOV_4, 2, AddressOrReg)
  <2>1. S("REG_11", 89, 11).type \in AddressOrReg
    BY FieldType, FieldType2, SMT DEF AddressOrReg, RegTypes
  <2>2. Has(MOV_4[1], 2, AddressOrReg)
    BY <2>1, TwosHave, ZenonT(90) DEF MOV_4
  <2>3. DOMAIN MOV_4 = {1}
    BY SMT DEF MOV_4
  <2> QED BY <2>2, <2>3, HasEach, Zenon
<1>4. HasTypes(MOV_LIT_16_2, 2, LiteralTypes)
  <2>1. S("LITERAL_16", 12, 16).type \in LiteralTypes
    BY FieldType, FieldType2, SMT DEF LiteralTypes
  <2>2. Has(MOV_LIT_16_2[1], 2, LiteralTypes)
    BY <2>1, TwosHave, Zenon DEF MOV_LIT_16_2
  <2>3. DOMAIN MOV_LIT_16_2 = {1}
    BY SMT DEF MOV_LIT_16_2
  <2> QED BY <2>2, <2>3, HasEach, Zenon
<1>5. HasTypes(MOV_LIT_32_4, 2, LiteralTypes)
  <2>1. S("LITERAL_32", 42, 32).type \in LiteralTypes
    BY FieldType, FieldType2, SMT DEF LiteralTypes
  <2>2. Has(MOV_LIT_32_4[1], 2, LiteralTypes)
    BY <2>1, TwosHave, ZenonT(90) DEF MOV_LIT_32_4
  <2>3. DOMAIN MOV_LIT_32_4 = {1}
    BY SMT DEF MOV_LIT_32_4
  <2> QED BY <2>2, <2>3, HasEach, Zenon
<1> QED BY <1>1, <1>2, <1>3, <1>4, <1>5

LEMMA ShiftTypes ==
  /\ HasTypes(R_X_Y_1, 3, RegTypes)
  /\ HasTypes(R_X_Y_2, 3, RegTypes)
  /\ HasTypes(R_X_Y_4, 3, RegTypes)
  /\ HasTypes(R_X_LIT_8_Y_1, 3, LiteralTypes)
  /\ HasTypes(R_X_LIT_16_Y_2, 3, LiteralTypes)
  /\ HasTypes(R_X_LIT_32_Y_4, 3, LiteralTypes)
<1>1. HasTypes(R_X_Y_1, 3, RegTypes)
  <2>1. /\ Y2("REG_4", 15, 1, 17, 3).type \in RegTypes
        /\ Y("REG_2", 20, 2).type \in RegTypes
    BY FieldType, FieldType2, SMT DEF RegTypes
  <2>2. Has(R_X_Y_1[1], 3, RegTypes)
    BY <2>1, ThreesHave, Zenon DEF R_X_Y_1
  <2>3. Has(R_X_Y_1[2], 3, RegTypes)
    BY <2>1, ThreesHave, Zenon DEF R_X_Y_1
  <2>4. DOMAIN R_X_Y_1 = {1, 2}
    BY SMT DEF R_X_Y_1
  <2> QED BY <2>2, <2>3, <2>4, HasEach, Zenon
<1>2. HasTypes(R_X_Y_2, 3, RegTypes)
  <2>1. /\ Y("REG_4", 25, 4).type \in RegTypes
        /\ Y2("REG_7", 35, 3, 39, 4).type \in RegTypes
        /\ Y("REG_3_Y_T1", 43, 3).type \in RegTypes
    BY FieldType, FieldType2, SMT DEF RegTypes
  <2>2. Has(R_X_Y_2[1], 3, RegTypes)
    BY <2>1, ThreesHave, Zenon DEF R_X_Y_2
  <2>3. Has(R_X_Y_2[2], 3, RegTypes)
    BY <2>1, ThreesHave, Zenon DEF R_X_Y_2
  <2>4. Has(R_X_Y_2[3], 3, RegTypes)
    BY <2>1, ThreesHave, Zenon DEF R_X_Y_2
  <2>5. DOMAIN R_X_Y_2 = {1, 2, 3}
    BY SMT DEF R_X_Y_2
  <2> QED BY <2>2, <2>3, <2>4, <2>5, HasEach, Zenon
<1>3. HasTypes(R_X_Y_4, 3, RegTypes)
  <2>1. Y("REG_11", 78, 11).type \in RegTypes
    BY FieldType, FieldType2, SMT DEF RegTypes
  <2>2. Has(R_X_Y_4[1], 3, RegTypes)
    BY <2>1, ThreesHave, ZenonT(90) DEF R_X_Y_4
  <2>3. Has(R_X_Y_4[2], 3, RegTypes)
    BY <2>1, ThreesHave, Zenon DEF R_X_Y_4
  <2>4. Has(R_X_Y_4[3], 3, RegTypes)
    BY <2>1, ThreesHave, ZenonT(90) DEF R_X_Y_4
  <2>5. DOMAIN R_X_Y_4 = {1, 2, 3}
    BY SMT DEF R_X_Y_4
  <2> QED BY <2>2, <2>3, <2>4, <2>5, HasEach, Zenon
<1>4. HasTypes(R_X_LIT_8_Y_1, 3, LiteralTypes)
  <2>1. Y("LITERAL_8_INT", 9, 8).type \in LiteralTypes
    BY FieldType, FieldType2, SMT DEF LiteralTypes
  <2>2. Has(R_X_LIT_8_Y_1[1], 3, LiteralTypes)
    BY <2>1, ThreesHave, Zenon DEF R_X_LIT_8_Y_1
  <2>3. DOMAIN R_X_LIT_8_Y_1 = {1}
    BY SMT DEF R_X_LIT_8_Y_1
  <2> QED BY <2>2, <2>3, HasEach, Zenon
<1>5. HasTypes(R_X_LIT_16_Y_2, 3, LiteralTypes)
  <2>1. Y("LITERAL_16", 12, 16).type \in LiteralTypes
    BY FieldType, FieldType2, SMT DEF LiteralTypes
  <2>2. Has(R_X_LIT_16_Y_2[1], 3, LiteralTypes)
    BY <2>1, ThreesHave, Zenon DEF R_X_LIT_16_Y_2
  <2>3. DOMAIN R_X_LIT_16_Y_2 = {1}
    BY SMT DEF R_X_LIT_16_Y_2
  <2> QED BY <2>2, <2>3, HasEach, Zenon
<1>6. HasTypes(R_X_LIT_32_Y_4, 3, LiteralTypes)
  <2>1. Y("LITERAL_32", 42, 32).type \in LiteralTypes
    BY FieldType, FieldType2, SMT DEF LiteralTypes
  <2>2. Has(R_X_LIT_32_Y_4[1], 3, LiteralTypes)
    BY <2>1, ThreesHave, Zenon DEF R_X_LIT_32_Y_4
  <2>3. Has(R_X_LIT_32_Y_4[2], 3, LiteralTypes)
    BY <2>1, ThreesHave, ZenonT(90) DEF R_X_LIT_32_Y_4
  <2>4. DOMAIN R_X_LIT_32_Y_4 = {1, 2}
    BY SMT DEF R_X_LIT_32_Y_4
  <2> QED BY <2>2, <2>3, <2>4, HasEach, Zenon
<1> QED BY <1>1, <1>2, <1>3, <1>4, <1>5, <1>6

(* The layouts by their names. *)
LEMMA LayoutByName ==
  /\ Layout["NONE"] = NONE /\ Layout["NOP"] = NOP
  /\ Layout["PC_LIT_16_2"] = PC_LIT_16_2 /\ Layout["PC_SET_REG_1"] = PC_SET_REG_1
  /\ Layout["MOVX_MDFR_OFFSET_1"] = MOVX_MDFR_OFFSET_1
  /\ Layout["MOVX_MDFR_OFFSET_2"] = MOVX_MDFR_OFFSET_2
  /\ Layout["MOVX_LIT_OFFSET_1"] = MOVX_LIT_OFFSET_1
  /\ Layout["MOVX_LIT_OFFSET_2"] = MOVX_LIT_OFFSET_2
  /\ Layout["MOV_1"] = MOV_1 /\ Layout["MOV_2"] = MOV_2 /\ Layout["MOV_4"] = MOV_4
  /\ Layout["MOV_LIT_16_2"] = MOV_LIT_16_2 /\ Layout["MOV_LIT_32_4"] = MOV_LIT_32_4
  /\ Layout["R_X_Y_1"] = R_X_Y_1 /\ Layout["R_X_Y_2"] = R_X_Y_2
  /\ Layout["R_X_Y_4"] = R_X_Y_4
  /\ Layout["R_X_LIT_8_Y_1"] = R_X_LIT_8_Y_1
  /\ Layout["R_X_LIT_16_Y_2"] = R_X_LIT_16_Y_2
  /\ Layout["R_X_LIT_32_Y_4"] = R_X_LIT_32_Y_4
BY SMTT(30) DEF Layout

LEMMA LayoutsHave ==
  ASSUME NEW one, NEW two, NEW four, NEW i, NEW types,
         HasTypes(Layout[one], i, types), HasTypes(Layout[two], i, types),
         HasTypes(Layout[four], i, types)
  PROVE  \A layout \in LayoutsOf(Layouts(one, two, four)) : HasTypes(layout, i, types)
<1>1. LayoutsOf(Layouts(one, two, four)) = {Layout[one], Layout[two], Layout[four]}
  BY LenIds, SMT DEF LayoutsOf, Layouts
<1> HIDE DEF HasTypes
<1> QED BY <1>1, Zenon

LEMMA LayoutsTypes ==
  /\ \A layout \in LayoutsOf(NO_LAYOUT) : layout = NONE
  /\ \A layout \in LayoutsOf(JUMP) : HasTypes(layout, 2, LiteralTypes)
  /\ \A layout \in LayoutsOf(JUMP_REG) : HasTypes(layout, 2, RegTypes)
  /\ \A layout \in LayoutsOf(MOVX_MDFR) :
       HasTypes(layout, 1, RegTypes) /\ HasTypes(layout, 2, MdfrOffsetTypes)
  /\ \A layout \in LayoutsOf(MOVX_LIT) :
       HasTypes(layout, 1, RegTypes) /\ HasTypes(layout, 2, LitOffsetTypes)
  /\ \A layout \in LayoutsOf(MOVE_LIT) : HasTypes(layout, 2, LiteralTypes)
  /\ \A layout \in LayoutsOf(MOVE) : HasTypes(layout, 2, AddressOrReg)
  /\ \A layout \in LayoutsOf(RXY) : HasTypes(layout, 3, RegTypes)
  /\ \A layout \in LayoutsOf(RXLY) : HasTypes(layout, 3, LiteralTypes)
<1>1. \A layout \in LayoutsOf(NO_LAYOUT) : layout = NONE
  BY LayoutByName, LenIds, SMT DEF LayoutsOf, NO_LAYOUT, Layouts
<1>2. \A layout \in LayoutsOf(JUMP) : HasTypes(layout, 2, LiteralTypes)
  BY LayoutByName, NoneTypes, JumpTypes, LayoutsHave, Zenon DEF JUMP
<1>3. \A layout \in LayoutsOf(JUMP_REG) : HasTypes(layout, 2, RegTypes)
  BY LayoutByName, NoneTypes, JumpTypes, LayoutsHave, Zenon DEF JUMP_REG
<1>4. \A layout \in LayoutsOf(MOVX_MDFR) : HasTypes(layout, 1, RegTypes)
  BY LayoutByName, NoneTypes, MovxMdfrTypes, LayoutsHave, Zenon DEF MOVX_MDFR
<1>5. \A layout \in LayoutsOf(MOVX_MDFR) : HasTypes(layout, 2, MdfrOffsetTypes)
  BY LayoutByName, NoneTypes, MovxMdfrTypes, LayoutsHave, Zenon DEF MOVX_MDFR
<1>6. \A layout \in LayoutsOf(MOVX_LIT) : HasTypes(layout, 1, RegTypes)
  BY LayoutByName, NoneTypes, MovxLitTypes, LayoutsHave, Zenon DEF MOVX_LIT
<1>7. \A layout \in LayoutsOf(MOVX_LIT) : HasTypes(layout, 2, LitOffsetTypes)
  BY LayoutByName, NoneTypes, MovxLitTypes, LayoutsHave, Zenon DEF MOVX_LIT
<1>8. \A layout \in LayoutsOf(MOVE_LIT) : HasTypes(layout, 2, LiteralTypes)
  BY LayoutByName, NoneTypes, MoveTypes, LayoutsHave, Zenon DEF MOVE_LIT
<1>9. \A layout \in LayoutsOf(MOVE) : HasTypes(layout, 2, AddressOrReg)
  BY LayoutByName, MoveTypes, LayoutsHave, Zenon DEF MOVE
<1>10. \A layout \in LayoutsOf(RXY) : HasTypes(layout, 3, RegTypes)
  BY LayoutByName, ShiftTypes, LayoutsHave, Zenon DEF RXY
<1>11. \A layout \in LayoutsOf(RXLY) : HasTypes(layout, 3, LiteralTypes)
  BY LayoutByName, ShiftTypes, LayoutsHave, Zenon DEF RXLY
<1> QED BY <1>1, <1>2, <1>3, <1>4, <1>5, <1>6, <1>7, <1>8, <1>9, <1>10, <1>11

(* The operands of a line are a sequence. *)
HasArgs(line) == DOMAIN line.args = 1 .. Len(line.args) /\ Len(line.args) \in Nat

LEMMA Taken ==
  ASSUME NEW layout, NEW line, NEW swap, NEW mdfr, NEW needs,
         NEW k \in Compatible(layout, line, swap, mdfr, needs),
         NEW i, NEW types, HasTypes(layout, i, types),
         NEW j \in DOMAIN line.args, Swapped(swap, j) = i
  PROVE  \E t \in types : \E twin : Fits(t, line.args[j], twin, mdfr)
<1>1. k \in DOMAIN layout
      /\ \A n \in DOMAIN line.args :
           LET type == layout[k].fields[Swapped(swap, n)].type
           IN Fits(type, line.args[n], Twin(line, type, n), mdfr)
  BY Zenon DEF Compatible
<1>2. layout[k].fields[i].type \in types
  BY <1>1, Zenon DEF HasTypes
<1>3. Fits(layout[k].fields[i].type, line.args[j],
           Twin(line, layout[k].fields[i].type, j), mdfr)
  BY <1>1, Zenon
<1> QED BY <1>2, <1>3, Zenon

LEMMA Many ==
  ASSUME NEW layout, NEW line, NEW swap, NEW mdfr, NEW needs,
         NEW k \in Compatible(layout, line, swap, mdfr, needs),
         NEW i, NEW types, HasTypes(layout, i, types)
  PROVE  i <= Len(line.args)
<1>1. k \in DOMAIN layout /\ Len(layout[k].fields) = Len(line.args)
  BY Zenon DEF Compatible
<1>2. i <= Len(layout[k].fields)
  BY <1>1, Zenon DEF HasTypes
<1> QED BY <1>1, <1>2

LEMMA NotSwapped == \A i : Swapped(FALSE, i) = i
BY DEF Swapped

LEMMA SwappedTwo == Swapped(TRUE, 1) = 2 /\ Swapped(TRUE, 2) = 1
BY DEF Swapped

(* A layout with two operands or more is not that of none. *)
LEMMA NopIsOne ==
  /\ \A types : ~HasTypes(Layout.NOP, 2, types) /\ ~HasTypes(Layout.NOP, 3, types)
  /\ Layout.NOP # NONE
<1>1. Layout.NOP = NOP
  BY LayoutByName, Zenon
<1>2. DOMAIN NOP = {1} /\ Len(NOP[1].fields) = 1
  BY SMT DEF NOP, OptSingle, Alternative, N, Field
<1>3. DOMAIN NONE = {}
  BY SMT DEF NONE
<1>4. ~(2 <= Len(NOP[1].fields)) /\ ~(3 <= Len(NOP[1].fields))
  BY <1>2, SMT
<1> QED BY <1>1, <1>2, <1>3, <1>4, Zenon DEF HasTypes

LEMMA FitsCompatible ==
  ASSUME NEW line, NEW form, LayoutFits(line, form) # {}, form.layout # Layout.NOP
  PROVE  \E k : k \in Compatible(form.layout, line, form.swap, form.mdfr, line.par # {})
BY Zenon DEF LayoutFits

(* The texts of two and of three operands. *)
LEMMA SecondText ==
  ASSUME NEW line, HasArgs(line), NEW form, LayoutFits(line, form) # {},
         form.swap = FALSE, NEW types, HasTypes(form.layout, 2, types)
  PROVE  \E t \in types : \E twin : Fits(t, line.args[2], twin, form.mdfr)
<1>1. form.layout # Layout.NOP
  BY NopIsOne, Zenon
<1>2. PICK k : k \in Compatible(form.layout, line, form.swap, form.mdfr, line.par # {})
  BY <1>1, FitsCompatible, Zenon
<1>3. 2 <= Len(line.args)
  BY <1>2, Many, Zenon
<1>4. 2 \in DOMAIN line.args
  BY <1>3, SMT DEF HasArgs
<1>5. Swapped(form.swap, 2) = 2
  BY NotSwapped, Zenon
<1> QED BY <1>2, <1>4, <1>5, Taken, Zenon

LEMMA ThirdText ==
  ASSUME NEW line, HasArgs(line), NEW form, LayoutFits(line, form) # {},
         form.swap = FALSE, NEW types, HasTypes(form.layout, 3, types)
  PROVE  \E t \in types : \E twin : Fits(t, line.args[3], twin, form.mdfr)
<1>1. form.layout # Layout.NOP
  BY NopIsOne, Zenon
<1>2. PICK k : k \in Compatible(form.layout, line, form.swap, form.mdfr, line.par # {})
  BY <1>1, FitsCompatible, Zenon
<1>3. 3 <= Len(line.args)
  BY <1>2, Many, Zenon
<1>4. 3 \in DOMAIN line.args
  BY <1>3, SMT DEF HasArgs
<1>5. Swapped(form.swap, 3) = 3
  BY NotSwapped, Zenon
<1> QED BY <1>2, <1>4, <1>5, Taken, Zenon

LEMMA PairTexts ==
  ASSUME NEW line, HasArgs(line), NEW form, LayoutFits(line, form) # {},
         form.swap \in BOOLEAN, NEW first, NEW second,
         HasTypes(form.layout, 1, first), HasTypes(form.layout, 2, second)
  PROVE  LET one == IF form.swap THEN line.args[2] ELSE line.args[1]
             two == IF form.swap THEN line.args[1] ELSE line.args[2]
         IN /\ \E t \in first : \E twin : Fits(t, one, twin, form.mdfr)
            /\ \E t \in second : \E twin : Fits(t, two, twin, form.mdfr)
<1>1. form.layout # Layout.NOP
  BY NopIsOne, Zenon
<1>2. PICK k : k \in Compatible(form.layout, line, form.swap, form.mdfr, line.par # {})
  BY <1>1, FitsCompatible, Zenon
<1>3. 2 <= Len(line.args)
  BY <1>2, Many, Zenon
<1>4. 1 \in DOMAIN line.args /\ 2 \in DOMAIN line.args
  BY <1>3, SMT DEF HasArgs
<1>5. CASE form.swap = TRUE
  <2>1. Swapped(form.swap, 1) = 2 /\ Swapped(form.swap, 2) = 1
    BY <1>5, SwappedTwo, Zenon
  <2>2. \E t \in first : \E twin : Fits(t, line.args[2], twin, form.mdfr)
    BY <1>2, <1>4, <2>1, Taken, Zenon
  <2>3. \E t \in second : \E twin : Fits(t, line.args[1], twin, form.mdfr)
    BY <1>2, <1>4, <2>1, Taken
  <2> QED BY <1>5, <2>2, <2>3, Zenon
<1>6. CASE form.swap = FALSE
  <2>1. Swapped(form.swap, 1) = 1 /\ Swapped(form.swap, 2) = 2
    BY <1>6, NotSwapped, Zenon
  <2>2. \E t \in first : \E twin : Fits(t, line.args[1], twin, form.mdfr)
    BY <1>2, <1>4, <2>1, Taken
  <2>3. \E t \in second : \E twin : Fits(t, line.args[2], twin, form.mdfr)
    BY <1>2, <1>4, <2>1, Taken, Zenon
  <2> QED BY <1>6, <2>2, <2>3, Zenon
<1> QED BY <1>5, <1>6

(* The number that the name of a line, its modifier and the texts of its
   operands tell. *)
JumpOp(line) ==
  JumpNumber[line.op] + IF line.args[2].type = "LITERAL" THEN 0 ELSE 11
Offset(line) ==
  IF line.args[1].type = "REG" THEN line.args[2] ELSE line.args[1]
MovxOp(line) ==
  MovxNumber[line.op] + (IF line.args[1].type = "REG" THEN 0 ELSE 1)
                      + (IF Offset(line).type \in MdfrOffsetTexts THEN 0 ELSE 4)
MoveOp(line) ==
  IF line.args[2].type = "LITERAL" THEN LiteralMoveNumber[line.op]
                                   ELSE MoveNumber[line.op][line.mdfr]
ShiftOp(line) ==
  IF line.args[3].type = "LITERAL" THEN LiteralShiftNumber[line.op]
                                   ELSE ShiftNumber[line.op]
OpOf(line) ==
  IF line.op \in JumpNames  THEN JumpOp(line)  ELSE
  IF line.op \in MovxNames  THEN MovxOp(line)  ELSE
  IF line.op \in MoveNames  THEN MoveOp(line)  ELSE
  IF line.op \in ShiftNames THEN ShiftOp(line) ELSE Number(line.op)

LEMMA OpOfKind ==
  ASSUME NEW line
  PROVE  /\ line.op \in JumpNames  => OpOf(line) = JumpOp(line)
         /\ line.op \in MovxNames  => OpOf(line) = MovxOp(line)
         /\ line.op \in MoveNames  => OpOf(line) = MoveOp(line)
         /\ line.op \in ShiftNames => OpOf(line) = ShiftOp(line)
         /\ line.op \notin SharedNames => OpOf(line) = Number(line.op)
BY SMT DEF OpOf, JumpNames, MovxNames, MoveNames, ShiftNames, SharedNames

(* A form of a line is that of a row of the table. *)
FormOf(form, info) ==
  /\ form.op = info.op /\ form.name = info.name
  /\ form.mdfr = info.mdfr /\ form.swap = info.swap
  /\ form.layout \in LayoutsOf(info.layouts)
Takes(line, form) ==
  /\ HasArgs(line) /\ form.name = line.op
  /\ MdfrFits(line, form) /\ LayoutFits(line, form) # {}

LEMMA NoLayoutTakesNone ==
  ASSUME NEW line, NEW form, NEW info, FormOf(form, info), Takes(line, form)
  PROVE  info.layouts # NO_LAYOUT
<1>1. SUFFICES ASSUME info.layouts = NO_LAYOUT PROVE FALSE
  OBVIOUS
<1>2. form.layout = NONE
  BY <1>1, LayoutsTypes, Zenon DEF FormOf
<1>3. PICK k : k \in Compatible(form.layout, line, form.swap, form.mdfr, line.par # {})
  BY <1>2, NopIsOne, FitsCompatible, Zenon DEF Takes
<1>4. DOMAIN NONE = {}
  BY SMT DEF NONE
<1> QED BY <1>2, <1>3, <1>4, Zenon DEF Compatible

LEMMA SingleOp ==
  ASSUME NEW line, NEW form, NEW info, FormOf(form, info), Takes(line, form),
         IsSingle(info)
  PROVE  form.op = OpOf(line)
<1>1. form.op = Number(line.op) /\ form.op \in Nat
  BY Zenon DEF IsSingle, FormOf, Takes
<1>2. line.op \notin SharedNames
  <2>1. SUFFICES ASSUME line.op \in SharedNames PROVE FALSE
    OBVIOUS
  <2>2. Number(line.op) = -1
    BY <2>1, SharedNumber, Zenon
  <2> QED BY <1>1, <2>2, SMT
<1> QED BY <1>1, <1>2, OpOfKind, Zenon

LEMMA JumpForm ==
  ASSUME NEW line, NEW form, NEW info, FormOf(form, info), Takes(line, form),
         IsJump(info)
  PROVE  form.op = OpOf(line)
<1>1. /\ form.swap = FALSE /\ line.op \in JumpNames
      /\ form.layout \in LayoutsOf(info.layouts)
  BY Zenon DEF IsJump, FormOf, Takes
<1>2. OpOf(line) = JumpOp(line)
  BY <1>1, OpOfKind, Zenon
<1>3. JumpNumber[line.op] \in Int
  BY <1>1, SMT DEF JumpNames, JumpNumber
<1>4. CASE info.layouts = JUMP /\ info.op = JumpNumber[info.name]
  <2>1. HasTypes(form.layout, 2, LiteralTypes)
    BY <1>1, <1>4, LayoutsTypes, Zenon
  <2>2. \E t \in LiteralTypes : \E twin : Fits(t, line.args[2], twin, form.mdfr)
    BY <1>1, <2>1, SecondText, Zenon DEF Takes
  <2>3. line.args[2].type = "LITERAL"
    BY <2>2, LiteralText, Zenon
  <2>4. form.op = JumpNumber[line.op]
    BY <1>4, Zenon DEF FormOf, Takes
  <2> QED BY <1>2, <1>3, <2>3, <2>4, SMT DEF JumpOp
<1>5. CASE info.layouts = JUMP_REG /\ info.op = JumpNumber[info.name] + 11
  <2>1. HasTypes(form.layout, 2, RegTypes)
    BY <1>1, <1>5, LayoutsTypes, Zenon
  <2>2. \E t \in RegTypes : \E twin : Fits(t, line.args[2], twin, form.mdfr)
    BY <1>1, <2>1, SecondText, Zenon DEF Takes
  <2>3. line.args[2].type = "REG"
    BY <2>2, RegText, Zenon
  <2>4. form.op = JumpNumber[line.op] + 11
    BY <1>5, Zenon DEF FormOf, Takes
  <2> QED BY <1>2, <1>3, <2>3, <2>4, SMT DEF JumpOp
<1> QED BY <1>4, <1>5, Zenon DEF IsJump

LEMMA MovxForm ==
  ASSUME NEW line, NEW form, NEW info, FormOf(form, info), Takes(line, form),
         IsMovx(info)
  PROVE  form.op = OpOf(line)
<1> DEFINE one == IF form.swap THEN line.args[2] ELSE line.args[1]
           two == IF form.swap THEN line.args[1] ELSE line.args[2]
<1>1. /\ form.swap \in BOOLEAN /\ line.op \in MovxNames
      /\ form.layout \in LayoutsOf(info.layouts)
  BY Zenon DEF IsMovx, FormOf, Takes
<1>2. OpOf(line) = MovxOp(line)
  BY <1>1, OpOfKind, Zenon
<1>3. MovxNumber[line.op] \in Int
  BY <1>1, SMT DEF MovxNames, MovxNumber
<1>4. CASE /\ info.layouts = MOVX_MDFR
           /\ info.op = MovxNumber[info.name] + IF info.swap THEN 1 ELSE 0
  <2>1. HasTypes(form.layout, 1, RegTypes) /\ HasTypes(form.layout, 2, MdfrOffsetTypes)
    BY <1>1, <1>4, LayoutsTypes, Zenon
  <2>2. /\ \E t \in RegTypes : \E twin : Fits(t, one, twin, form.mdfr)
        /\ \E t \in MdfrOffsetTypes : \E twin : Fits(t, two, twin, form.mdfr)
    BY <1>1, <2>1, PairTexts, Zenon DEF Takes
  <2> HIDE DEF one, two
  <2>3. one.type = "REG" /\ two.type \in MdfrOffsetTexts
    BY <2>2, RegText, MdfrOffsetText, Zenon
  <2>4. two.type # "REG"
    BY <2>3, SMT DEF MdfrOffsetTexts
  <2>5. form.op = MovxNumber[line.op] + IF form.swap THEN 1 ELSE 0
    BY <1>4, Zenon DEF FormOf, Takes
  <2> QED BY <1>1, <1>2, <1>3, <2>3, <2>4, <2>5, SMT DEF MovxOp, Offset, one, two
<1>5. CASE /\ info.layouts = MOVX_LIT
           /\ info.op = MovxNumber[info.name] + IF info.swap THEN 5 ELSE 4
  <2>1. HasTypes(form.layout, 1, RegTypes) /\ HasTypes(form.layout, 2, LitOffsetTypes)
    BY <1>1, <1>5, LayoutsTypes, Zenon
  <2>2. /\ \E t \in RegTypes : \E twin : Fits(t, one, twin, form.mdfr)
        /\ \E t \in LitOffsetTypes : \E twin : Fits(t, two, twin, form.mdfr)
    BY <1>1, <2>1, PairTexts, Zenon DEF Takes
  <2> HIDE DEF one, two
  <2>3. one.type = "REG" /\ two.type \in LitOffsetTexts
    BY <2>2, RegText, LitOffsetText, Zenon
  <2>4. two.type # "REG" /\ two.type \notin MdfrOffsetTexts
    BY <2>3, SMT DEF LitOffsetTexts, MdfrOffsetTexts
  <2>5. form.op = MovxNumber[line.op] + IF form.swap THEN 5 ELSE 4
    BY <1>5, Zenon DEF FormOf, Takes
  <2> QED BY <1>1, <1>2, <1>3, <2>3, <2>4, <2>5, SMT DEF MovxOp, Offset, one, two
<1> QED BY <1>4, <1>5, Zenon DEF IsMovx

LEMMA MoveForm ==
  ASSUME NEW line, NEW form, NEW info, FormOf(form, info), Takes(line, form),
         IsMove(info)
  PROVE  form.op = OpOf(line)
<1>1. /\ form.swap = FALSE /\ line.op \in MoveNames
      /\ form.layout \in LayoutsOf(info.layouts)
  BY Zenon DEF IsMove, FormOf, Takes
<1>2. OpOf(line) = MoveOp(line)
  BY <1>1, OpOfKind, Zenon
<1>3. CASE info.layouts = MOVE_LIT /\ info.op = LiteralMoveNumber[info.name]
  <2>1. HasTypes(form.layout, 2, LiteralTypes)
    BY <1>1, <1>3, LayoutsTypes, Zenon
  <2>2. \E t \in LiteralTypes : \E twin : Fits(t, line.args[2], twin, form.mdfr)
    BY <1>1, <2>1, SecondText, Zenon DEF Takes
  <2>3. line.args[2].type = "LITERAL"
    BY <2>2, LiteralText, Zenon
  <2> QED BY <1>2, <1>3, <2>3, Zenon DEF MoveOp, FormOf, Takes
<1>4. CASE /\ info.layouts = MOVE /\ info.mdfr \notin Hints
           /\ info.op = MoveNumber[info.name][info.mdfr]
  <2>1. HasTypes(form.layout, 2, AddressOrReg)
    BY <1>1, <1>4, LayoutsTypes, Zenon
  <2>2. PICK t \in AddressOrReg : \E twin : Fits(t, line.args[2], twin, form.mdfr)
    BY <1>1, <2>1, SecondText, Zenon DEF Takes
  <2>3. line.args[2].type \in {"REG", "IND_LITERAL_X", "IND_LITERAL_Y"}
    <3>1. CASE t \in RegTypes
      BY <2>2, <3>1, RegText, SMT
    <3>2. CASE t = "LITERAL_16_ADDR"
      BY <2>2, <3>2, AddressText, SMT
    <3> QED BY <3>1, <3>2 DEF AddressOrReg
  <2>4. line.args[2].type # "LITERAL"
    BY <2>3, SMT
  <2>5. line.mdfr = info.mdfr
    BY <1>4, Zenon DEF MdfrFits, FormOf, Takes
  <2> QED BY <1>2, <1>4, <2>4, <2>5, Zenon DEF MoveOp, FormOf, Takes
<1> QED BY <1>3, <1>4, Zenon DEF IsMove

LEMMA ShiftForm ==
  ASSUME NEW line, NEW form, NEW info, FormOf(form, info), Takes(line, form),
         IsShift(info)
  PROVE  form.op = OpOf(line)
<1>1. /\ form.swap = FALSE /\ line.op \in ShiftNames
      /\ form.layout \in LayoutsOf(info.layouts)
  BY Zenon DEF IsShift, FormOf, Takes
<1>2. OpOf(line) = ShiftOp(line)
  BY <1>1, OpOfKind, Zenon
<1>3. CASE info.layouts = RXY /\ info.op = ShiftNumber[info.name]
  <2>1. HasTypes(form.layout, 3, RegTypes)
    BY <1>1, <1>3, LayoutsTypes, Zenon
  <2>2. \E t \in RegTypes : \E twin : Fits(t, line.args[3], twin, form.mdfr)
    BY <1>1, <2>1, ThirdText, Zenon DEF Takes
  <2>3. line.args[3].type = "REG"
    BY <2>2, RegText, Zenon
  <2>4. line.args[3].type # "LITERAL"
    BY <2>3, SMT
  <2> QED BY <1>2, <1>3, <2>4, Zenon DEF ShiftOp, FormOf, Takes
<1>4. CASE info.layouts = RXLY /\ info.op = LiteralShiftNumber[info.name]
  <2>1. HasTypes(form.layout, 3, LiteralTypes)
    BY <1>1, <1>4, LayoutsTypes, Zenon
  <2>2. \E t \in LiteralTypes : \E twin : Fits(t, line.args[3], twin, form.mdfr)
    BY <1>1, <2>1, ThirdText, Zenon DEF Takes
  <2>3. line.args[3].type = "LITERAL"
    BY <2>2, LiteralText, Zenon
  <2> QED BY <1>2, <1>4, <2>3, Zenon DEF ShiftOp, FormOf, Takes
<1> QED BY <1>3, <1>4, Zenon DEF IsShift

LEMMA OpIsTold ==
  ASSUME NEW line, NEW form, NEW info, FormOf(form, info), Takes(line, form),
         HasNumber(info)
  PROVE  form.op = OpOf(line) /\ form.op \in Nat
<1>1. info.op = form.op
  BY Zenon DEF FormOf
<1>2. IsSingle(info) \/ IsJump(info) \/ IsMovx(info) \/ IsMove(info) \/ IsShift(info)
  BY NoLayoutTakesNone, Zenon DEF HasNumber
<1>3. info.op \in Nat
  BY <1>2, Zenon DEF IsSingle, IsJump, IsMovx, IsMove, IsShift
<1>4. form.op = OpOf(line)
  BY <1>2, SingleOp, JumpForm, MovxForm, MoveForm, ShiftForm, Zenon
<1> QED BY <1>1, <1>3, <1>4

(***************************************************************************)
(* The smallest operation is chosen.                                       *)
(***************************************************************************)
LEMMA FormTold ==
  ASSUME NEW line, NEW form \in Forms, Takes(line, form)
  PROVE  form.op = OpOf(line) /\ form.op \in Nat
<1>1. PICK info : /\ IsRow(info)
                  /\ form.op = info.op /\ form.name = info.name
                  /\ form.mdfr = info.mdfr /\ form.swap = info.swap
                  /\ form.len \in {1, 2, 4}
                  /\ form.layout = Layout[info.layouts[LEN_IDS[form.len]]]
  BY FormRow
<1>2. form.layout \in LayoutsOf(info.layouts)
  BY <1>1, Zenon DEF LayoutsOf
<1>3. FormOf(form, info)
  BY <1>1, <1>2, Zenon DEF FormOf
<1> QED BY <1>1, <1>3, OpIsTold, Zenon DEF IsRow

(* A line with another length. *)
LEMMA OtherLen ==
  ASSUME NEW line, IsLine(line), NEW n
  PROVE  LET other == [line EXCEPT !.len = n]
         IN /\ other.op = line.op /\ other.len = n /\ other.args = line.args
            /\ other.split = line.split /\ other.mdfr = line.mdfr
            /\ other.par = line.par
<1>1. line = [op |-> line.op, len |-> line.len, args |-> line.args,
              split |-> line.split, mdfr |-> line.mdfr, par |-> line.par]
  BY Zenon DEF IsLine, Line
<1> QED BY <1>1, SMT

LEMMA SameFits ==
  ASSUME NEW line, NEW other, NEW form,
         other.args = line.args, other.split = line.split, other.par = line.par,
         other.mdfr = line.mdfr
  PROVE  /\ LayoutFits(other, form) = LayoutFits(line, form)
         /\ MdfrFits(other, form) <=> MdfrFits(line, form)
<1>1. \A type, i : Twin(other, type, i) = Twin(line, type, i)
  BY Zenon DEF Twin, OperandNum
<1>2. \A layout, swap, mdfr, needs :
        Compatible(layout, other, swap, mdfr, needs)
          = Compatible(layout, line, swap, mdfr, needs)
  <2> SUFFICES ASSUME NEW layout, NEW swap, NEW mdfr, NEW needs
               PROVE  Compatible(layout, other, swap, mdfr, needs)
                        = Compatible(layout, line, swap, mdfr, needs)
    OBVIOUS
  <2>1. ASSUME NEW k \in DOMAIN layout
        PROVE  (\A i \in DOMAIN other.args :
                  LET type == layout[k].fields[Swapped(swap, i)].type
                  IN Fits(type, other.args[i], Twin(other, type, i), mdfr))
               <=> (\A i \in DOMAIN line.args :
                      LET type == layout[k].fields[Swapped(swap, i)].type
                      IN Fits(type, line.args[i], Twin(line, type, i), mdfr))
    BY <1>1, SMT
  <2> QED BY <2>1, SMT DEF Compatible
<1> QED BY <1>2, Zenon DEF LayoutFits, MdfrFits

LEMMA Fitting ==
  ASSUME NEW line, NEW form \in Forms, NEW k \in LayoutFits(line, form),
         form.name = line.op, MdfrFits(line, form), form.len \in AllowedLens(line)
  PROVE  [form |-> form, alt |-> k] \in OpFits(line)
<1>1. line.op \in Names /\ form \in Named[line.op]
  BY FormNamed, Zenon
<1>2. [form |-> form, alt |-> k] \in Found(form, LayoutFits(line, form))
  BY Zenon DEF Found
<1> QED BY <1>1, <1>2, Zenon DEF OpFits

(* No operation of fewer words takes a line: all that take it have the same
   number, and of those the one of the fewest words is found first. *)
LEMMA NoneIsShorter ==
  ASSUME NEW line, IsLine(line), line.len = 0, NEW n \in {1, 2, 4},
         NEW c \in Choice(line), n < c.form.len
  PROVE  Refused([line EXCEPT !.len = n]) \/ Crashes([line EXCEPT !.len = n])
<1> DEFINE shorter == [line EXCEPT !.len = n]
<1>1. /\ shorter.op = line.op /\ shorter.len = n /\ shorter.args = line.args
      /\ shorter.split = line.split /\ shorter.mdfr = line.mdfr
      /\ shorter.par = line.par
  BY OtherLen
<1> HIDE DEF shorter
<1> SUFFICES ASSUME ~Refused(shorter), ~Crashes(shorter) PROVE FALSE
  BY DEF shorter
<1>2. PICK d \in Choice(shorter) : ~(shorter.par # {} /\ d.form.len = 1)
  BY Zenon DEF Refused
<1>3. PICK g \in Forms : \E m \in LayoutFits(shorter, g) :
        /\ d = [form |-> g, alt |-> g.layout[m]]
        /\ g.name = shorter.op /\ MdfrFits(shorter, g)
        /\ g.len \in AllowedLens(shorter)
  BY Chosen, Zenon
<1>4. PICK m \in LayoutFits(shorter, g) :
        /\ d = [form |-> g, alt |-> g.layout[m]]
        /\ g.name = shorter.op /\ MdfrFits(shorter, g)
        /\ g.len \in AllowedLens(shorter)
  BY <1>3, Zenon
<1>5. g.len = n /\ d.form.len = n
  <2>1. shorter.len # 0
    BY <1>1
  <2>2. AllowedLens(shorter) = {n}
    BY <1>1, <2>1, Zenon DEF AllowedLens
  <2> QED BY <1>4, <2>2
<1>6. n \in AllowedLens(line)
  <2>1. ASSUME NEW par \in line.par PROVE n # 1 /\ ParFits(par, n) # {}
    <3>1. n # 1
      BY <1>1, <1>2, <1>5, <2>1, Zenon
    <3>2. ParFits(par, d.form.len) # {}
      BY <1>1, <1>5, <3>1, <2>1, Zenon DEF Crashes
    <3> QED BY <1>5, <3>1, <3>2
  <2>2. AllowedLens(line) = {l \in {1, 2, 4} :
                               \A par \in line.par : l # 1 /\ ParFits(par, l) # {}}
    BY Zenon DEF AllowedLens
  <2> QED BY <2>1, <2>2
<1>7. m \in LayoutFits(line, g) /\ MdfrFits(line, g) /\ g.name = line.op
  BY <1>1, <1>4, SameFits, Zenon
<1>8. [form |-> g, alt |-> m] \in OpFits(line)
  BY <1>5, <1>6, <1>7, Fitting, Zenon
<1>9. PICK f \in Forms : \E k \in LayoutFits(line, f) :
        /\ c = [form |-> f, alt |-> f.layout[k]]
        /\ f.name = line.op /\ MdfrFits(line, f) /\ f.len \in AllowedLens(line)
        /\ \A e \in OpFits(line) : LET own == [form |-> f, alt |-> k]
                                   IN own = e \/ Before(own, e)
  BY Chosen, Zenon
<1>10. PICK k \in LayoutFits(line, f) :
        /\ c = [form |-> f, alt |-> f.layout[k]]
        /\ f.name = line.op /\ MdfrFits(line, f)
        /\ [form |-> f, alt |-> k] = [form |-> g, alt |-> m]
             \/ Before([form |-> f, alt |-> k], [form |-> g, alt |-> m])
  BY <1>8, <1>9, Zenon
<1>11. HasArgs(line)
  <2>1. line.args \in Seq(Range(line.args))
    BY Zenon DEF IsLine
  <2> QED BY <2>1, LenProperties, Zenon DEF HasArgs
<1>12. f.op = g.op /\ f.op \in Nat
  <2>1. Takes(line, f)
    BY <1>10, <1>11, Zenon DEF Takes
  <2>2. Takes(line, g)
    BY <1>7, <1>11, Zenon DEF Takes
  <2> QED BY <2>1, <2>2, FormTold, Zenon
<1>13. n < f.len /\ f.len \in {1, 2, 4}
  <2>1. c.form = f
    BY <1>10
  <2> QED BY <2>1, FormLen
<1>14. f = g \/ f.op < g.op \/ (f.op = g.op /\ f.len < g.len)
  BY <1>10, SMT DEF Before
<1> QED BY <1>5, <1>12, <1>13, <1>14, SMT

(* The lines that were written are those of the text, until the listing is
   given to the assembler. *)
SourceInv ==
  ~again =>
    /\ IsText(text) /\ read \in Nat
    /\ written \in Seq([item : DOMAIN text, addr : Nat])

LEMMA WriteKeepsSource ==
  ASSUME ListInv, SourceInv, NEW words, Write(words), read < Len(text)
  PROVE  SourceInv'
<1>1. SUFFICES ASSUME ~again' PROVE SourceInv'
  BY DEF SourceInv
<1>2. ~again /\ text' = text /\ read' = read + 1
      /\ written' = Append(written, [item |-> read + 1, addr |-> Len(file)])
  BY <1>1 DEF Write
<1>3. /\ IsText(text) /\ read \in Nat
      /\ written \in Seq([item : DOMAIN text, addr : Nat])
  BY <1>2 DEF SourceInv
<1>4. Len(text) \in Nat /\ DOMAIN text = 1 .. Len(text)
  <2>1. text \in Seq(Range(text))
    BY <1>3 DEF IsText
  <2> QED BY <2>1, LenProperties
<1>5. read + 1 \in DOMAIN text /\ read + 1 \in Nat
  BY <1>3, <1>4, SMT
<1>6. Len(file) \in Nat
  <2>1. file \in Seq(Word)
    BY DEF ListInv, Typed
  <2> QED BY <2>1, LenProperties
<1>7. [item |-> read + 1, addr |-> Len(file)] \in [item : DOMAIN text, addr : Nat]
  BY <1>5, <1>6
<1>8. written' \in Seq([item : DOMAIN text, addr : Nat])
  BY <1>2, <1>3, <1>7, AppendProperties, Zenon
<1>9. IsText(text')
  BY <1>2, <1>3, Zenon
<1> QED BY <1>2, <1>5, <1>8, <1>9, Zenon DEF SourceInv

LEMMA OthersKeepSource ==
  ASSUME SourceInv, UNCHANGED <<text, written, again>>, read' \in {read, read + 1}
  PROVE  SourceInv'
<1>1. SUFFICES ASSUME ~again' PROVE SourceInv'
  BY DEF SourceInv
<1>2. /\ IsText(text) /\ read \in Nat
      /\ written \in Seq([item : DOMAIN text, addr : Nat])
  BY <1>1 DEF SourceInv
<1>3. read' \in Nat
  BY <1>2, SMT
<1>4. IsText(text')
  BY <1>2, Zenon
<1>5. written' \in Seq([item : DOMAIN text', addr : Nat])
  BY <1>2, Zenon
<1> QED BY <1>3, <1>4, <1>5, Zenon DEF SourceInv

LEMMA SourceStep == ListInv /\ SourceInv /\ [Next]_vars => SourceInv'
<1> SUFFICES ASSUME ListInv, SourceInv, [Next]_vars PROVE SourceInv'
  OBVIOUS
<1>1. CASE AssembleLine
  <2>1. PICK c \in Choice(ReadLine) :
          Write(WordsOf(OpWords(ReadLine, c.form, c.alt), c.form.len))
    BY <1>1 DEF AssembleLine
  <2>2. read < Len(text)
    BY <1>1 DEF AssembleLine, Reading
  <2> QED BY <2>1, <2>2, WriteKeepsSource
<1>2. CASE AssembleExplicit \/ WriteZero
  <2>1. read < Len(text) /\ Write(<<{}>>)
    BY <1>2 DEF AssembleExplicit, WriteZero, Reading
  <2> QED BY <2>1, WriteKeepsSource
<1>3. CASE ReadOn
  <2>1. UNCHANGED <<text, written, again>> /\ read' = read + 1
    BY <1>3 DEF ReadOn
  <2> QED BY <2>1, OthersKeepSource
<1>4. CASE EndOfText \/ Refuse \/ ListOp \/ EndOfFile
  <2>1. UNCHANGED <<text, written, again, read>>
    BY <1>4 DEF EndOfText, Refuse, ListOp, EndOfFile, assembling
  <2> QED BY <2>1, OthersKeepSource
<1>5. CASE Die \/ CutShort
  <2>1. UNCHANGED <<text, written, again, read>>
    BY <1>5 DEF Die, CutShort
  <2> QED BY <2>1, OthersKeepSource
<1>6. CASE Reassemble
  BY <1>6 DEF Reassemble, SourceInv
<1>7. CASE UNCHANGED vars
  <2>1. UNCHANGED <<text, written, again, read>>
    BY <1>7 DEF vars
  <2> QED BY <2>1, OthersKeepSource
<1> QED BY <1>1, <1>2, <1>3, <1>4, <1>5, <1>6, <1>7 DEF Next

LEMMA SourceInit == Init => SourceInv
<1> SUFFICES ASSUME Init PROVE SourceInv
  OBVIOUS
<1>1. read = 0 /\ written = <<>>
  BY DEF Init
<1>2. PICK n \in 0 .. MaxItems : text \in Sources(n) \/ text = <<>>
  BY DEF Init
<1>3. IsText(text)
  <2>1. CASE text \in Sources(n)
    BY <2>1, SourcesAssumption, Zenon
  <2>2. CASE text = <<>>
    <3>1. <<>> \in Seq(Range(<<>>)) /\ DOMAIN <<>> = {}
      BY SMT DEF Range
    <3> QED BY <2>2, <3>1, Zenon DEF IsText
  <2> QED BY <1>2, <2>1, <2>2
<1>4. written \in Seq([item : DOMAIN text, addr : Nat])
  BY <1>1, EmptySeq, Zenon
<1> QED BY <1>1, <1>3, <1>4 DEF SourceInv

LEMMA SourceIsSmallest == ListInv /\ SourceInv => SmallestIsChosen
<1> SUFFICES ASSUME ListInv, SourceInv, status = "listed",
                    NEW w \in WrittenLines, w.line.len = 0,
                    NEW n \in {1, 2, 4},
                    \E c \in Choice(w.line) : [w.line EXCEPT !.len = n].len < c.form.len
             PROVE  LET shorter == [w.line EXCEPT !.len = n]
                    IN Refused(shorter) \/ Crashes(shorter)
  BY Zenon DEF SmallestIsChosen
<1>1. ~again
  BY DEF ListInv, Once
<1>2. PICK k \in DOMAIN written :
        text[written[k].item].kind = "line" /\ w.line = text[written[k].item].line
  <2>1. PICK k \in {j \in DOMAIN written : text[written[j].item].kind = "line"} :
          w = [k |-> k, addr |-> written[k].addr, line |-> text[written[k].item].line]
    BY Zenon DEF WrittenLines
  <2> QED BY <2>1
<1>3. written[k].item \in DOMAIN text
  <2>1. written \in Seq([item : DOMAIN text, addr : Nat])
    BY <1>1 DEF SourceInv
  <2>2. written[k] \in [item : DOMAIN text, addr : Nat]
    BY <2>1, SeqIsFunction, Zenon
  <2> QED BY <2>2
<1>4. IsLine(w.line)
  <2>1. IsText(text)
    BY <1>1 DEF SourceInv
  <2> QED BY <1>2, <1>3, <2>1, Zenon DEF IsText
<1>5. [w.line EXCEPT !.len = n].len = n
  BY <1>4, OtherLen, Zenon
<1>6. PICK c \in Choice(w.line) : n < c.form.len
  BY <1>5, Zenon
<1> QED BY <1>4, <1>6, NoneIsShorter, Zenon

(* Whatever texts there are: an operation without a length is written in the
   smallest that takes it. *)
THEOREM SmallestTheorem == Spec => []SmallestIsChosen
<1>1. Spec => []SourceInv
  <2>1. SourceInv /\ ListInv /\ [Next]_vars => SourceInv'
    BY SourceStep
  <2>2. Spec => []ListInv
    BY ListInductive
  <2> QED BY SourceInit, <2>1, <2>2, PTL DEF Spec
<1>2. Spec => []ListInv
  BY ListInductive
<1> QED BY <1>1, <1>2, SourceIsSmallest, PTL
=============================================================================
