------------------------------ MODULE HicWords ------------------------------
(***************************************************************************)
(* What the HIC bus and its abstract specification share: addresses, words, *)
(* and the jobs the chipio tools are started for.                           *)
(*                                                                         *)
(* An address is an integer; a data word is a pair of opaque 16-bit halves. *)
(***************************************************************************)
EXTENDS Integers, Sequences

CONSTANTS
    LOW_SIZE,       \* values of the low half of an address   (code: 2^16)
    HIGH_SIZE,      \* values of the high half of an address  (code: 2^16)
    Datum,          \* values of one half of a data word
    Zero,           \* the word a failed read leaves behind
    InitialMem,     \* what the bus may hold when the first tool is started
    Jobs            \* what the user may ask of the tools

Addr == 0 .. LOW_SIZE * HIGH_SIZE - 1
Word == Datum \X Datum

(* Words are four addresses apart on the bus.                              *)
WORD_STEP == 4

WordAddr(base, j) == base + WORD_STEP * (j - 1)

(***************************************************************************)
(* A job is one use of a tool: "dump" reads n words from base on            *)
(* (chipio-read-data has n = 1), "load" writes them and reads them back     *)
(* (chipio-write-data has n = 1).                                           *)
(***************************************************************************)
Job == [kind : {"dump", "load"}, base : Addr, n : Nat, words : Seq(Word)]

ASSUME SizesAssumption == LOW_SIZE \in Nat \ {0} /\ HIGH_SIZE \in Nat \ {0}

ASSUME WordAssumption == Zero \in Word /\ InitialMem \subseteq [Addr -> Word]

(* A job does not run past the last address.                               *)
ASSUME JobsAssumption ==
    \A j \in Jobs : /\ j \in Job
                    /\ j.n >= 1
                    /\ WordAddr(j.base, j.n) \in Addr
                    /\ j.kind = "load" => Len(j.words) = j.n
=============================================================================
