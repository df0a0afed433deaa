------------------------------ MODULE MCHicBus ------------------------------
(* Small instances of HicBus for TLC.                                      *)
EXTENDS HicBus

CONSTANTS d0, d1    \* the two values of half a data word

MCDatum == {d0, d1}
MCZero  == <<d0, d0>>
MCInitialMem == { [a \in Addr |-> MCZero],
                  [a \in Addr |-> IF a = 8 THEN <<d1, d0>> ELSE <<d0, d1>>] }

Dump(base, n)     == [kind |-> "dump", base |-> base, n |-> n, words |-> <<>>]
Load(base, words) == [kind |-> "load", base |-> base, n |-> Len(words),
                      words |-> words]

(* Low halves run over 0..7, so 4 -> 8 carries into the high half.  The     *)
(* loads overlap, differ in one half of a word, and cross that carry.       *)
Loads == { Load(4, <<<<d1, d0>>, <<d0, d1>>>>), Load(8, <<<<d1, d1>>>>) }

(* With two pieces: one word; two pieces of one; a last piece of its own.   *)
Dumps == { Dump(0, 1), Dump(8, 2), Dump(0, 5) }

SafetyJobs == Loads \cup Dumps
=============================================================================
