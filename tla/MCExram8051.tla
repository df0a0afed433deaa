---------------------------- MODULE MCExram8051 ----------------------------
(* Small instances of Exram8051 for TLC.                                   *)
EXTENDS Exram8051, TLC

MCDatum == 0 .. SIZE

(* Bytes that all differ, so that no address can stand in for another, and  *)
(* none of them that of a cleared buffer; the two memories may differ.      *)
MCInitialMem == { [a \in Addr |-> a + 1], [a \in Addr |-> SIZE - a] }

Read(kind, base, n)  == [kind |-> kind, base |-> base, n |-> n, bytes |-> <<>>]
Write(kind, base, b) == [kind |-> kind, base |-> base, n |-> Len(b), bytes |-> b]

(* With pages of four bytes and pieces of two: single bytes, both ends of   *)
(* the memory, ranges within a page, across one and across two, a last      *)
(* piece of its own, nothing at all, and one byte too many.                 *)
Reads == { Read("peek", a, 1) : a \in {0, 2, SIZE - 1} }
         \cup { Read("dump", 0, n) : n \in {0, 1, 5} }
         \cup { Read("dump", 3, 2), Read("dump", 2, 7), Read("dump", 4, SIZE - 4),
                Read("code", 1, SIZE - 1), Read("code", 3, 3) }

Writes == { Write("poke", SIZE - 1, <<0>>), Write("poke", 3, <<9>>),
            Write("load", 3, <<8, 7, 6>>), Write("load", 5, <<>>),
            Write("load", SIZE - 3, <<4, 5>>), Write("load", SIZE - 3, <<4, 5, 6>>),
            Write("load", SIZE - 1, <<4, 5>>) }

MCAsked == Reads \cup Writes
=============================================================================
