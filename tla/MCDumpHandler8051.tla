------------------------- MODULE MCDumpHandler8051 -------------------------
(* A small instance of DumpHandler8051 for TLC.                            *)
EXTENDS DumpHandler8051, TLC

(* Bytes that differ from one address to the next and from bank to bank.    *)
MCPmem(bank, a) == (bank * 7 + a + a \div 256) % 251

MCLowXram == [a \in LowAddr |-> (3 * a + a \div 256 + 1) % 251]

MCInitialIram == { [a \in 0 .. 255 |-> (5 * a + 9) % 256] }

(* Registers all different; the second data pointer may be the selected one. *)
MCInitialSfr ==
    { [s \in Sfrs |-> IF s = SP THEN \h90 ELSE IF s = DP_TGL THEN t ELSE (s * 3) % 256] :
      t \in {0, 1} }

(* The three handlers, and the first value beyond them.                    *)
MCValues == 0 .. 3
=============================================================================
