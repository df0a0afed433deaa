--------------------------- MODULE MCConsole8051 ---------------------------
(* Small instances of Console8051 for TLC.                                 *)
EXTENDS Console8051, TLC

(* With an IN ring of seven bytes, fgets reads at most three characters: an *)
(* empty line, one that fills the chunk, and one that takes two chunks (and *)
(* would fill the ring if fgets read all of it).                           *)
MCLines == { <<>>, <<"a", "b">>, <<"c", "d", "e", "f", "g">> }

(* From the first of these places four bytes end with the ring, from the    *)
(* second they go on at its beginning; the OUT ring is at its last byte.    *)
MCFirstIn  == {IN_LEN - 4, IN_LEN - 2}
MCFirstOut == {OUT_LEN - 1}

(* The echo of the console may be on or off.                               *)
MCEcho == {0, 1}
=============================================================================
