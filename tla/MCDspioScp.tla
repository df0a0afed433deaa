----------------------------- MODULE MCDspioScp -----------------------------
(* Small instances of DspioScp for TLC.                                    *)
EXTENDS DspioScp

Cmd(req, data) == [src |-> 32, mid |-> 49, req |-> req, data |-> data]

(* A data word that, taken for a header, announces three more words, and    *)
(* one that announces none.                                                 *)
Long  == <<1, 6144>>
Short == <<7, 2>>

(* No data, some data, one word more than the size field of SIZES = 4 can   *)
(* count, and a request that uses every bit of its field.                   *)
MCCommands == { Cmd(3, <<>>), Cmd(127, <<Long, Short>>),
                Cmd(5, <<Short, Long, Short, Long>>) }

(* Commands whose words all differ, to see which are queued.               *)
RetryCommands == { Cmd(9, <<Short>>) }
=============================================================================
