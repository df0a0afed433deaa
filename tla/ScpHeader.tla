------------------------------ MODULE ScpHeader ------------------------------
(***************************************************************************)
(* The header word of an SCP command, as create_scp_header packs it and     *)
(* get_scp_data takes it apart.  A 32-bit word is the pair of its 16-bit    *)
(* halves <<low, high>>: the form in which it is sent.                      *)
(*                                                                         *)
(* A definition marked "Fault" is a wrong version of the one that follows,  *)
(* kept to show which property would notice it.                             *)
(***************************************************************************)
EXTENDS Integers, Sequences

CONSTANT SIZES      \* values of the data size field (code: 2^5)

ASSUME HeaderAssumption == SIZES \in 1 .. 32

Bit  == 0 .. 1
Byte == 0 .. 255

ScpData == [data_size : 0 .. SIZES - 1, error_flag : Bit, resp_flag : Bit,
            device_flag : Bit, req : 0 .. 127, get_flag : Bit,
            source_id : Byte, target_id : Byte]

(* pack_scp_data: what does not fit a field is cut off, the flags are zero. *)
Pack(size, req, src, target) ==
    [data_size |-> size % SIZES, error_flag |-> 0, resp_flag |-> 0,
     device_flag |-> 0, req |-> req % 128, get_flag |-> 0,
     source_id |-> src % 256, target_id |-> target % 256]

CreateHeader(d) ==
    << d.source_id * 256 + d.target_id,
       d.data_size * 2048 + d.error_flag * 1024 + d.resp_flag * 512
         + d.device_flag * 256 + d.req * 2 + d.get_flag >>

GetScpData(w) ==
    [data_size   |-> (w[2] \div 2048) % SIZES,
     error_flag  |-> (w[2] \div 1024) % 2,
     resp_flag   |-> (w[2] \div 512) % 2,
     device_flag |-> (w[2] \div 256) % 2,
     req         |-> (w[2] \div 2) % 128,
     get_flag    |-> w[2] % 2,
     source_id   |-> (w[1] \div 256) % 256,
     target_id   |-> w[1] % 256]
=============================================================================
