--------------------------- MODULE MCChipStreams ---------------------------
(* Small instance of ChipStreams for TLC.                                  *)
EXTENDS ChipStreams
=============================================================================
