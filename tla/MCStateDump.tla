---------------------------- MODULE MCStateDump ----------------------------
(* A small instance of StateDump for TLC.  Two pieces show a section that   *)
(* is half one request's and half another's; two looks at the signal, one   *)
(* that is too early and one that is not; two runs, a run after a killed    *)
(* or a late one.                                                          *)
EXTENDS StateDump

MCParts == 2
MCPolls == 2
MCRuns  == 2
=============================================================================
