---------------------------- MODULE MCAgentFaults ----------------------------
(***************************************************************************)
(* Constants of the TLC runs of AgentFaults.                               *)
(***************************************************************************)
EXTENDS AgentFaults

OneButton == {[ret |-> "NONE", button |-> 4]}
=============================================================================
