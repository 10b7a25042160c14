--------------------------- MODULE MCAgentProcesses ---------------------------
(***************************************************************************)
(* AgentProcesses for TLC.                                                 *)
(***************************************************************************)
EXTENDS AgentProcesses, TLC
===============================================================================
