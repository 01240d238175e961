--------------------------- MODULE MCAgentProcess ---------------------------
(* AgentProcess for TLC.                                                    *)
EXTENDS AgentProcess
=============================================================================
