--------------------------- MODULE MCAgentPolicy ---------------------------
(* AgentPolicy for TLC, without symmetry: its runs check liveness.          *)
EXTENDS AgentPolicy
=============================================================================
