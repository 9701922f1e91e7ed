--------------------------- MODULE MCAgentServer ---------------------------
(* Instance of AgentServer for TLC. *)
EXTENDS AgentServer
=============================================================================
