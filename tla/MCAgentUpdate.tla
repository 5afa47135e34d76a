---------------------------- MODULE MCAgentUpdate ----------------------------
(* Small instances of AgentUpdate for TLC. *)
EXTENDS AgentUpdate
=============================================================================
