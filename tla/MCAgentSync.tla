---------------------------- MODULE MCAgentSync ----------------------------
(* One allocation whose spec and overlay change, over two sessions. *)
EXTENDS AgentSync

CONSTANTS a

OneAlloc == {a}
=============================================================================
