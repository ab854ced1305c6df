--------------------------- MODULE MCAgentSession ---------------------------
(* Three connections of one agent, two across a loss of the live role; and an agent with work    *)
(* that may die: with two connections, and with one across a loss of the live role, where its    *)
(* work may also fail on its own, is routed or not, can be probed or not, and can move or not.   *)
EXTENDS AgentSession

Presence(connections, losses) ==
  [incarnations |-> connections, restarts |-> losses, failover |-> "no", faults |-> "yes",
   routed |-> "no", mesh |-> "no", spare |-> "no"]

Fleet(connections, losses, faults, routed, mesh, spare) ==
  [incarnations |-> connections, restarts |-> losses, failover |-> "yes", faults |-> faults,
   routed |-> routed, mesh |-> mesh, spare |-> spare]

MCScopes ==
  {Presence(3, 0), Presence(2, 1),
   Fleet(2, 0, "no", "yes", "yes", "yes"),
   Fleet(1, 1, "yes", "yes", "yes", "yes"),
   Fleet(1, 1, "no", "no", "yes", "yes"),
   Fleet(1, 1, "no", "yes", "no", "yes"),
   Fleet(1, 1, "no", "yes", "yes", "no")}
=============================================================================
