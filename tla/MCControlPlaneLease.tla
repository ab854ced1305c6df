----------------------- MODULE MCControlPlaneLease -------------------------
(* The control-plane lease with two replicas. *)
EXTENDS ControlPlaneLease

CONSTANTS r1, r2

MCReplicas == {r1, r2}
=============================================================================
