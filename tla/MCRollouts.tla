----------------------------- MODULE MCRollouts -----------------------------
(* The instances of Rollouts: overlapping user operations on a rolling       *)
(* service, a service with a volume, the loss and maintenance of nodes, the  *)
(* return of capacity and a change of the replica count between releases.    *)
EXTENDS Rollouts

CONSTANTS e1, e2

Scope(envoys, volume, replicas, operations, allocs, generations) ==
  [envoys |-> envoys, volume |-> volume, replicas |-> replicas, operations |-> operations,
   allocs |-> allocs, generations |-> generations]

AllScopes == {
  Scope({e1, e2}, FALSE, {2}, {"release", "redeploy", "remove"}, 4, 2),
  Scope({e1}, FALSE, {1}, {"release", "restart", "redeploy", "remove", "maintenance"}, 4, 3),
  Scope({e1}, TRUE, {1}, {"release", "restart", "redeploy", "cancel", "remove", "nodeloss"}, 4, 3),
  Scope({e1}, FALSE, {1}, {"release", "nodeloss", "maintenance", "cancel", "fleet"}, 3, 2),
  Scope({e1}, FALSE, {1, 2}, {"release"}, 4, 2),
  Scope({e1}, FALSE, {2}, {"release", "remove", "cancel", "timed"}, 3, 2),
  Scope({e1}, FALSE, {1}, {"release", "remove", "nodeloss", "timed"}, 3, 2),
  Scope({e1}, TRUE, {1}, {"release", "remove", "nodeloss", "timed"}, 3, 2)}
=============================================================================
