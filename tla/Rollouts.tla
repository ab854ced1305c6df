------------------------------ MODULE Rollouts ------------------------------
(***************************************************************************)
(* How the control plane replaces the allocations of one service.           *)
(*                                                                          *)
(* A user's release, restart, rollback, cancellation or removal, the loss   *)
(* of a node, the maintenance drain of an agent and a change of the fleet's *)
(* capacity each rewrite the service in one transaction (they hold          *)
(* schedulerMu).  Agents' reports and the reconciler advance the current    *)
(* rollout with the plan of decideRollout and decideRolloutPlacement.  A    *)
(* predecessor is first withdrawn from ingress; the reconciler then         *)
(* publishes the routes, looks whether every Envoy applied them, and only   *)
(* in a further transaction lets the withdrawn allocations drain.  The      *)
(* reconciler holds no lock across those steps.                             *)
(*                                                                          *)
(* svc is the service's row, its rollouts, deployments and allocations:     *)
(*   allocs   allocation id -> [gen, state, phase]; ids in order of creation *)
(*   gen      the current rollout generation, 0 before the first release     *)
(*   rollout  the state of that generation's rollout                         *)
(*   target   its target_allocation_id, 0 when it replaces every replica     *)
(*   hist     generation -> its deployment's state, content and replicas     *)
(*   stalled  the rollout made no progress for defaultRolloutSchedulingWait  *)
(*   message  placement_message is set                                       *)
(*   next     the next allocation id                                         *)
(* phase is the observed phase: "failed" stands for every phase that fails   *)
(* readiness and for a passed healthcheck deadline, "drained" for the        *)
(* report Drained and for a passed drain deadline.                           *)
(* Not modelled here: builds (a release has its image), serverless sleep,    *)
(* billing restrictions, staged changes and the choice of the agent: a       *)
(* placement finds room for any number of the allocations it asks for.       *)
(* The live view advanceRollout reads first is taken to agree with the       *)
(* database.                                                                 *)
(***************************************************************************)
EXTENDS Naturals, FiniteSets, FiniteSetsExt, Functions

CONSTANTS
  Scopes   \* the instances to explore, each a record of
           \*   envoys       the ingress nodes
           \*   volume       the service has a volume
           \*   replicas     bound: the replica counts a release may ask for
           \*   operations   the operations that may be used
           \*   allocs       bound: allocations ever created
           \*   generations  bound: rollout generations

ASSUME ScopeAssumption ==
  \A c \in Scopes :
     /\ c.volume \in BOOLEAN /\ (c.volume => c.replicas = {1})
     /\ c.replicas \subseteq Nat /\ c.allocs \in Nat /\ c.generations \in Nat \ {0}

VARIABLES
  scope,      \* the instance, chosen at the start
  svc,        \* the service, described above
  pass,       \* the step of ReconcileRollouts: "idle", "sync", "check" or "confirm"
  published,  \* the allocations in the published routes
  applied     \* Envoy -> the allocations in the routes it applied

vars == <<scope, svc, pass, published, applied>>
around == <<scope, pass, published, applied>>


Envoys == scope.envoys
Recreate == scope.volume
Generations == 1..scope.generations
Terminal == {"completed", "failed", "cancelled", "crashed", "removed", "superseded"}
Blank == [dep |-> "none", content |-> 0, replicas |-> 0]

Init ==
  /\ scope \in Scopes
  /\ svc = [allocs |-> <<>>, gen |-> 0, rollout |-> "none", target |-> 0,
            hist |-> [g \in Generations |-> Blank],
            stalled |-> FALSE, message |-> FALSE, next |-> 1]
  /\ pass = "idle"
  /\ published = {}
  /\ applied = [e \in Envoys |-> {}]

-----------------------------------------------------------------------------
(* The allocations of a service value s.                                     *)

In(s, states) == {i \in DOMAIN s.allocs : s.allocs[i].state \in states}

Occupying == {"starting", "serving", "withdrawing"}

\* AllocationReady: the overlay hides the health of withdrawn, draining and lost allocations.
Ready(a) == a.state \in {"starting", "serving"} /\ a.phase = "healthy"

ReadyIn(s, states) == {i \in In(s, states) : Ready(s.allocs[i])}

\* The first k of S: creation order is the order of the ids.
First(S, k) == {i \in S : Cardinality({j \in S : j < i}) < k}

Moved(s, I, st) ==
  LET move(a) == [a EXCEPT !.state = st, !.phase = IF st = "serving" THEN @ ELSE "hidden"]
  IN [s EXCEPT !.allocs = [i \in DOMAIN s.allocs |-> IF i \in I THEN move(s.allocs[i]) ELSE s.allocs[i]]]

Deleted(s, I) == [s EXCEPT !.allocs = Restrict(@, DOMAIN s.allocs \ I)]

Added(s, n) ==
  LET new == s.next..(s.next + n - 1)
      fresh == [gen |-> s.gen, state |-> "starting", phase |-> "pending"]
  IN [s EXCEPT !.allocs = [i \in DOMAIN s.allocs \cup new |-> IF i \in new THEN fresh ELSE s.allocs[i]],
               !.next = @ + n]

Room(s, n) == 0..Min({n, scope.allocs + 1 - s.next})

\* applyDeploymentTransitionTx with IgnoreIfTerminal.
DepTo(s, g, d) == [s EXCEPT !.hist[g].dep = IF @ \in Terminal THEN @ ELSE d]

Removing(s) == s.gen > 0 /\ s.hist[s.gen].dep = "removing"

Replicas(s) == s.hist[s.gen].replicas

-----------------------------------------------------------------------------
(* decideRollout and decideRolloutPlacement.                                 *)

Target(s) == {i \in DOMAIN s.allocs : s.allocs[i].state # "lost" /\ s.allocs[i].gen = s.gen}

Older(s) == {i \in DOMAIN s.allocs : s.allocs[i].state # "lost" /\ s.allocs[i].gen < s.gen}

Predecessors(s) == {i \in Older(s) : s.target \in {0, i}}

TargetCount(s) == IF s.target # 0 THEN 1 ELSE Replicas(s)

MaxSurge == IF Recreate THEN 0 ELSE 1

MaxUnavailable(s) == IF Recreate THEN TargetCount(s) ELSE 0

Least(x, y) == IF x < y THEN x ELSE y
Most(x, y) == IF x < y THEN y ELSE x
Minus(x, y) == IF x < y THEN 0 ELSE x - y   \* max(0, x - y)

Drained(s) == {i \in In(s, {"draining"}) : s.allocs[i].phase = "drained"}

\* Slip: readiness failures are not looked for.
FailingNever(s) == {}

Failing(s) == {i \in Target(s) : s.allocs[i].state = "starting" /\ s.allocs[i].phase = "failed"}

Limit(s) == Replicas(s) + (IF Predecessors(s) # {} THEN MaxSurge ELSE 0)

Occupied(s) == Cardinality(In(s, Occupying))

Missing(s) == Minus(TargetCount(s), Cardinality(Target(s)))

\* Slip: a replacement is placed while the predecessor still holds the volume.
SlotsBesideVolume(s) == Least(Missing(s), Minus(Limit(s), Occupied(s)))

\* Slip: the surge limit is ignored.
SlotsUnlimited(s) == IF Recreate /\ Predecessors(s) # {} THEN 0 ELSE Missing(s)

Slots(s) ==
  IF Recreate /\ Predecessors(s) # {} THEN 0
  ELSE Least(Missing(s), Minus(Limit(s), Occupied(s)))

\* The predecessors that leave ingress in exchange for ready replacements.
Promotable(s) ==
  LET ready == Target(s) \cap ReadyIn(s, {"starting"})
      old == Predecessors(s) \cap In(s, {"serving"})
      needed == Minus(TargetCount(s), Cardinality(Target(s) \cap ReadyIn(s, {"serving"})))
      cap == Most(Cardinality(old), needed)
  IN IF Predecessors(s) = {} THEN ready ELSE First(ready, cap)

\* Slip: the first ready replacement takes every predecessor out of ingress.
ExchangedAll(s) == IF Promotable(s) = {} THEN {} ELSE Predecessors(s) \cap In(s, {"serving"})

Exchanged(s) == First(Predecessors(s) \cap In(s, {"serving"}), Cardinality(Promotable(s)))

Promoted(s) == Moved(Moved(s, Promotable(s), "serving"), Exchanged(s), "withdrawing")

\* Slip: predecessors are not waited for.
FinishedEarly(s) == Cardinality(Target(s) \cap ReadyIn(s, {"serving"})) >= TargetCount(s)

Finished(s) ==
  /\ Cardinality(Target(s) \cap ReadyIn(s, {"serving"})) >= TargetCount(s)
  /\ Predecessors(s) = {}

\* The predecessors a rollout with no withdrawal pending gives up, after placing n replacements.
Surplus(s, n) ==
  LET old == Predecessors(s) \cap In(s, {"serving"})
      available == Cardinality(ReadyIn(s, {"serving"}))
      spare == Minus(available, Minus(Replicas(s), MaxUnavailable(s)))
      over == Minus(Occupied(s) + n, Limit(s))
      room == Minus(Missing(s), n)
      withdraw == Most(spare, over)
  IN First(old, IF room > 0 THEN Least(withdraw, room) ELSE withdraw)

-----------------------------------------------------------------------------
(* advanceRolloutTx: the set of its outcomes, one for each number of         *)
(* replacements it finds room for.  wait is NeedsIngressConvergence.         *)

Completed(s) ==
  LET other == {g \in Generations \ {s.gen} : s.hist[g].dep \in {"draining", "removing"}}
      done == DepTo(s, s.gen, "active")
  IN [done EXCEPT !.rollout = "succeeded", !.message = FALSE, !.stalled = FALSE,
                  !.hist = [g \in Generations |-> IF g \in other THEN [@[g] EXCEPT !.dep = "completed"] ELSE @[g]]]

\* failRolloutTx: serving replacements survive, starting ones drain at once.
Failed(s) ==
  [DepTo(Moved(s, Target(s) \cap In(s, {"starting"}), "draining"), s.gen, "failed")
     EXCEPT !.rollout = "failed", !.stalled = FALSE]

Placed(s, n, exchanging) ==
  LET gone == IF exchanging THEN {} ELSE Surplus(s, n)
      wait == exchanging \/ gone # {}
      held == Recreate /\ Predecessors(s) # {}
      message == ~wait /\ (held \/ n < Missing(s))
      fails == ~held /\ ~wait /\ n = 0 /\ Missing(s) > 0 /\ s.stalled
  IN {[svc |-> IF fails THEN Failed(after) ELSE after, wait |-> wait] :
        after \in {[Added(Moved(s, gone, "withdrawing"), n) EXCEPT !.message = message]}}

\* After the promotions; s is the service as read, next with the drained rows gone.
Replaced(s, next, exchanging) ==
  LET progress(r) == [r EXCEPT !.svc.stalled = @ /\ r.svc.allocs = s.allocs]
  IN IF Finished(next) THEN {[svc |-> Completed(next), wait |-> FALSE]}
     ELSE {progress(r) : r \in UNION {Placed(next, n, exchanging) : n \in Room(s, Slots(next))}}

Decided(s, kept) ==
  IF In(kept, {"withdrawing"}) # {} THEN {[svc |-> kept, wait |-> TRUE]}
  ELSE IF Removing(kept) THEN
    {[svc |-> IF DOMAIN kept.allocs = {} THEN [DepTo(kept, kept.gen, "removed") EXCEPT !.message = FALSE] ELSE kept,
      wait |-> FALSE]}
  ELSE IF s.rollout # "in_progress" THEN {[svc |-> kept, wait |-> FALSE]}
  ELSE IF Failing(kept) # {} THEN {[svc |-> Failed(kept), wait |-> FALSE]}
  ELSE UNION {Replaced(s, next, Exchanged(kept) # {}) : next \in {Promoted(kept)}}

Advanced(s) == UNION {Decided(s, kept) : kept \in {Deleted(s, Drained(s))}}

\* advanceRollout: no transaction when the plan on the live view changes nothing but the message.
AdvanceRollout(s) ==
  LET idle(r) == Slots(s) = 0 /\ [r.svc EXCEPT !.message = s.message] = s
  IN {IF idle(r) THEN [r EXCEPT !.svc = s] ELSE r : r \in Advanced(s)}

-----------------------------------------------------------------------------
(* New rollouts.                                                              *)

\* prepareReplacementRolloutTx: an unfinished rollout loses its starting allocations.
Superseded(s) ==
  IF s.rollout # "in_progress" THEN s
  ELSE [DepTo(Deleted(s, In(s, {"starting"})), s.gen, "superseded") EXCEPT !.rollout = "superseded"]

\* retireCurrentDeploymentTx: an active or draining deployment keeps its state, no longer current.
Retired(s) ==
  IF s.gen = 0 THEN s
  ELSE [s EXCEPT !.hist[s.gen].dep = IF @ = "deploying" THEN "superseded" ELSE IF @ = "removing" THEN "draining" ELSE @]

Begun(s, content, replicas, target) ==
  LET old == Retired(Superseded(s))
  IN [old EXCEPT !.gen = @ + 1, !.rollout = "in_progress", !.target = target, !.stalled = FALSE,
                 !.hist[s.gen + 1] = [dep |-> "deploying", content |-> content, replicas |-> replicas]]

Start(s, content, replicas, target) ==
  /\ svc.gen < scope.generations
  /\ \E r \in Advanced(Begun(s, content, replicas, target)) : svc' = r.svc
  /\ UNCHANGED around

\* copyDeploymentRolloutTargetTx of the deployment of generation g.
Copy(s, g, target) == Start(s, s.hist[g].content, s.hist[g].replicas, target)

\* releaseServiceRevisionTx.
Release(replicas) ==
  /\ "release" \in scope.operations
  /\ Start(svc, Max({svc.hist[g].content : g \in Generations}) + 1, replicas, 0)

\* restartDeploymentTx: of every replica (0) or of the allocation t.
Restart(t) ==
  /\ "restart" \in scope.operations
  /\ svc.gen > 0
  /\ svc.hist[svc.gen].dep = "active"
  /\ t = 0 \/ t \in In(svc, {"starting", "serving", "lost"})
  /\ Copy(svc, svc.gen, t)

\* Exact redeploy, rollback and retry: each copies an earlier deployment.
Redeploy(g) ==
  /\ "redeploy" \in scope.operations
  /\ g <= svc.gen
  /\ Copy(svc, g, 0)

\* withdrawServiceAllocationsTx.
WithdrawAll(s) == Moved(s, In(s, {"starting", "serving"}), "withdrawing")

Cancel ==
  /\ "cancel" \in scope.operations
  /\ svc.gen > 0
  /\ svc.hist[svc.gen].dep = "deploying"
  /\ LET served == In(svc, {"serving", "withdrawing", "draining"}) # {}
         others == {g \in Generations \ {svc.gen} : svc.hist[g].dep \in {"active", "completed", "draining"}}
         mine == {i \in In(svc, {"starting"}) : svc.allocs[i].gen = svc.gen}
         ended == [DepTo(Deleted(svc, mine), svc.gen, "cancelled") EXCEPT !.rollout = "superseded", !.stalled = FALSE]
     IN \/ others # {} /\ Copy(ended, Max(others), 0)
        \/ /\ others = {}
           /\ svc' = IF served THEN WithdrawAll(ended) ELSE Deleted(ended, In(ended, {"starting"}))
           /\ UNCHANGED around

Remove ==
  /\ "remove" \in scope.operations
  /\ svc.gen > 0
  /\ svc.hist[svc.gen].dep \in {"active", "removing"}
  /\ LET asked == WithdrawAll([svc EXCEPT !.hist[svc.gen].dep = "removing"])
     IN svc' = IF DOMAIN svc.allocs = {} THEN [asked EXCEPT !.hist[svc.gen].dep = "removed", !.message = FALSE] ELSE asked
  /\ UNCHANGED around

-----------------------------------------------------------------------------
(* Node loss, maintenance and capacity.                                       *)

\* replaceLostNodeAllocationTx and decideFailover for an allocation of a dead agent.
NodeLoss(i) ==
  /\ "nodeloss" \in scope.operations
  /\ i \in In(svc, {"starting", "serving", "withdrawing", "draining"})
  /\ LET a == svc.allocs[i]
         lost == Moved(svc, {i}, "lost")
         ending == a.state \in {"withdrawing", "draining"}
     IN \/ /\ ending
           /\ svc' = lost
           /\ UNCHANGED around
        \/ /\ ~ending /\ ~Recreate      \* no placement for a replacement
           /\ svc' = [svc EXCEPT !.message = TRUE]
           /\ UNCHANGED around
        \/ /\ ~ending /\ ~Recreate /\ svc.rollout = "in_progress" /\ a.gen = svc.gen
           /\ \E r \in Advanced(lost) : svc' = r.svc
           /\ UNCHANGED around
        \/ ~ending /\ ~Recreate /\ svc.rollout # "in_progress" /\ Copy(lost, svc.gen, i)

\* reconcileDrainingAgent for an allocation of a draining agent.
MaintenanceDrain(i) ==
  /\ "maintenance" \in scope.operations
  /\ ~Recreate
  /\ i \in In(svc, {"starting", "serving", "lost"})
  /\ ~(svc.allocs[i].gen < svc.gen /\ svc.rollout = "in_progress" /\ svc.target \in {0, i})
  /\ Copy(svc, svc.gen, i)

\* reconcileServiceReplicasTx: ready allocations rank first, then the older ones.
FleetCapacity ==
  /\ "fleet" \in scope.operations
  /\ svc.message
  /\ LET live == DOMAIN svc.allocs \ In(svc, {"lost"})
         ready == ReadyIn(svc, {"starting", "serving"})
         keep == First(ready, Replicas(svc)) \cup First(live \ ready, Minus(Replicas(svc), Cardinality(ready)))
         needed == Minus(Replicas(svc), Cardinality(live))
     IN \E n \in Room(svc, needed) :
          svc' = [Added(Deleted(svc, live \ keep), n) EXCEPT !.message = n < needed]
  /\ UNCHANGED around

-----------------------------------------------------------------------------
(* Agents, time, the reconciler and the ingress.                              *)

\* recordStatusReport: the report of an agent about its allocation i.
Report(i, p) ==
  /\ i \in In(svc, {"starting", "serving", "withdrawing", "draining"})
  /\ LET a == svc.allocs[i]
         shown == a.state \in {"starting", "serving"}
         seen == IF shown THEN [svc EXCEPT !.allocs[i].phase = p] ELSE svc
         dep == svc.hist[a.gen].dep
     IN /\ shown => a.phase # p
        /\ IF svc.rollout = "in_progress" /\ a.gen = svc.gen
           THEN \E r \in AdvanceRollout(seen) : svc' = r.svc
           ELSE svc' = IF p = "failed" /\ dep \in {"active", "draining"} THEN DepTo(seen, a.gen, "crashed") ELSE seen
  /\ UNCHANGED around

\* The healthcheck timeout of a starting allocation passes.
ReadinessTimeout(i) ==
  /\ i \in In(svc, {"starting"})
  /\ svc.allocs[i].phase = "pending"
  /\ svc' = [svc EXCEPT !.allocs[i].phase = "failed"]
  /\ UNCHANGED around

\* The agent reports Drained, or the drain deadline passes.
FinishDrain(i) ==
  /\ i \in In(svc, {"draining"})
  /\ svc.allocs[i].phase # "drained"
  /\ svc' = [svc EXCEPT !.allocs[i].phase = "drained"]
  /\ UNCHANGED around

\* defaultRolloutSchedulingWait passes without progress.
SchedulingWait ==
  /\ svc.rollout = "in_progress"
  /\ ~svc.stalled
  /\ svc' = [svc EXCEPT !.stalled = TRUE]
  /\ UNCHANGED around

\* ReconcileRollouts, first part: InProgressRolloutServiceIDs and advanceRollout.
ReconcileAdvance ==
  /\ pass = "idle"
  /\ svc.rollout = "in_progress" \/ In(svc, {"withdrawing", "draining"}) # {}
  /\ \E r \in AdvanceRollout(svc) :
       /\ svc' = r.svc
       /\ pass' = IF r.wait THEN "sync" ELSE "idle"
  /\ UNCHANGED <<scope, published, applied>>

Routable(s) == ReadyIn(s, {"serving"})

\* ingress.Sync
ReconcileSync ==
  /\ pass = "sync"
  /\ published' = Routable(svc)
  /\ pass' = "check"
  /\ UNCHANGED <<scope, svc, applied>>

\* Slip: one Envoy is enough.
ConvergedSome == \E e \in Envoys : applied[e] = published

Converged == \A e \in Envoys : applied[e] = published

ReconcileCheck ==
  /\ pass = "check"
  /\ pass' = IF Converged THEN "confirm" ELSE "idle"
  /\ UNCHANGED <<scope, svc, published, applied>>

\* Slip: a removal is not let drain.
ConfirmedRollout(s) ==
  LET drain == Moved(s, In(s, {"withdrawing"}), "draining")
      older(g) == g < s.gen /\ s.hist[g].dep = "active"
  IN IF s.rollout # "in_progress" \/ In(s, {"withdrawing"}) = {} THEN s
     ELSE [drain EXCEPT !.stalled = FALSE,
             !.hist = [g \in Generations |-> IF older(g) THEN [@[g] EXCEPT !.dep = "draining"] ELSE @[g]]]

\* confirmRolloutIngressConverged: whatever is withdrawing by now drains.
Confirmed(s) ==
  LET drain == Moved(s, In(s, {"withdrawing"}), "draining")
      older(g) == g < s.gen /\ ~Removing(s) /\ s.hist[g].dep = "active"
  IN IF ~(s.rollout = "in_progress" \/ Removing(s)) \/ In(s, {"withdrawing"}) = {} THEN s
     ELSE [drain EXCEPT !.stalled = FALSE,
             !.hist = [g \in Generations |-> IF older(g) THEN [@[g] EXCEPT !.dep = "draining"] ELSE @[g]]]

ReconcileConfirm ==
  /\ pass = "confirm"
  /\ svc' = Confirmed(svc)
  /\ pass' = "idle"
  /\ UNCHANGED <<scope, published, applied>>

\* An error in any step, or a new leader: the pass starts over.
ReconcileAbandon ==
  /\ pass # "idle"
  /\ pass' = "idle"
  /\ UNCHANGED <<scope, svc, published, applied>>

\* Publisher.Run
Publish ==
  /\ published # Routable(svc)
  /\ published' = Routable(svc)
  /\ UNCHANGED <<scope, svc, pass, applied>>

Apply(e) ==
  /\ applied[e] # published
  /\ applied' = [applied EXCEPT ![e] = published]
  /\ UNCHANGED <<scope, svc, pass, published>>

-----------------------------------------------------------------------------
Ids == 1..scope.allocs

Next ==
  \/ \E r \in scope.replicas : Release(r)
  \/ \E t \in 0..scope.allocs : Restart(t)
  \/ \E g \in Generations : Redeploy(g)
  \/ Cancel
  \/ Remove
  \/ \E i \in Ids : NodeLoss(i)
  \/ \E i \in Ids : MaintenanceDrain(i)
  \/ FleetCapacity
  \/ \E i \in Ids, p \in {"healthy", "failed"} : Report(i, p)
  \/ \E i \in Ids : ReadinessTimeout(i)
  \/ \E i \in Ids : FinishDrain(i)
  \/ SchedulingWait
  \/ ReconcileAdvance
  \/ ReconcileSync
  \/ ReconcileCheck
  \/ ReconcileConfirm
  \/ ReconcileAbandon
  \/ Publish
  \/ \E e \in Envoys : Apply(e)

Spec == Init /\ [][Next]_vars

\* Timers fire, the reconciler and the publisher run on tickers and retry after
\* errors, and a connected Envoy applies what is published (in the instances that are
\* timed; the others are explored for safety).
Timed == "timed" \in scope.operations

\* When a pass of ReconcileAdvance changes something: ENABLED <<ReconcileAdvance>>_vars.
Due ==
  /\ pass = "idle"
  /\ svc.rollout = "in_progress" \/ In(svc, {"withdrawing", "draining"}) # {}
  /\ AdvanceRollout(svc) # {[svc |-> svc, wait |-> FALSE]}

FairSpec ==
  /\ Spec
  /\ \A i \in 1..Max({s.allocs : s \in Scopes}) :
       /\ WF_vars(Timed /\ i \in Ids /\ ReadinessTimeout(i))
       /\ WF_vars(Timed /\ i \in Ids /\ FinishDrain(i))
  /\ WF_vars(Timed /\ SchedulingWait)
  /\ []<>~(Timed /\ Due) \/ []<><<ReconcileAdvance>>_vars   \* weak fairness
  /\ SF_vars(Timed /\ ReconcileSync)
  /\ SF_vars(Timed /\ ReconcileCheck)
  /\ SF_vars(Timed /\ ReconcileConfirm)
  /\ WF_vars(Timed /\ Publish)
  /\ \A e \in UNION {s.envoys : s \in Scopes} : WF_vars(Timed /\ e \in Envoys /\ Apply(e))

-----------------------------------------------------------------------------
(* Properties.                                                                *)

\* No Envoy routes to an allocation that drains: Converged "gates destroying withdrawn
\* allocations: every active Envoy must fully apply first" (xds/publisher.go).
ConvergedFirst == \A e \in Envoys : applied[e] \cap In(svc, {"draining"}) = {}

\* No node is lost, no rollout cancelled and no capacity returned in this instance.
Undisturbed == scope.operations \cap {"nodeloss", "cancel", "fleet"} = {}

\* ConvergedFirst holds however releases, restarts, removals and reports fall between the
\* publication, the look at the Envoys and the confirmation of ReconcileRollouts, while
\* nothing else moves allocations (a loss or a cancellation at that moment breaks it).
DrainsUnrouted == Undisturbed => ConvergedFirst

\* defaultRolloutMaxUnavailable = 0: a step that withdraws ready replicas of a rolling service
\* puts as many ready ones into ingress, or leaves the desired number ready and serving.  What
\* the user removes or cancels leaves ingress as a whole, and a rollout scaled down below what
\* the service occupies sheds its oldest predecessors, ready or not (decideRolloutPlacement does
\* not look at the health of those over the limit).
KeepsCapacity ==
  LET before == Routable(svc)
      after == Routable(svc')
      out == {i \in before : i \in In(svc', {"withdrawing"})}
      in == after \ In(svc, {"serving"})
  IN Cardinality(out) <= Cardinality(in) \/ Cardinality(after) >= Replicas(svc')
Cancelled(s) == s.gen > 0 /\ s.hist[s.gen].dep = "cancelled"
ScaledDown == Occupied(svc) > Replicas(svc') + MaxSurge
NeverBelowCapacity == [][Recreate \/ Removing(svc') \/ Cancelled(svc') \/ ScaledDown \/ KeepsCapacity]_vars

\* defaultRolloutMaxSurge = 1: replacing a service needs one slot more than the larger of the
\* replica counts it had and will have, however many releases and restarts overlap.
SurgeBounded ==
  LET largest == Max({svc.hist[g].replicas : g \in Generations})
  IN Cardinality(In(svc, Occupying)) <= largest + MaxSurge

\* completeRolloutTx: when a rollout of every replica succeeds, what serves is the new
\* deployment alone, in the number asked for, and nothing of a predecessor is left.
SuccessIsWhole ==
  svc.rollout = "succeeded" /\ svc.target = 0 /\ ~Removing(svc) =>
    LET live == DOMAIN svc.allocs \ In(svc, {"lost"})
    IN /\ \A i \in live : svc.allocs[i].gen = svc.gen
       /\ Cardinality(live) <= Replicas(svc)

\* A volume has one user: the allocation that holds it is gone before the replacement that
\* needs it is placed (rolloutRecord.Recreate), through every cancellation and removal.
VolumeHasOneUser == Recreate => Cardinality(DOMAIN svc.allocs \ In(svc, {"lost"})) <= 1

\* From some point on the published routes no longer change: Converged compares versions of
\* the whole snapshot.
RoutesSettle == <>[][FALSE]_published

\* What the rollout waits for without a deadline: a replica of its own that it put into ingress
\* and that is unhealthy since, and, of a service with a volume, an unhealthy predecessor
\* (decideRolloutPlacement withdraws available - minimumAvailable, and counts the ready ones).
HeldUp ==
  /\ svc.rollout = "in_progress"
  /\ \E i \in In(svc, {"serving"}) :
       ~Ready(svc.allocs[i]) /\ (i \in Target(svc) \/ (Recreate /\ i \in Predecessors(svc)))

\* A rollout whose routes settle ends (it succeeds, fails or is superseded), and what it took
\* out of ingress drains, unless it is HeldUp.  The other exception is a deployment cancelled
\* with nothing to fall back on: confirmRolloutIngressConverged returns early for it, so what
\* cancelDeploymentTx withdrew stays withdrawn until the next operation of the user.
RolloutSettles ==
  Timed /\ RoutesSettle =>
    []<>(\/ HeldUp
         \/ svc.rollout # "in_progress" /\ (Cancelled(svc) \/ In(svc, {"withdrawing"}) = {}))

\* A removal the user asked for completes, or is overtaken by a new deployment, unless an
\* allocation of the service was lost with its node: nothing deletes a lost row and
\* decideRollout waits for the last one, although the row says "allocation will be removed".
RemovalEnds == Timed => (Removing(svc) ~> ~Removing(svc) \/ In(svc, {"lost"}) # {})
=============================================================================
