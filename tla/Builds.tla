------------------------------- MODULE Builds -------------------------------
(***************************************************************************)
(* The build queue of the control plane and the builders that empty it     *)
(* (internal/controlplane/delivery, internal/builder).                     *)
(*                                                                         *)
(* A request for a build retires the service's queued builds, inserts a    *)
(* new one and makes its deployment the service's current one.  Builders   *)
(* poll: a poll first repairs the queue (builds that waited, ran or were   *)
(* left too long), then hands the builder back the build it already runs,  *)
(* or leases it the oldest claimable one.  The lease is fenced by an epoch *)
(* that grows with every claim.  A builder heartbeats while it works,      *)
(* pushes its image and reports the outcome; the report may be lost, or    *)
(* arrive long after the builder gave up on it.                            *)
(*                                                                         *)
(* Builds are numbered in the order of their requests (queued_at).  Every  *)
(* handler is one transaction of the database and one action here.         *)
(***************************************************************************)
EXTENDS Naturals, Sequences, FiniteSets, FiniteSetsExt

CONSTANTS
  Services,       \* services that share the caps on running builds
  Builders,       \* the builders
  Intermittent,   \* those on intermittent hosts, which are preferred
  None,           \* no builder
  Scopes,         \* the instances to explore: their services and builders, the cap on running builds,
                  \* how many queued builds a poll looks at (20 in the code), the bounds
                  \* on requests and on lost jobs, answers and reports, and the other
                  \* events that may happen
  AttemptLimit,   \* how often a build may be claimed
  MaxBuilds       \* bound: requests in any instance

ASSUME BuildersAssumption == Intermittent \subseteq Builders /\ None \notin Builders
ASSUME AttemptAssumption == AttemptLimit \in Nat \ {0}
ASSUME ScopeAssumption == \A c \in Scopes : c.services \subseteq Services /\ c.builders \subseteq Builders

VARIABLES
  scope,    \* the instance, constant through a behaviour
  builds,   \* build_runs, each with the deployment it was requested for
  current,  \* the build of the current deployment, 0 if it has none to wait for
  live,     \* services without a tombstone
  rolled,   \* the last request whose image was rolled out
  rows,     \* builder_workers
  control,  \* build_scheduler_control, and the services kept from building by billing
  jobs,     \* what each builder process does
  reports,  \* CompleteBuild calls under way
  faults    \* how many jobs, answers and reports were lost

vars == <<scope, builds, current, live, rolled, rows, control, jobs, reports, faults>>

Pending   == {"queued_build", "building"}
Settled   == {"failed", "cancelled", "superseded", "removed"}
Ended     == {"succeeded", "failed", "cancelled", "superseded"}

\* owner_epoch and attempt_count grow together, in the claim only: one field.
Build(s, state, deployment) ==
  [service |-> s, state |-> state, owner |-> None, epoch |-> 0, cancel |-> FALSE,
   lapsed |-> FALSE, overran |-> FALSE, aged |-> FALSE,
   deployment |-> deployment, image |-> 0]

Idle == [doing |-> "polling", build |-> 0, epoch |-> 0]

BuildRow ==
  [service : Services, state : Ended \cup {"queued", "running"},
   owner : Builders \cup {None}, epoch : 0 .. AttemptLimit,
   cancel : BOOLEAN, lapsed : BOOLEAN, overran : BOOLEAN, aged : BOOLEAN,
   deployment : Pending \cup Settled \cup {"rolled", "none"}, image : 0 .. AttemptLimit]

Control == [paused : BOOLEAN, blocked : SUBSET Services]

\* Builder rows, jobs and reports, while there are n builds.
BuilderRow(n) == [fresh : BOOLEAN, fits : BOOLEAN, drained : BOOLEAN, holds : 0 .. n]
Job(n) == {j \in [doing : {"polling", "building", "reporting", "gone"}, build : 0 .. n, epoch : 0 .. AttemptLimit] :
             j.doing \in {"building", "reporting"} => j.build # 0}
Reported(n) == [by : Builders, build : 1 .. n, epoch : 0 .. AttemptLimit, ok : BOOLEAN]

\* Types, and every build that somebody holds, does or reports was requested.
TypeOK ==
  /\ scope \in Scopes
  /\ builds \in Seq(BuildRow)
  /\ current \in [Services -> 0 .. Len(builds)]
  /\ live \subseteq Services
  /\ rolled \in [Services -> 0 .. Len(builds)]
  /\ rows \in [Builders -> BuilderRow(Len(builds))]
  /\ control \in Control
  /\ jobs \in [Builders -> Job(Len(builds))]
  /\ reports \subseteq Reported(Len(builds))
  /\ faults \in Nat

Init ==
  /\ scope \in Scopes
  /\ builds = <<>>
  /\ current = [s \in Services |-> 0]
  /\ live = Services
  /\ rolled = [s \in Services |-> 0]
  /\ rows = [w \in Builders |-> [fresh |-> FALSE, fits |-> FALSE, drained |-> FALSE, holds |-> 0]]
  /\ control = [paused |-> FALSE, blocked |-> {}]
  /\ jobs = [w \in Builders |-> Idle]
  /\ reports = {}
  /\ faults = 0

Allowed(event) == event \in scope.events

Running(bs) == {i \in DOMAIN bs : bs[i].state = "running"}

-----------------------------------------------------------------------------
\* Deployments.

\* The moves a build makes; a settled deployment ignores them.
Moved(deployment, to) ==
  IF \/ deployment \in Settled \cup {"none"}
     \/ to = "building" /\ deployment # "queued_build"
     \/ to = "queued_build" /\ deployment # "building"
     \/ to = "rolled" /\ deployment # "building"
  THEN deployment ELSE to

With(b, state, to) == [b EXCEPT !.state = state, !.deployment = Moved(@, to)]

\* insertDeploymentTx: the current deployment is superseded, unless it has settled or serves.
Retired(bs, s) ==
  [i \in DOMAIN bs |->
     IF i = current[s] /\ bs[i].deployment \in Pending
     THEN [bs[i] EXCEPT !.deployment = "superseded"] ELSE bs[i]]

QueuedBecome(bs, s, state) ==
  [i \in DOMAIN bs |->
     IF bs[i].service = s /\ bs[i].state = "queued" THEN [bs[i] EXCEPT !.state = state] ELSE bs[i]]

\* Queued builds are superseded, the new build waits for a builder.
EnqueueSourceBuild(s) ==
  /\ s \in live
  /\ Len(builds) < scope.requests
  /\ builds' = Append(Retired(QueuedBecome(builds, s, "superseded"), s), Build(s, "queued", "queued_build"))
  /\ current' = [current EXCEPT ![s] = Len(builds')]
  /\ UNCHANGED <<scope, live, rolled, rows, control, jobs, reports, faults>>

\* The same source was built before: its image is rolled out, or already is.
Serves(s) == current[s] # 0 => builds[current[s]].deployment = "rolled"

\* The reuse is recorded as the revision's build.
ReuseRecorded(s) ==
  LET queue == QueuedBecome(builds, s, "superseded")
      next  == Len(builds) + 1
  IN /\ next <= scope.requests
     /\ \/ /\ Serves(s)
           /\ builds' = Append(queue, Build(s, "succeeded", "none"))
           /\ UNCHANGED <<current, rolled>>
        \/ /\ builds' = Append(Retired(queue, s), Build(s, "succeeded", "rolled"))
           /\ current' = [current EXCEPT ![s] = next]
           /\ rolled' = [rolled EXCEPT ![s] = next]

\* The revision has a build already, which ended: the deployment waits for none.
ReuseOfBuilt(s) ==
  LET queue == QueuedBecome(builds, s, "superseded")
  IN /\ \/ Serves(s) /\ builds' = queue /\ UNCHANGED current
        \/ builds' = Retired(queue, s) /\ current' = [current EXCEPT ![s] = 0]
     /\ UNCHANGED rolled

ReuseBuildArtifact(s) ==
  /\ Allowed("reuse")
  /\ s \in live
  /\ rolled[s] # 0
  /\ ReuseRecorded(s) \/ ReuseOfBuilt(s)
  /\ UNCHANGED <<scope, live, rows, control, jobs, reports, faults>>

\* A rollback or an exact redeploy: a deployment that waits for no build.
Redeploy(s) ==
  /\ Allowed("redeploy")
  /\ s \in live
  /\ rolled[s] # 0
  /\ current[s] # 0
  /\ builds' = Retired(builds, s)
  /\ current' = [current EXCEPT ![s] = 0]
  /\ UNCHANGED <<scope, live, rolled, rows, control, jobs, reports, faults>>

\* The user cancels the current deployment; the last successful one may take its place.
CancelDeployment(s) ==
  /\ Allowed("cancel")
  /\ s \in live
  /\ current[s] # 0
  /\ LET i == current[s]
         b == builds[i]
     IN /\ b.deployment \in Pending
        /\ builds' = [builds EXCEPT ![i] =
                        [b EXCEPT !.state = IF @ = "queued" THEN "cancelled" ELSE @,
                                  !.cancel = (b.state = "running"),
                                  !.deployment = "cancelled"]]
        /\ \/ UNCHANGED current
           \/ rolled[s] # 0 /\ current' = [current EXCEPT ![s] = 0]
  /\ UNCHANGED <<scope, live, rolled, rows, control, jobs, reports, faults>>

DeleteService(s) ==
  /\ Allowed("delete")
  /\ s \in live
  /\ live' = live \ {s}
  /\ builds' = [i \in DOMAIN builds |->
                  LET b == QueuedBecome(builds, s, "cancelled")[i]
                  IN IF i = current[s] THEN [b EXCEPT !.deployment = Moved(@, "removed")] ELSE b]
  /\ UNCHANGED <<scope, current, rolled, rows, control, jobs, reports, faults>>

RestoreService(s) ==
  /\ s \notin live
  /\ live' = live \cup {s}
  /\ UNCHANGED <<scope, builds, current, rolled, rows, control, jobs, reports, faults>>

SetBuilderDrain(w, drained) ==
  /\ Allowed(IF drained THEN "drain" ELSE "undrain")
  /\ w \in Intermittent
  /\ rows' = [rows EXCEPT ![w].drained = drained]
  /\ UNCHANGED <<scope, builds, current, live, rolled, control, jobs, reports, faults>>

SetBuildSchedulerPaused ==
  /\ Allowed("pause")
  /\ control' = [control EXCEPT !.paused = ~@]
  /\ UNCHANGED <<scope, builds, current, live, rolled, rows, jobs, reports, faults>>

\* A billing restriction or a plan's build cap comes, or goes.
SetBlocked(s) ==
  /\ Allowed("billing")
  /\ control' = [control EXCEPT !.blocked = IF s \in @ THEN @ \ {s} ELSE @ \cup {s}]
  /\ UNCHANGED <<scope, builds, current, live, rolled, rows, jobs, reports, faults>>

-----------------------------------------------------------------------------
\* Repair of the queue.

ExpireQueued(b) ==
  IF b.state = "queued" /\ b.aged THEN With(b, "failed", "failed") ELSE b

\* Defect: the deployment of a build that overran is forgotten.
TimeoutRunningAlone(b) ==
  IF b.state = "running" /\ b.overran
  THEN [b EXCEPT !.state = IF b.cancel THEN "cancelled" ELSE "failed", !.lapsed = FALSE] ELSE b

TimeoutRunning(b) ==
  IF ~(b.state = "running" /\ b.overran) THEN b
  ELSE LET end == IF b.cancel THEN "cancelled" ELSE "failed"
       IN [With(b, end, end) EXCEPT !.lapsed = FALSE]

Newer(bs, i) ==
  \E j \in DOMAIN bs :
    j > i /\ bs[j].service = bs[i].service /\ bs[j].state \in {"queued", "running", "succeeded"}

RequeueLeaseExpired(bs, i) ==
  LET b == [bs[i] EXCEPT !.owner = None, !.lapsed = FALSE]
  IN IF ~(bs[i].state = "running" /\ bs[i].lapsed) THEN bs[i]
     ELSE IF b.cancel THEN [b EXCEPT !.state = "cancelled"]
     ELSE IF Newer(bs, i) THEN With(b, "superseded", "superseded")
     ELSE IF b.epoch >= AttemptLimit THEN With(b, "failed", "failed")
     ELSE [With(b, "queued", "queued_build") EXCEPT !.overran = FALSE]

\* recoverExpiredBuildsTx: too long in the queue, then overrun, then left by the builder.
RecoveredBuilds(bs) ==
  LET kept == [i \in DOMAIN bs |-> TimeoutRunning(ExpireQueued(bs[i]))]
  IN [i \in DOMAIN bs |-> RequeueLeaseExpired(kept, i)]

ClearedRows(rs, bs) ==
  [w \in Builders |->
     IF rs[w].holds # 0 /\ ~(bs[rs[w].holds].state = "running" /\ bs[rs[w].holds].owner = w)
     THEN [rs[w] EXCEPT !.holds = 0] ELSE rs[w]]

RecoverExpiredBuilds ==
  /\ builds' = RecoveredBuilds(builds)
  /\ rows' = ClearedRows(rows, builds')
  /\ UNCHANGED <<scope, current, live, rolled, control, jobs, reports, faults>>

-----------------------------------------------------------------------------
\* Claims.

\* Defect: an intermittent host is waited for however long it has been silent.
PreferredBuilderKnown(rs, w) ==
  /\ w \notin Intermittent
  /\ \E v \in Intermittent : rs[v].fits /\ ~rs[v].drained /\ rs[v].holds = 0

\* An always-on host leaves the work to an idle intermittent one that was heard of lately.
PreferredBuilderAvailable(rs, w) ==
  /\ w \notin Intermittent
  /\ \E v \in Intermittent : rs[v].fresh /\ rs[v].fits /\ ~rs[v].drained /\ rs[v].holds = 0

\* Queued builds, oldest first; a poll looks at the first few.
Waiting(bs) == {i \in DOMAIN bs : bs[i].state = "queued" /\ bs[i].service \in live}
ClaimCandidates(bs) ==
  {i \in Waiting(bs) : Cardinality({j \in Waiting(bs) : j < i}) < scope.window}

\* tryClaimBuildTx passes over a build that billing blocks, or whose deployment is not
\* current any more; such a build stays queued.
PassedOver(bs, i) ==
  \/ bs[i].service \in control.blocked
  \/ bs[i].deployment \notin Pending
  \/ current[bs[i].service] # i

Claimable(bs) == {i \in ClaimCandidates(bs) : ~PassedOver(bs, i)}

MayClaim(bs, rs, w) ==
  /\ ~PreferredBuilderAvailable(rs, w)
  /\ ~rs[w].drained
  /\ ~control.paused
  /\ Cardinality(Running(bs)) < scope.cap

\* Defect: a builder that lost the answer is leased another build.
OfferedBuildAnew(bs, rs, w) ==
  IF rs[w].fits /\ MayClaim(bs, rs, w) /\ Claimable(bs) # {} THEN Min(Claimable(bs)) ELSE 0

\* The build a poll answers with, 0 for none: the builder's own, or the oldest it may claim.
OfferedBuild(bs, rs, w) ==
  LET own == {i \in Running(bs) : bs[i].owner = w}
  IN IF ~rs[w].fits THEN 0
     ELSE IF own # {} THEN Min(own)
     ELSE IF MayClaim(bs, rs, w) /\ Claimable(bs) # {} THEN Min(Claimable(bs))
     ELSE 0

Leased(b, w) ==
  [With(b, "running", "building") EXCEPT !.owner = w, !.epoch = @ + 1]

\* The whole poll; the answer may get lost.
ClaimBuild(w, fits, heard) ==
  /\ jobs[w].doing = "polling"
  /\ fits \/ Allowed("full")
  /\ LET bs  == RecoveredBuilds(builds)
         rs  == ClearedRows([rows EXCEPT ![w].fresh = TRUE, ![w].fits = fits], bs)
         i   == OfferedBuild(bs, rs, w)
         new == i # 0 /\ bs[i].state = "queued"
     IN /\ builds' = IF new THEN [bs EXCEPT ![i] = Leased(@, w)] ELSE bs
        /\ rows' = IF new THEN [rs EXCEPT ![w].holds = i] ELSE rs
        /\ jobs' = IF i # 0 /\ heard
                   THEN [jobs EXCEPT ![w] = [doing |-> "building", build |-> i, epoch |-> builds'[i].epoch]]
                   ELSE jobs
        /\ heard \/ (i # 0 /\ faults < scope.faults)
  /\ faults' = IF heard THEN faults ELSE faults + 1
  /\ UNCHANGED <<scope, current, live, rolled, control, reports>>

-----------------------------------------------------------------------------
\* A builder at work.

Owns(w, build, epoch) ==
  /\ builds[build].state = "running"
  /\ builds[build].owner = w
  /\ builds[build].epoch = epoch

\* A refused heartbeat aborts the job; the builder polls again.
HeartbeatBuild(w) ==
  LET j == jobs[w]
  IN /\ j.doing = "building"
     /\ IF ~builds[j.build].cancel /\ Owns(w, j.build, j.epoch)
        THEN /\ builds' = [builds EXCEPT ![j.build].lapsed = FALSE]
             /\ rows' = [rows EXCEPT ![w].fresh = TRUE, ![w].holds = j.build]
             /\ UNCHANGED jobs
        ELSE jobs' = [jobs EXCEPT ![w] = Idle] /\ UNCHANGED <<builds, rows>>
     /\ UNCHANGED <<scope, current, live, rolled, control, reports, faults>>

\* The image is pushed, or the build failed: heartbeats stop and the outcome is reported.
Report(w, ok) ==
  /\ jobs[w].doing = "building"
  /\ jobs' = [jobs EXCEPT ![w].doing = "reporting"]
  /\ reports' = reports \cup {[by |-> w, build |-> jobs[w].build, epoch |-> jobs[w].epoch, ok |-> ok]}
  /\ UNCHANGED <<scope, builds, current, live, rolled, rows, control, faults>>

\* The job is lost: the process restarted, its log could not be delivered, or the call
\* failed.  A report under way may still arrive.
Abandon(w) ==
  /\ Allowed("abandon")
  /\ faults < scope.faults
  /\ jobs[w].doing \in {"building", "reporting"}
  /\ jobs' = [jobs EXCEPT ![w] = Idle]
  /\ \/ UNCHANGED reports
     \/ reports' = {r \in reports : r.by # w}
  /\ faults' = faults + 1
  /\ UNCHANGED <<scope, builds, current, live, rolled, rows, control>>

\* An intermittent host is switched off for good.
Leave(w) ==
  /\ Allowed("leave")
  /\ w \in Intermittent
  /\ jobs[w].doing # "gone"
  /\ jobs' = [jobs EXCEPT ![w] = [Idle EXCEPT !.doing = "gone"]]
  /\ UNCHANGED <<scope, builds, current, live, rolled, rows, control, reports, faults>>

\* Defect: whatever is built is rolled out.
CompletedAlways(r) ==
  LET b == [builds[r.build] EXCEPT !.lapsed = FALSE]
  IN IF r.ok THEN [With(b, "succeeded", "rolled") EXCEPT !.image = r.epoch] ELSE With(b, "failed", "failed")

\* The outcome of an accepted report.  A build nobody waits for any more drops its image.
Completed(r) ==
  LET b == [builds[r.build] EXCEPT !.lapsed = FALSE]
  IN IF b.service \notin live \/ b.cancel THEN [b EXCEPT !.state = "cancelled"]
     ELSE IF current[b.service] # r.build THEN [b EXCEPT !.state = "superseded"]
     ELSE IF b.deployment \in Settled THEN [b EXCEPT !.state = "cancelled"]
     ELSE IF ~r.ok THEN With(b, "failed", "failed")
     ELSE IF Newer(builds, r.build) THEN With(b, "superseded", "superseded")
     ELSE [With(b, "succeeded", "rolled") EXCEPT !.image = r.epoch]

\* Defect: the builder is checked, not its claim.
AcceptsReportOfBuilder(r) == builds[r.build].state = "running" /\ builds[r.build].owner = r.by

\* A report of a build that has ended or that another claim took over changes nothing.
AcceptsReport(r) == Owns(r.by, r.build, r.epoch)

CompleteBuild(r) ==
  /\ r \in reports
  /\ reports' = reports \ {r}
  /\ jobs' = IF jobs[r.by] = [doing |-> "reporting", build |-> r.build, epoch |-> r.epoch]
             THEN [jobs EXCEPT ![r.by] = Idle] ELSE jobs
  /\ IF AcceptsReport(r)
     THEN /\ builds' = [builds EXCEPT ![r.build] = Completed(r)]
          /\ rows' = [rows EXCEPT ![r.by].fresh = TRUE, ![r.by].holds = 0]
          /\ rolled' = IF builds'[r.build].state = "succeeded"
                       THEN [rolled EXCEPT ![builds[r.build].service] = r.build] ELSE rolled
     ELSE UNCHANGED <<builds, rows, rolled>>
  /\ UNCHANGED <<scope, current, live, control, faults>>

-----------------------------------------------------------------------------
\* Time.

LeaseLapses(i) ==
  /\ Allowed("lapse")
  /\ i \in Running(builds)
  /\ builds' = [builds EXCEPT ![i].lapsed = TRUE]
  /\ UNCHANGED <<scope, current, live, rolled, rows, control, jobs, reports, faults>>

DeadlinePasses(i) ==
  /\ Allowed("overrun")
  /\ i \in Running(builds)
  /\ builds' = [builds EXCEPT ![i].overran = TRUE]
  /\ UNCHANGED <<scope, current, live, rolled, rows, control, jobs, reports, faults>>

\* MaxQueueAge: counted from the request, also across claims.
QueueAges(i) ==
  /\ Allowed("age")
  /\ i \in DOMAIN builds
  /\ builds[i].state \in {"queued", "running"}
  /\ builds' = [builds EXCEPT ![i].aged = TRUE]
  /\ UNCHANGED <<scope, current, live, rolled, rows, control, jobs, reports, faults>>

BuilderFallsSilent(w) ==
  /\ w \in Intermittent
  /\ rows' = [rows EXCEPT ![w].fresh = FALSE]
  /\ UNCHANGED <<scope, builds, current, live, rolled, control, jobs, reports, faults>>

Next ==
  \/ \E s \in scope.services :
       \/ EnqueueSourceBuild(s) \/ ReuseBuildArtifact(s) \/ Redeploy(s)
       \/ CancelDeployment(s) \/ DeleteService(s) \/ RestoreService(s) \/ SetBlocked(s)
  \/ SetBuildSchedulerPaused
  \/ RecoverExpiredBuilds
  \/ \E w \in scope.builders :
       \/ \E fits, heard \in BOOLEAN : ClaimBuild(w, fits, heard)
       \/ HeartbeatBuild(w) \/ Abandon(w) \/ Leave(w)
       \/ \E ok \in BOOLEAN : Report(w, ok)
       \/ \E drained \in BOOLEAN : SetBuilderDrain(w, drained)
       \/ BuilderFallsSilent(w)
  \/ \E r \in reports : CompleteBuild(r)
  \/ \E i \in 1 .. MaxBuilds : LeaseLapses(i) \/ DeadlinePasses(i) \/ QueueAges(i)

Spec == Init /\ [][Next]_vars

\* The repair loop runs on a ticker, builders poll on one and find room again, a build ends
\* or runs into its timeout, a call is answered, and time passes (in the instances with
\* deadlines; the others are explored for safety).
Timed == Allowed("overrun")
Fairness ==
  /\ WF_vars(Timed /\ RecoverExpiredBuilds)
  /\ \A w \in Builders :
       /\ WF_vars(Timed /\ w \in scope.builders /\ ClaimBuild(w, TRUE, TRUE))
       /\ WF_vars(Timed /\ w \in scope.builders /\ (Report(w, TRUE) \/ Report(w, FALSE)))
       /\ WF_vars(Timed /\ w \in scope.builders /\ BuilderFallsSilent(w))
  /\ WF_vars(Timed /\ \E r \in reports : CompleteBuild(r))
  /\ \A i \in 1 .. MaxBuilds : WF_vars(Timed /\ DeadlinePasses(i)) /\ WF_vars(Timed /\ QueueAges(i))

FairSpec == Spec /\ Fairness

-----------------------------------------------------------------------------
\* Properties.

\* The deployment that shows a build under way is the service's current one and shows the
\* build as it is: waiting while the build is queued, building while it runs, and never
\* pending once the build ended, whichever of the paths above ended it.
DeploymentShowsBuild ==
  \A i \in DOMAIN builds :
    LET b == builds[i]
    IN b.deployment \in Pending =>
         /\ current[b.service] = i
         /\ (b.deployment = "queued_build") <=> (b.state = "queued")
         /\ (b.deployment = "building") <=> (b.state = "running")

\* A builder holds at most one running build: an answer that got lost is repeated with the
\* same build, so no second one is leased to a builder that runs one job at a time.
OneBuildEach ==
  \A i, j \in Running(builds) : builds[i].owner = builds[j].owner => i = j

\* The image a build is rolled out with was pushed under its latest claim, however late the
\* reports of earlier claims arrive.
LatestClaimWins ==
  \A i \in DOMAIN builds : builds[i].image # 0 => builds[i].image = builds[i].epoch

\* A build that ends late never puts a service back to an older request.
RolloutsNeverBack == [][\A s \in Services : rolled'[s] >= rolled[s]]_vars

\* As many queued builds that are passed over stand before this one as a poll looks at.
Crowded(i) == Cardinality({j \in Waiting(builds) : j < i /\ PassedOver(builds, j)}) >= scope.window

\* No deployment waits for its build for ever: a builder on an always-on host takes the build
\* when the preferred ones are gone, drained or full, and a build ends or times out.  There
\* are two exceptions: billing keeps the service from building; or the builds that a poll
\* looks at (LIMIT 20) are all older ones that it passes over, such as those of deployments
\* that a redeploy retired.  Where MaxQueueAge bounds the time in the queue (by default it
\* does not) every build ends, these too.
NothingWaitsForever ==
  Timed =>
    []<>(\A i \in DOMAIN builds :
           IF Allowed("age") THEN builds[i].state \in Ended
           ELSE \/ builds[i].deployment \notin Pending
                \/ builds[i].service \in control.blocked
                \/ Crowded(i))

=============================================================================
