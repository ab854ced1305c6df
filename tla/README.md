# A TLA+ model of ebpf-wg-mesh

This directory models the parts of the platform in which several processes,
transactions or nodes have to agree: the control plane's queues, leases, journal
and sessions, the rollouts and builds it drives, the following of a Git branch,
the restarts on a node, and the metering of usage. Every definition is translated
from the Go sources under `src/internal`; `PROJECT.json` names, for each of them,
the file, the function and the lines.

TLC checks the modules on small instances (`MC*.tla`, `*.cfg`). TLAPS proves
safety properties of eight of them for every value of their constants
(`*Proofs.tla`).

    tlc -workers 2 -config Journal.cfg MCJournal     # one run
    tlapm JournalProofs.tla                          # its proofs

## The system and its modules

The control plane is a set of replicas over one PostgreSQL database. One replica
at a time holds the *singleton lease* and with it the live role: it serves the
agents, reconciles rollouts and publishes routes to the Envoys. All writes of
product state go through the *product journal*, from which every replica derives
the same projection. An *agent* on each node keeps a session with the live
replica, receives what it has to run as checkpoints and diffs, runs it, restarts
what fails, reports what it sees and meters what is used. Webhooks from GitHub
become *durable work*, which moves the head of a service's branch and requests
builds; *builders* poll for them; a finished build becomes a *rollout*, which
replaces the allocations of the service without taking capacity or routes away.

| module | models | sources (under `src/internal`) |
| --- | --- | --- |
| `DurableWork` | the work queue: enqueue, claim, heartbeat, complete, fail, prune | `controlplane/durablework`, `source/reconciler.go`, `billing/maintain.go` |
| `ControlPlaneLease` | the singleton lease, guarded publications, lease-checked writes | `controlplane/lease.go`, `database.go`, `server.go`, `delivery/live.go` |
| `Journal` | commands with receipts, replay, projection, live view, compaction | `controlplane/journal`, `sqlretry`, `delivery/live_view.go` |
| `AgentSync`, `DesiredFollow` | what an agent is sent, and the promise it implements | `delivery/allocation_sync.go`, `agent_sync.go`, `agent/local_state.go` |
| `AgentSession` | presence: registration, sessions, expiry, and the failover of an agent's work | `delivery/live_sessions.go`, `agent_sessions.go`, `agent/app.go` |
| `Rollouts` | replacement of a service's allocations, routes and drains | `delivery/rollout_plan.go`, `rollouts.go`, `deployment_actions.go`, `fleet_reconciliation.go`, `xds/publisher.go` |
| `Restarts` | restart policy, the observation file and its copies | `restartpolicy`, `agent/runtime_containerd.go`, `restart_store.go` |
| `SourceHead` | webhooks, syncs, the proven head, build requests | `controlplane/source`, `delivery/build_requests.go` |
| `Builds` | the build queue, builders, late and lost reports | `delivery/build_*.go`, `builder/app.go` |
| `Metering` | the meter, its journal, delivery, ingestion | `metering`, `controlplane/usage` |

### How state and actions correspond to the code

A transaction of the database is one action: PostgreSQL runs them serializably
and the code retries those that fail. Where the code reads, unlocks or awaits and
goes on later, the model has one action for each part, so that others come in
between. Calls over the network are actions of both ends with a message between
them, and the answer may be lost where the code has a path for that. Clocks are
abstracted to what is compared: "the lease has lapsed", "the deadline passed";
`Restarts` and `Metering` count ticks because they add and subtract times. Every
module says in its head comment what its variables stand for.

*DurableWork.* `work` is the table, keyed by the deduplication key; `claims` are
the claims in workers' hands, including the ones whose owner gave up on a
statement that is still on its way. `accepted` and `settled` are history: how
many enqueues were taken and how many were ended.

*ControlPlaneLease.* `row` is the row of `control_plane_leases`, `local` each
replica's `Run` loop with its context, job and publishing flag; `pubs` are guarded
publications: they want the row's shared lock, hold it, or run on without it
because the guard's transaction was rolled back. `txs` are product transactions
that have checked the lease and not committed, `late` releases whose caller has
timed out.

*Journal.* `hist[i]` is the content of the product tables after entry `i`;
`journal` and the receipts are the tables, `call` the calls under way with what
they have read, `store` the projections, `live` the live view with what it told
its listener.

*AgentSync.* `desired` are the contents published so far; `history` is the
baseline, the dirty set and the retained diffs; each session has a send loop
(`loop`) that looks, plans and sends in separate steps; `stream` is what is on
its way. `DesiredFollow` is the promise: the agent runs nothing, or a published
content, and moves forward only.

*AgentSession.* One agent with several connections. A handler registers its
incarnation, begins the session and receives; callbacks of timers that were
stopped too late run against the session they find. `work` is what the control
plane knows of the agent's allocation and `answers` whether the allocation would
answer a probe; `failover` probes it, looks again in a transaction, and commits the
replacement. A scope says whether the work is routed, can be probed (`mesh`) and has
somewhere to go (`spare`).

*Rollouts.* `svc` is the service with its allocations, deployments and current
rollout. `decideRollout` and `decideRolloutPlacement` are operators on it; the
reconciler's advance, publication, look at the Envoys and confirmation are four
actions, and everything else may happen in between.

*Restarts.* One allocation: the container, the observation file, the copies at
the control plane and in the desired state, and a reconcile in three steps (look
at the container, evaluate and save, start).

*SourceHead.* The branch is a sequence of pushes. Webhooks arrive in any order;
workers claim durable work, read the head, fetch the branch, observe and queue in
separate steps. `grant` is whether the installation's grants are fresh; a sync over
old ones is put off. `lost` are pushes whose webhook never comes or failed.

*Builds.* `builds` are the rows with their deployments; `jobs` what each builder
process does; `reports` the completions on their way; `rows` are the builders'
rows; `control` is whether claims are paused and which services billing blocks.
A claim looks at the oldest queued builds up to `scope.window` (20 in the code).

*Metering.* One allocation with tasks that come and go. A running task uses one
unit of CPU per sample period. `Fold` is one transaction of the meter on its
journal, `Ingested` one of the control plane. A hook reads the counter before it has
the meter's lock, and the delivery loop reads the batch (`DeliverReads`) before the
sequence and the time it claims (`DeliverSends`); `slips` is history and records what
these readings have done when they were stale.

## What the runs check

Each passing run explores its instances completely. A run whose module has a
constant `Scopes` starts in every one of several instances, each of which allows
some of the events; this keeps an instance small while the events that interact
are together in one.

| run | properties | what it shows |
| --- | --- | --- |
| `durable` | `OneCommitter`, `SettledOnce`, `Converges` | Of all claims still in somebody's hands at most one can commit, also across takeover, resurrection, pruning and re-insertion; every accepted enqueue is settled exactly once, and is settled in the end although workers die. |
| `lease` | `PublicationFenced`, `WritesFenced`, `VacancyFilled` | While its lease context lives, a guarded publication is of the claim the row names, although the lease may have lapsed; a former holder never commits a write behind its successor's; a vacant lease is filled. |
| `journal` | `AtMostOnce`, `Projected`, `NoGap`, `LiveCurrent`, `ReadYourWrites` | Retries and lost commits append one entry; projection and live view are a prefix of the log, whatever compaction cuts; a returned command is visible. |
| `agentsync` | `NeverRefused`, `Follows`, `Reached` | The agent adopts whole published contents in order (a refinement of `DesiredFollow`), never refuses its own stream, and catches up. |
| `agentsession` | `AdmittedUsable`, `LostOnlySilent`, `ServedOrReplaced` | Admission agrees with the session; failover takes work only from a silent agent; a running agent is served again and again, and the work of a dead one is replaced unless the code means it to stay (`MayStay`). |
| `rollouts` | `DrainsUnrouted`, `SurgeBounded`, `SuccessIsWhole`, `VolumeHasOneUser`, `NeverBelowCapacity`, `RolloutSettles`, `RemovalEnds` | No Envoy routes to what drains, capacity and surge keep their limits, a volume has one user, success is complete; rollouts end unless they are `HeldUp`, and removals unless a row of theirs is lost. |
| `restarts` | `CountedOnce`, `StartsAllowed`, `Recovers` | An end is counted once although its count is saved, copied and read back; a crash loop or backoff holds; what is to run is started again, unless a forced restart was lost. |
| `source` | `HeadGetsBuilt`, `HeadNeverBack`, `Follows` | The proven head and the builds never go back on a branch without repetitions; the head gets its build although attempts fail; one reconciler catches up unless the last push's own delivery is lost or fails. |
| `source_race` | `NeverLeftBehind` (violated) | Two reconcilers can leave the service on an older commit: see Findings. |
| `builds` | `DeploymentShowsBuild`, `OneBuildEach`, `LatestClaimWins`, `RolloutsNeverBack`, `NothingWaitsForever` | Deployments and builds agree, a builder has one build, late reports neither win nor roll back, and every deployment's wait ends, unless billing blocks its service or builds that are passed over fill the claim window. |
| `metering` | `BilledAtMostUsed`, `IntervalsDisjoint`, `Accounted`, `SealedHonest`, `Delivered` | Nothing is billed that was not used but for what a late start hook counts twice; no sealed record disappears; the sealed time is honest but for claims over records sealed while the report was put together; delivery gets through. |
| `metering_ack_race` | `RecordsKept` (violated) | An acknowledgement that overlaps a Tick makes the journal reuse a sequence: see Findings. |

Every property of a passing run has a mutant in `PROJECT.json`: a plausible slip
in a definition (kept beside it and marked `Defect` or `Slip`) under which TLC
finds that property violated.

### Bounds, and why they are enough

* `DurableWork.cfg`: one key, three enqueues, two attempts, two workers of which
  one serves only some kinds. Three enqueues are an insertion, a resurrection and
  a re-insertion after pruning; two attempts make one retry and one exhaustion.
  Keys do not interact except in the order of the sweep, which the proofs cover.
* `ControlPlaneLease.cfg`: two replicas, two tokens, two entries: a hold, a
  takeover, and a write and publications of each.
* `Journal.cfg`: one store with two calls of one command id, two entries, one lost
  answer, nothing retained by compaction, so that replay always meets a cut log.
  The calls are symmetric.
* `AgentSync.cfg`: one allocation, three revisions, two sessions, at most two diffs
  retained and one allocation in a patch: an agent that is two revisions behind gets a
  chain of two diffs, sessions supersede each other, an allocation comes, changes its
  overlay and goes. Three revisions do not overflow this history; the proofs hold for
  every bound.
* `AgentSession` scopes: three connections without and two with a loss of the live
  role; one or two connections of an agent that has work and may die, whose work is
  routed or not, can be probed or not, and can move or not. One callback is under way
  at a time, and the queue of one evaluation overflows.
* `Rollouts` scopes: up to four allocations and three generations; two replicas
  behind two Envoys for the races of publication, one replica for long sequences
  of operations, one with a volume, one whose replica count changes. Liveness is
  checked in the three with deadlines (`timed`).
* `Restarts.cfg`: five ticks, three ends, two generations, one fault; a budget of
  one or two restarts and delays of at most two ticks; the forced restart together
  with a liveness check.
* `SourceHead` scopes: two or three pushes, one or two reconcilers, one fault, grants
  that age.
* `Builds` scopes: two builds, two builders, two attempts, one fault; three builds, one
  builder and a window of one for the claims that find nothing.
* `Metering` scopes: up to four sample periods (two minutes), two tasks, a journal
  of one to three records and batches of one to three, one of each fault. Late start
  hooks (`late`) and reports that are put together while a Tick runs (`lag`) are
  allowed in scopes of their own; in the others nothing comes between the two halves.

A bound appears in guards only (`MaxHead`, `MaxToken`, `scope.time`, ...); where
the system may stop at it the configuration turns the deadlock check off. `Builds`
keeps it on.

### Fairness

Liveness is checked under weak fairness of what the code repeats by itself: timers
and periodic loops (`BecomeDue`, `Lapse`, `Acquire`, `Age`, `Fire`, the reconcile
passes, `Tick`, polls of builders, the delivery loop), handlers that have begun and
statements that have been issued. Nothing is assumed of users, of failures, or of
the arrival of messages that may be lost. Particular choices:

* `DurableWork`: a claim is finished by some statement of its worker or lapses; each
  worker goes on polling.
* `ControlPlaneLease`: a job whose context is cancelled ends, and a release lands
  or times out after its deadline.
* `AgentSession`: a connection that is open carries heartbeats; an age passes only
  for a session that is not the agent's current connection; `ReconcileFailover` is
  periodic and finishes what it began.
* `Builds`: only builders of the scope poll, and only in scopes with deadlines.
* `Rollouts`: the steps after an advance (sync, check, confirm) are strongly fair:
  a pass may fail at any of them but does not fail at the same one for ever. The
  weak fairness of the advance is written out with the predicate that enables it.
  `RolloutSettles` also assumes that the health of what serves settles, because
  `Converged` compares versions of a whole snapshot.
* `Metering`: `Followed` names the instances in which delivery is followed to its
  end; in the others fairness is not needed.

## What is proved

The theorems hold for every value of the constants that meets the module's named
assumptions: any number of keys, replicas, calls, sessions, builders and pushes, and
any bounds of the model. Each safety theorem goes through an inductive invariant, because the
property alone says too little about the steps under way. The lemmas show `Init =>
Inv`, that every action keeps it, and the theorem follows by temporal logic.

**`DurableWorkProofs`** (assumes `LimitAssumption`, `SweepAssumption`,
`KindAssumption`, `NullAssumption`: positive limits, every key has a kind, the null
values are no owner and no row). `IInv` is `TypeOK` with `Tickets`: ids are never
reused, the epochs of an id only grow, and a claim is determined by id and epoch.
`OneCommitter` alone is not inductive: a takeover must be known to give a *new*
epoch, and a re-insertion a new id. Proved: `Fencing` (`OneCommitter`), `Accounting`
(`SettledOnce`), and, beyond what the run checks, `Budget` (the attempt budget),
`LeaseBacked` (a leased row names a claim somebody was given) and `LiveLeaseKept`
(only its owner ends a lease that has not lapsed).

**`ControlPlaneLeaseProofs`** (`HolderAssumption`, `BoundAssumption`). Beside
`TypeOK`: `Newest` (the row has the newest token and only the holder it names has
that token), `Ordered` (what a product transaction read stays a bound on what was
committed before it), `Current` (a holder that is not acquiring has the row's
token) and `Guarded` (a publication under the lock is of the claim the row names, and
one that runs on without the lock has lost its lease context). Proved: `PublicationIsFenced`, `WritesAreFenced`, `TokensAreUnique`,
`OwnersAreCurrent`.

**`JournalProofs`** (`ValueAssumption`, `IdAssumption`, `CountAssumption`). `Traced`
says that the log accounts for every difference between two contents of the tables;
`Contiguous` that every position up to the head has its entry; calls and stores are tied to
prefixes of the log. Proved: `ProjectionCorrect` (`Projected`), `ReplayFindsNoGap`
(`NoGap`), `CommandsRunOnce` (`AtMostOnce`) and `BatchesAreComplete` (a listener that
follows the batches has the projection's content). Two further invariants are about
the order in which a replica's store and live view move: `InStep` (the view is never
ahead of its store, and behind only while a hook is on its way or until the call that
makes it serve applies its snapshot), which gives `ServedViewIsCurrent`
(`LiveCurrent`), and `Answered` (what a call waits to read is committed, and in its
snapshot once it has one), which gives `WritesAreReadBack` (`ReadYourWrites`).

**`AgentSyncProofs`** (`NoneAssumption`, `BoundAssumption`). Every piece of state that
stands for a content is tied to the one it stands for: a checkpoint is the content
of its cursor, a diff leads from its base to its target, a history with its dirty
set leads to the product (`MessageOK`, `HistoryOK`, `LoopOK`, `AgentOK`). Proved:
`SyncFollows`, the refinement of `DesiredFollow`: initial states map to initial
states, every step to a step of the promise or a stutter. `InOrder` adds that the
stream is a chain of messages from the agent's cursor to what the loop of its session
has sent, however sessions supersede each other; it gives `StreamNeverRefused`
(`NeverRefused`).

**`AgentSessionProofs`** (`SessionAssumption`). `IInv` adds to the types which
incarnations handlers have (`Streams`), that there is no session without the role
(`Absent`), that a reachable session has a timer or a callback on its way
(`ExpiryPending`) and that a failover which probes undisturbed faces silence
(`ProbeSilent`). Proved: `AdmittedIsUsable`, `SessionsExpire`, `FailoverSpares`
(`LostOnlySilent`, an action property).

**`SourceHeadProofs`** (`SourceBounds`). Commits are tied to places on the branch: a
push names its predecessor (`Branch`), pushes in the inbox, the queue and the workers
have happened, a fetch is at least as new as the head it started from (`Knows`), the
head is a commit of the branch (`Proven`), and no build is ahead of it
(`BuildsBehind`). Proved: `HeadsNeverBack` (`HeadNeverBack`, an action property): a
fetch recorded under the fence `basis = head`, or a push whose predecessor is the
head, is never older than the head.

**`BuildsProofs`** (`BuildersAssumption`, `AttemptAssumption`, `ScopeAssumption`). `Sound`
is about one row: a queued build has an attempt left, an image belongs to the last
claim and ends the build, and a cancelled build keeps no deployment waiting. `Shown`
ties a waiting deployment to its build, to `current` and to `live`; `RolledOK` says
that what is rolled out succeeded, so no later pass touches it. Every pass over the
table (supersede, cancel, time out, requeue) is `Onward` row by row, and passes
compose; only a claim makes a build run, and the builder that gets a new one has
none. Proved: `DeploymentsShowBuilds`, `BuildersHaveOneBuild`, `LatestClaimsWin`,
`RolloutsAreNeverBack` (an action property), and with `TypeCorrect` that attempts are
bounded.

**`RestartsProofs`** (`RestartBounds`). `Good` is said of a history wherever it is kept:
in the file, in the three copies and in the reconcile under way. It counts no more
than has ended in its generation; and while the container lies ended, a history that
does not wait for its restart is at least one short. `Found` carries this through a
reconcile: what it saw running and is gone has ended since, and what it found down
and may restart has an end that no history of this generation has counted. Because it
holds of every copy, it does not matter which one `MergeObservations` takes. Proved:
`EndsAreCountedOnce` (`CountedOnce`). What may be started is a matter of age: `Aged`
says that two copies with one stamp agree, that without torn files none is newer than
the file, and that a reconcile works on nothing older than it. Proved:
`OnlyAllowedStarts` (`StartsAllowed`).

### Only model-checked

Liveness (`Converges`, `VacancyFilled`, `Reached`, `ServedOrReplaced`,
`RolloutSettles`, `RemovalEnds`, `Recovers`, `Follows` of `SourceHead`,
`NothingWaitsForever`, `Delivered`) is beyond the prover. `HeadGetsBuilt` and
everything about `Rollouts` and `Metering` is checked on the instances above. The plans
of `Rollouts` choose among sets of any size and the folds of `Metering` compute over
sequences of any length; what such a fold returns would need induction over data.

## Findings

* **A fetch that would have caught up is dropped** (`source_race`,
  `delivery/build_requests.go:87`). A sync whose basis no longer holds is refused
  as superseded and its work completes, even when what moved the head meanwhile
  was an *older* commit than the fetched one. `source/coordinator.go:383` relies on
  that fetch "instead of leaving the service on an older image".
* **An acknowledgement can undo a Tick's metadata** (`metering_ack_race`,
  `metering/journal.go:166`). `journal.update` copies the metadata before bbolt's
  write lock, and `Meter.Acknowledge` does not hold the meter's lock: the copy of an
  acknowledgement may be older than a record that was just sealed, and the next
  record then takes its sequence. `agent.proto:481` promises to keep every record
  until its acknowledgement. The passing run takes the accesses to the metadata as
  serialized. The opposite order (a Tick writes back a copy that does not know of
  an acknowledgement, so `LowestRetained` goes back after a prune) is not modelled.

## Observations

Behaviours met while modelling that no run is devoted to. Properties exclude them
explicitly where they would break them.

*Lease*
* When a replica loses a renewal or releases the lease, it cancels its own lease
  context, and the rollback of the guard's transaction frees the row's lock before the
  publication has returned (`lease.go:374`, `237`, `252`): the publication may finish
  beside the successor's. `PublicationFenced` is about publications whose context lives.

*Rollouts*
* `confirmRolloutIngressConverged` drains every allocation that is withdrawing when
  it runs, not those whose withdrawal the Envoys have applied. A node of the
  withdrawn predecessor lost between publication and confirmation lets a report
  promote the next replacement and withdraw the next predecessor, which then drains
  while an Envoy still routes to it; `xds/publisher.go:186` says "every active Envoy
  must fully apply first". `DrainsUnrouted` therefore leaves out the instances with
  node loss, cancellation and capacity passes (`Undisturbed`).
* A cancellation without fallback leaves what it withdrew undrained
  (`rollouts.go:382`); `RolloutSettles` excepts it.
* A rollout waits without a deadline for a replica of its own that it has put into
  ingress and that is unhealthy since, and, of a service with a volume, for an unhealthy
  predecessor, because the ready ones alone are counted (`HeldUp`).
* An allocation lost with its node keeps a removal open, although its row says
  "allocation will be removed" (`rollout_plan.go:60` against
  `fleet_reconciliation.go:307`): nothing deletes the row. `RemovalEnds` excepts it.
* A release that asks for fewer replicas than the service occupies withdraws the oldest
  predecessors over the limit, ready or not (`rollout_plan.go:202`): the ready one may
  go while one that fails stays. `NeverBelowCapacity` excepts such a rollout.
* A maintenance drain supersedes a rollout
  under way (`fleet_reconciliation.go:91`); a capacity pass may delete a row that
  serves (`placement.go:80`).

*Sessions and sync*
* The handler of an older connection may begin its session last
  (`live_sessions.go:37`); the agent is then served only after the next expiry.
* After a change of the live role the work of a dead agent is kept while it is routed
  and this owner has no observation of it; so is work that still answers, that cannot
  be probed, that is pinned, or that has nowhere to go (`MayStay`).
* A stored diff is reused although the observation overlay has changed
  (`agent_sync.go:153`); the overlay follows with a later message.

*Restarts*
* A restarted container is reported as created, so `AwaitingRestart` stays set
  until a later reconcile sees it running (`runtime_containerd.go:531`). A process
  that ends before that is restarted without being counted (`policy.go:280`,
  `320-331`): the retry budget does not bound it, unlike what
  `TestReconcileStopsAfterRetryBudgetAndDoesNotSpin` shows with an engine that
  answers differently from containerd's.
* A torn observation file together with a stale copy at the control plane can undo
  a crash loop. A forced restart of the dashboard is consumed before the container
  is started: where the policy is not `always`, a container that is lost in between
  stays down (`Recovers` excepts it), and a container that was down already is not
  started by it. A stale copy with the same `LastRestartAt` and a larger count brings
  back a history that stability had reset. After a reboot the container's exit code
  is zero, so an `on-failure` service stays down. A process stopped for sleep and
  found by a wake before its cleanup counts as a crash.

*Source*
* On a branch that is forced back to an earlier commit a reordered push can prove
  itself current again (`build_requests.go:41`); `HeadNeverBack` is about branches
  without repetitions. A change of the tracked ref keeps `head_commit_sha`. A
  refresh may be absorbed by a resync that has already fetched.
* A delivery whose processing failed is marked failed (`store_github.go:266`) and not
  taken up again: `RecoverGitHubWebhookDeliveries` finds those of a dead leader only.
  A sync that is put off because the grants are old counts as a failed attempt.
* A head without a build has nobody to build it in three cases, each with a failed
  attempt, which `Undisturbed` excepts: a worker whose lease lapsed moves the head and
  then fails, and its row is another's; on a branch that is forced back the row that
  would build the commit was absorbed; a newer spec superseded the work while the
  webhook of the last push was on its way, or a change of the leader dropped its
  delivery. The next push, spec write or sync repairs it.

*Builds*
* `MaxQueueAge` is zero by default (`defaults.go:239`): a queued build whose
  deployment was retired waits for good, and twenty such builds at the head of the
  queue fill the claim window (`LIMIT 20`), so that younger ones are not looked at. A
  build of a service that billing blocks waits as long. `NothingWaitsForever` excepts
  both where the queue's age is not bounded.
* A completion that arrives after recovery ended the build leaves its image in the
  registry. A requeued build keeps `queued_at` and may fail for its age at once.

*Metering*
* A start hook reads the counter before it takes the meter's lock. When two Ticks fold
  between the start of the task and the hook's fold, the hook resets the baseline to a
  reading from before the first and the CPU between is counted twice; `slips.twice`
  measures it and `BilledAtMostUsed` allows it.
* The final hook runs before the process is killed. A Tick that still sees the
  cgroup reopens an epoch from the last Tick, whose first record is rejected as an
  overlap: the CPU of the shutdown is not billed.
* `inFlight` is cleared by the timeout only, although the comment at `delivery.go:80`
  says that an acknowledgement does; a report is sent at most every 30 seconds.
* A report is put together from the batch, the next sequence and `SealedThrough`, read
  one after the other without a lock across them. A Tick in between makes the report
  claim a time that covers records it does not carry; `SealedHonest` excepts these
  claims (`slips.early`), and those after the restore of a database, when a report
  claims what is still to be resent.
* After a forward step of the wall clock the rounded coverages of a record can
  exceed its duration by a millisecond, for which it is rejected. The first record
  of a replaced journal starts at the boot and may be rejected as an overlap.

## Not modelled

* Other parts of the system, listed with the reason in `PROJECT.json`: billing and
  rating, deletion of trees, certificates and keys, identity, the registry, logs,
  volumes, the node's network, the execution of builds, recovery and installation
  procedures, the public API, the console, telemetry, test support, generated code.
* `AgentSync`: node configuration, pull credentials and replica addresses, which
  have versions of their own. `AgentSession`: offered and accepted versions.
* `Rollouts`: waiting for builds (see `Builds`), serverless sleep, billing
  restrictions, managed services, the choice of an agent, and a live view that lags
  behind the database.
* `Restarts`: several allocations of one agent, volumes, probes and image pulls.
* `SourceHead`: a change of the tracked branch, revoked access, archives.
* `Builds`: billing and plan limits other than that they block a claim, the limit of
  running builds per project, logs, the executor, retention of images.
* `Metering`: memory, egress and volumes (folded like CPU), steps of the wall clock,
  the checks of a single record, attributions, hourly retention, the interval of
  empty reports (one may be sent whenever nothing is in flight).
* Panics, out-of-memory, disk corruption other than the torn or unusable files named
  above, and errors of PostgreSQL's isolation.
