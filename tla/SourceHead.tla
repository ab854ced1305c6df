----------------------------- MODULE SourceHead -----------------------------
(***************************************************************************)
(* How one service follows the tracked branch of its GitHub repository     *)
(* (internal/controlplane/source): pushes arrive as webhooks in any order, *)
(* become durable work, and are handled by the reconciler of any replica.  *)
(* A build is requested only for a commit that proves itself current       *)
(* against the binding's proven head.                                      *)
(*                                                                         *)
(* A push is known by its place in the history of the branch.  Terminal    *)
(* work rows are dropped: enqueueing their key again makes a fresh row.    *)
(***************************************************************************)
EXTENDS Naturals, Sequences, FiniteSets, SequencesExt

CONSTANTS Commits, Replicas,
          None,       \* no commit: an absent head, or the all-zero "before"
          Scopes,     \* the history of the branch, the replicas at work,
                      \* auto-deploy, and the events of an instance
          MaxSpec, MaxFaults

ASSUME SourceBounds ==
  /\ {MaxSpec, MaxFaults} \subseteq Nat
  /\ None \notin Commits \cup Replicas
  /\ \A s \in Scopes : /\ s.history \in Seq(Commits) /\ s.history # <<>>
                       /\ s.replicas \subseteq Replicas /\ s.auto \in BOOLEAN

VARIABLES scope,
          remote,     \* the pushes of the branch: commit and "before"
          inflight,   \* pushes whose webhook has not arrived
          lost,       \* pushes whose webhook never will, or was marked failed
          inbox,      \* github_webhook_deliveries that are pending
          work,       \* active durable work, oldest first
          worker,     \* what each reconciler is doing
          binding,    \* source_bindings: none, fresh, or past fresh_until
          grant,      \* the installation's grants: fresh, or in need of a refresh
          head,       \* head_commit_sha
          spec,       \* the service's spec revision
          built,      \* place of the commit whose build was requested last
          faults

vars == <<scope, remote, inflight, lost, inbox, work, worker, binding, grant, head, spec, built, faults>>
github == <<remote, inflight, lost>>

Idle == [pc |-> "idle", kind |-> "none", at |-> 0, rev |-> 0, basis |-> None, got |-> 0, proof |-> "none", fresh |-> FALSE]

Item(kind, at, rev) == [kind |-> kind, at |-> at, rev |-> rev, owner |-> None]

\* The first commit is there, and the new service waits for its first sync.
Init == /\ scope \in Scopes
        /\ remote = <<[commit |-> scope.history[1], before |-> None]>>
        /\ inflight = {1} /\ lost = {} /\ inbox = <<>>
        /\ work = <<Item("spec", 0, 1)>>
        /\ worker = [w \in Replicas |-> Idle]
        /\ binding = "none" /\ grant = "fresh" /\ head = None /\ spec = 1 /\ built = 0 /\ faults = 0

-----------------------------------------------------------------------------
(* Durable work: enqueue with a dedup key, claim, complete *)

SameKey(a, b) == /\ a.kind = b.kind /\ a.rev = b.rev /\ a.kind # "sync"
                 /\ a.kind = "push" => remote[a.at] = remote[b.at]

\* A key that is active already absorbs the new row; a forced sync has a key of its own.
Enqueued(queue, it) == IF \E j \in DOMAIN queue : SameKey(queue[j], it) THEN queue ELSE Append(queue, it)

Claim(w) ==
  /\ worker[w].pc = "idle" /\ w \in scope.replicas
  /\ \E j \in DOMAIN work :
       /\ work[j].owner = None /\ \A i \in 1..(j - 1) : work[i].owner # None
       /\ work' = [work EXCEPT ![j].owner = w]
       /\ worker' = [worker EXCEPT ![w] = [Idle EXCEPT !.pc = "start", !.kind = work[j].kind, !.at = work[j].at, !.rev = work[j].rev]]
  /\ UNCHANGED <<scope, github, inbox, binding, grant, head, spec, built, faults>>

Mine(w) == {j \in DOMAIN work : work[j].owner = w}

\* The completion of a worker whose lease was taken over changes nothing.
Complete(w) ==
  /\ worker[w].pc = "done"
  /\ IF Mine(w) = {} THEN UNCHANGED work ELSE \E j \in Mine(w) : work' = RemoveAt(work, j)
  /\ worker' = [worker EXCEPT ![w] = Idle]
  /\ UNCHANGED <<scope, github, inbox, binding, grant, head, spec, built, faults>>

\* The row of a failed attempt waits, and is tried again.
Retry(w) ==
  /\ IF Mine(w) = {}
     THEN UNCHANGED work
     ELSE \E j \in Mine(w) : work' = Append(RemoveAt(work, j), [work[j] EXCEPT !.owner = None])
  /\ worker' = [worker EXCEPT ![w] = Idle]
  /\ UNCHANGED <<scope, github, inbox, binding, grant, head, spec, built>>

\* A failed attempt, or a dead worker.
Abandon(w) ==
  /\ worker[w].pc # "idle" /\ faults < MaxFaults /\ "fault" \in scope.events
  /\ Retry(w) /\ faults' = faults + 1

\* errGitHubWorkDeferred fails the attempt like any error.
Defer(w) == worker[w].pc = "deferred" /\ Retry(w) /\ UNCHANGED faults

\* The lease lapses while the worker is still at it.
Expire(w) ==
  /\ worker[w].pc # "idle" /\ faults < MaxFaults /\ "expire" \in scope.events
  /\ \E j \in Mine(w) : work' = [work EXCEPT ![j].owner = None]
  /\ faults' = faults + 1
  /\ UNCHANGED <<scope, github, inbox, worker, binding, grant, head, spec, built>>

-----------------------------------------------------------------------------
(* GitHub, and the webhooks *)

\* A push moves the branch; a recreated branch names no predecessor.
Push(recreated) ==
  /\ Len(remote) < Len(scope.history) /\ (recreated => "recreate" \in scope.events)
  /\ remote' = Append(remote, [commit |-> scope.history[Len(remote) + 1], before |-> 
                               IF recreated THEN None ELSE Last(remote).commit])
  /\ inflight' = inflight \cup {Len(remote) + 1}
  /\ UNCHANGED <<scope, lost, inbox, work, worker, binding, grant, head, spec, built, faults>>

Receive(i) ==
  /\ i \in inflight
  /\ inflight' = inflight \ {i} /\ inbox' = Append(inbox, i)
  /\ UNCHANGED <<scope, remote, lost, work, worker, binding, grant, head, spec, built, faults>>

Lose(i) ==
  /\ i \in inflight /\ faults < MaxFaults /\ "lose" \in scope.events
  /\ inflight' = inflight \ {i} /\ lost' = lost \cup {i} /\ faults' = faults + 1
  /\ UNCHANGED <<scope, remote, inbox, work, worker, binding, grant, head, spec, built>>

ProcessPushEvent ==
  /\ inbox # <<>>
  /\ work' = Enqueued(work, Item("push", Head(inbox), 0)) /\ inbox' = Tail(inbox)
  /\ UNCHANGED <<scope, github, worker, binding, grant, head, spec, built, faults>>

\* The work cannot be enqueued: the delivery is marked failed, and is not taken up again.
ProcessPushFails ==
  /\ inbox # <<>> /\ faults < MaxFaults /\ "fault" \in scope.events
  /\ inbox' = Tail(inbox) /\ lost' = lost \cup {Head(inbox)} /\ faults' = faults + 1
  /\ UNCHANGED <<scope, remote, inflight, work, worker, binding, grant, head, spec, built>>

\* The leader dies, at worst while it processes a delivery: the next one takes
\* the delivery up again when it looks stale, and has the installation refreshed.
Bootstrap(enqueued, again) ==
  /\ faults < MaxFaults /\ "restart" \in scope.events
  /\ enqueued \/ again => inbox # <<>>
  /\ LET queue == IF enqueued THEN Enqueued(work, Item("push", Head(inbox), 0)) ELSE work
     IN work' = Enqueued(queue, Item("refresh", 0, 0))
  /\ inbox' = IF again \/ inbox = <<>> THEN inbox ELSE Tail(inbox)
  /\ faults' = faults + 1
  /\ UNCHANGED <<scope, github, worker, binding, grant, head, spec, built>>

\* A spec write or a release syncs the source at its revision.
SaveSpec ==
  /\ spec < MaxSpec /\ "spec" \in scope.events
  /\ spec' = spec + 1 /\ work' = Enqueued(work, Item("spec", 0, spec + 1))
  /\ UNCHANGED <<scope, github, inbox, worker, binding, grant, head, built, faults>>

FreshUntilPasses ==
  /\ binding = "fresh" /\ "stale" \in scope.events
  /\ binding' = "stale" /\ worker' = [w \in Replicas |-> [worker[w] EXCEPT !.fresh = FALSE]]
  /\ UNCHANGED <<scope, github, inbox, work, grant, head, spec, built, faults>>

\* The grants were last refreshed longer ago than staleAfter.
GrantAges ==
  /\ grant = "fresh" /\ "aging" \in scope.events /\ faults < MaxFaults
  /\ grant' = "stale" /\ faults' = faults + 1
  /\ UNCHANGED <<scope, github, inbox, work, worker, binding, head, spec, built>>

-----------------------------------------------------------------------------
(* The handlers *)

Step(w, pc) == worker' = [worker EXCEPT ![w].pc = pc]

HandleProviderAccessChanged(w) ==
  /\ worker[w].pc = "start" /\ worker[w].kind = "refresh"
  /\ grant' = "fresh"
  /\ work' = IF binding = "none" THEN work ELSE Enqueued(work, Item("resync", 0, 0))
  /\ Step(w, "done")
  /\ UNCHANGED <<scope, github, inbox, binding, head, spec, built, faults>>

\* Old grants are refreshed first, and the sync deferred; else the binding is refreshed
\* and the head read, before the branch is fetched.
SyncServiceSource(w) ==
  /\ worker[w].pc = "start" /\ worker[w].kind \in {"spec", "sync", "resync"}
  /\ IF worker[w].rev > 0 /\ worker[w].rev # spec
     THEN Step(w, "done") /\ UNCHANGED <<work, binding>>
     ELSE IF grant = "stale"
     THEN Step(w, "deferred") /\ work' = Enqueued(work, Item("refresh", 0, 0)) /\ UNCHANGED binding
     ELSE /\ binding' = "fresh"
          /\ worker' = [worker EXCEPT ![w].pc = "fetch", ![w].basis = head]
          /\ UNCHANGED work
  /\ UNCHANGED <<scope, github, inbox, grant, head, spec, built, faults>>

HandleRevisionObserved(w) ==
  LET chained == remote[worker[w].at].before # None IN
  /\ worker[w].pc = "start" /\ worker[w].kind = "push"
  /\ IF binding = "none"
     THEN Step(w, "done")
     ELSE worker' = [worker EXCEPT ![w].fresh = (binding = "fresh"),
                                   ![w].pc    = IF chained THEN "observe" ELSE "fetch",
                                   ![w].proof = IF chained THEN "chain" ELSE "none",
                                   ![w].basis = IF chained THEN None ELSE head]
  /\ UNCHANGED <<scope, github, inbox, work, binding, grant, head, spec, built, faults>>

\* A push whose commit is no longer the branch's is recorded as history only.
GetBranchHead(w) ==
  LET r == worker[w]
      stale == r.kind = "push" /\ Last(remote).commit # remote[r.at].commit IN
  /\ r.pc = "fetch"
  /\ worker' = [worker EXCEPT ![w].pc = "observe", ![w].got = Len(remote), ![w].proof = IF stale THEN "history" ELSE "tracked"]
  /\ UNCHANGED <<scope, github, inbox, work, binding, grant, head, spec, built, faults>>

\* The place, and the commit, that a worker's observation is about.
Place(r) == IF r.kind = "push" /\ r.proof # "tracked" THEN r.at ELSE r.got
Observed(r) == remote[Place(r)].commit

\* Defect: a fetch counts as current whatever happened to the head meanwhile.
ProvesCurrentUnfenced(r) ==
  /\ r.proof # "history"
  /\ head = Observed(r) \/ r.proof = "tracked" \/ head = remote[r.at].before

ProvesCurrent(r) ==
  /\ r.proof # "history"
  /\ \/ head = Observed(r)
     \/ r.proof = "tracked" /\ r.basis = head
     \/ r.proof = "chain" /\ head # None /\ remote[r.at].before = head

\* Defect: a push over a stale binding is recorded, and nothing more.
AfterObserveForgetful(r) ==
  IF (r.kind = "push" /\ ~r.fresh) \/ r.proof = "history" \/ (r.kind # "spec" /\ ~scope.auto) THEN "done" ELSE "queue"

\* Where a handler goes once the revision is recorded.
AfterObserve(r) ==
  IF r.kind = "push" /\ ~r.fresh THEN "resync"
  ELSE IF r.proof = "history" \/ (r.kind # "spec" /\ ~scope.auto) THEN "done" ELSE "queue"

ObserveSourceRevision(w) ==
  /\ worker[w].pc = "observe"
  /\ head' = IF ProvesCurrent(worker[w]) THEN Observed(worker[w]) ELSE head
  /\ Step(w, AfterObserve(worker[w]))
  /\ UNCHANGED <<scope, github, inbox, work, binding, grant, spec, built, faults>>

\* Defect: a push that does not prove itself current is dropped.
QueueSourceBuildDropping(w) ==
  LET r == worker[w] IN
  /\ r.pc = "queue" /\ Step(w, "done")
  /\ IF ProvesCurrent(r) THEN head' = Observed(r) /\ built' = Place(r) ELSE UNCHANGED <<head, built>>
  /\ UNCHANGED <<scope, github, inbox, work, binding, grant, spec, faults>>

\* The archive is fetched before; then the request proves itself again.
QueueSourceBuild(w) ==
  LET r == worker[w] IN
  /\ r.pc = "queue"
  /\ IF ProvesCurrent(r)
     THEN head' = Observed(r) /\ built' = Place(r) /\ Step(w, "done")
     ELSE UNCHANGED <<head, built>> /\ Step(w, IF r.proof = "chain" THEN "resync" ELSE "done")
  /\ UNCHANGED <<scope, github, inbox, work, binding, grant, spec, faults>>

EnqueueResync(w) ==
  /\ worker[w].pc = "resync"
  /\ work' = Enqueued(work, Item("sync", 0, 0)) /\ Step(w, "done")
  /\ UNCHANGED <<scope, github, inbox, binding, grant, head, spec, built, faults>>

Handle(w) == \/ HandleProviderAccessChanged(w) \/ SyncServiceSource(w) \/ HandleRevisionObserved(w)
             \/ GetBranchHead(w) \/ ObserveSourceRevision(w) \/ QueueSourceBuild(w) \/ EnqueueResync(w)

ProcessNext(w) == Claim(w) \/ Handle(w) \/ Complete(w) \/ Defer(w)

Next == \/ \E recreated \in BOOLEAN : Push(recreated)
        \/ \E i \in DOMAIN remote : Receive(i) \/ Lose(i)
        \/ ProcessPushEvent \/ ProcessPushFails
        \/ \E enqueued, again \in BOOLEAN : Bootstrap(enqueued, again)
        \/ SaveSpec \/ FreshUntilPasses \/ GrantAges
        \/ \E w \in Replicas : ProcessNext(w) \/ Abandon(w) \/ Expire(w)

Spec == Init /\ [][Next]_vars

\* GitHub delivers what is not lost; the webhook processor and every reconciler loop.
Fairness == /\ WF_vars(\E i \in DOMAIN remote : Receive(i))
            /\ WF_vars(ProcessPushEvent)
            /\ \A w \in Replicas : WF_vars(ProcessNext(w))

FairSpec == Spec /\ Fairness

-----------------------------------------------------------------------------
\* The branch never returns to a commit it had before.
Linear == IsInjective(scope.history)

Items == [kind : {"spec", "push", "refresh", "sync", "resync"}, at : Nat, rev : Nat, owner : Replicas \cup {None}]
Workers == [pc : {"idle", "start", "fetch", "observe", "queue", "resync", "deferred", "done"},
            kind : {"none", "spec", "push", "refresh", "sync", "resync"}, at : Nat, rev : Nat,
            basis : Commits \cup {None}, got : Nat, proof : {"none", "tracked", "chain", "history"}, fresh : BOOLEAN]

\* Work whose pushes are among the first n.
Happened(n) == {x \in Items : x.kind = "push" => x.at \in 1..n}

\* Types, and the pushes in the inbox and in the queue are pushes of the branch.
TypeOK ==
  /\ scope \in Scopes
  /\ remote \in Seq([commit : Commits, before : Commits \cup {None}]) /\ Len(remote) \in 1..Len(scope.history)
  /\ inflight \subseteq 1..Len(remote) /\ inbox \in Seq(1..Len(remote))
  /\ work \in Seq(Happened(Len(remote))) /\ worker \in [Replicas -> Workers]
  /\ binding \in {"none", "fresh", "stale"} /\ grant \in {"fresh", "stale"} /\ head \in Commits \cup {None}
  /\ spec \in Nat /\ built \in Nat

\* The place of the proven head in a history without repetitions.
HeadPlace == IF head = None THEN 0 ELSE CHOOSE i \in DOMAIN remote : remote[i].commit = head

\* While the branch only moves to new commits, neither a late, repeated or
\* reordered push nor a fetch that took too long moves head_commit_sha back to
\* an older commit (ObserveSourceRevisionTx, BuildTransition.ProvesCurrent);
\* nor is a build requested for a commit older than one requested before it.
HeadNeverBack == [][Linear => HeadPlace' >= HeadPlace /\ built' >= built]_vars

Quiet == work = <<>> /\ \A w \in Replicas : worker[w].pc = "idle"

\* The webhook of push n has arrived and was processed without an error.
TakenIn(n) == n \notin inflight \cup lost /\ \A i \in DOMAIN inbox : inbox[i] # n

\* No attempt fails; or leases hold on a branch that only moves to new commits, and once
\* a spec write has superseded older work, no leader died and the last push's webhook came.
Undisturbed ==
  \/ "fault" \notin scope.events
  \/ /\ "expire" \notin scope.events /\ Linear
     /\ spec = 1 \/ ("restart" \notin scope.events /\ TakenIn(Len(remote)))

\* The head moves in one transaction and the build is queued in a later one, by then
\* perhaps refused; still the branch's commit does not stay the head with no build of
\* it requested: failed attempts are repeated, and what overtook them builds it.
HeadGetsBuilt ==
  Undisturbed /\ Quiet /\ scope.auto /\ head = Last(remote).commit => built > 0 /\ remote[built].commit = head

CaughtUp == Len(remote) \in lost \/ head = Last(remote).commit

\* One reconciler follows the branch to its last commit however the webhooks are
\* ordered, whichever earlier ones are lost or marked failed, and although a sync over
\* old grants is put off.  The last push's own delivery must not be lost, nor fail when
\* it is processed: RecoverGitHubWebhookDeliveries takes up those of a dead leader only.
Follows == Linear /\ Cardinality(scope.replicas) = 1 => <>[]CaughtUp

\* So does any number of them: a push that cannot prove itself current has the
\* branch fetched "instead of leaving the service on an older image".
NeverLeftBehind == Linear => <>[]CaughtUp

=============================================================================
