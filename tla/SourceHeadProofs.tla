-------------------------- MODULE SourceHeadProofs --------------------------
(***************************************************************************)
(* The proven head of a service never moves back on a branch that only     *)
(* moves to new commits, for any history, any number of reconcilers and    *)
(* any order of webhooks, lapses and repetitions.  The invariant ties each *)
(* commit in use to its place on the branch: pushes in the inbox and in    *)
(* the queue are pushes that happened, a fetch is at least as new as the   *)
(* head it started from, and no build is ahead of the head.                *)
(***************************************************************************)
EXTENDS SourceHead, SequenceTheorems, TLAPS

\* The history h has the commit c among its first n.
Was(h, c, n) == \E k \in 1..n : c = h[k]

\* A push moves the branch from the commit it names.
Branch ==
  \A i \in DOMAIN remote :
    /\ remote[i].commit = scope.history[i]
    /\ remote[i].before # None => i > 1 /\ remote[i].before = scope.history[i - 1]

\* What a worker knows of a branch with n commits of the history h.
Knows(h, r, n) ==
  /\ r.kind = "push" => r.at \in 1..n
  /\ r.pc = "fetch" => r.basis = None \/ Was(h, r.basis, n)
  /\ r.proof = "tracked" => r.got \in 1..n /\ (r.basis = None \/ Was(h, r.basis, r.got))
  /\ r.proof \in {"chain", "history"} => r.kind = "push"
  /\ r.pc \in {"observe", "queue"} => r.proof # "none"
  /\ r.pc = "start" => r.proof = "none"

\* The head is a commit the branch has had.
Proven == head = None \/ Was(scope.history, head, Len(remote))

\* On a linear branch no build is ahead of the head.
BuildsBehind == built <= Len(remote) /\ (Linear => built <= HeadPlace)

Inv ==
  /\ TypeOK /\ Branch
  /\ \A w \in Replicas : Knows(scope.history, worker[w], Len(remote))
  /\ Proven /\ BuildsBehind

-----------------------------------------------------------------------------
\* EnqueueTx adds the row or leaves the queue as it is.
LEMMA EnqueuedOK ==
  ASSUME NEW S, NEW q \in Seq(S), NEW it \in S PROVE Enqueued(q, it) \in Seq(S)
BY DEF Enqueued

\* A delivery joins the inbox.
LEMMA AppendedOK ==
  ASSUME NEW S, NEW q \in Seq(S), NEW it \in S PROVE Append(q, it) \in Seq(S)
BY AppendProperties

\* The completed row leaves the queue.
LEMMA RemovedOK ==
  ASSUME NEW S, NEW q \in Seq(S), NEW j \in DOMAIN q PROVE RemoveAt(q, j) \in Seq(S)
<1>1. j \in 1..Len(q) /\ Len(q) \in Nat OBVIOUS
<1>2. SubSeq(q, 1, j - 1) \in Seq(S) BY <1>1, SubSeqProperties
<1>3. SubSeq(q, j + 1, Len(q)) \in Seq(S) BY <1>1, SubSeqProperties
<1> QED BY <1>2, <1>3 DEF RemoveAt

\* On a branch without repetitions a commit has one place.
LEMMA PlaceUnique ==
  ASSUME NEW h, IsInjective(h), NEW r, NEW n \in Nat, DOMAIN r = 1..n, 1..n \subseteq DOMAIN h,
         \A i \in 1..n : r[i].commit = h[i], NEW k \in 1..n, NEW x, x = h[k]
  PROVE  (CHOOSE i \in DOMAIN r : r[i].commit = x) = k
<1>1. k \in DOMAIN r /\ r[k].commit = x OBVIOUS
<1>2. \A i \in DOMAIN r : r[i].commit = x => i = k BY DEF IsInjective
<1> QED BY <1>1, <1>2

\* The place of a proven head.
LEMMA HeadPlaceIs ==
  ASSUME Inv, Linear, NEW k \in 1..Len(remote), head = scope.history[k]
  PROVE  HeadPlace = k
<1>1. scope.history \in Seq(Commits) BY SourceBounds DEF Inv, TypeOK
<1>2. head # None BY <1>1, SourceBounds DEF Inv, TypeOK
<1>3. DOMAIN remote = 1..Len(remote) /\ Len(remote) \in Nat /\ 1..Len(remote) \subseteq DOMAIN scope.history
  BY <1>1 DEF Inv, TypeOK
<1> QED BY <1>2, <1>3, PlaceUnique DEF HeadPlace, Linear, Inv, Branch

\* On such a branch the head has a place.
LEMMA HeadPlaceNat ==
  ASSUME Inv, Linear
  PROVE  HeadPlace \in Nat
<1>1. CASE head = None BY <1>1 DEF HeadPlace
<1>2. CASE head # None
  <2>1. PICK k \in 1..Len(remote) : head = scope.history[k] BY <1>2 DEF Inv, Proven, Was
  <2> QED BY <2>1, HeadPlaceIs
<1> QED BY <1>1, <1>2

\* The first commit is there and nothing is known of it.
LEMMA InvInit == Init => Inv
<1> SUFFICES ASSUME Init PROVE Inv OBVIOUS
<1>1. scope.history \in Seq(Commits) /\ scope.history # <<>> /\ scope \in Scopes BY SourceBounds DEF Init
<1>2. Len(scope.history) \in Nat \ {0} /\ scope.history[1] \in Commits BY <1>1
<1>3. remote \in Seq([commit : Commits, before : Commits \cup {None}]) /\ Len(remote) = 1
      /\ remote[1] = [commit |-> scope.history[1], before |-> None]
  BY <1>2 DEF Init
<1>4. Item("spec", 0, 1) \in Happened(1) BY DEF Item, Happened, Items
<1>5. Idle \in Workers BY DEF Idle, Workers
<1>6. TypeOK BY <1>1, <1>2, <1>3, <1>4, <1>5 DEF Init, TypeOK
<1>7. Branch BY <1>3 DEF Branch
<1>8. \A w \in Replicas : Knows(scope.history, worker[w], Len(remote)) BY DEF Init, Knows, Idle
<1>9. Proven /\ BuildsBehind BY <1>3 DEF Init, Proven, BuildsBehind, HeadPlace
<1> QED BY <1>6, <1>7, <1>8, <1>9 DEF Inv

-----------------------------------------------------------------------------
\* A step that changes one worker, and perhaps the head and the build.
LEMMA WorkerMovesHead ==
  ASSUME Inv, NEW w \in Replicas, NEW e \in Workers, Knows(scope.history, e, Len(remote)),
         worker' = [worker EXCEPT ![w] = e], work' \in Seq(Happened(Len(remote))),
         binding' \in {"none", "fresh", "stale"}, grant' \in {"fresh", "stale"}, head' \in Commits \cup {None}, built' \in Nat,
         Proven', BuildsBehind',
         UNCHANGED <<scope, github, inbox, spec>>
  PROVE  Inv'
<1>1. worker' \in [Replicas -> Workers] /\ \A v \in Replicas : worker'[v] = IF v = w THEN e ELSE worker[v]
  BY DEF Inv, TypeOK
<1>2. TypeOK' BY <1>1 DEF Inv, TypeOK, github
<1>3. \A v \in Replicas : Knows(scope.history, worker'[v], Len(remote)) BY <1>1 DEF Inv
<1>4. \A v \in Replicas : Knows(scope.history, worker[v], Len(remote))' BY <1>3 DEF Knows, Was, github
<1>5. Branch' BY DEF Inv, Branch, github
<1> QED BY <1>2, <1>4, <1>5 DEF Inv

\* A step that changes one worker, and neither the branch nor the head.
LEMMA WorkerMoves ==
  ASSUME Inv, NEW w \in Replicas, NEW e \in Workers, Knows(scope.history, e, Len(remote)),
         worker' = [worker EXCEPT ![w] = e], work' \in Seq(Happened(Len(remote))),
         binding' \in {"none", "fresh", "stale"}, grant' \in {"fresh", "stale"},
         UNCHANGED <<scope, github, inbox, head, spec, built>>
  PROVE  Inv'
<1>1. Proven' /\ BuildsBehind' BY DEF Inv, Proven, Was, BuildsBehind, Linear, HeadPlace, github
<1>2. head' \in Commits \cup {None} /\ built' \in Nat BY DEF Inv, TypeOK
<1> QED BY <1>1, <1>2, WorkerMovesHead

\* A step that changes the queue, the inbox and the like only.
LEMMA QueueMoves ==
  ASSUME Inv, work' \in Seq(Happened(Len(remote))), inbox' \in Seq(1..Len(remote)),
         inflight' \subseteq 1..Len(remote), spec' \in Nat,
         grant' \in {"fresh", "stale"}, UNCHANGED <<scope, remote, worker, binding, head, built>>
  PROVE  Inv'
<1>1. TypeOK' BY DEF Inv, TypeOK
<1>2. \A v \in Replicas : Knows(scope.history, worker[v], Len(remote))' BY DEF Inv, Knows, Was
<1>3. Branch' /\ Proven' /\ BuildsBehind'
  BY DEF Inv, Branch, Proven, Was, BuildsBehind, Linear, HeadPlace
<1> QED BY <1>1, <1>2, <1>3 DEF Inv

\* What the invariant says of one worker and of the history.
LEMMA Facts ==
  ASSUME Inv
  PROVE  /\ scope \in Scopes /\ scope.history \in Seq(Commits) /\ None \notin Commits
         /\ Len(remote) \in Nat /\ Len(remote) > 0 /\ DOMAIN remote = 1..Len(remote)
         /\ Len(scope.history) \in Nat /\ Len(remote) <= Len(scope.history)
         /\ DOMAIN scope.history = 1..Len(scope.history)
         /\ \A i \in 1..Len(remote) : scope.history[i] \in Commits /\ remote[i].commit = scope.history[i]
         /\ \A w \in Replicas : worker[w] \in Workers /\ Knows(scope.history, worker[w], Len(remote))
BY SourceBounds DEF Inv, TypeOK, Branch

\* Claim, Complete, Expire, and the failed attempts of Abandon and Defer.
LEMMA WorkStep ==
  ASSUME Inv, NEW w \in Replicas, Claim(w) \/ Complete(w) \/ Abandon(w) \/ Defer(w) \/ Expire(w) PROVE Inv'
<1> DEFINE S == Happened(Len(remote))
<1>1. work \in Seq(S) BY DEF Inv, TypeOK
<1>2. DOMAIN work = 1..Len(work) /\ \A j \in DOMAIN work : work[j] \in S BY <1>1
<1>3. \A j \in DOMAIN work, o \in Replicas \cup {None} : [work[j] EXCEPT !.owner = o] \in S
  BY <1>2 DEF Happened, Items
<1>4. Idle \in Workers /\ Knows(scope.history, Idle, Len(remote)) BY DEF Idle, Workers, Knows
<1> HIDE DEF S
<1>5. \A j \in DOMAIN work, o \in Replicas \cup {None} : [work EXCEPT ![j].owner = o] \in Seq(S)
  BY <1>1, <1>3, ExceptSeq
<1>6. \A j \in DOMAIN work : RemoveAt(work, j) \in Seq(S) BY <1>1, RemovedOK
<1>7. CASE Claim(w)
  <2>1. PICK j \in DOMAIN work :
          /\ work' = [work EXCEPT ![j].owner = w]
          /\ worker' = [worker EXCEPT ![w] = [Idle EXCEPT !.pc = "start", !.kind = work[j].kind, !.at = work[j].at, !.rev = work[j].rev]]
    BY <1>7 DEF Claim
  <2> DEFINE e == [Idle EXCEPT !.pc = "start", !.kind = work[j].kind, !.at = work[j].at, !.rev = work[j].rev]
  <2>2. e \in Workers /\ Knows(scope.history, e, Len(remote)) BY <1>2 DEF Idle, Workers, Knows, S, Happened, Items
  <2> HIDE DEF e
  <2>3. worker' = [worker EXCEPT ![w] = e] BY <2>1 DEF e
  <2>4. work' \in Seq(S) BY <1>5, <2>1
  <2> QED BY <1>7, <2>2, <2>3, <2>4, WorkerMoves DEF Claim, Inv, TypeOK, S
<1>8. CASE Complete(w)
  <2>1. work' \in Seq(S) BY <1>1, <1>6, <1>8 DEF Complete, Mine
  <2> QED BY <1>4, <1>8, <2>1, WorkerMoves DEF Complete, Inv, TypeOK, S
<1>9. CASE Retry(w)
  <2>1. work' \in Seq(S)
    <3>1. CASE Mine(w) = {} BY <1>1, <1>9, <3>1 DEF Retry
    <3>2. CASE Mine(w) # {}
      <4>1. PICK j \in DOMAIN work : work' = Append(RemoveAt(work, j), [work[j] EXCEPT !.owner = None])
        BY <1>9, <3>2 DEF Retry, Mine
      <4>2. [work[j] EXCEPT !.owner = None] \in S BY <1>3
      <4> QED BY <1>6, <4>1, <4>2, AppendProperties
    <3> QED BY <3>1, <3>2
  <2> QED BY <1>4, <1>9, <2>1, WorkerMoves DEF Retry, Inv, TypeOK, S
<1>10. CASE Expire(w)
  <2>1. work' \in Seq(S) BY <1>5, <1>10 DEF Expire, Mine
  <2> QED BY <1>10, <2>1, QueueMoves DEF Expire, Inv, TypeOK, S, github
<1> QED BY <1>7, <1>8, <1>9, <1>10 DEF Abandon, Defer

\* GitHub's push: the branch grows, and what was known of it stays true.
LEMMA PushStep ==
  ASSUME Inv, NEW recreated \in BOOLEAN, Push(recreated)
  PROVE  Inv' /\ (Linear => HeadPlace' = HeadPlace /\ built' = built)
<1> DEFINE n == Len(remote)
           c == [commit |-> scope.history[n + 1], before |-> IF recreated THEN None ELSE Last(remote).commit]
<1>1. n \in Nat /\ n > 0 /\ n < Len(scope.history) /\ remote' = Append(remote, c) /\ UNCHANGED <<scope, lost, inbox, work, worker, binding, grant, head, spec, built, faults>>
      /\ inflight' = inflight \cup {n + 1}
  BY Facts DEF Push
<1>2. scope.history[n + 1] \in Commits /\ Last(remote).commit = scope.history[n] /\ scope.history[n] \in Commits
  BY <1>1, Facts DEF Last
<1>3. c \in [commit : Commits, before : Commits \cup {None}] BY <1>2
<1>4. remote \in Seq([commit : Commits, before : Commits \cup {None}]) BY DEF Inv, TypeOK
<1>5. c.commit = scope.history[n + 1] /\ c.before \in {None, scope.history[n]} BY <1>2
<1> HIDE DEF c
<1>6. /\ remote' \in Seq([commit : Commits, before : Commits \cup {None}]) /\ Len(remote') = n + 1
      /\ \A i \in 1..n : remote'[i] = remote[i]
      /\ remote'[n + 1] = c
  BY <1>1, <1>3, <1>4, AppendProperties
<1>7. Branch'
  <2> SUFFICES ASSUME NEW i \in 1..(n + 1)
               PROVE  /\ remote'[i].commit = scope.history[i]
                      /\ remote'[i].before # None => i > 1 /\ remote'[i].before = scope.history[i - 1]
    BY <1>1, <1>6 DEF Branch
  <2>1. CASE i \in 1..n BY <1>6, <2>1, Facts DEF Inv, Branch
  <2>2. CASE i = n + 1 BY <1>1, <1>5, <1>6, <2>2
  <2> QED BY <1>1, <2>1, <2>2
<1>8. Happened(n) \subseteq Happened(n + 1) BY <1>1 DEF Happened
<1>9. work' \in Seq(Happened(n + 1)) BY <1>1, <1>8, SeqMonotonic DEF Inv, TypeOK
<1>10. inbox' \in Seq(1..(n + 1))
  <2>1. 1..n \subseteq 1..(n + 1) BY <1>1
  <2> QED BY <1>1, <2>1, SeqMonotonic DEF Inv, TypeOK
<1>11. TypeOK'
  <2>0. inflight \subseteq 1..n /\ 1..n \subseteq 1..(n + 1) /\ n + 1 \in 1..(n + 1) BY <1>1 DEF Inv, TypeOK
  <2> HIDE DEF n
  <2>1. inflight' \subseteq 1..(n + 1) BY <1>1, <2>0
  <2> USE DEF n
  <2> QED BY <1>1, <1>6, <1>9, <1>10, <2>1 DEF Inv, TypeOK
<1>12. \A w \in Replicas : Knows(scope.history, worker[w], Len(remote))'
  <2> SUFFICES ASSUME NEW w \in Replicas PROVE Knows(scope.history, worker[w], Len(remote))'
    OBVIOUS
  <2>1. Knows(scope.history, worker[w], n) /\ worker[w] \in Workers BY Facts
  <2>2. \A k : Was(scope.history, k, n) => Was(scope.history, k, n + 1) BY <1>1 DEF Was
  <2>3. Knows(scope.history, worker[w], n + 1) BY <1>1, <2>1, <2>2 DEF Knows, Workers
  <2> QED BY <1>1, <1>6, <2>3
<1>13. Proven' BY <1>1, <1>6 DEF Inv, Proven, Was
<1>14. Linear => HeadPlace' = HeadPlace
  <2> SUFFICES ASSUME Linear, head # None PROVE HeadPlace' = HeadPlace BY <1>1 DEF HeadPlace
  <2>1. PICK k \in 1..n : head = scope.history[k] BY DEF Inv, Proven, Was
  <2>2. HeadPlace = k BY <2>1, HeadPlaceIs
  <2>3. DOMAIN remote' = 1..(n + 1) /\ \A i \in 1..(n + 1) : remote'[i].commit = scope.history[i]
    BY <1>1, <1>6, <1>7 DEF Branch
  <2>4. (CHOOSE i \in DOMAIN remote' : remote'[i].commit = head') = k
    BY <1>1, <2>1, <2>3, PlaceUnique, Facts DEF Linear
  <2>5. head' # None BY <1>1
  <2> QED BY <2>2, <2>4, <2>5 DEF HeadPlace
<1>15. BuildsBehind' BY <1>1, <1>6, <1>14 DEF Inv, TypeOK, BuildsBehind, Linear
<1> QED BY <1>1, <1>7, <1>11, <1>12, <1>13, <1>14, <1>15 DEF Inv

\* The handlers that neither observe nor queue a revision.
LEMMA HandlerStep ==
  ASSUME Inv, NEW w \in Replicas,
         \/ HandleProviderAccessChanged(w) \/ SyncServiceSource(w) \/ HandleRevisionObserved(w)
         \/ GetBranchHead(w) \/ EnqueueResync(w)
  PROVE  Inv'
<1> DEFINE r == worker[w]
           n == Len(remote)
<1>1. r \in Workers /\ Knows(scope.history, r, n) /\ n \in Nat /\ n > 0 BY Facts
<1>2. work \in Seq(Happened(n)) /\ binding \in {"none", "fresh", "stale"} /\ grant \in {"fresh", "stale"} BY DEF Inv, TypeOK
<1>3. [r EXCEPT !.pc = "done"] \in Workers /\ Knows(scope.history, [r EXCEPT !.pc = "done"], n)
  BY <1>1 DEF Workers, Knows
<1>4. Item("resync", 0, 0) \in Happened(n) /\ Item("sync", 0, 0) \in Happened(n) /\ Item("refresh", 0, 0) \in Happened(n)
  BY DEF Item, Happened, Items
<1>5. head = None \/ Was(scope.history, head, n) BY DEF Inv, Proven
<1>6. head \in Commits \cup {None} BY DEF Inv, TypeOK
<1>7. ASSUME NEW pc, Step(w, pc) PROVE worker' = [worker EXCEPT ![w] = [r EXCEPT !.pc = pc]] BY <1>7 DEF Step
<1>8. CASE HandleProviderAccessChanged(w)
  <2>1. work' \in Seq(Happened(n)) BY <1>2, <1>4, <1>8, EnqueuedOK DEF HandleProviderAccessChanged
  <2>2. worker' = [worker EXCEPT ![w] = [r EXCEPT !.pc = "done"]] BY <1>7, <1>8 DEF HandleProviderAccessChanged
  <2> QED BY <1>2, <1>3, <1>8, <2>1, <2>2, WorkerMoves DEF HandleProviderAccessChanged
<1>9. CASE EnqueueResync(w)
  <2>1. work' \in Seq(Happened(n)) BY <1>2, <1>4, <1>9, EnqueuedOK DEF EnqueueResync
  <2>2. worker' = [worker EXCEPT ![w] = [r EXCEPT !.pc = "done"]] BY <1>7, <1>9 DEF EnqueueResync
  <2> QED BY <1>2, <1>3, <1>9, <2>1, <2>2, WorkerMoves DEF EnqueueResync
<1>10. CASE SyncServiceSource(w)
  <2>1. CASE r.rev > 0 /\ r.rev # spec
    <3>1. worker' = [worker EXCEPT ![w] = [r EXCEPT !.pc = "done"]] BY <1>7, <1>10, <2>1 DEF SyncServiceSource
    <3> QED BY <1>2, <1>3, <1>10, <2>1, <3>1, WorkerMoves DEF SyncServiceSource
  <2>2. CASE ~(r.rev > 0 /\ r.rev # spec) /\ grant = "stale"
    <3> DEFINE e == [r EXCEPT !.pc = "deferred"]
    <3>1. worker' = [worker EXCEPT ![w] = e] BY <1>7, <1>10, <2>2 DEF SyncServiceSource
    <3>2. e \in Workers /\ Knows(scope.history, e, n) BY <1>1 DEF Workers, Knows
    <3> HIDE DEF e
    <3>3. work' \in Seq(Happened(n)) BY <1>2, <1>4, <1>10, <2>2, EnqueuedOK DEF SyncServiceSource
    <3> QED BY <1>2, <1>10, <2>2, <3>1, <3>2, <3>3, WorkerMoves DEF SyncServiceSource
  <2>3. CASE ~(r.rev > 0 /\ r.rev # spec) /\ grant # "stale"
    <3> DEFINE e == [r EXCEPT !.pc = "fetch", !.basis = head]
    <3>0. r.pc = "start" BY <1>10 DEF SyncServiceSource
    <3>1. worker' = [worker EXCEPT ![w] = e] BY <1>10, <2>3 DEF SyncServiceSource
    <3>2. e \in Workers /\ Knows(scope.history, e, n) BY <1>1, <1>5, <1>6, <3>0 DEF Workers, Knows
    <3> HIDE DEF e
    <3> QED BY <1>2, <1>10, <2>3, <3>1, <3>2, WorkerMoves DEF SyncServiceSource
  <2> QED BY <2>1, <2>2, <2>3
<1>11. CASE HandleRevisionObserved(w)
  <2>1. CASE binding = "none"
    <3>1. worker' = [worker EXCEPT ![w] = [r EXCEPT !.pc = "done"]] BY <1>7, <1>11, <2>1 DEF HandleRevisionObserved
    <3> QED BY <1>2, <1>3, <1>11, <3>1, WorkerMoves DEF HandleRevisionObserved
  <2>2. CASE binding # "none"
    <3> DEFINE chained == remote[r.at].before # None
               e == [r EXCEPT !.fresh = (binding = "fresh"), !.pc = IF chained THEN "observe" ELSE "fetch",
                              !.proof = IF chained THEN "chain" ELSE "none", !.basis = IF chained THEN None ELSE head]
    <3>1. worker' = [worker EXCEPT ![w] = e] /\ r.kind = "push" BY <1>11, <2>2 DEF HandleRevisionObserved
    <3>2. e \in Workers BY <1>1, <1>6 DEF Workers
    <3>3. Knows(scope.history, e, n)
      <4>1. CASE chained BY <1>1, <3>1, <4>1 DEF Workers, Knows
      <4>2. CASE ~chained BY <1>1, <1>5, <3>1, <4>2 DEF Workers, Knows
      <4> QED BY <4>1, <4>2
    <3> HIDE DEF e
    <3> QED BY <1>2, <1>11, <3>1, <3>2, <3>3, WorkerMoves DEF HandleRevisionObserved
  <2> QED BY <2>1, <2>2
<1>12. CASE GetBranchHead(w)
  <2> DEFINE stale == r.kind = "push" /\ Last(remote).commit # remote[r.at].commit
             e == [r EXCEPT !.pc = "observe", !.got = n, !.proof = IF stale THEN "history" ELSE "tracked"]
  <2>1. worker' = [worker EXCEPT ![w] = e] /\ r.pc = "fetch" BY <1>12 DEF GetBranchHead
  <2>2. e \in Workers BY <1>1 DEF Workers
  <2>3. Knows(scope.history, e, n)
    <3>1. CASE stale BY <1>1, <2>1, <3>1 DEF Workers, Knows
    <3>2. CASE ~stale BY <1>1, <2>1, <3>2 DEF Workers, Knows
    <3> QED BY <3>1, <3>2
  <2> HIDE DEF e
  <2> QED BY <1>2, <1>12, <2>1, <2>2, <2>3, WorkerMoves DEF GetBranchHead
<1> QED BY <1>8, <1>9, <1>10, <1>11, <1>12

\* BuildTransition.ProvesCurrent: a revision that proves itself current is not behind the head.
LEMMA CurrentIsNewer ==
  ASSUME Inv, NEW w \in Replicas, worker[w].pc \in {"observe", "queue"}, ProvesCurrent(worker[w]),
         head' = Observed(worker[w]), UNCHANGED <<scope, remote>>
  PROVE  /\ Place(worker[w]) \in 1..Len(remote) /\ head' \in Commits /\ Proven'
         /\ Linear => HeadPlace' = Place(worker[w]) /\ HeadPlace' >= HeadPlace
<1> DEFINE r == worker[w]
           n == Len(remote)
<1>1. r \in Workers /\ Knows(scope.history, r, n) /\ n \in Nat BY Facts
<1>2. Place(r) \in 1..n BY <1>1 DEF Place, Knows, Workers
<1>3. head' = scope.history[Place(r)] /\ head' \in Commits BY <1>2, Facts DEF Observed
<1>4. Proven' BY <1>2, <1>3 DEF Proven, Was
<1>5. ASSUME Linear PROVE HeadPlace' = Place(r) /\ HeadPlace' >= HeadPlace
  <2>1. HeadPlace' = Place(r)
    <3>1. (CHOOSE i \in DOMAIN remote' : remote'[i].commit = head') = Place(r)
      BY <1>2, <1>3, <1>5, PlaceUnique, Facts DEF Linear
    <3>2. head' # None BY <1>3, Facts
    <3> QED BY <3>1, <3>2 DEF HeadPlace
  <2>2. CASE head = Observed(r)
    <3>1. head = scope.history[Place(r)] BY <1>3, <2>2
    <3>2. HeadPlace = Place(r) BY <1>2, <1>5, <3>1, HeadPlaceIs
    <3> QED BY <1>2, <2>1, <3>2
  <2>3. CASE head = None BY <1>2, <2>1, <2>3 DEF HeadPlace
  <2>4. CASE r.proof = "tracked" /\ r.basis = head /\ head # None
    <3>1. PICK k \in 1..r.got : head = scope.history[k] BY <1>1, <2>4 DEF Knows, Was
    <3>2. r.got \in 1..n /\ Place(r) = r.got BY <1>1, <2>4 DEF Knows, Place
    <3>3. HeadPlace = k BY <1>1, <1>5, <3>1, <3>2, HeadPlaceIs
    <3> QED BY <2>1, <3>1, <3>2, <3>3
  <2>5. CASE r.proof = "chain" /\ head # None /\ remote[r.at].before = head
    <3>1. r.kind = "push" /\ r.at \in 1..n /\ Place(r) = r.at BY <1>1, <2>5 DEF Knows, Place
    <3>2. r.at > 1 /\ head = scope.history[r.at - 1] BY <2>5, <3>1, Facts DEF Inv, Branch
    <3>3. HeadPlace = r.at - 1 BY <1>1, <1>5, <3>1, <3>2, HeadPlaceIs
    <3> QED BY <2>1, <3>1, <3>3
  <2> QED BY <2>2, <2>3, <2>4, <2>5 DEF ProvesCurrent
<1> QED BY <1>2, <1>3, <1>4, <1>5

\* The record of a revision, and the request of its build.
LEMMA ObserveStep ==
  ASSUME Inv, NEW w \in Replicas, ObserveSourceRevision(w) \/ QueueSourceBuild(w)
  PROVE  Inv' /\ (Linear => HeadPlace' >= HeadPlace /\ built' >= built)
<1> DEFINE r == worker[w]
           n == Len(remote)
           After(pc) == [r EXCEPT !.pc = pc]
<1>1. r \in Workers /\ Knows(scope.history, r, n) /\ n \in Nat BY Facts
<1>2. /\ work \in Seq(Happened(n)) /\ binding \in {"none", "fresh", "stale"} /\ grant \in {"fresh", "stale"}
      /\ head \in Commits \cup {None} /\ built \in Nat /\ built <= n /\ (Linear => built <= HeadPlace)
  BY DEF Inv, TypeOK, BuildsBehind
<1>3. r.pc \in {"observe", "queue"} BY DEF ObserveSourceRevision, QueueSourceBuild
<1>4. \A pc \in {"resync", "done", "queue"} : After(pc) \in Workers /\ Knows(scope.history, After(pc), n)
  BY <1>1, <1>3 DEF Workers, Knows
<1>5. PICK pc \in {"resync", "done", "queue"} : worker' = [worker EXCEPT ![w] = After(pc)]
  BY DEF ObserveSourceRevision, QueueSourceBuild, Step, AfterObserve
<1>6. UNCHANGED <<scope, github, inbox, work, binding, grant, spec>> BY DEF ObserveSourceRevision, QueueSourceBuild
<1> HIDE DEF After
<1>7. CASE ~ProvesCurrent(r)
  <2>1. head' = head /\ built' = built BY <1>7 DEF ObserveSourceRevision, QueueSourceBuild
  <2>2. Inv' BY <1>2, <1>4, <1>5, <1>6, <2>1, WorkerMoves
  <2>3. HeadPlace' = HeadPlace BY <1>6, <2>1 DEF HeadPlace, github
  <2>4. Linear => HeadPlace \in Nat BY HeadPlaceNat
  <2> QED BY <1>2, <2>1, <2>2, <2>3, <2>4
<1>8. CASE ProvesCurrent(r)
  <2>1. head' = Observed(r) /\ built' \in {built, Place(r)}
    BY <1>8 DEF ObserveSourceRevision, QueueSourceBuild
  <2>2. /\ Place(r) \in 1..n /\ head' \in Commits /\ Proven'
        /\ Linear => HeadPlace' = Place(r) /\ HeadPlace' >= HeadPlace
    BY <1>3, <1>6, <1>8, <2>1, CurrentIsNewer DEF github
  <2>3. Linear => HeadPlace \in Nat BY HeadPlaceNat
  <2>4. built' \in Nat /\ built' <= n /\ (Linear => built' <= HeadPlace' /\ built' >= built)
    BY <1>1, <1>2, <2>1, <2>2, <2>3
  <2>5. BuildsBehind' BY <1>6, <2>4 DEF BuildsBehind, Linear, github
  <2>6. Inv' BY <1>2, <1>4, <1>5, <1>6, <2>2, <2>4, <2>5, WorkerMovesHead
  <2> QED BY <2>2, <2>4, <2>6
<1> QED BY <1>7, <1>8

\* The webhooks, the leader's bootstrap, spec writes and the freshness of the binding.
LEMMA EnvironmentStep ==
  ASSUME Inv,
         \/ \E i \in DOMAIN remote : Receive(i) \/ Lose(i)
         \/ ProcessPushEvent \/ ProcessPushFails \/ \E enqueued, again \in BOOLEAN : Bootstrap(enqueued, again)
         \/ SaveSpec \/ FreshUntilPasses \/ GrantAges
  PROVE  Inv' /\ HeadPlace' = HeadPlace /\ built' = built
<1> DEFINE n == Len(remote)
<1>1. /\ work \in Seq(Happened(n)) /\ inbox \in Seq(1..n) /\ inflight \subseteq 1..n /\ spec \in Nat /\ n \in Nat
      /\ DOMAIN remote = 1..n /\ grant \in {"fresh", "stale"}
  BY Facts DEF Inv, TypeOK
<1>2. UNCHANGED <<scope, remote, head, built>>
  BY DEF Receive, Lose, ProcessPushEvent, ProcessPushFails, Bootstrap, SaveSpec, FreshUntilPasses, GrantAges, github
<1>3. HeadPlace' = HeadPlace BY <1>2 DEF HeadPlace
<1>4. \A i \in 1..n : Item("push", i, 0) \in Happened(n) BY <1>1 DEF Item, Happened, Items
<1>5. inbox # <<>> => Head(inbox) \in 1..n /\ Tail(inbox) \in Seq(1..n) BY <1>1, HeadTailProperties
<1>6. ASSUME NEW i \in DOMAIN remote, Receive(i) \/ Lose(i) PROVE Inv'
  <2>1. i \in 1..n BY <1>1
  <2>2. inbox' \in {inbox, Append(inbox, i)} /\ inflight' \subseteq inflight BY <1>6 DEF Receive, Lose
  <2>3. work' = work /\ spec' = spec /\ worker' = worker /\ binding' = binding /\ grant' = grant BY <1>6 DEF Receive, Lose
  <2> HIDE DEF n
  <2>4. inbox' \in Seq(1..n) BY <1>1, <2>1, <2>2, AppendedOK
  <2>5. inflight' \subseteq 1..n BY <1>1, <2>2
  <2> QED BY <1>1, <1>2, <2>3, <2>4, <2>5, QueueMoves DEF n
<1>7. CASE ProcessPushEvent
  <2>1. work' \in Seq(Happened(n)) BY <1>1, <1>4, <1>5, <1>7, EnqueuedOK DEF ProcessPushEvent
  <2>2. inbox' \in Seq(1..n) BY <1>5, <1>7 DEF ProcessPushEvent
  <2>3. inflight' = inflight /\ spec' = spec /\ worker' = worker /\ binding' = binding /\ grant' = grant
    BY <1>7 DEF ProcessPushEvent, github
  <2>4. inflight' \subseteq 1..n /\ spec' \in Nat /\ grant' \in {"fresh", "stale"} BY <1>1, <2>3
  <2>5. UNCHANGED <<scope, remote, worker, binding, head, built>> BY <1>2, <2>3
  <2> QED BY <1>2, <1>3, <2>1, <2>2, <2>4, <2>5, QueueMoves
<1>8. ASSUME NEW enqueued \in BOOLEAN, NEW again \in BOOLEAN, Bootstrap(enqueued, again) PROVE Inv'
  <2> DEFINE queue == IF enqueued THEN Enqueued(work, Item("push", Head(inbox), 0)) ELSE work
  <2>1. queue \in Seq(Happened(n)) BY <1>1, <1>4, <1>5, <1>8, EnqueuedOK DEF Bootstrap
  <2>2. Item("refresh", 0, 0) \in Happened(n) BY DEF Item, Happened, Items
  <2>3. work' = Enqueued(queue, Item("refresh", 0, 0)) BY <1>8 DEF Bootstrap
  <2> HIDE DEF queue
  <2>4. work' \in Seq(Happened(n)) BY <2>1, <2>2, <2>3, EnqueuedOK
  <2>5. inbox' \in Seq(1..n) BY <1>1, <1>5, <1>8 DEF Bootstrap
  <2> QED BY <1>1, <1>8, <2>4, <2>5, QueueMoves DEF Bootstrap, github
<1>9. CASE SaveSpec
  <2>1. Item("spec", 0, spec + 1) \in Happened(n) BY <1>1 DEF Item, Happened, Items
  <2>2. work' \in Seq(Happened(n)) /\ spec' \in Nat BY <1>1, <1>9, <2>1, EnqueuedOK DEF SaveSpec
  <2>3. inflight' = inflight /\ inbox' = inbox /\ worker' = worker /\ binding' = binding /\ grant' = grant
    BY <1>9 DEF SaveSpec, github
  <2>4. inflight' \subseteq 1..n /\ inbox' \in Seq(1..n) /\ grant' \in {"fresh", "stale"} BY <1>1, <2>3
  <2>5. UNCHANGED <<scope, remote, worker, binding, head, built>> BY <1>2, <2>3
  <2> QED BY <1>2, <1>3, <2>2, <2>4, <2>5, QueueMoves
<1>10. CASE FreshUntilPasses
  <2>1. \A w \in Replicas : worker[w] \in Workers /\ Knows(scope.history, worker[w], n) BY Facts
  <2>2. worker' = [w \in Replicas |-> [worker[w] EXCEPT !.fresh = FALSE]] BY <1>10 DEF FreshUntilPasses
  <2>3. \A w \in Replicas : worker'[w] \in Workers /\ Knows(scope.history, worker'[w], n)
    BY <2>1, <2>2 DEF Workers, Knows
  <2>4. worker' \in [Replicas -> Workers] BY <2>2, <2>3
  <2>5. TypeOK' BY <1>2, <1>10, <2>4 DEF Inv, TypeOK, FreshUntilPasses, github
  <2>6. \A w \in Replicas : Knows(scope.history, worker[w], Len(remote))' BY <1>2, <2>3
  <2> QED BY <1>2, <2>5, <2>6 DEF Inv, Branch, Proven, BuildsBehind, Linear, HeadPlace
<1>11. CASE ProcessPushFails
  <2>1. inbox' \in Seq(1..n) BY <1>5, <1>11 DEF ProcessPushFails
  <2>2. UNCHANGED <<inflight, work, spec, worker, binding, grant>> BY <1>11 DEF ProcessPushFails
  <2>3. work' \in Seq(Happened(n)) /\ inflight' \subseteq 1..n /\ spec' \in Nat /\ grant' \in {"fresh", "stale"}
    BY <1>1, <2>2
  <2>4. UNCHANGED <<scope, remote, worker, binding, head, built>> BY <1>2, <2>2
  <2> QED BY <1>2, <1>3, <2>1, <2>3, <2>4, QueueMoves
<1>12. CASE GrantAges
  <2>1. UNCHANGED <<inflight, inbox, work, spec, worker, binding>> /\ grant' = "stale" BY <1>12 DEF GrantAges, github
  <2>2. work' \in Seq(Happened(n)) /\ inbox' \in Seq(1..n) /\ inflight' \subseteq 1..n /\ spec' \in Nat BY <1>1, <2>1
  <2>3. UNCHANGED <<scope, remote, worker, binding, head, built>> BY <1>2, <2>1
  <2> QED BY <1>2, <1>3, <2>1, <2>2, <2>3, QueueMoves
<1> QED BY <1>2, <1>3, <1>6, <1>7, <1>8, <1>9, <1>10, <1>11, <1>12

\* Every step keeps the invariant, and moves head and build onward.
LEMMA InvStep ==
  ASSUME Inv, [Next]_vars
  PROVE  Inv' /\ (Linear => HeadPlace' >= HeadPlace /\ built' >= built)
<1>1. built \in Nat /\ (Linear => HeadPlace \in Nat)
  BY HeadPlaceNat DEF Inv, TypeOK
<1>2. ASSUME NEW recreated \in BOOLEAN, Push(recreated) PROVE Inv' /\ (Linear => HeadPlace' >= HeadPlace /\ built' >= built)
  BY <1>1, <1>2, PushStep
<1>3. CASE \/ \E i \in DOMAIN remote : Receive(i) \/ Lose(i)
           \/ ProcessPushEvent \/ ProcessPushFails \/ \E enqueued, again \in BOOLEAN : Bootstrap(enqueued, again)
           \/ SaveSpec \/ FreshUntilPasses \/ GrantAges
  BY <1>1, <1>3, EnvironmentStep
<1>4. ASSUME NEW w \in Replicas, ProcessNext(w) \/ Abandon(w) \/ Expire(w)
      PROVE  Inv' /\ (Linear => HeadPlace' >= HeadPlace /\ built' >= built)
  <2>1. CASE ObserveSourceRevision(w) \/ QueueSourceBuild(w) BY <2>1, ObserveStep
  <2>2. CASE \/ HandleProviderAccessChanged(w) \/ SyncServiceSource(w) \/ HandleRevisionObserved(w)
             \/ GetBranchHead(w) \/ EnqueueResync(w)
    <3>1. UNCHANGED <<remote, head, built>>
      BY <2>2 DEF HandleProviderAccessChanged, SyncServiceSource, HandleRevisionObserved, GetBranchHead, EnqueueResync, github
    <3> QED BY <1>1, <2>2, <3>1, HandlerStep DEF HeadPlace
  <2>3. CASE Claim(w) \/ Complete(w) \/ Abandon(w) \/ Defer(w) \/ Expire(w)
    <3>1. UNCHANGED <<remote, head, built>> BY <2>3 DEF Claim, Complete, Abandon, Defer, Retry, Expire, github
    <3> QED BY <1>1, <2>3, <3>1, WorkStep DEF HeadPlace
  <2> QED BY <1>4, <2>1, <2>2, <2>3 DEF ProcessNext, Handle
<1>5. CASE UNCHANGED vars
  <2>1. UNCHANGED <<scope, remote, inflight, inbox, work, worker, binding, grant, head, spec, built>> BY <1>5 DEF vars
  <2>2. Inv' BY <2>1, QueueMoves DEF Inv, TypeOK
  <2> QED BY <1>1, <2>1, <2>2 DEF HeadPlace
<1> QED BY <1>2, <1>3, <1>4, <1>5 DEF Next

-----------------------------------------------------------------------------
\* The invariant holds throughout.
THEOREM Invariant == Spec => []Inv
<1>1. Inv /\ [Next]_vars => Inv' BY InvStep
<1> QED BY <1>1, InvInit, PTL DEF Spec

\* The pushes, workers and queued work have their types, and every push in the inbox or
\* in the queue is one of the branch.
THEOREM TypeCorrect == Spec => []TypeOK
<1>1. Inv => TypeOK BY DEF Inv
<1> QED BY <1>1, Invariant, PTL

\* On a branch that only moves to new commits neither head_commit_sha nor the requested
\* builds go back, however many reconcilers, late webhooks and slow fetches there are.
THEOREM HeadsNeverBack == Spec => HeadNeverBack
<1>1. Inv /\ [Next]_vars => [Linear => HeadPlace' >= HeadPlace /\ built' >= built]_vars BY InvStep
<1> QED BY <1>1, Invariant, PTL DEF Spec, HeadNeverBack
=============================================================================
