------------------------- MODULE ControlPlaneLease -------------------------
(***************************************************************************)
(* The singleton lease of the control plane (internal/controlplane/lease.go)*)
(* and what it fences: the singleton job of the replica that holds it      *)
(* (server.go, delivery/live.go), the product transactions of that job     *)
(* (database.go) and the guarded publication of ingress state.             *)
(*                                                                         *)
(* expires_at is abstracted to whether it is ahead of statement_timestamp; *)
(* Lapse is the passing of time.  A replica is a process: a restart draws  *)
(* a new holder id, so it is another member of Replicas.                   *)
(***************************************************************************)
EXTENDS Naturals

CONSTANTS Replicas,  \* holder ids
          NoHolder,
          MaxToken,  \* bound: the lease is not disturbed past this token
          MaxHead    \* bound: length of the journal

ASSUME HolderAssumption == NoHolder \notin Replicas
ASSUME BoundAssumption  == MaxToken \in Nat \ {0} /\ MaxHead \in Nat

VARIABLES row,     \* control_plane_leases: holder, fencing token, expiry
          local,   \* each replica: the loop of Run, its claim, its job
          pubs,    \* guarded publications under way, see Publication
          txs,     \* open product transactions: claim and journal head read
          head,    \* cluster_journal_heads.log_index
          writes,  \* observability: the token that authorised each entry
          late     \* release statements whose client gave up

vars == <<row, local, pubs, txs, head, writes, late>>

Idle == [pc |-> "acquiring", token |-> 0, ctx |-> "cancelled", job |-> "none",
         resigning |-> "no", exit |-> "no", serving |-> "off", publishing |-> "off"]

Local == [pc : {"acquiring", "held", "ending", "released", "stopped"}, token : Nat,
          ctx : {"ok", "cancelled"}, job : {"none", "starting", "live", "done", "failed"},
          resigning : {"no", "yes"}, exit : {"no", "yes"},
          serving : {"on", "off"}, publishing : {"on", "off"}]

Claim == [holder : Replicas, token : Nat]

\* A call of withLeaseGuard: "wanting" before its row lock, "locked" while fn runs under FOR
\* SHARE, "adrift" while fn runs after its transaction was rolled back.  ctx is the lease
\* context the call derives from.
Publication == [holder : Replicas, token : Nat, ctx : {"ok", "cancelled"},
                at : {"wanting", "locked", "adrift"}]

-----------------------------------------------------------------------------
\* A missing row is an expired one with token 0: the insert gives token 1.
Init == /\ row = [holder |-> NoHolder, token |-> 0, lease |-> "expired"]
        /\ local = [r \in Replicas |-> Idle]
        /\ pubs = {} /\ txs = {} /\ late = {}
        /\ head = 0 /\ writes = {}

ClaimOf(r) == [holder |-> r, token |-> local[r].token]

Names(c) == row.holder = c.holder /\ row.token = c.token

\* checkLeaseTx and the guard of renew.
Valid(c) == Names(c) /\ row.lease = "live"

\* The CASE of the upsert: a live lease of the same holder keeps its token.
NextToken(r) == IF row.holder = r /\ row.lease = "live" THEN row.token ELSE row.token + 1

\* Defect: only the holder the row names may acquire it again.
AcquirableOwn(r) == row.holder = r \/ row.holder = NoHolder

\* The WHERE of the upsert.
Acquirable(r) == row.holder = r \/ row.lease = "expired"

\* FOR SHARE locks of guarded publications block every UPDATE of the row.
Unlocked == \A p \in pubs : p.at # "locked"

\* The end of a lease context ends the contexts of the publications derived from it.
CancelPubs(r) == {IF p.holder = r THEN [p EXCEPT !.ctx = "cancelled"] ELSE p : p \in pubs}

\* acquire, and the head of hold when the replica learns of the outcome; a commit
\* whose answer is lost leaves the replica in acquireUntil.
Acquire(r, known) ==
  /\ local[r].pc = "acquiring"
  /\ Acquirable(r) /\ Unlocked
  /\ row' = [holder |-> r, token |-> NextToken(r), lease |-> "live"]
  /\ local' = IF known
              THEN [local EXCEPT ![r] = [Idle EXCEPT !.pc = "held", !.token = NextToken(r),
                                                     !.ctx = "ok", !.job = "starting"]]
              ELSE local
  /\ UNCHANGED <<pubs, txs, head, writes, late>>

\* The renewal goroutine: onFenced, onUnfenced and cancel, onUnfenced.
RenewHeld(r) ==
  /\ local[r].pc = "held" /\ local[r].ctx = "ok"
  /\ Valid(ClaimOf(r)) /\ Unlocked
  /\ local' = [local EXCEPT ![r].publishing = local[r].serving]
  /\ UNCHANGED <<row, pubs, txs, head, writes, late>>

RenewLost(r) ==
  /\ local[r].pc = "held" /\ local[r].ctx = "ok"
  /\ ~Valid(ClaimOf(r))
  /\ local' = [local EXCEPT ![r].publishing = "off", ![r].ctx = "cancelled"]
  /\ pubs' = CancelPubs(r)
  /\ UNCHANGED <<row, txs, head, writes, late>>

RenewError(r) ==
  /\ local[r].pc = "held" /\ local[r].ctx = "ok"
  /\ local' = [local EXCEPT ![r].publishing = "off"]
  /\ UNCHANGED <<row, pubs, txs, head, writes, late>>

-----------------------------------------------------------------------------
\* runSingletonJobs: BecomeLive reads the product state and then serves, whatever
\* happened to the lease in between; the job ends with ResignLive.
Become(r) ==
  /\ local[r].job = "starting"
  /\ local' = [local EXCEPT ![r].job = "live", ![r].serving = "on", ![r].publishing = "on"]
  /\ UNCHANGED <<row, pubs, txs, head, writes, late>>

\* A loop of the job returned (with an error or without), or its context ended.
JobEnds(r, result) ==
  /\ local[r].job \in {"starting", "live"}
  /\ local[r].ctx = "ok" => row.token < MaxToken
  /\ local' = [local EXCEPT ![r].job = result, ![r].serving = "off", ![r].publishing = "off"]
  /\ UNCHANGED <<row, pubs, txs, head, writes, late>>

\* The release closure up to its statement: Run saw the process stop, the job's
\* result or the end of the lease context.
Resign(r, exit) ==
  /\ local[r].pc = "held"
  /\ local' = [local EXCEPT ![r].pc = "ending", ![r].resigning = "yes",
                            ![r].ctx = "cancelled", ![r].exit = exit]
  /\ pubs' = CancelPubs(r)
  /\ UNCHANGED <<row, txs, head, writes, late>>

ResignShutdown(r) == row.token < MaxToken /\ Resign(r, "yes")

ResignJobDone(r) == local[r].job \in {"done", "failed"}
                      /\ Resign(r, IF local[r].job = "failed" THEN "yes" ELSE "no")

ResignLeaseLost(r) == local[r].ctx = "cancelled" /\ Resign(r, "no")

\* Lookup at its own replica: requireLiveOwner lets agents and clients in.
LookupHeld(r) == /\ row.holder = r /\ row.lease = "live"
                 /\ local[r].pc # "stopped" /\ local[r].resigning = "no"

\* The row after the statement of release.
Released(c) == IF Names(c) THEN [row EXCEPT !.lease = "expired"] ELSE row

\* release runs before Run waits for the job to finish.
Release(r) ==
  /\ local[r].pc = "ending" /\ Unlocked
  /\ row' = Released(ClaimOf(r))
  /\ local' = [local EXCEPT ![r].pc = "released"]
  /\ UNCHANGED <<pubs, txs, head, writes, late>>

\* release timed out: the error is ignored and the statement may land later.
ReleaseTimedOut(r) ==
  /\ local[r].pc = "ending"
  /\ late' = late \cup {ClaimOf(r)}
  /\ local' = [local EXCEPT ![r].pc = "released"]
  /\ UNCHANGED <<row, pubs, txs, head, writes>>

LateRelease(c) ==
  /\ Unlocked
  /\ Names(c) => row.token < MaxToken
  /\ row' = Released(c)
  /\ late' = late \ {c}
  /\ UNCHANGED <<local, pubs, txs, head, writes>>

\* Run loops, or returns, once the job is done.
RunLoops(r) ==
  /\ local[r].pc = "released" /\ local[r].job \in {"done", "failed"}
  /\ local' = [local EXCEPT ![r] = [local[r] EXCEPT
                 !.pc = IF local[r].exit = "yes" THEN "stopped" ELSE "acquiring",
                 !.token = 0, !.job = "none"]]
  /\ UNCHANGED <<row, pubs, txs, head, writes, late>>

\* The process dies: its database session ends and with it its locks.  A commit
\* on its way may still land.
Crash(r) ==
  /\ local[r].pc # "stopped"
  /\ local' = [local EXCEPT ![r] = [Idle EXCEPT !.pc = "stopped"]]
  /\ pubs' = {p \in pubs : p.holder # r}
  /\ UNCHANGED <<row, txs, head, writes, late>>

\* Time passes.
Lapse ==
  /\ row.lease = "live" /\ row.token < MaxToken
  /\ row' = [row EXCEPT !.lease = "expired"]
  /\ UNCHANGED <<local, pubs, txs, head, writes, late>>

-----------------------------------------------------------------------------
\* Sync has the publisher's pushMu; PublicationContext is the claim of the context the replica
\* became live with.
PublicationContext(r) ==
  /\ \A p \in pubs : p.holder # r
  /\ local[r].serving = "on" /\ local[r].publishing = "on" /\ local[r].ctx = "ok"
  /\ pubs' = pubs \cup {[holder |-> r, token |-> local[r].token, ctx |-> "ok", at |-> "wanting"]}
  /\ UNCHANGED <<row, local, txs, head, writes, late>>

Moves(p, at) == pubs' = (pubs \ {p}) \cup {[p EXCEPT !.at = at]}

\* Defect: the guard checks the lease without FOR SHARE.
GuardLockPlain(p) ==
  /\ p.at = "wanting" /\ p.ctx = "ok" /\ Valid(p)
  /\ Moves(p, "adrift")
  /\ UNCHANGED <<row, local, txs, head, writes, late>>

\* withLeaseGuard begins its transaction on the lease context, locks and checks the row.
GuardLock(p) ==
  /\ p.at = "wanting" /\ p.ctx = "ok" /\ Valid(p)
  /\ Moves(p, "locked")
  /\ UNCHANGED <<row, local, txs, head, writes, late>>

GuardLost(p) ==
  /\ p.at = "wanting" /\ (p.ctx = "cancelled" \/ ~Valid(p))
  /\ pubs' = pubs \ {p}
  /\ UNCHANGED <<row, local, txs, head, writes, late>>

\* The context of the guard's transaction ended: database/sql rolls it back, and the row lock
\* goes, while fn still runs.
GuardRolledBack(p) ==
  /\ p.at = "locked" /\ p.ctx = "cancelled"
  /\ Moves(p, "adrift")
  /\ UNCHANGED <<row, local, txs, head, writes, late>>

\* fn returns and the transaction commits or rolls back.
GuardDone(p) ==
  /\ p.at # "wanting"
  /\ pubs' = pubs \ {p}
  /\ UNCHANGED <<row, local, txs, head, writes, late>>

-----------------------------------------------------------------------------
\* withProductTx under the lease context: head and lease row come from one
\* snapshot.
ProductBegin(r) ==
  /\ local[r].ctx = "ok" /\ Valid(ClaimOf(r)) /\ head < MaxHead
  /\ txs' = txs \cup {[holder |-> r, token |-> local[r].token, base |-> head]}
  /\ UNCHANGED <<row, local, pubs, head, writes, late>>

\* Defect: the append does not compare the head it planned against.
HeadUnmovedUnchecked(x) == TRUE

\* The locked re-read of the head.
HeadUnmoved(x) == x.base = head

ProductCommit(x) ==
  /\ HeadUnmoved(x)
  /\ head' = head + 1
  /\ writes' = writes \cup {[at |-> head + 1, token |-> x.token]}
  /\ txs' = txs \ {x}
  /\ UNCHANGED <<row, local, pubs, late>>

ProductAbort(x) ==
  /\ txs' = txs \ {x}
  /\ UNCHANGED <<row, local, pubs, head, writes, late>>

\* A request handler of any replica: its context carries no claim.
UnleasedWrite ==
  /\ head < MaxHead
  /\ head' = head + 1
  /\ UNCHANGED <<row, local, pubs, txs, writes, late>>

-----------------------------------------------------------------------------
Renew(r) == RenewHeld(r) \/ RenewLost(r) \/ RenewError(r)

EndHold(r) == ResignJobDone(r) \/ ResignLeaseLost(r)

Lease(r) == \/ \E known \in BOOLEAN : Acquire(r, known)
            \/ Renew(r)
            \/ Become(r)
            \/ \E result \in {"done", "failed"} : JobEnds(r, result)
            \/ ResignShutdown(r)
            \/ EndHold(r)
            \/ Release(r)
            \/ ReleaseTimedOut(r)
            \/ RunLoops(r)
            \/ Crash(r)

Publish == \/ \E r \in Replicas : PublicationContext(r)
           \/ \E p \in pubs : GuardLock(p)
           \/ \E p \in pubs : GuardLost(p)
           \/ \E p \in pubs : GuardRolledBack(p)
           \/ \E p \in pubs : GuardDone(p)

Product == \/ \E r \in Replicas : ProductBegin(r)
           \/ \E x \in txs : ProductCommit(x)
           \/ \E x \in txs : ProductAbort(x)
           \/ UnleasedWrite

Next == \/ \E r \in Replicas : Lease(r)
        \/ \E c \in late : LateRelease(c)
        \/ Lapse
        \/ Publish
        \/ Product

Spec == Init /\ [][Next]_vars

\* Every replica keeps retrying its acquire, the renewal ticker keeps ticking, a
\* job whose context ended returns, Run finishes what it began, and the work a
\* guard protects is finite.
Fairness ==
  /\ \A r \in Replicas :
       /\ WF_vars(\E known \in BOOLEAN : Acquire(r, known))
       /\ WF_vars(RenewLost(r))
       /\ WF_vars(local[r].ctx = "cancelled" /\ JobEnds(r, "done"))
       /\ WF_vars(EndHold(r))
       /\ WF_vars(Release(r) \/ ReleaseTimedOut(r))
       /\ WF_vars(RunLoops(r))
  /\ WF_vars(\E p \in pubs : GuardDone(p))

FairSpec == Spec /\ Fairness

-----------------------------------------------------------------------------
Quiet(l) == /\ l.pc # "held" => l.ctx = "cancelled"
            /\ l.job # "live" => l.serving = "off" /\ l.publishing = "off"
            /\ l.pc \in {"acquiring", "stopped"} => l.token = 0 /\ l.job = "none"

\* Types; and a replica is quiet outside its hold: no job, no lease context, and
\* neither serving nor publishing when its job is over (ResignLive).
TypeOK == /\ row \in [holder : Replicas \cup {NoHolder}, token : Nat, lease : {"live", "expired"}]
          /\ local \in [Replicas -> Local]
          /\ \A r \in Replicas : Quiet(local[r])
          /\ pubs \subseteq Publication /\ late \subseteq Claim
          /\ txs \subseteq [holder : Replicas, token : Nat, base : Nat]
          /\ head \in Nat
          /\ writes \subseteq [at : Nat, token : Nat]

\* "Use a shared lock to fence takeover" (lockLeaseTx): while a guarded publication runs and
\* its lease context lives, its claim is the one the row names, although the lease may have
\* lapsed long ago: whatever it sends, it sends before any successor's.  When the replica itself
\* ends the context (a lost renewal, a release), the rollback of the guard's transaction frees
\* the row before fn has returned, and fn may finish beside the successor.
PublicationFenced == \A p \in pubs : p.at # "wanting" /\ p.ctx = "ok" => Names(p)

\* "Serializable isolation fences product writes" (assertLeaseTx): in journal
\* order, a replica's write never follows one that a later claim authorised,
\* although a transaction may check the lease long before it commits.
WritesFenced == \A w, v \in writes : w.at < v.at => w.token <= v.token

\* A replica that lets agents in while its job serves is in the hold the row
\* names: a hold that ended, even one whose release never reached the row, is
\* not taken for the current one.
OwnerIsCurrent ==
  \A r \in Replicas : LookupHeld(r) /\ local[r].serving = "on" =>
                        local[r].pc = "held" /\ Names(ClaimOf(r))

\* A fencing token names one replica: no two replicas hold claims with one token.
TokenNamesHolder ==
  \A r, s \in Replicas : local[r].token = local[s].token /\ local[r].token # 0 => r = s

\* A lapsed or released lease is acquired again, unless every replica is gone:
\* replicas that lost the lease while their job ran come back for it.
VacancyFilled ==
  row.lease = "expired" ~> (row.lease = "live" \/ \A r \in Replicas : local[r].pc = "stopped")
=============================================================================
