---------------------------- MODULE DurableWork ----------------------------
(***************************************************************************)
(* The durable work queue of the control plane                             *)
(* (internal/controlplane/durablework) and the workers that drain it       *)
(* (source/reconciler.go, billing/maintain.go).                            *)
(*                                                                         *)
(* The table durable_work_items has a unique deduplication key, so it is a *)
(* function from Keys to rows.  Every operation of the package is one      *)
(* statement or one serializable transaction, hence one action.  Time is   *)
(* abstracted to what the statements compare: whether a row's available_at *)
(* is still ahead (avail), whether its lease has lapsed (lease), and the    *)
(* order of the available_at column (older).                               *)
(*                                                                         *)
(* A claim handed to a worker stays in claims until a statement issued for *)
(* it lands or the worker is gone.  A worker that gave up on a statement   *)
(* (a cancelled context, a broken connection) may hold a newer claim while *)
(* the old statement is still on its way, so a claim is not removed by the *)
(* owner's next one.                                                       *)
(***************************************************************************)
EXTENDS Naturals, FiniteSets

CONSTANTS Keys,           \* deduplication keys
          Owners,         \* owner ids of the worker processes
          Kinds,          \* work kinds
          KindOf,         \* the kind of each key
          Serves,         \* the kinds each owner claims; {} is "every kind"
          Resources,      \* resources work is scoped to
          ResourceOf,     \* the resource of each key
          AttemptLimit,   \* attempt_limit of every record
          MaxClaimSweeps, \* maxClaimSweeps
          MaxEnqueues,    \* bound: accepted enqueues of one key
          NoRow, NoOwner

ASSUME LimitAssumption == AttemptLimit \in Nat \ {0}
ASSUME SweepAssumption == MaxClaimSweeps \in Nat \ {0}
ASSUME KindAssumption  == /\ KindOf \in [Keys -> Kinds]
                          /\ Serves \in [Owners -> SUBSET Kinds]
                          /\ ResourceOf \in [Keys -> Resources]

VARIABLES work,     \* the table: a row or NoRow for each key
          older,    \* <<j, k>>: j's available_at precedes k's
          claims,   \* claims some worker may still act on
          issued,   \* observability: every claim ever returned by Claim
          nextId,   \* the next uuid
          nextClaim,\* observability: serial of the next claim
          accepted, \* observability: accepted enqueues of each key
          settled   \* observability: terminal transitions of each key

vars == <<work, older, claims, issued, nextId, nextClaim, accepted, settled>>

Terminal == {"succeeded", "failed", "dead"}
Active   == {"pending", "leased"}
States   == Terminal \cup Active

Row == [id : Nat, state : States, owner : Owners \cup {NoOwner}, epoch : Nat,
        attempts : Nat, avail : {"due", "later"}, lease : {"none", "live", "expired"}]

ClaimRec == [key : Keys, id : Nat, owner : Owners, epoch : Nat, n : Nat]

ASSUME NullAssumption == NoOwner \notin Owners /\ NoRow \notin Row

Exists(k) == work[k] # NoRow

InState(k, S) == Exists(k) /\ work[k].state \in S

-----------------------------------------------------------------------------
Init == /\ work = [k \in Keys |-> NoRow]
        /\ older = {}
        /\ claims = {}
        /\ issued = {}
        /\ nextId = 0
        /\ nextClaim = 0
        /\ accepted = [k \in Keys |-> 0]
        /\ settled = [k \in Keys |-> 0]

\* k's available_at becomes "now": behind every row that is already due, ahead
\* of every row that waits.
Stamped(k) ==
  {p \in older : k \notin {p[1], p[2]}}
    \cup {<<j, k>> : j \in {j \in Keys \ {k} : InState(j, Active) /\ work[j].avail = "due"}}
    \cup {<<k, j>> : j \in {j \in Keys \ {k} : InState(j, Active) /\ work[j].avail = "later"}}

\* EnqueueTx: insert, or resurrect a terminal row.  Resurrection keeps the id and
\* the owner epoch.
FreshRow(k) == [id |-> nextId, state |-> "pending", owner |-> NoOwner, epoch |-> 0,
                attempts |-> 0, avail |-> "due", lease |-> "none"]

\* Defect: resurrection restarts the epoch.
ResurrectedEpochReset(k) == [work[k] EXCEPT !.state = "pending", !.attempts = 0, !.epoch = 0,
                                  !.owner = NoOwner, !.lease = "none", !.avail = "due"]

Resurrected(k) == [work[k] EXCEPT !.state = "pending", !.attempts = 0,
                                  !.owner = NoOwner, !.lease = "none", !.avail = "due"]

\* Defect: a leased row is taken back to pending by a repeated request.
AbsorbsPendingOnly(k) == InState(k, {"pending"})

\* The conflict clause of the insert: an active row absorbs the request.
Absorbs(k) == InState(k, Active)

EnqueueTx(k) ==
  /\ accepted[k] < MaxEnqueues
  /\ ~Absorbs(k)
  /\ work' = [work EXCEPT ![k] = IF Exists(k) THEN Resurrected(k) ELSE FreshRow(k)]
  /\ nextId' = IF Exists(k) THEN nextId ELSE nextId + 1
  /\ older' = Stamped(k)
  /\ accepted' = [accepted EXCEPT ![k] = @ + 1]
  /\ UNCHANGED <<claims, issued, nextClaim, settled>>

\* CancelPendingForResourceTx: the tombstone of a resource deletes its pending
\* rows; leased and terminal ones stay.
Cancelled(r) == {k \in Keys : ResourceOf[k] = r /\ InState(k, {"pending"})}

CancelPendingForResourceTx(r) ==
  /\ Cancelled(r) # {}
  /\ work' = [k \in Keys |-> IF k \in Cancelled(r) THEN NoRow ELSE work[k]]
  /\ settled' = [k \in Keys |-> IF k \in Cancelled(r) THEN settled[k] + 1 ELSE settled[k]]
  /\ UNCHANGED <<older, claims, issued, nextId, nextClaim, accepted>>

\* PruneTerminal removes any terminal rows: the cutoff is the caller's choice.
PruneTerminal(S) ==
  /\ S # {} /\ \A k \in S : InState(k, Terminal)
  /\ work' = [k \in Keys |-> IF k \in S THEN NoRow ELSE work[k]]
  /\ UNCHANGED <<older, claims, issued, nextId, nextClaim, accepted, settled>>

-----------------------------------------------------------------------------
\* Defect: lapsed leases are never taken over.
CandidatePendingOnly(k, o) ==
  /\ Serves[o] = {} \/ KindOf[k] \in Serves[o]
  /\ InState(k, {"pending"}) /\ work[k].avail = "due"

\* selectClaimCandidateTx: pending and due, or leased and lapsed, of a kind the
\* owner serves.
Candidate(k, o) ==
  /\ Serves[o] = {} \/ KindOf[k] \in Serves[o]
  /\ \/ InState(k, {"pending"}) /\ work[k].avail = "due"
     \/ InState(k, {"leased"}) /\ work[k].lease = "expired"

Exhausted(k) == work[k].attempts >= AttemptLimit

\* The candidates the sweep of one Claim meets before k, in available_at order.
Ahead(k, o) == {j \in Keys : Candidate(j, o) /\ <<j, k>> \in older}

\* The exhausted candidates one Claim dead-letters (markDeadExhaustedTx).
Swept(o) == {k \in Keys : /\ Candidate(k, o) /\ Exhausted(k)
                          /\ \A j \in Ahead(k, o) : Exhausted(j)
                          /\ Cardinality(Ahead(k, o)) < MaxClaimSweeps}

\* The candidate the sweep ends on.
Leasable(k, o) == /\ Candidate(k, o) /\ ~Exhausted(k)
                  /\ \A j \in Ahead(k, o) : Exhausted(j)
                  /\ Cardinality(Ahead(k, o)) < MaxClaimSweeps

Dead(k) == [work[k] EXCEPT !.state = "dead", !.lease = "none"]

\* leaseRecordTx
Leased(k, o) == [work[k] EXCEPT !.state = "leased", !.owner = o, !.epoch = @ + 1,
                                !.attempts = @ + 1, !.lease = "live"]

\* The record Claim returns (RETURNING), numbered.
Returned(k, o) == [key |-> k, id |-> work[k].id, owner |-> o,
                   epoch |-> Leased(k, o).epoch, n |-> nextClaim]

\* One Claim that leases k to o, after dead-lettering what it swept.
ClaimRecord(k, o) ==
  /\ Leasable(k, o)
  /\ work' = [j \in Keys |-> IF j = k THEN Leased(k, o)
                             ELSE IF j \in Swept(o) THEN Dead(j) ELSE work[j]]
  /\ settled' = [j \in Keys |-> IF j \in Swept(o) THEN settled[j] + 1 ELSE settled[j]]
  /\ claims' = claims \cup {Returned(k, o)}
  /\ issued' = issued \cup {Returned(k, o)}
  /\ nextClaim' = nextClaim + 1
  /\ UNCHANGED <<older, nextId, accepted>>

\* One Claim that only dead-letters.
ClaimNothing(o) ==
  /\ Swept(o) # {}
  /\ \A k \in Keys : ~Leasable(k, o)
  /\ work' = [j \in Keys |-> IF j \in Swept(o) THEN Dead(j) ELSE work[j]]
  /\ settled' = [j \in Keys |-> IF j \in Swept(o) THEN settled[j] + 1 ELSE settled[j]]
  /\ UNCHANGED <<older, claims, issued, nextId, nextClaim, accepted>>

ClaimWork(o) == ClaimNothing(o) \/ \E k \in Keys : ClaimRecord(k, o)

-----------------------------------------------------------------------------
\* The compare-and-swap of Heartbeat, Complete and Fail.  It does not look at
\* lease_expires_at: an owner whose lease lapsed still commits until a takeover.
Holds(c) == /\ InState(c.key, {"leased"})
            /\ work[c.key].id = c.id
            /\ work[c.key].owner = c.owner
            /\ work[c.key].epoch = c.epoch

Heartbeat(c) ==
  /\ Holds(c)
  /\ work' = [work EXCEPT ![c.key].lease = "live"]
  /\ UNCHANGED <<older, claims, issued, nextId, nextClaim, accepted, settled>>

Complete(c) ==
  /\ Holds(c)
  /\ work' = [work EXCEPT ![c.key].state = "succeeded", ![c.key].lease = "none"]
  /\ claims' = claims \ {c}
  /\ settled' = [settled EXCEPT ![c.key] = @ + 1]
  /\ UNCHANGED <<older, issued, nextId, nextClaim, accepted>>

\* Fail without a retry left or wanted: failed, or dead on the last attempt.
FailTerminal(c, retryable) ==
  /\ Holds(c)
  /\ ~retryable \/ Exhausted(c.key)
  /\ work' = [work EXCEPT ![c.key].state = IF retryable THEN "dead" ELSE "failed",
                          ![c.key].lease = "none"]
  /\ claims' = claims \ {c}
  /\ settled' = [settled EXCEPT ![c.key] = @ + 1]
  /\ UNCHANGED <<older, issued, nextId, nextClaim, accepted>>

\* Fail with attempts left: back to pending behind a jittered backoff, which may
\* put the row before or after any row that already waits.
FailRetry(c) ==
  LET k == c.key
      waiting == {j \in Keys \ {k} : InState(j, {"pending"}) /\ work[j].avail = "later"}
      due == {j \in Keys \ {k} : InState(j, Active)} \ waiting
  IN
  /\ Holds(c)
  /\ ~Exhausted(k)
  /\ work' = [work EXCEPT ![k].state = "pending", ![k].owner = NoOwner,
                          ![k].lease = "none", ![k].avail = "later"]
  /\ \E before \in SUBSET waiting :
       /\ \A i \in before, j \in waiting \ before : <<j, i>> \notin older
       /\ older' = {p \in older : k \notin {p[1], p[2]}}
                     \cup {<<j, k>> : j \in due \cup before}
                     \cup {<<k, j>> : j \in waiting \ before}
  /\ claims' = claims \ {c}
  /\ UNCHANGED <<issued, nextId, nextClaim, accepted, settled>>

\* ErrLeaseLost, a dead worker or an abandoned statement that never lands: the
\* claim is dropped and the row is left for its lease to lapse.
Drop(c) ==
  /\ claims' = claims \ {c}
  /\ UNCHANGED <<work, older, issued, nextId, nextClaim, accepted, settled>>

\* Time passes: the oldest waiting row becomes due; a lease lapses.
BecomeDue(k) ==
  /\ InState(k, {"pending"}) /\ work[k].avail = "later"
  /\ \A j \in Keys : InState(j, {"pending"}) /\ work[j].avail = "later" => <<j, k>> \notin older
  /\ work' = [work EXCEPT ![k].avail = "due"]
  /\ UNCHANGED <<older, claims, issued, nextId, nextClaim, accepted, settled>>

Lapse(k) ==
  /\ InState(k, {"leased"}) /\ work[k].lease = "live"
  /\ work' = [work EXCEPT ![k].lease = "expired"]
  /\ UNCHANGED <<older, claims, issued, nextId, nextClaim, accepted, settled>>

-----------------------------------------------------------------------------
Finish(c) == Complete(c) \/ FailRetry(c) \/ Drop(c)
               \/ \E retryable \in BOOLEAN : FailTerminal(c, retryable)

Next == \/ \E k \in Keys : EnqueueTx(k) \/ BecomeDue(k) \/ Lapse(k)
        \/ \E r \in Resources : CancelPendingForResourceTx(r)
        \/ \E S \in SUBSET Keys : PruneTerminal(S)
        \/ \E o \in Owners : ClaimWork(o)
        \/ \E c \in claims : Heartbeat(c)
        \/ \E c \in claims : Finish(c)

Spec == Init /\ [][Next]_vars

\* Time passes, every worker keeps polling (the wakeup channel is best effort,
\* the poll is not), and no handler runs forever: it finishes or its worker dies.
Fairness == /\ \A k \in Keys : WF_vars(BecomeDue(k)) /\ WF_vars(Lapse(k))
            /\ \A o \in Owners : WF_vars(ClaimWork(o))
            /\ WF_vars(\E c \in claims : Finish(c))

FairSpec == Spec /\ Fairness

-----------------------------------------------------------------------------
\* Types, and the nullability of the lease columns: lease_expires_at is set and
\* the owner named exactly as the state says.
WellFormed(k) ==
  Exists(k) => /\ work[k].lease # "none" <=> work[k].state = "leased"
               /\ work[k].state = "leased" => work[k].owner # NoOwner
               /\ work[k].avail = "later" => work[k].state = "pending"

TypeOK == /\ work \in [Keys -> Row \cup {NoRow}]
          /\ \A k \in Keys : WellFormed(k)
          /\ older \subseteq Keys \X Keys
          /\ claims \subseteq issued
          /\ issued \subseteq ClaimRec
          /\ nextId \in Nat
          /\ nextClaim \in Nat
          /\ accepted \in [Keys -> Nat]
          /\ settled \in [Keys -> Nat]

\* "A stalled owner cannot commit after takeover; the (owner, epoch) pair is the
\* fence" (durablework/doc.go): of all the claims still in some worker's hands,
\* abandoned statements of the same owner included, at most one can commit.
OneCommitter == \A c, d \in claims : c.key = d.key /\ Holds(c) /\ Holds(d) => c = d

\* Every accepted enqueue is settled exactly once: by a worker, by the sweep of
\* a Claim or by the deletion of its resource.
SettledOnce ==
  \A k \in Keys : accepted[k] = settled[k] + (IF InState(k, Active) THEN 1 ELSE 0)

\* The attempt budget holds across takeovers, and a row that waits for a worker
\* always has an attempt left, so only lapsed leases are ever dead-lettered by a
\* sweep.
AttemptBudget ==
  \A k \in Keys : /\ Exists(k) => work[k].attempts <= AttemptLimit
                  /\ InState(k, {"pending"}) => work[k].attempts < AttemptLimit

\* A leased row always belongs to a claim that was really handed out: the row's
\* (id, owner, epoch) is one some worker got from Claim.
LeaseHasClaim ==
  \A k \in Keys : InState(k, {"leased"}) =>
    \E c \in issued : c.key = k /\ Holds(c)

KeepsLive ==
  \A c \in claims : Holds(c) /\ work[c.key].lease = "live" /\ c \in claims' => Holds(c)'

\* An owner whose lease has not lapsed cannot lose it: no step of another worker,
\* of an enqueue or of a deletion takes the row from under a claim that is live
\* ("Leased records are left alone: deleting one would strand its owner").
LeaseKept == [][KeepsLive]_vars

\* Accepted work is settled in the end, even when every worker that claims it
\* dies: "a record whose workers keep dying still converges to dead".
Converges == \A k \in Keys : InState(k, Active) ~> ~InState(k, Active)
=============================================================================
