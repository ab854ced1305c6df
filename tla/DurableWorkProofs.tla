------------------------- MODULE DurableWorkProofs -------------------------
(***************************************************************************)
(* The safety of the durable work queue for any number of keys, owners,    *)
(* attempts and enqueues.                                                  *)
(***************************************************************************)
EXTENDS DurableWork, TLAPS

\* What makes the (owner, epoch) fence sound: ids are never reused, an id's
\* epochs only grow, and a claim is determined by its id and epoch.
Tickets ==
  /\ \A k \in Keys : Exists(k) => work[k].id < nextId
  /\ \A c \in issued : c.id < nextId
  /\ \A c \in issued : Exists(c.key) /\ work[c.key].id = c.id => c.epoch <= work[c.key].epoch
  /\ \A c, d \in issued : c.key = d.key /\ c.id = d.id /\ c.epoch = d.epoch => c = d

IInv == TypeOK /\ Tickets

\* The table is empty at the start.
LEMMA TypeCorrectInit == Init => TypeOK
  BY DEF Init, TypeOK, WellFormed, Exists

\* What a step that rewrites a row has to show for it.
RowOK(r) == /\ r \in Row
            /\ r.lease # "none" <=> r.state = "leased"
            /\ r.state = "leased" => r.owner # NoOwner
            /\ r.avail = "later" => r.state = "pending"

\* Rows that are deleted, kept or rewritten well leave a well-formed table.
LEMMA RowsTyped ==
  ASSUME TypeOK, work' \in [Keys -> Row \cup {NoRow}],
         \A j \in Keys : work'[j] = NoRow \/ work'[j] = work[j] \/ RowOK(work'[j])
  PROVE  \A j \in Keys : WellFormed(j)'
  BY DEF TypeOK, WellFormed, Exists, RowOK

\* What the type invariant says of one row.
LEMMA RowTyped == ASSUME TypeOK, NEW k \in Keys, Exists(k) PROVE RowOK(work[k])
  BY DEF TypeOK, WellFormed, Exists, RowOK

\* markDeadExhaustedTx writes a well-formed row.
LEMMA DeadTyped == ASSUME TypeOK, NEW o \in Owners, NEW j \in Swept(o) PROVE RowOK(Dead(j))
<1>1. j \in Keys /\ RowOK(work[j]) /\ work[j].avail = "due"
  BY RowTyped DEF Swept, Candidate, InState, RowOK, Row
<1> QED BY <1>1 DEF Dead, RowOK, Row, States, Terminal

\* Claim writes a well-formed row and returns a well-formed claim.
LEMMA LeasedTyped ==
  ASSUME TypeOK, NEW o \in Owners, NEW k \in Keys, Leasable(k, o)
  PROVE  RowOK(Leased(k, o)) /\ Returned(k, o) \in ClaimRec
<1>1. RowOK(work[k]) /\ work[k].avail = "due"
  BY RowTyped DEF Leasable, Candidate, InState, RowOK, Row
<1>2. work[k].epoch + 1 \in Nat /\ work[k].attempts + 1 \in Nat
  BY <1>1 DEF RowOK, Row
<1>3. RowOK(Leased(k, o))
  BY <1>1, <1>2, NullAssumption DEF Leased, RowOK, Row, States, Active
<1> QED BY <1>1, <1>3 DEF Returned, ClaimRec, RowOK, Row, TypeOK

\* EnqueueTx inserts or resurrects a well-formed row.
LEMMA EnqueuedTyped ==
  ASSUME TypeOK, NEW k \in Keys
  PROVE  RowOK(FreshRow(k)) /\ (Exists(k) => RowOK(Resurrected(k)))
<1>1. RowOK(FreshRow(k))
  BY DEF FreshRow, RowOK, Row, States, Active, TypeOK
<1>2. Exists(k) => RowOK(Resurrected(k))
  BY RowTyped DEF Resurrected, RowOK, Row, States, Active
<1> QED BY <1>1, <1>2

\* No statement of the package leaves the types.
LEMMA TypeCorrectStep == TypeOK /\ [Next]_vars => TypeOK'
<1> SUFFICES ASSUME TypeOK, [Next]_vars PROVE TypeOK'
    OBVIOUS
<1>1. ASSUME NEW k \in Keys, EnqueueTx(k) PROVE TypeOK'
  <2>3. Stamped(k) \subseteq Keys \X Keys
    BY DEF Stamped, TypeOK
  <2>4. /\ RowOK(work'[k])
        /\ \A j \in Keys \ {k} : work'[j] = work[j]
        /\ work' \in [Keys -> Row \cup {NoRow}]
    BY <1>1, EnqueuedTyped DEF EnqueueTx, Absorbs, TypeOK, RowOK
  <2> QED BY <1>1, <2>3, <2>4, RowsTyped DEF EnqueueTx, Absorbs, TypeOK
<1>2. ASSUME NEW k \in Keys, BecomeDue(k) \/ Lapse(k) PROVE TypeOK'
  <2>1. RowOK(work[k]) /\ work[k].state \in Active
    BY <1>2, RowTyped DEF BecomeDue, Lapse, InState, Active
  <2>2. RowOK(work'[k])
    BY <1>2, <2>1 DEF BecomeDue, Lapse, InState, TypeOK, RowOK, Row
  <2>3. work' \in [Keys -> Row \cup {NoRow}] /\ \A j \in Keys \ {k} : work'[j] = work[j]
    BY <1>2, <2>1, <2>2 DEF BecomeDue, Lapse, TypeOK, RowOK, Row
  <2> QED BY <1>2, <2>2, <2>3, RowsTyped DEF BecomeDue, Lapse, TypeOK
<1>3. ASSUME NEW r \in Resources, CancelPendingForResourceTx(r) PROVE TypeOK'
  BY <1>3, RowsTyped DEF CancelPendingForResourceTx, TypeOK
<1>4. ASSUME NEW S \in SUBSET Keys, PruneTerminal(S) PROVE TypeOK'
  BY <1>4, RowsTyped DEF PruneTerminal, TypeOK
<1>5. ASSUME NEW o \in Owners, ClaimNothing(o) PROVE TypeOK'
  <2>1. \A j \in Swept(o) : RowOK(Dead(j))
    BY DeadTyped
  <2>2. /\ work' \in [Keys -> Row \cup {NoRow}]
        /\ \A j \in Keys : work'[j] = work[j] \/ RowOK(work'[j])
    BY <1>5, <2>1 DEF ClaimNothing, TypeOK, RowOK
  <2> QED BY <1>5, <2>2, RowsTyped DEF ClaimNothing, TypeOK
<1>6. ASSUME NEW o \in Owners, NEW k \in Keys, ClaimRecord(k, o) PROVE TypeOK'
  <2>1. \A j \in Swept(o) : RowOK(Dead(j))
    BY DeadTyped
  <2>2. RowOK(Leased(k, o)) /\ Returned(k, o) \in ClaimRec
    BY <1>6, LeasedTyped DEF ClaimRecord
  <2>3. /\ work' \in [Keys -> Row \cup {NoRow}]
        /\ \A j \in Keys : work'[j] = work[j] \/ RowOK(work'[j])
    BY <1>6, <2>1, <2>2 DEF ClaimRecord, TypeOK, RowOK
  <2>4. \A j \in Keys : WellFormed(j)'
    BY <2>3, RowsTyped
  <2> QED BY <1>6, <2>2, <2>3, <2>4 DEF ClaimRecord, TypeOK
<1>7. ASSUME NEW c \in claims, Heartbeat(c) \/ Finish(c) PROVE TypeOK'
  <2>0. c.key \in Keys
    BY DEF TypeOK, ClaimRec
  <2>1. Holds(c) => /\ RowOK(work[c.key]) /\ work[c.key].state = "leased"
                    /\ work[c.key].avail = "due"
    BY <2>0, RowTyped DEF Holds, InState, RowOK, Row
  <2>2. CASE Heartbeat(c)
    <3>1. RowOK(work'[c.key]) /\ work' \in [Keys -> Row \cup {NoRow}]
      BY <2>0, <2>1, <2>2 DEF Heartbeat, TypeOK, RowOK, Row
    <3> QED BY <2>0, <2>2, <3>1, RowsTyped DEF Heartbeat, TypeOK
  <2>3. CASE Complete(c)
    <3>1. RowOK(work'[c.key]) /\ work' \in [Keys -> Row \cup {NoRow}]
      BY <2>0, <2>1, <2>3 DEF Complete, TypeOK, RowOK, Row, States, Terminal
    <3>2. \A j \in Keys : WellFormed(j)'
      BY <2>0, <2>3, <3>1, RowsTyped DEF Complete, TypeOK
    <3> QED BY <2>0, <2>3, <3>1, <3>2 DEF Complete, TypeOK
  <2>4. CASE FailRetry(c)
    <3>1. RowOK(work'[c.key]) /\ work' \in [Keys -> Row \cup {NoRow}]
      BY <2>0, <2>1, <2>4 DEF FailRetry, TypeOK, RowOK, Row, States, Active
    <3>2. \A j \in Keys : WellFormed(j)'
      BY <2>0, <2>4, <3>1, RowsTyped DEF FailRetry, TypeOK
    <3> QED BY <2>0, <2>4, <3>1, <3>2 DEF FailRetry, TypeOK
  <2>5. CASE Drop(c)
    BY <2>5, RowsTyped DEF Drop, TypeOK
  <2>6. ASSUME NEW r \in BOOLEAN, FailTerminal(c, r) PROVE TypeOK'
    <3>1. RowOK(work'[c.key]) /\ work' \in [Keys -> Row \cup {NoRow}]
      BY <2>0, <2>1, <2>6 DEF FailTerminal, TypeOK, RowOK, Row, States, Terminal
    <3>2. \A j \in Keys : WellFormed(j)'
      BY <2>0, <2>6, <3>1, RowsTyped DEF FailTerminal, TypeOK
    <3> QED BY <2>0, <2>6, <3>1, <3>2 DEF FailTerminal, TypeOK
  <2> QED BY <1>7, <2>2, <2>3, <2>4, <2>5, <2>6 DEF Finish
<1>8. CASE UNCHANGED vars
  BY <1>8, RowsTyped DEF vars, TypeOK
<1> QED BY <1>1, <1>2, <1>3, <1>4, <1>5, <1>6, <1>7, <1>8 DEF Next, ClaimWork

\* No statement reuses an id or hands an epoch out twice.
LEMMA TicketsStep == TypeOK /\ Tickets /\ [Next]_vars => Tickets'
<1> SUFFICES ASSUME TypeOK, Tickets, [Next]_vars PROVE Tickets'
    OBVIOUS
<1>0. TypeOK'
  BY TypeCorrectStep
<1>1. ASSUME NEW k \in Keys, EnqueueTx(k) PROVE Tickets'
  <2>1. CASE Exists(k)
    BY <1>1, <2>1 DEF EnqueueTx, Absorbs, Resurrected, Exists, Tickets, TypeOK, Row, ClaimRec
  <2>2. CASE ~Exists(k)
    <3>1. /\ nextId' = nextId + 1 /\ issued' = issued
          /\ work' = [work EXCEPT ![k] = FreshRow(k)]
      BY <1>1, <2>2 DEF EnqueueTx
    <3>2. \A j \in Keys \ {k} : work'[j] = work[j]
      BY <3>1 DEF TypeOK
    <3>3. work'[k].id = nextId /\ work'[k].epoch = 0
      BY <3>1 DEF TypeOK, FreshRow
    <3> QED BY <3>1, <3>2, <3>3 DEF Tickets, TypeOK, Exists, Row, ClaimRec
  <2> QED BY <2>1, <2>2
\* A step that leaves issued and nextId alone, and keeps the id and the epoch of
\* every row it does not delete.
<1>2. ASSUME UNCHANGED <<issued, nextId>>,
             \A j \in Keys : work'[j] # NoRow =>
                work[j] # NoRow /\ work'[j].id = work[j].id /\ work'[j].epoch = work[j].epoch
      PROVE  Tickets'
  BY <1>2 DEF Tickets, TypeOK, Exists, ClaimRec
<1>3. ASSUME NEW k \in Keys, BecomeDue(k) \/ Lapse(k) PROVE Tickets'
  BY <1>2, <1>3 DEF BecomeDue, Lapse, InState, Exists, TypeOK, Row
<1>4. ASSUME NEW r \in Resources, CancelPendingForResourceTx(r) PROVE Tickets'
  BY <1>2, <1>4 DEF CancelPendingForResourceTx, TypeOK
<1>5. ASSUME NEW S \in SUBSET Keys, PruneTerminal(S) PROVE Tickets'
  BY <1>2, <1>5 DEF PruneTerminal, TypeOK
<1>6. ASSUME NEW o \in Owners, ClaimNothing(o) PROVE Tickets'
  BY <1>2, <1>6 DEF ClaimNothing, Swept, Candidate, InState, Exists, Dead, TypeOK, Row
<1>7. ASSUME NEW o \in Owners, NEW k \in Keys, ClaimRecord(k, o) PROVE Tickets'
  <2> DEFINE c == Returned(k, o)
  <2>1. work[k] \in Row /\ work[k] # NoRow
    BY <1>7 DEF ClaimRecord, Leasable, Candidate, InState, Exists, TypeOK
  <2>2. work'[k] = Leased(k, o)
    BY <1>7 DEF ClaimRecord
  <2>3. work'[k].id = work[k].id /\ work'[k].epoch = work[k].epoch + 1
    BY <2>1, <2>2 DEF Leased, Row
  <2>4. \A j \in Keys \ {k} : work'[j] # NoRow =>
          work[j] # NoRow /\ work'[j].id = work[j].id /\ work'[j].epoch = work[j].epoch
    BY <1>7 DEF ClaimRecord, Swept, Candidate, InState, Exists, Dead, TypeOK, Row
  <2>5. issued' = issued \cup {c} /\ nextId' = nextId
    BY <1>7 DEF ClaimRecord
  <2>6. /\ c.key = k /\ c.id = work[k].id /\ c.epoch = work[k].epoch + 1
        /\ work[k].id \in Nat /\ work[k].epoch \in Nat
    BY <2>1 DEF Returned, Leased, Row
  <2> HIDE DEF c
  <2>7. \A d \in issued : d.key = k /\ d.id = c.id => d.epoch < c.epoch
    BY <2>1, <2>6 DEF Tickets, Exists, TypeOK, ClaimRec
  <2>8. \A d \in issued' : d.id < nextId'
    BY <2>1, <2>5, <2>6 DEF Tickets, Exists
  <2>9. \A j \in Keys : Exists(j)' => work'[j].id < nextId'
    BY <2>1, <2>3, <2>4, <2>5 DEF Tickets, Exists
  <2>10. \A d \in issued' : Exists(d.key)' /\ work'[d.key].id = d.id => d.epoch <= work'[d.key].epoch
    <3> SUFFICES ASSUME NEW d \in issued', Exists(d.key)', work'[d.key].id = d.id
                 PROVE  d.epoch <= work'[d.key].epoch
      OBVIOUS
    <3>1. d.key \in Keys /\ d.epoch \in Nat
      BY <1>0 DEF TypeOK, ClaimRec
    <3>2. CASE d = c
      BY <2>3, <2>6, <3>2
    <3>3. CASE d # c /\ d.key = k
      BY <2>3, <2>5, <2>6, <2>7, <3>1, <3>3
    <3>4. CASE d # c /\ d.key # k
      BY <2>4, <2>5, <3>1, <3>4 DEF Tickets, Exists
    <3> QED BY <3>2, <3>3, <3>4
  <2>11. \A d, e \in issued' : d.key = e.key /\ d.id = e.id /\ d.epoch = e.epoch => d = e
    <3>1. \A d \in issued : d.epoch \in Nat
      BY DEF TypeOK, ClaimRec
    <3> QED BY <2>5, <2>6, <2>7, <3>1 DEF Tickets
  <2> QED BY <2>8, <2>9, <2>10, <2>11 DEF Tickets
<1>8. ASSUME NEW c \in claims, Heartbeat(c) \/ Finish(c) PROVE Tickets'
  <2>1. c.key \in Keys
    BY DEF TypeOK, ClaimRec
  <2>2. UNCHANGED <<issued, nextId>>
    BY <1>8 DEF Heartbeat, Finish, Complete, FailRetry, Drop, FailTerminal
  <2>3. \A j \in Keys \ {c.key} : work'[j] = work[j]
    BY <1>8, <2>1 DEF Heartbeat, Finish, Complete, FailRetry, Drop, FailTerminal, TypeOK
  <2>4. work'[c.key] # NoRow => /\ work[c.key] # NoRow
                                /\ work'[c.key].id = work[c.key].id
                                /\ work'[c.key].epoch = work[c.key].epoch
    <3>1. CASE Heartbeat(c)
      BY <2>1, <3>1 DEF Heartbeat, Holds, InState, Exists, TypeOK, Row
    <3>2. CASE Complete(c)
      BY <2>1, <3>2 DEF Complete, Holds, InState, Exists, TypeOK, Row
    <3>3. CASE FailRetry(c)
      BY <2>1, <3>3 DEF FailRetry, Holds, InState, Exists, TypeOK, Row
    <3>4. CASE Drop(c)
      BY <3>4 DEF Drop
    <3>5. ASSUME NEW r \in BOOLEAN, FailTerminal(c, r)
          PROVE  /\ work[c.key] # NoRow
                 /\ work'[c.key].id = work[c.key].id
                 /\ work'[c.key].epoch = work[c.key].epoch
      BY <2>1, <3>5 DEF FailTerminal, Holds, InState, Exists, TypeOK, Row
    <3> QED BY <1>8, <3>1, <3>2, <3>3, <3>4, <3>5 DEF Finish
  <2> QED BY <1>2, <2>2, <2>3, <2>4
<1>9. CASE UNCHANGED vars
  BY <1>2, <1>9 DEF vars
<1> QED BY <1>1, <1>3, <1>4, <1>5, <1>6, <1>7, <1>8, <1>9 DEF Next, ClaimWork

\* Every reachable state of the queue is well typed.
THEOREM TypeCorrect == Spec => []TypeOK
  BY TypeCorrectInit, TypeCorrectStep, PTL DEF Spec

\* At most one claim can commit: the (owner, epoch) compare-and-swap of Heartbeat,
\* Complete and Fail is a fence for every number of keys, owners and takeovers.
THEOREM Fencing == Spec => []OneCommitter
<1>1. Init => Tickets
  BY DEF Init, Tickets, Exists
<1>2. TypeOK /\ Tickets => OneCommitter
  BY DEF TypeOK, Tickets, OneCommitter, Holds
<1> QED BY TypeCorrectInit, TypeCorrectStep, TicketsStep, <1>1, <1>2, PTL DEF Spec

-----------------------------------------------------------------------------
\* A Claim takes one attempt of a row that has one left; the other statements take none.
LEMMA BudgetStep == TypeOK /\ AttemptBudget /\ [Next]_vars => AttemptBudget'
<1> SUFFICES ASSUME TypeOK, AttemptBudget, [Next]_vars PROVE AttemptBudget'
    OBVIOUS
<1> DEFINE Within(r) == /\ r.attempts <= AttemptLimit
                        /\ r.state = "pending" => r.attempts < AttemptLimit
\* It is enough that every row the step writes is within the budget.
<1>1. ASSUME \A j \in Keys : work'[j] = NoRow \/ work'[j] = work[j] \/ Within(work'[j])
      PROVE  AttemptBudget'
  BY <1>1 DEF AttemptBudget, Exists, InState
<1>2. \A j \in Keys : work[j] # NoRow => work[j] \in Row /\ Within(work[j])
  BY DEF TypeOK, AttemptBudget, Exists, InState
<1>3. ASSUME NEW k \in Keys, EnqueueTx(k) PROVE AttemptBudget'
  <2>1. Within(FreshRow(k))
    BY LimitAssumption DEF FreshRow
  <2>2. Exists(k) => Within(Resurrected(k))
    BY <1>2, LimitAssumption DEF Resurrected, Exists, Row
  <2> HIDE DEF Within
  <2> QED BY <1>1, <1>3, <2>1, <2>2 DEF EnqueueTx, Absorbs, TypeOK
<1>4. ASSUME NEW k \in Keys, BecomeDue(k) \/ Lapse(k) PROVE AttemptBudget'
  BY <1>1, <1>2, <1>4 DEF BecomeDue, Lapse, InState, Exists, TypeOK, Row
<1>5. ASSUME NEW r \in Resources, CancelPendingForResourceTx(r) PROVE AttemptBudget'
  BY <1>1, <1>5 DEF CancelPendingForResourceTx, TypeOK
<1>6. ASSUME NEW S \in SUBSET Keys, PruneTerminal(S) PROVE AttemptBudget'
  BY <1>1, <1>6 DEF PruneTerminal, TypeOK
<1>7. ASSUME NEW o \in Owners PROVE \A j \in Swept(o) : Within(Dead(j))
  BY <1>2 DEF Swept, Candidate, InState, Exists, Dead, Row
<1>8. ASSUME NEW o \in Owners, ClaimNothing(o) PROVE AttemptBudget'
  <2> HIDE DEF Within
  <2> QED BY <1>1, <1>7, <1>8 DEF ClaimNothing, TypeOK
<1>9. ASSUME NEW o \in Owners, NEW k \in Keys, ClaimRecord(k, o) PROVE AttemptBudget'
  <2>1. work[k] \in Row /\ ~Exhausted(k)
    BY <1>2, <1>9 DEF ClaimRecord, Leasable, Candidate, InState, Exists
  <2>2. Within(Leased(k, o))
    BY <2>1, LimitAssumption DEF Leased, Exhausted, Row
  <2> HIDE DEF Within
  <2> QED BY <1>1, <1>7, <1>9, <2>2 DEF ClaimRecord, TypeOK
<1>10. ASSUME NEW c \in claims, Heartbeat(c) \/ Finish(c) PROVE AttemptBudget'
  <2>1. c.key \in Keys
    BY DEF TypeOK, ClaimRec
  <2>2. \A j \in Keys \ {c.key} : work'[j] = work[j]
    BY <1>10, <2>1 DEF Heartbeat, Finish, Complete, FailRetry, Drop, FailTerminal, TypeOK
  <2>3. CASE Heartbeat(c) \/ Complete(c)
    BY <1>1, <1>2, <2>1, <2>2, <2>3 DEF Heartbeat, Complete, Holds, InState, Exists, TypeOK, Row
  <2>4. CASE FailRetry(c)
    <3>1. work[c.key] \in Row /\ ~Exhausted(c.key)
      BY <1>2, <2>1, <2>4 DEF FailRetry, Holds, InState, Exists
    <3>2. work[c.key].attempts < AttemptLimit
      BY <3>1, LimitAssumption DEF Exhausted, Row
    <3>3. work'[c.key].attempts = work[c.key].attempts
      BY <2>1, <2>4, <3>1 DEF FailRetry, TypeOK, Row
    <3>4. Within(work'[c.key])
      BY <3>1, <3>2, <3>3, LimitAssumption DEF Row
    <3> HIDE DEF Within
    <3> QED BY <1>1, <2>2, <3>4
  <2>5. CASE Drop(c)
    BY <1>1, <2>5 DEF Drop
  <2>6. ASSUME NEW r \in BOOLEAN, FailTerminal(c, r) PROVE AttemptBudget'
    BY <1>1, <1>2, <2>1, <2>2, <2>6 DEF FailTerminal, Holds, InState, Exists, TypeOK, Row
  <2> QED BY <1>10, <2>3, <2>4, <2>5, <2>6 DEF Finish
<1>11. CASE UNCHANGED vars
  BY <1>1, <1>11 DEF vars
<1> QED BY <1>3, <1>4, <1>5, <1>6, <1>8, <1>9, <1>10, <1>11 DEF Next, ClaimWork

\* No row is ever attempted more than attempt_limit times per accepted enqueue,
\* however many workers die holding it; a pending row always has an attempt left.
THEOREM Budget == Spec => []AttemptBudget
<1>1. Init => AttemptBudget
  BY DEF Init, AttemptBudget, Exists, InState
<1> QED BY TypeCorrectInit, TypeCorrectStep, BudgetStep, <1>1, PTL DEF Spec

-----------------------------------------------------------------------------
\* Whatever takes a row out of the active states settles it once.
LEMMA SettledStep == TypeOK /\ SettledOnce /\ [Next]_vars => SettledOnce'
<1> SUFFICES ASSUME TypeOK, SettledOnce, [Next]_vars PROVE SettledOnce'
    OBVIOUS
<1> DEFINE Owed(k) == InState(k, Active)
\* Each key either keeps its books or is settled or reopened by the step.
<1>1. ASSUME \A j \in Keys :
                \/ accepted'[j] = accepted[j] /\ settled'[j] = settled[j] /\ (Owed(j)' <=> Owed(j))
                \/ accepted'[j] = accepted[j] /\ settled'[j] = settled[j] + 1 /\ Owed(j) /\ ~Owed(j)'
                \/ accepted'[j] = accepted[j] + 1 /\ settled'[j] = settled[j] /\ ~Owed(j) /\ Owed(j)'
      PROVE  SettledOnce'
  <2> SUFFICES ASSUME NEW k \in Keys
               PROVE  accepted'[k] = settled'[k] + (IF Owed(k)' THEN 1 ELSE 0)
    BY DEF SettledOnce
  <2>1. accepted[k] \in Nat /\ settled[k] \in Nat
    BY DEF TypeOK
  <2>2. accepted[k] = settled[k] + (IF Owed(k) THEN 1 ELSE 0)
    BY DEF SettledOnce
  <2> HIDE DEF Owed
  <2> QED BY <1>1, <2>1, <2>2
<1>2. \A j \in Keys : work[j] # NoRow => work[j] \in Row
  BY DEF TypeOK
<1>3. ASSUME NEW k \in Keys, EnqueueTx(k) PROVE SettledOnce'
  <2>1. /\ FreshRow(k) \in Row /\ FreshRow(k).state = "pending"
        /\ Exists(k) => Resurrected(k) \in Row /\ Resurrected(k).state = "pending"
    BY <1>2, EnqueuedTyped DEF RowOK, FreshRow, Resurrected, Exists, Row
  <2>2. Owed(k)'
    BY <1>3, <2>1, NullAssumption DEF EnqueueTx, Absorbs, InState, Exists, Active, TypeOK
  <2> QED BY <1>1, <1>3, <2>2 DEF EnqueueTx, Absorbs, TypeOK, InState, Exists
<1>4. ASSUME NEW k \in Keys, BecomeDue(k) \/ Lapse(k) PROVE SettledOnce'
  BY <1>1, <1>2, <1>4, NullAssumption DEF BecomeDue, Lapse, InState, Exists, TypeOK, Row
<1>5. ASSUME NEW r \in Resources, CancelPendingForResourceTx(r) PROVE SettledOnce'
  BY <1>1, <1>5 DEF CancelPendingForResourceTx, Cancelled, InState, Exists, Active, TypeOK
<1>6. ASSUME NEW S \in SUBSET Keys, PruneTerminal(S) PROVE SettledOnce'
  BY <1>1, <1>6 DEF PruneTerminal, InState, Exists, Active, Terminal, TypeOK
<1>7. ASSUME NEW o \in Owners, NEW j \in Swept(o) PROVE Owed(j) /\ Dead(j).state = "dead"
  BY <1>2 DEF Swept, Candidate, InState, Exists, Active, Dead, Row
<1>8. ASSUME NEW o \in Owners, ClaimNothing(o) PROVE SettledOnce'
  BY <1>1, <1>7, <1>8 DEF ClaimNothing, InState, Exists, Active, TypeOK
<1>9. ASSUME NEW o \in Owners, NEW k \in Keys, ClaimRecord(k, o) PROVE SettledOnce'
  <2>1. Owed(k) /\ work[k] \in Row /\ k \notin Swept(o)
    BY <1>2, <1>9 DEF ClaimRecord, Leasable, Swept, Candidate, InState, Exists, Active
  <2>2. Leased(k, o) \in Row /\ Leased(k, o).state = "leased"
    BY <1>9, <2>1, LeasedTyped DEF ClaimRecord, RowOK, Leased, Row
  <2>3. Owed(k)'
    BY <1>9, <2>2, NullAssumption DEF ClaimRecord, InState, Exists, Active
  <2> QED BY <1>1, <1>7, <1>9, <2>1, <2>3 DEF ClaimRecord, InState, Exists, Active, TypeOK
<1>10. ASSUME NEW c \in claims, Heartbeat(c) \/ Finish(c) PROVE SettledOnce'
  <2>1. c.key \in Keys
    BY DEF TypeOK, ClaimRec
  <2>2. Holds(c) => Owed(c.key) /\ work[c.key] \in Row
    BY <1>2, <2>1 DEF Holds, InState, Exists, Active
  <2>3. CASE Heartbeat(c)
    BY <1>1, <2>1, <2>2, <2>3, TypeCorrectStep, NullAssumption
       DEF Heartbeat, InState, Exists, TypeOK, Row
  <2>4. CASE Complete(c)
    BY <1>1, <2>1, <2>2, <2>4 DEF Complete, InState, Exists, Active, TypeOK, Row
  <2>5. CASE FailRetry(c)
    <3>1. work'[c.key].state = "pending" /\ \A j \in Keys \ {c.key} : work'[j] = work[j]
      BY <2>1, <2>2, <2>5 DEF FailRetry, TypeOK, Row
    <3>2. work'[c.key] # NoRow
      <4>1. work'[c.key] = [work[c.key] EXCEPT !.state = "pending", !.owner = NoOwner,
                                               !.lease = "none", !.avail = "later"]
        BY <2>1, <2>2, <2>5 DEF FailRetry, TypeOK
      <4>2. work[c.key] \in Row
        BY <2>2, <2>5 DEF FailRetry
      <4>3. work'[c.key] \in Row
        BY <4>1, <4>2 DEF Row, States, Active
      <4> QED BY <4>3, NullAssumption
    <3>3. UNCHANGED <<accepted, settled>> /\ Owed(c.key)
      BY <2>2, <2>5 DEF FailRetry
    <3> QED BY <1>1, <2>1, <3>1, <3>2, <3>3 DEF InState, Exists, Active
  <2>6. CASE Drop(c)
    BY <1>1, <2>6 DEF Drop, InState, Exists
  <2>7. ASSUME NEW r \in BOOLEAN, FailTerminal(c, r) PROVE SettledOnce'
    BY <1>1, <2>1, <2>2, <2>7 DEF FailTerminal, InState, Exists, Active, TypeOK, Row
  <2> QED BY <1>10, <2>3, <2>4, <2>5, <2>6, <2>7 DEF Finish
<1>11. CASE UNCHANGED vars
  BY <1>1, <1>11 DEF vars, InState, Exists
<1> QED BY <1>3, <1>4, <1>5, <1>6, <1>8, <1>9, <1>10, <1>11 DEF Next, ClaimWork

\* Every accepted enqueue is either owed (its row is pending or leased) or has
\* been settled exactly once: none is lost and none is settled twice.
THEOREM Accounting == Spec => []SettledOnce
<1>1. Init => SettledOnce
  BY DEF Init, SettledOnce, Exists, InState
<1> QED BY TypeCorrectInit, TypeCorrectStep, SettledStep, <1>1, PTL DEF Spec

-----------------------------------------------------------------------------
\* A leased row has a claim on it: the inductive half of LeaseHasClaim is that
\* only Claim makes a row leased, and it records the claim it returns.
LEMMA LeaseClaimStep == TypeOK /\ LeaseHasClaim /\ [Next]_vars => LeaseHasClaim'
<1> SUFFICES ASSUME TypeOK, LeaseHasClaim, [Next]_vars PROVE LeaseHasClaim'
    OBVIOUS
\* Enough: issued only grows, and the rows that are leased afterwards were leased
\* before, by the same claim.
<1>1. ASSUME issued \subseteq issued',
             \A j \in Keys : InState(j, {"leased"})' =>
                /\ InState(j, {"leased"})
                /\ work'[j].id = work[j].id /\ work'[j].owner = work[j].owner
                /\ work'[j].epoch = work[j].epoch
      PROVE  LeaseHasClaim'
  BY <1>1 DEF LeaseHasClaim, Holds, InState, Exists
<1>2. \A j \in Keys : work[j] # NoRow => work[j] \in Row
  BY DEF TypeOK
<1>3. ASSUME NEW k \in Keys, EnqueueTx(k) PROVE LeaseHasClaim'
  <2>1. FreshRow(k).state = "pending" /\ (Exists(k) => Resurrected(k).state = "pending")
    BY <1>2 DEF FreshRow, Resurrected, Exists, Row
  <2> QED BY <1>1, <1>3, <2>1 DEF EnqueueTx, Absorbs, TypeOK, InState, Exists
<1>4. ASSUME NEW k \in Keys, BecomeDue(k) \/ Lapse(k) PROVE LeaseHasClaim'
  BY <1>1, <1>2, <1>4 DEF BecomeDue, Lapse, InState, Exists, TypeOK, Row
<1>5. ASSUME NEW r \in Resources, CancelPendingForResourceTx(r) PROVE LeaseHasClaim'
  BY <1>1, <1>5 DEF CancelPendingForResourceTx, InState, Exists, TypeOK
<1>6. ASSUME NEW S \in SUBSET Keys, PruneTerminal(S) PROVE LeaseHasClaim'
  BY <1>1, <1>6 DEF PruneTerminal, InState, Exists, TypeOK
<1>7. ASSUME NEW o \in Owners, NEW j \in Swept(o) PROVE Dead(j).state = "dead"
  BY <1>2 DEF Swept, Candidate, InState, Exists, Dead, Row
<1>8. ASSUME NEW o \in Owners, ClaimNothing(o) PROVE LeaseHasClaim'
  BY <1>1, <1>7, <1>8 DEF ClaimNothing, InState, Exists, TypeOK
<1>9. ASSUME NEW o \in Owners, NEW k \in Keys, ClaimRecord(k, o) PROVE LeaseHasClaim'
  <2>1. work[k] \in Row
    BY <1>2, <1>9 DEF ClaimRecord, Leasable, Candidate, InState, Exists
  <2>2. /\ Returned(k, o).key = k /\ Returned(k, o).id = Leased(k, o).id
        /\ Returned(k, o).owner = Leased(k, o).owner
        /\ Returned(k, o).epoch = Leased(k, o).epoch
    BY <2>1 DEF Returned, Leased, Row
  <2>3. \A j \in Keys \ {k} : InState(j, {"leased"})' => work'[j] = work[j]
    BY <1>7, <1>9 DEF ClaimRecord, InState, Exists
  <2>4. work'[k] = Leased(k, o) /\ Returned(k, o) \in issued' /\ issued \subseteq issued'
    BY <1>9 DEF ClaimRecord
  <2> QED BY <2>2, <2>3, <2>4 DEF LeaseHasClaim, Holds, InState, Exists
<1>10. ASSUME NEW c \in claims, Heartbeat(c) \/ Finish(c) PROVE LeaseHasClaim'
  <2>1. c.key \in Keys
    BY DEF TypeOK, ClaimRec
  <2>2. Holds(c) => work[c.key] \in Row
    BY <1>2, <2>1 DEF Holds, InState, Exists
  <2>3. CASE Heartbeat(c)
    BY <1>1, <2>1, <2>2, <2>3 DEF Heartbeat, Holds, InState, Exists, TypeOK, Row
  <2>4. CASE Complete(c)
    BY <1>1, <2>1, <2>2, <2>4 DEF Complete, InState, Exists, TypeOK, Row
  <2>5. CASE FailRetry(c)
    BY <1>1, <2>1, <2>2, <2>5 DEF FailRetry, InState, Exists, TypeOK, Row
  <2>6. CASE Drop(c)
    BY <1>1, <2>6 DEF Drop, InState, Exists
  <2>7. ASSUME NEW r \in BOOLEAN, FailTerminal(c, r) PROVE LeaseHasClaim'
    BY <1>1, <2>1, <2>2, <2>7 DEF FailTerminal, InState, Exists, TypeOK, Row
  <2> QED BY <1>10, <2>3, <2>4, <2>5, <2>6, <2>7 DEF Finish
<1>11. CASE UNCHANGED vars
  BY <1>1, <1>11 DEF vars, InState, Exists
<1> QED BY <1>3, <1>4, <1>5, <1>6, <1>8, <1>9, <1>10, <1>11 DEF Next, ClaimWork

\* Every leased row carries the (id, owner, epoch) of a claim some worker was
\* handed: no row is leased to nobody.
THEOREM LeaseBacked == Spec => []LeaseHasClaim
<1>1. Init => LeaseHasClaim
  BY DEF Init, LeaseHasClaim, Exists, InState
<1> QED BY TypeCorrectInit, TypeCorrectStep, LeaseClaimStep, <1>1, PTL DEF Spec

-----------------------------------------------------------------------------
\* Only the claim's own Complete or Fail ends a live lease.  A foreign claim on
\* the same key cannot, because the fence lets at most one claim through.
LEMMA KeptStep == TypeOK /\ OneCommitter /\ [Next]_vars => KeepsLive
<1> SUFFICES ASSUME TypeOK, OneCommitter, [Next]_vars,
                    NEW c \in claims, Holds(c), work[c.key].lease = "live", c \in claims'
             PROVE  Holds(c)'
  BY DEF KeepsLive
<1>0. c.key \in Keys /\ work[c.key] \in Row /\ work[c.key] # NoRow /\ work[c.key].state = "leased"
  BY DEF TypeOK, ClaimRec, Holds, InState, Exists
<1>1. ASSUME work'[c.key] = work[c.key] PROVE Holds(c)'
  BY <1>1 DEF Holds, InState, Exists
<1>2. ASSUME NEW k \in Keys, EnqueueTx(k) PROVE Holds(c)'
  BY <1>0, <1>1, <1>2 DEF EnqueueTx, Absorbs, InState, Exists, Active, TypeOK
<1>3. ASSUME NEW k \in Keys, BecomeDue(k) PROVE Holds(c)'
  BY <1>0, <1>1, <1>3 DEF BecomeDue, InState, Exists, TypeOK
<1>4. ASSUME NEW l \in {"live", "expired"}, work'[c.key] = [work[c.key] EXCEPT !.lease = l]
      PROVE  Holds(c)'
  <2>1. work'[c.key] \in Row
    BY <1>0, <1>4 DEF Row
  <2> QED BY <1>0, <1>4, <2>1, NullAssumption DEF Holds, InState, Exists, Row
<1>5. ASSUME NEW k \in Keys, Lapse(k) PROVE Holds(c)'
  BY <1>0, <1>1, <1>4, <1>5 DEF Lapse, TypeOK
<1>6. ASSUME NEW r \in Resources, CancelPendingForResourceTx(r) PROVE Holds(c)'
  BY <1>0, <1>1, <1>6 DEF CancelPendingForResourceTx, Cancelled, InState, Exists, TypeOK
<1>7. ASSUME NEW S \in SUBSET Keys, PruneTerminal(S) PROVE Holds(c)'
  BY <1>0, <1>1, <1>7 DEF PruneTerminal, InState, Exists, Terminal, TypeOK
<1>8. ASSUME NEW o \in Owners PROVE ~Candidate(c.key, o)
  BY <1>0 DEF Candidate, InState
<1>9. ASSUME NEW o \in Owners, ClaimWork(o) PROVE Holds(c)'
  BY <1>0, <1>1, <1>8, <1>9 DEF ClaimWork, ClaimNothing, ClaimRecord, Leasable, Swept
<1>10. ASSUME NEW d \in claims, Heartbeat(d) PROVE Holds(c)'
  <2>1. d.key \in Keys
    BY DEF TypeOK, ClaimRec
  <2> QED BY <1>0, <1>1, <1>4, <1>10, <2>1 DEF Heartbeat, TypeOK
<1>11. ASSUME NEW d \in claims, Finish(d) PROVE Holds(c)'
  <2>1. d.key \in Keys /\ c # d
    BY <1>11 DEF TypeOK, ClaimRec, Finish, Complete, FailRetry, Drop, FailTerminal
  <2>2. Holds(d) => d.key # c.key
    BY <2>1 DEF OneCommitter
  <2>3. work'[c.key] = work[c.key]
    BY <1>0, <1>11, <2>1, <2>2 DEF Finish, Complete, FailRetry, Drop, FailTerminal, TypeOK
  <2> QED BY <1>1, <2>3
<1>12. CASE UNCHANGED vars
  BY <1>1, <1>12 DEF vars
<1> QED BY <1>2, <1>3, <1>5, <1>6, <1>7, <1>9, <1>10, <1>11, <1>12 DEF Next

\* An owner whose lease has not lapsed keeps it until it finishes: no enqueue,
\* deletion, prune, sweep or claim of another worker takes the row from it.
THEOREM LiveLeaseKept == Spec => LeaseKept
<1>1. TypeOK /\ OneCommitter /\ [Next]_vars => [KeepsLive]_vars
  BY KeptStep
<1> QED BY TypeCorrect, Fencing, <1>1, PTL DEF Spec, LeaseKept
=============================================================================
