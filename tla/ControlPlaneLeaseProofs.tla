---------------------- MODULE ControlPlaneLeaseProofs ----------------------
(***************************************************************************)
(* What the singleton lease fences, for any number of replicas, takeovers, *)
(* publications and product transactions.                                  *)
(***************************************************************************)
EXTENDS ControlPlaneLease, TLAPS

\* The row's token is the newest, and only the holder it names has it.
Newest == /\ \A r \in Replicas : local[r].token <= row.token
          /\ \A r \in Replicas : local[r].token = row.token /\ row.token # 0 => row.holder = r

\* What a product transaction read stays a bound on what was committed before it.
Ordered == /\ \A w \in writes : w.at <= head /\ w.token <= row.token
           /\ \A x \in txs : x.base <= head /\ x.token <= row.token
           /\ \A x \in txs, w \in writes : w.at <= x.base => w.token <= x.token

\* A holder that is not acquiring has the row's token, and a hold that ended is marked.
Current == \A r \in Replicas :
             /\ row.holder = r /\ local[r].pc \in {"held", "ending", "released"} =>
                  row.token = local[r].token
             /\ local[r].pc \in {"ending", "released"} => local[r].resigning = "yes"

\* A publication under the row lock is of the claim the row names; one that runs without the lock
\* has lost its lease context.
Guarded == \A p \in pubs : /\ p.at = "locked" => Names(p)
                           /\ p.at = "adrift" => p.ctx = "cancelled"

\* The row is vacant and every replica idle at the start.
LEMMA TypeInit == Init => TypeOK
  BY DEF Init, TypeOK, Local, Idle, Quiet

\* No statement, job or timer of a replica leaves the types, nor wakes a quiet replica.
LEMMA TypeStep == TypeOK /\ [Next]_vars => TypeOK'
<1> SUFFICES ASSUME TypeOK, [Next]_vars PROVE TypeOK'
    OBVIOUS
\* A step that rewrites one replica's record.
<1>1. ASSUME NEW r \in Replicas, UNCHANGED <<row, txs, head, writes, late>>, pubs' \subseteq Publication,
             NEW l \in Local, Quiet(l),
             local' = [local EXCEPT ![r] = l]
      PROVE  TypeOK'
  <2>1. local' \in [Replicas -> Local] /\ \A s \in Replicas \ {r} : local'[s] = local[s]
    BY <1>1 DEF TypeOK
  <2>2. local'[r] = l
    BY <1>1 DEF TypeOK
  <2>3. \A s \in Replicas : Quiet(local'[s])
    BY <1>1, <2>1, <2>2 DEF TypeOK
  <2> QED BY <1>1, <2>1, <2>3 DEF TypeOK
<1>11. ASSUME NEW r \in Replicas PROVE CancelPubs(r) \subseteq Publication
  BY DEF CancelPubs, TypeOK, Publication
<1>2. ASSUME NEW r \in Replicas, Lease(r) PROVE TypeOK'
  <2>0. local[r] \in Local /\ Quiet(local[r])
    BY DEF TypeOK
  <2>1. ASSUME NEW known \in BOOLEAN, Acquire(r, known) PROVE TypeOK'
    <3> DEFINE l == [Idle EXCEPT !.pc = "held", !.token = NextToken(r), !.ctx = "ok", !.job = "starting"]
    <3>1. NextToken(r) \in Nat
      BY DEF NextToken, TypeOK
    <3>2. l \in Local /\ Quiet(l)
      BY <3>1 DEF Idle, Local, Quiet
    <3>3. local' \in {[local EXCEPT ![r] = l], local}
      BY <2>1 DEF Acquire
    <3> HIDE DEF l
    <3>4. local' \in [Replicas -> Local] /\ \A s \in Replicas : Quiet(local'[s])
      BY <3>2, <3>3 DEF TypeOK
    <3> QED BY <2>1, <3>1, <3>4 DEF Acquire, TypeOK
  <2>2. CASE RenewHeld(r)
    <3> DEFINE l == [local[r] EXCEPT !.publishing = local[r].serving]
    <3>1. l \in Local /\ Quiet(l)
      BY <2>2, <2>0 DEF RenewHeld, Local, Quiet
    <3>2. local' = [local EXCEPT ![r] = l] /\ UNCHANGED <<row, txs, head, writes, late>>
      BY <2>2 DEF RenewHeld
    <3>3. pubs' \subseteq Publication BY <2>2 DEF RenewHeld, TypeOK
    <3> HIDE DEF l
    <3> QED BY <1>1, <3>1, <3>2, <3>3
  <2>3. CASE RenewLost(r)
    <3> DEFINE l == [local[r] EXCEPT !.publishing = "off", !.ctx = "cancelled"]
    <3>1. l \in Local /\ Quiet(l)
      BY <2>3, <2>0 DEF RenewLost, Local, Quiet
    <3>2. local' = [local EXCEPT ![r] = l] /\ UNCHANGED <<row, txs, head, writes, late>>
      BY <2>3 DEF RenewLost
    <3>3. pubs' \subseteq Publication BY <2>3, <1>11 DEF RenewLost
    <3> HIDE DEF l
    <3> QED BY <1>1, <3>1, <3>2, <3>3
  <2>4. CASE RenewError(r)
    <3> DEFINE l == [local[r] EXCEPT !.publishing = "off"]
    <3>1. l \in Local /\ Quiet(l)
      BY <2>4, <2>0 DEF RenewError, Local, Quiet
    <3>2. local' = [local EXCEPT ![r] = l] /\ UNCHANGED <<row, txs, head, writes, late>>
      BY <2>4 DEF RenewError
    <3>3. pubs' \subseteq Publication BY <2>4 DEF RenewError, TypeOK
    <3> HIDE DEF l
    <3> QED BY <1>1, <3>1, <3>2, <3>3
  <2>5. CASE Become(r)
    <3> DEFINE l == [local[r] EXCEPT !.job = "live", !.serving = "on", !.publishing = "on"]
    <3>1. l \in Local /\ Quiet(l)
      BY <2>5, <2>0 DEF Become, Local, Quiet
    <3>2. local' = [local EXCEPT ![r] = l] /\ UNCHANGED <<row, txs, head, writes, late>>
      BY <2>5 DEF Become
    <3>3. pubs' \subseteq Publication BY <2>5 DEF Become, TypeOK
    <3> HIDE DEF l
    <3> QED BY <1>1, <3>1, <3>2, <3>3
  <2>6. ASSUME NEW result \in {"done", "failed"}, JobEnds(r, result) PROVE TypeOK'
    <3> DEFINE l == [local[r] EXCEPT !.job = result, !.serving = "off", !.publishing = "off"]
    <3>1. l \in Local /\ Quiet(l)
      BY <2>6, <2>0 DEF JobEnds, Local, Quiet
    <3>2. local' = [local EXCEPT ![r] = l] /\ UNCHANGED <<row, txs, head, writes, late>>
      BY <2>6 DEF JobEnds
    <3>3. pubs' \subseteq Publication BY <2>6 DEF JobEnds, TypeOK
    <3> HIDE DEF l
    <3> QED BY <1>1, <3>1, <3>2, <3>3
  <2>7. ASSUME NEW exit \in {"no", "yes"}, Resign(r, exit) PROVE TypeOK'
    <3> DEFINE l == [local[r] EXCEPT !.pc = "ending", !.resigning = "yes",
                                      !.ctx = "cancelled", !.exit = exit]
    <3>1. l \in Local /\ Quiet(l)
      BY <2>7, <2>0 DEF Resign, Local, Quiet
    <3>2. local' = [local EXCEPT ![r] = l] /\ UNCHANGED <<row, txs, head, writes, late>>
      BY <2>7 DEF Resign
    <3>3. pubs' \subseteq Publication BY <2>7, <1>11 DEF Resign
    <3> HIDE DEF l
    <3> QED BY <1>1, <3>1, <3>2, <3>3
  <2>8. CASE RunLoops(r)
    <3> DEFINE l == [local[r] EXCEPT !.pc = IF local[r].exit = "yes" THEN "stopped" ELSE "acquiring",
                                      !.token = 0, !.job = "none"]
    <3>1. l \in Local /\ Quiet(l)
      BY <2>8, <2>0 DEF RunLoops, Local, Quiet
    <3>2. local' = [local EXCEPT ![r] = l] /\ UNCHANGED <<row, txs, head, writes, late>>
      BY <2>8 DEF RunLoops
    <3>3. pubs' \subseteq Publication BY <2>8 DEF RunLoops, TypeOK
    <3> HIDE DEF l
    <3> QED BY <1>1, <3>1, <3>2, <3>3
  <2>9. CASE ResignShutdown(r) \/ EndHold(r)
    BY <2>7, <2>9 DEF ResignShutdown, EndHold, ResignJobDone, ResignLeaseLost
  <2>10. CASE Release(r) \/ ReleaseTimedOut(r)
    <3> DEFINE l == [local[r] EXCEPT !.pc = "released"]
    <3>1. l \in Local /\ Quiet(l)
      BY <2>0, <2>10 DEF Release, ReleaseTimedOut, Local, Quiet
    <3>2. local' = [local EXCEPT ![r] = l]
      BY <2>10 DEF Release, ReleaseTimedOut
    <3> HIDE DEF l
    <3>3. local' \in [Replicas -> Local] /\ \A s \in Replicas : Quiet(local'[s])
      BY <3>1, <3>2 DEF TypeOK
    <3>4. ClaimOf(r) \in Claim
      BY <2>0 DEF ClaimOf, Claim, Local
    <3> QED BY <2>10, <3>3, <3>4 DEF Release, ReleaseTimedOut, Released, TypeOK
  <2>11. CASE Crash(r)
    <3> DEFINE l == [Idle EXCEPT !.pc = "stopped"]
    <3>1. l \in Local /\ Quiet(l)
      BY DEF Idle, Local, Quiet
    <3>2. local' = [local EXCEPT ![r] = l]
      BY <2>11 DEF Crash
    <3> HIDE DEF l
    <3>3. local' \in [Replicas -> Local] /\ \A s \in Replicas : Quiet(local'[s])
      BY <3>1, <3>2 DEF TypeOK
    <3> QED BY <2>11, <3>3 DEF Crash, TypeOK
  <2> QED BY <1>2, <2>1, <2>2, <2>3, <2>4, <2>5, <2>6, <2>8, <2>9, <2>10, <2>11 DEF Lease, Renew
<1>3. ASSUME NEW c \in late, LateRelease(c) PROVE TypeOK'
  BY <1>3 DEF LateRelease, Released, TypeOK
<1>4. CASE Lapse
  BY <1>4 DEF Lapse, TypeOK
<1>5. CASE Publish
  <2>1. pubs' \subseteq Publication
    <3>1. CASE \E r \in Replicas : PublicationContext(r)
      BY <3>1 DEF PublicationContext, TypeOK, Local, Publication
    <3>2. ASSUME NEW p \in pubs, NEW at \in {"wanting", "locked", "adrift"}, Moves(p, at)
          PROVE  pubs' \subseteq Publication
      BY <3>2 DEF Moves, TypeOK, Publication
    <3>3. ASSUME NEW p \in pubs, pubs' = pubs \ {p} PROVE pubs' \subseteq Publication
      BY <3>3 DEF TypeOK
    <3> QED BY <1>5, <3>1, <3>2, <3>3 DEF Publish, GuardLock, GuardLost, GuardRolledBack, GuardDone
  <2> QED BY <1>5, <2>1 DEF Publish, PublicationContext, GuardLock, GuardLost, GuardRolledBack, GuardDone, TypeOK
<1>6. ASSUME NEW r \in Replicas, ProductBegin(r) PROVE TypeOK'
  BY <1>6 DEF ProductBegin, TypeOK, Local
<1>7. ASSUME NEW x \in txs, ProductCommit(x) PROVE TypeOK'
  BY <1>7 DEF ProductCommit, TypeOK
<1>8. ASSUME NEW x \in txs, ProductAbort(x) PROVE TypeOK'
  BY <1>8 DEF ProductAbort, TypeOK
<1>9. CASE UnleasedWrite
  BY <1>9 DEF UnleasedWrite, TypeOK
<1>10. CASE UNCHANGED vars
  BY <1>10 DEF vars, TypeOK
<1> QED BY <1>2, <1>3, <1>4, <1>5, <1>6, <1>7, <1>8, <1>9, <1>10 DEF Next, Product

\* How a step may change the row and the replicas' tokens.
LEMMA RowStep ==
  ASSUME TypeOK, [Next]_vars
  PROVE  \/ \E r \in Replicas :
              /\ Acquirable(r) /\ Unlocked /\ pubs' = pubs
              /\ row'.holder = r /\ row'.token = NextToken(r)
              /\ local'[r].token \in {local[r].token, NextToken(r)}
              /\ \A s \in Replicas \ {r} : local'[s].token = local[s].token
              /\ UNCHANGED <<txs, head, writes>>
         \/ /\ row'.holder = row.holder /\ row'.token = row.token
            /\ \A s \in Replicas : local'[s].token \in {local[s].token, 0}
<1> DEFINE Still == /\ row'.holder = row.holder /\ row'.token = row.token
                    /\ \A s \in Replicas : local'[s].token \in {local[s].token, 0}
<1>1. ASSUME NEW r \in Replicas, NEW known \in BOOLEAN, Acquire(r, known)
      PROVE  /\ Acquirable(r) /\ Unlocked /\ pubs' = pubs
             /\ row'.holder = r /\ row'.token = NextToken(r)
             /\ local'[r].token \in {local[r].token, NextToken(r)}
             /\ \A s \in Replicas \ {r} : local'[s].token = local[s].token
             /\ UNCHANGED <<txs, head, writes>>
  BY <1>1 DEF Acquire, Idle, TypeOK, Local
<1>2. ASSUME NEW r \in Replicas, Renew(r) \/ Become(r) PROVE Still
  <2>1. CASE RenewHeld(r)
    BY <2>1 DEF RenewHeld, TypeOK, Local
  <2>2. CASE RenewLost(r)
    BY <2>2 DEF RenewLost, TypeOK, Local
  <2>3. CASE RenewError(r)
    BY <2>3 DEF RenewError, TypeOK, Local
  <2>4. CASE Become(r)
    BY <2>4 DEF Become, TypeOK, Local
  <2> QED BY <1>2, <2>1, <2>2, <2>3, <2>4 DEF Renew
<1>3. ASSUME NEW r \in Replicas, \E result \in {"done", "failed"} : JobEnds(r, result) PROVE Still
  BY <1>3 DEF JobEnds, TypeOK, Local
<1>4. ASSUME NEW r \in Replicas, ResignShutdown(r) \/ EndHold(r) PROVE Still
  BY <1>4 DEF ResignShutdown, EndHold, ResignJobDone, ResignLeaseLost, Resign, TypeOK, Local
<1>5. ASSUME NEW r \in Replicas, Release(r) \/ ReleaseTimedOut(r) PROVE Still
  BY <1>5 DEF Release, ReleaseTimedOut, Released, TypeOK, Local
<1>6. ASSUME NEW r \in Replicas, RunLoops(r) \/ Crash(r) PROVE Still
  <2>1. CASE RunLoops(r)
    BY <2>1 DEF RunLoops, TypeOK, Local
  <2>2. CASE Crash(r)
    BY <2>2 DEF Crash, Idle, TypeOK
  <2> QED BY <1>6, <2>1, <2>2
<1>7. ASSUME NEW c \in late, LateRelease(c) PROVE Still
  BY <1>7 DEF LateRelease, Released, TypeOK
<1>8. ASSUME Lapse PROVE Still
  BY <1>8 DEF Lapse, TypeOK
<1>9. ASSUME Publish PROVE Still
  BY <1>9 DEF Publish, PublicationContext, GuardLock, GuardLost, GuardRolledBack, GuardDone
<1>10. ASSUME Product PROVE Still
  BY <1>10 DEF Product, ProductBegin, ProductCommit, ProductAbort, UnleasedWrite
<1>11. ASSUME UNCHANGED vars PROVE Still
  BY <1>11 DEF vars
<1> HIDE DEF Still
<1>12. ASSUME NEW r \in Replicas, Lease(r)
       PROVE  Still \/ \E known \in BOOLEAN : Acquire(r, known)
  BY <1>2, <1>3, <1>4, <1>5, <1>6, <1>12 DEF Lease
<1>13. Still \/ \E r \in Replicas, known \in BOOLEAN : Acquire(r, known)
  BY <1>7, <1>8, <1>9, <1>10, <1>11, <1>12 DEF Next
<1> QED BY <1>1, <1>13 DEF Still

-----------------------------------------------------------------------------
\* Acquire draws a token above all others; no other statement writes one.
LEMMA NewestStep == TypeOK /\ Newest /\ [Next]_vars => Newest'
<1> SUFFICES ASSUME TypeOK, Newest, [Next]_vars PROVE Newest'
    OBVIOUS
<1>1. \A s \in Replicas : local[s].token \in Nat /\ local[s].token <= row.token
  BY DEF TypeOK, Local, Newest
<1>2. row.token \in Nat
  BY DEF TypeOK
<1>3. ASSUME NEW r \in Replicas,
             row'.holder = r, row'.token = NextToken(r),
             local'[r].token \in {local[r].token, NextToken(r)},
             \A s \in Replicas \ {r} : local'[s].token = local[s].token
      PROVE  Newest'
  BY <1>1, <1>2, <1>3 DEF Newest, NextToken
<1>4. ASSUME row'.holder = row.holder, row'.token = row.token,
             \A s \in Replicas : local'[s].token \in {local[s].token, 0}
      PROVE  Newest'
  BY <1>1, <1>2, <1>4 DEF Newest
<1> QED BY <1>3, <1>4, RowStep

\* A replica the row names has the row's token until its hold ends.
LEMMA CurrentStep == TypeOK /\ Current /\ [Next]_vars => Current'
<1> SUFFICES ASSUME TypeOK, Current, [Next]_vars PROVE Current'
    OBVIOUS
<1>0. \A s \in Replicas : local[s] \in Local
  BY DEF TypeOK
\* A step that keeps the row's claim and moves one replica along its hold.
<1>1. ASSUME NEW r \in Replicas, row'.holder = row.holder, row'.token = row.token,
             \A s \in Replicas \ {r} : local'[s] = local[s],
             local'[r].pc \in {"acquiring", "stopped"} \/
               /\ local'[r].token = local[r].token
               /\ local[r].pc \in {"held", "ending", "released"}
               /\ local'[r].pc = "held" \/ local'[r].resigning = "yes"
      PROVE  Current'
  BY <1>1 DEF Current
<1>2. CASE row'.holder = row.holder /\ row'.token = row.token /\ local' = local
  BY <1>2 DEF Current
<1>3. ASSUME NEW r \in Replicas, Lease(r) PROVE Current'
  <2>1. ASSUME NEW known \in BOOLEAN, Acquire(r, known) PROVE Current'
    <3>1. row'.holder = r /\ row'.token = NextToken(r) /\ local[r].pc = "acquiring"
      BY <2>1 DEF Acquire
    <3>2. \A s \in Replicas \ {r} : local'[s] = local[s]
      BY <2>1 DEF Acquire, TypeOK
    <3> DEFINE l == [Idle EXCEPT !.pc = "held", !.token = NextToken(r), !.ctx = "ok", !.job = "starting"]
    <3>3. l.pc = "held" /\ l.token = NextToken(r)
      BY DEF Idle
    <3>4. local' \in {[local EXCEPT ![r] = l], local}
      BY <2>1 DEF Acquire
    <3> HIDE DEF l
    <3>5. local'[r] = local[r] \/ local'[r] = l
      BY <3>4 DEF TypeOK
    <3> QED BY <3>1, <3>2, <3>3, <3>5 DEF Current
  <2>2. CASE Renew(r)
    BY <1>0, <1>1, <2>2 DEF Renew, RenewHeld, RenewLost, RenewError, TypeOK, Local
  <2>3. CASE Become(r)
    BY <1>0, <1>1, <2>3 DEF Become, TypeOK, Local, Quiet, Current
  <2>4. ASSUME NEW result \in {"done", "failed"}, JobEnds(r, result) PROVE Current'
    BY <1>0, <1>1, <2>4 DEF JobEnds, TypeOK, Local, Quiet, Current
  <2>5. CASE ResignShutdown(r) \/ EndHold(r)
    BY <1>0, <1>1, <2>5 DEF ResignShutdown, EndHold, ResignJobDone, ResignLeaseLost, Resign, TypeOK, Local
  <2>6. CASE Release(r) \/ ReleaseTimedOut(r)
    <3>1. row'.holder = row.holder /\ row'.token = row.token
      BY <2>6 DEF Release, ReleaseTimedOut, Released, TypeOK
    <3>2. /\ local[r].pc = "ending" /\ local'[r].pc = "released"
          /\ local'[r].token = local[r].token /\ local'[r].resigning = local[r].resigning
          /\ \A s \in Replicas \ {r} : local'[s] = local[s]
      BY <1>0, <2>6 DEF Release, ReleaseTimedOut, TypeOK, Local
    <3> QED BY <1>1, <3>1, <3>2 DEF Current
  <2>7. CASE RunLoops(r) \/ Crash(r)
    <3>1. local'[r].pc \in {"acquiring", "stopped"} /\ \A s \in Replicas \ {r} : local'[s] = local[s]
      <4>1. CASE RunLoops(r)
        BY <1>0, <4>1 DEF RunLoops, TypeOK, Local
      <4>2. CASE Crash(r)
        BY <4>2 DEF Crash, TypeOK, Idle
      <4> QED BY <2>7, <4>1, <4>2
    <3>2. row' = row
      BY <2>7 DEF RunLoops, Crash
    <3> QED BY <1>1, <3>1, <3>2
  <2> QED BY <1>3, <2>1, <2>2, <2>3, <2>4, <2>5, <2>6, <2>7 DEF Lease
<1>4. ASSUME NEW c \in late, LateRelease(c) PROVE Current'
  BY <1>2, <1>4 DEF LateRelease, Released, TypeOK
<1>5. CASE Lapse
  BY <1>2, <1>5 DEF Lapse, TypeOK
<1>6. CASE Publish \/ Product
  BY <1>2, <1>6 DEF Publish, PublicationContext, GuardLock, GuardLost, GuardRolledBack, GuardDone,
                    Product, ProductBegin, ProductCommit, ProductAbort, UnleasedWrite
<1>7. CASE UNCHANGED vars
  BY <1>2, <1>7 DEF vars
<1> QED BY <1>3, <1>4, <1>5, <1>6, <1>7 DEF Next

\* A claim's token goes on naming its holder when others acquire.
LEMMA NamesHolderStep ==
  TypeOK /\ Newest /\ TokenNamesHolder /\ [Next]_vars => TokenNamesHolder'
<1> SUFFICES ASSUME TypeOK, Newest, TokenNamesHolder, [Next]_vars PROVE TokenNamesHolder'
    OBVIOUS
<1>1. \A s \in Replicas : local[s].token \in Nat /\ local[s].token <= row.token
  BY DEF TypeOK, Local, Newest
<1>2. row.token \in Nat
  BY DEF TypeOK
<1>3. ASSUME NEW r \in Replicas,
             local'[r].token \in {local[r].token, NextToken(r)},
             \A s \in Replicas \ {r} : local'[s].token = local[s].token
      PROVE  TokenNamesHolder'
  BY <1>1, <1>2, <1>3 DEF Newest, NextToken, TokenNamesHolder
<1>4. ASSUME \A s \in Replicas : local'[s].token \in {local[s].token, 0}
      PROVE  TokenNamesHolder'
  BY <1>4 DEF TokenNamesHolder
<1> QED BY <1>3, <1>4, RowStep

\* Serializable transactions: what was read at the start is still a bound at the commit.
LEMMA OrderedStep == TypeOK /\ Ordered /\ [Next]_vars => Ordered'
<1> SUFFICES ASSUME TypeOK, Ordered, [Next]_vars PROVE Ordered'
    OBVIOUS
<1>0. /\ row.token \in Nat /\ head \in Nat
      /\ \A w \in writes : w.at \in Nat /\ w.token \in Nat
      /\ \A x \in txs : x.base \in Nat /\ x.token \in Nat
  BY DEF TypeOK
<1>1. row'.token \in Nat /\ row.token <= row'.token
  BY <1>0, RowStep DEF NextToken
<1>2. CASE UNCHANGED <<txs, head, writes>>
  BY <1>0, <1>1, <1>2 DEF Ordered
<1>3. ASSUME NEW r \in Replicas, ProductBegin(r) PROVE Ordered'
  BY <1>0, <1>3 DEF ProductBegin, Valid, Names, ClaimOf, Ordered
<1>4. ASSUME NEW x \in txs, ProductCommit(x) PROVE Ordered'
  BY <1>0, <1>4 DEF ProductCommit, HeadUnmoved, Ordered
<1>5. ASSUME NEW x \in txs, ProductAbort(x) PROVE Ordered'
  BY <1>0, <1>5 DEF ProductAbort, Ordered
<1>6. CASE UnleasedWrite
  BY <1>0, <1>6 DEF UnleasedWrite, Ordered
<1>7. ASSUME NEW r \in Replicas, Lease(r) PROVE UNCHANGED <<txs, head, writes>>
  BY <1>7 DEF Lease, Acquire, Renew, RenewHeld, RenewLost, RenewError, Become, JobEnds,
              ResignShutdown, EndHold, ResignJobDone, ResignLeaseLost, Resign, Release,
              ReleaseTimedOut, RunLoops, Crash
<1>8. ASSUME NEW c \in late, LateRelease(c) PROVE UNCHANGED <<txs, head, writes>>
  BY <1>8 DEF LateRelease
<1>9. CASE Lapse \/ Publish
  BY <1>2, <1>9 DEF Lapse, Publish, PublicationContext, GuardLock, GuardLost, GuardRolledBack, GuardDone
<1>10. CASE UNCHANGED vars
  BY <1>2, <1>10 DEF vars
<1> QED BY <1>2, <1>3, <1>4, <1>5, <1>6, <1>7, <1>8, <1>9, <1>10 DEF Next, Product

\* A lease-checked write is not behind one that a later claim authorised.
LEMMA WritesStep == TypeOK /\ Ordered /\ WritesFenced /\ [Next]_vars => WritesFenced'
<1> SUFFICES ASSUME TypeOK, Ordered, WritesFenced, [Next]_vars PROVE WritesFenced'
    OBVIOUS
<1>0. /\ head \in Nat
      /\ \A w \in writes : w.at \in Nat /\ w.token \in Nat /\ w.at <= head
  BY DEF TypeOK, Ordered
<1>1. CASE writes' = writes
  BY <1>1 DEF WritesFenced
<1>2. ASSUME NEW x \in txs, ProductCommit(x) PROVE WritesFenced'
  <2>1. \A w \in writes : w.token <= x.token
    BY <1>0, <1>2 DEF ProductCommit, HeadUnmoved, Ordered
  <2>2. writes' = writes \cup {[at |-> head + 1, token |-> x.token]}
    BY <1>2 DEF ProductCommit
  <2>3. x.token \in Nat
    BY DEF TypeOK
  <2> QED BY <1>0, <2>1, <2>2, <2>3 DEF WritesFenced
<1>3. ASSUME NEW r \in Replicas, Lease(r) PROVE writes' = writes
  BY <1>3 DEF Lease, Acquire, Renew, RenewHeld, RenewLost, RenewError, Become, JobEnds,
              ResignShutdown, EndHold, ResignJobDone, ResignLeaseLost, Resign, Release,
              ReleaseTimedOut, RunLoops, Crash
<1>4. ASSUME NEW c \in late, LateRelease(c) PROVE writes' = writes
  BY <1>4 DEF LateRelease
<1>5. CASE Lapse \/ Publish
  BY <1>1, <1>5 DEF Lapse, Publish, PublicationContext, GuardLock, GuardLost, GuardRolledBack, GuardDone
<1>6. CASE Product
  BY <1>1, <1>2, <1>6 DEF Product, ProductBegin, ProductAbort, UnleasedWrite
<1>7. CASE UNCHANGED vars
  BY <1>1, <1>7 DEF vars
<1> QED BY <1>1, <1>3, <1>4, <1>5, <1>6, <1>7 DEF Next

\* Where the publications after a step come from.
LEMMA PubsStep ==
  ASSUME TypeOK, [Next]_vars, NEW p \in pubs'
  PROVE  \/ p.at = "wanting"
         \/ p.at = "locked" /\ Names(p)
         \/ p.at = "adrift" /\ p.ctx = "cancelled"
         \/ \E q \in pubs : /\ p.holder = q.holder /\ p.token = q.token /\ p.at = q.at
                            /\ p.ctx = q.ctx \/ p.ctx = "cancelled"
<1> DEFINE Goal == \/ p.at = "wanting"
                   \/ p.at = "locked" /\ Names(p)
                   \/ p.at = "adrift" /\ p.ctx = "cancelled"
                   \/ \E q \in pubs : /\ p.holder = q.holder /\ p.token = q.token /\ p.at = q.at
                                      /\ p.ctx = q.ctx \/ p.ctx = "cancelled"
<1>1. ASSUME p \in pubs PROVE Goal BY <1>1
<1>2. ASSUME NEW r \in Replicas, pubs' = CancelPubs(r) PROVE Goal
  <2>1. PICK q \in pubs : p = IF q.holder = r THEN [q EXCEPT !.ctx = "cancelled"] ELSE q
    BY <1>2 DEF CancelPubs
  <2>2. q \in Publication BY DEF TypeOK
  <2>3. p.holder = q.holder /\ p.token = q.token /\ p.at = q.at /\ (p.ctx = q.ctx \/ p.ctx = "cancelled")
    BY <2>1, <2>2 DEF Publication
  <2> QED BY <2>3
<1>3. ASSUME NEW q \in pubs, GuardLock(q) PROVE Goal
  <2>1. q \in Publication BY DEF TypeOK
  <2>2. p \in pubs \/ p = [q EXCEPT !.at = "locked"] BY <1>3 DEF GuardLock, Moves
  <2>3. CASE p = [q EXCEPT !.at = "locked"]
    <3>1. p.at = "locked" /\ p.holder = q.holder /\ p.token = q.token BY <2>1, <2>3 DEF Publication
    <3> QED BY <1>3, <3>1 DEF GuardLock, Valid, Names
  <2> QED BY <1>1, <2>2, <2>3
<1>4. ASSUME NEW q \in pubs, GuardRolledBack(q) PROVE Goal
  <2>1. q \in Publication /\ q.ctx = "cancelled" BY <1>4 DEF TypeOK, GuardRolledBack
  <2>2. p \in pubs \/ p = [q EXCEPT !.at = "adrift"] BY <1>4 DEF GuardRolledBack, Moves
  <2>3. CASE p = [q EXCEPT !.at = "adrift"]
    <3>1. p.at = "adrift" /\ p.ctx = "cancelled" BY <2>1, <2>3 DEF Publication
    <3> QED BY <3>1
  <2> QED BY <1>1, <2>2, <2>3
<1>5. ASSUME NEW q \in pubs, GuardLost(q) \/ GuardDone(q) PROVE Goal
  BY <1>1, <1>5 DEF GuardLost, GuardDone
<1>6. ASSUME NEW r \in Replicas, PublicationContext(r) PROVE Goal
  BY <1>1, <1>6 DEF PublicationContext
<1>7. ASSUME NEW r \in Replicas, Lease(r) PROVE p \in pubs \/ \E s \in Replicas : pubs' = CancelPubs(s)
  BY <1>7 DEF Lease, Acquire, Renew, RenewHeld, RenewLost, RenewError, Become, JobEnds,
              ResignShutdown, EndHold, ResignJobDone, ResignLeaseLost, Resign, Release,
              ReleaseTimedOut, RunLoops, Crash
<1>8. ASSUME Lapse \/ Product \/ UNCHANGED vars \/ \E c \in late : LateRelease(c) PROVE Goal
  BY <1>1, <1>8 DEF Lapse, Product, ProductBegin, ProductCommit, ProductAbort, UnleasedWrite, LateRelease, vars
<1> HIDE DEF Goal
<1>9. ASSUME \E r \in Replicas : Lease(r) PROVE Goal BY <1>1, <1>2, <1>7, <1>9
<1>10. ASSUME Publish PROVE Goal BY <1>3, <1>4, <1>5, <1>6, <1>10 DEF Publish
<1>11. Goal BY <1>8, <1>9, <1>10 DEF Next
<1> QED BY <1>11 DEF Goal

\* The shared row lock of a publication keeps Acquire and Release from the row, and only the
\* replica's own context takes the lock away before fn returns.
LEMMA GuardedStep == TypeOK /\ Guarded /\ [Next]_vars => Guarded'
<1> SUFFICES ASSUME TypeOK, Guarded, [Next]_vars, NEW p \in pubs'
             PROVE  (p.at = "locked" => Names(p)') /\ (p.at = "adrift" => p.ctx = "cancelled")
    BY DEF Guarded, Names
<1>0. \/ p.at = "wanting"
      \/ p.at = "locked" /\ Names(p)
      \/ p.at = "adrift" /\ p.ctx = "cancelled"
      \/ \E q \in pubs : /\ p.holder = q.holder /\ p.token = q.token /\ p.at = q.at
                         /\ p.ctx = q.ctx \/ p.ctx = "cancelled"
  BY PubsStep
<1>1. p.at = "adrift" => p.ctx = "cancelled" BY <1>0 DEF Guarded
<1>2. p.at = "locked" => Names(p) BY <1>0 DEF Guarded, Names
<1>3. p.at = "locked" => row'.holder = row.holder /\ row'.token = row.token
  BY RowStep DEF Unlocked
<1> QED BY <1>1, <1>2, <1>3 DEF Names

-----------------------------------------------------------------------------
\* Every reachable state is well typed, and a replica without a hold has no job.
THEOREM TypeCorrect == Spec => []TypeOK
  BY TypeInit, TypeStep, PTL DEF Spec

\* While a guarded publication runs under a live lease context, no other replica has taken the
\* lease: withLeaseGuard's row lock is there until fn returns or the context ends.
THEOREM PublicationIsFenced == Spec => []PublicationFenced
<1>1. Init => Guarded
  BY DEF Init, Guarded
<1>2. TypeOK /\ Guarded => PublicationFenced
  <2> SUFFICES ASSUME TypeOK, Guarded, NEW p \in pubs, p.at # "wanting", p.ctx = "ok" PROVE Names(p)
    BY DEF PublicationFenced
  <2>1. p.at \in {"wanting", "locked", "adrift"} BY DEF TypeOK, Publication
  <2> QED BY <2>1 DEF Guarded
<1> QED BY <1>1, <1>2, TypeInit, TypeStep, GuardedStep, PTL DEF Spec

\* In journal order the fencing tokens of leased product writes never go back.
THEOREM WritesAreFenced == Spec => []WritesFenced
<1>1. Init => Ordered /\ WritesFenced
  BY DEF Init, Ordered, WritesFenced
<1> QED BY <1>1, TypeInit, TypeStep, OrderedStep, WritesStep, PTL DEF Spec

\* A fencing token is never held by two replicas.
THEOREM TokensAreUnique == Spec => []TokenNamesHolder
<1>1. Init => Newest /\ TokenNamesHolder
  BY DEF Init, Newest, TokenNamesHolder, Idle
<1> QED BY <1>1, TypeInit, TypeStep, NewestStep, NamesHolderStep, PTL DEF Spec

\* A replica that admits agents while it serves is in the current hold.
THEOREM OwnersAreCurrent == Spec => []OwnerIsCurrent
<1>0. Idle.pc = "acquiring"
  BY DEF Idle
<1>1. Init => Current
  BY <1>0 DEF Init, Current
<1>2. TypeOK /\ Current => OwnerIsCurrent
  BY DEF TypeOK, Quiet, Local, Current, OwnerIsCurrent, LookupHeld, Names, ClaimOf
<1> QED BY <1>1, <1>2, TypeInit, TypeStep, CurrentStep, PTL DEF Spec
=============================================================================
