-------------------------- MODULE AgentSyncProofs --------------------------
(***************************************************************************)
(* The sync of an agent implements DesiredFollow, for any number of        *)
(* allocations, sessions and revisions.  The invariant says of every piece *)
(* of state that stands for a content which one it stands for: a           *)
(* checkpoint is the content of its cursor, a diff leads from the content  *)
(* of its base to that of its target, and a history together with its      *)
(* dirty allocations leads to the product.                                 *)
(***************************************************************************)
EXTENDS AgentSync, SequenceTheorems, FiniteSetTheorems, TLAPS

\* The leaves are first-order; the ones with arithmetic or EXCEPT cite SMT.
USE ZenonT(30)

\* A message that says what the published contents D say.
MessageOK(D, m) ==
  /\ m.target \in 1..Len(D)
  /\ m.kind = "checkpoint" => m.ids = Allocs
  /\ m.kind = "diff" => m.base \in 1..Len(D)
  /\ \A a \in m.ids : m.services[a].spec = D[m.target][a]
  /\ m.kind = "diff" => \A a \in Allocs \ m.ids : D[m.base][a] = D[m.target][a]

Good(D) == {m \in Message : MessageOK(D, m)}

\* Services of a revision, and the allocations that changed until a later one.
Shows(D, services, r) == r \in 1..Len(D) /\ \A a \in Allocs : services[a].spec = D[r][a]
Covers(D, dirty, r, s) == \A a \in Allocs : a \in dirty \/ D[r][a] = D[s][a]

HistoryType == [state : {"absent", "empty", "base"}, revision : Nat, target : Nat,
                services : State, dirty : SUBSET Allocs, diffs : Seq(Message)]

HistoryOK(D, h) ==
  /\ h \in HistoryType
  /\ h.revision <= Len(D) /\ h.target <= Len(D)
  /\ h.diffs \in Seq(Good(D))
  /\ h.state = "base" => /\ Shows(D, h.services, h.revision)
                         /\ h.target = Len(D)
                         /\ Covers(D, h.dirty, h.revision, Len(D))

LoopType == [pc : {"none", "idle", "viewed", "based", "stored", "planned", "sent", "done"},
             wake : {"yes", "no"}, first : {"no", "ready", "fresh"},
             sent : Nat, sentOverlay : [Allocs -> Overlays \cup {None}],
             cursor : Nat, seen : State, revision : Nat, services : State,
             dirty : SUBSET Allocs, valid : {"yes", "no"}, plan : Seq(Message)]

LoopOK(D, p) ==
  /\ p \in LoopType
  /\ p.cursor <= Len(D) /\ p.revision <= Len(D) /\ p.sent <= Len(D)
  /\ p.plan \in Seq(Good(D))
  /\ p.pc \in {"viewed", "based", "stored", "planned", "sent"} => Shows(D, p.seen, p.cursor)
  /\ p.pc = "based" => /\ Shows(D, p.services, p.revision)
                       /\ Covers(D, p.dirty, p.revision, p.cursor)
  /\ p.pc = "based" /\ p.valid = "yes" => p.cursor = Len(D)
  /\ p.pc = "planned" => p.plan # <<>>

AgentType == [session : 0..MaxSession, ready : {"yes", "no"}, cursor : Nat, services : State]

AgentOK(D, x) ==
  /\ x \in AgentType
  /\ x.cursor <= Len(D)
  /\ x.ready = "yes" => Shows(D, x.services, x.cursor)
  /\ x.ready = "no" => x.cursor = 0 /\ x.services = NoState

Inv == /\ desired \in Seq(Content) /\ Len(desired) > 0
       /\ overlay \in Overlay /\ observed \in Nat /\ session \in 0..MaxSession
       /\ HistoryOK(desired, history)
       /\ DOMAIN loop = Sessions /\ loop = [l \in Sessions |-> loop[l]]
       /\ \A l \in Sessions : LoopOK(desired, loop[l])
       /\ stream \in Seq(Good(desired))
       /\ AgentOK(desired, agent)
-----------------------------------------------------------------------------
\* The entries of a sequence after the first k.
LEMMA Suffix ==
  ASSUME NEW S, NEW q \in Seq(S), NEW n \in Nat, n = Len(q), NEW k \in Nat
  PROVE  /\ SubSeq(q, k + 1, n) \in Seq(S)
         /\ Len(SubSeq(q, k + 1, n)) = IF k + 1 <= n THEN n - k ELSE 0
         /\ \A i \in 1..(n - k) : SubSeq(q, k + 1, n)[i] = q[k + i]
<1>1. \A i \in (k + 1)..n : q[i] \in S BY ElementOfSeq, SMT
<1> PICK d : d = SubSeq(q, k + 1, n) OBVIOUS
<1> QED BY <1>1, SubSeqProperties, SMT

\* A commit appends a content and keeps the earlier ones.
LEMMA Grow ==
  ASSUME NEW D \in Seq(Content), NEW c \in Content
  PROVE  /\ Append(D, c) \in Seq(Content) /\ Len(Append(D, c)) = Len(D) + 1
         /\ \A r \in 1..Len(D) : Append(D, c)[r] = D[r]
         /\ Append(D, c)[Len(D) + 1] = c
BY SMT DEF Content

\* What was true of a message stays true when contents are appended.
LEMMA GoodGrows ==
  ASSUME NEW D \in Seq(Content), NEW c \in Content
  PROVE  Good(D) \subseteq Good(Append(D, c))
<1> PICK E : E = Append(D, c) OBVIOUS
<1>1. Len(D) \in Nat /\ Len(E) = Len(D) + 1 /\ \A r \in 1..Len(D) : E[r] = D[r] BY Grow, SMT
<1>2. ASSUME NEW m \in Message, MessageOK(D, m) PROVE MessageOK(E, m)
  <2>1. m.target \in 1..Len(E) /\ m.target \in 1..Len(D) BY <1>1, <1>2, SMT DEF MessageOK
  <2>2. m.kind = "diff" => m.base \in 1..Len(E) /\ m.base \in 1..Len(D) BY <1>1, <1>2, SMT DEF MessageOK
  <2> QED BY <1>1, <1>2, <2>1, <2>2 DEF MessageOK
<1> QED BY <1>2 DEF Good

\* Messages that stood for published contents still do after a commit.
LEMMA SeqGoodGrows ==
  ASSUME NEW D \in Seq(Content), NEW c \in Content, NEW q \in Seq(Good(D))
  PROVE  q \in Seq(Good(Append(D, c)))
BY GoodGrows, SeqMonotonic

\* A sequence of messages that stand for published contents is a sequence of messages.
LEMMA GoodIsMessage ==
  ASSUME NEW D, NEW q \in Seq(Good(D)) PROVE q \in Seq(Message)
<1>1. Good(D) \subseteq Message BY DEF Good
<1> QED BY <1>1, SeqMonotonic

\* The empty store is a store.
LEMMA NoStateType == NoService \in Service /\ NoState \in State
BY DEF NoService, NoState, Service, State

\* What agentView renders is a store that shows the content it was rendered from.
LEMMA RenderType ==
  ASSUME NEW c \in Content, NEW o \in Overlay
  PROVE  /\ Render(c, o) \in State
         /\ \A a \in Allocs : Render(c, o)[a].spec = c[a]
<1>1. ASSUME NEW a \in Allocs PROVE Render(c, o)[a] \in Service /\ Render(c, o)[a].spec = c[a]
  BY NoStateType DEF Render, Content, Overlay, NoService, Service
<1>2. Render(c, o) = [a \in Allocs |-> Render(c, o)[a]] BY DEF Render
<1> QED BY <1>1, <1>2 DEF State

\* The overlay of a store.
LEMMA OverlayType ==
  ASSUME NEW x \in State PROVE OverlayVersion(x) \in [Allocs -> Overlays \cup {None}]
BY DEF OverlayVersion, State, Service

-----------------------------------------------------------------------------
(* The records of a loop. *)

\* A loop that has not started, and one that has returned, stand for nothing.
LEMMA NoLoopOK ==
  ASSUME NEW D \in Seq(Content)
  PROVE  LoopOK(D, NoLoop) /\ LoopOK(D, Returned)
<1>1. <<>> \in Seq(Message) /\ <<>> \in Seq(Good(D)) /\ Len(D) \in Nat BY EmptySeq, SMT
<1>2. ASSUME NEW e \in LoopType, e.cursor = 0, e.revision = 0, e.sent = 0, e.plan = <<>>, e.pc \in {"none", "done"}
      PROVE  LoopOK(D, e)
  BY <1>1, <1>2, SMT DEF LoopOK
<1>3. NoLoop \in LoopType BY <1>1, NoStateType, OverlayType DEF LoopType, NoLoop
<1>4. Returned \in LoopType BY <1>1, NoStateType, OverlayType DEF LoopType, NoLoop, Returned
<1>5. LoopOK(D, NoLoop) BY <1>2, <1>3 DEF NoLoop
<1>6. LoopOK(D, Returned)
  <2>1. /\ Returned.cursor = 0 /\ Returned.revision = 0 /\ Returned.sent = 0 /\ Returned.plan = <<>>
        /\ Returned.pc = "done"
    BY DEF NoLoop, Returned
  <2> QED BY <1>2, <1>4, <2>1
<1> QED BY <1>5, <1>6

\* sendLoop keeps only its position between two batches.
LEMMA IdleOK ==
  ASSUME NEW D \in Seq(Content), NEW p, LoopOK(D, p)
  PROVE  LoopOK(D, Idle(p))
<1> PICK e : e = Idle(p) OBVIOUS
<1>1. <<>> \in Seq(Message) /\ <<>> \in Seq(Good(D)) /\ Len(D) \in Nat BY EmptySeq, SMT
<1>2. e \in LoopType BY <1>1, NoStateType, OverlayType DEF LoopOK, LoopType, NoLoop, Idle
<1>3. e.cursor = 0 /\ e.revision = 0 /\ e.sent = p.sent /\ e.plan = <<>> /\ e.pc = "idle" BY DEF NoLoop, Idle
<1> QED BY <1>1, <1>2, <1>3, SMT DEF LoopOK

\* A plan of good messages.
LEMMA PlannedOK ==
  ASSUME NEW D \in Seq(Content), NEW p, LoopOK(D, p), Shows(D, p.seen, p.cursor),
         NEW plan \in Seq(Good(D)), plan # <<>>
  PROVE  LoopOK(D, Planned(p, plan))
<1> PICK e : e = Planned(p, plan) OBVIOUS
<1>1. plan \in Seq(Message) /\ Len(D) \in Nat BY GoodIsMessage, SMT
<1>2. e \in LoopType BY <1>1, NoStateType, OverlayType DEF LoopOK, LoopType, NoLoop, Idle, Planned
<1>3. /\ e.cursor = p.cursor /\ e.revision = 0 /\ e.sent = p.sent /\ e.plan = plan
      /\ e.pc = "planned" /\ e.seen = p.seen
  BY DEF NoLoop, Idle, Planned
<1> QED BY <1>1, <1>2, <1>3, SMT DEF LoopOK

\* A checkpoint of the captured prefix is a good message.
LEMMA CheckpointOK ==
  ASSUME NEW D \in Seq(Content), NEW p, LoopOK(D, p), Shows(D, p.seen, p.cursor)
  PROVE  Checkpoint(p) \in Seq(Good(D)) /\ Checkpoint(p) # <<>>
<1> PICK m : m = [kind |-> "checkpoint", base |-> 0, target |-> p.cursor, ids |-> Allocs, services |-> p.seen] OBVIOUS
<1>1. m \in Message BY DEF Message, LoopOK, LoopType
<1>2. MessageOK(D, m) BY DEF MessageOK, Shows
<1>3. m \in Good(D) BY <1>1, <1>2 DEF Good
<1> QED BY <1>3, SMT DEF Checkpoint

\* PlanAgentSync may always fall back to a checkpoint.
LEMMA PlannedCheckpointOK ==
  ASSUME NEW D \in Seq(Content), NEW p, LoopOK(D, p), Shows(D, p.seen, p.cursor)
  PROVE  LoopOK(D, Planned(p, Checkpoint(p)))
BY PlannedOK, CheckpointOK

\* notifyLocked changes nothing but the notification.
LEMMA NotifiedOK ==
  ASSUME NEW D \in Seq(Content), NEW p, LoopOK(D, p)
  PROVE  LoopOK(D, Notified(p))
<1>1. CASE p.pc \in {"none", "done"} BY <1>1 DEF Notified
<1>2. CASE p.pc \notin {"none", "done"}
  <2> PICK e : e = [p EXCEPT !.wake = "yes"] OBVIOUS
  <2>1. e \in LoopType BY DEF LoopOK, LoopType
  <2>2. /\ e.pc = p.pc /\ e.cursor = p.cursor /\ e.seen = p.seen /\ e.revision = p.revision /\ e.sent = p.sent
        /\ e.services = p.services /\ e.dirty = p.dirty /\ e.valid = p.valid /\ e.plan = p.plan
    BY DEF LoopOK, LoopType
  <2> QED BY <1>2, <2>1, <2>2 DEF LoopOK, Notified
<1> QED BY <1>1, <1>2

\* A baseline that does not match its history any more promises less.
LEMMA OutdatedOK ==
  ASSUME NEW D \in Seq(Content), NEW p, LoopOK(D, p)
  PROVE  LoopOK(D, Outdated(p)) /\ (Outdated(p).pc = "based" => Outdated(p).valid = "no")
<1>1. CASE p.pc # "based" BY <1>1 DEF Outdated
<1>2. CASE p.pc = "based"
  <2> PICK e : e = [p EXCEPT !.valid = "no"] OBVIOUS
  <2>1. e \in LoopType BY DEF LoopOK, LoopType
  <2>2. /\ e.pc = p.pc /\ e.cursor = p.cursor /\ e.seen = p.seen /\ e.revision = p.revision /\ e.sent = p.sent
        /\ e.services = p.services /\ e.dirty = p.dirty /\ e.valid = "no" /\ e.plan = p.plan
    BY DEF LoopOK, LoopType
  <2>3. LoopOK(D, e) BY <1>2, <2>1, <2>2 DEF LoopOK
  <2> QED BY <1>2, <2>2, <2>3 DEF Outdated
<1> QED BY <1>1, <1>2

\* A loop that does not rely on the product's last revision survives a commit.
LEMMA LoopGrows ==
  ASSUME NEW D \in Seq(Content), NEW c \in Content, NEW p, LoopOK(D, p),
         p.pc = "based" => p.valid = "no"
  PROVE  LoopOK(Append(D, c), p)
<1> PICK E : E = Append(D, c) OBVIOUS
<1>1. Len(D) \in Nat /\ Len(E) = Len(D) + 1 /\ \A r \in 1..Len(D) : E[r] = D[r] BY Grow, SMT
<1>2. p.plan \in Seq(Good(E)) BY SeqGoodGrows DEF LoopOK
<1>3. p.cursor <= Len(E) /\ p.revision <= Len(E) /\ p.sent <= Len(E) BY <1>1, SMT DEF LoopOK, LoopType
<1>4. ASSUME Shows(D, p.seen, p.cursor) PROVE Shows(E, p.seen, p.cursor) BY <1>1, <1>4, SMT DEF Shows
<1>5. ASSUME p.pc = "based"
      PROVE  Shows(E, p.services, p.revision) /\ Covers(E, p.dirty, p.revision, p.cursor)
  <2>1. p.cursor \in 1..Len(D) /\ p.revision \in 1..Len(D) BY <1>5 DEF LoopOK, Shows
  <2> QED BY <1>1, <1>5, <2>1, SMT DEF LoopOK, Shows, Covers
<1> QED BY <1>2, <1>3, <1>4, <1>5 DEF LoopOK

-----------------------------------------------------------------------------
(* The history. *)

\* An agent without a history.
LEMMA NoHistoryOK ==
  ASSUME NEW D \in Seq(Content) PROVE HistoryOK(D, NoHistory)
<1>1. <<>> \in Seq(Message) /\ <<>> \in Seq(Good(D)) /\ Len(D) \in Nat BY EmptySeq, SMT
<1>2. NoHistory \in HistoryType BY <1>1, NoStateType DEF HistoryType, NoHistory
<1> QED BY <1>1, <1>2, SMT DEF HistoryOK, NoHistory

\* historyFor.
LEMMA HistoryForOK ==
  ASSUME NEW D \in Seq(Content), HistoryOK(D, history)
  PROVE  HistoryOK(D, HistoryFor)
<1>1. CASE history.state # "absent" BY <1>1 DEF HistoryFor
<1>2. CASE history.state = "absent"
  <2> PICK e : e = [NoHistory EXCEPT !.state = "empty"] OBVIOUS
  <2>1. <<>> \in Seq(Message) /\ <<>> \in Seq(Good(D)) /\ Len(D) \in Nat BY EmptySeq, SMT
  <2>2. e \in HistoryType BY <2>1, NoStateType DEF HistoryType, NoHistory
  <2>3. e.state = "empty" /\ e.revision = 0 /\ e.target = 0 /\ e.diffs = <<>> BY DEF NoHistory
  <2>4. e.revision <= Len(D) /\ e.target <= Len(D) BY <2>1, <2>3, SMT
  <2>5. HistoryOK(D, e) BY <2>1, <2>2, <2>3, <2>4 DEF HistoryOK
  <2> QED BY <1>2, <2>5 DEF HistoryFor
<1> QED BY <1>1, <1>2

\* A history that dropped its base promises nothing but its bounds.
LEMMA EmptiedOK ==
  ASSUME NEW D \in Seq(Content), NEW h \in HistoryType, h.revision <= Len(D),
         NEW t \in Nat, t <= Len(D)
  PROVE  HistoryOK(D, Emptied(h, t))
<1> PICK e : e = Emptied(h, t) OBVIOUS
<1>1. <<>> \in Seq(Message) /\ <<>> \in Seq(Good(D)) /\ Len(D) \in Nat BY EmptySeq, SMT
<1>2. e \in HistoryType BY <1>1, NoStateType DEF HistoryType, NoHistory, Emptied
<1>3. e.state = "empty" /\ e.revision = h.revision /\ e.target = t /\ e.diffs = <<>> BY DEF NoHistory, Emptied
<1> QED BY <1>1, <1>2, <1>3 DEF HistoryOK

\* A history follows a commit: it is marked, emptied or absent.
LEMMA AppliedOK ==
  ASSUME NEW D \in Seq(Content), Len(D) > 0, NEW c \in Content, HistoryOK(D, history), NEW ids \in SUBSET Allocs,
         {a \in Allocs : c[a] # D[Len(D)][a]} \subseteq ids
  PROVE  HistoryOK(Append(D, c), Applied(ids, Len(D) + 1))
<1> PICK E : E = Append(D, c) OBVIOUS
<1>1. /\ Len(D) \in Nat /\ Len(E) = Len(D) + 1 /\ E \in Seq(Content)
      /\ \A r \in 1..Len(D) : E[r] = D[r] /\ E[Len(E)] = c
  BY Grow, SMT
<1>2. history \in HistoryType /\ history.revision <= Len(E) /\ history.target <= Len(E)
  BY <1>1, SMT DEF HistoryOK, HistoryType
<1>3. history.diffs \in Seq(Good(E)) BY SeqGoodGrows DEF HistoryOK
<1>4. CASE history.state = "absent"
  <2>1. HistoryOK(E, history) BY <1>2, <1>3, <1>4 DEF HistoryOK
  <2> QED BY <1>4, <2>1 DEF Applied
<1>5. CASE history.state = "empty"
  <2> PICK e : e = [history EXCEPT !.target = Len(D) + 1] OBVIOUS
  <2>0. history \in HistoryType /\ Len(D) + 1 \in Nat BY <1>1, <1>2, SMT
  <2>1. e \in HistoryType BY <2>0 DEF HistoryType
  <2>2. e.state = "empty" /\ e.revision = history.revision /\ e.target = Len(E) /\ e.diffs = history.diffs
    BY <1>1, <1>2, <1>5 DEF HistoryType
  <2>3. HistoryOK(E, e) BY <1>1, <1>2, <1>3, <2>1, <2>2, SMT DEF HistoryOK
  <2> QED BY <1>5, <2>3 DEF Applied
<1>6. CASE history.state = "base" /\ Cardinality(history.dirty \cup ids) > MaxPatch
  <2>0. Len(D) + 1 \in Nat /\ Len(D) + 1 <= Len(E) BY <1>1, SMT
  <2>1. HistoryOK(E, Emptied(history, Len(D) + 1)) BY <1>1, <1>2, <2>0, EmptiedOK
  <2> QED BY <1>6, <2>1 DEF Applied
<1>7. CASE history.state = "base" /\ ~(Cardinality(history.dirty \cup ids) > MaxPatch)
  <2> PICK e : e = [history EXCEPT !.target = Len(D) + 1, !.dirty = history.dirty \cup ids] OBVIOUS
  <2>0. history.dirty \cup ids \in SUBSET Allocs /\ Len(D) + 1 \in Nat BY <1>1, <1>2, SMT DEF HistoryType
  <2>1. e \in HistoryType BY <1>2, <2>0 DEF HistoryType
  <2>2. /\ e.state = "base" /\ e.revision = history.revision /\ e.target = Len(E) /\ e.diffs = history.diffs
        /\ e.services = history.services /\ e.dirty = history.dirty \cup ids
    BY <1>1, <1>2, <1>7 DEF HistoryType
  <2>3. history.revision \in 1..Len(D) /\ history.revision \in 1..Len(E) BY <1>1, <1>7, SMT DEF HistoryOK, Shows
  <2>4. Shows(E, e.services, e.revision) BY <1>1, <1>7, <2>2, <2>3 DEF HistoryOK, Shows
  <2>5. Covers(E, e.dirty, e.revision, Len(E))
    <3> SUFFICES ASSUME NEW a \in Allocs, a \notin e.dirty PROVE E[e.revision][a] = E[Len(E)][a]
      BY DEF Covers
    <3>1. a \notin history.dirty /\ a \notin ids BY <2>2
    <3>2. D[history.revision][a] = D[Len(D)][a] BY <1>7, <3>1 DEF HistoryOK, Covers
    <3>3. c[a] = D[Len(D)][a] BY <3>1
    <3> QED BY <1>1, <2>2, <2>3, <3>2, <3>3
  <2>6. HistoryOK(E, e) BY <1>1, <1>2, <1>3, <2>1, <2>2, <2>4, <2>5, SMT DEF HistoryOK
  <2> QED BY <1>7, <2>6 DEF Applied
<1> QED BY <1>2, <1>4, <1>5, <1>6, <1>7 DEF HistoryType

\* applied, when the batches leave a gap.
LEMMA AppliedResetOK ==
  ASSUME NEW D \in Seq(Content), Len(D) > 0, NEW c \in Content, HistoryOK(D, history)
  PROVE  HistoryOK(Append(D, c), AppliedReset(Len(D) + 1))
<1> PICK E : E = Append(D, c) OBVIOUS
<1>1. Len(D) \in Nat /\ Len(E) = Len(D) + 1 /\ E \in Seq(Content) BY Grow, SMT
<1>2. history \in HistoryType /\ history.revision <= Len(E) /\ history.target <= Len(E)
  BY <1>1, SMT DEF HistoryOK, HistoryType
<1>3. history.diffs \in Seq(Good(E)) BY SeqGoodGrows DEF HistoryOK
<1>4. CASE history.state = "absent"
  <2>1. HistoryOK(E, history) BY <1>2, <1>3, <1>4 DEF HistoryOK
  <2> QED BY <1>4, <2>1 DEF AppliedReset
<1>5. CASE history.state # "absent"
  <2>0. Len(D) + 1 \in Nat /\ Len(D) + 1 <= Len(E) BY <1>1, SMT
  <2>1. HistoryOK(E, Emptied(history, Len(D) + 1)) BY <1>1, <1>2, <2>0, EmptiedOK
  <2> QED BY <1>5, <2>1 DEF AppliedReset
<1> QED BY <1>4, <1>5

\* A checkpoint of the product's revision becomes the baseline.
LEMMA RebasedOK ==
  ASSUME NEW D \in Seq(Content), NEW h, HistoryOK(D, h), NEW services \in State,
         NEW cursor, cursor = Len(D), Shows(D, services, cursor)
  PROVE  HistoryOK(D, Rebased(h, cursor, services))
<1>1. CASE h.state = "base" /\ cursor < h.revision BY <1>1 DEF Rebased
<1>2. CASE ~(h.state = "base" /\ cursor < h.revision)
  <2> PICK t : t = IF h.target < cursor THEN cursor ELSE h.target OBVIOUS
  <2> PICK d : d = IF h.target <= cursor THEN {} ELSE h.dirty OBVIOUS
  <2> PICK e : e = [h EXCEPT !.state = "base", !.revision = cursor, !.services = services,
                             !.target = t, !.diffs = <<>>, !.dirty = d] OBVIOUS
  <2>1. <<>> \in Seq(Message) /\ <<>> \in Seq(Good(D)) /\ Len(D) \in Nat BY EmptySeq, SMT
  <2>2. h \in HistoryType /\ h.target <= Len(D) BY DEF HistoryOK
  <2>3. t = Len(D) /\ t \in Nat /\ d = {} BY <2>1, <2>2, SMT DEF HistoryType
  <2>4. e \in HistoryType BY <2>1, <2>2, <2>3 DEF HistoryType
  <2>5. /\ e.state = "base" /\ e.revision = cursor /\ e.services = services /\ e.target = Len(D)
        /\ e.diffs = <<>> /\ e.dirty = {}
    BY <2>2, <2>3 DEF HistoryType
  <2>6. HistoryOK(D, e) BY <2>1, <2>4, <2>5, SMT DEF HistoryOK, Covers
  <2>7. Rebased(h, cursor, services) = e BY <1>2 DEF Rebased
  <2> QED BY <2>6, <2>7
<1> QED BY <1>1, <1>2

\* The patch of a captured baseline leads to the captured revision.
LEMMA PatchedOK ==
  ASSUME NEW D \in Seq(Content), NEW p, LoopOK(D, p), p.pc = "based"
  PROVE  /\ Patched(p) \in State /\ Shows(D, Patched(p), p.cursor)
         /\ DiffOf(p) \in Good(D)
<1>1. /\ p.seen \in State /\ p.services \in State /\ p.cursor \in 1..Len(D) /\ p.revision \in 1..Len(D)
      /\ p.dirty \subseteq Allocs /\ Len(D) \in Nat
      /\ \A a \in Allocs : p.seen[a].spec = D[p.cursor][a] /\ p.services[a].spec = D[p.revision][a]
      /\ \A a \in Allocs : a \in p.dirty \/ D[p.revision][a] = D[p.cursor][a]
  BY SMT DEF LoopOK, LoopType, Shows, Covers
<1>2. Rendered(p) \subseteq Allocs /\ p.dirty \subseteq Rendered(p) BY <1>1 DEF Rendered
<1>3. ASSUME NEW a \in Allocs
      PROVE  Patched(p)[a] \in Service /\ Patched(p)[a].spec = D[p.cursor][a]
  BY <1>1, <1>2 DEF Patched, State
<1>4. Patched(p) \in State
  <2>1. Patched(p) = [a \in Allocs |-> Patched(p)[a]] BY DEF Patched
  <2> QED BY <1>3, <2>1 DEF State
<1>5. Shows(D, Patched(p), p.cursor) BY <1>1, <1>3 DEF Shows
<1> PICK ids : ids = {a \in Rendered(p) : p.seen[a] # p.services[a]} OBVIOUS
<1> PICK patch : patch = [a \in Allocs |-> IF a \in ids THEN p.seen[a] ELSE NoService] OBVIOUS
<1> PICK m : m = [kind |-> "diff", base |-> p.revision, target |-> p.cursor, ids |-> ids, services |-> patch] OBVIOUS
<1>6. ids \subseteq Allocs BY <1>2
<1>7. patch \in State BY <1>1, NoStateType DEF State
<1>8. m \in Message BY <1>1, <1>6, <1>7, SMT DEF Message
<1>9. \A a \in ids : patch[a].spec = D[p.cursor][a] BY <1>1, <1>6
<1>10. ASSUME NEW a \in Allocs \ ids PROVE D[p.revision][a] = D[p.cursor][a]
  <2>1. CASE a \in Rendered(p)
    <3>1. p.seen[a] = p.services[a] BY <2>1
    <3> QED BY <1>1, <3>1
  <2>2. CASE a \notin Rendered(p) BY <1>1, <1>2, <2>2
  <2> QED BY <2>1, <2>2
<1>11. MessageOK(D, m) BY <1>1, <1>9, <1>10 DEF MessageOK
<1>12. m \in Good(D) BY <1>8, <1>11 DEF Good
<1>13. DiffOf(p) = m BY DEF DiffOf
<1> QED BY <1>4, <1>5, <1>12, <1>13

\* The limit on entries drops the oldest diff.
LEMMA BoundedOK ==
  ASSUME NEW S, NEW q \in Seq(S) PROVE Bounded(q) \in Seq(S)
<1>1. CASE Len(q) > MaxDiffEntries
  <2>1. Len(q) # 0 BY <1>1, BoundAssumption, LenProperties, SMT
  <2>2. q # <<>> BY <2>1, EmptySeq
  <2> QED BY <1>1, <2>2, HeadTailProperties DEF Bounded
<1>2. CASE ~(Len(q) > MaxDiffEntries) BY <1>2 DEF Bounded
<1> QED BY <1>1, <1>2

\* A diff accepted by acceptDiff makes the captured revision the history's.
LEMMA AcceptDiffOK ==
  ASSUME NEW D \in Seq(Content), HistoryOK(D, history), NEW p, LoopOK(D, p), p.pc = "based", Accepts(p)
  PROVE  HistoryOK(D, [history EXCEPT !.revision = p.cursor, !.services = Patched(p), !.dirty = {},
                                      !.diffs = Bounded(Append(history.diffs, DiffOf(p)))])
<1> PICK q : q = Bounded(Append(history.diffs, DiffOf(p))) OBVIOUS
<1> PICK s : s = Patched(p) OBVIOUS
<1> PICK e : e = [history EXCEPT !.revision = p.cursor, !.services = s, !.dirty = {}, !.diffs = q] OBVIOUS
<1>1. s \in State /\ Shows(D, s, p.cursor) /\ DiffOf(p) \in Good(D) BY PatchedOK
<1>2. history \in HistoryType /\ history.diffs \in Seq(Good(D)) BY DEF HistoryOK
<1>3. q \in Seq(Good(D))
  <2>1. Append(history.diffs, DiffOf(p)) \in Seq(Good(D)) BY <1>1, <1>2, AppendProperties
  <2> QED BY <2>1, BoundedOK
<1>4. q \in Seq(Message) BY <1>3, GoodIsMessage
<1>5. p.cursor = Len(D) /\ p.cursor \in Nat /\ history.state = "base" /\ history.target = Len(D)
  BY DEF Accepts, LoopOK, LoopType, HistoryOK
<1>6. e \in HistoryType BY <1>1, <1>2, <1>4, <1>5 DEF HistoryType
<1>7. /\ e.state = "base" /\ e.revision = Len(D) /\ e.target = Len(D) /\ e.services = s /\ e.dirty = {} /\ e.diffs = q
  BY <1>2, <1>5 DEF HistoryType
<1>8. HistoryOK(D, e) BY <1>1, <1>3, <1>5, <1>6, <1>7 DEF HistoryOK, Covers
<1> QED BY <1>8

\* The stored diffs that a loop takes.
LEMMA ChainOK ==
  ASSUME NEW D \in Seq(Content), HistoryOK(D, history), NEW base \in Nat
  PROVE  Chain(history, base) \in Seq(Good(D))
<1> PICK q : q = history.diffs OBVIOUS
<1>1. q \in Seq(Good(D)) /\ Len(q) \in Nat /\ \A i \in 1..Len(q) : q[i] \in Good(D)
  BY LenProperties, ElementOfSeq DEF HistoryOK
<1>2. Skipped(q, base) \in Nat
  <2>1. IsFiniteSet(1..Len(q)) BY <1>1, FS_Interval, SMT
  <2>2. IsFiniteSet({i \in 1..Len(q) : q[i].target <= base}) BY <2>1, FS_Subset
  <2> QED BY <2>2, FS_CardinalityType DEF Skipped
<1>3. From(q, base) \in Seq(Good(D))
  <2>1. \A i \in (Skipped(q, base) + 1)..Len(q) : q[i] \in Good(D) BY <1>1, <1>2, SMT
  <2> QED BY <1>1, <1>2, <2>1, SubSeqProperties, SMT DEF From
<1> QED BY <1>3, EmptySeq DEF Chain

-----------------------------------------------------------------------------
(* The invariant is inductive. *)

\* The inductive invariant holds before the first commit.
LEMMA InvInit == Init => Inv
<1> SUFFICES ASSUME Init PROVE Inv OBVIOUS
<1>1. desired \in Seq(Content) /\ Len(desired) > 0 BY SMT DEF Init, Content
<1>2. HistoryOK(desired, history) BY <1>1, NoHistoryOK DEF Init
<1>3. \A l \in Sessions : LoopOK(desired, loop[l]) BY <1>1, NoLoopOK DEF Init
<1>4. stream \in Seq(Good(desired)) BY EmptySeq DEF Init
<1>5. agent \in AgentType BY NoStateType, BoundAssumption, SMT DEF Init, AgentType
<1>6. AgentOK(desired, agent) BY <1>1, <1>5, SMT DEF Init, AgentOK
<1> QED BY <1>1, <1>2, <1>3, <1>4, <1>6, BoundAssumption, SMT DEF Init, Inv

\* One loop moves, the published contents stay.
LEMMA OneLoop ==
  ASSUME Inv, NEW l \in Sessions, NEW e, LoopOK(desired, e),
         loop' = [loop EXCEPT ![l] = e], desired' = desired
  PROVE  /\ DOMAIN loop' = Sessions /\ loop' = [m \in Sessions |-> loop'[m]]
         /\ \A m \in Sessions : LoopOK(desired', loop'[m])
<1>1. \A m \in Sessions : loop'[m] = IF m = l THEN e ELSE loop[m] BY DEF Inv
<1>2. \A m \in Sessions : LoopOK(desired, loop'[m]) BY <1>1 DEF Inv
<1>3. DOMAIN loop' = Sessions /\ loop' = [m \in Sessions |-> loop'[m]] BY DEF Inv
<1> QED BY <1>2, <1>3

\* All loops are told something, the published contents stay.
LEMMA AllLoops ==
  ASSUME Inv, DOMAIN loop' = Sessions, loop' = [m \in Sessions |-> loop'[m]], desired' = desired,
         \A m \in Sessions : \/ loop'[m] \in {loop[m], NoLoop, Returned}
                              \/ loop'[m] = Notified(loop[m])
                              \/ loop'[m] = Outdated(loop[m])
  PROVE  \A m \in Sessions : LoopOK(desired', loop'[m])
<1> SUFFICES ASSUME NEW m \in Sessions PROVE LoopOK(desired, loop'[m]) OBVIOUS
<1>1. desired \in Seq(Content) /\ LoopOK(desired, loop[m]) BY DEF Inv
<1>2. /\ LoopOK(desired, Notified(loop[m])) /\ LoopOK(desired, Outdated(loop[m]))
      /\ LoopOK(desired, NoLoop) /\ LoopOK(desired, Returned)
  BY <1>1, NotifiedOK, OutdatedOK, NoLoopOK
<1> QED BY <1>1, <1>2

\* A commit appends a content and outdates the captured baselines.
LEMMA CommitStep ==
  ASSUME Inv, NEW c \in Content, desired' = Append(desired, c),
         HistoryOK(desired', history'),
         loop' = [l \in Sessions |-> Notified(Outdated(loop[l]))],
         UNCHANGED <<overlay, observed, session, stream, agent>>
  PROVE  Inv'
<1> PICK D : D = desired OBVIOUS
<1> PICK E : E = Append(D, c) OBVIOUS
<1>1. /\ D \in Seq(Content) /\ Len(D) > 0 /\ Len(D) \in Nat
      /\ E \in Seq(Content) /\ Len(E) = Len(D) + 1 /\ \A r \in 1..Len(D) : E[r] = D[r]
  BY Grow, SMT DEF Inv
<1>2. ASSUME NEW l \in Sessions PROVE LoopOK(E, loop'[l])
  <2>1. LoopOK(D, loop[l]) BY DEF Inv
  <2> PICK p : p = Outdated(loop[l]) OBVIOUS
  <2>2. LoopOK(D, p) /\ (p.pc = "based" => p.valid = "no") BY <1>1, <2>1, OutdatedOK
  <2>3. LoopOK(E, p) BY <1>1, <2>2, LoopGrows
  <2>4. LoopOK(E, Notified(p)) BY <1>1, <2>3, NotifiedOK
  <2> QED BY <2>4
<1>3. DOMAIN loop' = Sessions /\ loop' = [l \in Sessions |-> loop'[l]] OBVIOUS
<1>4. stream' \in Seq(Good(E)) BY <1>1, SeqGoodGrows DEF Inv
<1>5. AgentOK(E, agent') BY <1>1, SMT DEF Inv, AgentOK, AgentType, Shows
<1>6. desired' = E OBVIOUS
<1>7. overlay' \in Overlay /\ observed' \in Nat /\ session' \in 0..MaxSession BY DEF Inv
<1>8. HistoryOK(E, history') BY <1>6
<1>9. Len(E) > 0 BY <1>1, SMT
<1> QED BY <1>1, <1>2, <1>3, <1>4, <1>5, <1>6, <1>7, <1>8, <1>9 DEF Inv

\* The part of the invariant that one loop rests on.
LEMMA LoopKnows ==
  ASSUME Inv, NEW l \in Sessions
  PROVE  /\ desired \in Seq(Content) /\ LoopOK(desired, loop[l])
         /\ HistoryOK(desired, history) /\ HistoryOK(desired, HistoryFor)
         /\ loop[l].pc \in {"viewed", "based", "stored", "planned", "sent"} => Shows(desired, loop[l].seen, loop[l].cursor)
BY HistoryForOK DEF Inv, LoopOK

\* Steps that move only the loop, or the loop and the history.
LEMMA LoopFrame ==
  ASSUME Inv, NEW l \in Sessions, NEW e, LoopOK(desired, e), loop' = [loop EXCEPT ![l] = e],
         HistoryOK(desired, history'),
         UNCHANGED <<desired, overlay, observed, session, stream, agent>>
  PROVE  Inv'
BY OneLoop DEF Inv

\* The steps of planning.
LEMMA PlanStep ==
  ASSUME Inv, NEW l \in Sessions, Fail(l) \/ View(l) \/ PlanCheckpoint(l) \/ PlanNothing(l)
  PROVE  Inv'
<1> PICK p : p = loop[l] OBVIOUS
<1>0. /\ desired \in Seq(Content) /\ LoopOK(desired, p) /\ p \in LoopType
      /\ HistoryOK(desired, history)
      /\ p.pc = "viewed" => Shows(desired, p.seen, p.cursor)
  BY LoopKnows DEF LoopOK
<1>1. CASE Fail(l)
  <2>1. LoopOK(desired, Returned) BY <1>0, NoLoopOK
  <2> QED BY <1>0, <1>1, <2>1, LoopFrame DEF Fail
<1>2. CASE View(l)
  <2> PICK c : c = Len(desired) OBVIOUS
  <2> PICK n : n = Render(desired[Current], overlay) OBVIOUS
  <2> PICK e : e = [p EXCEPT !.pc = "viewed", !.wake = "no", !.cursor = c, !.seen = n] OBVIOUS
  <2>1. c \in 1..Len(desired) /\ c \in Nat /\ Len(desired) \in Nat BY <1>0, SMT DEF Inv
  <2>2. desired[c] \in Content BY <1>0, <2>1, ElementOfSeq
  <2>3. n \in State /\ Shows(desired, n, c) BY <2>1, <2>2, RenderType DEF Inv, Shows, Current
  <2>4. e \in LoopType BY <1>0, <2>1, <2>3 DEF LoopType
  <2>5. /\ e.pc = "viewed" /\ e.cursor = c /\ e.seen = n /\ e.revision = p.revision /\ e.sent = p.sent /\ e.plan = p.plan
    BY <1>0 DEF LoopType
  <2>6. LoopOK(desired, e) BY <1>0, <2>1, <2>3, <2>4, <2>5, SMT DEF LoopOK
  <2>7. loop' = [loop EXCEPT ![l] = e] BY <1>2 DEF View, Current, Inv
  <2> QED BY <1>0, <1>2, <2>6, <2>7, LoopFrame DEF View
<1>3. CASE PlanCheckpoint(l)
  <2>1. LoopOK(desired, Planned(p, Checkpoint(p))) BY <1>0, <1>3, PlannedCheckpointOK DEF PlanCheckpoint
  <2> QED BY <1>0, <1>3, <2>1, LoopFrame DEF PlanCheckpoint
<1>4. CASE PlanNothing(l)
  <2>1. LoopOK(desired, Idle(p)) BY <1>0, IdleOK
  <2> QED BY <1>0, <1>4, <2>1, LoopFrame DEF PlanNothing
<1> QED BY <1>1, <1>2, <1>3, <1>4

\* baseline preserves the invariant: what the loop captured covers what changed since.
LEMMA BaselineStep ==
  ASSUME Inv, NEW l \in Sessions, Baseline(l) PROVE Inv'
<1> PICK p : p = loop[l] OBVIOUS
<1> PICK h : h = HistoryFor OBVIOUS
<1>0. /\ desired \in Seq(Content) /\ LoopOK(desired, p) /\ p \in LoopType /\ p.pc = "viewed"
      /\ HistoryOK(desired, h) /\ Shows(desired, p.seen, p.cursor) /\ history' = h
  BY LoopKnows DEF LoopOK, Baseline
<1>1. CASE ~Usable(h, p.cursor)
  <2>1. LoopOK(desired, Planned(p, Checkpoint(p))) BY <1>0, PlannedCheckpointOK
  <2> QED BY <1>0, <1>1, <2>1, LoopFrame DEF Baseline
<1>2. CASE Usable(h, p.cursor) /\ h.revision < p.cursor
  <2> PICK e : e = [p EXCEPT !.pc = "based", !.revision = h.revision, !.services = h.services,
                             !.dirty = h.dirty, !.valid = "yes"] OBVIOUS
  <2>1. h \in HistoryType /\ h.state = "base" /\ h.target <= p.cursor BY <1>0, <1>2 DEF HistoryOK, Usable
  <2>2. p.cursor \in Nat /\ Len(desired) \in Nat /\ p.cursor <= Len(desired) BY <1>0, SMT DEF LoopOK, LoopType
  <2>3. h.target = Len(desired) BY <1>0, <2>1 DEF HistoryOK
  <2>4. p.cursor = Len(desired) BY <2>1, <2>2, <2>3, SMT
  <2>5. e \in LoopType BY <1>0, <2>1 DEF LoopType, HistoryType
  <2>6. /\ e.pc = "based" /\ e.cursor = p.cursor /\ e.seen = p.seen /\ e.revision = h.revision /\ e.sent = p.sent
        /\ e.services = h.services /\ e.dirty = h.dirty /\ e.plan = p.plan
    BY <1>0 DEF LoopType
  <2>7. Shows(desired, h.services, h.revision) /\ Covers(desired, h.dirty, h.revision, p.cursor)
    BY <1>0, <2>1, <2>4 DEF HistoryOK
  <2>8. LoopOK(desired, e) BY <1>0, <2>1, <2>4, <2>5, <2>6, <2>7 DEF LoopOK, HistoryOK
  <2> QED BY <1>0, <1>2, <2>8, LoopFrame DEF Baseline
<1>3. CASE Usable(h, p.cursor) /\ ~(h.revision < p.cursor)
  <2> PICK e : e = [p EXCEPT !.pc = "stored"] OBVIOUS
  <2>1. e \in LoopType BY <1>0 DEF LoopType
  <2>2. /\ e.pc = "stored" /\ e.cursor = p.cursor /\ e.seen = p.seen /\ e.revision = p.revision /\ e.sent = p.sent
        /\ e.plan = p.plan
    BY <1>0 DEF LoopType
  <2>3. LoopOK(desired, e) BY <1>0, <2>1, <2>2 DEF LoopOK
  <2> QED BY <1>0, <1>3, <2>3, LoopFrame DEF Baseline
<1> QED BY <1>1, <1>2, <1>3

\* acceptDiff preserves the invariant, for a baseline that still matches and for one that does not.
LEMMA AcceptDiffStep ==
  ASSUME Inv, NEW l \in Sessions, AcceptDiff(l) PROVE Inv'
<1> PICK p : p = loop[l] OBVIOUS
<1>0. /\ desired \in Seq(Content) /\ LoopOK(desired, p) /\ p \in LoopType /\ p.pc = "based"
      /\ HistoryOK(desired, history) /\ Shows(desired, p.seen, p.cursor)
  BY LoopKnows DEF LoopOK, AcceptDiff
<1>1. CASE Accepts(p)
  <2> PICK e : e = [Idle(p) EXCEPT !.pc = "stored", !.cursor = p.cursor, !.seen = p.seen] OBVIOUS
  <2>1. LoopOK(desired, Idle(p)) BY <1>0, IdleOK
  <2>2. e \in LoopType BY <1>0, <2>1 DEF LoopOK, LoopType
  <2>3. /\ e.pc = "stored" /\ e.cursor = p.cursor /\ e.seen = p.seen /\ e.revision = Idle(p).revision
        /\ e.sent = Idle(p).sent /\ e.plan = Idle(p).plan
    BY <2>1 DEF LoopOK, LoopType
  <2>4. p.cursor <= Len(desired) BY <1>0 DEF LoopOK
  <2>5. LoopOK(desired, e) BY <1>0, <2>1, <2>2, <2>3, <2>4 DEF LoopOK
  <2>6. HistoryOK(desired, history')
    <3>1. history' = [history EXCEPT !.revision = p.cursor, !.services = Patched(p), !.dirty = {},
                                     !.diffs = Bounded(Append(history.diffs, DiffOf(p)))]
      BY <1>1 DEF AcceptDiff
    <3> QED BY <1>0, <1>1, <3>1, AcceptDiffOK
  <2> QED BY <1>0, <1>1, <2>5, <2>6, LoopFrame DEF AcceptDiff
<1>2. CASE ~Accepts(p)
  <2>1. LoopOK(desired, Planned(p, Checkpoint(p))) BY <1>0, PlannedCheckpointOK
  <2>2. history' = history BY <1>2 DEF AcceptDiff
  <2> QED BY <1>0, <1>2, <2>1, <2>2, LoopFrame DEF AcceptDiff
<1> QED BY <1>1, <1>2

\* diffsFrom preserves the invariant.
LEMMA TakeDiffsStep ==
  ASSUME Inv, NEW l \in Sessions, TakeDiffs(l) PROVE Inv'
<1> PICK p : p = loop[l] OBVIOUS
<1> PICK chain : chain = Chain(history, p.sent) OBVIOUS
<1>0. /\ desired \in Seq(Content) /\ LoopOK(desired, p) /\ p.sent \in Nat
      /\ HistoryOK(desired, history) /\ Shows(desired, p.seen, p.cursor)
  BY LoopKnows DEF LoopOK, LoopType, TakeDiffs
<1>1. chain \in Seq(Good(desired)) BY <1>0, ChainOK
<1>2. LoopOK(desired, Planned(p, Checkpoint(p))) BY <1>0, PlannedCheckpointOK
<1>3. chain # <<>> => LoopOK(desired, Planned(p, chain)) BY <1>0, <1>1, PlannedOK
<1>4. CASE history.revision = p.cursor /\ chain # <<>> BY <1>0, <1>3, <1>4, LoopFrame DEF TakeDiffs
<1>5. CASE ~(history.revision = p.cursor /\ chain # <<>>) BY <1>0, <1>2, <1>5, LoopFrame DEF TakeDiffs
<1> QED BY <1>4, <1>5

\* sendSyncBatch preserves the invariant.
LEMMA SendBatchStep ==
  ASSUME Inv, NEW l \in Sessions, SendBatch(l) PROVE Inv'
<1> PICK p : p = loop[l] OBVIOUS
<1>0. /\ desired \in Seq(Content) /\ LoopOK(desired, p) /\ p \in LoopType /\ p.pc = "planned"
      /\ HistoryOK(desired, history) /\ Shows(desired, p.seen, p.cursor)
      /\ p.plan \in Seq(Good(desired)) /\ stream \in Seq(Good(desired)) /\ Len(desired) \in Nat
  BY LoopKnows, SMT DEF LoopOK, SendBatch, Inv
<1>1. LoopOK(desired, Returned) BY <1>0, NoLoopOK
<1> PICK q : q = Position(p) OBVIOUS
<1>2. LoopOK(desired, q)
  <2>1. p.cursor \in Nat /\ p.cursor <= Len(desired) /\ OverlayVersion(p.seen) \in [Allocs -> Overlays \cup {None}]
    BY <1>0, OverlayType DEF LoopOK, LoopType
  <2>2. q \in LoopType BY <1>0, <2>1 DEF LoopType, Position
  <2>3. /\ q.pc = "planned" /\ q.cursor = p.cursor /\ q.seen = p.seen /\ q.revision = p.revision
        /\ q.sent = p.cursor /\ q.plan = p.plan
    BY <1>0 DEF LoopType, Position
  <2> QED BY <1>0, <2>1, <2>2, <2>3 DEF LoopOK
<1>3. LoopOK(desired, Idle(q)) BY <1>0, <1>2, IdleOK
<1> PICK e : e = [q EXCEPT !.pc = "sent", !.plan = <<>>] OBVIOUS
<1>4. LoopOK(desired, e)
  <2>1. <<>> \in Seq(Message) /\ <<>> \in Seq(Good(desired)) BY EmptySeq
  <2>2. q \in LoopType /\ q.seen = p.seen /\ q.cursor = p.cursor BY <1>0, <1>2 DEF LoopOK, LoopType, Position
  <2>3. e \in LoopType BY <2>1, <2>2 DEF LoopType
  <2>4. /\ e.pc = "sent" /\ e.cursor = p.cursor /\ e.seen = p.seen /\ e.revision = q.revision
        /\ e.sent = q.sent /\ e.plan = <<>>
    BY <2>2 DEF LoopType
  <2> QED BY <1>0, <1>2, <2>1, <2>2, <2>3, <2>4 DEF LoopOK
<1>5. stream \o p.plan \in Seq(Good(desired)) BY <1>0, ConcatProperties
<1>6. stream' \in Seq(Good(desired)) BY <1>0, <1>5 DEF SendBatch
<1>7. PICK x \in {Returned, Idle(q), e} : loop' = [loop EXCEPT ![l] = x] BY DEF SendBatch
<1>8. LoopOK(desired, x) BY <1>1, <1>3, <1>4, <1>7
<1>9. UNCHANGED <<desired, overlay, observed, session, history, agent>> BY DEF SendBatch
<1>10. /\ DOMAIN loop' = Sessions /\ loop' = [m \in Sessions |-> loop'[m]]
       /\ \A m \in Sessions : LoopOK(desired', loop'[m])
  BY <1>7, <1>8, <1>9, OneLoop
<1> QED BY <1>6, <1>9, <1>10 DEF Inv

\* AgentCheckpointSent preserves the invariant, however late it is called.
LEMMA CheckpointSentStep ==
  ASSUME Inv, NEW l \in Sessions, AgentCheckpointSent(l) PROVE Inv'
<1> PICK p : p = loop[l] OBVIOUS
<1>0. /\ desired \in Seq(Content) /\ LoopOK(desired, p) /\ p \in LoopType /\ p.pc = "sent"
      /\ HistoryOK(desired, history) /\ HistoryOK(desired, HistoryFor) /\ Shows(desired, p.seen, p.cursor)
  BY LoopKnows DEF LoopOK, AgentCheckpointSent
<1>1. HistoryOK(desired, NoHistory) BY <1>0, NoHistoryOK
<1>2. CurrentCheckpoint(p) => HistoryOK(desired, Rebased(HistoryFor, p.cursor, p.seen))
  <2>1. p.seen \in State BY <1>0 DEF LoopType
  <2> QED BY <1>0, <2>1, RebasedOK DEF CurrentCheckpoint, Current
<1>3. HistoryOK(desired, history')
  <2>1. CASE session # l BY <1>0, <2>1 DEF AgentCheckpointSent
  <2>2. CASE session = l /\ CurrentCheckpoint(p) BY <1>2, <2>2 DEF AgentCheckpointSent
  <2>3. CASE session = l /\ ~CurrentCheckpoint(p) BY <1>0, <1>1, <2>3 DEF AgentCheckpointSent
  <2> QED BY <2>1, <2>2, <2>3
<1>4. LoopOK(desired, Idle(p)) BY <1>0, IdleOK
<1>5. UNCHANGED <<desired, overlay, observed, session, stream, agent>> BY DEF AgentCheckpointSent
<1>6. DOMAIN loop' = Sessions /\ loop' = [m \in Sessions |-> loop'[m]] BY DEF AgentCheckpointSent
<1>7. ASSUME NEW m \in Sessions PROVE LoopOK(desired, loop'[m])
  <2>1. LoopOK(desired, loop[m]) /\ LoopOK(desired, Outdated(loop[m])) BY <1>0, LoopKnows, OutdatedOK
  <2>2. loop'[m] \in {Idle(p), Outdated(loop[m]), loop[m]} BY DEF AgentCheckpointSent
  <2> QED BY <1>4, <2>1, <2>2
<1> QED BY <1>3, <1>5, <1>6, <1>7 DEF Inv

\* What the agent stores after a message that it accepts.
LEMMA MergeOK ==
  ASSUME NEW D \in Seq(Content), AgentOK(D, agent), NEW m \in Good(D), Accepted(m),
         ~(m.kind = "diff" /\ m.target = agent.cursor)
  PROVE  /\ AgentOK(D, [agent EXCEPT !.ready = "yes", !.cursor = m.target, !.services = Merge(agent.services, m)])
         /\ m.target >= agent.cursor
<1>1. m \in Message /\ MessageOK(D, m) BY DEF Good
<1>2. agent \in AgentType /\ agent.services \in State /\ m.services \in State /\ m.ids \subseteq Allocs
  BY <1>1 DEF AgentOK, AgentType, Message
<1>3. m.target \in 1..Len(D) /\ m.target \in Nat /\ Len(D) \in Nat /\ m.target <= Len(D) BY <1>1, SMT DEF MessageOK
<1> PICK n : n = Merge(agent.services, m) OBVIOUS
<1>4. n \in State BY <1>2 DEF Merge, State
<1>5. ASSUME NEW a \in Allocs PROVE n[a].spec = D[m.target][a]
  <2>1. CASE a \in m.ids BY <1>1, <2>1 DEF Merge, MessageOK
  <2>2. CASE a \notin m.ids
    <3>1. m.kind = "diff" BY <1>1, <2>2 DEF MessageOK, Message
    <3>2. m.base = agent.cursor /\ agent.ready = "yes" BY <3>1 DEF Accepted, AcceptsDiff
    <3>3. agent.services[a].spec = D[agent.cursor][a] BY <3>2 DEF AgentOK, Shows
    <3>4. D[m.base][a] = D[m.target][a] BY <1>1, <2>2, <3>1 DEF MessageOK
    <3>5. n[a] = agent.services[a] BY <2>2 DEF Merge
    <3> QED BY <3>2, <3>3, <3>4, <3>5
  <2> QED BY <2>1, <2>2
<1> PICK x : x = [agent EXCEPT !.ready = "yes", !.cursor = m.target, !.services = n] OBVIOUS
<1>6. x \in AgentType BY <1>2, <1>3, <1>4 DEF AgentType
<1>7. x.ready = "yes" /\ x.cursor = m.target /\ x.services = n BY <1>2 DEF AgentType
<1>8. AgentOK(D, x) BY <1>3, <1>5, <1>6, <1>7 DEF AgentOK, Shows
<1>9. agent.cursor \in Nat BY <1>2 DEF AgentType
<1>10. m.target >= agent.cursor BY <1>1, <1>3, <1>9, SMT DEF Accepted, AcceptsCheckpoint, AcceptsDiff, Message
<1> QED BY <1>8, <1>10

\* The acceptance of a message by the agent preserves the invariant.
LEMMA ReceiveStep ==
  ASSUME Inv, Receive PROVE Inv'
<1> PICK m : m = Head(stream) OBVIOUS
<1>0. desired \in Seq(Content) /\ stream \in Seq(Good(desired)) /\ stream # <<>> /\ AgentOK(desired, agent)
  BY DEF Inv, Receive
<1>1. m \in Good(desired) /\ Tail(stream) \in Seq(Good(desired)) BY <1>0, HeadTailProperties
<1>2. UNCHANGED <<desired, overlay, observed, session, history>> BY DEF Receive
<1>3. CASE Accepted(m)
  <2>1. stream' = Tail(stream) /\ loop' = loop BY <1>3 DEF Receive
  <2>2. CASE m.kind = "diff" /\ m.target = agent.cursor
    <3>1. agent' = agent BY <1>3, <2>2 DEF Receive
    <3> QED BY <1>1, <1>2, <2>1, <3>1 DEF Inv
  <2>3. CASE ~(m.kind = "diff" /\ m.target = agent.cursor)
    <3>1. agent' = [agent EXCEPT !.ready = "yes", !.cursor = m.target, !.services = Merge(agent.services, m)]
      BY <1>3, <2>3 DEF Receive
    <3>2. AgentOK(desired, agent') BY <1>0, <1>1, <1>3, <2>3, <3>1, MergeOK
    <3> QED BY <1>1, <1>2, <2>1, <3>2 DEF Inv
  <2> QED BY <2>2, <2>3
<1>4. CASE ~Accepted(m)
  <2>1. stream' = <<>> /\ agent' = agent /\ loop' = [loop EXCEPT ![agent.session] = Returned] BY <1>4 DEF Receive
  <2>2. stream' \in Seq(Good(desired)) BY <2>1, EmptySeq
  <2>3. DOMAIN loop' = Sessions /\ loop' = [k \in Sessions |-> loop'[k]] BY <2>1 DEF Inv
  <2>4. \A k \in Sessions : loop'[k] \in {loop[k], NoLoop, Returned} BY <2>1 DEF Inv
  <2>5. \A k \in Sessions : LoopOK(desired', loop'[k]) BY <1>2, <2>3, <2>4, AllLoops
  <2> QED BY <1>2, <2>1, <2>2, <2>3, <2>5 DEF Inv
<1> QED BY <1>3, <1>4

\* Observations, evictions and take-overs preserve the invariant.
LEMMA EnvironmentStep ==
  ASSUME Inv, (\E seen \in Overlay : Observe(seen)) \/ Evict \/ Takeover
  PROVE  Inv'
<1>0. desired \in Seq(Content) /\ HistoryOK(desired, NoHistory) BY NoHistoryOK DEF Inv
<1>1. ASSUME NEW seen \in Overlay, Observe(seen) PROVE Inv'
  <2>1. DOMAIN loop' = Sessions /\ loop' = [m \in Sessions |-> loop'[m]] BY <1>1 DEF Observe
  <2>2. \A m \in Sessions : loop'[m] = Notified(loop[m]) BY <1>1 DEF Observe
  <2>3. \A m \in Sessions : LoopOK(desired', loop'[m]) BY <1>1, <2>1, <2>2, AllLoops DEF Observe
  <2> QED BY <1>1, <2>1, <2>3, SMT DEF Inv, Observe
<1>2. CASE Evict
  <2>1. DOMAIN loop' = Sessions /\ loop' = [m \in Sessions |-> loop'[m]] BY <1>2 DEF Evict
  <2>2. \A m \in Sessions : loop'[m] = Outdated(loop[m]) BY <1>2 DEF Evict
  <2>3. \A m \in Sessions : LoopOK(desired', loop'[m]) BY <1>2, <2>1, <2>2, AllLoops DEF Evict
  <2> QED BY <1>0, <1>2, <2>1, <2>3 DEF Inv, Evict
<1>3. CASE Takeover
  <2>1. DOMAIN loop' = Sessions /\ loop' = [m \in Sessions |-> loop'[m]] BY <1>3 DEF Takeover
  <2>2. \A m \in Sessions : loop'[m] \in {NoLoop, Returned} BY <1>3 DEF Takeover
  <2>3. \A m \in Sessions : LoopOK(desired', loop'[m]) BY <1>3, <2>1, <2>2, AllLoops DEF Takeover
  <2>4. session' \in 0..MaxSession BY <1>3, BoundAssumption, SMT DEF Takeover
  <2> QED BY <1>0, <1>3, <2>1, <2>3, <2>4 DEF Inv, Takeover
<1> QED BY <1>1, <1>2, <1>3

\* A new session, seeded from the hello, preserves the invariant.
LEMMA ConnectStep ==
  ASSUME Inv, Connect PROVE Inv'
<1> PICK l : l = agent.session + 1 OBVIOUS
<1> PICK o : o = OverlayVersion(agent.services) OBVIOUS
<1> PICK f : f = IF agent.ready = "yes" THEN "ready" ELSE "fresh" OBVIOUS
<1> PICK e : e = [NoLoop EXCEPT !.pc = "idle", !.wake = "yes", !.first = f, !.sent = agent.cursor, !.sentOverlay = o]
  OBVIOUS
<1>0. /\ desired \in Seq(Content) /\ agent \in AgentType /\ agent.cursor <= Len(desired)
      /\ Len(desired) \in Nat /\ agent.session < MaxSession
  BY SMT DEF Inv, AgentOK, Connect
<1>1. l \in 1..MaxSession /\ l \in 0..MaxSession BY <1>0, BoundAssumption, SMT DEF AgentType
<1>2. o \in [Allocs -> Overlays \cup {None}] /\ agent.cursor \in Nat BY <1>0, OverlayType DEF AgentType
<1>3. <<>> \in Seq(Message) /\ <<>> \in Seq(Good(desired)) BY EmptySeq
<1>4. e \in LoopType BY <1>2, <1>3, NoStateType DEF LoopType, NoLoop
<1>5. e.pc = "idle" /\ e.cursor = 0 /\ e.revision = 0 /\ e.sent = agent.cursor /\ e.plan = <<>> BY DEF NoLoop
<1>6. LoopOK(desired, e)
  <2>1. ASSUME NEW x \in LoopType, x.pc = "idle", x.cursor = 0, x.revision = 0, x.sent <= Len(desired), x.plan = <<>>
        PROVE  LoopOK(desired, x)
    BY <1>0, <1>3, <2>1, SMT DEF LoopOK
  <2> QED BY <1>0, <1>4, <1>5, <2>1
<1>7. UNCHANGED <<desired, overlay, observed, history>> /\ session' = l /\ stream' = <<>> BY DEF Connect
<1>8. DOMAIN loop' = Sessions /\ loop' = [m \in Sessions |-> loop'[m]] BY DEF Connect
<1>9. ASSUME NEW m \in Sessions PROVE LoopOK(desired, loop'[m])
  <2>1. LoopOK(desired, Notified(loop[m])) BY <1>0, LoopKnows, NotifiedOK
  <2>2. loop'[m] = IF m = l THEN e ELSE Notified(loop[m]) BY DEF Connect
  <2> QED BY <1>6, <2>1, <2>2
<1>10. AgentOK(desired, agent')
  <2>1. agent' = [agent EXCEPT !.session = l] BY DEF Connect
  <2>2. agent' \in AgentType BY <1>0, <1>1, <2>1 DEF AgentType
  <2>3. agent'.ready = agent.ready /\ agent'.cursor = agent.cursor /\ agent'.services = agent.services
    BY <1>0, <2>1 DEF AgentType
  <2> QED BY <2>2, <2>3 DEF Inv, AgentOK
<1> QED BY <1>1, <1>3, <1>7, <1>8, <1>9, <1>10 DEF Inv

\* Every step preserves the invariant.
LEMMA InvStep == Inv /\ [Next]_vars => Inv'
<1> SUFFICES ASSUME Inv, [Next]_vars PROVE Inv' OBVIOUS
<1>1. ASSUME NEW c \in Content, NEW ids \in SUBSET Allocs, Commit(c, ids) PROVE Inv'
  <2>1. desired \in Seq(Content) /\ Len(desired) > 0 /\ HistoryOK(desired, history) BY DEF Inv
  <2>2. HistoryOK(Append(desired, c), Applied(ids, Len(desired) + 1)) BY <1>1, <2>1, AppliedOK DEF Commit, Current
  <2>3. desired' = Append(desired, c) /\ history' = Applied(ids, Len(desired) + 1) BY <1>1 DEF Commit, Current
  <2> QED BY <1>1, <2>2, <2>3, CommitStep DEF Commit
<1>2. ASSUME NEW c \in Content, CommitGap(c) PROVE Inv'
  <2>1. desired \in Seq(Content) /\ Len(desired) > 0 /\ HistoryOK(desired, history) BY DEF Inv
  <2>2. HistoryOK(Append(desired, c), AppliedReset(Len(desired) + 1)) BY <2>1, AppliedResetOK
  <2>3. desired' = Append(desired, c) /\ history' = AppliedReset(Len(desired) + 1) BY <1>2 DEF CommitGap, Current
  <2> QED BY <1>2, <2>2, <2>3, CommitStep DEF CommitGap
<1>3. CASE (\E seen \in Overlay : Observe(seen)) \/ Evict \/ Takeover BY <1>3, EnvironmentStep
<1>4. CASE Connect BY <1>4, ConnectStep
<1>5. ASSUME NEW l \in Sessions, Loop(l) PROVE Inv'
  BY <1>5, PlanStep, BaselineStep, AcceptDiffStep, TakeDiffsStep, SendBatchStep, CheckpointSentStep DEF Loop
<1>6. CASE Receive BY <1>6, ReceiveStep
<1>7. CASE UNCHANGED vars BY <1>7 DEF Inv, vars
<1> QED BY <1>1, <1>2, <1>3, <1>4, <1>5, <1>6, <1>7 DEF Next

\* Everything that stands for a content of the product stands for the right one.
THEOREM Invariant == Spec => []Inv
BY InvInit, InvStep, PTL DEF Spec

\* TypeOK: the records of the histories, loops, messages and the agent, and every
\* revision they name is one that the product published.
THEOREM TypeCorrect == Spec => []TypeOK
<1>1. Inv => TypeOK
  <2> SUFFICES ASSUME Inv PROVE TypeOK OBVIOUS
  <2>1. Len(desired) \in Nat BY SMT DEF Inv
  <2>2. history \in [state : {"absent", "empty", "base"}, revision : 0..Current, target : 0..Current,
                     services : State, dirty : SUBSET Allocs, diffs : Seq(Message)]
    BY <2>1, SMT DEF Inv, HistoryOK, HistoryType, Current
  <2>3. ASSUME NEW l \in Sessions
        PROVE  loop[l] \in [pc : {"none", "idle", "viewed", "based", "stored", "planned", "sent", "done"},
                            wake : {"yes", "no"}, first : {"no", "ready", "fresh"},
                            sent : 0..Current, sentOverlay : [Allocs -> Overlays \cup {None}],
                            cursor : 0..Current, seen : State, revision : 0..Current, services : State,
                            dirty : SUBSET Allocs, valid : {"yes", "no"}, plan : Seq(Message)]
    <3>1. LoopOK(desired, loop[l]) BY DEF Inv
    <3> QED BY <2>1, <3>1, SMT DEF LoopOK, LoopType, Current
  <2>4. stream \in Seq(Message) BY GoodIsMessage DEF Inv
  <2>5. agent \in [session : 0..MaxSession, ready : {"yes", "no"}, cursor : 0..Current, services : State]
    BY <2>1, SMT DEF Inv, AgentOK, AgentType, Current
  <2> QED BY <2>2, <2>3, <2>4, <2>5 DEF Inv, TypeOK, Current
<1> QED BY <1>1, Invariant, PTL

\* Follows: the histories, loops and messages implement DesiredFollow.  Whatever mix of
\* checkpoints and diffs arrives, the agent adopts a whole published content at a time
\* and never an older one.
THEOREM SyncFollows == Spec => Follows
<1>1. Init => Follow!Init
  <2> SUFFICES ASSUME Init PROVE Follow!Init OBVIOUS
  <2>1. [a \in Allocs |-> None] \in Content BY DEF Content
  <2> QED BY <2>1 DEF Init, Follow!Init
<1>2. Inv /\ Inv' /\ [Next]_vars => [Follow!Next]_Follow!vars
  <2> SUFFICES ASSUME Inv, Inv', [Next]_vars PROVE [Follow!Next]_Follow!vars OBVIOUS
  <2>1. ASSUME NEW c \in Content, desired' = Append(desired, c), agent' = agent PROVE Follow!Next
    BY <2>1 DEF Follow!Next, Follow!Publish
  <2>2. ASSUME desired' = desired, agent'.cursor = agent.cursor, agent'.services = agent.services
        PROVE  UNCHANGED Follow!vars
    BY <2>2 DEF Follow!vars
  <2>3. CASE Receive
    <3> PICK m : m = Head(stream) OBVIOUS
    <3>1. desired' = desired BY <2>3 DEF Receive
    <3>2. CASE Accepted(m) /\ ~(m.kind = "diff" /\ m.target = agent.cursor)
      <4>1. m \in Good(desired) BY <2>3, HeadTailProperties DEF Inv, Receive
      <4>2. m.target >= agent.cursor BY <3>2, <4>1, MergeOK DEF Inv
      <4>3. agent' = [agent EXCEPT !.ready = "yes", !.cursor = m.target, !.services = Merge(agent.services, m)]
        BY <2>3, <3>2 DEF Receive
      <4>4. agent'.ready = "yes" /\ agent'.cursor = m.target BY <4>3 DEF Inv, AgentOK, AgentType
      <4>5. agent'.cursor \in 1..Len(desired) /\ SpecsOf(agent'.services) = desired[agent'.cursor]
        <5>1. Shows(desired, agent'.services, agent'.cursor) BY <3>1, <4>4 DEF Inv, AgentOK
        <5>2. desired[agent'.cursor] \in Content BY <5>1, ElementOfSeq DEF Inv, Shows
        <5> QED BY <5>1, <5>2 DEF Shows, SpecsOf, Content
      <4> QED BY <3>1, <4>2, <4>4, <4>5 DEF Follow!Next, Follow!Adopt
    <3>3. CASE ~(Accepted(m) /\ ~(m.kind = "diff" /\ m.target = agent.cursor))
      <4>1. agent' = agent BY <2>3, <3>3 DEF Receive
      <4> QED BY <2>2, <3>1, <4>1
    <3> QED BY <3>2, <3>3
  <2>4. CASE Connect
    <3>1. agent'.cursor = agent.cursor /\ agent'.services = agent.services /\ desired' = desired
      BY <2>4 DEF Connect, Inv, AgentOK, AgentType
    <3> QED BY <2>2, <3>1
  <2>5. CASE (\E seen \in Overlay : Observe(seen)) \/ Evict \/ Takeover \/ UNCHANGED vars
    BY <2>2, <2>5 DEF Observe, Evict, Takeover, vars
  <2>6. CASE \E l \in Sessions : Loop(l)
    <3>1. desired' = desired /\ agent' = agent
      BY <2>6 DEF Loop, Fail, View, PlanCheckpoint, PlanNothing, Baseline, AcceptDiff, TakeDiffs, SendBatch,
                  AgentCheckpointSent
    <3> QED BY <2>2, <3>1
  <2>7. CASE \/ \E c \in Content, ids \in SUBSET Allocs : Commit(c, ids)
             \/ \E c \in Content : CommitGap(c)
    BY <2>1, <2>7 DEF Commit, CommitGap
  <2> QED BY <2>3, <2>4, <2>5, <2>6, <2>7 DEF Next
<1> QED BY <1>1, <1>2, Invariant, PTL DEF Spec, Follows, Follow!Spec

-----------------------------------------------------------------------------
(* No message is refused: what a stream carries leads from the revision of  *)
(* the agent to the one that its loop has noted as sent.                    *)

\* A message that the agent can take at revision r and that brings it forward.
Continues(m, r) == IF m.kind = "checkpoint" THEN r <= m.target ELSE m.base = r /\ r < m.target

\* Messages, each of them starting where the one before it ends, from revision r to s.
Leads(q, r, s) ==
  /\ \A i \in 1..Len(q) : Continues(q[i], IF i = 1 THEN r ELSE q[i-1].target)
  /\ s = IF q = <<>> THEN r ELSE q[Len(q)].target

\* The diffs of a history go forward and the last one ends at its revision.
Ordered(h) ==
  /\ \A i \in 1..Len(h.diffs) : h.diffs[i].kind = "diff" /\ h.diffs[i].base < h.diffs[i].target
  /\ h.diffs # <<>> => h.diffs[Len(h.diffs)].target = h.revision

\* A loop plans from what it has sent to what it has captured.
Ahead(p) ==
  /\ p.pc \in {"viewed", "based", "stored", "planned"} => p.sent <= p.cursor
  /\ p.pc = "based" => p.revision < p.cursor
  /\ p.pc = "planned" => Leads(p.plan, p.sent, p.cursor)

Ended(p) == p.pc \in {"none", "done"}

\* The stream leads to revision s, and the loop of the agent's session has sent up to s.
Carries(q, x, f, s) == /\ Leads(q, x.cursor, s)
                       /\ \A l \in Sessions : l = x.session => Ended(f[l]) \/ f[l].sent = s

InOrder == /\ Ordered(history)
           /\ \A l \in Sessions : Ahead(loop[l])
           /\ \E s \in Nat : Carries(stream, agent, loop, s)

\* A step of a loop that sends nothing.
Still(p, e) == Ended(e) \/ (~Ended(p) /\ e.sent = p.sent)

\* An empty stream leads nowhere.
LEMMA LeadsEmpty == \A r : Leads(<<>>, r, r)
BY EmptySeq, SMT DEF Leads

\* Two streams that meet make one.
LEMMA LeadsConcat ==
  ASSUME NEW S, NEW p \in Seq(S), NEW q \in Seq(S), NEW r, NEW s, NEW t, Leads(p, r, s), Leads(q, s, t)
  PROVE  Leads(p \o q, r, t)
<1> PICK m \in Nat : m = Len(p) BY LenProperties
<1> PICK n \in Nat : n = Len(q) BY LenProperties
<1> PICK w : w = p \o q OBVIOUS
<1>1. /\ w \in Seq(S) /\ Len(w) = m + n
      /\ \A i \in 1..m : w[i] = p[i]
      /\ \A i \in 1..n : w[m + i] = q[i]
  BY ConcatProperties, SMT
<1>2. /\ (p = <<>>) <=> (m = 0)
      /\ (q = <<>>) <=> (n = 0)
      /\ (w = <<>>) <=> (m + n = 0)
  BY <1>1, EmptySeq
<1>3. ASSUME NEW i \in 1..(m + n) PROVE Continues(w[i], IF i = 1 THEN r ELSE w[i-1].target)
  <2>1. CASE i <= m
    <3>1. w[i] = p[i] /\ (i # 1 => w[i-1] = p[i-1]) BY <1>1, <2>1, SMT
    <3> QED BY <2>1, <3>1, SMT DEF Leads
  <2>2. CASE i > m
    <3> PICK j \in 1..n : i = m + j
      <4>1. i - m \in 1..n /\ i = m + (i - m) BY <2>2, SMT
      <4> QED BY <4>1
    <3>1. w[i] = q[j] BY <1>1
    <3>2. CASE j = 1
      <4>1. Continues(q[1], s) BY <3>2 DEF Leads
      <4>2. (IF i = 1 THEN r ELSE w[i-1].target) = s
        <5>1. CASE m = 0 BY <1>2, <3>2, <5>1, SMT DEF Leads
        <5>2. CASE m # 0
          <6>1. i # 1 /\ i - 1 = m /\ w[m] = p[m] BY <1>1, <3>2, <5>2, SMT
          <6> QED BY <1>2, <5>2, <6>1 DEF Leads
        <5> QED BY <5>1, <5>2
      <4> QED BY <3>1, <3>2, <4>1, <4>2
    <3>3. CASE j # 1
      <4>1. i # 1 /\ j - 1 \in 1..n /\ i - 1 = m + (j - 1) BY <3>3, SMT
      <4>2. w[i-1] = q[j-1] BY <1>1, <4>1
      <4>3. Continues(q[j], q[j-1].target) BY <3>3 DEF Leads
      <4> QED BY <3>1, <4>1, <4>2, <4>3
    <3> QED BY <3>2, <3>3
  <2> QED BY <2>1, <2>2, SMT
<1>4. t = IF w = <<>> THEN r ELSE w[Len(w)].target
  <2>1. CASE n = 0
    <3>1. t = s /\ Len(w) = m BY <1>1, <1>2, <2>1, SMT DEF Leads
    <3>2. m # 0 => w[m] = p[m] BY <1>1, SMT
    <3> QED BY <1>2, <2>1, <3>1, <3>2, SMT DEF Leads
  <2>2. CASE n # 0
    <3>1. w[m + n] = q[n] BY <1>1, <2>2, SMT
    <3>2. w # <<>> /\ q # <<>> BY <1>2, <2>2, SMT
    <3> QED BY <1>1, <3>1, <3>2 DEF Leads
  <2> QED BY <2>1, <2>2
<1> QED BY <1>1, <1>3, <1>4 DEF Leads

\* What is left of a stream when its first message has been taken.
LEMMA LeadsTail ==
  ASSUME NEW S, NEW q \in Seq(S), q # <<>>, NEW r, NEW s, Leads(q, r, s)
  PROVE  Continues(Head(q), r) /\ Leads(Tail(q), Head(q).target, s)
<1> PICK n \in Nat : n = Len(q) BY LenProperties
<1> PICK w : w = Tail(q) OBVIOUS
<1>1. /\ n # 0 /\ w \in Seq(S) /\ Len(w) = n - 1 /\ Head(q) = q[1]
      /\ \A i \in 1..(n - 1) : w[i] = q[i + 1]
  BY HeadTailProperties, EmptySeq, SMT
<1>2. (w = <<>>) <=> (n = 1)
  <2>1. (w = <<>>) <=> (Len(w) = 0) BY <1>1, EmptySeq
  <2> QED BY <1>1, <2>1, SMT
<1>3. Continues(q[1], r) BY <1>1, SMT DEF Leads
<1>4. ASSUME NEW i \in 1..(n - 1) PROVE Continues(w[i], IF i = 1 THEN q[1].target ELSE w[i-1].target)
  <2>1. i + 1 \in 1..n /\ i + 1 # 1 /\ (i + 1) - 1 = i BY <1>1, SMT
  <2>2. Continues(q[i + 1], q[i].target) BY <2>1 DEF Leads
  <2>3. w[i] = q[i + 1] BY <1>1
  <2>4. i # 1 => w[i-1] = q[i]
    <3>1. i # 1 => i - 1 \in 1..(n - 1) /\ (i - 1) + 1 = i BY <1>1, SMT
    <3> QED BY <1>1, <3>1
  <2> QED BY <2>2, <2>3, <2>4
<1>5. s = IF w = <<>> THEN q[1].target ELSE w[Len(w)].target
  <2>1. s = q[n].target BY DEF Leads
  <2>2. n # 1 => n - 1 \in 1..(n - 1) /\ (n - 1) + 1 = n BY <1>1, SMT
  <2>3. n # 1 => w[n - 1] = q[n] BY <1>1, <2>2
  <2> QED BY <1>1, <1>2, <2>1, <2>3
<1> QED BY <1>1, <1>3, <1>4, <1>5 DEF Leads

\* A checkpoint leads from anything sent before to the captured cursor.
LEMMA CheckpointLeads ==
  ASSUME NEW p, p.sent <= p.cursor PROVE Leads(Checkpoint(p), p.sent, p.cursor)
<1> PICK m : m = [kind |-> "checkpoint", base |-> 0, target |-> p.cursor, ids |-> Allocs, services |-> p.seen]
  OBVIOUS
<1>1. Checkpoint(p) = <<m>> /\ m.kind = "checkpoint" /\ m.target = p.cursor BY DEF Checkpoint
<1>2. Continues(m, p.sent) BY <1>1 DEF Continues
<1>3. Len(<<m>>) = 1 /\ <<m>>[1] = m /\ <<m>> # <<>> OBVIOUS
<1>4. Leads(<<m>>, p.sent, p.cursor) BY <1>1, <1>2, <1>3, SMT DEF Leads
<1> QED BY <1>1, <1>4

\* diffsFromBase: a chain that it returns leads from base to the history's revision.
LEMMA ChainLeads ==
  ASSUME NEW S, NEW h, h.diffs \in Seq(S), Ordered(h), NEW base \in Nat, Chain(h, base) # <<>>
  PROVE  Leads(Chain(h, base), base, h.revision)
<1> PICK q : q = h.diffs OBVIOUS
<1> PICK n \in Nat : n = Len(q) BY LenProperties
<1> PICK k : k = Skipped(q, base) OBVIOUS
<1> PICK c : c = Chain(h, base) OBVIOUS
<1>1. k \in Nat
  <2>1. IsFiniteSet(1..n) BY FS_Interval, SMT
  <2>2. IsFiniteSet({i \in 1..n : q[i].target <= base}) BY <2>1, FS_Subset
  <2> QED BY <2>2, FS_CardinalityType DEF Skipped
<1>2. c = SubSeq(q, k + 1, n) /\ Linked(c, base) BY DEF Chain, From
<1>3. q \in Seq(S) /\ n \in Nat /\ n = Len(q) OBVIOUS
<1>4. /\ c \in Seq(S) /\ Len(c) = IF k + 1 <= n THEN n - k ELSE 0
      /\ \A i \in 1..(n - k) : c[i] = q[k + i]
  <2>1. /\ SubSeq(q, k + 1, n) \in Seq(S)
        /\ Len(SubSeq(q, k + 1, n)) = IF k + 1 <= n THEN n - k ELSE 0
        /\ \A i \in 1..(n - k) : SubSeq(q, k + 1, n)[i] = q[k + i]
    BY ONLY <1>1, <1>3, Suffix
  <2> QED BY ONLY <1>2, <2>1
<1>5. k + 1 <= n
  <2>1. Len(c) # 0 BY <1>4, EmptySeq
  <2> QED BY <1>4, <2>1
<1>6. Len(c) = n - k /\ n - k \in 1..(n - k) /\ k + (n - k) = n BY <1>1, <1>4, <1>5, SMT
<1>7. ASSUME NEW i \in 1..(n - k) PROVE Continues(c[i], IF i = 1 THEN base ELSE c[i-1].target)
  <2>1. k + i \in 1..n BY <1>1, <1>5, SMT
  <2>2. c[i].kind = "diff" /\ c[i].base < c[i].target BY <1>4, <2>1 DEF Ordered
  <2>3. c[i].base = IF i = 1 THEN base ELSE c[i-1].target BY <1>2, <1>6 DEF Linked
  <2> QED BY <2>2, <2>3 DEF Continues
<1>8. h.revision = c[n - k].target
  <2>1. c[n - k] = q[n] BY <1>4, <1>6
  <2>2. q # <<>> BY <1>1, <1>5, EmptySeq, SMT
  <2> QED BY <2>1, <2>2 DEF Ordered
<1>9. c # <<>> OBVIOUS
<1> QED BY <1>6, <1>7, <1>8, <1>9 DEF Leads

\* A history without diffs is in order.
LEMMA NoDiffs == ASSUME NEW h, h.diffs = <<>> PROVE Ordered(h)
BY SMT DEF Ordered

\* The diffs of acceptDiff: the new one ends at the new revision.
LEMMA AppendOrdered ==
  ASSUME NEW S, NEW h, h.diffs \in Seq(S), Ordered(h),
         NEW m \in S, m.kind = "diff", m.base < m.target,
         NEW e, e.diffs = Bounded(Append(h.diffs, m)), e.revision = m.target
  PROVE  Ordered(e)
<1> PICK q : q = h.diffs OBVIOUS
<1> PICK n \in Nat : n = Len(q) BY LenProperties
<1> PICK w : w = Append(q, m) OBVIOUS
<1>1. w \in Seq(S) /\ Len(w) = n + 1 /\ w[n + 1] = m /\ \A i \in 1..n : w[i] = q[i] BY AppendProperties, SMT
<1>2. \A i \in 1..(n + 1) : w[i].kind = "diff" /\ w[i].base < w[i].target
  <2> SUFFICES ASSUME NEW i \in 1..(n + 1) PROVE w[i].kind = "diff" /\ w[i].base < w[i].target OBVIOUS
  <2>1. CASE i = n + 1 BY <1>1, <2>1
  <2>2. CASE i \in 1..n BY <1>1, <2>2 DEF Ordered
  <2> QED BY <2>1, <2>2, SMT
<1>3. CASE n + 1 > MaxDiffEntries
  <2> PICK t : t = Tail(w) OBVIOUS
  <2>1. e.diffs = t BY <1>1, <1>3 DEF Bounded
  <2>2. w # <<>> BY <1>1, EmptySeq, SMT
  <2>3. t \in Seq(S) /\ Len(t) = n /\ \A i \in 1..n : t[i] = w[i + 1]
    BY <1>1, <2>2, HeadTailProperties, SMT
  <2>4. \A i \in 1..n : i + 1 \in 1..(n + 1) BY SMT
  <2>5. \A i \in 1..n : t[i].kind = "diff" /\ t[i].base < t[i].target BY <1>2, <2>3, <2>4
  <2>6. t # <<>> => t[n].target = e.revision
    <3>1. t # <<>> => n \in 1..n BY <2>3, EmptySeq, SMT
    <3> QED BY <1>1, <2>3, <3>1
  <2> QED BY <2>1, <2>3, <2>5, <2>6 DEF Ordered
<1>4. CASE ~(n + 1 > MaxDiffEntries)
  <2>1. e.diffs = w BY <1>1, <1>4 DEF Bounded
  <2> QED BY <1>1, <1>2, <2>1 DEF Ordered
<1> QED BY <1>3, <1>4

\* A loop that has ended, is told something or goes on waiting sends nothing.
LEMMA QuietLoop ==
  ASSUME NEW p \in LoopType, Ahead(p), NEW e,
         \/ e \in {NoLoop, Returned, Notified(p), Outdated(p), Notified(Outdated(p))}
         \/ e = Idle(p) /\ ~Ended(p)
  PROVE  Ahead(e) /\ Still(p, e)
<1>1. CASE e \in {NoLoop, Returned} BY <1>1, SMT DEF NoLoop, Returned, Ahead, Still, Ended
<1>2. CASE e = Idle(p) /\ ~Ended(p) BY <1>2 DEF Idle, NoLoop, Ahead, Still, Ended
<1>3. ASSUME NEW x \in LoopType, Ahead(x)
      PROVE  /\ Notified(x) \in LoopType /\ Ahead(Notified(x))
             /\ Notified(x).pc = x.pc /\ Notified(x).sent = x.sent
  <2>1. CASE Ended(x) BY <1>3, <2>1 DEF Notified, Ended
  <2>2. CASE ~Ended(x)
    <3> PICK y : y = [x EXCEPT !.wake = "yes"] OBVIOUS
    <3>1. y \in LoopType BY DEF LoopType
    <3>2. /\ y.pc = x.pc /\ y.sent = x.sent /\ y.cursor = x.cursor /\ y.revision = x.revision /\ y.plan = x.plan
      BY DEF LoopType
    <3>3. Ahead(y) BY <1>3, <3>2 DEF Ahead
    <3>4. Notified(x) = y BY <2>2 DEF Notified, Ended
    <3> QED BY <3>1, <3>2, <3>3, <3>4
  <2> QED BY <2>1, <2>2
<1>4. /\ Outdated(p) \in LoopType /\ Ahead(Outdated(p))
      /\ Outdated(p).pc = p.pc /\ Outdated(p).sent = p.sent
  <2>1. CASE p.pc # "based" BY <2>1 DEF Outdated
  <2>2. CASE p.pc = "based"
    <3> PICK y : y = [p EXCEPT !.valid = "no"] OBVIOUS
    <3>1. y \in LoopType BY DEF LoopType
    <3>2. /\ y.pc = p.pc /\ y.sent = p.sent /\ y.cursor = p.cursor /\ y.revision = p.revision /\ y.plan = p.plan
      BY DEF LoopType
    <3>3. Ahead(y) BY <3>2 DEF Ahead
    <3>4. Outdated(p) = y BY <2>2 DEF Outdated
    <3> QED BY <3>1, <3>2, <3>3, <3>4
  <2> QED BY <2>1, <2>2
<1>5. CASE e \in {Notified(p), Outdated(p), Notified(Outdated(p))}
  <2>1. Ahead(e) /\ e.pc = p.pc /\ e.sent = p.sent BY <1>3, <1>4, <1>5
  <2> QED BY <2>1 DEF Still, Ended
<1> QED BY <1>1, <1>2, <1>5

\* A loop that has made a plan.
LEMMA PlannedAhead ==
  ASSUME NEW p, ~Ended(p), NEW plan, p.sent <= p.cursor, Leads(plan, p.sent, p.cursor)
  PROVE  Ahead(Planned(p, plan)) /\ Still(p, Planned(p, plan))
<1> PICK e : e = Planned(p, plan) OBVIOUS
<1>1. e.pc = "planned" /\ e.sent = p.sent /\ e.cursor = p.cursor /\ e.plan = plan BY DEF Planned, Idle, NoLoop
<1> QED BY <1>1 DEF Ahead, Still, Ended

\* The steps that send nothing leave what the stream carries.
LEMMA QuietStep ==
  ASSUME InOrder, stream' = stream, agent' = agent, Ordered(history'),
         \A m \in Sessions : Ahead(loop'[m]) /\ Still(loop[m], loop'[m])
  PROVE  InOrder'
<1>1. PICK s \in Nat : Carries(stream, agent, loop, s) BY DEF InOrder
<1>2. Carries(stream', agent', loop', s) BY <1>1 DEF Carries, Still
<1> QED BY <1>1, <1>2 DEF InOrder

\* The same for a step of one loop.
LEMMA QuietOne ==
  ASSUME Inv, InOrder, stream' = stream, agent' = agent, Ordered(history'),
         NEW l \in Sessions, NEW e, loop' = [loop EXCEPT ![l] = e], Ahead(e), Still(loop[l], e)
  PROVE  InOrder'
<1>1. \A m \in Sessions : loop'[m] = IF m = l THEN e ELSE loop[m] BY DEF Inv
<1>2. \A m \in Sessions : Ahead(loop'[m]) /\ Still(loop[m], loop'[m]) BY <1>1 DEF InOrder, Still
<1> QED BY <1>2, QuietStep

\* Commits, observations, evictions and take-overs.
LEMMA EnvironmentInOrder ==
  ASSUME Inv, InOrder,
         \/ \E c \in Content, ids \in SUBSET Allocs : Commit(c, ids)
         \/ \E c \in Content : CommitGap(c)
         \/ (\E seen \in Overlay : Observe(seen)) \/ Evict \/ Takeover
  PROVE  InOrder'
<1>1. stream' = stream /\ agent' = agent BY DEF Commit, CommitGap, Observe, Evict, Takeover
<1>2. \A m \in Sessions : loop[m] \in LoopType /\ Ahead(loop[m]) BY DEF Inv, InOrder, LoopOK
<1>3. \A m \in Sessions : loop'[m] \in {NoLoop, Returned, Notified(loop[m]), Outdated(loop[m]),
                                        Notified(Outdated(loop[m]))}
  BY DEF Commit, CommitGap, Observe, Evict, Takeover
<1>4. \A m \in Sessions : Ahead(loop'[m]) /\ Still(loop[m], loop'[m]) BY <1>2, <1>3, QuietLoop
<1>5. history \in HistoryType /\ Ordered(history) BY DEF Inv, InOrder, HistoryOK
<1>6. Ordered(NoHistory) BY NoDiffs DEF NoHistory
<1>7. ASSUME NEW t PROVE Ordered(Emptied(history, t)) BY NoDiffs DEF Emptied, NoHistory
<1>8. ASSUME NEW t, NEW d
      PROVE  Ordered([history EXCEPT !.target = t]) /\ Ordered([history EXCEPT !.target = t, !.dirty = d])
  <2>1. ASSUME NEW e, e.diffs = history.diffs, e.revision = history.revision PROVE Ordered(e)
    BY <1>5, <2>1 DEF Ordered
  <2> QED BY <1>5, <2>1 DEF HistoryType
<1>9. ASSUME NEW ids, NEW t PROVE Ordered(Applied(ids, t)) /\ Ordered(AppliedReset(t))
  <2>1. AppliedReset(t) \in {history, Emptied(history, t)} BY DEF AppliedReset
  <2>2. Applied(ids, t) \in {history, Emptied(history, t), [history EXCEPT !.target = t],
                             [history EXCEPT !.target = t, !.dirty = history.dirty \cup ids]}
    BY DEF Applied
  <2>3. /\ Ordered(history) /\ Ordered(Emptied(history, t)) /\ Ordered([history EXCEPT !.target = t])
        /\ Ordered([history EXCEPT !.target = t, !.dirty = history.dirty \cup ids])
    BY <1>5, <1>7, <1>8
  <2> QED BY <2>1, <2>2, <2>3
<1>10. Ordered(history')
  <2>1. CASE \E c \in Content, ids \in SUBSET Allocs : Commit(c, ids) BY <1>9, <2>1 DEF Commit
  <2>2. CASE \E c \in Content : CommitGap(c) BY <1>9, <2>2 DEF CommitGap
  <2>3. CASE (\E seen \in Overlay : Observe(seen)) \/ Evict \/ Takeover
    BY <1>5, <1>6, <2>3 DEF Observe, Evict, Takeover
  <2> QED BY <2>1, <2>2, <2>3
<1> QED BY <1>1, <1>4, <1>10, QuietStep

\* What the loop of a session is known to be.
LEMMA LoopInOrder ==
  ASSUME Inv, InOrder, NEW l \in Sessions
  PROVE  /\ desired \in Seq(Content) /\ Len(desired) \in Nat
         /\ loop[l] \in LoopType /\ LoopOK(desired, loop[l]) /\ Ahead(loop[l])
         /\ history \in HistoryType /\ HistoryOK(desired, history) /\ Ordered(history)
BY LenProperties DEF Inv, InOrder, LoopOK, HistoryOK

\* A loop that ends, captures a view, or plans without the history.
LEMMA PlanInOrder ==
  ASSUME Inv, InOrder, NEW l \in Sessions, Fail(l) \/ View(l) \/ PlanCheckpoint(l) \/ PlanNothing(l)
  PROVE  InOrder'
<1> PICK p : p = loop[l] OBVIOUS
<1>0. /\ p \in LoopType /\ Ahead(p) /\ Ordered(history) /\ p.sent <= Len(desired) /\ Len(desired) \in Nat
  BY LoopInOrder DEF LoopOK
<1>1. stream' = stream /\ agent' = agent /\ history' = history BY DEF Fail, View, PlanCheckpoint, PlanNothing
<1>2. ASSUME NEW e, loop' = [loop EXCEPT ![l] = e], Ahead(e), Still(p, e) PROVE InOrder'
  BY <1>0, <1>1, <1>2, QuietOne
<1>3. CASE Fail(l) BY <1>0, <1>2, <1>3, QuietLoop DEF Fail
<1>4. CASE View(l)
  <2> PICK e : e = [p EXCEPT !.pc = "viewed", !.wake = "no", !.cursor = Current,
                             !.seen = Render(desired[Current], overlay)] OBVIOUS
  <2>1. e.pc = "viewed" /\ e.sent = p.sent /\ e.cursor = Len(desired) BY <1>0 DEF LoopType, Current
  <2>2. Ahead(e) BY <1>0, <2>1 DEF Ahead
  <2>3. Still(p, e) BY <1>4, <2>1 DEF Still, Ended, View
  <2>4. loop' = [loop EXCEPT ![l] = e] BY <1>4 DEF View
  <2> QED BY <1>2, <2>2, <2>3, <2>4
<1>5. CASE PlanCheckpoint(l)
  <2>1. p.pc = "viewed" /\ ~Ended(p) /\ p.sent <= p.cursor BY <1>0, <1>5 DEF PlanCheckpoint, Ended, Ahead
  <2>2. Leads(Checkpoint(p), p.sent, p.cursor) BY <2>1, CheckpointLeads
  <2> QED BY <1>2, <1>5, <2>1, <2>2, PlannedAhead DEF PlanCheckpoint
<1>6. CASE PlanNothing(l)
  <2>1. ~Ended(p) BY <1>6 DEF PlanNothing, Ended
  <2> QED BY <1>0, <1>2, <1>6, <2>1, QuietLoop DEF PlanNothing
<1> QED BY <1>3, <1>4, <1>5, <1>6

\* baseline: the history of a baseline is behind the captured cursor.
LEMMA BaselineInOrder ==
  ASSUME Inv, InOrder, NEW l \in Sessions, Baseline(l) PROVE InOrder'
<1> PICK p : p = loop[l] OBVIOUS
<1> PICK h : h = HistoryFor OBVIOUS
<1>0. /\ p \in LoopType /\ Ahead(p) /\ Ordered(history) /\ p.pc = "viewed" /\ p.sent <= p.cursor /\ ~Ended(p)
  BY LoopInOrder DEF Baseline, Ahead, Ended
<1>1. stream' = stream /\ agent' = agent /\ history' = h BY DEF Baseline
<1>2. Ordered(h) BY <1>0, NoDiffs DEF HistoryFor, NoHistory
<1>3. ASSUME NEW e, loop' = [loop EXCEPT ![l] = e], Ahead(e), Still(p, e) PROVE InOrder'
  BY <1>1, <1>2, <1>3, QuietOne
<1>4. CASE ~Usable(h, p.cursor)
  <2>1. Leads(Checkpoint(p), p.sent, p.cursor) BY <1>0, CheckpointLeads
  <2>2. loop' = [loop EXCEPT ![l] = Planned(p, Checkpoint(p))] BY <1>4 DEF Baseline
  <2> QED BY <1>0, <1>3, <2>1, <2>2, PlannedAhead
<1>5. CASE Usable(h, p.cursor) /\ h.revision < p.cursor
  <2> PICK e : e = [p EXCEPT !.pc = "based", !.revision = h.revision, !.services = h.services,
                             !.dirty = h.dirty, !.valid = "yes"] OBVIOUS
  <2>1. e.pc = "based" /\ e.sent = p.sent /\ e.cursor = p.cursor /\ e.revision = h.revision BY <1>0 DEF LoopType
  <2>2. Ahead(e) /\ Still(p, e) BY <1>0, <1>5, <2>1 DEF Ahead, Still
  <2>3. loop' = [loop EXCEPT ![l] = e] BY <1>5 DEF Baseline
  <2> QED BY <1>3, <2>2, <2>3
<1>6. CASE Usable(h, p.cursor) /\ ~(h.revision < p.cursor)
  <2> PICK e : e = [p EXCEPT !.pc = "stored"] OBVIOUS
  <2>1. e.pc = "stored" /\ e.sent = p.sent /\ e.cursor = p.cursor BY <1>0 DEF LoopType
  <2>2. Ahead(e) /\ Still(p, e) BY <1>0, <2>1 DEF Ahead, Still
  <2>3. loop' = [loop EXCEPT ![l] = e] BY <1>6 DEF Baseline
  <2> QED BY <1>3, <2>2, <2>3
<1> QED BY <1>4, <1>5, <1>6

\* acceptDiff and diffsFrom.
LEMMA DiffsInOrder ==
  ASSUME Inv, InOrder, NEW l \in Sessions, AcceptDiff(l) \/ TakeDiffs(l) PROVE InOrder'
<1> PICK p : p = loop[l] OBVIOUS
<1>0. /\ desired \in Seq(Content) /\ p \in LoopType /\ LoopOK(desired, p) /\ Ahead(p)
      /\ history \in HistoryType /\ HistoryOK(desired, history) /\ Ordered(history)
  BY LoopInOrder
<1>1. p.pc \in {"based", "stored"} /\ p.sent <= p.cursor /\ ~Ended(p) BY <1>0 DEF AcceptDiff, TakeDiffs, Ended, Ahead
<1>2. stream' = stream /\ agent' = agent BY DEF AcceptDiff, TakeDiffs
<1>3. ASSUME NEW e, loop' = [loop EXCEPT ![l] = e], Ahead(e), Still(p, e), Ordered(history') PROVE InOrder'
  BY <1>2, <1>3, QuietOne
<1>4. Ahead(Planned(p, Checkpoint(p))) /\ Still(p, Planned(p, Checkpoint(p)))
  BY <1>1, CheckpointLeads, PlannedAhead
<1>5. CASE AcceptDiff(l) /\ Accepts(p)
  <2> PICK m : m = DiffOf(p) OBVIOUS
  <2> PICK q : q = Bounded(Append(history.diffs, m)) OBVIOUS
  <2> PICK w : w = [history EXCEPT !.revision = p.cursor, !.services = Patched(p), !.dirty = {}, !.diffs = q]
    OBVIOUS
  <2>1. p.pc = "based" /\ p.revision < p.cursor BY <1>0, <1>5 DEF AcceptDiff, Ahead
  <2>2. m \in Good(desired) BY <1>0, <2>1, PatchedOK
  <2>3. m.kind = "diff" /\ m.base = p.revision /\ m.target = p.cursor BY DEF DiffOf
  <2>4. w.diffs = q /\ w.revision = p.cursor BY <1>0 DEF HistoryType
  <2>5. history.diffs \in Seq(Good(desired)) BY <1>0 DEF HistoryOK
  <2>6. Ordered(w)
    <3>1. m.base < m.target /\ w.revision = m.target BY <2>1, <2>3, <2>4
    <3>2. w.diffs = Bounded(Append(history.diffs, m)) BY <2>4
    <3>3. m.kind = "diff" /\ Ordered(history) BY <1>0, <2>3
    <3> QED BY ONLY <2>2, <2>5, <3>1, <3>2, <3>3, AppendOrdered
  <2>7. history' = w BY <1>5 DEF AcceptDiff
  <2> PICK e : e = [Idle(p) EXCEPT !.pc = "stored", !.cursor = p.cursor, !.seen = p.seen] OBVIOUS
  <2>8. e.pc = "stored" /\ e.sent = p.sent /\ e.cursor = p.cursor BY DEF Idle, NoLoop
  <2>9. Ahead(e) /\ Still(p, e) BY <1>1, <2>8 DEF Ahead, Still
  <2>10. loop' = [loop EXCEPT ![l] = e] BY <1>5 DEF AcceptDiff
  <2> QED BY <1>3, <2>6, <2>7, <2>9, <2>10
<1>6. CASE AcceptDiff(l) /\ ~Accepts(p)
  <2>1. history' = history /\ loop' = [loop EXCEPT ![l] = Planned(p, Checkpoint(p))] BY <1>6 DEF AcceptDiff
  <2> QED BY <1>0, <1>3, <1>4, <2>1
<1>7. CASE TakeDiffs(l)
  <2> PICK c : c = Chain(history, p.sent) OBVIOUS
  <2>1. history' = history BY <1>7 DEF TakeDiffs
  <2>2. CASE history.revision = p.cursor /\ c # <<>>
    <3>1. history.diffs \in Seq(Message) /\ p.sent \in Nat BY <1>0 DEF HistoryType, LoopType
    <3>2. Leads(c, p.sent, p.cursor) BY <1>0, <2>2, <3>1, ChainLeads
    <3>3. loop' = [loop EXCEPT ![l] = Planned(p, c)] BY <1>7, <2>2 DEF TakeDiffs
    <3> QED BY <1>0, <1>1, <1>3, <2>1, <3>2, <3>3, PlannedAhead
  <2>3. CASE ~(history.revision = p.cursor /\ c # <<>>)
    <3>1. loop' = [loop EXCEPT ![l] = Planned(p, Checkpoint(p))] BY <1>7, <2>3 DEF TakeDiffs
    <3> QED BY <1>0, <1>3, <1>4, <2>1, <3>1
  <2> QED BY <2>2, <2>3
<1> QED BY <1>5, <1>6, <1>7

\* sendSyncBatch: the plan of the agent's own session continues its stream.
LEMMA SendBatchInOrder ==
  ASSUME Inv, InOrder, NEW l \in Sessions, SendBatch(l) PROVE InOrder'
<1> PICK p : p = loop[l] OBVIOUS
<1>0. p \in LoopType /\ Ahead(p) /\ Ordered(history) /\ p.pc = "planned" /\ ~Ended(p) /\ p.cursor \in Nat
  BY LoopInOrder DEF SendBatch, Ended, LoopType
<1>1. history' = history /\ agent' = agent BY DEF SendBatch
<1>2. CASE session = l
  <2> PICK q : q = Position(p) OBVIOUS
  <2>1. q \in LoopType /\ q.sent = p.cursor
    <3>1. OverlayVersion(p.seen) \in [Allocs -> Overlays \cup {None}] BY <1>0, OverlayType DEF LoopType
    <3> QED BY <1>0, <3>1 DEF Position, LoopType
  <2> PICK e : e = IF p.plan[1].kind = "checkpoint" THEN [q EXCEPT !.pc = "sent", !.plan = <<>>] ELSE Idle(q)
    OBVIOUS
  <2>2. e.pc \in {"sent", "idle"} /\ e.sent = p.cursor BY <2>1 DEF LoopType, Idle, NoLoop
  <2>3. loop' = [loop EXCEPT ![l] = e] BY <1>2 DEF SendBatch
  <2>4. \A m \in Sessions : loop'[m] = IF m = l THEN e ELSE loop[m] BY <2>3 DEF Inv
  <2>5. Ahead(e) BY <2>2 DEF Ahead
  <2>6. \A m \in Sessions : Ahead(loop'[m]) BY <2>4, <2>5 DEF InOrder
  <2>7. PICK s \in Nat : Carries(stream, agent, loop, s) BY DEF InOrder
  <2>8. CASE agent.session = l
    <3>1. s = p.sent BY <1>0, <2>7, <2>8 DEF Carries
    <3>2. Leads(stream, agent.cursor, s) /\ Leads(p.plan, s, p.cursor) BY <1>0, <2>7, <3>1 DEF Carries, Ahead
    <3>3. stream \in Seq(Message) /\ p.plan \in Seq(Message) BY <1>0, GoodIsMessage DEF Inv, LoopType
    <3>4. Leads(stream \o p.plan, agent.cursor, p.cursor) BY <3>2, <3>3, LeadsConcat
    <3>5. stream' = stream \o p.plan BY <1>2, <2>8 DEF SendBatch
    <3>6. Carries(stream', agent', loop', p.cursor) BY <1>1, <2>2, <2>4, <2>8, <3>4, <3>5 DEF Carries
    <3> QED BY <1>0, <1>1, <2>6, <3>6 DEF InOrder
  <2>9. CASE agent.session # l
    <3>1. stream' = stream BY <1>2, <2>9 DEF SendBatch
    <3>2. Carries(stream', agent', loop', s) BY <1>1, <2>4, <2>7, <2>9, <3>1 DEF Carries
    <3> QED BY <1>0, <1>1, <2>6, <2>7, <3>2 DEF InOrder
  <2> QED BY <2>8, <2>9
<1>3. CASE session # l
  <2>1. loop' = [loop EXCEPT ![l] = Returned] /\ stream' = stream BY <1>3 DEF SendBatch
  <2>2. Ahead(Returned) /\ Still(p, Returned) BY <1>0, QuietLoop
  <2> QED BY <1>0, <1>1, <2>1, <2>2, QuietOne
<1> QED BY <1>2, <1>3

\* AgentCheckpointSent: a rebased history has no diffs.
LEMMA CheckpointSentInOrder ==
  ASSUME Inv, InOrder, NEW l \in Sessions, AgentCheckpointSent(l) PROVE InOrder'
<1> PICK p : p = loop[l] OBVIOUS
<1>0. p.pc = "sent" /\ ~Ended(p) /\ Ordered(history) /\ history \in HistoryType
  BY LoopInOrder DEF AgentCheckpointSent, Ended
<1>1. \A m \in Sessions : loop[m] \in LoopType /\ Ahead(loop[m]) BY LoopInOrder
<1>2. \A m \in Sessions : Ahead(loop[m]) /\ (m # l => loop'[m] \in {Outdated(loop[m]), loop[m]})
  BY <1>1 DEF AgentCheckpointSent
<1>3. loop'[l] = Idle(p) BY DEF AgentCheckpointSent
<1>4. ASSUME NEW m \in Sessions PROVE Ahead(loop'[m]) /\ Still(loop[m], loop'[m])
  <2>1. CASE m = l BY <1>0, <1>1, <1>3, <2>1, QuietLoop
  <2>2. CASE m # l
    <3>1. Ahead(Outdated(loop[m])) /\ Still(loop[m], Outdated(loop[m])) BY <1>1, QuietLoop
    <3>2. Still(loop[m], loop[m]) BY DEF Still
    <3> QED BY <1>2, <2>2, <3>1, <3>2
  <2> QED BY <2>1, <2>2
<1>5. Ordered(NoHistory) BY NoDiffs DEF NoHistory
<1>6. HistoryFor \in HistoryType /\ Ordered(HistoryFor)
  <2>1. NoHistory \in HistoryType BY NoStateType, EmptySeq, BoundAssumption DEF NoHistory, HistoryType
  <2>2. CASE history.state = "absent"
    <3> PICK h : h = [NoHistory EXCEPT !.state = "empty"] OBVIOUS
    <3>1. h \in HistoryType /\ h.diffs = <<>> BY <2>1 DEF HistoryType, NoHistory
    <3> QED BY <2>2, <3>1, NoDiffs DEF HistoryFor
  <2>3. CASE history.state # "absent" BY <1>0, <2>3 DEF HistoryFor
  <2> QED BY <2>2, <2>3
<1>7. Ordered(Rebased(HistoryFor, p.cursor, p.seen))
  <2> PICK h : h = HistoryFor OBVIOUS
  <2> PICK e : e = Rebased(h, p.cursor, p.seen) OBVIOUS
  <2>1. CASE h.state = "base" /\ p.cursor < h.revision BY <1>6, <2>1 DEF Rebased
  <2>2. CASE ~(h.state = "base" /\ p.cursor < h.revision)
    <3>1. e.diffs = <<>> BY <1>6, <2>2 DEF Rebased, HistoryType
    <3> QED BY <3>1, NoDiffs
  <2> QED BY <2>1, <2>2
<1>8. history' \in {history, NoHistory, Rebased(HistoryFor, p.cursor, p.seen)} BY DEF AgentCheckpointSent
<1>9. Ordered(history') BY <1>0, <1>5, <1>7, <1>8
<1>10. stream' = stream /\ agent' = agent BY DEF AgentCheckpointSent
<1> QED BY <1>4, <1>9, <1>10, QuietStep

\* A new session starts with an empty stream at the agent's own revision.
LEMMA ConnectInOrder ==
  ASSUME Inv, InOrder, Connect PROVE InOrder'
<1> PICK l : l = agent.session + 1 OBVIOUS
<1> PICK f : f = IF agent.ready = "yes" THEN "ready" ELSE "fresh" OBVIOUS
<1> PICK e : e = [NoLoop EXCEPT !.pc = "idle", !.wake = "yes", !.first = f, !.sent = agent.cursor,
                                !.sentOverlay = OverlayVersion(agent.services)] OBVIOUS
<1>0. agent \in AgentType /\ agent.cursor \in Nat BY DEF Inv, AgentOK, AgentType
<1>1. stream' = <<>> /\ history' = history /\ agent' = [agent EXCEPT !.session = l] BY DEF Connect
<1>2. agent'.session = l /\ agent'.cursor = agent.cursor BY <1>0, <1>1 DEF AgentType
<1>3. \A m \in Sessions : loop'[m] = IF m = l THEN e ELSE Notified(loop[m]) BY DEF Connect
<1>4. e.pc = "idle" /\ e.sent = agent.cursor BY DEF NoLoop
<1>5. \A m \in Sessions : Ahead(loop'[m])
  <2>1. Ahead(e) BY <1>4 DEF Ahead
  <2>2. \A m \in Sessions : Ahead(Notified(loop[m])) BY LoopInOrder, QuietLoop
  <2> QED BY <1>3, <2>1, <2>2
<1>6. Carries(stream', agent', loop', agent.cursor) BY <1>1, <1>2, <1>3, <1>4, LeadsEmpty DEF Carries
<1> QED BY <1>0, <1>1, <1>5, <1>6 DEF InOrder

\* A message that continues the agent's revision is one that it accepts.
LEMMA ContinuesAccepted ==
  ASSUME NEW D \in Seq(Content), AgentOK(D, agent), NEW m \in Good(D), Continues(m, agent.cursor)
  PROVE  Accepted(m) /\ ~(m.kind = "diff" /\ m.target = agent.cursor)
<1>1. m \in Message /\ MessageOK(D, m) /\ m.target \in Nat /\ m.base \in Nat /\ m.kind \in {"checkpoint", "diff"}
  BY DEF Good, Message
<1>2. agent.cursor \in Nat /\ agent.ready \in {"yes", "no"} BY DEF AgentOK, AgentType
<1>3. CASE m.kind = "checkpoint"
  <2>1. m.target >= agent.cursor BY <1>1, <1>2, <1>3 DEF Continues
  <2>2. ASSUME m.target = agent.cursor, agent.ready = "yes" PROVE SpecsOf(m.services) = SpecsOf(agent.services)
    <3>1. \A a \in Allocs : m.services[a].spec = D[m.target][a] BY <1>1, <1>3 DEF MessageOK
    <3>2. \A a \in Allocs : agent.services[a].spec = D[agent.cursor][a] BY <2>2 DEF AgentOK, Shows
    <3> QED BY <2>2, <3>1, <3>2 DEF SpecsOf
  <2> QED BY <1>3, <2>1, <2>2 DEF Accepted, AcceptsCheckpoint
<1>4. CASE m.kind = "diff"
  <2>1. m.base = agent.cursor /\ agent.cursor < m.target BY <1>4 DEF Continues
  <2>2. agent.cursor # 0
    <3>1. m.base \in 1..Len(D) BY <1>1, <1>4 DEF MessageOK
    <3> QED BY <2>1, <3>1, SMT
  <2>3. agent.ready = "yes" BY <1>2, <2>2 DEF AgentOK
  <2> QED BY <1>1, <1>2, <1>4, <2>1, <2>3, SMT DEF Accepted, AcceptsDiff
<1> QED BY <1>1, <1>3, <1>4

\* The first message of a stream in order is one that the agent accepts.
LEMMA HeadAccepted ==
  ASSUME Inv, InOrder, stream # <<>>
  PROVE  /\ Accepted(Head(stream)) /\ ~(Head(stream).kind = "diff" /\ Head(stream).target = agent.cursor)
         /\ \E s \in Nat : /\ Carries(stream, agent, loop, s)
                           /\ Leads(Tail(stream), Head(stream).target, s)
<1>1. PICK s \in Nat : Carries(stream, agent, loop, s) BY DEF InOrder
<1>2. stream \in Seq(Good(desired)) /\ desired \in Seq(Content) /\ AgentOK(desired, agent) BY DEF Inv
<1>3. Leads(stream, agent.cursor, s) BY <1>1 DEF Carries
<1>4. Continues(Head(stream), agent.cursor) /\ Leads(Tail(stream), Head(stream).target, s) BY <1>2, <1>3, LeadsTail
<1>5. Head(stream) \in Good(desired) BY <1>2, HeadTailProperties
<1>6. Accepted(Head(stream)) /\ ~(Head(stream).kind = "diff" /\ Head(stream).target = agent.cursor)
  BY <1>2, <1>4, <1>5, ContinuesAccepted
<1> QED BY <1>1, <1>4, <1>6

\* The agent takes a message: what is left leads from its new revision.
LEMMA ReceiveInOrder ==
  ASSUME Inv, InOrder, Receive PROVE InOrder'
<1> PICK m : m = Head(stream) OBVIOUS
<1>0. stream # <<>> BY DEF Receive
<1>1. Accepted(m) /\ ~(m.kind = "diff" /\ m.target = agent.cursor) BY <1>0, HeadAccepted
<1>2. PICK s \in Nat : Carries(stream, agent, loop, s) /\ Leads(Tail(stream), m.target, s) BY <1>0, HeadAccepted
<1>3. stream' = Tail(stream) /\ loop' = loop /\ history' = history BY <1>1 DEF Receive
<1>4. agent' = [agent EXCEPT !.ready = "yes", !.cursor = m.target, !.services = Merge(agent.services, m)]
  BY <1>1 DEF Receive
<1>5. agent'.cursor = m.target /\ agent'.session = agent.session BY <1>4 DEF Inv, AgentOK, AgentType
<1>6. Carries(stream', agent', loop', s) BY <1>2, <1>3, <1>5 DEF Carries
<1> QED BY <1>2, <1>3, <1>6 DEF InOrder

\* Every step keeps the stream in order.
LEMMA InOrderStep == Inv /\ InOrder /\ [Next]_vars => InOrder'
<1> SUFFICES ASSUME Inv, InOrder, [Next]_vars PROVE InOrder' OBVIOUS
<1>1. CASE \/ \E c \in Content, ids \in SUBSET Allocs : Commit(c, ids)
           \/ \E c \in Content : CommitGap(c)
           \/ (\E seen \in Overlay : Observe(seen)) \/ Evict \/ Takeover
  BY <1>1, EnvironmentInOrder
<1>2. CASE Connect BY <1>2, ConnectInOrder
<1>3. ASSUME NEW l \in Sessions, Loop(l) PROVE InOrder'
  BY <1>3, PlanInOrder, BaselineInOrder, DiffsInOrder, SendBatchInOrder, CheckpointSentInOrder DEF Loop
<1>4. CASE Receive BY <1>4, ReceiveInOrder
<1>5. CASE UNCHANGED vars BY <1>5 DEF InOrder, vars
<1> QED BY <1>1, <1>2, <1>3, <1>4, <1>5 DEF Next

\* NeverRefused: acceptStagedDesired and acceptStagedDiff accept every message of the
\* agent's own stream, in whatever order its sessions are superseded, fail or lose their
\* history, because each message starts where the one before it ended.
THEOREM StreamNeverRefused == Spec => []NeverRefused
<1>1. Init => InOrder
  <2> SUFFICES ASSUME Init PROVE InOrder OBVIOUS
  <2>1. Ordered(history) BY NoDiffs DEF Init, NoHistory
  <2>2. \A l \in Sessions : loop[l].pc = "none" BY DEF Init, NoLoop
  <2>3. \A l \in Sessions : Ahead(loop[l]) /\ Ended(loop[l]) BY <2>2 DEF Ahead, Ended
  <2>4. agent.cursor = 0 /\ stream = <<>> BY DEF Init
  <2>5. Carries(stream, agent, loop, 0) BY <2>3, <2>4, LeadsEmpty DEF Carries
  <2> QED BY <2>1, <2>3, <2>5 DEF InOrder
<1>2. Inv /\ InOrder => NeverRefused BY HeadAccepted DEF NeverRefused
<1> QED BY <1>1, <1>2, Invariant, InOrderStep, PTL DEF Spec
=============================================================================
