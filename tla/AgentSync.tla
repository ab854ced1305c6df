----------------------------- MODULE AgentSync -----------------------------
(***************************************************************************)
(* How an agent learns what it has to run: the incremental sync of         *)
(* delivery/allocation_sync.go and delivery/agent_sync.go, the send loop   *)
(* of agent_service.go and the agent's durable store (local_state.go).     *)
(*                                                                         *)
(* desired[r] is what the agent has to run at its revision r: for each     *)
(* allocation a spec, or None.  A rendered service also carries the        *)
(* observation overlay (hosts and restart evidence), which changes without *)
(* a revision.  Every session of the agent is a stream with a send loop of *)
(* its own; a loop that was superseded may still be planning.              *)
(***************************************************************************)
EXTENDS Naturals, Sequences, FiniteSets

CONSTANTS Allocs, Specs, Overlays, None,
          MaxDiffEntries,  \* MaxDiffEntriesPerAgent
          MaxPatch,        \* MaxDiffAllocationsPerMessage
          MaxRevision,     \* bound: revisions of the agent
          MaxSession,      \* bound: sessions the agent opens
          MaxObserve       \* bound: changes of the overlay

ASSUME NoneAssumption  == None \notin Specs /\ None \notin Overlays
ASSUME BoundAssumption == /\ MaxDiffEntries \in Nat /\ MaxPatch \in Nat
                          /\ MaxRevision \in Nat /\ MaxSession \in Nat /\ MaxObserve \in Nat

VARIABLES desired,   \* content of every revision; the last one is the product's
          overlay,   \* the live observations, as they are rendered
          observed,  \* how often they have changed
          session,   \* Live.sessions of this agent; 0 is none
          history,   \* allocSync.history of this agent
          loop,      \* the send loop of each session
          stream,    \* messages on the agent's current stream
          agent      \* the agent: its session and its durable store

vars == <<desired, overlay, observed, session, history, loop, stream, agent>>

Sessions == 1..MaxSession
Content  == [Allocs -> Specs \cup {None}]
Overlay  == [Allocs -> Overlays]
Service  == [spec : Specs \cup {None}, overlay : Overlays \cup {None}]
State    == [Allocs -> Service]
Current  == Len(desired)

NoService == [spec |-> None, overlay |-> None]
NoState   == [a \in Allocs |-> NoService]

\* DesiredService of every allocation, as a checkpoint and as a patch render it.
Render(content, seen) ==
  [a \in Allocs |-> IF content[a] = None THEN NoService
                    ELSE [spec |-> content[a], overlay |-> seen[a]]]

SpecsOf(state)        == [a \in Allocs |-> state[a].spec]
OverlayVersion(state) == [a \in Allocs |-> state[a].overlay]

-----------------------------------------------------------------------------
(* The history of an agent.  serial and the identity of the object are only *)
(* compared with what a loop captured: loop[l].valid says whether they are  *)
(* still the same.                                                          *)

NoHistory == [state |-> "absent", revision |-> 0, target |-> 0, services |-> NoState,
              dirty |-> {}, diffs |-> <<>>]

\* historyFor: an entry is made for an agent that has none.
HistoryFor == IF history.state = "absent" THEN [NoHistory EXCEPT !.state = "empty"] ELSE history

\* The optimization is dropped, the entry stays.
Emptied(h, target) == [NoHistory EXCEPT !.state = "empty", !.revision = h.revision, !.target = target]

\* Defect: the allocations that a commit changed are not marked.
AppliedUnmarked(ids, target) ==
  IF history.state = "absent" THEN history ELSE [history EXCEPT !.target = target]

\* applied: a commit that changed these allocations moved the agent's revision.
Applied(ids, target) ==
  CASE history.state = "absent" -> history
    [] history.state = "empty"  -> [history EXCEPT !.target = target]
    [] OTHER -> IF Cardinality(history.dirty \cup ids) > MaxPatch
                THEN Emptied(history, target)
                ELSE [history EXCEPT !.target = target, !.dirty = @ \cup ids]

\* applied, when the batches do not connect to the previous product.
AppliedReset(target) ==
  IF history.state = "absent" THEN history ELSE Emptied(history, target)

\* rebase.
Rebased(h, cursor, services) ==
  IF h.state = "base" /\ cursor < h.revision THEN h
  ELSE [h EXCEPT !.state = "base", !.revision = cursor, !.services = services,
                 !.target = IF @ < cursor THEN cursor ELSE @, !.diffs = <<>>,
                 !.dirty = IF h.target <= cursor THEN {} ELSE @]

\* baseline: a plan at this cursor can start from the history.
Usable(h, cursor) == h.state = "base" /\ h.target <= cursor /\ h.revision <= cursor

\* The entries that survive the limit of the history.
Bounded(diffs) == IF Len(diffs) > MaxDiffEntries THEN Tail(diffs) ELSE diffs

\* Defect: the first entry may start after base.
LinkedLoosely(chain, base) == \A i \in 2..Len(chain) : chain[i].base = chain[i-1].target

\* diffsFromBase: the entries after base, when they make a chain of small patches.
Skipped(diffs, base) == Cardinality({i \in 1..Len(diffs) : diffs[i].target <= base})
From(diffs, base)    == SubSeq(diffs, Skipped(diffs, base) + 1, Len(diffs))
Linked(chain, base)  == \A i \in 1..Len(chain) :
                          chain[i].base = IF i = 1 THEN base ELSE chain[i-1].target
Small(chain)         == \A i \in 1..Len(chain) : Cardinality(chain[i].ids) <= MaxPatch
Chain(h, base)       == LET chain == From(h.diffs, base)
                        IN  IF h.state = "base" /\ Linked(chain, base) /\ Small(chain) THEN chain ELSE <<>>

-----------------------------------------------------------------------------
(* The loop of a session.  pc: "idle" waits for a notification, "viewed"    *)
(* has captured a product prefix and the observations, "based" a baseline,  *)
(* "stored" takes the stored diffs, "planned" has a plan, "sent" has sent a *)
(* checkpoint and not yet reported it, "done" has returned.                 *)

NoLoop == [pc |-> "none", wake |-> "no", first |-> "no", sent |-> 0, sentOverlay |-> OverlayVersion(NoState),
           cursor |-> 0, seen |-> NoState, revision |-> 0, services |-> NoState, dirty |-> {},
           valid |-> "no", plan |-> <<>>]

Returned == [NoLoop EXCEPT !.pc = "done"]

\* What a loop keeps between two batches.
Idle(p) == [NoLoop EXCEPT !.pc = "idle", !.wake = p.wake, !.sent = p.sent, !.sentOverlay = p.sentOverlay]

\* notifyLocked: each subscriber has a channel of one place.
Notified(p) == IF p.pc \in {"none", "done"} THEN p ELSE [p EXCEPT !.wake = "yes"]

\* The history's serial moved, or its entry was replaced.
Outdated(p) == IF p.pc = "based" THEN [p EXCEPT !.valid = "no"] ELSE p

Init == /\ desired = <<[a \in Allocs |-> None]>>
        /\ overlay \in Overlay /\ observed = 0
        /\ session = 0
        /\ history = NoHistory
        /\ loop = [l \in Sessions |-> NoLoop]
        /\ stream = <<>>
        /\ agent = [session |-> 0, ready |-> "no", cursor |-> 0, services |-> NoState]

-----------------------------------------------------------------------------
(* The product, the observations and the live view. *)

\* A commit gives the agent a new revision; ids are the invalidated allocations.
Commit(content, ids) ==
  /\ Current < MaxRevision
  /\ {a \in Allocs : content[a] # desired[Current][a]} \subseteq ids
  /\ desired' = Append(desired, content)
  /\ history' = Applied(ids, Current + 1)
  /\ loop' = [l \in Sessions |-> Notified(Outdated(loop[l]))]
  /\ UNCHANGED <<overlay, observed, session, stream, agent>>

\* A commit whose listener runs before an earlier one's: a gap, applied as a reset.
CommitGap(content) ==
  /\ Current < MaxRevision
  /\ desired' = Append(desired, content)
  /\ history' = AppliedReset(Current + 1)
  /\ loop' = [l \in Sessions |-> Notified(Outdated(loop[l]))]
  /\ UNCHANGED <<overlay, observed, session, stream, agent>>

\* RecordObservation and what it notifies.
Observe(seen) ==
  /\ observed < MaxObserve
  /\ seen # overlay
  /\ overlay' = seen /\ observed' = observed + 1
  /\ loop' = [l \in Sessions |-> Notified(loop[l])]
  /\ UNCHANGED <<desired, session, history, stream, agent>>

\* historyFor of another agent evicts this one, the least recently used.
Evict ==
  /\ history.state # "absent"
  /\ history' = NoHistory
  /\ loop' = [l \in Sessions |-> Outdated(loop[l])]
  /\ UNCHANGED <<desired, overlay, observed, session, stream, agent>>

\* The live owner resigns; its loops fail, another replica begins with an empty view.
Takeover ==
  /\ agent.session < MaxSession
  /\ session # 0
  /\ session' = 0
  /\ history' = NoHistory
  /\ loop' = [l \in Sessions |-> IF loop[l].pc = "none" THEN NoLoop ELSE Returned]
  /\ UNCHANGED <<desired, overlay, observed, stream, agent>>

-----------------------------------------------------------------------------
(* The send loop. *)

\* Sync and RegisterAgent: a new session, seeded from the agent's hello.
Connect ==
  LET l == agent.session + 1
  IN  /\ agent.session < MaxSession
      /\ agent' = [agent EXCEPT !.session = l]
      /\ session' = l
      /\ stream' = <<>>
      /\ loop' = [m \in Sessions |->
                    IF m = l
                    THEN [NoLoop EXCEPT !.pc = "idle", !.wake = "yes",
                                        !.first = IF agent.ready = "yes" THEN "ready" ELSE "fresh",
                                        !.sent = agent.cursor, !.sentOverlay = OverlayVersion(agent.services)]
                    ELSE Notified(loop[m])]
      /\ UNCHANGED <<desired, overlay, observed, history>>

\* The stream of a loop ends: an error of a call, of the stream, or its context.
Fail(l) ==
  /\ loop[l].pc \notin {"none", "done"}
  /\ agent.session < MaxSession \/ agent.session # l
  /\ loop' = [loop EXCEPT ![l] = Returned]
  /\ UNCHANGED <<desired, overlay, observed, session, history, stream, agent>>

\* agentView: the product prefix and the observations, captured together.
View(l) ==
  /\ loop[l].pc = "idle" /\ loop[l].wake = "yes"
  /\ loop' = [loop EXCEPT ![l].pc = "viewed", ![l].wake = "no", ![l].cursor = Current,
                          ![l].seen = Render(desired[Current], overlay)]
  /\ UNCHANGED <<desired, overlay, observed, session, history, stream, agent>>

Checkpoint(p) == <<[kind |-> "checkpoint", base |-> 0, target |-> p.cursor,
                    ids |-> Allocs, services |-> p.seen]>>

\* PlanAgentSync: RequireCheckpoint, or the overlay differs from what was sent.
MustCheckpoint(p) ==
  \/ p.first = "fresh"
  \/ p.first = "ready" /\ p.sentOverlay # OverlayVersion(p.seen)
  \/ p.cursor = p.sent /\ p.sentOverlay # OverlayVersion(p.seen)

Planned(p, plan) == [Idle(p) EXCEPT !.pc = "planned", !.cursor = p.cursor, !.seen = p.seen, !.plan = plan]

\* The first batch also compares the inventory of the hello: it may differ.
PlanCheckpoint(l) ==
  /\ loop[l].pc = "viewed"
  /\ MustCheckpoint(loop[l]) \/ loop[l].first = "ready"
  /\ loop' = [loop EXCEPT ![l] = Planned(loop[l], Checkpoint(loop[l]))]
  /\ UNCHANGED <<desired, overlay, observed, session, history, stream, agent>>

\* Nothing changed since the last batch.
PlanNothing(l) ==
  /\ loop[l].pc = "viewed"
  /\ ~MustCheckpoint(loop[l]) /\ loop[l].cursor = loop[l].sent
  /\ loop' = [loop EXCEPT ![l] = Idle(loop[l])]
  /\ UNCHANGED <<desired, overlay, observed, session, history, stream, agent>>

\* baseline.
Baseline(l) ==
  LET p == loop[l]
      h == HistoryFor
  IN  /\ p.pc = "viewed"
      /\ ~MustCheckpoint(p) /\ p.cursor > p.sent
      /\ history' = h
      /\ loop' = [loop EXCEPT ![l] =
                    IF ~Usable(h, p.cursor) THEN Planned(p, Checkpoint(p))
                    ELSE IF h.revision < p.cursor
                         THEN [p EXCEPT !.pc = "based", !.revision = h.revision, !.services = h.services,
                                        !.dirty = h.dirty, !.valid = "yes"]
                         ELSE [p EXCEPT !.pc = "stored"]]
      /\ UNCHANGED <<desired, overlay, observed, session, stream, agent>>

\* The allocations to render: the invalidated ones and those whose overlay differs.
Rendered(p) == p.dirty \cup {a \in Allocs : p.seen[a] # NoService /\ p.services[a].overlay # p.seen[a].overlay}

Patched(p) == [a \in Allocs |-> IF a \in Rendered(p) THEN p.seen[a] ELSE p.services[a]]

\* The wire patch: starts, updates and stops of the services that differ.
DiffOf(p) == LET ids == {a \in Rendered(p) : p.seen[a] # p.services[a]}
             IN  [kind |-> "diff", base |-> p.revision, target |-> p.cursor, ids |-> ids,
                  services |-> [a \in Allocs |-> IF a \in ids THEN p.seen[a] ELSE NoService]]

\* acceptDiff: the captured invalidation prefix still matches.
Accepts(p) == p.valid = "yes" /\ history.state = "base" /\ history.revision = p.revision

\* Defect: a baseline that no longer matches is not answered with a checkpoint.
AcceptDiffOnly(l) ==
  LET p == loop[l]
  IN  /\ p.pc = "based" /\ Accepts(p)
      /\ history' = [history EXCEPT !.revision = p.cursor, !.services = Patched(p), !.dirty = {},
                                    !.diffs = Bounded(Append(@, DiffOf(p)))]
      /\ loop' = [loop EXCEPT ![l] = [Idle(p) EXCEPT !.pc = "stored", !.cursor = p.cursor, !.seen = p.seen]]
      /\ UNCHANGED <<desired, overlay, observed, session, stream, agent>>

AcceptDiff(l) ==
  LET p == loop[l]
  IN  /\ p.pc = "based"
      /\ IF Accepts(p)
         THEN /\ history' = [history EXCEPT !.revision = p.cursor, !.services = Patched(p), !.dirty = {},
                                            !.diffs = Bounded(Append(@, DiffOf(p)))]
              /\ loop' = [loop EXCEPT ![l] = [Idle(p) EXCEPT !.pc = "stored", !.cursor = p.cursor, !.seen = p.seen]]
         ELSE /\ loop' = [loop EXCEPT ![l] = Planned(p, Checkpoint(p))]
              /\ UNCHANGED history
      /\ UNCHANGED <<desired, overlay, observed, session, stream, agent>>

\* diffsFrom: the stored diffs from what was sent up to the captured cursor.
TakeDiffs(l) ==
  LET p     == loop[l]
      chain == Chain(history, p.sent)
  IN  /\ p.pc = "stored"
      /\ loop' = [loop EXCEPT ![l] = Planned(p, IF history.revision = p.cursor /\ chain # <<>>
                                                THEN chain ELSE Checkpoint(p))]
      /\ UNCHANGED <<desired, overlay, observed, session, history, stream, agent>>

\* The position that sendSyncBatch returns.
Position(p) == [p EXCEPT !.sent = p.cursor, !.sentOverlay = OverlayVersion(p.seen)]

\* grantAgentCommand admits the current session only; then the batch is sent.
SendBatch(l) ==
  LET p == loop[l]
  IN  /\ p.pc = "planned"
      /\ IF session = l
         THEN /\ stream' = IF agent.session = l THEN stream \o p.plan ELSE stream
              /\ loop' = [loop EXCEPT ![l] = IF p.plan[1].kind = "checkpoint"
                                             THEN [Position(p) EXCEPT !.pc = "sent", !.plan = <<>>]
                                             ELSE Idle(Position(p))]
         ELSE /\ loop' = [loop EXCEPT ![l] = Returned]
              /\ UNCHANGED stream
      /\ UNCHANGED <<desired, overlay, observed, session, history, agent>>

\* The checkpoint is still the product's.
CurrentCheckpoint(p) == p.cursor = Current

\* Neither rebase nor discardThrough touches a history that is newer.
Newer(p) == p.cursor < history.revision /\ (history.state = "base" \/ ~CurrentCheckpoint(p))

\* AgentCheckpointSent.
AgentCheckpointSent(l) ==
  LET p == loop[l]
  IN  /\ p.pc = "sent"
      /\ history' = CASE session # l -> history
                      [] session = l /\ CurrentCheckpoint(p) -> Rebased(HistoryFor, p.cursor, p.seen)
                      [] OTHER -> IF history.revision <= p.cursor THEN NoHistory ELSE history
      /\ loop' = [m \in Sessions |-> CASE m = l -> Idle(p)
                                       [] m # l /\ session = l /\ ~Newer(p) -> Outdated(loop[m])
                                       [] OTHER -> loop[m]]
      /\ UNCHANGED <<desired, overlay, observed, session, stream, agent>>

-----------------------------------------------------------------------------
(* The agent's store. *)

\* acceptStagedDesired refuses a stale cursor, and a new content at the old one.
AcceptsCheckpoint(m) ==
  /\ m.target >= agent.cursor
  /\ m.target = agent.cursor /\ agent.ready = "yes" => SpecsOf(m.services) = SpecsOf(agent.services)

\* acceptStagedDiff, for a target that is ahead.
AcceptsDiff(m) == m.target > agent.cursor /\ m.base = agent.cursor /\ agent.ready = "yes"

\* applyDiffToState.
Merge(state, m) == [a \in Allocs |-> IF a \in m.ids THEN m.services[a] ELSE state[a]]

Accepted(m) == IF m.kind = "checkpoint" THEN AcceptsCheckpoint(m)
               ELSE m.target = agent.cursor \/ AcceptsDiff(m)

\* The agent takes the next message; a message it refuses ends its session.
Receive ==
  /\ stream # <<>>
  /\ LET m == Head(stream)
     IN  IF Accepted(m)
         THEN /\ agent' = IF m.kind = "diff" /\ m.target = agent.cursor THEN agent
                          ELSE [agent EXCEPT !.ready = "yes", !.cursor = m.target,
                                             !.services = Merge(agent.services, m)]
              /\ stream' = Tail(stream)
              /\ UNCHANGED loop
         ELSE /\ stream' = <<>>
              /\ loop' = [loop EXCEPT ![agent.session] = Returned]
              /\ UNCHANGED agent
  /\ UNCHANGED <<desired, overlay, observed, session, history>>

-----------------------------------------------------------------------------
Loop(l) == \/ Fail(l) \/ View(l) \/ PlanCheckpoint(l) \/ PlanNothing(l) \/ Baseline(l)
           \/ AcceptDiff(l) \/ TakeDiffs(l) \/ SendBatch(l) \/ AgentCheckpointSent(l)

Next == \/ \E content \in Content, ids \in SUBSET Allocs : Commit(content, ids)
        \/ \E content \in Content : CommitGap(content)
        \/ \E seen \in Overlay : Observe(seen)
        \/ Evict \/ Takeover \/ Connect
        \/ \E l \in Sessions : Loop(l)
        \/ Receive

Spec == Init /\ [][Next]_vars

\* The agent opens a new session when the last one has ended.
Reconnect == /\ agent.session = 0 \/ (loop[agent.session].pc = "done" /\ stream = <<>>)
             /\ Connect

\* The steps that a loop takes without waiting for anything.
Advance(l) == \/ View(l) \/ PlanCheckpoint(l) \/ PlanNothing(l) \/ Baseline(l)
              \/ AcceptDiff(l) \/ TakeDiffs(l) \/ SendBatch(l) \/ AgentCheckpointSent(l)

Fairness == WF_vars(Receive) /\ WF_vars(Reconnect) /\ \A l \in Sessions : WF_vars(Advance(l))

LiveSpec == Spec /\ Fairness

-----------------------------------------------------------------------------
Message == [kind : {"checkpoint", "diff"}, base : Nat, target : Nat, ids : SUBSET Allocs, services : State]

\* Types, and every revision in use is one of the product's.
TypeOK ==
  /\ desired \in Seq(Content) /\ Current > 0
  /\ overlay \in Overlay /\ observed \in Nat
  /\ session \in 0..MaxSession
  /\ history \in [state : {"absent", "empty", "base"}, revision : 0..Current, target : 0..Current,
                  services : State, dirty : SUBSET Allocs, diffs : Seq(Message)]
  /\ loop \in [Sessions -> [pc : {"none", "idle", "viewed", "based", "stored", "planned", "sent", "done"},
                            wake : {"yes", "no"}, first : {"no", "ready", "fresh"},
                            sent : 0..Current, sentOverlay : [Allocs -> Overlays \cup {None}],
                            cursor : 0..Current, seen : State, revision : 0..Current, services : State,
                            dirty : SUBSET Allocs, valid : {"yes", "no"}, plan : Seq(Message)]]
  /\ stream \in Seq(Message)
  /\ agent \in [session : 0..MaxSession, ready : {"yes", "no"}, cursor : 0..Current, services : State]

\* acceptStagedDesired and acceptStagedDiff never refuse a message of the agent's own
\* stream: what a loop has sent so far is where the next message starts.
NeverRefused == stream # <<>> => Accepted(Head(stream))

\* The agent as DesiredFollow sees it: its revision and the specs in its store.
Follow == INSTANCE DesiredFollow WITH Contents <- Content, Nothing <- SpecsOf(NoState),
            published <- desired, at <- agent.cursor, running <- SpecsOf(agent.services)

\* "Diffs are an optimization; any gap falls back to a full checkpoint"
\* (allocation_sync.go): whatever mix of checkpoints and diffs reaches the agent, its
\* store takes a whole published content at a time and never an older one.
Follows == Follow!Spec

\* The agent catches up with its desired state again and again, for as long as it is
\* allowed to open sessions: every revision, or a later one, reaches it.
Reached == []<>(agent.cursor = Current)
=============================================================================
