----------------------------- MODULE AgentSession -----------------------------
(***************************************************************************)
(* Presence of one fleet agent at the live owner.                          *)
(*                                                                         *)
(* Every connection of the agent has an incarnation of its own, taken from *)
(* the agent's store, and a handler at the control plane (agentService.Sync)*)
(* that registers the incarnation in the database, begins the live session *)
(* and serves the stream until it ends.  Registration and BeginSession are *)
(* two steps: handlers of two incarnations interleave between them.  The   *)
(* live session (delivery.Live) has a timer; a callback that has started is *)
(* not stopped by timer.Stop and runs against whatever session it finds.   *)
(* Failover looks at the session, probes the traffic of the agent's work   *)
(* (traffic_health.go), looks again in its transaction and commits.        *)
(*                                                                         *)
(* Time is the age of the last contact: "recent" until the agent's TTL has *)
(* passed without one.  The sequence of a report grows along a stream, so  *)
(* AcceptReport's order test passes on every report a stream carries, and  *)
(* it is left out.  One agent with one allocation stands for all: the maps *)
(* are keyed by agent and by allocation.  Its service is not being deleted *)
(* and has no unapplied change (those are left to the rollout).            *)
(***************************************************************************)
EXTENDS Naturals, FiniteSets

CONSTANTS
  MaxIncarnation,   \* bound on the agent's connections
  MaxFiring,        \* bound on expiry callbacks waiting for the mutex
  EvalCapacity,     \* capacity of Live.evals (128)
  Scopes            \* the instances, see Scope

YesNo == {"yes", "no"}

\* incarnations and restarts bound the connections and the losses of the live role.  failover:
\* the agent has work and may die.  faults: before that, too, its work may fail and it may report
\* that it is not ready.  routed: the work's service has a domain.  mesh: the control plane
\* reaches the mesh and the work's reported listeners.  spare: the work is not pinned to its node by a volume or as a managed
\* workload, and another agent has room for it.
Scope == [incarnations : 0..MaxIncarnation, restarts : Nat, failover : YesNo, faults : YesNo,
          routed : YesNo, mesh : YesNo, spare : YesNo]

ASSUME SessionAssumption ==
  /\ MaxIncarnation \in Nat \ {0}
  /\ MaxFiring \in Nat \ {0} /\ EvalCapacity \in Nat \ {0}
  /\ Scopes \subseteq Scope

VARIABLES
  registered,   \* agent_registrations.session_incarnation
  owner,        \* the live role: "none", "serving", or "cancelled" (ownerCtx is done)
  restarts,     \* losses of the live role so far
  session,      \* Live.sessions[agent]; incarnation 0: there is none
  admitted,     \* the agent is in Live.admitted
  timer,        \* Live.timers[agent]: "none", "armed" or "fired"
  firing,       \* expire callbacks that have started and wait for the mutex
  evals,        \* expiry evaluations in Live.evals
  handler,      \* the Sync handler of each incarnation
  inbox,        \* the message each handler has not yet received
  conn,         \* the incarnation of the agent's open connection, 0: none
  next,         \* the agent store's session incarnation
  alive,        \* the agent still runs
  failover,     \* the failover of the agent: step, contact since its cutoff, retained traffic
  work,         \* the agent's allocation as the live view has it, see Work
  answers,      \* the allocation's listeners accept connections
  scope         \* the member of Scopes this behaviour is in

vars == <<registered, owner, restarts, session, admitted, timer, firing, evals,
          handler, inbox, conn, next, alive, failover, work, answers, scope>>
live == <<session, admitted, timer, firing, evals>>
client == <<conn, next, alive>>
plant == <<work, answers, scope>>

Incarnations == 1..MaxIncarnation

\* "new" until it has been reported healthy and serves; "unknown" when it serves and this owner
\* has no observation of it; "moved" when failover has replaced it.
Work == {"none", "new", "healthy", "unhealthy", "unknown", "moved"}

NoSession == [incarnation |-> 0, ready |-> "no", reachable |-> "no", reconciled |-> "no", age |-> "old"]

Session == [incarnation : 0..MaxIncarnation, ready : YesNo, reachable : YesNo, reconciled : YesNo,
            age : {"recent", "old"}]

Failover == [pc : {"idle", "probing", "probed", "replacing"}, contact : YesNo, retained : YesNo]

NoFailover == [pc |-> "idle", contact |-> "no", retained |-> "no"]

Init ==
  /\ registered = 0 /\ owner = "serving" /\ restarts = 0
  /\ session = NoSession /\ admitted = "no" /\ timer = "none" /\ firing = 0 /\ evals = 0
  /\ handler = [i \in Incarnations |-> "none"]
  /\ inbox = [i \in Incarnations |-> "none"]
  /\ conn = 0 /\ next = 0 /\ alive = "yes"
  /\ failover = NoFailover
  /\ work = "none" /\ answers = "yes" /\ scope \in Scopes

-----------------------------------------------------------------------------
(* Live: the session and its timer. *)

\* requireAccepting.
Accepting == owner = "serving"

Readiness == IF scope.faults = "yes" THEN YesNo ELSE {"yes"}

\* A contact is later than the cutoff a running failover computed.
Contacted == failover' = [failover EXCEPT !.contact = IF failover.pc \in {"probing", "probed"} THEN "yes" ELSE "no"]

\* BeginSession replaces any session, its admission and its timer.
BeginSession(i, ready, reconciled) ==
  /\ session' = [incarnation |-> i, ready |-> ready, reachable |-> "yes", reconciled |-> reconciled, age |-> "recent"]
  /\ admitted' = reconciled
  /\ timer' = "armed"
  /\ Contacted

\* Heartbeat and AcceptReport refresh the session; a report may reconcile it,
\* nothing here takes that back.
Contact(ready, reconciled) ==
  /\ session' = [session EXCEPT !.ready = ready, !.reachable = "yes", !.age = "recent", !.reconciled = reconciled]
  /\ admitted' = IF reconciled = "yes" THEN "yes" ELSE admitted
  /\ timer' = "armed"
  /\ Contacted

\* EndSession, of the handler's own session only.
EndSession(i) ==
  IF session.incarnation = i
  THEN /\ session' = [session EXCEPT !.ready = "no", !.reachable = "no"]
       /\ admitted' = "no"
       /\ timer' = "none"
  ELSE UNCHANGED <<session, admitted, timer>>

\* The contact grows older than the TTL.
Age ==
  /\ session.incarnation # 0 /\ session.age = "recent"
  /\ session' = [session EXCEPT !.age = "old"]
  /\ UNCHANGED <<registered, owner, restarts, admitted, timer, firing, evals, handler, inbox, client, failover, plant>>

\* The timer's function starts; no Stop holds it back any more.
Fire ==
  /\ timer = "armed" /\ session.age = "old" /\ firing < MaxFiring
  /\ timer' = "fired" /\ firing' = firing + 1
  /\ UNCHANGED <<registered, owner, restarts, session, admitted, evals, handler, inbox, client, failover, plant>>

\* expire that leaves the admission.
ExpireAdmitted ==
  /\ firing > 0
  /\ firing' = firing - 1
  /\ IF session.incarnation = 0 \/ owner = "none"
     THEN UNCHANGED <<session, admitted, evals>>
     ELSE /\ session' = [session EXCEPT !.reachable = "no", !.ready = "no"]
          /\ UNCHANGED admitted
          /\ evals' = IF evals < EvalCapacity THEN evals + 1 ELSE evals
  /\ UNCHANGED <<registered, owner, restarts, timer, handler, inbox, client, failover, plant>>

\* expire: whatever session is there, of whatever age.
Expire ==
  /\ firing > 0
  /\ firing' = firing - 1
  /\ IF session.incarnation = 0 \/ owner = "none"
     THEN UNCHANGED <<session, admitted, evals>>
     ELSE /\ session' = [session EXCEPT !.reachable = "no", !.ready = "no"]
          /\ admitted' = "no"
          /\ evals' = IF evals < EvalCapacity THEN evals + 1 ELSE evals
  /\ UNCHANGED <<registered, owner, restarts, timer, handler, inbox, client, failover, plant>>

-----------------------------------------------------------------------------
(* The agent: runConnections and runSessionAt. *)

Connect ==
  /\ alive = "yes" /\ conn = 0 /\ next < scope.incarnations
  /\ next' = next + 1 /\ conn' = next + 1
  /\ handler' = [handler EXCEPT ![next + 1] = "hello"]
  /\ UNCHANGED <<registered, owner, restarts, live, inbox, alive, failover, plant>>

\* heartbeatLoop and sendCurrentReport; handlers read one message at a time.
Send(kind) ==
  /\ conn # 0 /\ handler[conn] = "open" /\ inbox[conn] = "none"
  /\ inbox' = [inbox EXCEPT ![conn] = kind]
  /\ UNCHANGED <<registered, owner, restarts, live, handler, client, failover, plant>>

\* The agent's end of the connection breaks, or the session is rotated.
Drop ==
  /\ conn # 0
  /\ conn' = 0
  /\ UNCHANGED <<registered, owner, restarts, live, handler, inbox, next, alive, failover, plant>>

Die ==
  /\ alive = "yes" /\ scope.failover = "yes"
  /\ alive' = "no" /\ conn' = 0
  /\ UNCHANGED <<registered, owner, restarts, live, handler, inbox, next, failover, plant>>

-----------------------------------------------------------------------------
(* Sync: one handler for each connection. *)

Moved(i, pc) == handler' = [handler EXCEPT ![i] = pc]

\* RegisterAgent's transaction commits: only an incarnation above the stored one.
Register(i) ==
  /\ handler[i] = "hello" /\ owner # "none"
  /\ IF i > registered THEN registered' = i /\ Moved(i, "registered")
                       ELSE UNCHANGED registered /\ Moved(i, "done")
  /\ UNCHANGED <<owner, restarts, live, inbox, client, failover, plant>>

\* The transaction fails with the stream, whose end the handler may notice late or never, or with
\* the owner.
RegisterFails(i) ==
  /\ handler[i] = "hello" /\ (~Accepting \/ conn # i)
  /\ Moved(i, "done")
  /\ UNCHANGED <<registered, owner, restarts, live, inbox, client, failover, plant>>

\* RegisterAgent begins the session, whatever happened since its commit.
Begin(i) ==
  /\ handler[i] = "registered"
  /\ \/ /\ Accepting
        /\ \E ready \in Readiness, reconciled \in YesNo : BeginSession(i, ready, reconciled)
        /\ Moved(i, "open")
     \/ /\ ~Accepting
        /\ Moved(i, "done")
        /\ UNCHANGED <<session, admitted, timer, failover>>
  /\ UNCHANGED <<registered, owner, restarts, firing, evals, inbox, client, plant>>

Healths == IF scope.faults = "yes" THEN {"healthy", "unhealthy"} ELSE {"healthy"}

\* RecordObservation for the allocation; reports for one that was replaced change nothing.
Observed(health) ==
  work' = IF work \in {"none", "moved"} \/ (work = "new" /\ health = "unhealthy") THEN work ELSE health

\* A heartbeat or a report; the error of either ends the stream.
Receive(i) ==
  /\ handler[i] = "open" /\ inbox[i] # "none"
  /\ inbox' = [inbox EXCEPT ![i] = "none"]
  /\ IF Accepting /\ session.incarnation = i
     THEN /\ \E ready \in Readiness, covered \in YesNo :
               Contact(ready, IF inbox[i] = "report" /\ covered = "yes" THEN "yes" ELSE session.reconciled)
          /\ IF inbox[i] = "report"
             THEN \E health \in Healths : Observed(health)
             ELSE UNCHANGED work
          /\ UNCHANGED handler
     ELSE /\ Moved(i, "ending")
          /\ UNCHANGED <<session, admitted, timer, failover, work>>
  /\ UNCHANGED <<registered, owner, restarts, firing, evals, client, answers, scope>>

\* The loop returns: its context ended, the owner changed, the send loop was not
\* granted a command for this session, or a message failed in some other way.
Return(i) ==
  /\ handler[i] = "open"
  /\ Moved(i, "ending")
  /\ UNCHANGED <<registered, owner, restarts, live, inbox, client, failover, plant>>

\* The deferred EndAgentSession; a connected agent sees its stream end.
End(i) ==
  /\ handler[i] = "ending"
  /\ EndSession(i)
  /\ Moved(i, "done")
  /\ inbox' = [inbox EXCEPT ![i] = "none"]
  /\ UNCHANGED <<registered, owner, restarts, firing, evals, client, failover, plant>>

\* The agent notices the end of its stream.
Closed ==
  /\ conn # 0 /\ handler[conn] = "done"
  /\ conn' = 0
  /\ UNCHANGED <<registered, owner, restarts, live, handler, inbox, next, alive, failover, plant>>

-----------------------------------------------------------------------------
(* The live role. *)

\* The lease is lost: ownerCtx ends first, resign follows.
Cancel ==
  /\ owner = "serving" /\ restarts < scope.restarts
  /\ owner' = "cancelled" /\ restarts' = restarts + 1
  /\ UNCHANGED <<registered, live, handler, inbox, client, failover, plant>>

\* resign and resetLocked, the observations included; the callbacks that have started remain.
Resign ==
  /\ owner = "cancelled"
  /\ owner' = "none"
  /\ session' = NoSession /\ admitted' = "no" /\ timer' = "none" /\ evals' = 0
  /\ work' = IF work \in {"healthy", "unhealthy"} THEN "unknown" ELSE work
  /\ UNCHANGED <<registered, restarts, firing, handler, inbox, client, failover, answers, scope>>

Become ==
  /\ owner = "none"
  /\ owner' = "serving"
  /\ UNCHANGED <<registered, restarts, live, handler, inbox, client, failover, plant>>

-----------------------------------------------------------------------------
(* Failover of the agent. *)

\* overlayAgentLocked without overlayAgentAbsent.
UnavailablePresent ==
  session.incarnation # 0 /\ (session.ready = "no" \/ session.reachable = "no" \/ session.age = "old")

\* overlayAgentLocked.
Unavailable ==
  \/ session.incarnation = 0
  \/ session.ready = "no" \/ session.reachable = "no" \/ session.age = "old"

\* LastSeenAt.After(cutoff) at the time the cutoff is computed.
Seen == session.incarnation # 0 /\ session.age = "recent"

\* The transaction does not look at LastSeenAt again.
SeenSinceIgnored == FALSE

\* LastSeenAt.After(cutoff) in the transaction, for the same cutoff.
SeenSince == session.incarnation # 0 /\ failover.contact = "yes"

\* failoverAgent up to its probes.
StartFailover ==
  failover' = IF Unavailable /\ ~Seen
              THEN [pc |-> "probing", contact |-> "no", retained |-> "no"] ELSE failover

HandleEval ==
  /\ owner = "serving" /\ evals > 0 /\ failover.pc = "idle" /\ scope.failover = "yes"
  /\ evals' = evals - 1
  /\ StartFailover
  /\ UNCHANGED <<registered, owner, restarts, session, admitted, timer, firing, handler, inbox, client, plant>>

\* ReconcileFailover, and the retries of the other reconcilers.
ReconcileFailover ==
  /\ owner = "serving" /\ failover.pc = "idle" /\ scope.failover = "yes"
  /\ StartFailover
  /\ UNCHANGED <<registered, owner, restarts, live, handler, inbox, client, plant>>

\* allocationsRetainedByTraffic: healthy work that answers or cannot be probed, and routed work
\* that a new owner has not heard of.
Retained ==
  \/ work = "healthy" /\ (answers = "yes" \/ scope.mesh = "no")
  \/ work = "unknown" /\ scope.routed = "yes"

Probe ==
  /\ failover.pc = "probing"
  /\ failover' = [failover EXCEPT !.pc = "probed", !.retained = IF Retained THEN "yes" ELSE "no"]
  /\ UNCHANGED <<registered, owner, restarts, live, handler, inbox, client, plant>>

\* The transaction of failoverAgent looks at the live view; evidence of a revision or generation
\* that was replaced since the probe does not count.
Decide(evidence) ==
  /\ failover.pc = "probed"
  /\ failover' = IF /\ owner # "none" /\ Unavailable /\ ~SeenSince
                    /\ work \notin {"none", "moved"}
                    /\ ~(failover.retained = "yes" /\ evidence = "current")
                 THEN [NoFailover EXCEPT !.pc = "replacing"] ELSE NoFailover
  /\ UNCHANGED <<registered, owner, restarts, live, handler, inbox, client, plant>>

\* It commits: replaceLostNodeAllocationTx has replaced the allocation, or blocked its service
\* because it is pinned or no agent has room.
Replace ==
  /\ failover.pc = "replacing"
  /\ failover' = NoFailover
  /\ work' = IF scope.spare = "yes" THEN "moved" ELSE work
  /\ UNCHANGED <<registered, owner, restarts, live, handler, inbox, client, answers, scope>>

\* It fails with the owner's context.
ReplaceFails ==
  /\ failover.pc = "replacing" /\ ~Accepting
  /\ failover' = NoFailover
  /\ UNCHANGED <<registered, owner, restarts, live, handler, inbox, client, plant>>

-----------------------------------------------------------------------------
(* The allocation. *)

\* The scheduler gives an admitted agent its work.
Place ==
  /\ Accepting /\ admitted = "yes" /\ work = "none" /\ scope.failover = "yes"
  /\ work' = "new"
  /\ UNCHANGED <<registered, owner, restarts, live, handler, inbox, client, failover, answers, scope>>

\* The containers or their node go down; those of an agent that died may go on.
Silence ==
  /\ answers = "yes" /\ work \notin {"none", "moved"} /\ (alive = "no" \/ scope.faults = "yes")
  /\ answers' = "no"
  /\ UNCHANGED <<registered, owner, restarts, live, handler, inbox, client, failover, work, scope>>

-----------------------------------------------------------------------------

Handle(i) == Register(i) \/ RegisterFails(i) \/ Begin(i) \/ Receive(i) \/ Return(i) \/ End(i)

Next ==
  \/ Age \/ Fire \/ Expire
  \/ Connect \/ (\E kind \in {"beat", "report"} : Send(kind)) \/ Drop \/ Die \/ Closed
  \/ \E i \in Incarnations : Handle(i)
  \/ Cancel \/ Resign \/ Become
  \/ HandleEval \/ ReconcileFailover \/ Probe \/ Replace \/ ReplaceFails
  \/ (\E evidence \in {"current", "replaced"} : Decide(evidence))
  \/ Place \/ Silence

Spec == Init /\ [][Next]_vars

\* What the control plane and a running agent keep doing.  The TTL passes when
\* the session's connection is gone; the process takes the live role again.
Fairness ==
  /\ WF_vars(Age /\ conn # session.incarnation)
  /\ WF_vars(Fire) /\ WF_vars(Expire)
  /\ WF_vars(Connect) /\ WF_vars(\E kind \in {"beat", "report"} : Send(kind)) /\ WF_vars(Closed)
  /\ \A i \in Incarnations :
       /\ WF_vars(Receive(i))
       /\ WF_vars(Register(i) \/ RegisterFails(i) \/ Begin(i) \/ End(i) \/ (Return(i) /\ ~Accepting))
  /\ WF_vars(Resign \/ Become)
  /\ WF_vars(\/ ReconcileFailover \/ Probe \/ Replace
             \/ \E evidence \in {"current", "replaced"} : Decide(evidence))

LiveSpec == Spec /\ Fairness

-----------------------------------------------------------------------------
(* Properties. *)

Handler == {"none", "hello", "registered", "open", "ending", "done"}

\* Types; a session, a connection and the stored incarnation are ones the agent
\* has used (nextSessionIncarnation, RegisterAgent).
TypeOK ==
  /\ registered \in 0..next /\ conn \in 0..next /\ next \in 0..MaxIncarnation
  /\ owner \in {"none", "serving", "cancelled"} /\ restarts \in Nat
  /\ session \in Session /\ session.incarnation <= registered
  /\ admitted \in YesNo /\ timer \in {"none", "armed", "fired"}
  /\ firing \in 0..MaxFiring /\ evals \in 0..EvalCapacity
  /\ handler \in [Incarnations -> Handler]
  /\ inbox \in [Incarnations -> {"none", "beat", "report"}]
  /\ alive \in YesNo
  /\ failover \in Failover
  /\ work \in Work /\ answers \in YesNo /\ scope \in Scope

\* Live.admitted never holds an agent without a session, an unreachable one or
\* one whose inventory has not covered its assignments, and is empty when the
\* process does not own the live role: whatever order expiries, handlers of
\* older connections and a change of the role come in.
AdmittedUsable ==
  admitted = "yes" =>
    /\ owner # "none"
    /\ session.incarnation # 0 /\ session.reachable = "yes" /\ session.reconciled = "yes"

\* A reachable session can always expire: its timer is armed or the callback is
\* on its way.  A session without either would stay reachable for ever.
ExpiryPending ==
  session.reachable = "yes" => timer = "armed" \/ firing > 0

\* failoverAgent goes on to replace the work of an agent only when, as its transaction looks,
\* the agent has no session or has been silent for the whole TTL: although a late expire
\* callback may mark a session unreachable just after a heartbeat, and although the agent may
\* come back while it probes.  (A contact between that look and the commit comes too late.)
LostOnlySilent ==
  [][failover'.pc = "replacing" /\ failover.pc # "replacing" =>
       session.incarnation = 0 \/ session.age = "old"]_vars

\* Its newest connection holds the live session and is reachable.
Served == conn # 0 /\ session.incarnation = conn /\ session.reachable = "yes"

\* What a dead agent may keep: work that answers, that the control plane cannot probe, that is
\* routed and unknown to an owner that took over since ("retain routed work until failure or
\* withdrawal is confirmed", traffic_health.go), that is pinned or has nowhere to go.
MayStay ==
  \/ work = "healthy" /\ (answers = "yes" \/ scope.mesh = "no")
  \/ work = "unknown" /\ scope.routed = "yes"
  \/ scope.spare = "no"

\* A running agent is served again and again, whatever handlers of older connections, expiries
\* and changes of the live role did before, until the bound leaves it without a connection to
\* open; and the work of an agent that died is replaced (ReconcileFailover) unless it may stay,
\* even if its expiry evaluations were dropped from the full queue or with the live role.
ServedOrReplaced ==
  []<>(IF alive = "yes" THEN Served \/ (conn = 0 /\ next = scope.incarnations)
                        ELSE work \in {"none", "moved"} \/ MayStay)
=============================================================================
