------------------------- MODULE AgentSessionProofs -------------------------
(***************************************************************************)
(* The session invariants, for any number of connections, changes of the   *)
(* live role, expiry callbacks and evaluations.                            *)
(***************************************************************************)
EXTENDS AgentSession, TLAPS

\* Handlers run for connections the agent made; past RegisterAgent's
\* transaction their incarnation is stored.
Streams ==
  \A i \in Incarnations :
    /\ handler[i] # "none" => i <= next
    /\ handler[i] \in {"registered", "open", "ending"} => i <= registered

\* Without the live role there is no session, and no session is not reachable.
Absent ==
  /\ owner = "none" => session.incarnation = 0
  /\ session.incarnation = 0 => session.reachable = "no"

\* A failover that was not overtaken by a contact while it probes faces silence.
ProbeSilent ==
  failover.pc \in {"probing", "probed"} /\ failover.contact = "no" => session.incarnation = 0 \/ session.age = "old"

IInv == TypeOK /\ Streams /\ Absent /\ AdmittedUsable /\ ExpiryPending /\ ProbeSilent

\* NewLive establishes the invariant.
LEMMA InitOK == Init => IInv
<1> SUFFICES ASSUME Init PROVE IInv OBVIOUS
<1> USE SessionAssumption DEF Init, Incarnations, YesNo
<1>1. NoSession \in Session BY DEF NoSession, Session
<1>2. "none" \in Handler /\ NoFailover \in Failover /\ NoFailover.pc = "idle" BY DEF Handler, Failover, NoFailover
<1>3. TypeOK BY <1>1, <1>2 DEF TypeOK, NoSession, Work
<1> QED BY <1>3 DEF IInv, Streams, Absent, AdmittedUsable, ExpiryPending, ProbeSilent, NoSession, NoFailover

\* A step that leaves the session, its timer and the role alone keeps their
\* part of the invariant.
LEMMA LiveUntouched ==
  ASSUME IInv, UNCHANGED <<owner, live, failover>>
  PROVE  Absent' /\ AdmittedUsable' /\ ExpiryPending' /\ ProbeSilent'
BY DEF IInv, live, Absent, AdmittedUsable, ExpiryPending, ProbeSilent

\* A handler moves on.
LEMMA MovedOK ==
  ASSUME IInv, NEW i \in Incarnations, NEW e \in Handler, handler' = [handler EXCEPT ![i] = e],
         next' = next, registered' \in Nat, registered' >= registered,
         e # "none" => i <= next,
         e \in {"registered", "open", "ending"} => i <= registered'
  PROVE  handler' \in [Incarnations -> Handler] /\ Streams'
<1>1. handler \in [Incarnations -> Handler] BY DEF IInv, TypeOK
<1>2. \A j \in Incarnations : handler'[j] = IF j = i THEN e ELSE handler[j] BY <1>1
<1>3. registered \in Nat /\ Incarnations \subseteq Nat BY SessionAssumption DEF IInv, TypeOK, Incarnations
<1> QED BY <1>1, <1>2, <1>3 DEF Streams, IInv

\* Age, Fire and Expire.
LEMMA TimerStep ==
  ASSUME IInv, Age \/ Fire \/ Expire PROVE IInv'
<1> USE DEF YesNo
<1>1. Streams' BY DEF IInv, Streams, Age, Fire, Expire, client
<1>2. CASE Age
  <2> PICK e : e = [session EXCEPT !.age = "old"] OBVIOUS
  <2>1. e \in Session /\ e.incarnation = session.incarnation /\ e.reachable = session.reachable
        /\ e.reconciled = session.reconciled /\ e.age = "old"
    BY DEF IInv, TypeOK, Session
  <2>2. session' = e BY <1>2 DEF Age
  <2>3. TypeOK' BY <1>2, <2>1, <2>2 DEF IInv, TypeOK, Age, client, plant
  <2> QED BY <1>1, <1>2, <2>1, <2>2, <2>3
        DEF IInv, Age, Absent, AdmittedUsable, ExpiryPending, ProbeSilent, client
<1>3. CASE Fire
  <2>1. firing' \in 0..MaxFiring /\ firing' > 0 BY <1>3, SessionAssumption DEF IInv, TypeOK, Fire
  <2>2. TypeOK' BY <1>3, <2>1 DEF IInv, TypeOK, Fire, client, plant
  <2> QED BY <1>1, <1>3, <2>1, <2>2 DEF IInv, Fire, Absent, AdmittedUsable, ExpiryPending, ProbeSilent, client
<1>4. CASE Expire
  <2>1. firing' \in 0..MaxFiring BY <1>4, SessionAssumption DEF IInv, TypeOK, Expire
  <2>2. CASE session.incarnation = 0 \/ owner = "none"
    <3>1. UNCHANGED <<session, admitted, evals, owner, timer, failover>> BY <1>4, <2>2 DEF Expire
    <3>2. TypeOK' BY <1>4, <2>1, <3>1 DEF IInv, TypeOK, Expire, client, plant
    <3>3. session.reachable = "no" BY <2>2 DEF IInv, Absent
    <3> QED BY <1>1, <3>1, <3>2, <3>3 DEF IInv, Absent, AdmittedUsable, ExpiryPending, ProbeSilent
  <2>3. CASE ~(session.incarnation = 0 \/ owner = "none")
    <3> PICK e : e = [session EXCEPT !.reachable = "no", !.ready = "no"] OBVIOUS
    <3>1. e \in Session /\ e.incarnation = session.incarnation /\ e.reachable = "no" /\ e.age = session.age
      BY DEF IInv, TypeOK, Session
    <3>2. session' = e /\ admitted' = "no" /\ UNCHANGED <<owner, failover>> BY <1>4, <2>3 DEF Expire
    <3>3. evals' \in 0..EvalCapacity BY <1>4, <2>3, SessionAssumption DEF IInv, TypeOK, Expire
    <3>4. TypeOK' BY <1>4, <2>1, <3>1, <3>2, <3>3 DEF IInv, TypeOK, Expire, client, plant
    <3> QED BY <1>1, <2>3, <3>1, <3>2, <3>4 DEF IInv, Absent, AdmittedUsable, ExpiryPending, ProbeSilent
  <2> QED BY <2>2, <2>3
<1> QED BY <1>2, <1>3, <1>4

\* The agent's own steps.
LEMMA AgentStep ==
  ASSUME IInv, Connect \/ (\E kind \in {"beat", "report"} : Send(kind)) \/ Drop \/ Die \/ Closed PROVE IInv'
<1>0. Absent' /\ AdmittedUsable' /\ ExpiryPending' /\ ProbeSilent'
  BY LiveUntouched DEF Connect, Send, Drop, Die, Closed
<1>1. CASE Connect
  <2> PICK i : i = next + 1 OBVIOUS
  <2>1. i \in Incarnations /\ i \in Nat /\ next \in Nat /\ i \in 0..MaxIncarnation /\ registered \in Nat
    <3>1. scope.incarnations \in 0..MaxIncarnation BY DEF IInv, TypeOK, Scope
    <3> QED BY <1>1, <3>1, SessionAssumption DEF IInv, TypeOK, Incarnations, Connect
  <2>2. /\ next' = i /\ conn' = i
        /\ handler' = [handler EXCEPT ![i] = "hello"]
        /\ UNCHANGED <<registered, owner, restarts, live, inbox, alive, failover, plant>>
    BY <1>1 DEF Connect
  <2> PICK e : e = "hello" OBVIOUS
  <2>3. e \in Handler /\ e = "hello" BY DEF Handler
  <2>4. handler' = [handler EXCEPT ![i] = e] BY <2>2
  <2>5. handler \in [Incarnations -> Handler] /\ Incarnations \subseteq Nat
    BY SessionAssumption DEF IInv, TypeOK, Incarnations
  <2>6. handler' \in [Incarnations -> Handler] BY <2>1, <2>3, <2>4, <2>5
  <2>7. \A j \in Incarnations : handler'[j] = IF j = i THEN e ELSE handler[j] BY <2>4, <2>5
  <2>8. \A j \in Incarnations : j <= next => j <= i BY <2>1, <2>5
  <2>9. registered \in 0..i BY <2>1 DEF IInv, TypeOK
  <2>10. Streams' BY <2>1, <2>2, <2>3, <2>5, <2>7, <2>8 DEF IInv, Streams
  <2>11. conn' \in 0..next' /\ next' \in 0..MaxIncarnation /\ registered' \in 0..next' BY <2>1, <2>2, <2>9
  <2>12. TypeOK' BY <2>2, <2>6, <2>11 DEF IInv, TypeOK, live, plant
  <2> QED BY <1>0, <2>10, <2>12 DEF IInv
<1>2. CASE \E kind \in {"beat", "report"} : Send(kind)
  <2> PICK kind \in {"beat", "report"} : Send(kind) BY <1>2
  <2>1. inbox' \in [Incarnations -> {"none", "beat", "report"}] BY DEF IInv, TypeOK, Send
  <2>2. TypeOK' BY <2>1 DEF IInv, TypeOK, Send, live, client, plant
  <2>3. Streams' BY DEF IInv, Streams, Send, client
  <2> QED BY <1>0, <2>2, <2>3 DEF IInv
<1>3. CASE Drop \/ Die \/ Closed
  <2>1. conn' \in 0..next' BY <1>3 DEF IInv, TypeOK, Drop, Die, Closed
  <2>2. alive' \in YesNo BY <1>3 DEF IInv, TypeOK, Drop, Die, Closed, YesNo
  <2>3. UNCHANGED <<registered, owner, restarts, live, handler, inbox, next, failover, plant>> BY <1>3 DEF Drop, Die, Closed
  <2>4. TypeOK' BY <2>1, <2>2, <2>3 DEF IInv, TypeOK, live, plant
  <2>5. Streams' BY <2>3 DEF IInv, Streams
  <2> QED BY <1>0, <2>4, <2>5 DEF IInv
<1> QED BY <1>1, <1>2, <1>3

\* The steps of a handler that leave the session alone.
LEMMA HandlerStep ==
  ASSUME IInv, NEW i \in Incarnations, Register(i) \/ RegisterFails(i) \/ Return(i) PROVE IInv'
<1>0. Absent' /\ AdmittedUsable' /\ ExpiryPending' /\ ProbeSilent'
  BY LiveUntouched DEF Register, RegisterFails, Return
<1>1. /\ handler \in [Incarnations -> Handler] /\ handler[i] \in Handler /\ i \in Nat /\ registered \in Nat /\ next \in Nat
      /\ handler[i] # "none" => i <= next
      /\ handler[i] \in {"registered", "open", "ending"} => i <= registered
  BY SessionAssumption DEF IInv, TypeOK, Incarnations, Streams
<1>2. ASSUME NEW e \in Handler, handler' = [handler EXCEPT ![i] = e], e # "none", handler[i] # "none",
             registered' \in {registered, i}, registered' >= registered,
             e \in {"registered", "open", "ending"} => i <= registered',
             UNCHANGED <<owner, restarts, live, inbox, client, failover, plant>>
      PROVE  IInv'
  <2>1. i <= next /\ next' = next /\ registered' \in Nat BY <1>1, <1>2 DEF client
  <2>2. handler' \in [Incarnations -> Handler] /\ Streams' BY <1>1, <1>2, <2>1, MovedOK
  <2>3. registered' \in 0..next' /\ session.incarnation <= registered'
    <3>1. registered \in 0..next /\ session.incarnation <= registered /\ session.incarnation \in Nat
      BY SessionAssumption DEF IInv, TypeOK, Session
    <3> QED BY <1>1, <1>2, <2>1, <3>1
  <2>4. TypeOK' BY <1>2, <2>1, <2>2, <2>3 DEF IInv, TypeOK, live, client, plant
  <2> QED BY <1>0, <2>2, <2>4 DEF IInv
<1>4. CASE Register(i) /\ i > registered
  <2> PICK e : e = "registered" OBVIOUS
  <2>1. e \in Handler /\ e = "registered" BY DEF Handler
  <2>2. handler' = [handler EXCEPT ![i] = e] /\ handler[i] = "hello" BY <1>4 DEF Register, Moved
  <2>3. registered' = i /\ UNCHANGED <<owner, restarts, live, inbox, client, failover, plant>> BY <1>4 DEF Register
  <2>4. registered' >= registered /\ i <= registered' BY <1>1, <1>4, <2>3
  <2> QED BY <1>2, <2>1, <2>2, <2>3, <2>4
<1>5. CASE (Register(i) /\ ~(i > registered)) \/ RegisterFails(i)
  <2> PICK e : e = "done" OBVIOUS
  <2>1. e \in Handler /\ e = "done" BY DEF Handler
  <2>2. handler' = [handler EXCEPT ![i] = e] /\ handler[i] = "hello" BY <1>5 DEF Register, RegisterFails, Moved
  <2>3. registered' = registered /\ UNCHANGED <<owner, restarts, live, inbox, client, failover, plant>>
    BY <1>5 DEF Register, RegisterFails
  <2>4. registered' >= registered BY <1>1, <2>3
  <2> QED BY <1>2, <2>1, <2>2, <2>3, <2>4
<1>6. CASE Return(i)
  <2> PICK e : e = "ending" OBVIOUS
  <2>1. e \in Handler /\ e = "ending" BY DEF Handler
  <2>2. handler' = [handler EXCEPT ![i] = e] /\ handler[i] = "open" BY <1>6 DEF Return, Moved
  <2>3. registered' = registered /\ UNCHANGED <<owner, restarts, live, inbox, client, failover, plant>> BY <1>6 DEF Return
  <2>4. registered' >= registered /\ i <= registered' BY <1>1, <2>2, <2>3
  <2> QED BY <1>2, <2>1, <2>2, <2>3, <2>4
<1> QED BY <1>4, <1>5, <1>6

\* Begin: the session of the handler replaces any other.
LEMMA BeginStep ==
  ASSUME IInv, NEW i \in Incarnations, Begin(i) PROVE IInv'
<1> USE DEF YesNo
<1>1. /\ handler \in [Incarnations -> Handler] /\ handler[i] \in Handler /\ i \in Nat /\ i # 0
      /\ registered \in Nat /\ next \in Nat /\ i <= next /\ i <= registered /\ i \in 0..MaxIncarnation
  BY SessionAssumption DEF IInv, TypeOK, Incarnations, Streams, Begin
<1>2. CASE Accepting /\ \E ready \in Readiness, reconciled \in YesNo : BeginSession(i, ready, reconciled) /\ Moved(i, "open")
  <2> PICK ready \in Readiness, reconciled \in YesNo : BeginSession(i, ready, reconciled) /\ Moved(i, "open") BY <1>2
  <2>0. ready \in YesNo BY DEF Readiness
  <2> PICK e : e = "open" OBVIOUS
  <2>1. e \in Handler /\ e = "open" BY DEF Handler
  <2>2. handler' = [handler EXCEPT ![i] = e] BY DEF Moved
  <2>3. UNCHANGED <<registered, owner, restarts, firing, evals, inbox, client, plant>> BY DEF Begin
  <2>30. next' = next /\ registered' \in Nat /\ registered' >= registered /\ i <= registered' BY <1>1, <2>3 DEF client
  <2>4. handler' \in [Incarnations -> Handler] /\ Streams' BY <1>1, <2>1, <2>2, <2>30, MovedOK
  <2> PICK s : s = [incarnation |-> i, ready |-> ready, reachable |-> "yes", reconciled |-> reconciled, age |-> "recent"] OBVIOUS
  <2>5. s \in Session /\ s.incarnation = i /\ s.reachable = "yes" /\ s.reconciled = reconciled BY <1>1, <2>0 DEF Session
  <2>6. session' = s /\ admitted' = reconciled /\ timer' = "armed" BY DEF BeginSession
  <2>7. failover' \in Failover
        /\ (failover'.pc \in {"probing", "probed"} => failover'.contact = "yes")
    BY DEF BeginSession, Contacted, IInv, TypeOK, Failover
  <2>8. TypeOK' BY <1>1, <2>3, <2>4, <2>5, <2>6, <2>7 DEF IInv, TypeOK, client, plant
  <2> QED BY <1>1, <1>2, <2>3, <2>4, <2>5, <2>6, <2>7, <2>8
        DEF IInv, Accepting, Absent, AdmittedUsable, ExpiryPending, ProbeSilent
<1>3. CASE ~Accepting /\ Moved(i, "done") /\ UNCHANGED <<session, admitted, timer, failover>>
  <2> PICK e : e = "done" OBVIOUS
  <2>1. e \in Handler /\ e = "done" BY DEF Handler
  <2>2. handler' = [handler EXCEPT ![i] = e] BY <1>3 DEF Moved
  <2>3. UNCHANGED <<registered, owner, restarts, firing, evals, inbox, client, plant>> BY DEF Begin
  <2>30. next' = next /\ registered' \in Nat /\ registered' >= registered /\ i <= registered' BY <1>1, <2>3 DEF client
  <2>4. handler' \in [Incarnations -> Handler] /\ Streams' BY <1>1, <2>1, <2>2, <2>30, MovedOK
  <2>5. TypeOK' BY <1>3, <2>3, <2>4 DEF IInv, TypeOK, client, plant
  <2>6. Absent' /\ AdmittedUsable' /\ ExpiryPending' /\ ProbeSilent' BY <1>3, <2>3, LiveUntouched DEF live
  <2> QED BY <2>4, <2>5, <2>6 DEF IInv
<1> QED BY <1>2, <1>3 DEF Begin

\* Receive: a contact of the handler's own session, or the end of the stream.
LEMMA ReceiveStep ==
  ASSUME IInv, NEW i \in Incarnations, Receive(i) PROVE IInv'
<1> USE DEF YesNo
<1>1. /\ handler \in [Incarnations -> Handler] /\ handler[i] \in Handler /\ i \in Nat /\ i # 0
      /\ registered \in Nat /\ next \in Nat /\ i <= next /\ i <= registered
  BY SessionAssumption DEF IInv, TypeOK, Incarnations, Streams, Receive
<1>2. inbox' \in [Incarnations -> {"none", "beat", "report"}] BY DEF IInv, TypeOK, Receive
<1>3. UNCHANGED <<registered, owner, restarts, firing, evals, client, answers, scope>> BY DEF Receive
<1>30. work' \in Work BY DEF IInv, TypeOK, Receive, Observed, Healths, Work
<1>4. CASE Accepting /\ session.incarnation = i
  <2> PICK ready \in Readiness, covered \in YesNo :
        Contact(ready, IF inbox[i] = "report" /\ covered = "yes" THEN "yes" ELSE session.reconciled)
    BY <1>4 DEF Receive
  <2> PICK r : r = IF inbox[i] = "report" /\ covered = "yes" THEN "yes" ELSE session.reconciled OBVIOUS
  <2>0. ready \in YesNo BY DEF Readiness
  <2>1. r \in YesNo /\ (session.reconciled = "yes" => r = "yes") BY DEF IInv, TypeOK, Session
  <2> PICK s : s = [session EXCEPT !.ready = ready, !.reachable = "yes", !.age = "recent", !.reconciled = r] OBVIOUS
  <2>2. s \in Session /\ s.incarnation = session.incarnation /\ s.reachable = "yes" /\ s.reconciled = r
    BY <2>0, <2>1 DEF IInv, TypeOK, Session
  <2>3. session' = s /\ admitted' = (IF r = "yes" THEN "yes" ELSE admitted) /\ timer' = "armed" BY DEF Contact
  <2>4. failover' \in Failover
        /\ (failover'.pc \in {"probing", "probed"} => failover'.contact = "yes")
    BY DEF Contact, Contacted, IInv, TypeOK, Failover
  <2>5. handler' = handler BY <1>4 DEF Receive
  <2>6. Streams' BY <1>3, <2>5 DEF IInv, Streams, client
  <2>7. TypeOK' BY <1>2, <1>3, <1>30, <2>2, <2>3, <2>4, <2>5 DEF IInv, TypeOK, client, plant
  <2>8. AdmittedUsable' BY <1>1, <1>3, <1>4, <2>1, <2>2, <2>3 DEF IInv, AdmittedUsable, Accepting
  <2> QED BY <1>1, <1>3, <1>4, <2>2, <2>3, <2>4, <2>6, <2>7, <2>8 DEF IInv, Absent, ExpiryPending, ProbeSilent
<1>5. CASE ~(Accepting /\ session.incarnation = i)
  <2> PICK e : e = "ending" OBVIOUS
  <2>1. e \in Handler /\ e = "ending" BY DEF Handler
  <2>2. handler' = [handler EXCEPT ![i] = e] /\ UNCHANGED <<session, admitted, timer, failover>>
    BY <1>5 DEF Receive, Moved
  <2>20. next' = next /\ registered' \in Nat /\ registered' >= registered /\ i <= registered' BY <1>1, <1>3 DEF client
  <2>3. handler' \in [Incarnations -> Handler] /\ Streams' BY <1>1, <2>1, <2>2, <2>20, MovedOK
  <2>4. TypeOK' BY <1>2, <1>3, <1>30, <2>2, <2>3 DEF IInv, TypeOK, client, plant
  <2>5. Absent' /\ AdmittedUsable' /\ ExpiryPending' /\ ProbeSilent' BY <1>3, <2>2, LiveUntouched DEF live
  <2> QED BY <2>3, <2>4, <2>5 DEF IInv
<1> QED BY <1>4, <1>5

\* End: EndSession of the handler's own session.
LEMMA EndStep ==
  ASSUME IInv, NEW i \in Incarnations, End(i) PROVE IInv'
<1> USE DEF YesNo
<1>1. /\ i \in Nat /\ i # 0 /\ registered \in Nat /\ next \in Nat /\ i <= next
  BY SessionAssumption DEF IInv, TypeOK, Incarnations, Streams, End
<1>2. inbox' \in [Incarnations -> {"none", "beat", "report"}] BY DEF IInv, TypeOK, End
<1>3. UNCHANGED <<registered, owner, restarts, firing, evals, client, failover, plant>> BY DEF End
<1> PICK e : e = "done" OBVIOUS
<1>4. e \in Handler /\ e = "done" BY DEF Handler
<1>5. handler' = [handler EXCEPT ![i] = e] BY DEF End, Moved
<1>50. next' = next /\ registered' \in Nat /\ registered' >= registered BY <1>1, <1>3 DEF client
<1>6. handler' \in [Incarnations -> Handler] /\ Streams' BY <1>1, <1>4, <1>5, <1>50, MovedOK
<1>7. CASE session.incarnation = i
  <2> PICK s : s = [session EXCEPT !.ready = "no", !.reachable = "no"] OBVIOUS
  <2>1. s \in Session /\ s.incarnation = session.incarnation /\ s.reachable = "no" /\ s.age = session.age
    BY DEF IInv, TypeOK, Session
  <2>2. session' = s /\ admitted' = "no" /\ timer' = "none" BY <1>7 DEF End, EndSession
  <2>3. TypeOK' BY <1>2, <1>3, <1>6, <2>1, <2>2 DEF IInv, TypeOK, client, plant
  <2> QED BY <1>3, <1>6, <2>1, <2>2, <2>3 DEF IInv, Absent, AdmittedUsable, ExpiryPending, ProbeSilent
<1>8. CASE session.incarnation # i
  <2>1. UNCHANGED <<session, admitted, timer>> BY <1>8 DEF End, EndSession
  <2>2. TypeOK' BY <1>2, <1>3, <1>6, <2>1 DEF IInv, TypeOK, client, plant
  <2>3. Absent' /\ AdmittedUsable' /\ ExpiryPending' /\ ProbeSilent' BY <1>3, <2>1, LiveUntouched DEF live
  <2> QED BY <1>6, <2>2, <2>3 DEF IInv
<1> QED BY <1>7, <1>8

\* The live role is lost, dropped and taken.
LEMMA OwnerStep ==
  ASSUME IInv, Cancel \/ Resign \/ Become PROVE IInv'
<1>1. Streams' BY DEF IInv, Streams, Cancel, Resign, Become, client
<1>2. CASE Cancel
  <2>1. restarts' \in Nat BY <1>2 DEF IInv, TypeOK, Cancel
  <2>2. TypeOK' BY <1>2, <2>1 DEF IInv, TypeOK, Cancel, live, client, plant
  <2> QED BY <1>1, <1>2, <2>2 DEF IInv, Cancel, live, Absent, AdmittedUsable, ExpiryPending, ProbeSilent
<1>3. CASE Resign
  <2>1. NoSession \in Session /\ NoSession.incarnation = 0 /\ NoSession.reachable = "no"
    BY SessionAssumption DEF NoSession, Session, YesNo
  <2>2. session' = NoSession /\ admitted' = "no" /\ timer' = "none" /\ evals' = 0 /\ owner' = "none" BY <1>3 DEF Resign
  <2>3. session'.incarnation <= registered' /\ evals' \in 0..EvalCapacity
    BY <1>3, <2>1, <2>2, SessionAssumption DEF IInv, TypeOK, Resign
  <2>30. work' \in Work BY <1>3 DEF IInv, TypeOK, Resign, Work
  <2>4. TypeOK' BY <1>3, <2>1, <2>2, <2>3, <2>30 DEF IInv, TypeOK, Resign, client, YesNo
  <2> QED BY <1>1, <1>3, <2>1, <2>2, <2>4 DEF IInv, Resign, Absent, AdmittedUsable, ExpiryPending, ProbeSilent
<1>4. CASE Become
  <2>1. TypeOK' BY <1>4 DEF IInv, TypeOK, Become, live, client, plant
  <2> QED BY <1>1, <1>4, <2>1 DEF IInv, Become, live, Absent, AdmittedUsable, ExpiryPending, ProbeSilent
<1> QED BY <1>2, <1>3, <1>4

\* Failover reads the session and leaves it alone.
LEMMA FailoverStep ==
  ASSUME IInv,
         \/ HandleEval \/ ReconcileFailover \/ Probe \/ Replace \/ ReplaceFails
         \/ \E evidence \in {"current", "replaced"} : Decide(evidence)
  PROVE  IInv'
<1> USE DEF Decide, Probe, Replace, ReplaceFails, HandleEval, ReconcileFailover
<1>1. UNCHANGED <<registered, owner, restarts, session, admitted, timer, firing, handler, inbox, client, answers, scope>>
  BY DEF live, plant
<1>2. evals' \in 0..EvalCapacity BY SessionAssumption DEF IInv, TypeOK, live
<1>3. failover' \in Failover
  <2>0. failover \in Failover /\ NoFailover \in Failover BY DEF IInv, TypeOK, Failover, NoFailover, YesNo
  <2>1. CASE HandleEval \/ ReconcileFailover BY <2>0, <2>1 DEF StartFailover, Failover, YesNo
  <2>2. CASE Probe BY <2>0, <2>2 DEF Failover, YesNo
  <2>3. CASE Replace \/ ReplaceFails BY <2>0, <2>3
  <2>4. CASE \E evidence \in {"current", "replaced"} : Decide(evidence)
    <3>1. failover' = NoFailover \/ failover' = [NoFailover EXCEPT !.pc = "replacing"] BY <2>4
    <3> QED BY <2>0, <3>1 DEF Failover
  <2> QED BY <2>1, <2>2, <2>3, <2>4
<1>4. work' \in Work BY DEF IInv, TypeOK, Work, plant
<1>5. TypeOK' BY <1>1, <1>2, <1>3, <1>4 DEF IInv, TypeOK, client
<1>6. ProbeSilent'
  <2>1. CASE HandleEval \/ ReconcileFailover
    BY <1>1, <2>1 DEF IInv, TypeOK, Session, StartFailover, Seen, ProbeSilent
  <2>2. CASE Probe BY <1>1, <2>2 DEF IInv, TypeOK, Failover, ProbeSilent
  <2>3. CASE ~(HandleEval \/ ReconcileFailover \/ Probe)
    <3>1. failover'.pc \in {"idle", "replacing"} BY <2>3 DEF NoFailover
    <3> QED BY <3>1 DEF ProbeSilent
  <2> QED BY <2>1, <2>2, <2>3
<1> QED BY <1>1, <1>5, <1>6 DEF IInv, Streams, Absent, AdmittedUsable, ExpiryPending, client

\* The allocation is placed, or its listeners go down.
LEMMA WorkStep ==
  ASSUME IInv, Place \/ Silence PROVE IInv'
<1>1. Absent' /\ AdmittedUsable' /\ ExpiryPending' /\ ProbeSilent' BY LiveUntouched DEF Place, Silence
<1>2. TypeOK' BY DEF IInv, TypeOK, Place, Silence, live, client, Work, YesNo
<1>3. Streams' BY DEF IInv, Streams, Place, Silence, client
<1> QED BY <1>1, <1>2, <1>3 DEF IInv

\* Every step of the agent, its handlers, timers and failover keeps the invariant.
LEMMA IInvStep == IInv /\ [Next]_vars => IInv'
<1> SUFFICES ASSUME IInv, [Next]_vars PROVE IInv' OBVIOUS
<1>1. CASE UNCHANGED vars
  BY <1>1 DEF vars, live, client, plant, IInv, TypeOK, Streams, Absent, AdmittedUsable, ExpiryPending, ProbeSilent
<1>2. CASE \E i \in Incarnations : Handle(i)
  BY <1>2, HandlerStep, BeginStep, ReceiveStep, EndStep DEF Handle
<1>3. CASE Next /\ ~(\E i \in Incarnations : Handle(i))
  BY <1>3, TimerStep, AgentStep, OwnerStep, FailoverStep, WorkStep DEF Next
<1> QED BY <1>1, <1>2, <1>3

\* The invariant holds of every behaviour.
THEOREM SessionInvariant == Spec => []IInv
BY InitOK, IInvStep, PTL DEF Spec

\* Types, and incarnations the agent has used and RegisterAgent has stored.
THEOREM TypeCorrect == Spec => []TypeOK
<1>1. IInv => TypeOK BY DEF IInv
<1> QED BY <1>1, SessionInvariant, PTL

\* Live.admitted holds only reachable, reconciled agents of the live owner.
THEOREM AdmittedIsUsable == Spec => []AdmittedUsable
<1>1. IInv => AdmittedUsable BY DEF IInv
<1> QED BY <1>1, SessionInvariant, PTL

\* A reachable session has an armed timer or a callback on its way.
THEOREM SessionsExpire == Spec => []ExpiryPending
<1>1. IInv => ExpiryPending BY DEF IInv
<1> QED BY <1>1, SessionInvariant, PTL

\* failoverAgent goes on to replace only the work of an agent that has been silent.
THEOREM FailoverSpares == Spec => LostOnlySilent
<1>1. ASSUME IInv, [Next]_vars
      PROVE  [failover'.pc = "replacing" /\ failover.pc # "replacing" =>
                session.incarnation = 0 \/ session.age = "old"]_vars
  <2> SUFFICES ASSUME Next, failover'.pc = "replacing", failover.pc # "replacing"
               PROVE  session.incarnation = 0 \/ session.age = "old"
    BY <1>1 DEF vars
  <2>1. failover' # failover OBVIOUS
  <2>2. CASE \E evidence \in {"current", "replaced"} : Decide(evidence)
    BY <1>1, <2>2 DEF IInv, TypeOK, Failover, NoFailover, Decide, SeenSince, ProbeSilent, YesNo
  <2>3. CASE HandleEval \/ ReconcileFailover \/ Probe \/ Replace \/ ReplaceFails
    <3>1. CASE HandleEval \/ ReconcileFailover BY <2>1, <3>1 DEF HandleEval, ReconcileFailover, StartFailover
    <3>2. CASE Probe BY <1>1, <3>2 DEF Probe, IInv, TypeOK, Failover
    <3>3. CASE Replace \/ ReplaceFails BY <3>3 DEF Replace, ReplaceFails, NoFailover
    <3> QED BY <2>3, <3>1, <3>2, <3>3
  <2>4. CASE \E i \in Incarnations : Begin(i) \/ Receive(i)
    <3>1. failover'.pc = failover.pc
      BY <1>1, <2>4 DEF IInv, TypeOK, Failover, Begin, Receive, BeginSession, Contact, Contacted
    <3> QED BY <3>1
  <2> QED BY <2>1, <2>2, <2>3, <2>4
        DEF Next, Handle, Age, Fire, Expire, Connect, Send, Drop, Die, Closed, Register, RegisterFails,
            Return, End, Cancel, Resign, Become, Place, Silence
<1> QED BY <1>1, SessionInvariant, PTL DEF Spec, LostOnlySilent
=============================================================================
