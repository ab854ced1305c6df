------------------------------ MODULE Restarts ------------------------------
(***************************************************************************)
(* Restarts of one allocation on its node: the restart policy of           *)
(* internal/restartpolicy, the reconcile of internal/agent that applies it *)
(* to the container, the observation file that carries the restart history *)
(* over crashes of the agent, and the copy of the history that the control *)
(* plane records and sends back with the desired state.                    *)
(*                                                                         *)
(* Ticks stand for time; LastRestartAt, which is only compared, is the     *)
(* number of the decision that stamped it.  Zero is the absent time.       *)
(***************************************************************************)
EXTENDS Integers, FiniteSets

CONSTANTS Scopes,     \* restart settings, and the events of an instance
          MaxNow,     \* ticks of the clock
          MaxEnds,    \* process ends within one rollout generation
          MaxGen,     \* rollout generations
          MaxForce,   \* dashboard restarts
          MaxFault    \* crashes, reboots and failed calls

ASSUME RestartBounds ==
  /\ {MaxNow, MaxEnds, MaxGen, MaxForce, MaxFault} \subseteq Nat
  /\ \A s \in Scopes : /\ s.policy \in {"always", "on-failure", "never"}
                       /\ {s.max, s.window, s.stable, s.delay, s.cap} \subseteq Nat
                       /\ s.jitter \in BOOLEAN

VARIABLES scope,      \* the ServiceRestart, after CanonicalRestart
          now,
          desired,    \* the accepted desired service: generation, intent
          force,      \* runtime.forceStart
          container,  \* what containerd has under the allocation's name
          file,       \* the observation file; Empty when missing or unreadable
          echo,       \* DesiredService.RestartObservation
          reported,   \* the Restart of the persisted status report
          known,      \* Live.observations of the allocation and generation
          run,        \* reconcileService
          stamp,      \* the last LastRestartAt given out
          ends,       \* how often the process ended in this generation
          forces, faults

vars == <<scope, now, desired, force, container, file, echo, reported, known,
          run, stamp, ends, forces, faults>>

Empty == [count |-> 0, loop |-> FALSE, awaiting |-> FALSE, cause |-> "none", exit |-> "zero",
          window |-> 0, last |-> 0, next |-> 0, started |-> 0, gen |-> 0, nonce |-> 0]

Idle    == [pc |-> "idle", obs |-> Empty, nonce |-> 0, up |-> FALSE, cause |-> "none", exit |-> "zero"]
Missing == [state |-> "none", gen |-> 0, end |-> "none"]
Started == [state |-> "running", gen |-> desired.gen, end |-> "none"]

Init == /\ scope \in Scopes
        /\ now = 1 /\ stamp = 0 /\ ends = 0 /\ forces = 0 /\ faults = 0
        /\ desired = [gen |-> 1, intent |-> "run"]
        /\ force = FALSE /\ container = Missing /\ run = Idle
        /\ file = Empty /\ echo = Empty /\ reported = Empty /\ known = Empty

-----------------------------------------------------------------------------
(* restartpolicy *)

Failure(cause) == cause \in {"nonzero", "kill", "liveness"}

ShouldRestart(cause) == CASE scope.policy = "never"  -> FALSE
                          [] scope.policy = "always" -> TRUE
                          [] OTHER -> Failure(cause)

\* The newer history counts; of two of one age, the one in a crash loop, or else the
\* one with more restarts.
RemoteCounts(local, remote) ==
  \/ remote.last > local.last
  \/ /\ remote.last = local.last
     /\ \/ remote.loop /\ ~local.loop
        \/ (local.loop => remote.loop) /\ remote.count > local.count

\* The file's history against the one the control plane sent back.
MergeObservations(local, remote) ==
  IF local = Empty \/ (remote # Empty /\ RemoteCounts(local, remote)) THEN remote ELSE local

\* A generation or a nonce newer than the applied one.
Authorizes(o, nonce) == desired.gen > o.gen \/ nonce > o.nonce

\* The first history of a container found running.
Adopts(o) == run.up /\ ~o.loop /\ o.gen = 0 /\ o.nonce = 0 /\ o.count = 0

AuthorizedReset(o, nonce) ==
  [Empty EXCEPT !.gen = desired.gen, !.nonce = nonce, !.last = stamp + 1,
                !.cause = IF nonce > o.nonce THEN "operator" ELSE "none"]

ResetCrashHistory(o) == [o EXCEPT !.count = 0, !.window = 0, !.next = 0]

\* Evaluate for a running process.
SeenRunning(o, nonce) ==
  LET k == [o EXCEPT !.started = IF @ = 0 THEN now ELSE @, !.awaiting = FALSE,
                     !.loop = FALSE, !.gen = desired.gen, !.nonce = nonce]
  IN IF now >= k.started + scope.stable THEN ResetCrashHistory(k) ELSE k

\* The cause of the end, as found.
Ended(o) == [o EXCEPT !.cause = run.cause,
                      !.exit = IF run.cause = "liveness" THEN @ ELSE run.exit]

BudgetExhausted(o) ==
  \/ scope.window > 0 /\ o.window # 0 /\ now >= o.window + scope.window /\ o.count > 0
  \/ scope.max > 0 /\ o.count >= scope.max

\* backoffDelay after n restarts: the jitter moves the delay below the cap.
BackoffDelay(n) ==
  LET doubled == scope.delay * 2^n
      base    == IF doubled > scope.cap THEN scope.cap ELSE doubled
  IN IF scope.jitter THEN {d \in 0..scope.cap : d <= 2 * base} ELSE {base}

\* One more restart, d ticks from now.
Counted(o, d) == [o EXCEPT !.count = @ + 1, !.window = IF @ = 0 THEN now ELSE @,
                           !.last = stamp + 1, !.next = now + d,
                           !.awaiting = TRUE, !.started = 0]

-----------------------------------------------------------------------------
(* The container engine *)

Matches == container.state # "none" /\ container.gen = desired.gen

\* The process ends and the exit event requests a reconcile.  Its end comes early
\* enough for the backoff to fall within MaxNow.
Ends(c) == /\ ends < MaxEnds /\ now + scope.cap <= MaxNow
           /\ container' = c /\ ends' = ends + 1

Exit(cause) ==
  /\ container.state = "running"
  /\ Ends([container EXCEPT !.state = "exited", !.end = cause])
  /\ UNCHANGED <<scope, now, desired, force, file, echo, reported, known, run, stamp, forces, faults>>

Fault == "fault" \in scope.events /\ faults < MaxFault /\ faults' = faults + 1

\* The node restarts: no container has a task, and inspect finds exit code zero.
Reboot ==
  /\ Fault
  /\ IF container.state = "running" THEN Ends([container EXCEPT !.state = "exited", !.end = "zero"])
     ELSE /\ container' = IF container.state = "none" THEN container ELSE [container EXCEPT !.end = "zero"]
          /\ UNCHANGED ends
  /\ run' = Idle /\ force' = FALSE
  /\ UNCHANGED <<scope, now, desired, file, echo, reported, known, stamp, forces>>

\* The agent restarts; the containers run on.
AgentCrash ==
  /\ Fault /\ (run # Idle \/ force)
  /\ run' = Idle /\ force' = FALSE
  /\ UNCHANGED <<scope, now, desired, container, file, echo, reported, known, stamp, ends, forces>>

-----------------------------------------------------------------------------
(* reconcileService, under reconcileMu *)

Loaded == MergeObservations(file, echo)
Nonce  == IF force THEN Loaded.nonce + 1 ELSE 0

\* Defect: a crash loop only holds while the container is there.
PreserveMatching(o, nonce) ==
  /\ ~Authorizes(o, nonce)
  /\ \/ o.loop /\ Matches
     \/ o.awaiting /\ o.next # 0 /\ now < o.next
     \/ o.cause # "none" /\ ~ShouldRestart(o.cause)

\* shouldPreserveTerminalObservation
Preserve(o, nonce) ==
  /\ ~Authorizes(o, nonce)
  /\ \/ o.loop
     \/ o.awaiting /\ o.next # 0 /\ now < o.next
     \/ o.cause # "none" /\ ~ShouldRestart(o.cause)

\* The status of the container, of a missing one (inspectPreservedService), of a
\* new one.
ExitOf(cause)   == IF Failure(cause) THEN "nonzero" ELSE "zero"
StatusFound     == [up |-> container.state = "running", cause |-> container.end, exit |-> ExitOf(container.end)]
StatusSaved(o)  == [up |-> FALSE, cause |-> IF o.cause = "kill" THEN "kill" ELSE o.exit, exit |-> o.exit]
StatusStarted   == [up |-> TRUE, cause |-> "none", exit |-> "zero"]

Looked(o, status) == run' = [pc |-> "looked", obs |-> o, nonce |-> Nonce, up |-> status.up,
                             cause |-> status.cause, exit |-> status.exit]

\* Load the history; inspect a terminal allocation, ensure any other one.
Look ==
  /\ run.pc = "idle" /\ desired.intent = "run"
  /\ force' = FALSE
  /\ IF Matches THEN Looked(Loaded, StatusFound) /\ UNCHANGED container
     ELSE IF Preserve(Loaded, Nonce)
     THEN Looked(Loaded, StatusSaved(Loaded)) /\ container' = Missing
     ELSE Looked(Loaded, StatusStarted) /\ container' = Started
  /\ UNCHANGED <<scope, now, desired, file, echo, reported, known, stamp, ends, forces, faults>>

\* The container's disk is over its quota: removed, whether or not it runs.
LookReclaims ==
  /\ run.pc = "idle" /\ desired.intent = "run" /\ "disk" \in scope.events
  /\ Matches
  /\ force' = FALSE
  /\ Looked(Loaded, [StatusFound EXCEPT !.up = FALSE, !.cause = "kill"])
  /\ IF container.state = "running" THEN Ends(Missing) ELSE container' = Missing /\ UNCHANGED ends
  /\ UNCHANGED <<scope, now, desired, file, echo, reported, known, stamp, forces, faults>>

\* A call to the engine fails, or the context of the reconcile was cancelled by an
\* update (then nothing is reported).
LookFails ==
  /\ run.pc = "idle" /\ desired.intent = "run"
  /\ Fault
  /\ force' = FALSE
  /\ container' \in {container} \cup (IF Matches THEN {} ELSE {Missing})
  /\ reported' \in {reported, Empty}
  /\ UNCHANGED <<scope, now, desired, file, echo, known, run, stamp, ends, forces>>

\* livenessFailed: the container is removed before the policy is asked.
LivenessFails ==
  /\ run.pc = "looked" /\ run.up /\ "liveness" \in scope.events
  /\ run' = [run EXCEPT !.up = FALSE, !.cause = "liveness"]
  /\ IF container.state = "running" THEN Ends(Missing) ELSE container' = Missing /\ UNCHANGED ends
  /\ UNCHANGED <<scope, now, desired, force, file, echo, reported, known, stamp, forces, faults>>

\* saveObservation: it succeeds, it fails, or the agent dies while it writes the
\* file.  An allocation that is to start and does not run is started next.
Save(o, starts) ==
  /\ run.pc = "looked"
  /\ \/ /\ file' = o /\ stamp' = (IF o.last > stamp THEN o.last ELSE stamp)
        /\ IF starts /\ ~run.up
           THEN run' = [run EXCEPT !.pc = "starting", !.obs = o] /\ UNCHANGED reported
           ELSE run' = Idle /\ reported' = o
        /\ UNCHANGED <<force, faults>>
     \/ /\ Fault
        /\ run' = Idle /\ reported' \in {reported, Empty}
        /\ UNCHANGED <<file, stamp, force>>
     \/ /\ Fault /\ o # file /\ "torn" \in scope.events
        /\ file' = Empty /\ run' = Idle /\ force' = FALSE
        /\ UNCHANGED <<reported, stamp>>
  /\ UNCHANGED <<scope, now, desired, container, echo, known, ends, forces>>

\* Evaluate, one action per outcome.
Adopt == /\ Authorizes(run.obs, run.nonce) /\ Adopts(run.obs)
         /\ Save([run.obs EXCEPT !.gen = desired.gen, !.nonce = run.nonce,
                                 !.started = IF @ = 0 THEN now ELSE @], FALSE)

Authorize == /\ Authorizes(run.obs, run.nonce) /\ ~Adopts(run.obs)
             /\ Save(AuthorizedReset(run.obs, run.nonce), TRUE)

SeeRunning == /\ ~Authorizes(run.obs, run.nonce) /\ run.up
              /\ Save(SeenRunning(run.obs, run.nonce), FALSE)

Down == ~Authorizes(run.obs, run.nonce) /\ ~run.up

StayLooped == Down /\ run.obs.loop /\ Save([run.obs EXCEPT !.awaiting = FALSE], FALSE)

\* Defect: a restart that is waited for is counted again.
JustDownAlways == Down /\ ~run.obs.loop

JustDown == Down /\ ~run.obs.loop /\ ~run.obs.awaiting

Stop == JustDown /\ ~ShouldRestart(run.cause) /\ Save(Ended(run.obs), FALSE)

EnterLoop == /\ JustDown /\ ShouldRestart(run.cause) /\ BudgetExhausted(run.obs)
             /\ Save([Ended(run.obs) EXCEPT !.loop = TRUE], FALSE)

CountRestart == /\ JustDown /\ ShouldRestart(run.cause) /\ ~BudgetExhausted(run.obs)
                /\ \E d \in BackoffDelay(run.obs.count) : Save(Counted(Ended(run.obs), d), d = 0)

\* Defect: a restart that is waited for never comes due.
AwaitForever == Down /\ ~run.obs.loop /\ run.obs.awaiting /\ Save(run.obs, FALSE)

AwaitRestart == /\ Down /\ ~run.obs.loop /\ run.obs.awaiting
                /\ Save(run.obs, run.obs.next = 0 \/ now >= run.obs.next)

Evaluate == Adopt \/ Authorize \/ SeeRunning \/ StayLooped \/ Stop \/ EnterLoop \/ CountRestart \/ AwaitRestart

\* RemoveService and EnsureService: the engine always reports a created container
\* as running, so AwaitingRestart is not cleared here.
Restart ==
  /\ run.pc = "starting"
  /\ container' = Started
  /\ run' = Idle /\ reported' = run.obs
  /\ UNCHANGED <<scope, now, desired, force, file, echo, known, stamp, ends, forces, faults>>

RestartFails ==
  /\ run.pc = "starting" /\ Fault
  /\ container' \in {container, Missing}
  /\ run' = Idle /\ reported' = run.obs
  /\ UNCHANGED <<scope, now, desired, force, file, echo, known, stamp, ends, forces>>

\* The DRAIN and SLEEP intents: SIGTERM, and the container goes once the process
\* has ended or the deadline has passed.
StopService ==
  /\ run.pc = "idle" /\ desired.intent = "stop"
  /\ container' \in {container, Missing}
  /\ reported' \in {reported, Loaded}
  /\ UNCHANGED <<scope, now, desired, force, file, echo, known, run, stamp, ends, forces, faults>>

-----------------------------------------------------------------------------
(* Updates, which wait for reconcileMu, and the control plane *)

\* RestartManagedDashboard, after its certificate was renewed: the mark is set, and
\* the container removed unless the engine fails.
RestartManagedDashboard ==
  /\ run.pc = "idle" /\ "force" \in scope.events /\ forces < MaxForce
  /\ forces' = forces + 1 /\ force' = TRUE
  /\ \/ container' = Missing /\ UNCHANGED faults
     \/ Fault /\ UNCHANGED container
  /\ UNCHANGED <<scope, now, desired, file, echo, reported, known, run, stamp, ends>>

\* The allocation is put to sleep or woken.
SetIntent(intent) ==
  /\ run.pc = "idle" /\ "sleep" \in scope.events /\ desired.intent # intent
  /\ desired' = [desired EXCEPT !.intent = intent]
  /\ UNCHANGED <<scope, now, force, container, file, echo, reported, known, run, stamp, ends, forces, faults>>

\* A release of a managed service retargets its allocation; observations are kept
\* by generation.
Retarget ==
  /\ run.pc = "idle" /\ "retarget" \in scope.events /\ desired.gen < MaxGen
  /\ desired' = [desired EXCEPT !.gen = @ + 1]
  /\ echo' = Empty /\ known' = Empty /\ reported' = Empty /\ ends' = 0
  /\ UNCHANGED <<scope, now, force, container, file, run, stamp, forces, faults>>

\* RecordObservation of the persisted report; the live role may be lost, and the
\* observations with it; the desired state carries what is known when it is sent.
RecordObservation ==
  /\ "echo" \in scope.events /\ known' = reported
  /\ UNCHANGED <<scope, now, desired, force, container, file, echo, reported, run, stamp, ends, forces, faults>>

LoseLiveRole ==
  /\ "echo" \in scope.events /\ known' = Empty
  /\ UNCHANGED <<scope, now, desired, force, container, file, echo, reported, run, stamp, ends, forces, faults>>

AcceptOverlay ==
  /\ "echo" \in scope.events /\ run.pc = "idle" /\ echo' = known
  /\ UNCHANGED <<scope, now, desired, force, container, file, reported, known, run, stamp, ends, forces, faults>>

\* The last ticks are kept for a backoff that has begun.
Tick == /\ now + scope.cap < MaxNow \/ (file.awaiting /\ now < file.next)
        /\ now' = now + 1
        /\ UNCHANGED <<scope, desired, force, container, file, echo, reported, known, run, stamp, ends, forces, faults>>

Reconcile == Look \/ Evaluate \/ Restart

Next == \/ Reconcile \/ LookReclaims \/ LookFails \/ LivenessFails \/ RestartFails \/ StopService
        \/ \E cause \in {"zero", "nonzero", "kill"} : Exit(cause)
        \/ Reboot \/ AgentCrash
        \/ RestartManagedDashboard \/ Retarget \/ \E i \in {"run", "stop"} : SetIntent(i)
        \/ RecordObservation \/ LoseLiveRole \/ AcceptOverlay \/ Tick

Spec == Init /\ [][Next]_vars

\* The agent reconciles on every exit event, every 15 seconds and every minute; an
\* evaluation that has begun ends, and time passes.
Fairness == WF_vars(Look) /\ WF_vars(Evaluate) /\ WF_vars(Restart) /\ WF_vars(Tick)

FairSpec == Spec /\ Fairness

-----------------------------------------------------------------------------
(* Properties *)

End         == {"none", "zero", "nonzero", "kill", "liveness"}
Observation == [count : Nat, loop : BOOLEAN, awaiting : BOOLEAN, cause : End \cup {"operator"},
                exit : {"zero", "nonzero"}, window : Nat, last : Nat, next : Int,
                started : Nat, gen : Nat, nonce : Nat]

\* Types of the variables.
TypeOK ==
  /\ scope \in Scopes /\ now \in Nat /\ force \in BOOLEAN
  /\ desired \in [gen : Nat, intent : {"run", "stop"}]
  /\ container \in [state : {"none", "running", "exited"}, gen : Nat, end : End]
  /\ file \in Observation /\ echo \in Observation /\ reported \in Observation /\ known \in Observation
  /\ run \in [pc : {"idle", "looked", "starting"}, obs : Observation, nonce : Nat, up : BOOLEAN,
              cause : End, exit : {"zero", "nonzero"}]
  /\ stamp \in Nat /\ ends \in Nat /\ forces \in Nat /\ faults \in Nat

Serving == container.state = "running" /\ container.gen = desired.gen

\* The last end of the process is saved, and is one that the policy does not restart.
Stopped == file.cause \in {"zero", "nonzero", "kill", "liveness"} /\ ~ShouldRestart(file.cause)

\* A forced restart is saved as done, no container is there, and the next reconcile
\* takes the restart itself for an end that the policy does not restart.
ForcedRestartLost == /\ run.pc = "idle" /\ ~force /\ container.state = "none"
                     /\ file.gen = desired.gen /\ file.cause = "operator" /\ ~ShouldRestart("operator")

\* The saved history holds the allocation back: a crash loop, or a backoff that has
\* not passed.
HeldBack == file.gen = desired.gen /\ (file.loop \/ (file.awaiting /\ now < file.next))

\* A container that crash-loops or backs off is not started, by whatever reconcile
\* and after whatever crash, sleep or overlay, unless a new rollout or a forced
\* restart authorizes it (inspectPreservedService, MergeObservations, Evaluate).
\* Only where the file can be torn may a copy be newer than the file, and undo it.
StartsAllowed ==
  [][(container'.state = "running" /\ container' # container) =>
       force \/ ~HeldBack \/ ("torn" \in scope.events /\ echo.last > file.last)]_vars

\* An end of the process is counted at most once, although the count is saved
\* before the restart and read again from a file or a copy, and the count keeps
\* within MaxRestarts (AwaitingRestart, budgetExhausted).
CountedOnce == file.gen = desired.gen => /\ file.count <= ends
                                         /\ scope.max > 0 => file.count <= scope.max

\* An allocation that is to run and is down is started again, whatever was in flight
\* when the agent died or a call failed, with three exceptions: its history ends in a
\* crash loop; the process ended in a way that its policy does not restart; or, where
\* the policy is not "always", a forced restart was saved (saveObservation) and the
\* container was lost before a later end was saved, since the preserved history then
\* keeps the allocation down (shouldPreserveTerminalObservation).
Recovers == \/ <>ForcedRestartLost
            \/ []<>(Serving \/ file.loop \/ Stopped \/ desired.intent = "stop")

=============================================================================
