------------------------------ MODULE Metering ------------------------------
(* Usage metering: the agent folds samples of an allocation's CPU counter    *)
(* into open records, seals them into a journal on its disk                  *)
(* (src/internal/metering), and delivers them to the control plane, which    *)
(* stores each record once and bills it (src/internal/controlplane/usage).   *)
(*                                                                           *)
(* One agent and one allocation, whose tasks come and go; every task has a   *)
(* cgroup of its own, hence counters that start at zero.  Time is counted in *)
(* sample periods, and a task that runs uses one unit of CPU in each.  The   *)
(* agent restarts, the node reboots, the journal fills up or has to be       *)
(* replaced, sessions end with reports and acknowledgements in flight, the   *)
(* database forgets raw rows and is restored from a backup.                  *)
EXTENDS Integers, Sequences, FiniteSets, Functions, FiniteSetsExt, SequencesExt, TLC

CONSTANTS
  Scopes,     \* instances: [events, time, tasks, capacity, batch, retention, sessions, online]
  None        \* nothing

Minute == 2   \* sample periods in a minute

VARIABLES
  scope,     \* the instance
  spent,     \* the events of the instance that have happened
  now,       \* the time
  boot,      \* of the node: [id, at]
  task,      \* [cg, live, runs, cpu, hook, first]: its cgroup, the hook the runtime is at, and
             \* the counter at the Tick that came before the start hook
  used,      \* the CPU the allocation has used
  journal,   \* the journal file: [producer, meta, records, states]
  agent,     \* its process: [up, sample, ack, from, conflict, waiting]
  session,   \* [ended, up, batch, reports, acks]: batch was read from the journal to be sent
  db,        \* the usage tables: [producers, gaps, rows, ledger, billed, progress]
  backup,    \* the backup a restore brings back
  slips      \* history: what readings that were stale when used have done, [twice, early]

vars == <<scope, spent, now, boot, task, used, journal, agent, session, db, backup, slips>>

\* An event of the instance, which happens at most once.
Once(e) ==
  /\ e \in scope.events \ spent
  /\ spent' = spent \cup {e}

-----------------------------------------------------------------------------
(* The journal (journal.go).  An update works on w = [meta, records, states, *)
(* full]; full says that it fails and changes nothing.                       *)

Fresh(p) ==
  [producer |-> p,
   meta |-> [next |-> 1, acked |-> 0, lowest |-> 1, bytes |-> 0, clock |-> 0, tick |-> None, sealed |-> 0],
   records |-> <<>>, states |-> <<>>]

Work == [meta |-> journal.meta, records |-> journal.records, states |-> journal.states, full |-> FALSE]

Without(w, gone) ==
  IF gone = {} THEN w
  ELSE [w EXCEPT !.records = Restrict(@, DOMAIN @ \ gone), !.meta.lowest = Max(gone) + 1, !.meta.bytes = @ - Cardinality(gone)]

\* Slip: whatever is old enough is pruned.
AckedAny(w) == DOMAIN w.records

Acked(w) == {s \in DOMAIN w.records : s <= w.meta.acked}

\* pruneAcknowledged(false): past the retention, oldest first.
PruneOld(w) ==
  Without(w, {s \in Acked(w) : \A t \in Acked(w) : t <= s => w.records[t].end + scope.retention <= now})

\* pruneAcknowledged(true): down to nine tenths of the capacity.
PruneForRoom(w) ==
  LET before(s) == Cardinality({t \in Acked(w) : t < s})
  IN Without(w, {s \in Acked(w) : before(s) = 0 \/ 10 * (w.meta.bytes - before(s)) >= 9 * scope.capacity})

\* journalTx.append
Sealed(w, record) ==
  LET q == IF w.meta.bytes + 1 > scope.capacity THEN PruneForRoom(w) ELSE w
  IN IF w.full \/ q.meta.bytes + 1 > scope.capacity THEN [w EXCEPT !.full = TRUE]
     ELSE [q EXCEPT !.records = (q.meta.next :> record) @@ @, !.meta.next = @ + 1, !.meta.bytes = @ + 1]

Dropped(w, c) == [w EXCEPT !.states = Restrict(@, DOMAIN @ \ {c})]

-----------------------------------------------------------------------------
(* The collector (collector.go).                                              *)

Measured(w, c, end) ==
  LET st == w.states[c]
  IN IF end <= st.open THEN w
     ELSE Sealed(w, [kind |-> "measurement", epoch |-> c, start |-> st.open, end |-> end, cpu |-> st.cpu])

\* gapFrom
GapFrom(w, c, start, end) ==
  IF end <= start THEN w
  ELSE Sealed(w, [kind |-> "gap", epoch |-> c, start |-> start, end |-> end, cpu |-> 0])

\* endUnobserved: what was folded, and a gap for the rest.
EndUnobserved(w, c, p) ==
  Dropped(GapFrom(Measured(w, c, w.states[c].last), c, w.states[c].last, p), c)

\* sealAt of a state that goes on.
SealOpen(w, c, p) == [Measured(w, c, p) EXCEPT !.states[c].open = p, !.states[c].cpu = 0]

NewState(w, start, p, s) ==
  [w EXCEPT !.states = (s.cg :> [open |-> start, last |-> p, cpu |-> 0, base |-> s.cpu, boot |-> boot.id]) @@ @]

\* Slip: after a counter that went back the whole counter counts.
DeltaFromZero(st, s) == IF s.cpu >= st.base THEN s.cpu - st.base ELSE s.cpu

Delta(st, s) == IF s.cpu >= st.base THEN s.cpu - st.base ELSE 0

Folded(w, p, s) ==
  [w EXCEPT !.states[s.cg] = [@ EXCEPT !.cpu = @ + Delta(w.states[s.cg], s), !.base = s.cpu, !.last = p]]

\* foldAllocSample
FoldSample(w, p, s) ==
  LET st == w.states[s.cg]
      next == Folded(w, p, s)
      overrun == p - st.last > 2
      crossed == p \div Minute > st.open \div Minute
  IN IF overrun \/ crossed THEN SealOpen(next, s.cg, p) ELSE next

\* timeline.at: the producer's time never goes back.
At(w, t) == Max({t, w.meta.clock})

Clocked(w, p) == [w EXCEPT !.meta.clock = p]

Ascending(S) == SetToSortSeq(S, LAMBDA a, b : a < b)

\* A state of an earlier boot: its open record becomes a gap that ends at the boot.
EndBoot(w, c) == Dropped(GapFrom(w, c, w.states[c].open, boot.at), c)

\* Meter.fold of a Tick; s is None or the sample of the cgroup there is.
Fold(w, s) ==
  LET p == At(w, now)
      start == IF w.meta.tick # None /\ w.meta.tick.boot = boot.id THEN w.meta.tick.at ELSE boot.at
      old == {c \in DOMAIN w.states : w.states[c].boot # boot.id}
      booted == FoldLeft(EndBoot, Clocked(w, p), Ascending(old))
      sampled == IF s = None THEN booted
                 ELSE IF s.cg \notin DOMAIN booted.states THEN NewState(booted, start, p, s)
                 ELSE FoldSample(booted, p, s)
      unseen == DOMAIN sampled.states \ (IF s = None THEN {} ELSE {s.cg})
      done == FoldLeft(LAMBDA v, c : EndUnobserved(v, c, p), sampled, Ascending(unseen))
      sealed == Min({p} \cup {done.states[c].open : c \in DOMAIN done.states})
  IN PruneOld([done EXCEPT !.meta.tick = [boot |-> boot.id, at |-> p], !.meta.sealed = sealed])

\* Meter.ObserveAllocation with the sample s that the hook took.
FoldHook(w, s, final) ==
  LET p == At(w, s.at)
      v == Clocked(w, p)
  IN IF s.cg = None THEN IF final THEN FoldLeft(LAMBDA u, c : EndUnobserved(u, c, p), v, Ascending(DOMAIN v.states)) ELSE v
     ELSE IF s.cg \notin DOMAIN v.states THEN IF final THEN v ELSE NewState(v, p, p, s)
     ELSE LET next == Folded(v, p, s) IN IF final THEN Dropped(Measured(next, s.cg, p), s.cg) ELSE next

Written(w) ==
  journal' = IF w.full THEN journal ELSE [journal EXCEPT !.meta = w.meta, !.records = w.records, !.states = w.states]

-----------------------------------------------------------------------------
(* The node: time, tasks, and the runtime's hooks around them.               *)

Init ==
  /\ scope \in Scopes
  /\ spent = {}
  /\ now = 0
  /\ boot = [id |-> 1, at |-> 0]
  /\ task = [cg |-> 0, live |-> FALSE, runs |-> FALSE, cpu |-> 0, hook |-> "idle", first |-> None]
  /\ used = 0
  /\ journal = Fresh(1)
  /\ agent = [up |-> TRUE, sample |-> None, ack |-> None, from |-> 1, conflict |-> FALSE, waiting |-> FALSE]
  /\ session = [ended |-> 0, up |-> FALSE, batch |-> None, reports |-> <<>>, acks |-> <<>>]
  /\ db = [producers |-> <<>>, gaps |-> {}, rows |-> {}, ledger |-> <<>>, billed |-> 0, progress |-> 0]
  /\ backup = None
  /\ slips = [twice |-> 0, early |-> {}]

Pass ==
  /\ now < scope.time
  /\ now' = now + 1
  /\ task' = [task EXCEPT !.cpu = IF task.runs THEN @ + 1 ELSE @]
  /\ used' = IF task.runs THEN used + 1 ELSE used
  /\ UNCHANGED <<scope, spent, boot, journal, agent, session, db, backup, slips>>

\* A task starts in a cgroup of its own; the start hook follows.
StartTask ==
  /\ agent.up
  /\ task.hook = "idle"
  /\ ~task.live
  /\ task.cg < scope.tasks
  /\ task' = [cg |-> task.cg + 1, live |-> TRUE, runs |-> TRUE, cpu |-> 0, hook |-> "start", first |-> None]
  /\ UNCHANGED <<scope, spent, now, boot, used, journal, agent, session, db, backup, slips>>

ExitTask ==
  /\ "exit" \in scope.events
  /\ task.runs
  /\ task' = [task EXCEPT !.runs = FALSE]
  /\ UNCHANGED <<scope, spent, now, boot, used, journal, agent, session, db, backup, slips>>

\* The runtime stops a task, or cleans up after one: the final hook comes first.
StopTask ==
  /\ agent.up
  /\ "stop" \in scope.events
  /\ task.hook = "idle"
  /\ task.live \/ journal.states # <<>>
  /\ task' = [task EXCEPT !.hook = "final"]
  /\ UNCHANGED <<scope, spent, now, boot, used, journal, agent, session, db, backup, slips>>

RemoveTask ==
  /\ agent.up
  /\ task.hook = "ended"
  /\ task' = [task EXCEPT !.live = FALSE, !.runs = FALSE, !.hook = "idle"]
  /\ UNCHANGED <<scope, spent, now, boot, used, journal, agent, session, db, backup, slips>>

Seen == [cg |-> IF task.live THEN task.cg ELSE None, cpu |-> task.cpu, at |-> now]

\* ObserveAllocation reads the counters and the clock before it takes the lock.
HookReads ==
  /\ agent.up
  /\ agent.sample = None
  /\ task.hook \in {"start", "final"}
  /\ agent' = [agent EXCEPT !.sample = Seen]
  /\ UNCHANGED <<scope, spent, now, boot, task, used, journal, session, db, backup, slips>>

\* What two Ticks have counted when a start hook puts the baseline back to what it read
\* before them: it will be counted again.
CountedTwice ==
  LET seen == agent.sample
      st == journal.states[seen.cg]
  IN IF task.hook = "start" /\ task.first # None /\ seen.cpu < st.base THEN st.base - Max({seen.cpu, task.first}) ELSE 0

HookFolds ==
  /\ agent.sample # None
  /\ Written(FoldHook(Work, agent.sample, task.hook = "final"))
  /\ agent' = [agent EXCEPT !.sample = None]
  /\ task' = [task EXCEPT !.hook = IF @ = "start" THEN "idle" ELSE "ended", !.first = None]
  /\ slips' = [slips EXCEPT !.twice = @ + CountedTwice]
  /\ UNCHANGED <<scope, spent, now, boot, used, session, db, backup>>

\* Meter.Tick
Tick ==
  /\ agent.up
  /\ journal.meta.tick # None => journal.meta.tick.at < now
  /\ Written(Fold(Work, IF task.live THEN Seen ELSE None))
  /\ task' = IF task.hook = "start" /\ task.first = None /\ task.cg \in DOMAIN journal'.states
             THEN [task EXCEPT !.first = task.cpu] ELSE task
  /\ UNCHANGED <<scope, spent, now, boot, used, agent, session, db, backup, slips>>

-----------------------------------------------------------------------------
(* Delivery (delivery.go).                                                    *)

\* The session ends; what it carried to the control plane may still be ingested.
Ended == [session EXCEPT !.up = FALSE, !.batch = None, !.acks = <<>>]

Stopped == [agent EXCEPT !.up = FALSE, !.sample = None, !.ack = None]

Crash ==
  /\ agent.up
  /\ Once("crash")
  /\ agent' = Stopped
  /\ session' = Ended
  /\ task' = [task EXCEPT !.hook = "idle", !.first = None]
  /\ UNCHANGED <<scope, now, boot, used, journal, db, backup, slips>>

Reboot ==
  /\ Once("reboot")
  /\ agent' = Stopped
  /\ session' = Ended
  /\ boot' = [id |-> boot.id + 1, at |-> now]
  /\ task' = [task EXCEPT !.live = FALSE, !.runs = FALSE, !.hook = "idle", !.first = None]
  /\ UNCHANGED <<scope, now, used, journal, db, backup, slips>>

\* Open: the journal is resumed, or moved aside and replaced when it is unusable.
Resumes(j) ==
  /\ ~agent.up
  /\ journal' = j
  /\ agent' = [agent EXCEPT !.up = TRUE, !.from = j.meta.acked + 1, !.conflict = FALSE, !.waiting = FALSE]
  /\ UNCHANGED <<scope, now, boot, task, used, session, db, backup, slips>>

Restart == Resumes(journal) /\ UNCHANGED spent

Replace == Once("corrupt") /\ Resumes(Fresh(journal.producer + 1))

\* Attach, in a session of a later incarnation: fenceSession refuses what earlier ones sent.
Connect ==
  /\ agent.up
  /\ ~session.up
  /\ now >= scope.online
  /\ session' = [session EXCEPT !.up = TRUE, !.reports = <<>>]
  /\ UNCHANGED <<scope, spent, now, boot, task, used, journal, agent, db, backup, slips>>

Disconnect ==
  /\ session.up
  /\ session.ended < scope.sessions
  /\ session' = [Ended EXCEPT !.ended = @ + 1]
  /\ UNCHANGED <<scope, spent, now, boot, task, used, journal, agent, db, backup, slips>>

\* journal.batch
Batch ==
  LET first == Max({agent.from, journal.meta.lowest})
      all == Ascending({s \in DOMAIN journal.records : s >= first})
  IN SubSeq(all, 1, Min({Len(all), scope.batch}))

LostThrough == IF agent.from < journal.meta.lowest THEN journal.meta.lowest - 1 ELSE 0

\* Slip: every report carries it.
SealedThroughAlways(records, newest) == journal.meta.sealed

\* sealed_through goes with a batch that reaches the newest record.
SealedThrough(records, newest) ==
  IF records = <<>> \/ Last(records).seq >= newest THEN journal.meta.sealed ELSE 0

\* Deliver reads a batch.  An empty one makes a health report, which goes about every
\* minute; here, when nothing else is under way.
DeliverReads ==
  /\ agent.up
  /\ session.up
  /\ session.batch = None
  /\ ~agent.conflict
  /\ ~agent.waiting
  /\ IF Batch = <<>> THEN session.reports = <<>> /\ session.acks = <<>> ELSE Len(session.reports) + Len(session.acks) < 2
  /\ session' = [session EXCEPT !.batch =
       [lost |-> LostThrough, newest |-> journal.meta.next - 1,
        records |-> [i \in DOMAIN Batch |-> [seq |-> Batch[i], body |-> journal.records[Batch[i]]]]]]
  /\ UNCHANGED <<scope, spent, now, boot, task, used, journal, agent, db, backup, slips>>

\* It waits for the meter's lock (health) and then reads the metadata, field by field and
\* without a lock: NextSequence is the one of now or of any time since.
DeliverSends ==
  /\ session.batch # None
  /\ \E newest \in {session.batch.newest, journal.meta.next - 1} :
       LET sealed == SealedThrough(session.batch.records, newest)
       IN /\ session' = [session EXCEPT !.batch = None, !.reports = Append(@,
               [producer |-> journal.producer, lost |-> session.batch.lost, sealed |-> sealed, records |-> session.batch.records])]
          /\ slips' = IF sealed = 0 THEN slips
                      ELSE [slips EXCEPT !.early = @ \cup {journal.producer} \X (session.batch.newest + 1 .. journal.meta.next - 1)]
  /\ agent' = [agent EXCEPT !.waiting = session.batch.records # <<>>]
  /\ UNCHANGED <<scope, spent, now, boot, task, used, journal, db, backup>>

\* ackTimeout
AckTimeout ==
  /\ agent.waiting
  /\ agent' = [agent EXCEPT !.waiting = FALSE]
  /\ UNCHANGED <<scope, spent, now, boot, task, used, journal, session, db, backup, slips>>

\* journal.acknowledge
Rewound(w, cursor) == IF cursor = w.meta.acked THEN w ELSE PruneOld([w EXCEPT !.meta.acked = cursor])

Ack == Head(session.acks)

\* Slip: an acknowledgement never moves delivery back.
SendFromOnward(cursor) == Max({agent.from, cursor + 1})

\* sendFrom: after the control plane's cursor, also when that went back.
SendFrom(cursor) == cursor + 1

\* Meter.Acknowledge
Acknowledge ==
  /\ agent.up
  /\ session.acks # <<>>
  /\ session' = [session EXCEPT !.acks = Tail(@)]
  /\ IF Ack.producer = journal.producer /\ Ack.cursor < journal.meta.next
     THEN /\ Written(Rewound(Work, Ack.cursor))
          /\ agent' = [agent EXCEPT !.from = SendFrom(Ack.cursor), !.conflict = @ \/ Ack.conflict]
     ELSE /\ agent' = [agent EXCEPT !.conflict = @ \/ (Ack.conflict /\ Ack.producer = journal.producer)]
          /\ UNCHANGED journal
  /\ UNCHANGED <<scope, spent, now, boot, task, used, db, backup, slips>>

-----------------------------------------------------------------------------
(* The control plane (usage/ingest.go, usage/maintain.go).                    *)

Row(p) == IF p \in DOMAIN db.producers THEN db.producers[p] ELSE [state |-> "active", accepted |-> 0, sealed |-> 0]

\* lockProducer: a new journal supersedes the agent's previous one.
Locked(d, p) ==
  IF p \in DOMAIN d.producers THEN d
  ELSE [d EXCEPT
         !.producers = (p :> [state |-> "active", accepted |-> 0, sealed |-> 0])
                       @@ [q \in DOMAIN @ |-> [@[q] EXCEPT !.state = "superseded"]],
         !.gaps = @ \cup {[producer |-> q, first |-> 0, last |-> 0] : q \in {r \in DOMAIN d.producers : d.producers[r].state # "superseded"}}]

\* What the producer pruned after an acknowledgement that is now forgotten.
Lost(d, r) ==
  IF r.lost <= d.producers[r.producer].accepted THEN d
  ELSE [d EXCEPT !.producers[r.producer].accepted = r.lost,
                 !.gaps = @ \cup {[producer |-> r.producer, first |-> d.producers[r.producer].accepted + 1, last |-> r.lost]}]

\* checkDuplicates: the payload of a row that is still there differs.
Conflicts(d, r) ==
  \E i \in DOMAIN r.records, row \in d.rows :
     /\ r.records[i].seq <= d.producers[r.producer].accepted
     /\ row.kept /\ row.producer = r.producer /\ row.seq = r.records[i].seq
     /\ row.body # r.records[i].body

\* The records that continue the cursor.
Continuing(d, r) ==
  LET c == d.producers[r.producer].accepted
  IN IF \E i \in DOMAIN r.records : r.records[i].seq = c + 1
     THEN SelectSeq(r.records, LAMBDA x : x.seq > c) ELSE <<>>

\* Slip: intervals are not compared with the resource's progress.
OverlapsNever(d, body) == FALSE

Overlaps(d, body) == body.start < d.progress

\* prepareBatch and batch.write, for one record.
Stored(d, p, x) ==
  LET row == [producer |-> p, seq |-> x.seq, body |-> x.body, kept |-> TRUE]
      e == [d EXCEPT !.rows = @ \cup {row}, !.producers[p].accepted = x.seq]
  IN IF Overlaps(d, x.body) THEN e
     ELSE [e EXCEPT !.ledger = Append(@, x.body), !.billed = @ + x.body.cpu, !.progress = Max({@, x.body.end})]

\* ingestTx of a report of the current session.
Ingested(r) ==
  LET d == Lost(Locked(db, r.producer), r)
      e == FoldLeft(LAMBDA f, x : Stored(f, r.producer, x), d, Continuing(d, r))
      complete == r.records = <<>> \/ Last(r.records).seq <= e.producers[r.producer].accepted
  IN IF Row(r.producer).state = "blocked" THEN db
     ELSE IF Conflicts(d, r) THEN [d EXCEPT !.producers[r.producer].state = "blocked"]
     ELSE [e EXCEPT !.producers[r.producer].sealed = IF complete THEN Max({@, r.sealed}) ELSE @]

Ingest ==
  /\ session.reports # <<>>
  /\ LET r == Head(session.reports)
         d == Ingested(r)
         ack == [producer |-> r.producer, cursor |-> d.producers[r.producer].accepted,
                 conflict |-> d.producers[r.producer].state = "blocked"]
     IN /\ db' = d
        /\ session' = [session EXCEPT !.reports = Tail(@), !.acks = IF session.up THEN Append(@, ack) ELSE @]
  /\ UNCHANGED <<scope, spent, now, boot, task, used, journal, agent, backup, slips>>

\* Ingest fails: it is logged and the report is gone.
IngestFails ==
  /\ session.reports # <<>>
  /\ Once("dberror")
  /\ session' = [session EXCEPT !.reports = Tail(@)]
  /\ UNCHANGED <<scope, now, boot, task, used, journal, agent, db, backup, slips>>

\* dropExpiredPartitions: the raw rows of an earlier time are gone.
Maintain ==
  /\ Once("expire")
  /\ \E cutoff \in 1..now :
       db' = [db EXCEPT !.rows = {[row EXCEPT !.kept = @ /\ row.body.start >= cutoff] : row \in @}]
  /\ UNCHANGED <<scope, now, boot, task, used, journal, agent, session, backup, slips>>

Backup ==
  /\ Once("backup")
  /\ backup' = db
  /\ UNCHANGED <<scope, now, boot, task, used, journal, agent, session, db, slips>>

\* The database comes back from the backup and the control plane with it.
Restore ==
  /\ Once("restore")
  /\ backup # None
  /\ db' = backup
  /\ session' = [Ended EXCEPT !.reports = <<>>]
  /\ UNCHANGED <<scope, now, boot, task, used, journal, agent, backup, slips>>

\* Other steps come between the two halves of Deliver, and between a task's start and its
\* start hook, in the instances that are about this.
Apart ==
  /\ session.batch # None => "lag" \in scope.events
  /\ task.hook = "start" => "late" \in scope.events

Next ==
  \/ HookReads \/ HookFolds \/ DeliverSends
  \/ /\ Apart
     /\ \/ Pass \/ StartTask \/ ExitTask \/ StopTask \/ RemoveTask \/ Tick
        \/ Crash \/ Reboot \/ Restart \/ Replace \/ Connect \/ Disconnect
        \/ DeliverReads \/ AckTimeout \/ Acknowledge
        \/ Ingest \/ IngestFails \/ Maintain \/ Backup \/ Restore

Spec == Init /\ [][Next]_vars

\* The instances in which delivery is followed to its end.
Followed == scope.events \cap {"dberror", "restore"} # {}

\* Time passes, the agent is restarted and reconnects, its loops go on, and
\* the session worker ingests.
FairSpec ==
  /\ Spec
  /\ WF_vars(Followed /\ Pass)
  /\ WF_vars(Followed /\ Restart)
  /\ WF_vars(Followed /\ Connect)
  /\ WF_vars(Followed /\ DeliverReads)
  /\ WF_vars(Followed /\ DeliverSends)
  /\ WF_vars(Followed /\ AckTimeout)
  /\ WF_vars(Followed /\ Ingest)
  /\ WF_vars(Followed /\ Acknowledge)

-----------------------------------------------------------------------------
(* journal.update copies the metadata before bbolt's write lock; an          *)
(* acknowledgement, which does not hold the meter's lock, may copy it while  *)
(* a Tick or a hook is writing.                                              *)

AckCopies ==
  /\ agent.up
  /\ agent.ack = None
  /\ session.acks # <<>>
  /\ Ack.producer = journal.producer
  /\ Ack.cursor < journal.meta.next
  /\ Ack.cursor # journal.meta.acked
  /\ agent' = [agent EXCEPT !.ack = [cursor |-> Ack.cursor, meta |-> journal.meta]]
  /\ session' = [session EXCEPT !.acks = Tail(@)]
  /\ UNCHANGED <<scope, spent, now, boot, task, used, journal, db, backup, slips>>

AckCommits ==
  /\ agent.ack # None
  /\ Written(PruneOld([Work EXCEPT !.meta = [agent.ack.meta EXCEPT !.acked = agent.ack.cursor]]))
  /\ agent' = [agent EXCEPT !.ack = None, !.from = SendFrom(agent.ack.cursor)]
  /\ UNCHANGED <<scope, spent, now, boot, task, used, session, db, backup, slips>>

RaceSpec == Init /\ [][Next \/ AckCopies \/ AckCommits]_vars

-----------------------------------------------------------------------------
(* Properties.                                                                *)

\* What the accepted records add up to was used, although samples, hooks, restarts,
\* reboots, resent and restored records all start from counters that go on counting.  The
\* one exception: ObserveAllocation reads the counter before it takes the lock, and when two
\* Ticks come first the start hook puts the baseline back to its old reading.  Then no more
\* is billed twice than the second Tick had counted.
BilledAtMostUsed == db.billed <= used + slips.twice

\* The accepted intervals of the allocation never overlap, and each starts
\* where an earlier one has ended, whichever task, boot or producer sealed
\* them and however often they were delivered (prepareBatch, RejectOverlap).
IntervalsDisjoint ==
  \A i, j \in DOMAIN db.ledger : i < j => db.ledger[i].end <= db.ledger[j].start

HasRow(p, s) == \E row \in db.rows : row.producer = p /\ row.seq = s

InGap(p, s) == \E g \in db.gaps : g.producer = p /\ s \in g.first..g.last

\* No record disappears: each the journal sealed is in the journal or stored
\* by the control plane or covered by a gap that names it, or was pruned
\* and forgotten in a restore and is about to be named; and the cursor
\* passes only over records that are stored or in such a gap.
Accounted ==
  /\ \A s \in 1..journal.meta.next - 1 :
        \/ s \in DOMAIN journal.records
        \/ HasRow(journal.producer, s) \/ InGap(journal.producer, s)
        \/ "restore" \in spent /\ s > Row(journal.producer).accepted
  /\ \A p \in DOMAIN db.producers : \A s \in 1..db.producers[p].accepted : HasRow(p, s) \/ InGap(p, s)

\* Before the time the control plane takes for sealed it has all usage: no
\* record that starts before it waits in the journal and none is open.  Two
\* exceptions: a record that was sealed while a report was put together, after
\* its batch was read and before sealed_through was (Meter.Deliver); and a
\* restored database, which is taken for complete too early, until records are
\* resent (ingestTx, complete).
SealedHonest ==
  LET row == Row(journal.producer)
  IN "restore" \notin spent =>
       /\ \A s \in DOMAIN journal.records :
            journal.records[s].start < row.sealed => s <= row.accepted \/ <<journal.producer, s>> \in slips.early
       /\ \A c \in DOMAIN journal.states : journal.states[c].open >= row.sealed

\* Whatever the agent sealed is stored in the end, or named as lost: no
\* lost report or acknowledgement, restart, full journal or restored
\* database leaves delivery waiting (Deliver, Acknowledge).
Delivered == []<>(Followed => Row(journal.producer).accepted >= journal.meta.next - 1)

\* A sealed record stays in the journal as it is until its acknowledgement.
RecordsKept ==
  [][journal'.producer = journal.producer =>
       \A s \in DOMAIN journal.records :
          s > journal'.meta.acked => s \in DOMAIN journal'.records /\ journal'.records[s] = journal.records[s]]_vars

=============================================================================
