------------------------------ MODULE Journal ------------------------------
(***************************************************************************)
(* The product journal (internal/controlplane/journal): commands append    *)
(* the difference they made to the product tables, every replica's Store   *)
(* follows the log with an immutable projection, publishes each advance to *)
(* the live view (delivery/live_view.go), and compaction cuts the log and  *)
(* the command receipts.                                                   *)
(*                                                                         *)
(* The product tables are a function from keys to values; hist[i] is their *)
(* content after entry i, which is what a transaction that read head i     *)
(* sees.  A command id is an idempotency key: a caller's, or a fresh one.  *)
(***************************************************************************)
EXTENDS Naturals, FiniteSets

CONSTANTS Replicas, Calls,     \* stores, and calls in progress
          CallerIds, FreshIds, \* command ids: of callers, and of uuid.NewString
          Keys, Values, Zero,  \* product rows; Zero is the first content of each
          Keep,                \* a key that a batch does not change
          NoId,
          Retain,              \* entries the compaction keeps
          MaxHead,             \* bound: length of the journal
          MaxLost              \* bound: commits in flight at once

Ids == CallerIds \cup FreshIds

ASSUME ValueAssumption == Zero \in Values /\ Keep \notin Values
ASSUME IdAssumption    == NoId \notin Ids /\ CallerIds \cap FreshIds = {}
ASSUME CountAssumption == Retain \in Nat /\ MaxHead \in Nat /\ MaxLost \in Nat

VARIABLES hist,      \* product tables after each entry; the last one is current
          head, compacted,
          journal,   \* every entry ever appended; those up to compacted are deleted
          receipts,  \* cluster_journal_receipts
          expunged,  \* observability: entries whose receipt expired and was deleted
          inflight,  \* commits whose answer was lost
          used,      \* fresh ids drawn so far
          store,     \* Store.state of each replica
          live,      \* Live: product, and what its batches add up to
          call       \* each call: Execute, Read or BecomeLive

vars == <<hist, head, compacted, journal, receipts, expunged, inflight, used, store, live, call>>

Product == [Keys -> Values]
Delta   == [Keys -> Values \cup {Keep}]
Empty   == [k \in Keys |-> Keep]

-----------------------------------------------------------------------------
\* Diff and Apply of state.go.
Diff(before, after) == [k \in Keys |-> IF after[k] = before[k] THEN Keep ELSE after[k]]

Apply(state, delta) == [k \in Keys |-> IF delta[k] = Keep THEN state[k] ELSE delta[k]]

\* The entries of a set applied in the order of their indexes.
Latest(entries, k) == CHOOSE e \in entries :
                        /\ e.delta[k] # Keep
                        /\ \A f \in entries : f.delta[k] # Keep => f.at <= e.at

\* Defect: an entry that removes a row is not replayed.
ReplayKept(state, entries) ==
  [k \in Keys |-> IF \A e \in entries : e.delta[k] \in {Keep, Zero}
                  THEN state[k] ELSE Latest(entries, k).delta[k]]

Replay(state, entries) ==
  [k \in Keys |-> IF \A e \in entries : e.delta[k] = Keep
                  THEN state[k] ELSE Latest(entries, k).delta[k]]

Between(low, high) == {e \in journal : low < e.at /\ e.at <= high}

-----------------------------------------------------------------------------
Unread  == [index |-> 0, value |-> [k \in Keys |-> Zero], init |-> "no"]
Resting == [index |-> 0, value |-> [k \in Keys |-> Zero], told |-> [k \in Keys |-> Zero],
            known |-> "no", serving |-> "no"]
NoCall(r) == [pc |-> "idle", at |-> r, mode |-> "read", id |-> NoId, head |-> 0, low |-> 0,
              from |-> 0, value |-> [k \in Keys |-> Zero], delta |-> Empty, want |-> 0]

Init == /\ hist = [i \in {0} |-> [k \in Keys |-> Zero]]
        /\ head = 0 /\ compacted = 0
        /\ journal = {} /\ receipts = {} /\ expunged = {} /\ inflight = {} /\ used = {}
        /\ store = [r \in Replicas |-> Unread]
        /\ live = [r \in Replicas |-> Resting]
        /\ call \in [Calls -> {NoCall(r) : r \in Replicas}]

Trying(c)    == [NoCall(c.at) EXCEPT !.pc = "try", !.mode = "exec", !.id = c.id]
Resolving(c) == [NoCall(c.at) EXCEPT !.pc = "resolve", !.mode = "exec", !.id = c.id]

Receipt(id) == {x \in receipts : x.id = id}

-----------------------------------------------------------------------------
\* stateAtHead: the store's projection is read after the snapshot was taken.
\* Defect: a projection older than the log is replayed.
RebuildsNever(c) == store[c.at].init = "no" \/ store[c.at].index > c.head

Rebuilds(c) == \/ store[c.at].init = "no"
               \/ store[c.at].index < c.low
               \/ store[c.at].index > c.head

\* The rows the snapshot of the call still holds beyond the projection.
Tail(c) == {e \in Between(c.low, c.head) : store[c.at].index < e.at}

StateAtHead(c) == IF Rebuilds(c) THEN hist[c.head] ELSE Replay(store[c.at].value, Tail(c))

ReplayedFrom(c) == IF Rebuilds(c) THEN c.head ELSE store[c.at].index

-----------------------------------------------------------------------------
\* execute: the command id is fixed for all attempts.
Execute(o, id) ==
  /\ call[o].pc = "idle"
  /\ id \in CallerIds \/ (id \in FreshIds \ used)
  /\ used' = used \cup ({id} \cap FreshIds)
  /\ call' = [call EXCEPT ![o] = [NoCall(call[o].at) EXCEPT !.pc = "try", !.mode = "exec", !.id = id]]
  /\ UNCHANGED <<hist, head, compacted, journal, receipts, expunged, inflight, store, live>>

\* The transaction's first reads.  A receipt ends it: a no-op is answered at once.
BeginTx(o) ==
  /\ call[o].pc = "try"
  /\ call' = [call EXCEPT ![o] =
       IF Receipt(call[o].id) = {}
       THEN [call[o] EXCEPT !.pc = "begun", !.head = head, !.low = compacted]
       ELSE IF \E x \in Receipt(call[o].id) : x.kind = "noop"
            THEN NoCall(call[o].at)
            ELSE Resolving(call[o])]
  /\ UNCHANGED <<hist, head, compacted, journal, receipts, expunged, inflight, used, store, live>>

\* fn writes, diffTx finds what changed against the projection.  Nothing changed:
\* a fresh id needs no receipt.
Plan(o, after) ==
  /\ call[o].pc = "begun"
  /\ LET delta == Diff(StateAtHead(call[o]), after)
     IN call' = [call EXCEPT ![o] = IF delta = Empty /\ call[o].id \in FreshIds
                                    THEN NoCall(call[o].at)
                                    ELSE [call[o] EXCEPT !.pc = "planned", !.low = 0, !.delta = delta]]
  /\ UNCHANGED <<hist, head, compacted, journal, receipts, expunged, inflight, used, store, live>>

\* The locked head and the primary key of the receipts decide.
Landable(id, base, delta) ==
  /\ Receipt(id) = {}
  /\ delta # Empty => (base = head /\ head < MaxHead)

\* What a committed command leaves: entry, receipt, head, tables; a no-op only
\* the receipt.
Land(id, base, delta) ==
  /\ Landable(id, base, delta)
  /\ IF delta = Empty
     THEN /\ receipts' = receipts \cup {[id |-> id, at |-> base, kind |-> "noop", life |-> "live"]}
          /\ UNCHANGED <<hist, head, journal>>
     ELSE /\ receipts' = receipts \cup {[id |-> id, at |-> head + 1, kind |-> "entry", life |-> "live"]}
          /\ journal' = journal \cup {[at |-> head + 1, id |-> id, delta |-> delta]}
          /\ hist' = [i \in 0..(head + 1) |-> IF i <= head THEN hist[i] ELSE Apply(hist[head], delta)]
          /\ head' = head + 1

\* COMMIT answered; a no-op returns its receipt without a read.
Commit(o) ==
  /\ call[o].pc = "planned"
  /\ Land(call[o].id, call[o].head, call[o].delta)
  /\ call' = [call EXCEPT ![o] = IF call[o].delta = Empty THEN NoCall(call[o].at)
                                 ELSE Resolving(call[o])]
  /\ UNCHANGED <<compacted, expunged, inflight, used, store, live>>

\* headMovedError is retried with a fresh snapshot.
HeadMoved(o) ==
  /\ call[o].pc = "planned" /\ call[o].head # head /\ call[o].delta # Empty
  /\ call' = [call EXCEPT ![o] = Trying(call[o])]
  /\ UNCHANGED <<hist, head, compacted, journal, receipts, expunged, inflight, used, store, live>>

\* COMMIT failed without an answer; it may land at any later time.
CommitLost(o) ==
  /\ call[o].pc = "planned" /\ Cardinality(inflight) < MaxLost
  /\ inflight' = inflight \cup {[id |-> call[o].id, base |-> call[o].head, delta |-> call[o].delta]}
  /\ call' = [call EXCEPT ![o] = Resolving(call[o])]
  /\ UNCHANGED <<hist, head, compacted, journal, receipts, expunged, used, store, live>>

LandLate(x) ==
  /\ Land(x.id, x.base, x.delta)
  /\ inflight' = inflight \ {x}
  /\ UNCHANGED <<compacted, expunged, used, store, live, call>>

Vanish(x) ==
  /\ inflight' = inflight \ {x}
  /\ UNCHANGED <<hist, head, compacted, journal, receipts, expunged, used, store, live, call>>

\* fn, the fence, validation, a conflict on the receipt or the retry limit.
Fail(o) ==
  /\ call[o].pc \in {"begun", "planned"}
  /\ call' = [call EXCEPT ![o] = Resolving(call[o])]
  /\ UNCHANGED <<hist, head, compacted, journal, receipts, expunged, inflight, used, store, live>>

\* Defect: the answer is read back from the projection the store already has.
ResolveCached(o) ==
  /\ call[o].pc = "resolve"
  /\ call' = [call EXCEPT ![o] =
       IF Receipt(call[o].id) = {} THEN NoCall(call[o].at)
       ELSE [NoCall(call[o].at) EXCEPT !.pc = "snapshot", !.mode = "exec",
               !.head = store[call[o].at].index, !.want = (CHOOSE x \in Receipt(call[o].id) : TRUE).at]]
  /\ UNCHANGED <<hist, head, compacted, journal, receipts, expunged, inflight, used, store, live>>

\* "Resolve against the same command ID on a fresh context; absence/error never
\* permits publish."
Resolve(o) ==
  /\ call[o].pc = "resolve"
  /\ call' = [call EXCEPT ![o] =
       IF Receipt(call[o].id) = {} THEN NoCall(call[o].at)
       ELSE [NoCall(call[o].at) EXCEPT !.pc = "reading", !.mode = "exec", !.want = (CHOOSE x \in Receipt(call[o].id) : TRUE).at]]
  /\ UNCHANGED <<hist, head, compacted, journal, receipts, expunged, inflight, used, store, live>>

-----------------------------------------------------------------------------
\* Read, and BecomeLive whose first step empties the live view.
Read(o) ==
  /\ call[o].pc = "idle"
  /\ call' = [call EXCEPT ![o].pc = "reading"]
  /\ UNCHANGED <<hist, head, compacted, journal, receipts, expunged, inflight, used, store, live>>

BecomeLive(o) ==
  /\ call[o].pc = "idle"
  /\ \A p \in Calls : call[p].at = call[o].at => call[p].mode # "become"
  /\ call' = [call EXCEPT ![o].pc = "reading", ![o].mode = "become"]
  /\ live' = [live EXCEPT ![call[o].at] = Resting]
  /\ UNCHANGED <<hist, head, compacted, journal, receipts, expunged, inflight, used, store>>

ReadBegin(o) ==
  /\ call[o].pc = "reading"
  /\ call' = [call EXCEPT ![o].pc = "snapshot", ![o].head = head, ![o].low = compacted]
  /\ UNCHANGED <<hist, head, compacted, journal, receipts, expunged, inflight, used, store, live>>

ReadState(o) ==
  /\ call[o].pc = "snapshot"
  /\ call' = [call EXCEPT ![o].pc = "ready", ![o].low = 0, ![o].value = StateAtHead(call[o]),
                          ![o].from = ReplayedFrom(call[o])]
  /\ UNCHANGED <<hist, head, compacted, journal, receipts, expunged, inflight, used, store, live>>

ReadFail(o) ==
  /\ call[o].pc \in {"reading", "snapshot"}
  /\ call' = [call EXCEPT ![o] = NoCall(call[o].at)]
  /\ live' = IF call[o].mode = "become" THEN [live EXCEPT ![call[o].at] = Resting] ELSE live
  /\ UNCHANGED <<hist, head, compacted, journal, receipts, expunged, inflight, used, store>>

\* Where a call goes when publish returns.
Published(c) == IF c.mode = "become" THEN [c EXCEPT !.pc = "becoming"] ELSE NoCall(c.at)

\* publishMu is held by a call whose hook has not run yet.
PublishFree(r) == \A p \in Calls : call[p].at = r => call[p].pc # "hook"

\* Defect: the snapshot is published although a newer one already was.
StaleNever(c) == FALSE

Stale(c) == store[c.at].init = "yes" /\ c.head <= store[c.at].index

\* publish up to the unlock: from becomes the index before the first batch kept,
\* or the head itself when the listener must reset.
PublishStale(o) ==
  /\ call[o].pc = "ready" /\ PublishFree(call[o].at) /\ Stale(call[o])
  /\ call' = [call EXCEPT ![o] = Published(call[o])]
  /\ UNCHANGED <<hist, head, compacted, journal, receipts, expunged, inflight, used, store, live>>

Publish(o) ==
  /\ call[o].pc = "ready" /\ PublishFree(call[o].at) /\ ~Stale(call[o])
  /\ LET s    == store[call[o].at]
         kept == IF call[o].from < s.index THEN s.index ELSE call[o].from
     IN call' = [call EXCEPT ![o].pc = "hook",
                   ![o].from = IF s.init = "no" \/ kept # s.index THEN call[o].head ELSE kept]
  /\ store' = [store EXCEPT ![call[o].at] = [index |-> call[o].head, value |-> call[o].value,
                                             init |-> "yes"]]
  /\ UNCHANGED <<hist, head, compacted, journal, receipts, expunged, inflight, used, live>>

-----------------------------------------------------------------------------
\* The update's batches continue the product the live view has.
Covers(l, from, to) == l.known = "yes" /\ from < to /\ from = l.index

\* applyProductLocked: an older prefix is ignored, a gap is a reset.
Applied(l, from, to, value) ==
  IF l.index >= to /\ l.index # 0 THEN l
  ELSE [l EXCEPT !.index = to, !.value = value, !.known = "yes",
                 !.told = IF Covers(l, from, to) THEN Replay(l.told, Between(from, to)) ELSE value]

Hook(o) ==
  /\ call[o].pc = "hook"
  /\ live' = [live EXCEPT ![call[o].at] = Applied(@, call[o].from, call[o].head, call[o].value)]
  /\ call' = [call EXCEPT ![o] = Published(call[o])]
  /\ UNCHANGED <<hist, head, compacted, journal, receipts, expunged, inflight, used, store>>

\* The rest of become: the snapshot it read, as a reset.
Serve(o) ==
  /\ call[o].pc = "becoming"
  /\ live' = [live EXCEPT ![call[o].at] =
                [Applied(@, call[o].head, call[o].head, call[o].value) EXCEPT !.serving = "yes"]]
  /\ call' = [call EXCEPT ![o] = NoCall(call[o].at)]
  /\ UNCHANGED <<hist, head, compacted, journal, receipts, expunged, inflight, used, store>>

ResignLive(r) ==
  /\ live[r].serving = "yes"
  /\ live' = [live EXCEPT ![r] = Resting]
  /\ UNCHANGED <<hist, head, compacted, journal, receipts, expunged, inflight, used, store, call>>

-----------------------------------------------------------------------------
\* The target of Compact: it cuts in batches of at least Retain entries.
CompactTo == LET target == IF head > Retain THEN head - Retain ELSE 0
             IN IF Retain > 0 /\ target < compacted + Retain THEN compacted
                ELSE IF target > compacted THEN target ELSE compacted

\* Defect: the receipts go with the entries they belong to.
DroppedWithLog(x) == x.life = "expired" \/ x.at <= CompactTo

Dropped(x) == x.life = "expired"

Compact ==
  /\ compacted' = CompactTo
  /\ receipts' = {x \in receipts : ~Dropped(x)}
  /\ expunged' = expunged \cup {x.at : x \in {y \in receipts : y.life = "expired" /\ y.kind = "entry"}}
  /\ UNCHANGED <<hist, head, journal, inflight, used, store, live, call>>

\* A receipt outlives its lifetime.
Expire(x) ==
  /\ x.life = "live"
  /\ receipts' = (receipts \ {x}) \cup {[x EXCEPT !.life = "expired"]}
  /\ UNCHANGED <<hist, head, compacted, journal, expunged, inflight, used, store, live, call>>

\* The process of a replica restarts; its commits on the way may still land.
Restart(r) ==
  /\ store' = [store EXCEPT ![r] = Unread]
  /\ live' = [live EXCEPT ![r] = Resting]
  /\ call' = [o \in Calls |-> IF call[o].at = r THEN NoCall(r) ELSE call[o]]
  /\ UNCHANGED <<hist, head, compacted, journal, receipts, expunged, inflight, used>>

-----------------------------------------------------------------------------
Command(o) == \/ \E id \in Ids : Execute(o, id)
              \/ BeginTx(o)
              \/ \E after \in Product : Plan(o, after)
              \/ Commit(o) \/ HeadMoved(o) \/ CommitLost(o) \/ Fail(o) \/ Resolve(o)

Following(o) == \/ Read(o) \/ BecomeLive(o) \/ ReadBegin(o) \/ ReadState(o) \/ ReadFail(o)
                \/ PublishStale(o) \/ Publish(o) \/ Hook(o) \/ Serve(o)

Next == \/ \E o \in Calls : Command(o) \/ Following(o)
        \/ \E x \in inflight : LandLate(x) \/ Vanish(x)
        \/ \E r \in Replicas : ResignLive(r) \/ Restart(r)
        \/ \E x \in receipts : Expire(x)
        \/ Compact

Spec == Init /\ [][Next]_vars

-----------------------------------------------------------------------------
Entry    == [at : Nat \ {0}, id : Ids, delta : Delta]
StoreRec == [index : Nat, value : Product, init : {"no", "yes"}]
LiveRec  == [index : Nat, value : Product, told : Product,
             known : {"no", "yes"}, serving : {"no", "yes"}]
CallRec  == [pc : {"idle", "try", "begun", "planned", "resolve", "reading", "snapshot",
                   "ready", "hook", "becoming"},
             at : Replicas, mode : {"read", "exec", "become"}, id : Ids \cup {NoId},
             head : Nat, low : Nat, from : Nat, value : Product, delta : Delta, want : Nat]

\* Types, and nothing is beyond the head.
TypeOK ==
  /\ head \in Nat /\ compacted \in Nat /\ compacted <= head
  /\ hist \in [0..head -> Product]
  /\ journal \subseteq Entry /\ \A e \in journal : e.at <= head
  /\ receipts \subseteq [id : Ids, at : Nat, kind : {"entry", "noop"}, life : {"live", "expired"}]
  /\ expunged \subseteq Nat /\ used \subseteq FreshIds
  /\ inflight \subseteq [id : Ids, base : Nat, delta : Delta]
  /\ store \in [Replicas -> StoreRec]
  /\ live \in [Replicas -> LiveRec]
  /\ call \in [Calls -> CallRec]

\* Every store's projection is the product state at its index, although it is
\* replayed from a log that compaction cuts while transactions read old snapshots
\* of it (stateAtHead, replay, diffTx).
Projected == \A r \in Replicas : store[r].index <= head /\ store[r].value = hist[store[r].index]

\* replay never meets the "journal gap" error: when the projection is not rebuilt
\* the snapshot still has every entry after it.
NoGap == \A o \in Calls :
           call[o].pc \in {"begun", "snapshot"} /\ ~Rebuilds(call[o]) =>
             \A i \in (store[call[o].at].index + 1)..call[o].head :
               \E e \in Tail(call[o]) : e.at = i

\* A listener that follows the batches of updates, and the projection only on a
\* reset, has the projection's content: no change of a command is lost to it
\* ("Treat that gap as a reset", applyProductLocked).
BatchesComplete == \A r \in Replicas : live[r].told = live[r].value

\* The view that serves agents is the store's projection, up to a hook on its way.
LiveCurrent ==
  \A r \in Replicas : live[r].serving = "yes" /\ PublishFree(r) => live[r].index = store[r].index

\* A command id has one entry for as long as its receipt is kept, whatever is
\* retried, lands late or is answered twice.
AtMostOnce ==
  \A e, f \in journal : e.id = f.id /\ e.at < f.at => e.at \in expunged

Returned(o) == call[o].mode = "exec" /\ call[o].pc \in {"ready", "hook"} /\ call'[o].pc = "idle"

\* When Execute returns a committed entry, its store and a serving live view have it.
ReadYourWrites ==
  [][\A o \in Calls : Returned(o) /\ store'[call[o].at].init = "yes" =>
       /\ store'[call[o].at].index >= call[o].want
       /\ live'[call[o].at].serving = "yes" => live'[call[o].at].index >= call[o].want]_vars
=============================================================================
