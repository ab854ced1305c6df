--------------------------- MODULE JournalProofs ---------------------------
(***************************************************************************)
(* What the product journal keeps, for any number of stores, calls,        *)
(* commands and product rows.                                              *)
(***************************************************************************)
EXTENDS Journal, TLAPS

\* The leaves are first-order; the ones with arithmetic or EXCEPT cite SMT.
USE ZenonT(30)

Steady(k, i, j) == \A e \in Between(i, j) : e.delta[k] = Keep

Newest(e, k, i, j) == /\ e.delta[k] # Keep
                      /\ \A f \in Between(i, j) : f.delta[k] # Keep => f.at <= e.at

\* The log accounts for every difference between two contents of the tables.
Traced == /\ \A e \in journal, k \in Keys : e.delta[k] # Keep => hist[e.at][k] = e.delta[k]
          /\ \A k \in Keys, i, j \in 0..head : i <= j =>
               /\ Steady(k, i, j) => hist[i][k] = hist[j][k]
               /\ ~Steady(k, i, j) => \E e \in Between(i, j) : Newest(e, k, i, j)

Contiguous == \A i \in 1..head : \E e \in journal : e.at = i

\* Replaying the entries between two indexes is the difference they made.
LEMMA ReplayCorrect ==
  ASSUME TypeOK, Traced, NEW i \in 0..head, NEW j \in 0..head, i <= j
  PROVE  Replay(hist[i], Between(i, j)) = hist[j]
<1>0. hist[i] \in Product /\ hist[j] \in Product
  BY DEF TypeOK
<1>1. ASSUME NEW k \in Keys
      PROVE  Replay(hist[i], Between(i, j))[k] = hist[j][k]
  <2>1. CASE Steady(k, i, j)
    BY <2>1 DEF Replay, Steady, Traced
  <2>2. CASE ~Steady(k, i, j)
    <3> DEFINE e == Latest(Between(i, j), k)
    <3>1. \E f \in Between(i, j) : Newest(f, k, i, j)
      BY <2>2 DEF Traced
    <3>2. e \in Between(i, j) /\ Newest(e, k, i, j)
      BY <3>1 DEF Latest, Newest
    <3>3. Replay(hist[i], Between(i, j))[k] = e.delta[k]
      BY <2>2 DEF Replay, Steady
    <3> HIDE DEF e
    <3>4. e \in journal /\ e.at \in 0..head /\ e.at <= j /\ i < e.at
      BY <3>2, SMT DEF Between, TypeOK, Entry
    <3>5. hist[e.at][k] = e.delta[k]
      BY <3>2, <3>4 DEF Newest, Traced
    <3>6. Steady(k, e.at, j)
      <4> SUFFICES ASSUME NEW f \in Between(e.at, j), f.delta[k] # Keep PROVE FALSE
        BY DEF Steady
      <4>1. f \in Between(i, j) /\ e.at < f.at /\ f.at \in Nat
        BY <3>4, SMT DEF Between, TypeOK, Entry
      <4> QED BY <3>2, <3>4, <4>1, SMT DEF Newest
    <3>7. hist[e.at][k] = hist[j][k]
      BY <3>4, <3>6 DEF Traced
    <3> QED BY <3>3, <3>5, <3>7
  <2> QED BY <2>1, <2>2
<1>2. Replay(hist[i], Between(i, j)) = [k \in Keys |-> Replay(hist[i], Between(i, j))[k]]
  BY DEF Replay
<1>3. hist[j] = [k \in Keys |-> hist[j][k]]
  BY <1>0 DEF Product
<1> QED BY <1>1, <1>2, <1>3

\* Diff and Apply are inverse.
LEMMA DiffApplies ==
  ASSUME NEW a \in Product, NEW b \in Product
  PROVE  Diff(a, b) \in Delta /\ Apply(a, Diff(a, b)) = b
  BY ValueAssumption DEF Product, Delta, Diff, Apply

\* A batch applied to product rows gives product rows.
LEMMA ApplyTyped ==
  ASSUME NEW s \in Product, NEW d \in Delta
  PROVE  Apply(s, d) \in Product
  BY DEF Product, Delta, Apply

-----------------------------------------------------------------------------
\* What a call has read is a committed prefix.
SnapOK(c) == /\ c.head <= head /\ c.low <= c.head
             /\ c.pc \in {"ready", "hook", "becoming"} => c.value = hist[c.head]
             /\ c.pc \in {"try", "begun", "planned", "resolve"} => c.id \in Ids

LiveOK(l) == l.index <= head /\ l.value = hist[l.index] /\ l.told = l.value

Blank == [k \in Keys |-> Zero]

Inv == /\ TypeOK /\ Traced /\ Contiguous /\ Projected
       /\ hist[0] = Blank
       /\ \A o \in Calls : SnapOK(call[o])
       /\ \A r \in Replicas : LiveOK(live[r])

\* The initial records have their types.
LEMMA Typed == /\ Blank \in Product /\ Empty \in Delta
               /\ \A r \in Replicas : NoCall(r) \in CallRec
               /\ Unread \in StoreRec /\ Resting \in LiveRec
<1>1. Blank \in Product /\ Empty \in Delta
  BY ValueAssumption DEF Blank, Product, Empty, Delta
<1>2. \A r \in Replicas : NoCall(r) \in CallRec
  BY <1>1 DEF NoCall, CallRec, Blank
<1>3. Unread \in StoreRec /\ Resting \in LiveRec
  BY <1>1 DEF Unread, StoreRec, Resting, LiveRec, Blank
<1> QED BY <1>1, <1>2, <1>3

\* stateAtHead is the content of the tables at the head the call has read.
LEMMA StateCorrect ==
  ASSUME Inv, NEW o \in Calls
  PROVE  StateAtHead(call[o]) = hist[call[o].head] /\ hist[call[o].head] \in Product
<1> DEFINE c == call[o]
<1>1. /\ c \in CallRec /\ SnapOK(c) /\ c.at \in Replicas
      /\ store[c.at] \in StoreRec
  BY DEF Inv, TypeOK, CallRec
<1>2. c.head \in 0..head /\ hist[c.head] \in Product
  BY <1>1, SMT DEF SnapOK, CallRec, Inv, TypeOK
<1>3. CASE Rebuilds(c)
  BY <1>2, <1>3 DEF StateAtHead
<1>4. CASE ~Rebuilds(c)
  <2> DEFINE i == store[c.at].index
  <2>1. i \in 0..head /\ i <= c.head /\ c.low <= i /\ store[c.at].value = hist[i]
    BY <1>1, <1>4, SMT DEF Rebuilds, Inv, Projected, StoreRec, CallRec, TypeOK
  <2>2. Tail(c) = Between(i, c.head)
    BY <1>1, <2>1, SMT DEF Tail, Between, CallRec, Inv, TypeOK, Entry
  <2>3. Replay(hist[i], Between(i, c.head)) = hist[c.head]
    BY <1>2, <2>1, ReplayCorrect DEF Inv
  <2> QED BY <1>2, <1>4, <2>1, <2>2, <2>3 DEF StateAtHead
<1> QED BY <1>3, <1>4

\* An entry is appended to the tables and the log together.
LEMMA LandTraced ==
  ASSUME Inv, NEW id \in Ids, NEW base, NEW delta \in Delta, delta # Empty,
         Land(id, base, delta)
  PROVE  /\ Traced' /\ Contiguous' /\ head' = head + 1
         /\ hist' \in [0..head' -> Product] /\ journal' \subseteq Entry
         /\ \A e \in journal' : e.at <= head'
         /\ \A i \in 0..head : hist'[i] = hist[i]
<1>a. PICK h : h = head
  OBVIOUS
<1>b. PICK n : n = [at |-> h + 1, id |-> id, delta |-> delta]
  OBVIOUS
<1>c. n.at = h + 1 /\ n.delta = delta /\ n.id = id
  BY <1>b
<1>0. head \in Nat /\ hist \in [0..head -> Product] /\ journal \subseteq Entry
      /\ \A e \in journal : e.at <= head
  BY DEF Inv, TypeOK
<1>1. /\ head' = h + 1 /\ journal' = journal \cup {n} /\ h = head /\ h \in Nat
      /\ hist' = [i \in 0..(head + 1) |-> IF i <= head THEN hist[i] ELSE Apply(hist[head], delta)]
  BY <1>a, <1>b, <1>0 DEF Land
<1>2. Apply(hist[head], delta) \in Product
  BY <1>0, ApplyTyped, SMT
<1>3. /\ hist' \in [0..head' -> Product] /\ hist'[h + 1] = Apply(hist[head], delta)
      /\ \A i \in 0..head : hist'[i] = hist[i]
  BY <1>0, <1>1, <1>2, SMT
<1>4. journal' \subseteq Entry /\ \A e \in journal' : e.at <= head'
  BY <1>0, <1>1, <1>b, SMT DEF Entry
<1>5. \A i, j \in 0..head : Between(i, j)' = Between(i, j)
  BY <1>0, <1>1, <1>c, SMT DEF Between, Entry
<1>6. \A i \in 0..head : Between(i, h + 1)' = Between(i, h) \cup {n}
  BY <1>0, <1>1, <1>c, SMT DEF Between, Entry
<1>7. Between(h + 1, h + 1)' = {}
  BY <1>0, <1>1, <1>4, SMT DEF Between, Entry
<1>8. ASSUME NEW e \in journal', NEW k \in Keys, e.delta[k] # Keep
      PROVE  hist'[e.at][k] = e.delta[k]
  <2>1. CASE e \in journal
    BY <1>0, <1>3, <1>8, <2>1, SMT DEF Inv, Traced, Entry
  <2>2. CASE e = n
    BY <1>0, <1>1, <1>3, <1>c, <1>8, <2>2, SMT DEF Apply
  <2> QED BY <1>1, <2>1, <2>2
<1>9. ASSUME NEW k \in Keys, NEW i \in 0..head', NEW j \in 0..head', i <= j
      PROVE  /\ Steady(k, i, j)' => hist'[i][k] = hist'[j][k]
             /\ ~Steady(k, i, j)' => \E e \in Between(i, j)' : Newest(e, k, i, j)'
  <2>1. CASE j \in 0..head
    <3>1. i \in 0..head
      BY <1>0, <1>1, <1>9, <2>1, SMT
    <3> QED BY <1>3, <1>5, <1>9, <2>1, <3>1, SMT DEF Inv, Traced, Steady, Newest
  <2>2. CASE j = h + 1 /\ i = h + 1
    BY <1>7, <2>2 DEF Steady
  <2>3. CASE j = h + 1 /\ i \in 0..head
    <3>0. Between(i, j)' = Between(i, h) \cup {n} /\ i <= h /\ h \in 0..head
      BY <1>0, <1>1, <1>6, <2>3, SMT
    <3>1. ASSUME Steady(k, i, j)' PROVE hist'[i][k] = hist'[j][k]
      <4>1. Steady(k, i, h) /\ delta[k] = Keep
        BY <3>0, <3>1, <1>c DEF Steady
      <4>2. hist[i][k] = hist[h][k]
        BY <2>3, <3>0, <4>1 DEF Inv, Traced
      <4> QED BY <1>1, <1>3, <2>3, <4>1, <4>2 DEF Apply
    <3>2. ASSUME delta[k] # Keep PROVE Newest(n, k, i, j)' /\ n \in Between(i, j)'
      <4>1. \A f \in Between(i, h) : f.at <= h + 1
        BY <1>0, <1>1, SMT DEF Between, Entry
      <4> QED BY <3>0, <3>2, <4>1, <1>1, <1>c, SMT DEF Newest
    <3>3. ASSUME delta[k] = Keep, ~Steady(k, i, j)'
          PROVE  \E e \in Between(i, j)' : Newest(e, k, i, j)'
      <4>1. ~Steady(k, i, h)
        BY <3>0, <3>3, <1>c DEF Steady
      <4>2. PICK e \in Between(i, h) : Newest(e, k, i, h)
        BY <2>3, <3>0, <4>1 DEF Inv, Traced
      <4>3. Newest(e, k, i, j)'
        BY <3>0, <3>3, <4>2, <1>c DEF Newest
      <4> QED BY <3>0, <4>2, <4>3
    <3> QED BY <3>1, <3>2, <3>3
  <2> QED BY <1>0, <1>1, <2>1, <2>2, <2>3, SMT
<1>10. Traced'
  BY <1>8, <1>9 DEF Traced
<1>11. Contiguous'
  <2> SUFFICES ASSUME NEW i \in 1..head' PROVE \E e \in journal' : e.at = i
    BY DEF Contiguous
  <2>1. CASE i \in 1..head
    BY <1>1, <2>1 DEF Inv, Contiguous
  <2>2. CASE i = h + 1
    BY <1>1, <1>c, <2>2
  <2> QED BY <1>1, <2>1, <2>2, SMT
<1> QED BY <1>1, <1>3, <1>4, <1>10, <1>11

-----------------------------------------------------------------------------
\* A step appends at most one entry and rewrites none.
LEMMA LogStep ==
  ASSUME Inv, [Next]_vars
  PROVE  /\ Traced' /\ Contiguous' /\ head' \in Nat /\ head <= head'
         /\ hist' \in [0..head' -> Product] /\ journal' \subseteq Entry
         /\ \A e \in journal' : e.at <= head'
         /\ \A i \in 0..head : hist'[i] = hist[i]
         /\ hist'[0] = Blank
<1>0. head \in Nat /\ hist \in [0..head -> Product] /\ hist[0] = Blank /\ call \in [Calls -> CallRec]
      /\ inflight \subseteq [id : Ids, base : Nat, delta : Delta]
  BY DEF Inv, TypeOK
<1>1. CASE UNCHANGED <<hist, head, journal>>
  <2>1. Traced' /\ Contiguous'
    BY <1>1, SMT DEF Inv, Traced, Contiguous, Steady, Newest, Between
  <2> QED BY <1>0, <1>1, <2>1, SMT DEF Inv, TypeOK
<1>2. ASSUME NEW id \in Ids, NEW base, NEW delta \in Delta, Land(id, base, delta)
      PROVE  UNCHANGED <<hist, head, journal>> \/ delta # Empty
  BY <1>2 DEF Land
<1>3. ASSUME NEW id \in Ids, NEW base, NEW delta \in Delta, delta # Empty, Land(id, base, delta)
      PROVE  /\ Traced' /\ Contiguous' /\ head' \in Nat /\ head <= head'
             /\ hist' \in [0..head' -> Product] /\ journal' \subseteq Entry
             /\ \A e \in journal' : e.at <= head'
             /\ \A i \in 0..head : hist'[i] = hist[i]
             /\ hist'[0] = Blank
  BY <1>0, <1>3, LandTraced, SMT
<1>4. ASSUME NEW o \in Calls, Commit(o)
      PROVE  \E id \in Ids, base \in Nat, delta \in Delta : Land(id, base, delta)
  <2>1. call[o].id \in Ids /\ call[o].delta \in Delta /\ call[o].head \in Nat
    BY <1>0, <1>4 DEF Commit, Inv, SnapOK, CallRec
  <2> QED BY <1>4, <2>1 DEF Commit
<1>5. ASSUME NEW x \in inflight, LandLate(x)
      PROVE  \E id \in Ids, base \in Nat, delta \in Delta : Land(id, base, delta)
  BY <1>0, <1>5 DEF LandLate
<1>6. ASSUME NEW o \in Calls, Command(o), ~Commit(o) PROVE UNCHANGED <<hist, head, journal>>
  BY <1>6 DEF Command, Execute, BeginTx, Plan, HeadMoved, CommitLost, Fail, Resolve
<1>7. ASSUME NEW o \in Calls, Following(o) PROVE UNCHANGED <<hist, head, journal>>
  BY <1>7 DEF Following, Read, BecomeLive, ReadBegin, ReadState, ReadFail, PublishStale,
              Publish, Hook, Serve
<1>8. CASE \/ \E x \in inflight : Vanish(x)
           \/ \E r \in Replicas : ResignLive(r) \/ Restart(r)
           \/ \E x \in receipts : Expire(x)
           \/ Compact
           \/ UNCHANGED vars
  BY <1>1, <1>8 DEF Vanish, ResignLive, Restart, Expire, Compact, vars
<1> QED BY <1>1, <1>2, <1>3, <1>4, <1>5, <1>6, <1>7, <1>8 DEF Next

\* What every call has read stays a committed prefix.
LEMMA CallsStep ==
  ASSUME Inv, [Next]_vars
  PROVE  call' \in [Calls -> CallRec] /\ \A o \in Calls : SnapOK(call[o])'
<1>0. head \in Nat /\ compacted \in Nat /\ compacted <= head /\ call \in [Calls -> CallRec]
      /\ \A o \in Calls : SnapOK(call[o])
  BY DEF Inv, TypeOK
<1>1. ASSUME NEW c \in CallRec, SnapOK(c) PROVE SnapOK(c)'
  BY <1>0, <1>1, LogStep, SMT DEF SnapOK, CallRec
<1>2. ASSUME NEW o \in Calls, NEW c \in CallRec, SnapOK(c), call' = [call EXCEPT ![o] = c]
      PROVE  call' \in [Calls -> CallRec] /\ \A p \in Calls : SnapOK(call[p])'
  <2>1. call' \in [Calls -> CallRec]
    BY <1>0, <1>2
  <2>2. \A p \in Calls : call'[p] = c \/ call'[p] = call[p]
    BY <1>0, <1>2
  <2>3. ASSUME NEW p \in Calls PROVE SnapOK(call[p])'
    <3>1. PICK d : d = call'[p]
      OBVIOUS
    <3>2. d \in CallRec /\ SnapOK(d)
      BY <1>0, <1>2, <2>2, <3>1
    <3>3. SnapOK(d)'
      BY <1>1, <3>2
    <3> QED BY <3>1, <3>3 DEF SnapOK
  <2> QED BY <2>1, <2>3
<1>3. ASSUME NEW r \in Replicas PROVE NoCall(r) \in CallRec /\ SnapOK(NoCall(r))
  BY <1>0, Typed, SMT DEF NoCall, SnapOK
<1>4. ASSUME NEW c \in CallRec, SnapOK(c), c.pc \in {"try", "begun", "planned", "resolve"}
      PROVE  /\ Trying(c) \in CallRec /\ SnapOK(Trying(c))
             /\ Resolving(c) \in CallRec /\ SnapOK(Resolving(c))
  <2>1. c.at \in Replicas /\ c.id \in Ids
    BY <1>4 DEF CallRec, SnapOK
  <2>2. PICK d : d = NoCall(c.at)
    OBVIOUS
  <2>3. d \in CallRec /\ d.head = 0 /\ d.low = 0
    BY <2>1, <2>2, Typed DEF NoCall
  <2>4. PICK e, f : /\ e = [d EXCEPT !.pc = "try", !.mode = "exec", !.id = c.id]
                    /\ f = [d EXCEPT !.pc = "resolve", !.mode = "exec", !.id = c.id]
    OBVIOUS
  <2>5. e \in CallRec /\ f \in CallRec
    BY <2>1, <2>3, <2>4 DEF CallRec
  <2>6. /\ e.pc = "try" /\ e.id = c.id /\ e.head = 0 /\ e.low = 0
        /\ f.pc = "resolve" /\ f.id = c.id /\ f.head = 0 /\ f.low = 0
    BY <2>3, <2>4 DEF CallRec
  <2>7. SnapOK(e) /\ SnapOK(f)
    BY <1>0, <2>1, <2>6, SMT DEF SnapOK
  <2> QED BY <2>2, <2>4, <2>5, <2>7 DEF Trying, Resolving
\* A call that is rewritten in place.
<1>5. ASSUME NEW o \in Calls
      PROVE  /\ call[o] \in CallRec /\ SnapOK(call[o]) /\ call[o].at \in Replicas
             /\ NoCall(call[o].at) \in CallRec /\ SnapOK(NoCall(call[o].at))
  BY <1>0, <1>3 DEF CallRec
<1>6. ASSUME NEW o \in Calls, Command(o)
      PROVE  call' \in [Calls -> CallRec] /\ \A p \in Calls : SnapOK(call[p])'
  <2>1. ASSUME NEW id \in Ids, Execute(o, id)
        PROVE  \E c \in CallRec : SnapOK(c) /\ call' = [call EXCEPT ![o] = c]
    <3>1. PICK d : d = NoCall(call[o].at)
      OBVIOUS
    <3>2. d \in CallRec /\ d.head = 0 /\ d.low = 0
      BY <1>5, <3>1 DEF NoCall
    <3>3. PICK e : e = [d EXCEPT !.pc = "try", !.mode = "exec", !.id = id]
      OBVIOUS
    <3>4. e \in CallRec
      BY <3>2, <3>3 DEF CallRec
    <3>5. e.pc = "try" /\ e.id = id /\ e.head = 0 /\ e.low = 0
      BY <3>2, <3>3 DEF CallRec
    <3>6. SnapOK(e)
      BY <1>0, <3>5, SMT DEF SnapOK
    <3> QED BY <2>1, <3>1, <3>3, <3>4, <3>6 DEF Execute
  <2>2. ASSUME BeginTx(o)
        PROVE  \E c \in CallRec : SnapOK(c) /\ call' = [call EXCEPT ![o] = c]
    <3>a. PICK e : e = [call[o] EXCEPT !.pc = "begun", !.head = head, !.low = compacted]
      OBVIOUS
    <3>0. head \in Nat /\ compacted \in Nat /\ call[o] \in CallRec
      BY <1>0, <1>5
    <3>b. e \in CallRec
      BY <3>0, <3>a DEF CallRec
    <3>c. e.pc = "begun" /\ e.id = call[o].id /\ e.head = head /\ e.low = compacted
      BY <1>5, <3>a DEF CallRec
    <3>1. SnapOK(e)
      BY <1>0, <1>5, <2>2, <3>c, SMT DEF BeginTx, SnapOK
    <3>2. Resolving(call[o]) \in CallRec /\ SnapOK(Resolving(call[o]))
      BY <1>4, <1>5, <2>2 DEF BeginTx
    <3> QED BY <1>5, <2>2, <3>1, <3>2, <3>a, <3>b DEF BeginTx
  <2>3. ASSUME NEW after \in Product, Plan(o, after)
        PROVE  \E c \in CallRec : SnapOK(c) /\ call' = [call EXCEPT ![o] = c]
    <3>1. PICK d : d = Diff(StateAtHead(call[o]), after)
      OBVIOUS
    <3>2. d \in Delta
      BY <3>1, StateCorrect, DiffApplies
    <3>3. PICK e : e = [call[o] EXCEPT !.pc = "planned", !.low = 0, !.delta = d]
      OBVIOUS
    <3>4. e \in CallRec
      BY <1>5, <3>2, <3>3 DEF CallRec
    <3>5. e.pc = "planned" /\ e.id = call[o].id /\ e.head = call[o].head /\ e.low = 0
      BY <1>5, <3>3 DEF CallRec
    <3>6. SnapOK(e)
      BY <1>0, <1>5, <2>3, <3>4, <3>5, SMT DEF Plan, SnapOK, CallRec
    <3> QED BY <1>5, <2>3, <3>1, <3>3, <3>4, <3>6 DEF Plan
  <2>4. ASSUME Commit(o) \/ HeadMoved(o) \/ CommitLost(o) \/ Fail(o)
        PROVE  \E c \in CallRec : SnapOK(c) /\ call' = [call EXCEPT ![o] = c]
    <3>1. call[o].pc \in {"begun", "planned"}
      BY <2>4 DEF Commit, HeadMoved, CommitLost, Fail
    <3>2. Trying(call[o]) \in CallRec /\ SnapOK(Trying(call[o]))
          /\ Resolving(call[o]) \in CallRec /\ SnapOK(Resolving(call[o]))
      BY <1>4, <1>5, <3>1
    <3> QED BY <1>5, <2>4, <3>2 DEF Commit, HeadMoved, CommitLost, Fail
  <2>5. ASSUME Resolve(o)
        PROVE  \E c \in CallRec : SnapOK(c) /\ call' = [call EXCEPT ![o] = c]
    <3>1. PICK d : d = NoCall(call[o].at)
      OBVIOUS
    <3>2. d \in CallRec /\ d.head = 0 /\ d.low = 0 /\ SnapOK(d)
      BY <1>5, <3>1 DEF NoCall
    <3>3. PICK w : w = (CHOOSE x \in Receipt(call[o].id) : TRUE).at
      OBVIOUS
    <3>4. ASSUME Receipt(call[o].id) # {} PROVE w \in Nat
      BY <3>3, <3>4 DEF Receipt, Inv, TypeOK
    <3>5. ASSUME w \in Nat
          PROVE  /\ [d EXCEPT !.pc = "reading", !.mode = "exec", !.want = w] \in CallRec
                 /\ SnapOK([d EXCEPT !.pc = "reading", !.mode = "exec", !.want = w])
      BY <1>0, <3>2, <3>5 DEF CallRec, SnapOK
    <3>6. call' = [call EXCEPT ![o] = IF Receipt(call[o].id) = {} THEN d
                     ELSE [d EXCEPT !.pc = "reading", !.mode = "exec", !.want = w]]
      BY <2>5, <3>1, <3>3 DEF Resolve
    <3> QED BY <3>2, <3>4, <3>5, <3>6
  <2> QED BY <1>2, <1>6, <2>1, <2>2, <2>3, <2>4, <2>5 DEF Command
<1>7. ASSUME NEW o \in Calls, Following(o)
      PROVE  call' \in [Calls -> CallRec] /\ \A p \in Calls : SnapOK(call[p])'
  <2> DEFINE Good(c) == c \in CallRec /\ SnapOK(c) /\ call' = [call EXCEPT ![o] = c]
  <2>1. ASSUME Read(o) PROVE \E c : Good(c)
    <3>1. [call[o] EXCEPT !.pc = "reading"] \in CallRec /\ SnapOK([call[o] EXCEPT !.pc = "reading"])
      BY <1>0, <1>5, SMT DEF CallRec, SnapOK
    <3> QED BY <2>1, <3>1 DEF Read
  <2>2. ASSUME BecomeLive(o) PROVE \E c : Good(c)
    <3>1. PICK e : e = [call[o] EXCEPT !.pc = "reading", !.mode = "become"]
      OBVIOUS
    <3>2. e \in CallRec
      BY <1>5, <3>1 DEF CallRec
    <3>3. e.pc = "reading" /\ e.head = call[o].head /\ e.low = call[o].low
      BY <1>5, <3>1 DEF CallRec
    <3>4. SnapOK(e)
      BY <1>5, <3>3 DEF SnapOK
    <3>5. call' = [call EXCEPT ![o] = e]
      BY <1>0, <2>2, <3>1 DEF BecomeLive
    <3> QED BY <3>2, <3>4, <3>5
  <2>3. ASSUME ReadBegin(o) PROVE \E c : Good(c)
    <3>1. PICK e : e = [call[o] EXCEPT !.pc = "snapshot", !.head = head, !.low = compacted]
      OBVIOUS
    <3>0. head \in Nat /\ compacted \in Nat /\ call[o] \in CallRec
      BY <1>0, <1>5
    <3>2. e \in CallRec
      BY <3>0, <3>1 DEF CallRec
    <3>3. e.pc = "snapshot" /\ e.head = head /\ e.low = compacted
      BY <1>5, <3>1 DEF CallRec
    <3>4. SnapOK(e)
      BY <1>0, <3>3, SMT DEF SnapOK
    <3>5. call' = [call EXCEPT ![o] = e]
      BY <1>0, <2>3, <3>1 DEF ReadBegin
    <3> QED BY <3>2, <3>4, <3>5
  <2>4. ASSUME ReadState(o) PROVE \E c : Good(c)
    <3>1. PICK v, f : v = StateAtHead(call[o]) /\ f = ReplayedFrom(call[o])
      OBVIOUS
    <3>2. v = hist[call[o].head] /\ v \in Product
      BY <3>1, StateCorrect
    <3>3. f \in Nat
      BY <1>5, <3>1 DEF ReplayedFrom, CallRec, Inv, TypeOK, StoreRec
    <3>4. PICK e : e = [call[o] EXCEPT !.pc = "ready", !.low = 0, !.value = v, !.from = f]
      OBVIOUS
    <3>0. v \in Product /\ call[o] \in CallRec
      BY <1>5, <3>2
    <3>5. e \in CallRec
      BY <3>0, <3>3, <3>4 DEF CallRec
    <3>6. e.pc = "ready" /\ e.head = call[o].head /\ e.low = 0 /\ e.value = v
      BY <1>5, <3>4 DEF CallRec
    <3>7. SnapOK(e)
      BY <1>0, <1>5, <3>2, <3>5, <3>6, SMT DEF SnapOK, CallRec
    <3>8. call' = [call EXCEPT ![o] = e]
      BY <1>0, <2>4, <3>1, <3>4 DEF ReadState
    <3> QED BY <3>5, <3>7, <3>8
  <2>5. ASSUME ReadFail(o) PROVE \E c : Good(c)
    BY <1>5, <2>5 DEF ReadFail
  <2>6. ASSUME call[o].pc \in {"ready", "hook", "becoming"}
        PROVE  Published(call[o]) \in CallRec /\ SnapOK(Published(call[o]))
    <3>1. [call[o] EXCEPT !.pc = "becoming"] \in CallRec /\ SnapOK([call[o] EXCEPT !.pc = "becoming"])
      BY <1>0, <1>5, <2>6, SMT DEF CallRec, SnapOK
    <3> QED BY <1>5, <3>1 DEF Published
  <2>7. ASSUME PublishStale(o) \/ Hook(o) PROVE \E c : Good(c)
    BY <2>6, <2>7 DEF PublishStale, Hook
  <2>8. ASSUME Publish(o) PROVE \E c : Good(c)
    <3>1. \E f \in Nat : call' = [call EXCEPT ![o] = [call[o] EXCEPT !.pc = "hook", !.from = f]]
      BY <1>0, <1>5, <2>8 DEF Publish, CallRec, Inv, TypeOK, StoreRec
    <3>2. PICK f \in Nat : call' = [call EXCEPT ![o] = [call[o] EXCEPT !.pc = "hook", !.from = f]]
      BY <3>1
    <3>3. PICK e : e = [call[o] EXCEPT !.pc = "hook", !.from = f]
      OBVIOUS
    <3>4. e \in CallRec
      BY <1>5, <3>3 DEF CallRec
    <3>5. /\ e.pc = "hook" /\ e.head = call[o].head /\ e.low = call[o].low
          /\ e.value = call[o].value /\ e.id = call[o].id
      BY <1>5, <3>3 DEF CallRec
    <3>6. SnapOK(e)
      BY <1>5, <2>8, <3>5 DEF Publish, SnapOK
    <3> QED BY <3>2, <3>3, <3>4, <3>6
  <2>9. ASSUME Serve(o) PROVE \E c : Good(c)
    BY <1>5, <2>9 DEF Serve
  <2> QED BY <1>2, <1>7, <2>1, <2>2, <2>3, <2>4, <2>5, <2>7, <2>8, <2>9 DEF Following
<1>8. ASSUME NEW r \in Replicas, Restart(r)
      PROVE  call' \in [Calls -> CallRec] /\ \A p \in Calls : SnapOK(call[p])'
  <2>1. \A p \in Calls : call'[p] = NoCall(r) \/ call'[p] = call[p]
    BY <1>0, <1>8 DEF Restart
  <2>2. ASSUME NEW p \in Calls PROVE call'[p] \in CallRec /\ SnapOK(call[p])'
    <3>1. PICK d : d = call'[p]
      OBVIOUS
    <3>2. d \in CallRec /\ SnapOK(d)
      BY <1>0, <1>3, <2>1, <3>1
    <3> QED BY <1>1, <3>1, <3>2 DEF SnapOK
  <2>3. call' = [p \in Calls |-> call'[p]]
    BY <1>8 DEF Restart
  <2> QED BY <2>2, <2>3
<1>9. CASE UNCHANGED call
  BY <1>0, <1>1, <1>9 DEF SnapOK
<1>10. CASE \/ \E x \in inflight : LandLate(x) \/ Vanish(x)
            \/ \E r \in Replicas : ResignLive(r)
            \/ \E x \in receipts : Expire(x)
            \/ Compact
            \/ UNCHANGED vars
  BY <1>9, <1>10 DEF LandLate, Vanish, ResignLive, Expire, Compact, vars
<1> QED BY <1>6, <1>7, <1>8, <1>10 DEF Next

\* Publishing and restarting are what changes a projection; both keep it a
\* committed content of the tables.
LEMMA StoresStep ==
  ASSUME Inv, [Next]_vars
  PROVE  store' \in [Replicas -> StoreRec] /\ Projected'
<1>0. /\ head \in Nat /\ store \in [Replicas -> StoreRec] /\ call \in [Calls -> CallRec]
      /\ head' \in Nat /\ head <= head' /\ hist'[0] = Blank
      /\ \A i \in 0..head : hist'[i] = hist[i]
  BY LogStep DEF Inv, TypeOK
<1>1. CASE UNCHANGED store
  BY <1>0, <1>1, SMT DEF Inv, Projected, StoreRec
<1>2. ASSUME NEW r \in Replicas, NEW s \in StoreRec, s.index <= head, s.value = hist'[s.index],
             store' = [store EXCEPT ![r] = s]
      PROVE  store' \in [Replicas -> StoreRec] /\ Projected'
  <2>1. \A q \in Replicas : store'[q] = IF q = r THEN s ELSE store[q]
    BY <1>0, <1>2
  <2>2. store' \in [Replicas -> StoreRec]
    BY <1>0, <1>2
  <2>3. ASSUME NEW q \in Replicas PROVE store'[q].index <= head' /\ store'[q].value = hist'[store'[q].index]
    BY <1>0, <1>2, <2>1, SMT DEF Inv, Projected, StoreRec
  <2> QED BY <2>2, <2>3 DEF Projected
<1>3. ASSUME NEW o \in Calls, Publish(o)
      PROVE  store' \in [Replicas -> StoreRec] /\ Projected'
  <2>1. PICK s : s = [index |-> call[o].head, value |-> call[o].value, init |-> "yes"]
    OBVIOUS
  <2>2. call[o] \in CallRec /\ call[o].at \in Replicas /\ SnapOK(call[o]) /\ call[o].pc = "ready"
    BY <1>0, <1>3 DEF CallRec, Publish, Inv
  <2>3. s \in StoreRec /\ s.index = call[o].head /\ s.value = call[o].value
    BY <2>1, <2>2 DEF StoreRec, CallRec
  <2>4. s.index <= head /\ s.value = hist[s.index] /\ s.index \in Nat
    BY <2>2, <2>3 DEF SnapOK, CallRec
  <2>5. store' = [store EXCEPT ![call[o].at] = s]
    BY <1>3, <2>1 DEF Publish
  <2>6. s.value = hist'[s.index]
    BY <1>0, <2>4, SMT
  <2> QED BY <1>2, <2>2, <2>3, <2>4, <2>5, <2>6
<1>4. ASSUME NEW r \in Replicas, Restart(r)
      PROVE  store' \in [Replicas -> StoreRec] /\ Projected'
  <2>1. PICK s : s = Unread
    OBVIOUS
  <2>2. s.index = 0 /\ s.value = Blank
    BY <2>1 DEF Unread, Blank
  <2>3. s \in StoreRec /\ s.index <= head /\ s.value = hist'[s.index]
    BY <1>0, <2>1, <2>2, Typed, SMT
  <2>4. store' = [store EXCEPT ![r] = s]
    BY <1>4, <2>1 DEF Restart
  <2> QED BY <1>2, <2>3, <2>4
<1>5. ASSUME NEW o \in Calls, Command(o) PROVE UNCHANGED store
  BY <1>5 DEF Command, Execute, BeginTx, Plan, Commit, HeadMoved, CommitLost, Fail, Resolve
<1>6. ASSUME NEW o \in Calls, Following(o), ~Publish(o) PROVE UNCHANGED store
  BY <1>6 DEF Following, Read, BecomeLive, ReadBegin, ReadState, ReadFail, PublishStale, Hook, Serve
<1>7. CASE \/ \E x \in inflight : LandLate(x) \/ Vanish(x)
           \/ \E r \in Replicas : ResignLive(r)
           \/ \E x \in receipts : Expire(x)
           \/ Compact
           \/ UNCHANGED vars
  BY <1>1, <1>7 DEF LandLate, Vanish, ResignLive, Expire, Compact, vars
<1> QED BY <1>1, <1>3, <1>4, <1>5, <1>6, <1>7 DEF Next

\* An update leaves the live view at a committed content, and the batches it
\* replays, or the reset, give its listener that content.
LEMMA AppliedOK ==
  ASSUME Inv, NEW l \in LiveRec, LiveOK(l), NEW from \in Nat, NEW to \in 0..head, NEW value,
         value = hist[to]
  PROVE  Applied(l, from, to, value) \in LiveRec /\ LiveOK(Applied(l, from, to, value))
<1>0. head \in Nat /\ hist[to] \in Product /\ l.index \in 0..head
  BY SMT DEF Inv, TypeOK, LiveOK, LiveRec
<1>1. PICK t : t = IF Covers(l, from, to) THEN Replay(l.told, Between(from, to)) ELSE value
  OBVIOUS
<1>2. t = hist[to]
  <2>1. CASE Covers(l, from, to)
    <3>1. from = l.index /\ from <= to /\ from \in 0..head /\ l.told = hist[from]
      BY <1>0, <2>1, SMT DEF Covers, LiveOK
    <3> QED BY <1>1, <2>1, <3>1, ReplayCorrect DEF Inv
  <2> QED BY <1>1, <2>1
<1>3. PICK e : e = [l EXCEPT !.index = to, !.value = value, !.known = "yes", !.told = t]
  OBVIOUS
<1>a. t \in Product /\ value \in Product /\ to \in Nat
  BY <1>0, <1>2, SMT
<1>4. e \in LiveRec
  BY <1>a, <1>3 DEF LiveRec
<1>5. e.index = to /\ e.value = value /\ e.told = t
  BY <1>3 DEF LiveRec
<1>6. LiveOK(e)
  BY <1>0, <1>2, <1>5, SMT DEF LiveOK
<1>7. Applied(l, from, to, value) = l \/ Applied(l, from, to, value) = e
  BY <1>1, <1>3 DEF Applied
<1> QED BY <1>4, <1>6, <1>7

\* What the live view shows is a committed content, and its batches add up to it.
LEMMA LivesStep ==
  ASSUME Inv, [Next]_vars
  PROVE  live' \in [Replicas -> LiveRec] /\ \A r \in Replicas : LiveOK(live[r])'
<1>0. /\ head \in Nat /\ live \in [Replicas -> LiveRec] /\ call \in [Calls -> CallRec]
      /\ head' \in Nat /\ head <= head' /\ hist[0] = Blank
      /\ \A i \in 0..head : hist'[i] = hist[i]
      /\ \A r \in Replicas : LiveOK(live[r])
  BY LogStep DEF Inv, TypeOK
<1>1. ASSUME NEW l \in LiveRec, LiveOK(l) PROVE LiveOK(l)'
  BY <1>0, <1>1, SMT DEF LiveOK, LiveRec
<1>2. ASSUME NEW r \in Replicas, NEW l \in LiveRec, LiveOK(l), live' = [live EXCEPT ![r] = l]
      PROVE  live' \in [Replicas -> LiveRec] /\ \A q \in Replicas : LiveOK(live[q])'
  <2>1. live' \in [Replicas -> LiveRec]
    BY <1>0, <1>2
  <2>2. ASSUME NEW q \in Replicas PROVE LiveOK(live[q])'
    <3>1. PICK k : k = live'[q]
      OBVIOUS
    <3>2. k \in LiveRec /\ LiveOK(k)
      BY <1>0, <1>2, <3>1
    <3> QED BY <1>1, <3>1, <3>2 DEF LiveOK
  <2> QED BY <2>1, <2>2
<1>3. Resting \in LiveRec /\ LiveOK(Resting)
  BY <1>0, Typed, SMT DEF Resting, LiveOK, Blank
<1>4. CASE UNCHANGED live
  BY <1>0, <1>1, <1>4 DEF LiveOK
<1>5. ASSUME NEW o \in Calls, call[o].pc \in {"hook", "becoming"}
      PROVE  /\ call[o].at \in Replicas /\ call[o].from \in Nat /\ call[o].head \in 0..head
             /\ call[o].value = hist[call[o].head]
  BY <1>0, <1>5, SMT DEF Inv, SnapOK, CallRec
<1>6. ASSUME NEW o \in Calls, Hook(o)
      PROVE  live' \in [Replicas -> LiveRec] /\ \A q \in Replicas : LiveOK(live[q])'
  <2>1. PICK l : l = Applied(live[call[o].at], call[o].from, call[o].head, call[o].value)
    OBVIOUS
  <2>2. l \in LiveRec /\ LiveOK(l)
    BY <1>0, <1>5, <1>6, <2>1, AppliedOK DEF Hook
  <2>3. live' = [live EXCEPT ![call[o].at] = l]
    BY <1>0, <1>6, <2>1 DEF Hook
  <2> QED BY <1>2, <1>5, <1>6, <2>2, <2>3 DEF Hook
<1>7. ASSUME NEW o \in Calls, Serve(o)
      PROVE  live' \in [Replicas -> LiveRec] /\ \A q \in Replicas : LiveOK(live[q])'
  <2>1. PICK l : l = Applied(live[call[o].at], call[o].head, call[o].head, call[o].value)
    OBVIOUS
  <2>2. l \in LiveRec /\ LiveOK(l)
    BY <1>0, <1>5, <1>7, <2>1, AppliedOK, SMT DEF Serve
  <2>3. PICK e : e = [l EXCEPT !.serving = "yes"]
    OBVIOUS
  <2>4. e \in LiveRec
    BY <2>2, <2>3 DEF LiveRec
  <2>5. e.index = l.index /\ e.value = l.value /\ e.told = l.told
    BY <2>2, <2>3 DEF LiveRec
  <2>6. LiveOK(e)
    BY <2>2, <2>5 DEF LiveOK
  <2>7. live' = [live EXCEPT ![call[o].at] = e]
    BY <1>0, <1>7, <2>1, <2>3 DEF Serve
  <2> QED BY <1>2, <1>5, <1>7, <2>4, <2>6, <2>7 DEF Serve
<1>8. ASSUME NEW o \in Calls, Command(o) PROVE UNCHANGED live
  BY <1>8 DEF Command, Execute, BeginTx, Plan, Commit, HeadMoved, CommitLost, Fail, Resolve
<1>9. ASSUME NEW o \in Calls, Following(o), ~Hook(o), ~Serve(o)
      PROVE  UNCHANGED live \/ live' = [live EXCEPT ![call[o].at] = Resting]
  BY <1>9 DEF Following, Read, BecomeLive, ReadBegin, ReadState, ReadFail, PublishStale, Publish
<1>10. ASSUME NEW o \in Calls PROVE call[o].at \in Replicas
  BY <1>0 DEF CallRec
<1>11. ASSUME NEW r \in Replicas, ResignLive(r) \/ Restart(r)
       PROVE  live' = [live EXCEPT ![r] = Resting]
  BY <1>11 DEF ResignLive, Restart
<1>12. CASE \/ \E x \in inflight : LandLate(x) \/ Vanish(x)
            \/ \E x \in receipts : Expire(x)
            \/ Compact
            \/ UNCHANGED vars
  BY <1>4, <1>12 DEF LandLate, Vanish, Expire, Compact, vars
<1> QED BY <1>2, <1>3, <1>4, <1>6, <1>7, <1>8, <1>9, <1>10, <1>11, <1>12 DEF Next

\* The rest of the typing.
LEMMA SmallStep ==
  ASSUME Inv, [Next]_vars
  PROVE  /\ compacted' \in Nat /\ compacted' <= head'
         /\ receipts' \subseteq [id : Ids, at : Nat, kind : {"entry", "noop"}, life : {"live", "expired"}]
         /\ expunged' \subseteq Nat /\ used' \subseteq FreshIds
         /\ inflight' \subseteq [id : Ids, base : Nat, delta : Delta]
<1> DEFINE Rec == [id : Ids, at : Nat, kind : {"entry", "noop"}, life : {"live", "expired"}]
           Lost == [id : Ids, base : Nat, delta : Delta]
<1>0. /\ head \in Nat /\ compacted \in Nat /\ compacted <= head /\ receipts \subseteq Rec
      /\ expunged \subseteq Nat /\ used \subseteq FreshIds /\ inflight \subseteq Lost
      /\ call \in [Calls -> CallRec] /\ head' \in Nat /\ head <= head'
  BY LogStep DEF Inv, TypeOK
<1>1. CompactTo \in Nat /\ CompactTo <= head
  BY <1>0, CountAssumption, SMT DEF CompactTo
<1>2. compacted' \in Nat /\ compacted' <= head'
  <2>1. compacted' = compacted \/ compacted' = CompactTo
    <3>1. ASSUME NEW o \in Calls, Command(o) PROVE compacted' = compacted
      BY <3>1 DEF Command, Execute, BeginTx, Plan, Commit, HeadMoved, CommitLost, Fail, Resolve
    <3>2. ASSUME NEW o \in Calls, Following(o) PROVE compacted' = compacted
      BY <3>2 DEF Following, Read, BecomeLive, ReadBegin, ReadState, ReadFail, PublishStale,
                  Publish, Hook, Serve
    <3> QED BY <3>1, <3>2 DEF Next, vars, LandLate, Vanish, ResignLive, Restart, Expire, Compact
  <2> QED BY <1>0, <1>1, <2>1, SMT
<1>3. ASSUME NEW id \in Ids, NEW base \in Nat, NEW delta, Land(id, base, delta)
      PROVE  receipts' \subseteq Rec
  BY <1>0, <1>3, SMT DEF Land
<1>4. ASSUME NEW o \in Calls, call[o].pc \in {"planned"}
      PROVE  call[o].id \in Ids /\ call[o].head \in Nat /\ call[o].delta \in Delta
  BY <1>0, <1>4 DEF CallRec, Inv, SnapOK
<1>5. receipts' \subseteq Rec
  <2>1. ASSUME NEW o \in Calls, Commit(o) PROVE receipts' \subseteq Rec
    BY <1>3, <1>4, <2>1 DEF Commit
  <2>2. ASSUME NEW x \in inflight, LandLate(x) PROVE receipts' \subseteq Rec
    BY <1>0, <1>3, <2>2 DEF LandLate
  <2>3. ASSUME NEW x \in receipts, Expire(x) PROVE receipts' \subseteq Rec
    <3>1. [x EXCEPT !.life = "expired"] \in Rec
      BY <1>0
    <3> QED BY <1>0, <2>3, <3>1 DEF Expire
  <2>4. ASSUME Compact PROVE receipts' \subseteq Rec
    BY <1>0, <2>4 DEF Compact
  <2>5. CASE UNCHANGED receipts
    BY <1>0, <2>5
  <2>6. ASSUME NEW o \in Calls, Command(o), ~Commit(o) PROVE UNCHANGED receipts
    BY <2>6 DEF Command, Execute, BeginTx, Plan, HeadMoved, CommitLost, Fail, Resolve
  <2>7. ASSUME NEW o \in Calls, Following(o) PROVE UNCHANGED receipts
    BY <2>7 DEF Following, Read, BecomeLive, ReadBegin, ReadState, ReadFail, PublishStale,
                Publish, Hook, Serve
  <2>8. CASE \/ \E x \in inflight : Vanish(x)
             \/ \E r \in Replicas : ResignLive(r) \/ Restart(r)
             \/ UNCHANGED vars
    BY <2>5, <2>8 DEF Vanish, ResignLive, Restart, vars
  <2> QED BY <2>1, <2>2, <2>3, <2>4, <2>5, <2>6, <2>7, <2>8 DEF Next
<1>6. expunged' \subseteq Nat
  <2>1. expunged' = expunged \/ Compact
    <3>1. ASSUME NEW o \in Calls, Command(o) PROVE expunged' = expunged
      BY <3>1 DEF Command, Execute, BeginTx, Plan, Commit, HeadMoved, CommitLost, Fail, Resolve
    <3>2. ASSUME NEW o \in Calls, Following(o) PROVE expunged' = expunged
      BY <3>2 DEF Following, Read, BecomeLive, ReadBegin, ReadState, ReadFail, PublishStale,
                  Publish, Hook, Serve
    <3> QED BY <3>1, <3>2 DEF Next, vars, LandLate, Vanish, ResignLive, Restart, Expire
  <2>2. \A x \in receipts : x.at \in Nat
    BY <1>0
  <2>3. ASSUME Compact PROVE \A n \in expunged' : n \in expunged \/ \E x \in receipts : n = x.at
    BY <2>3 DEF Compact
  <2> QED BY <1>0, <2>1, <2>2, <2>3
<1>7. used' \subseteq FreshIds
  <2>1. used' = used \/ \E id \in Ids : used' = used \cup ({id} \cap FreshIds)
    <3>1. ASSUME NEW o \in Calls, Command(o) PROVE used' = used \/ \E id \in Ids : used' = used \cup ({id} \cap FreshIds)
      BY <3>1 DEF Command, Execute, BeginTx, Plan, Commit, HeadMoved, CommitLost, Fail, Resolve
    <3>2. ASSUME NEW o \in Calls, Following(o) PROVE used' = used \/ \E id \in Ids : used' = used \cup ({id} \cap FreshIds)
      BY <3>2 DEF Following, Read, BecomeLive, ReadBegin, ReadState, ReadFail, PublishStale,
                  Publish, Hook, Serve
    <3> QED BY <3>1, <3>2 DEF Next, vars, LandLate, Vanish, ResignLive, Restart, Expire, Compact
  <2> QED BY <1>0, <2>1
<1>8. inflight' \subseteq Lost
  <2>1. ASSUME NEW o \in Calls, CommitLost(o) PROVE inflight' \subseteq Lost
    BY <1>0, <1>4, <2>1, SMT DEF CommitLost
  <2>2. inflight' \subseteq inflight \/ \E o \in Calls : CommitLost(o)
    <3>1. ASSUME NEW o \in Calls, Command(o) PROVE inflight' \subseteq inflight \/ CommitLost(o)
      BY <3>1 DEF Command, Execute, BeginTx, Plan, Commit, HeadMoved, Fail, Resolve
    <3>2. ASSUME NEW o \in Calls, Following(o) PROVE inflight' \subseteq inflight \/ CommitLost(o)
      BY <3>2 DEF Following, Read, BecomeLive, ReadBegin, ReadState, ReadFail, PublishStale,
                  Publish, Hook, Serve
    <3> QED BY <3>1, <3>2 DEF Next, vars, LandLate, Vanish, ResignLive, Restart, Expire, Compact
  <2> QED BY <1>0, <2>1, <2>2
<1> QED BY <1>2, <1>5, <1>6, <1>7, <1>8

\* A new cluster satisfies the invariant.
LEMMA InvInit == Init => Inv
<1> SUFFICES ASSUME Init PROVE Inv
  OBVIOUS
<1>0. head = 0 /\ hist = [i \in {0} |-> Blank] /\ hist[0] = Blank /\ 0..0 = {0}
  BY SMT DEF Init, Blank
<1>1. TypeOK
  <2>1. hist \in [0..head -> Product]
    BY <1>0, Typed
  <2>2. call \in [Calls -> CallRec]
    BY Typed DEF Init
  <2>3. store \in [Replicas -> StoreRec] /\ live \in [Replicas -> LiveRec]
    BY Typed DEF Init
  <2> QED BY <2>1, <2>2, <2>3, SMT DEF Init, TypeOK
<1>2. Traced /\ Contiguous
  BY <1>0, SMT DEF Init, Traced, Contiguous, Steady, Between
<1>3. Projected
  BY <1>0, SMT DEF Init, Projected, Unread, Blank
<1>4. \A o \in Calls : SnapOK(call[o])
  <2> SUFFICES ASSUME NEW o \in Calls PROVE SnapOK(call[o])
    OBVIOUS
  <2>1. PICK r \in Replicas : call[o] = NoCall(r)
    BY DEF Init
  <2>2. call[o].head = 0 /\ call[o].low = 0 /\ call[o].pc = "idle"
    BY <2>1, SMT DEF NoCall
  <2> QED BY <1>0, <2>2, SMT DEF SnapOK
<1>5. \A r \in Replicas : LiveOK(live[r])
  BY <1>0, SMT DEF Init, LiveOK, Resting, Blank
<1> QED BY <1>0, <1>1, <1>2, <1>3, <1>4, <1>5 DEF Inv

\* Every step of every call, commit and compaction keeps it.
LEMMA InvStep == Inv /\ [Next]_vars => Inv'
<1> SUFFICES ASSUME Inv, [Next]_vars PROVE Inv'
  OBVIOUS
<1>1. TypeOK'
  BY LogStep, CallsStep, StoresStep, LivesStep, SmallStep DEF TypeOK
<1> QED BY <1>1, LogStep, CallsStep, StoresStep, LivesStep DEF Inv, Blank

\* The inductive invariant: log, tables, snapshots, projections and views agree.
THEOREM Invariant == Spec => []Inv
  BY InvInit, InvStep, PTL DEF Spec

-----------------------------------------------------------------------------
\* The variables of the journal are well typed and nothing is beyond its head.
THEOREM TypeCorrect == Spec => []TypeOK
<1>1. Inv => TypeOK
  BY DEF Inv
<1> QED BY <1>1, Invariant, PTL

\* Every projection a store publishes (publish, stateAtHead) is the content of the
\* product tables at its index, however compaction, replay, late commits and
\* restarts interleave.
THEOREM ProjectionCorrect == Spec => []Projected
<1>1. Inv => Projected
  BY DEF Inv
<1> QED BY <1>1, Invariant, PTL

\* A listener that follows the batches of applyProductLocked, and takes the whole
\* projection only when it is told to reset, loses no change.
THEOREM BatchesAreComplete == Spec => []BatchesComplete
<1>1. Inv => BatchesComplete
  BY DEF Inv, LiveOK, BatchesComplete
<1> QED BY <1>1, Invariant, PTL

\* replay never finds a gap in the log: compaction may cut rows while a
\* transaction reads, but never those its snapshot needs.
THEOREM ReplayFindsNoGap == Spec => []NoGap
<1>1. Inv => NoGap
  <2> SUFFICES ASSUME Inv, NEW o \in Calls, ~Rebuilds(call[o]),
                      NEW i \in (store[call[o].at].index + 1)..call[o].head
               PROVE  \E e \in Tail(call[o]) : e.at = i
    BY DEF NoGap
  <2>1. /\ call[o] \in CallRec /\ call[o].at \in Replicas /\ store[call[o].at] \in StoreRec
        /\ SnapOK(call[o]) /\ head \in Nat
    BY DEF Inv, TypeOK, CallRec
  <2>2. call[o].head \in Nat /\ call[o].low \in Nat /\ store[call[o].at].index \in Nat
        /\ call[o].head <= head /\ call[o].low <= store[call[o].at].index
    BY <2>1, SMT DEF CallRec, StoreRec, SnapOK, Rebuilds
  <2>3. i \in 1..head /\ call[o].low < i /\ store[call[o].at].index < i /\ i <= call[o].head
    BY <2>1, <2>2, SMT
  <2>4. PICK e \in journal : e.at = i
    BY <2>3 DEF Inv, Contiguous
  <2> QED BY <2>3, <2>4 DEF Tail, Between
<1> QED BY <1>1, Invariant, PTL

-----------------------------------------------------------------------------
\* An entry has its receipt until the receipt expires and compaction deletes it.
Receipted == \A e \in journal : \/ e.at \in expunged
                                \/ \E x \in receipts : x.id = e.id /\ x.at = e.at /\ x.kind = "entry"

\* A command appends an entry only when no receipt of its id is there.
LEMMA OnceStep ==
  ASSUME Inv, Receipted, AtMostOnce, [Next]_vars
  PROVE  Receipted' /\ AtMostOnce'
<1>0. head \in Nat /\ journal \subseteq Entry /\ (\A e \in journal : e.at <= head)
  BY DEF Inv, TypeOK
<1>1. ASSUME NEW id, NEW base, NEW delta, Land(id, base, delta), UNCHANGED expunged
      PROVE  Receipted' /\ AtMostOnce'
  <2>1. CASE delta = Empty
    <3>1. journal' = journal /\ receipts \subseteq receipts'
      BY <1>1, <2>1 DEF Land
    <3> QED BY <1>1, <3>1 DEF Receipted, AtMostOnce
  <2>2. CASE delta # Empty
    <3>1. PICK n, x : /\ n = [at |-> head + 1, id |-> id, delta |-> delta]
                      /\ x = [id |-> id, at |-> head + 1, kind |-> "entry", life |-> "live"]
      OBVIOUS
    <3>2. /\ journal' = journal \cup {n} /\ receipts' = receipts \cup {x}
          /\ n.at = head + 1 /\ n.id = id /\ x.at = head + 1 /\ x.id = id /\ x.kind = "entry"
      BY <1>1, <2>2, <3>1 DEF Land
    <3>3. \A y \in receipts : y.id # id
      BY <1>1 DEF Land, Landable, Receipt
    <3>4. \A e \in journal : e.id = id => e.at \in expunged
      BY <3>3 DEF Receipted
    <3>5. Receipted'
      BY <1>1, <3>2 DEF Receipted
    <3>6. \A e \in journal : ~(n.at < e.at)
      BY <1>0, <3>2, SMT DEF Entry
    <3>7. AtMostOnce'
      BY <1>0, <1>1, <3>2, <3>4, <3>6, SMT DEF AtMostOnce, Entry
    <3> QED BY <3>5, <3>7
  <2> QED BY <2>1, <2>2
<1>2. ASSUME NEW o \in Calls, Commit(o) PROVE Receipted' /\ AtMostOnce'
  BY <1>1, <1>2 DEF Commit
<1>3. ASSUME NEW x \in inflight, LandLate(x) PROVE Receipted' /\ AtMostOnce'
  BY <1>1, <1>3 DEF LandLate
<1>4. ASSUME NEW y \in receipts, Expire(y) PROVE Receipted' /\ AtMostOnce'
  <2>1. PICK z : z = [y EXCEPT !.life = "expired"]
    OBVIOUS
  <2>2. z.id = y.id /\ z.at = y.at /\ z.kind = y.kind
    BY <2>1 DEF Inv, TypeOK
  <2>3. receipts' = (receipts \ {y}) \cup {z} /\ journal' = journal /\ expunged' = expunged
    BY <1>4, <2>1 DEF Expire
  <2> QED BY <2>2, <2>3 DEF Receipted, AtMostOnce
<1>5. ASSUME Compact PROVE Receipted' /\ AtMostOnce'
  <2>1. /\ journal' = journal /\ expunged \subseteq expunged'
        /\ \A x \in receipts : x \in receipts' \/ (x.kind = "entry" => x.at \in expunged')
    BY <1>5 DEF Compact, Dropped
  <2>2. Receipted'
    BY <2>1 DEF Receipted
  <2>3. AtMostOnce'
    BY <2>1 DEF AtMostOnce
  <2> QED BY <2>2, <2>3
<1>6. CASE UNCHANGED <<journal, receipts, expunged>>
  BY <1>6 DEF Receipted, AtMostOnce
<1>7. ASSUME NEW o \in Calls, Command(o), ~Commit(o) PROVE UNCHANGED <<journal, receipts, expunged>>
  BY <1>7 DEF Command, Execute, BeginTx, Plan, HeadMoved, CommitLost, Fail, Resolve
<1>8. ASSUME NEW o \in Calls, Following(o) PROVE UNCHANGED <<journal, receipts, expunged>>
  BY <1>8 DEF Following, Read, BecomeLive, ReadBegin, ReadState, ReadFail, PublishStale,
              Publish, Hook, Serve
<1>9. CASE \/ \E x \in inflight : Vanish(x)
           \/ \E r \in Replicas : ResignLive(r) \/ Restart(r)
           \/ UNCHANGED vars
  BY <1>6, <1>9 DEF Vanish, ResignLive, Restart, vars
<1> QED BY <1>2, <1>3, <1>4, <1>5, <1>6, <1>7, <1>8, <1>9 DEF Next

\* A command id appends one entry, whatever is retried, lands late or is answered
\* twice, until its receipt has expired and was deleted (execute, Compact).
THEOREM CommandsRunOnce == Spec => []AtMostOnce
<1>1. Init => Receipted /\ AtMostOnce
  BY DEF Init, Receipted, AtMostOnce
<1>2. Inv /\ Receipted /\ AtMostOnce /\ [Next]_vars => Receipted' /\ AtMostOnce'
  BY OnceStep
<1> QED BY <1>1, <1>2, Invariant, PTL DEF Spec
-----------------------------------------------------------------------------
\* A call of BecomeLive that has taken its snapshot.
Rejoins(c) == c.mode = "become" /\ c.pc \in {"snapshot", "ready", "becoming"}

\* What a call may assume of the store and the live view of its replica.
Holds(c, s, l) == /\ c.pc = "hook" => c.head = s.index
                  /\ c.pc = "becoming" => c.mode = "become" /\ c.head <= s.index
                  /\ c.mode = "become" => l.serving = "no"

Reaches(c, s, l) == Rejoins(c) => s.index <= l.index \/ s.index <= c.head

\* The live view of a replica is never ahead of its store; it is behind only while
\* a hook is on its way, or until the call that makes it serve applies its snapshot.
InStep ==
  /\ \A r \in Replicas : /\ live[r].index <= store[r].index
                         /\ store[r].init = "no" => store[r].index = 0
  /\ \A o \in Calls : Holds(call[o], store[call[o].at], live[call[o].at])
  /\ \A o \in Calls : PublishFree(call[o].at) => Reaches(call[o], store[call[o].at], live[call[o].at])
  /\ \A o, p \in Calls : o # p /\ call[o].at = call[p].at =>
       /\ ~(call[o].mode = "become" /\ call[p].mode = "become")
       /\ ~(call[o].pc = "hook" /\ call[p].pc = "hook")

\* The fields of the records that the order of store and view is about.
LEMMA Indexed ==
  ASSUME Inv
  PROVE  /\ \A o \in Calls : call[o].at \in Replicas /\ call[o].head \in Nat
         /\ \A r \in Replicas : store[r].index \in Nat /\ live[r].index \in Nat /\ live[r] \in LiveRec
         /\ \A r \in Replicas : store[r].index <= head
         /\ head \in Nat /\ call \in [Calls -> CallRec]
         /\ store \in [Replicas -> StoreRec] /\ live \in [Replicas -> LiveRec]
  BY DEF Inv, TypeOK, Projected, CallRec, StoreRec, LiveRec

\* An update moves the view to the newer of the two products.
LEMMA AppliedIndex ==
  ASSUME NEW l \in LiveRec, NEW from, NEW to \in Nat, NEW value,
         NEW e, e = Applied(l, from, to, value)
  PROVE  /\ e.index = IF l.index <= to THEN to ELSE l.index
         /\ e.serving = l.serving
<1>0. l.index \in Nat
  BY DEF LiveRec
<1>1. PICK t : t = IF Covers(l, from, to) THEN Replay(l.told, Between(from, to)) ELSE value
  OBVIOUS
<1>2. PICK d : d = [l EXCEPT !.index = to, !.value = value, !.known = "yes", !.told = t]
  OBVIOUS
<1>3. d.index = to /\ d.serving = l.serving
  BY <1>2 DEF LiveRec
<1>4. e = IF l.index >= to /\ l.index # 0 THEN l ELSE d
  BY <1>1, <1>2 DEF Applied
<1> QED BY <1>0, <1>3, <1>4, SMT

\* A step of one call that leaves stores and views alone.
Calm(o, c) ==
  /\ c.at = call[o].at /\ call[o].pc # "hook" /\ c.pc # "hook"
  /\ c.pc = "becoming" => c.mode = "become" /\ c.head <= store[c.at].index
  /\ c.mode = "become" => call[o].mode = "become"
  /\ Rejoins(c) => \/ store[c.at].index <= c.head
                   \/ c.head = call[o].head /\ Rejoins(call[o])

\* It does not disturb the order.
LEMMA CalmStep ==
  ASSUME Inv, InStep, LiveCurrent, NEW o \in Calls, NEW c, Calm(o, c),
         call' = [call EXCEPT ![o] = c], UNCHANGED <<store, live>>
  PROVE  InStep' /\ LiveCurrent'
<1>1. \A p \in Calls : call'[p] = IF p = o THEN c ELSE call[p]
  BY Indexed
<1>2. \A p \in Calls : call'[p].at = call[p].at /\ (call'[p].pc = "hook" <=> call[p].pc = "hook")
  BY <1>1 DEF Calm
<1>3. \A r : PublishFree(r)' <=> PublishFree(r)
  BY <1>2 DEF PublishFree
<1>4. LiveCurrent'
  BY <1>3 DEF LiveCurrent
<1>5. ASSUME NEW p \in Calls
      PROVE  /\ Holds(call[p], store[call[p].at], live[call[p].at])'
             /\ PublishFree(call[p].at)' => Reaches(call[p], store[call[p].at], live[call[p].at])'
  <2>1. CASE p = o
    <3>1. Holds(c, store[c.at], live[c.at])
      BY DEF InStep, Calm, Holds
    <3>2. PublishFree(c.at) => Reaches(c, store[c.at], live[c.at])
      BY DEF InStep, Calm, Reaches
    <3> QED BY <1>1, <1>3, <2>1, <3>1, <3>2 DEF Holds, Reaches, Rejoins
  <2>2. CASE p # o
    BY <1>1, <1>3, <2>2, SMT DEF InStep, Holds, Reaches, Rejoins
  <2> QED BY <2>1, <2>2
<1>6. ASSUME NEW p \in Calls, NEW q \in Calls, p # q, call'[p].at = call'[q].at
      PROVE  /\ ~(call'[p].mode = "become" /\ call'[q].mode = "become")
             /\ ~(call'[p].pc = "hook" /\ call'[q].pc = "hook")
  <2>1. \A s \in Calls : call'[s].mode = "become" => call[s].mode = "become"
    BY <1>1 DEF Calm
  <2> QED BY <1>2, <1>6, <2>1 DEF InStep
<1> QED BY <1>4, <1>5, <1>6 DEF InStep

\* A view that is emptied does not serve; nobody is making it serve.
LEMMA ResetStep ==
  ASSUME Inv, InStep, LiveCurrent, NEW r \in Replicas, live' = [live EXCEPT ![r] = Resting],
         \A p \in Calls : call'[p].at = call[p].at,
         UNCHANGED store,
         \A p \in Calls : call'[p].at = r => ~Rejoins(call'[p]),
         \A p \in Calls : call'[p].mode = "become" => call[p].mode = "become" \/ call[p].at = r,
         \A p \in Calls : call'[p] = call[p] \/ call'[p].pc \notin {"hook", "becoming"},
         \A p \in Calls : call'[p].at # r => call'[p] = call[p],
         \A p \in Calls : call[p].pc = "hook" => call'[p].pc = "hook",
         \A p, q \in Calls : p # q /\ call'[p].at = r /\ call'[q].at = r =>
           ~(call'[p].mode = "become" /\ call'[q].mode = "become")
  PROVE  InStep' /\ LiveCurrent'
<1>0. Resting.index = 0 /\ Resting.serving = "no"
  BY DEF Resting
<1>1. \A q \in Replicas : live'[q] = IF q = r THEN Resting ELSE live[q]
  BY Indexed
<1>2. \A q : PublishFree(q)' => PublishFree(q)
  BY DEF PublishFree
<1>3. LiveCurrent'
  BY <1>0, <1>1, <1>2, SMT DEF LiveCurrent
<1>4. \A q \in Replicas : /\ live'[q].index <= store'[q].index
                          /\ store'[q].init = "no" => store'[q].index = 0
  BY <1>0, <1>1, Indexed, SMT DEF InStep
<1>5. ASSUME NEW p \in Calls PROVE Holds(call[p], store[call[p].at], live[call[p].at])'
  <2>1. call[p].at \in Replicas /\ call'[p].at = call[p].at
    BY Indexed
  <2>2. CASE call[p].at = r
    BY <1>0, <1>1, <2>1, <2>2, SMT DEF InStep, Holds
  <2>3. CASE call[p].at # r
    BY <1>1, <2>1, <2>3, SMT DEF InStep, Holds
  <2> QED BY <2>2, <2>3
<1>6. ASSUME NEW p \in Calls, PublishFree(call[p].at)'
      PROVE  Reaches(call[p], store[call[p].at], live[call[p].at])'
  <2>1. call[p].at \in Replicas /\ call'[p].at = call[p].at
    BY Indexed
  <2>2. CASE call[p].at = r
    BY <2>1, <2>2 DEF Reaches, Rejoins
  <2>3. CASE call[p].at # r
    BY <1>1, <1>2, <1>6, <2>1, <2>3 DEF InStep, Reaches, Rejoins
  <2> QED BY <2>2, <2>3
<1>7. ASSUME NEW p \in Calls, NEW q \in Calls, p # q, call'[p].at = call'[q].at
      PROVE  /\ ~(call'[p].mode = "become" /\ call'[q].mode = "become")
             /\ ~(call'[p].pc = "hook" /\ call'[q].pc = "hook")
  BY <1>7, SMT DEF InStep
<1> QED BY <1>3, <1>4, <1>5, <1>6, <1>7 DEF InStep

\* publish moves the store ahead of the view and holds publishMu.
LEMMA PublishStep ==
  ASSUME Inv, InStep, LiveCurrent, NEW o \in Calls, Publish(o)
  PROVE  InStep' /\ LiveCurrent'
<1>a. PICK r : r = call[o].at
  OBVIOUS
<1>0. r = call[o].at /\ r \in Replicas /\ call[o].head \in Nat /\ store[r].index \in Nat /\ live[r].index \in Nat
  BY <1>a, Indexed
<1>1. PICK f : call' = [call EXCEPT ![o] = [call[o] EXCEPT !.pc = "hook", !.from = f]]
  BY Indexed DEF Publish
<1>2. PICK e : e = [call[o] EXCEPT !.pc = "hook", !.from = f]
  OBVIOUS
<1>3. e.pc = "hook" /\ e.at = r /\ e.head = call[o].head /\ e.mode = call[o].mode
  BY <1>0, <1>2, Indexed DEF CallRec
<1>4. \A p \in Calls : call'[p] = IF p = o THEN e ELSE call[p]
  BY <1>1, <1>2, Indexed
<1>5. PICK s : s = [index |-> call[o].head, value |-> call[o].value, init |-> "yes"]
  OBVIOUS
<1>6. s.index = call[o].head /\ s.init = "yes"
  BY <1>5
<1>7. \A q \in Replicas : store'[q] = IF q = r THEN s ELSE store[q]
  BY <1>0, <1>5, Indexed DEF Publish
<1>8. live' = live /\ call[o].pc = "ready" /\ PublishFree(r) /\ store[r].index <= call[o].head
  <2>1. store[r].init \in {"no", "yes"}
    BY <1>0, Indexed DEF StoreRec
  <2> QED BY <1>0, <2>1, SMT DEF Publish, Stale, InStep
<1>9. \A q \in Replicas : q # r => (PublishFree(q)' <=> PublishFree(q))
  BY <1>0, <1>3, <1>4 DEF PublishFree
<1>10. ~PublishFree(r)'
  BY <1>0, <1>3, <1>4 DEF PublishFree
<1>11. LiveCurrent'
  BY <1>7, <1>8, <1>9, <1>10 DEF LiveCurrent
<1>12. \A q \in Replicas : /\ live'[q].index <= store'[q].index
                           /\ store'[q].init = "no" => store'[q].index = 0
  BY <1>0, <1>6, <1>7, <1>8, SMT DEF InStep
<1>13. ASSUME NEW p \in Calls PROVE Holds(call[p], store[call[p].at], live[call[p].at])'
  <2>1. call[p].at \in Replicas /\ call'[p].at = call[p].at /\ call[p].head \in Nat
    BY <1>0, <1>3, <1>4, Indexed
  <2>2. CASE p = o
    BY <1>3, <1>4, <1>6, <1>7, <1>8, <2>1, <2>2, <1>0 DEF InStep, Holds
  <2>3. CASE p # o /\ call[p].at = r
    <3>1. call[p].pc # "hook"
      BY <1>8, <2>3 DEF PublishFree
    <3> QED BY <1>0, <1>4, <1>6, <1>7, <1>8, <2>1, <2>3, <3>1, SMT DEF InStep, Holds
  <2>4. CASE call[p].at # r
    BY <1>3, <1>4, <1>7, <1>8, <2>1, <2>4, <1>0, SMT DEF InStep, Holds
  <2> QED BY <2>2, <2>3, <2>4
<1>14. ASSUME NEW p \in Calls, PublishFree(call[p].at)'
       PROVE  Reaches(call[p], store[call[p].at], live[call[p].at])'
  <2>1. call[p].at \in Replicas /\ call'[p].at = call[p].at
    BY <1>0, <1>3, <1>4, Indexed
  <2>2. call[p].at # r
    BY <1>10, <1>14, <2>1
  <2>3. call'[p] = call[p] /\ PublishFree(call[p].at)
    BY <1>4, <1>9, <1>14, <2>1, <2>2, <1>0
  <2> QED BY <1>7, <1>8, <2>1, <2>2, <2>3 DEF InStep, Reaches, Rejoins
<1>15. ASSUME NEW p \in Calls, NEW q \in Calls, p # q, call'[p].at = call'[q].at
       PROVE  /\ ~(call'[p].mode = "become" /\ call'[q].mode = "become")
              /\ ~(call'[p].pc = "hook" /\ call'[q].pc = "hook")
  BY <1>3, <1>4, <1>8, <1>15, <1>0 DEF InStep, PublishFree
<1> QED BY <1>11, <1>12, <1>13, <1>14, <1>15 DEF InStep

\* Where a call is when publish has returned.
LEMMA PublishedCall ==
  ASSUME NEW c \in CallRec, NEW e, e = Published(c)
  PROVE  /\ e.at = c.at /\ e.pc \in {"idle", "becoming"}
         /\ e.mode = "become" => e.pc = "becoming"
         /\ e.pc = "becoming" => e.head = c.head /\ e.mode = "become" /\ c.mode = "become"
  BY DEF Published, CallRec, NoCall

\* The hook of the publish that holds publishMu brings the view to the store.
LEMMA HookStep ==
  ASSUME Inv, InStep, LiveCurrent, NEW o \in Calls, Hook(o)
  PROVE  /\ InStep' /\ LiveCurrent'
         /\ live'[call[o].at].index = store'[call[o].at].index
<1>a. PICK r : r = call[o].at
  OBVIOUS
<1>0. /\ r = call[o].at /\ r \in Replicas /\ call[o].head \in Nat /\ store[r].index \in Nat
      /\ live[r] \in LiveRec /\ live[r].index \in Nat
  BY <1>a, Indexed
<1>1. PICK e : e = Published(call[o])
  OBVIOUS
<1>2. /\ e.at = r /\ e.pc # "hook" /\ (e.mode = "become" => e.pc = "becoming")
      /\ e.pc = "becoming" => e.head = call[o].head /\ e.mode = "become" /\ call[o].mode = "become"
  <2>1. call[o] \in CallRec
    BY Indexed
  <2> QED BY <1>0, <1>1, <2>1, PublishedCall
<1>3. \A p \in Calls : call'[p] = IF p = o THEN e ELSE call[p]
  BY <1>1, Indexed DEF Hook
<1>4. PICK l : l = Applied(live[r], call[o].from, call[o].head, call[o].value)
  OBVIOUS
<1>5. store' = store /\ call[o].pc = "hook" /\ call[o].head = store[r].index
  BY <1>0 DEF Hook, InStep, Holds
<1>6. l.index = store[r].index /\ l.serving = live[r].serving
  <2>1. live[r].index <= call[o].head
    BY <1>0, <1>5 DEF InStep
  <2> QED BY <1>0, <1>4, <1>5, <2>1, AppliedIndex, SMT
<1>7. \A q \in Replicas : live'[q] = IF q = r THEN l ELSE live[q]
  BY <1>0, <1>4, Indexed DEF Hook
<1>8. \A q \in Replicas : q # r => (PublishFree(q)' <=> PublishFree(q))
  BY <1>0, <1>2, <1>3 DEF PublishFree
<1>9. LiveCurrent'
  BY <1>5, <1>6, <1>7, <1>8 DEF LiveCurrent
<1>10. \A q \in Replicas : /\ live'[q].index <= store'[q].index
                           /\ store'[q].init = "no" => store'[q].index = 0
  BY <1>0, <1>5, <1>6, <1>7, SMT DEF InStep
<1>11. ASSUME NEW p \in Calls
       PROVE  /\ Holds(call[p], store[call[p].at], live[call[p].at])'
              /\ PublishFree(call[p].at)' => Reaches(call[p], store[call[p].at], live[call[p].at])'
  <2>1. call[p].at \in Replicas /\ call'[p].at = call[p].at /\ call[p].head \in Nat
    BY <1>0, <1>2, <1>3, Indexed
  <2>2. CASE p = o
    <3>1. call[o].mode = "become" => live[r].serving = "no"
      BY <1>0 DEF InStep, Holds
    <3>2. Holds(e, store[r], l)
      BY <1>0, <1>2, <1>5, <1>6, <3>1, SMT DEF Holds
    <3>3. Reaches(e, store[r], l)
      BY <1>0, <1>6, SMT DEF Reaches
    <3> QED BY <1>0, <1>2, <1>3, <1>5, <1>7, <2>2, <3>2, <3>3 DEF Holds, Reaches, Rejoins
  <2>3. CASE p # o /\ call[p].at = r
    <3>1. Holds(call[p], store[r], live[r])
      BY <2>3 DEF InStep
    <3>2. Holds(call[p], store[r], l)
      BY <1>6, <3>1 DEF Holds
    <3>3. Reaches(call[p], store[r], l)
      BY <1>0, <1>6, SMT DEF Reaches
    <3> QED BY <1>0, <1>3, <1>5, <1>7, <2>3, <3>2, <3>3 DEF Holds, Reaches, Rejoins
  <2>4. CASE call[p].at # r
    <3>1. call'[p] = call[p] /\ live'[call[p].at] = live[call[p].at]
      BY <1>0, <1>3, <1>7, <2>1, <2>4
    <3> QED BY <1>5, <1>8, <2>1, <2>4, <3>1 DEF InStep, Holds, Reaches, Rejoins
  <2> QED BY <2>2, <2>3, <2>4
<1>12. ASSUME NEW p \in Calls, NEW q \in Calls, p # q, call'[p].at = call'[q].at
       PROVE  /\ ~(call'[p].mode = "become" /\ call'[q].mode = "become")
              /\ ~(call'[p].pc = "hook" /\ call'[q].pc = "hook")
  BY <1>0, <1>2, <1>3, <1>12, SMT DEF InStep
<1>13. InStep'
  BY <1>10, <1>11, <1>12 DEF InStep
<1> QED BY <1>0, <1>5, <1>6, <1>7, <1>9, <1>13

\* The view begins to serve at the newer of its product and the snapshot of the
\* call: nothing the store has published is newer.
LEMMA ServeStep ==
  ASSUME Inv, InStep, LiveCurrent, NEW o \in Calls, Serve(o)
  PROVE  InStep' /\ LiveCurrent'
<1>a. PICK r : r = call[o].at
  OBVIOUS
<1>0. /\ r = call[o].at /\ r \in Replicas /\ call[o].head \in Nat /\ store[r].index \in Nat
      /\ live[r] \in LiveRec /\ live[r].index \in Nat
  BY <1>a, Indexed
<1>1. PICK e : e = NoCall(r)
  OBVIOUS
<1>2. e.at = r /\ e.pc = "idle" /\ e.mode = "read"
  BY <1>1 DEF NoCall
<1>3. \A p \in Calls : call'[p] = IF p = o THEN e ELSE call[p]
  BY <1>0, <1>1, Indexed DEF Serve
<1>4. PICK m : m = Applied(live[r], call[o].head, call[o].head, call[o].value)
  OBVIOUS
<1>5. PICK l : l = [m EXCEPT !.serving = "yes"]
  OBVIOUS
<1>6. /\ store' = store /\ call[o].pc = "becoming" /\ call[o].mode = "become"
      /\ call[o].head <= store[r].index /\ live[r].index <= store[r].index
  BY <1>0 DEF Serve, InStep, Holds
<1>7. m.index = IF live[r].index <= call[o].head THEN call[o].head ELSE live[r].index
  BY <1>0, <1>4, AppliedIndex, SMT
<1>8. l.index = m.index /\ l.serving = "yes"
  <2>1. call[o].from \in Nat /\ call[o].head \in 0..head /\ call[o].value = hist[call[o].head]
        /\ LiveOK(live[r])
    BY <1>0, <1>6, Indexed, SMT DEF Inv, SnapOK, CallRec
  <2>2. m \in LiveRec
    BY <1>0, <1>4, <2>1, AppliedOK
  <2> QED BY <1>5, <2>2 DEF LiveRec
<1>9. \A q \in Replicas : live'[q] = IF q = r THEN l ELSE live[q]
  BY <1>0, <1>4, <1>5, Indexed DEF Serve
<1>10. \A q \in Replicas : PublishFree(q)' <=> PublishFree(q)
  BY <1>0, <1>2, <1>3, <1>6 DEF PublishFree
<1>11. l.index <= store[r].index /\ (PublishFree(r) => l.index = store[r].index)
  <2>1. PublishFree(r) => store[r].index <= live[r].index \/ store[r].index <= call[o].head
    BY <1>0, <1>6 DEF InStep, Reaches, Rejoins
  <2> QED BY <1>0, <1>6, <1>7, <1>8, <2>1, SMT
<1>12. LiveCurrent'
  BY <1>6, <1>9, <1>10, <1>11 DEF LiveCurrent
<1>13. \A q \in Replicas : /\ live'[q].index <= store'[q].index
                           /\ store'[q].init = "no" => store'[q].index = 0
  BY <1>0, <1>6, <1>9, <1>11 DEF InStep
<1>14. ASSUME NEW p \in Calls
       PROVE  /\ Holds(call[p], store[call[p].at], live[call[p].at])'
              /\ PublishFree(call[p].at)' => Reaches(call[p], store[call[p].at], live[call[p].at])'
  <2>1. call[p].at \in Replicas /\ call'[p].at = call[p].at /\ call[p].head \in Nat
    BY <1>0, <1>2, <1>3, Indexed
  <2>2. CASE p = o
    BY <1>0, <1>2, <1>3, <1>6, <2>1, <2>2 DEF Holds, Reaches, Rejoins
  <2>3. CASE p # o /\ call[p].at = r
    <3>1. call[p].mode # "become" /\ Holds(call[p], store[r], live[r])
      BY <1>0, <1>6, <2>3 DEF InStep
    <3> QED BY <1>0, <1>3, <1>6, <2>1, <2>3, <3>1 DEF Holds, Reaches, Rejoins
  <2>4. CASE call[p].at # r
    <3>1. call'[p] = call[p] /\ live'[call[p].at] = live[call[p].at]
      BY <1>0, <1>3, <1>9, <2>1, <2>4
    <3> QED BY <1>6, <1>10, <2>1, <2>4, <3>1 DEF InStep, Holds, Reaches, Rejoins
  <2> QED BY <2>2, <2>3, <2>4
<1>15. ASSUME NEW p \in Calls, NEW q \in Calls, p # q, call'[p].at = call'[q].at
       PROVE  /\ ~(call'[p].mode = "become" /\ call'[q].mode = "become")
              /\ ~(call'[p].pc = "hook" /\ call'[q].pc = "hook")
  BY <1>0, <1>2, <1>3, <1>15 DEF InStep
<1> QED BY <1>12, <1>13, <1>14, <1>15 DEF InStep

\* A step of a command does not touch stores and views.
LEMMA CommandCalm ==
  ASSUME Inv, NEW o \in Calls, Command(o)
  PROVE  UNCHANGED <<store, live>> /\ \E c : Calm(o, c) /\ call' = [call EXCEPT ![o] = c]
<1>0. call[o] \in CallRec
  BY Indexed
<1>1. UNCHANGED <<store, live>>
  BY DEF Command, Execute, BeginTx, Plan, Commit, HeadMoved, CommitLost, Fail, Resolve
<1> DEFINE Leaves(c) == c.at = call[o].at /\ c.pc \notin {"hook", "becoming", "snapshot", "ready"}
                        /\ (c.mode = "become" => call[o].mode = "become")
<1>2. ASSUME NEW c, Leaves(c), call[o].pc # "hook" PROVE Calm(o, c)
  BY <1>2 DEF Calm, Rejoins
<1>3. /\ Leaves(NoCall(call[o].at)) /\ Leaves(Trying(call[o])) /\ Leaves(Resolving(call[o]))
      /\ \A id : Leaves([NoCall(call[o].at) EXCEPT !.pc = "try", !.mode = "exec", !.id = id])
      /\ \A w : Leaves([NoCall(call[o].at) EXCEPT !.pc = "reading", !.mode = "exec", !.want = w])
  BY <1>0 DEF NoCall, Trying, Resolving
<1>4. /\ \A h, b : Leaves([call[o] EXCEPT !.pc = "begun", !.head = h, !.low = b])
      /\ \A b, d : Leaves([call[o] EXCEPT !.pc = "planned", !.low = b, !.delta = d])
  BY <1>0 DEF CallRec
<1>5. \E c : Leaves(c) /\ call' = [call EXCEPT ![o] = c]
  <2> HIDE DEF Leaves
  <2>1. ASSUME NEW id \in Ids, Execute(o, id) PROVE \E c : Leaves(c) /\ call' = [call EXCEPT ![o] = c]
    BY <1>3, <2>1 DEF Execute
  <2>2. ASSUME BeginTx(o) PROVE \E c : Leaves(c) /\ call' = [call EXCEPT ![o] = c]
    BY <1>3, <1>4, <2>2 DEF BeginTx
  <2>3. ASSUME NEW after \in Product, Plan(o, after) PROVE \E c : Leaves(c) /\ call' = [call EXCEPT ![o] = c]
    BY <1>3, <1>4, <2>3 DEF Plan
  <2>4. ASSUME Commit(o) PROVE \E c : Leaves(c) /\ call' = [call EXCEPT ![o] = c]
    BY <1>3, <2>4 DEF Commit
  <2>5. ASSUME HeadMoved(o) \/ CommitLost(o) \/ Fail(o)
        PROVE  \E c : Leaves(c) /\ call' = [call EXCEPT ![o] = c]
    BY <1>3, <2>5 DEF HeadMoved, CommitLost, Fail
  <2>6. ASSUME Resolve(o) PROVE \E c : Leaves(c) /\ call' = [call EXCEPT ![o] = c]
    BY <1>3, <2>6 DEF Resolve
  <2> QED BY <2>1, <2>2, <2>3, <2>4, <2>5, <2>6 DEF Command
<1>6. call[o].pc # "hook"
  BY DEF Command, Execute, BeginTx, Plan, Commit, HeadMoved, CommitLost, Fail, Resolve
<1> QED BY <1>1, <1>2, <1>5, <1>6

\* Reading, and a publish that finds a newer projection, change the call only.
LEMMA ReadCalm ==
  ASSUME Inv, NEW o \in Calls,
         \/ Read(o) \/ ReadBegin(o) \/ ReadState(o) \/ PublishStale(o)
         \/ ReadFail(o) /\ call[o].mode # "become"
  PROVE  UNCHANGED <<store, live>> /\ \E c : Calm(o, c) /\ call' = [call EXCEPT ![o] = c]
<1>0. /\ call[o] \in CallRec /\ call[o].at \in Replicas /\ store[call[o].at].index <= head
      /\ call \in [Calls -> CallRec]
  BY Indexed
<1>1. ASSUME Read(o) PROVE \E c : Calm(o, c) /\ call' = [call EXCEPT ![o] = c]
  <2>1. PICK c : c = [call[o] EXCEPT !.pc = "reading"]
    OBVIOUS
  <2>2. c.at = call[o].at /\ c.pc = "reading" /\ c.mode = call[o].mode
    BY <1>0, <2>1 DEF CallRec
  <2> QED BY <1>1, <2>1, <2>2 DEF Read, Calm, Rejoins
<1>2. ASSUME ReadBegin(o) PROVE \E c : Calm(o, c) /\ call' = [call EXCEPT ![o] = c]
  <2>1. PICK c : c = [call[o] EXCEPT !.pc = "snapshot", !.head = head, !.low = compacted]
    OBVIOUS
  <2>2. c.at = call[o].at /\ c.pc = "snapshot" /\ c.mode = call[o].mode /\ c.head = head
    BY <1>0, <2>1 DEF CallRec
  <2>3. Calm(o, c)
    BY <1>0, <1>2, <2>2 DEF ReadBegin, Calm
  <2>4. call' = [call EXCEPT ![o] = c]
    BY <1>0, <1>2, <2>1 DEF ReadBegin
  <2> QED BY <2>3, <2>4
<1>3. ASSUME ReadState(o) PROVE \E c : Calm(o, c) /\ call' = [call EXCEPT ![o] = c]
  <2>1. PICK c : c = [call[o] EXCEPT !.pc = "ready", !.low = 0, !.value = StateAtHead(call[o]),
                                     !.from = ReplayedFrom(call[o])]
    OBVIOUS
  <2>2. c.at = call[o].at /\ c.pc = "ready" /\ c.mode = call[o].mode /\ c.head = call[o].head
    BY <1>0, <2>1 DEF CallRec
  <2>3. Calm(o, c)
    BY <1>3, <2>2 DEF ReadState, Calm, Rejoins
  <2>4. call' = [call EXCEPT ![o] = c]
    BY <1>0, <1>3, <2>1 DEF ReadState
  <2> QED BY <2>3, <2>4
<1>4. ASSUME PublishStale(o) PROVE \E c : Calm(o, c) /\ call' = [call EXCEPT ![o] = c]
  <2>1. PICK c : c = Published(call[o])
    OBVIOUS
  <2>2. /\ c.at = call[o].at /\ c.pc # "hook" /\ (c.mode = "become" => c.pc = "becoming")
        /\ c.pc = "becoming" => c.head = call[o].head /\ c.mode = "become" /\ call[o].mode = "become"
    BY <1>0, <2>1, PublishedCall
  <2>3. call[o].pc = "ready" /\ call[o].head <= store[call[o].at].index /\ call' = [call EXCEPT ![o] = c]
    BY <1>4, <2>1 DEF PublishStale, Stale
  <2> QED BY <2>2, <2>3 DEF Calm, Rejoins
<1>5. ASSUME ReadFail(o) PROVE \E c : Calm(o, c) /\ call' = [call EXCEPT ![o] = c]
  <2>1. PICK c : c = NoCall(call[o].at)
    OBVIOUS
  <2>2. c.at = call[o].at /\ c.pc = "idle" /\ c.mode = "read"
    BY <2>1 DEF NoCall
  <2> QED BY <1>5, <2>1, <2>2 DEF ReadFail, Calm, Rejoins
<1>6. UNCHANGED <<store, live>>
  BY DEF Read, ReadBegin, ReadState, PublishStale, ReadFail
<1> QED BY <1>1, <1>2, <1>3, <1>4, <1>5, <1>6

\* Every step keeps the order of stores and views.
LEMMA InStepStep ==
  ASSUME Inv, InStep, LiveCurrent, [Next]_vars
  PROVE  InStep' /\ LiveCurrent'
<1>0. call \in [Calls -> CallRec]
  BY Indexed
<1>1. CASE \E o \in Calls : Command(o)
  BY <1>1, CommandCalm, CalmStep
<1>2. ASSUME NEW o \in Calls,
             \/ Read(o) \/ ReadBegin(o) \/ ReadState(o) \/ PublishStale(o)
             \/ ReadFail(o) /\ call[o].mode # "become"
      PROVE  InStep' /\ LiveCurrent'
  BY <1>2, ReadCalm, CalmStep
<1>3. ASSUME NEW o \in Calls, NEW c, c.at = call[o].at, c.pc \in {"idle", "reading"},
             c.mode = "become" => \A p \in Calls : call[p].at = call[o].at => call[p].mode # "become",
             call[o].pc # "hook", c.mode # "become" => call[o].mode = "become",
             call' = [call EXCEPT ![o] = c], UNCHANGED store,
             live' = [live EXCEPT ![call[o].at] = Resting]
      PROVE  InStep' /\ LiveCurrent'
  <2>a. PICK r : r = call[o].at
    OBVIOUS
  <2>1. r \in Replicas
    BY <2>a, Indexed
  <2>2. \A p \in Calls : call'[p] = IF p = o THEN c ELSE call[p]
    BY <1>0, <1>3
  <2>3. /\ \A p \in Calls : call'[p].at = call[p].at
        /\ \A p \in Calls : call'[p].mode = "become" => call[p].mode = "become" \/ call[p].at = r
        /\ \A p \in Calls : call'[p] = call[p] \/ call'[p].pc \notin {"hook", "becoming"}
        /\ \A p \in Calls : call'[p].at # r => call'[p] = call[p]
        /\ \A p \in Calls : call[p].pc = "hook" => call'[p].pc = "hook"
    BY <1>3, <2>a, <2>2
  <2>4. \A p \in Calls : p # o /\ call[p].at = r => call[p].mode # "become"
    BY <1>3, <2>a DEF InStep
  <2>5. \A p \in Calls : call'[p].at = r => ~Rejoins(call'[p])
    BY <1>3, <2>a, <2>2, <2>4 DEF Rejoins
  <2>6. \A p, q \in Calls : p # q /\ call'[p].at = r /\ call'[q].at = r =>
          ~(call'[p].mode = "become" /\ call'[q].mode = "become")
    BY <1>3, <2>2, <2>3, <2>4, SMT
  <2>7. live' = [live EXCEPT ![r] = Resting]
    BY <1>3, <2>a
  <2> QED BY <1>3, <2>1, <2>3, <2>5, <2>6, <2>7, ResetStep
<1>4. ASSUME NEW o \in Calls, BecomeLive(o) PROVE InStep' /\ LiveCurrent'
  <2>1. PICK c : c = [call[o] EXCEPT !.pc = "reading", !.mode = "become"]
    OBVIOUS
  <2>2. c.at = call[o].at /\ c.pc = "reading" /\ c.mode = "become"
    BY <1>0, <2>1 DEF CallRec
  <2>3. call' = [call EXCEPT ![o] = c]
    BY <1>0, <1>4, <2>1 DEF BecomeLive
  <2> QED BY <1>3, <1>4, <2>2, <2>3 DEF BecomeLive
<1>5. ASSUME NEW o \in Calls, ReadFail(o), call[o].mode = "become" PROVE InStep' /\ LiveCurrent'
  <2>1. PICK c : c = NoCall(call[o].at)
    OBVIOUS
  <2>2. c.at = call[o].at /\ c.pc = "idle" /\ c.mode = "read"
    BY <2>1 DEF NoCall
  <2> QED BY <1>3, <1>5, <2>1, <2>2 DEF ReadFail
<1>6. ASSUME NEW r \in Replicas, ResignLive(r) PROVE InStep' /\ LiveCurrent'
  <2>1. \A p \in Calls : call[p].at = r => call[p].mode # "become"
    BY <1>6 DEF ResignLive, InStep, Holds
  <2>2. call' = call /\ store' = store /\ live' = [live EXCEPT ![r] = Resting]
    BY <1>6 DEF ResignLive
  <2>3. \A p \in Calls : call'[p].at = r => ~Rejoins(call'[p])
    BY <2>1, <2>2 DEF Rejoins
  <2> QED BY <2>1, <2>2, <2>3, ResetStep
<1>7. ASSUME NEW r \in Replicas, Restart(r) PROVE InStep' /\ LiveCurrent'
  <2>0. /\ Resting.index = 0 /\ Resting.serving = "no" /\ Unread.index = 0
        /\ NoCall(r).pc = "idle" /\ NoCall(r).mode = "read" /\ NoCall(r).at = r
    BY DEF Resting, Unread, NoCall
  <2>1. /\ \A q \in Replicas : store'[q] = IF q = r THEN Unread ELSE store[q]
        /\ \A q \in Replicas : live'[q] = IF q = r THEN Resting ELSE live[q]
        /\ \A p \in Calls : call'[p] = IF call[p].at = r THEN NoCall(r) ELSE call[p]
    BY <1>7, Indexed DEF Restart
  <2>2. \A p \in Calls : call'[p].at = call[p].at /\ call[p].at \in Replicas
    BY <2>0, <2>1, Indexed
  <2>3. \A q \in Replicas : q # r => (PublishFree(q)' <=> PublishFree(q))
    BY <2>1, <2>2 DEF PublishFree
  <2>4. LiveCurrent'
    BY <2>0, <2>1, <2>3 DEF LiveCurrent
  <2>5. \A q \in Replicas : /\ live'[q].index <= store'[q].index
                            /\ store'[q].init = "no" => store'[q].index = 0
    BY <2>0, <2>1, SMT DEF InStep
  <2>6. ASSUME NEW p \in Calls
        PROVE  /\ Holds(call[p], store[call[p].at], live[call[p].at])'
               /\ PublishFree(call[p].at)' => Reaches(call[p], store[call[p].at], live[call[p].at])'
    <3>1. CASE call[p].at = r
      BY <2>0, <2>1, <2>2, <3>1 DEF Holds, Reaches, Rejoins
    <3>2. CASE call[p].at # r
      BY <2>1, <2>2, <2>3, <3>2, SMT DEF InStep, Holds, Reaches, Rejoins
    <3> QED BY <3>1, <3>2
  <2>7. ASSUME NEW p \in Calls, NEW q \in Calls, p # q, call'[p].at = call'[q].at
        PROVE  /\ ~(call'[p].mode = "become" /\ call'[q].mode = "become")
               /\ ~(call'[p].pc = "hook" /\ call'[q].pc = "hook")
    BY <2>0, <2>1, <2>2, <2>7, SMT DEF InStep
  <2> QED BY <2>4, <2>5, <2>6, <2>7 DEF InStep
<1>8. CASE UNCHANGED <<store, live, call>>
  BY <1>8 DEF InStep, LiveCurrent, Holds, Reaches, Rejoins, PublishFree
<1>9. CASE \/ \E x \in inflight : LandLate(x) \/ Vanish(x)
           \/ \E x \in receipts : Expire(x)
           \/ Compact
           \/ UNCHANGED vars
  BY <1>8, <1>9 DEF LandLate, Vanish, Expire, Compact, vars
<1>10. ASSUME NEW o \in Calls, Following(o) PROVE InStep' /\ LiveCurrent'
  BY <1>2, <1>4, <1>5, <1>10, PublishStep, HookStep, ServeStep DEF Following
<1> QED BY <1>1, <1>6, <1>7, <1>9, <1>10 DEF Next

\* A new cluster has no view that serves.
LEMMA StartsInStep == Init => InStep /\ LiveCurrent
<1> SUFFICES ASSUME Init PROVE InStep /\ LiveCurrent
  OBVIOUS
<1>1. \A r \in Replicas : /\ live[r].index = 0 /\ store[r].index = 0 /\ live[r].serving = "no"
  BY DEF Init, Resting, Unread
<1>2. \A o \in Calls : call[o].pc = "idle" /\ call[o].mode = "read"
  BY SMT DEF Init, NoCall
<1>3. InStep
  BY <1>1, <1>2, SMT DEF InStep, Holds, Reaches, Rejoins
<1> QED BY <1>1, <1>3 DEF LiveCurrent

\* The view that serves agents is at the index of its store whenever no hook is on
\* its way (publish, applyProductLocked, become), however reads, commits, takeovers
\* and restarts interleave.
THEOREM ServedViewIsCurrent == Spec => []LiveCurrent
<1>1. Inv /\ InStep /\ LiveCurrent /\ [Next]_vars => InStep' /\ LiveCurrent'
  BY InStepStep
<1> QED BY <1>1, StartsInStep, Invariant, PTL DEF Spec

-----------------------------------------------------------------------------
\* What a call waits to read is committed, and in its snapshot once it has one.
Waits(c, h) == /\ c.want <= h
               /\ c.pc \in {"snapshot", "ready", "hook"} => c.want <= c.head

Answered == /\ \A x \in receipts : x.at <= head
            /\ \A x \in inflight : x.base <= head
            /\ \A o \in Calls : Waits(call[o], head)

\* A step of a call leaves the other calls alone.
LEMMA OneCall ==
  ASSUME Inv, NEW o \in Calls, Command(o) \/ Following(o)
  PROVE  \A p \in Calls : p # o => call'[p] = call[p]
<1>0. call \in [Calls -> CallRec]
  BY Indexed
<1>1. CASE Command(o)
  <2>1. PICK c : call' = [call EXCEPT ![o] = c]
    BY <1>1, CommandCalm
  <2> QED BY <1>0, <2>1
<1>2. CASE Following(o)
  BY <1>0, <1>2 DEF Following, Read, BecomeLive, ReadBegin, ReadState, ReadFail, PublishStale,
                    Publish, Hook, Serve
<1> QED BY <1>1, <1>2

\* A call never waits for more than the journal has.
LEMMA WaitsStep ==
  ASSUME Inv, Answered, NEW o \in Calls, Command(o) \/ Following(o)
  PROVE  Waits(call'[o], head)
<1>0. /\ call[o] \in CallRec /\ call \in [Calls -> CallRec] /\ head \in Nat
      /\ call[o].want \in Nat /\ call[o].head \in Nat /\ Waits(call[o], head)
  BY Indexed DEF CallRec, Answered
<1> DEFINE Fine(c) == Waits(c, head)
<1>1. /\ Fine(NoCall(call[o].at)) /\ Fine(Trying(call[o])) /\ Fine(Resolving(call[o]))
      /\ \A id : Fine([NoCall(call[o].at) EXCEPT !.pc = "try", !.mode = "exec", !.id = id])
  BY <1>0, SMT DEF Waits, NoCall, Trying, Resolving
<1>2. /\ \A h, b : Fine([call[o] EXCEPT !.pc = "begun", !.head = h, !.low = b])
      /\ \A b, d : Fine([call[o] EXCEPT !.pc = "planned", !.low = b, !.delta = d])
  BY <1>0 DEF Waits, CallRec
<1>3. \A x \in receipts : Fine([NoCall(call[o].at) EXCEPT !.pc = "reading", !.mode = "exec", !.want = x.at])
  BY <1>0 DEF Waits, NoCall, Answered
<1>4. CASE Command(o)
  <2> HIDE DEF Fine
  <2>1. ASSUME NEW id \in Ids, Execute(o, id) PROVE Fine(call'[o])
    BY <1>0, <1>1, <2>1 DEF Execute
  <2>2. ASSUME BeginTx(o) PROVE Fine(call'[o])
    BY <1>0, <1>1, <1>2, <2>2 DEF BeginTx
  <2>3. ASSUME NEW after \in Product, Plan(o, after) PROVE Fine(call'[o])
    BY <1>0, <1>1, <1>2, <2>3 DEF Plan
  <2>4. ASSUME Commit(o) PROVE Fine(call'[o])
    BY <1>0, <1>1, <2>4 DEF Commit
  <2>5. ASSUME HeadMoved(o) \/ CommitLost(o) \/ Fail(o) PROVE Fine(call'[o])
    BY <1>0, <1>1, <2>5 DEF HeadMoved, CommitLost, Fail
  <2>6. ASSUME Resolve(o) PROVE Fine(call'[o])
    <3>1. Receipt(call[o].id) \subseteq receipts
      BY DEF Receipt
    <3>2. CASE Receipt(call[o].id) = {}
      BY <1>0, <1>1, <2>6, <3>2 DEF Resolve
    <3>3. CASE Receipt(call[o].id) # {}
      <4>1. PICK x : x = CHOOSE y \in Receipt(call[o].id) : TRUE
        OBVIOUS
      <4>2. x \in receipts
        BY <3>1, <3>3, <4>1
      <4> QED BY <1>0, <1>3, <2>6, <3>3, <4>1, <4>2 DEF Resolve
    <3> QED BY <3>2, <3>3
  <2>7. Fine(call'[o])
    BY <1>4, <2>1, <2>2, <2>3, <2>4, <2>5, <2>6 DEF Command
  <2> QED BY <2>7 DEF Fine
<1>5. CASE Following(o)
  <2>1. ASSUME Read(o) \/ BecomeLive(o) PROVE Waits(call'[o], head)
    <3>1. call'[o].want = call[o].want /\ call'[o].pc = "reading"
      BY <1>0, <2>1, SMT DEF Read, BecomeLive, CallRec
    <3> QED BY <1>0, <3>1 DEF Waits
  <2>2. ASSUME ReadBegin(o) PROVE Waits(call'[o], head)
    <3>1. call'[o].want = call[o].want /\ call'[o].head = head
      BY <1>0, <2>2 DEF ReadBegin, CallRec
    <3> QED BY <1>0, <3>1 DEF Waits
  <2>3. ASSUME ReadState(o) \/ Publish(o) PROVE Waits(call'[o], head)
    <3>1. call'[o].want = call[o].want /\ call'[o].head = call[o].head
      BY <1>0, <2>3, SMT DEF ReadState, Publish, CallRec
    <3>2. call[o].pc \in {"snapshot", "ready"}
      BY <2>3 DEF ReadState, Publish
    <3> QED BY <1>0, <3>1, <3>2 DEF Waits
  <2>4. ASSUME ReadFail(o) \/ Serve(o) PROVE Waits(call'[o], head)
    <3>1. call'[o] = NoCall(call[o].at)
      BY <1>0, <2>4 DEF ReadFail, Serve
    <3> QED BY <1>1, <3>1
  <2>5. ASSUME PublishStale(o) \/ Hook(o) PROVE Waits(call'[o], head)
    <3>1. PICK e : e = [call[o] EXCEPT !.pc = "becoming"]
      OBVIOUS
    <3>2. e.want = call[o].want /\ e.pc = "becoming"
      BY <1>0, <3>1 DEF CallRec
    <3>3. call'[o] = NoCall(call[o].at) \/ call'[o] = e
      BY <1>0, <2>5, <3>1 DEF PublishStale, Hook, Published
    <3> QED BY <1>0, <1>1, <3>2, <3>3 DEF Waits
  <2> QED BY <1>5, <2>1, <2>2, <2>3, <2>4, <2>5 DEF Following
<1> QED BY <1>4, <1>5

\* A receipt names a committed head, and so does a commit on its way.
LEMMA AnsweredStep ==
  ASSUME Inv, Answered, [Next]_vars
  PROVE  Answered'
<1>0. /\ head \in Nat /\ head' \in Nat /\ head <= head' /\ call \in [Calls -> CallRec]
      /\ receipts \subseteq [id : Ids, at : Nat, kind : {"entry", "noop"}, life : {"live", "expired"}]
      /\ inflight \subseteq [id : Ids, base : Nat, delta : Delta]
  BY LogStep DEF Inv, TypeOK
<1>a. /\ \A x \in receipts : x.at \in Nat /\ x.at <= head'
      /\ \A x \in inflight : x.base \in Nat /\ x.base <= head /\ x.base <= head'
  BY <1>0, SMT DEF Answered
<1>1. ASSUME NEW id, NEW base \in Nat, base <= head, NEW delta, Land(id, base, delta)
      PROVE  \A x \in receipts' : x.at <= head'
  <2>1. CASE delta = Empty
    <3>1. \A x \in receipts' : x \in receipts \/ x.at = base
      BY <1>1, <2>1, SMT DEF Land
    <3> QED BY <1>0, <1>1, <1>a, <3>1, SMT
  <2>2. CASE delta # Empty
    <3>1. head' = head + 1 /\ \A x \in receipts' : x \in receipts \/ x.at = head + 1
      BY <1>1, <2>2, SMT DEF Land
    <3> QED BY <1>0, <1>a, <3>1, SMT
  <2> QED BY <2>1, <2>2
<1>2. \A o \in Calls : call[o].head \in Nat /\ call[o].head <= head
  BY <1>0 DEF Inv, SnapOK, CallRec
<1>3. \A x \in receipts' : x.at <= head'
  <2>1. ASSUME NEW o \in Calls, Commit(o) PROVE \A x \in receipts' : x.at <= head'
    BY <1>1, <1>2, <2>1 DEF Commit
  <2>2. ASSUME NEW y \in inflight, LandLate(y) PROVE \A x \in receipts' : x.at <= head'
    BY <1>1, <1>a, <2>2 DEF LandLate
  <2>3. ASSUME NEW y \in receipts, Expire(y) PROVE \A x \in receipts' : x.at <= head'
    <3>1. PICK z : z = [y EXCEPT !.life = "expired"]
      OBVIOUS
    <3>2. z.at = y.at /\ \A x \in receipts' : x \in receipts \/ x = z
      BY <1>0, <2>3, <3>1 DEF Expire
    <3> QED BY <1>a, <3>2
  <2>4. CASE receipts' \subseteq receipts
    BY <1>a, <2>4
  <2>5. ASSUME NEW o \in Calls, Command(o), ~Commit(o) PROVE receipts' \subseteq receipts
    BY <2>5 DEF Command, Execute, BeginTx, Plan, HeadMoved, CommitLost, Fail, Resolve
  <2>6. ASSUME NEW o \in Calls, Following(o) PROVE receipts' \subseteq receipts
    BY <2>6 DEF Following, Read, BecomeLive, ReadBegin, ReadState, ReadFail, PublishStale,
                Publish, Hook, Serve
  <2>7. CASE \/ \E x \in inflight : Vanish(x)
             \/ \E r \in Replicas : ResignLive(r) \/ Restart(r)
             \/ Compact
             \/ UNCHANGED vars
    BY <2>4, <2>7 DEF Vanish, ResignLive, Restart, Compact, vars
  <2> QED BY <2>1, <2>2, <2>3, <2>4, <2>5, <2>6, <2>7 DEF Next
<1>4. \A x \in inflight' : x.base <= head'
  <2>1. ASSUME NEW o \in Calls, CommitLost(o) PROVE \A x \in inflight' : x.base <= head'
    <3>1. \A x \in inflight' : x \in inflight \/ x.base = call[o].head
      BY <2>1, SMT DEF CommitLost
    <3> QED BY <1>0, <1>2, <1>a, <3>1, SMT
  <2>2. inflight' \subseteq inflight \/ \E o \in Calls : CommitLost(o)
    <3>1. ASSUME NEW o \in Calls, Command(o) PROVE inflight' \subseteq inflight \/ CommitLost(o)
      BY <3>1 DEF Command, Execute, BeginTx, Plan, Commit, HeadMoved, Fail, Resolve
    <3>2. ASSUME NEW o \in Calls, Following(o) PROVE inflight' \subseteq inflight
      BY <3>2 DEF Following, Read, BecomeLive, ReadBegin, ReadState, ReadFail, PublishStale,
                  Publish, Hook, Serve
    <3> QED BY <3>1, <3>2 DEF Next, vars, LandLate, Vanish, ResignLive, Restart, Expire, Compact
  <2> QED BY <1>a, <2>1, <2>2
<1>5. \A o \in Calls : Waits(call'[o], head)
  <2>1. ASSUME NEW o \in Calls, Command(o) \/ Following(o) PROVE \A p \in Calls : Waits(call'[p], head)
    BY <2>1, OneCall, WaitsStep DEF Answered
  <2>2. ASSUME NEW r \in Replicas, Restart(r) PROVE \A p \in Calls : Waits(call'[p], head)
    <3>1. Waits(NoCall(r), head)
      BY <1>0, SMT DEF Waits, NoCall
    <3> QED BY <2>2, <3>1 DEF Restart, Answered
  <2>3. CASE UNCHANGED call
    BY <2>3 DEF Answered
  <2>4. CASE \/ \E x \in inflight : LandLate(x) \/ Vanish(x)
             \/ \E r \in Replicas : ResignLive(r)
             \/ \E x \in receipts : Expire(x)
             \/ Compact
             \/ UNCHANGED vars
    BY <2>3, <2>4 DEF LandLate, Vanish, ResignLive, Expire, Compact, vars
  <2> QED BY <2>1, <2>2, <2>4 DEF Next
<1>6. ASSUME NEW o \in Calls PROVE Waits(call[o], head)'
  <2>1. call'[o].want \in Nat
    BY CallsStep DEF CallRec
  <2> QED BY <1>0, <1>5, <2>1, SMT DEF Waits
<1> QED BY <1>3, <1>4, <1>6 DEF Answered

\* Execute returns a committed entry only when the store, and a view that serves,
\* have it (publish of its own read, or of a newer one).
THEOREM WritesAreReadBack == Spec => ReadYourWrites
<1> DEFINE Seen(o) == Returned(o) /\ store'[call[o].at].init = "yes" =>
                        /\ store'[call[o].at].index >= call[o].want
                        /\ live'[call[o].at].serving = "yes" => live'[call[o].at].index >= call[o].want
<1>1. Inv /\ InStep /\ LiveCurrent /\ Answered /\ [Next]_vars => [\A o \in Calls : Seen(o)]_vars
  <2> SUFFICES ASSUME Inv, InStep, LiveCurrent, Answered, Next, NEW o \in Calls, Returned(o),
                      store'[call[o].at].init = "yes"
               PROVE  /\ store'[call[o].at].index >= call[o].want
                      /\ live'[call[o].at].serving = "yes" => live'[call[o].at].index >= call[o].want
    BY DEF vars
  <2>0. /\ call[o] \in CallRec /\ call[o].at \in Replicas /\ call[o].head \in Nat /\ call[o].want \in Nat
        /\ store[call[o].at].index \in Nat /\ call[o].want <= call[o].head
        /\ call[o].pc \in {"ready", "hook"} /\ call'[o].pc = "idle"
    BY Indexed DEF CallRec, Answered, Waits, Returned
  <2>1. CASE PublishStale(o)
    <3>1. /\ store' = store /\ live' = live /\ PublishFree(call[o].at)
          /\ call[o].head <= store[call[o].at].index
      BY <2>1 DEF PublishStale, Stale
    <3>2. live[call[o].at].serving = "yes" => live[call[o].at].index = store[call[o].at].index
      BY <2>0, <3>1 DEF LiveCurrent
    <3> QED BY <2>0, <3>1, <3>2, SMT
  <2>2. CASE Hook(o)
    <3>1. store' = store /\ store[call[o].at].index = call[o].head
      BY <2>2 DEF Hook, InStep, Holds
    <3>2. live'[call[o].at].index = store'[call[o].at].index
      BY <2>2, HookStep
    <3> QED BY <2>0, <3>1, <3>2
  <2>3. ASSUME Command(o) PROVE FALSE
    BY <2>0, <2>3 DEF Command, Execute, BeginTx, Plan, Commit, HeadMoved, CommitLost, Fail, Resolve
  <2>4. ASSUME Following(o) PROVE PublishStale(o) \/ Hook(o)
    <3>1. ASSUME Publish(o) PROVE FALSE
      <4>1. call'[o].pc = "hook"
        BY <2>0, <3>1, Indexed DEF Publish, CallRec
      <4> QED BY <2>0, <4>1
    <3> QED BY <2>0, <2>4, <3>1 DEF Following, Read, BecomeLive, ReadBegin, ReadState, ReadFail, Serve
  <2>5. ASSUME NEW p \in Calls, p # o, Command(p) \/ Following(p) PROVE FALSE
    <3>1. call'[o] = call[o]
      BY <2>5, OneCall
    <3> QED BY <2>0, <3>1
  <2>6. ASSUME NEW r \in Replicas, Restart(r) PROVE FALSE
    <3>1. CASE call[o].at = r
      <4>1. store'[r] = Unread
        BY <2>0, <2>6, <3>1, Indexed DEF Restart
      <4> QED BY <3>1, <4>1, SMT DEF Unread
    <3>2. CASE call[o].at # r
      <4>1. call'[o] = call[o]
        BY <2>6, <3>2 DEF Restart
      <4> QED BY <2>0, <4>1
    <3> QED BY <3>1, <3>2
  <2>7. ASSUME \/ \E x \in inflight : LandLate(x) \/ Vanish(x)
               \/ \E r \in Replicas : ResignLive(r)
               \/ \E x \in receipts : Expire(x)
               \/ Compact
        PROVE  FALSE
    <3>1. call' = call
      BY <2>7 DEF LandLate, Vanish, ResignLive, Expire, Compact
    <3> QED BY <2>0, <3>1
  <2> QED BY <2>1, <2>2, <2>3, <2>4, <2>5, <2>6, <2>7 DEF Next
<1>2. Init => Answered
  BY SMT DEF Init, Answered, Waits, NoCall
<1>3. Inv /\ Answered /\ [Next]_vars => Answered'
  BY AnsweredStep
<1>4. Init => InStep /\ LiveCurrent
  BY StartsInStep
<1>5. Inv /\ InStep /\ LiveCurrent /\ [Next]_vars => InStep' /\ LiveCurrent'
  BY InStepStep
<1> QED BY <1>1, <1>2, <1>3, <1>4, <1>5, Invariant, PTL DEF Spec, ReadYourWrites
=============================================================================
