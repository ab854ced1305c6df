---------------------------- MODULE BuildsProofs ----------------------------
(***************************************************************************)
(* Builds and deployments agree, a builder has one build, late reports     *)
(* neither win nor roll a service back, for any services, builders,        *)
(* requests and attempts.                                                  *)
(***************************************************************************)
EXTENDS Builds, SequenceTheorems, WellFoundedInduction, TLAPS

\* A build waits only with an attempt left; an image is the one of its last claim, and
\* final; a cancelled build has no deployment that waits for it.
Sound(b) ==
  /\ b.state = "queued" => b.epoch < AttemptLimit
  /\ b.image # 0 => b.state = "succeeded" /\ b.image = b.epoch
  /\ b.cancel => b.deployment \notin Pending

\* A deployment that waits is current, its service lives, and it shows its build's state.
Shown(b, i, cur, lv) ==
  b.deployment \in Pending =>
    /\ cur[b.service] = i /\ b.service \in lv
    /\ (b.deployment = "queued_build") <=> (b.state = "queued")
    /\ (b.deployment = "building") <=> (b.state = "running")

\* The rows of build_runs.
Table(bs) == bs \in Seq(BuildRow) /\ \A i \in 1 .. Len(bs) : Sound(bs[i])

\* What is rolled out is a build of the service that succeeded.
RolledOK(bs, rd) ==
  \A s \in Services : rd[s] # 0 => bs[rd[s]].service = s /\ bs[rd[s]].state = "succeeded"

\* The inductive invariant.
Inv ==
  /\ TypeOK /\ Table(builds)
  /\ \A i \in 1 .. Len(builds) : Shown(builds[i], i, current, live)
  /\ OneBuildEach /\ RolledOK(builds, rolled)

\* What no step undoes, and no step but a claim does.
Onward(b, c) ==
  /\ c.service = b.service
  /\ b.state = "succeeded" => c.state = "succeeded"
  /\ c.state = "running" => b.state = "running" /\ c.owner = b.owner

\* The same builds, later, with no claim in between.
Evolved(bs, cs) ==
  Table(cs) /\ Len(cs) = Len(bs) /\ \A i \in 1 .. Len(bs) : Onward(bs[i], cs[i])

-----------------------------------------------------------------------------
\* A table rewritten row by row.
LEMMA Rewritten ==
  ASSUME NEW bs \in Seq(BuildRow), NEW f, DOMAIN f = DOMAIN bs, f = [i \in DOMAIN bs |-> f[i]],
         \A i \in 1 .. Len(bs) : f[i] \in BuildRow /\ Sound(f[i]) /\ Onward(bs[i], f[i])
  PROVE  Evolved(bs, f)
<1>1. Len(bs) \in Nat /\ DOMAIN bs = 1 .. Len(bs) OBVIOUS
<1>2. f \in [1 .. Len(bs) -> BuildRow] BY <1>1
<1>3. f \in Seq(BuildRow) /\ Len(f) = Len(bs) BY <1>1, <1>2
<1> QED BY <1>3, Zenon DEF Evolved, Table

\* Passes over the table compose: recoverExpiredBuildsTx makes three.
LEMMA EvolvedTwice ==
  ASSUME NEW bs, NEW cs, NEW ds, Evolved(bs, cs), Evolved(cs, ds) PROVE Evolved(bs, ds)
BY DEF Evolved, Onward

\* A request and a deletion end what is queued.
LEMMA QueuedBecomes ==
  ASSUME NEW bs, Table(bs), NEW s, NEW state \in {"superseded", "cancelled"}
  PROVE  Evolved(bs, QueuedBecome(bs, s, state))
<1> DEFINE f == QueuedBecome(bs, s, state)
<1>1. bs \in Seq(BuildRow) /\ DOMAIN bs = 1 .. Len(bs) BY DEF Table
<1>2. DOMAIN f = DOMAIN bs /\ f = [i \in DOMAIN bs |-> f[i]] BY DEF QueuedBecome
<1>3. ASSUME NEW i \in 1 .. Len(bs) PROVE f[i] \in BuildRow /\ Sound(f[i]) /\ Onward(bs[i], f[i])
  <2>1. PICK b \in BuildRow : b = bs[i] /\ Sound(b) BY <1>1 DEF Table
  <2>2. f[i] = IF b.service = s /\ b.state = "queued" THEN [b EXCEPT !.state = state] ELSE b
    BY <1>1, <2>1 DEF QueuedBecome
  <2> HIDE DEF f
  <2>3. CASE f[i] = b BY <2>1, <2>3 DEF Onward
  <2>4. CASE b.state = "queued" /\ f[i] = [b EXCEPT !.state = state]
    <3>1. f[i] \in BuildRow BY <2>4 DEF BuildRow, Ended
    <3>2. Sound(f[i]) /\ Onward(b, f[i]) BY <2>1, <2>4 DEF BuildRow, Sound, Onward
    <3> QED BY <2>1, <3>1, <3>2
  <2> QED BY <2>2, <2>3, <2>4
<1> HIDE DEF f
<1>4. Evolved(bs, f) BY <1>1, <1>2, <1>3, Rewritten
<1> QED BY <1>4 DEF f

\* A new deployment retires the current one.
LEMMA RetiredOK ==
  ASSUME NEW bs, Table(bs), NEW s PROVE Evolved(bs, Retired(bs, s))
<1> DEFINE f == Retired(bs, s)
<1>1. bs \in Seq(BuildRow) /\ DOMAIN bs = 1 .. Len(bs) BY DEF Table
<1>2. DOMAIN f = DOMAIN bs /\ f = [i \in DOMAIN bs |-> f[i]] BY DEF Retired
<1>3. ASSUME NEW i \in 1 .. Len(bs) PROVE f[i] \in BuildRow /\ Sound(f[i]) /\ Onward(bs[i], f[i])
  <2>1. PICK b \in BuildRow : b = bs[i] /\ Sound(b) BY <1>1 DEF Table
  <2>2. f[i] \in {b, [b EXCEPT !.deployment = "superseded"]} BY <1>1, <2>1 DEF Retired
  <2> HIDE DEF f
  <2>3. CASE f[i] = b BY <2>1, <2>3 DEF Onward
  <2>4. CASE f[i] = [b EXCEPT !.deployment = "superseded"]
    <3>1. f[i] \in BuildRow BY <2>4 DEF BuildRow, Settled
    <3>2. Sound(f[i]) /\ Onward(b, f[i]) BY <2>1, <2>4 DEF BuildRow, Sound, Onward, Pending
    <3> QED BY <2>1, <3>1, <3>2
  <2> QED BY <2>2, <2>3, <2>4
<1> HIDE DEF f
<1>4. Evolved(bs, f) BY <1>1, <1>2, <1>3, Rewritten
<1> QED BY <1>4 DEF f

-----------------------------------------------------------------------------
\* A build ends without an image, and its deployment with it.
LEMMA Ends ==
  ASSUME NEW b \in BuildRow, Sound(b), b.state # "succeeded", NEW end \in {"failed", "cancelled", "superseded"}
  PROVE  LET c == With(b, end, end) IN
         c \in BuildRow /\ Sound(c) /\ Onward(b, c) /\ c.deployment \notin Pending
<1> DEFINE d == Moved(b.deployment, end)
           c == [b EXCEPT !.state = end, !.deployment = d]
<1>1. d \in Settled \cup {"none"} BY DEF Moved, Settled
<1> HIDE DEF d
<1>2. c = With(b, end, end) BY DEF With, d
<1>3. c \in BuildRow BY <1>1, Zenon DEF BuildRow, Ended
<1>4. c.deployment = d /\ c.state = end /\ c.image = b.image /\ c.service = b.service BY DEF BuildRow
<1> HIDE DEF c
<1>5. c.deployment \notin Pending BY <1>1, <1>4 DEF Settled, Pending
<1>6. Sound(c) BY <1>4, <1>5 DEF Sound
<1>7. Onward(b, c) BY <1>4 DEF Onward
<1> QED BY <1>2, <1>3, <1>5, <1>6, <1>7

\* Fields that no property looks at.
LEMMA Marked ==
  ASSUME NEW b \in BuildRow, Sound(b), NEW m \in BOOLEAN,
         NEW c \in {[b EXCEPT !.lapsed = m], [b EXCEPT !.overran = m], [b EXCEPT !.aged = m]}
  PROVE  /\ c \in BuildRow /\ Sound(c) /\ Onward(b, c) /\ c.deployment = b.deployment /\ c.state = b.state
         /\ \A i, cur, lv : Shown(b, i, cur, lv) => Shown(c, i, cur, lv)
<1>1. c \in BuildRow BY DEF BuildRow
<1>2. /\ c.state = b.state /\ c.epoch = b.epoch /\ c.image = b.image /\ c.cancel = b.cancel
      /\ c.deployment = b.deployment /\ c.service = b.service /\ c.owner = b.owner
  BY DEF BuildRow
<1> QED BY <1>1, <1>2 DEF Sound, Onward, Shown

\* Waited or ran too long.
LEMMA Timeouts ==
  ASSUME NEW b \in BuildRow, Sound(b), NEW i, NEW cur, NEW lv, Shown(b, i, cur, lv)
  PROVE  LET c == TimeoutRunning(ExpireQueued(b)) IN
         c \in BuildRow /\ Sound(c) /\ Onward(b, c) /\ Shown(c, i, cur, lv)
<1> DEFINE e == ExpireQueued(b)
           end == IF e.cancel THEN "cancelled" ELSE "failed"
           x == With(e, end, end)
           c == TimeoutRunning(e)
<1>1. e \in BuildRow /\ Sound(e) /\ Onward(b, e) /\ Shown(e, i, cur, lv)
  BY Ends DEF ExpireQueued, Onward, Shown
<1> HIDE DEF e
<1>2. CASE e.state = "running" /\ e.overran
  <2>1. x \in BuildRow /\ Sound(x) /\ Onward(e, x) /\ x.deployment \notin Pending BY <1>1, <1>2, Ends
  <2>2. c = [x EXCEPT !.lapsed = FALSE] BY <1>2 DEF TimeoutRunning
  <2> HIDE DEF x, c
  <2>3. c \in BuildRow /\ Sound(c) /\ Onward(x, c) /\ c.deployment = x.deployment BY <2>1, <2>2, Marked, Zenon
  <2> QED BY <1>1, <2>1, <2>3 DEF Onward, Shown, c, e
<1>3. CASE ~(e.state = "running" /\ e.overran)
  <2>1. c = e BY <1>3 DEF TimeoutRunning
  <2> QED BY <1>1, <2>1 DEF e
<1> QED BY <1>2, <1>3

\* Left by its builder: back to the queue, or ended.
LEMMA Requeues ==
  ASSUME NEW bs, Table(bs), NEW i \in 1 .. Len(bs), NEW cur, NEW lv, Shown(bs[i], i, cur, lv)
  PROVE  LET c == RequeueLeaseExpired(bs, i) IN
         c \in BuildRow /\ Sound(c) /\ Onward(bs[i], c) /\ Shown(c, i, cur, lv)
<1> PICK a \in BuildRow : a = bs[i] /\ Sound(a) BY DEF Table
<1> DEFINE b == [a EXCEPT !.owner = None, !.lapsed = FALSE]
           c == RequeueLeaseExpired(bs, i)
<1>1. CASE ~(a.state = "running" /\ a.lapsed) BY <1>1 DEF RequeueLeaseExpired, Onward
<1>2. CASE a.state = "running" /\ a.lapsed
  <2>1. b \in BuildRow BY Zenon DEF BuildRow
  <2>2. /\ b.state = a.state /\ b.epoch = a.epoch /\ b.image = a.image /\ b.cancel = a.cancel
        /\ b.deployment = a.deployment /\ b.service = a.service
    BY DEF BuildRow
  <2>3. c = IF b.cancel THEN [b EXCEPT !.state = "cancelled"]
            ELSE IF Newer(bs, i) THEN With(b, "superseded", "superseded")
            ELSE IF b.epoch >= AttemptLimit THEN With(b, "failed", "failed")
            ELSE [With(b, "queued", "queued_build") EXCEPT !.overran = FALSE]
    BY <1>2 DEF RequeueLeaseExpired
  <2> HIDE DEF b, c
  <2>4. Sound(b) BY <2>2 DEF Sound
  <2>5. CASE c = [b EXCEPT !.state = "cancelled"] /\ b.cancel
    <3>1. c \in BuildRow BY <2>1, <2>5 DEF BuildRow, Ended
    <3>2. c.state = "cancelled" /\ c.image = b.image /\ c.cancel = b.cancel /\ c.deployment = b.deployment /\ c.service = b.service
      BY <2>1, <2>5, Zenon DEF BuildRow
    <3> QED BY <1>2, <2>2, <2>4, <2>5, <3>1, <3>2 DEF Sound, Onward, Shown, c
  <2>6. CASE \E end \in {"superseded", "failed"} : c = With(b, end, end)
    <3>1. c \in BuildRow /\ Sound(c) /\ Onward(b, c) /\ c.deployment \notin Pending
      BY <1>2, <2>1, <2>2, <2>4, <2>6, Ends
    <3>2. c.state \in {"superseded", "failed"} BY <2>1, <2>6 DEF With, BuildRow
    <3> QED BY <1>2, <2>2, <3>1, <3>2 DEF Onward, Shown, c
  <2>7. CASE c = [With(b, "queued", "queued_build") EXCEPT !.overran = FALSE] /\ ~(b.epoch >= AttemptLimit)
    <3> DEFINE d == Moved(b.deployment, "queued_build")
    <3>1. d = IF b.deployment = "building" THEN "queued_build" ELSE b.deployment
      BY DEF Moved, Settled
    <3> HIDE DEF d
    <3>2. c = [b EXCEPT !.state = "queued", !.deployment = d, !.overran = FALSE] BY <2>7 DEF With, d
    <3>9. d \in Pending \cup Settled \cup {"rolled", "none"} BY <2>1, <3>1 DEF BuildRow, Pending
    <3>3. c \in BuildRow BY <2>1, <3>9, <3>2, Zenon DEF BuildRow
    <3>4. c.state = "queued" /\ c.image = b.image /\ c.cancel = b.cancel /\ c.deployment = d /\ c.service = b.service /\ c.epoch = b.epoch
      BY <2>1, <3>2 DEF BuildRow
    <3>5. b.epoch < AttemptLimit
      <4>1. b.epoch \in 0 .. AttemptLimit BY <2>1 DEF BuildRow
      <4> QED BY <2>7, <4>1, AttemptAssumption
    <3>6. Sound(c) BY <2>2, <2>4, <3>1, <3>4, <3>5, <1>2 DEF Sound, Pending
    <3> QED BY <1>2, <2>2, <3>1, <3>3, <3>4, <3>6 DEF Onward, Shown, Pending, c
  <2> QED BY <2>3, <2>5, <2>6, <2>7
<1> QED BY <1>1, <1>2

\* recoverExpiredBuildsTx leaves a sound table that shows what the deployments wait for.
LEMMA RecoveredOK ==
  ASSUME NEW bs, Table(bs), NEW cur, NEW lv, \A i \in 1 .. Len(bs) : Shown(bs[i], i, cur, lv)
  PROVE  /\ Evolved(bs, RecoveredBuilds(bs))
         /\ \A i \in 1 .. Len(bs) : Shown(RecoveredBuilds(bs)[i], i, cur, lv)
<1> DEFINE kept == [i \in DOMAIN bs |-> TimeoutRunning(ExpireQueued(bs[i]))]
           f == [i \in DOMAIN bs |-> RequeueLeaseExpired(kept, i)]
<1>1. bs \in Seq(BuildRow) /\ DOMAIN bs = 1 .. Len(bs) BY DEF Table
<1>2. f = RecoveredBuilds(bs) BY DEF RecoveredBuilds
<1>3. \A i \in 1 .. Len(bs) : kept[i] \in BuildRow /\ Sound(kept[i]) /\ Onward(bs[i], kept[i]) /\ Shown(kept[i], i, cur, lv)
  <2> TAKE i \in 1 .. Len(bs)
  <2>1. bs[i] \in BuildRow /\ Sound(bs[i]) /\ Shown(bs[i], i, cur, lv) BY <1>1 DEF Table
  <2>2. kept[i] = TimeoutRunning(ExpireQueued(bs[i])) BY <1>1
  <2> QED BY <2>1, <2>2, Timeouts
<1>4. DOMAIN kept = DOMAIN bs /\ kept = [i \in DOMAIN bs |-> kept[i]] OBVIOUS
<1> HIDE DEF kept
<1>5. Evolved(bs, kept) BY <1>1, <1>3, <1>4, Rewritten
<1>6. Table(kept) /\ Len(kept) = Len(bs) /\ kept \in Seq(BuildRow) /\ DOMAIN kept = DOMAIN bs BY <1>1, <1>4, <1>5, Zenon DEF Evolved, Table
<1>7. \A i \in 1 .. Len(bs) : f[i] \in BuildRow /\ Sound(f[i]) /\ Onward(kept[i], f[i]) /\ Shown(f[i], i, cur, lv)
  <2> TAKE i \in 1 .. Len(bs)
  <2>1. f[i] = RequeueLeaseExpired(kept, i) BY <1>1
  <2> QED BY <1>3, <1>6, <2>1, Requeues
<1>8. DOMAIN f = DOMAIN kept /\ f = [i \in DOMAIN kept |-> f[i]] BY <1>6
<1> HIDE DEF f
<1>9. Evolved(kept, f) BY <1>6, <1>7, <1>8, Rewritten, Zenon
<1> QED BY <1>2, <1>5, <1>7, <1>9, EvolvedTwice

-----------------------------------------------------------------------------
\* What is typed for n builds is typed for more.
LEMMA Grown ==
  ASSUME TypeOK, NEW n \in Nat, n >= Len(builds)
  PROVE  /\ rows \in [Builders -> BuilderRow(n)] /\ jobs \in [Builders -> Job(n)] /\ reports \subseteq Reported(n)
         /\ current \in [Services -> 0 .. n] /\ rolled \in [Services -> 0 .. n]
<1>1. Len(builds) \in Nat BY DEF TypeOK
<1>2. 0 .. Len(builds) \subseteq 0 .. n /\ 1 .. Len(builds) \subseteq 1 .. n BY <1>1
<1>3. BuilderRow(Len(builds)) \subseteq BuilderRow(n) BY <1>2 DEF BuilderRow
<1>4. Job(Len(builds)) \subseteq Job(n) BY <1>2 DEF Job
<1>5. Reported(Len(builds)) \subseteq Reported(n) BY <1>2 DEF Reported
<1>6. rows \in [Builders -> BuilderRow(n)] BY <1>3 DEF TypeOK
<1>7. jobs \in [Builders -> Job(n)] BY <1>4 DEF TypeOK
<1>8. reports \subseteq Reported(n) BY <1>5 DEF TypeOK
<1>9. current \in [Services -> 0 .. n] /\ rolled \in [Services -> 0 .. n] BY <1>2 DEF TypeOK
<1> QED BY <1>6, <1>7, <1>8, <1>9

\* What succeeded stays rolled out.
LEMMA RolledKept ==
  ASSUME Inv, NEW bs, \A i \in 1 .. Len(builds) : Onward(builds[i], bs[i])
  PROVE  RolledOK(bs, rolled)
<1> SUFFICES ASSUME NEW s \in Services, rolled[s] # 0 PROVE bs[rolled[s]].service = s /\ bs[rolled[s]].state = "succeeded"
  BY DEF RolledOK
<1>1. rolled[s] \in 1 .. Len(builds) BY DEF Inv, TypeOK
<1> QED BY <1>1 DEF Inv, RolledOK, Onward

\* The parts of the invariant, together.
LEMMA Together ==
  ASSUME Inv, Table(builds'), OneBuildEach',
         \A i \in 1 .. Len(builds') : Shown(builds'[i], i, current', live'),
         current' \in [Services -> 0 .. Len(builds')], live' \subseteq Services,
         rolled' \in [Services -> 0 .. Len(builds')], RolledOK(builds', rolled'),
         rows' \in [Builders -> BuilderRow(Len(builds'))], jobs' \in [Builders -> Job(Len(builds'))],
         reports' \subseteq Reported(Len(builds')), control' \in Control, faults' \in Nat, scope' = scope
  PROVE  Inv'
<1>1. builds' \in Seq(BuildRow) BY DEF Table
<1>2. TypeOK' BY <1>1 DEF Inv, TypeOK
<1>3. Table(builds)' /\ RolledOK(builds, rolled)' /\ \A i \in 1 .. Len(builds') : Shown(builds[i], i, current, live)'
  BY DEF Table, RolledOK, Shown, Sound
<1> QED BY <1>2, <1>3 DEF Inv

\* No step but a claim makes a builder hold a build it did not hold before.
LEMMA Moves ==
  ASSUME Inv, Table(builds'), Len(builds') >= Len(builds),
         \A i \in 1 .. Len(builds) : Onward(builds[i], builds'[i]),
         \A i \in 1 .. Len(builds') : i > Len(builds) => builds'[i].state # "running"
  PROVE  OneBuildEach'
<1>1. builds \in Seq(BuildRow) /\ builds' \in Seq(BuildRow) BY DEF Inv, TypeOK, Table
<1>2. DOMAIN builds = 1 .. Len(builds) /\ DOMAIN builds' = 1 .. Len(builds') /\ Len(builds) \in Nat /\ Len(builds') \in Nat
  BY <1>1
<1> SUFFICES ASSUME NEW i \in 1 .. Len(builds'), NEW j \in 1 .. Len(builds'),
                    builds'[i].state = "running", builds'[j].state = "running", builds'[i].owner = builds'[j].owner
             PROVE  i = j
  BY <1>2 DEF OneBuildEach, Running
<1>3. i \in 1 .. Len(builds) /\ j \in 1 .. Len(builds) BY <1>2
<1>4. builds[i].state = "running" /\ builds[j].state = "running" /\ builds[i].owner = builds[j].owner
  BY <1>3 DEF Onward
<1> QED BY <1>2, <1>3, <1>4 DEF Inv, OneBuildEach, Running

\* A step that rewrites builds in place and leaves the deployments' order alone.
LEMMA InPlace ==
  ASSUME Inv, Evolved(builds, builds'), \A i \in 1 .. Len(builds) : Shown(builds'[i], i, current', live'),
         current' \in [Services -> 0 .. Len(builds)], live' \subseteq Services, scope' = scope, rolled' = rolled,
         rows' \in [Builders -> BuilderRow(Len(builds))], jobs' \in [Builders -> Job(Len(builds))],
         reports' \subseteq Reported(Len(builds)), control' \in Control, faults' \in Nat
  PROVE  Inv'
<1>1. Table(builds') /\ Len(builds') = Len(builds) /\ \A i \in 1 .. Len(builds) : Onward(builds[i], builds'[i])
  BY DEF Evolved
<1>2. RolledOK(builds', rolled') BY <1>1, RolledKept
<1>3. rolled' \in [Services -> 0 .. Len(builds')] /\ Len(builds) \in Nat BY <1>1 DEF Inv, TypeOK
<1>4. Len(builds') >= Len(builds) /\ \A i \in 1 .. Len(builds') : i > Len(builds) => builds'[i].state # "running"
  BY <1>1, <1>3
<1>5. OneBuildEach' BY <1>1, <1>4, Moves
<1> QED BY <1>1, <1>2, <1>3, <1>5, Together

\* A step of builders, operators and calls that changes no build.
LEMMA Elsewhere ==
  ASSUME Inv, UNCHANGED <<scope, builds, current, live, rolled>>,
         rows' \in [Builders -> BuilderRow(Len(builds))], jobs' \in [Builders -> Job(Len(builds))],
         reports' \subseteq Reported(Len(builds)), control' \in Control, faults' \in Nat
  PROVE  Inv'
<1>1. TypeOK' BY DEF Inv, TypeOK
<1> QED BY <1>1 DEF Inv, OneBuildEach, Running, Shown, Table, Sound, RolledOK

\* A step that rewrites one build.
LEMMA OneRow ==
  ASSUME Inv, NEW i \in 1 .. Len(builds), NEW c \in BuildRow, Sound(c), Onward(builds[i], c),
         builds' = [builds EXCEPT ![i] = c]
  PROVE  Evolved(builds, builds') /\ \A j \in 1 .. Len(builds) : builds'[j] = IF j = i THEN c ELSE builds[j]
<1>1. builds \in Seq(BuildRow) /\ DOMAIN builds = 1 .. Len(builds) /\ Len(builds) \in Nat BY DEF Inv, TypeOK
<1>2. builds' \in [1 .. Len(builds) -> BuildRow] /\ \A j \in 1 .. Len(builds) : builds'[j] = IF j = i THEN c ELSE builds[j]
  BY <1>1
<1>3. builds' \in Seq(BuildRow) /\ Len(builds') = Len(builds) BY <1>1, <1>2
<1>4. \A j \in 1 .. Len(builds) : Sound(builds'[j]) /\ Onward(builds[j], builds'[j]) BY <1>2 DEF Inv, Table, Onward
<1> QED BY <1>2, <1>3, <1>4 DEF Evolved, Table

\* A step that appends a build.
LEMMA Added ==
  ASSUME Inv, NEW bs, Evolved(builds, bs), NEW x \in BuildRow, Sound(x), x.state # "running", builds' = Append(bs, x)
  PROVE  /\ Table(builds') /\ Len(builds') = Len(builds) + 1 /\ builds'[Len(builds) + 1] = x
         /\ \A i \in 1 .. Len(builds) : builds'[i] = bs[i]
         /\ OneBuildEach' /\ RolledOK(builds', rolled)
<1>1. bs \in Seq(BuildRow) /\ Len(bs) = Len(builds) /\ Len(builds) \in Nat BY DEF Evolved, Table, Inv, TypeOK
<1>2. /\ builds' \in Seq(BuildRow) /\ Len(builds') = Len(builds) + 1 /\ builds'[Len(builds) + 1] = x
      /\ \A i \in 1 .. Len(builds) : builds'[i] = bs[i]
  BY <1>1, AppendProperties
<1>3. \A i \in 1 .. Len(builds) + 1 : i \in 1 .. Len(builds) \/ i = Len(builds) + 1 BY <1>1
<1>4. \A i \in 1 .. Len(builds') : Sound(builds'[i]) BY <1>1, <1>2, <1>3 DEF Evolved, Table
<1>5. Table(builds') BY <1>2, <1>4 DEF Table
<1>6. \A i \in 1 .. Len(builds) : Onward(builds[i], builds'[i]) BY <1>2 DEF Evolved
<1>7. \A i \in 1 .. Len(builds') : i > Len(builds) => builds'[i].state # "running" BY <1>1, <1>2, <1>3
<1>8. Len(builds') >= Len(builds) BY <1>1, <1>2
<1>9. OneBuildEach' BY <1>5, <1>6, <1>7, <1>8, Moves
<1> QED BY <1>2, <1>5, <1>6, <1>9, RolledKept, Zenon

\* The row of a new build.
LEMMA NewBuild ==
  ASSUME NEW s \in Services, NEW state \in {"queued", "succeeded"}, NEW d \in {"queued_build", "rolled", "none"}
  PROVE  LET x == Build(s, state, d) IN
         x \in BuildRow /\ Sound(x) /\ x.state = state /\ x.service = s /\ x.deployment = d
<1> DEFINE x == Build(s, state, d)
<1>1. 0 \in 0 .. AttemptLimit /\ 0 < AttemptLimit BY AttemptAssumption
<1>2. state \in Ended \cup {"queued", "running"} /\ d \in Pending \cup Settled \cup {"rolled", "none"} BY DEF Ended, Pending
<1>3. x \in BuildRow BY <1>1, <1>2 DEF Build, BuildRow
<1>4. x.state = state /\ x.service = s /\ x.deployment = d /\ x.epoch = 0 /\ x.image = 0 /\ x.cancel = FALSE BY DEF Build
<1> HIDE DEF x
<1>5. Sound(x) BY <1>1, <1>4 DEF Sound
<1> QED BY <1>3, <1>4, <1>5 DEF x

\* After a request no deployment of the service waits.
LEMMA RetiredAll ==
  ASSUME Inv, NEW s \in Services, NEW e \in {"superseded", "cancelled"}, NEW i \in 1 .. Len(builds),
         Retired(QueuedBecome(builds, s, e), s)[i].deployment \in Pending
  PROVE  Retired(QueuedBecome(builds, s, e), s)[i] = builds[i] /\ builds[i].service # s
<1> DEFINE q == QueuedBecome(builds, s, e)
<1> PICK b \in BuildRow : b = builds[i] /\ Shown(b, i, current, live) BY DEF Inv, TypeOK
<1>1. DOMAIN builds = 1 .. Len(builds) BY DEF Inv, TypeOK
<1>2. q[i] = IF b.service = s /\ b.state = "queued" THEN [b EXCEPT !.state = e] ELSE b BY <1>1 DEF QueuedBecome
<1>3. q[i].deployment = b.deployment BY <1>2 DEF BuildRow
<1>4. DOMAIN q = 1 .. Len(builds) BY <1>1 DEF QueuedBecome
<1>5. q[i] \in BuildRow BY <1>2 DEF BuildRow, Ended
<1> HIDE DEF q
<1>6. Retired(q, s)[i] = IF i = current[s] /\ q[i].deployment \in Pending THEN [q[i] EXCEPT !.deployment = "superseded"] ELSE q[i]
  BY <1>4 DEF Retired
<1>7. CASE i = current[s] /\ q[i].deployment \in Pending
  <2>1. Retired(q, s)[i].deployment = "superseded" BY <1>5, <1>6, <1>7 DEF BuildRow
  <2> QED BY <2>1 DEF Pending, q
<1>8. CASE ~(i = current[s] /\ q[i].deployment \in Pending)
  <2>1. Retired(q, s)[i] = q[i] /\ b.deployment \in Pending BY <1>3, <1>6, <1>8 DEF q
  <2>2. b.service # s BY <1>3, <1>8, <2>1 DEF Shown
  <2> QED BY <1>2, <2>1, <2>2 DEF q
<1> QED BY <1>7, <1>8

-----------------------------------------------------------------------------
\* No service is rolled back to an older request.
RollsOn == \A s \in Services : rolled'[s] >= rolled[s]

\* A step that completes no build rolls nothing out.
LEMMA RolledSame == ASSUME Inv, rolled' = rolled PROVE RollsOn
BY DEF Inv, TypeOK, RollsOn

\* A new build, for the source or reused.
LEMMA RequestStep ==
  ASSUME Inv, NEW s \in Services, EnqueueSourceBuild(s) \/ ReuseBuildArtifact(s)
  PROVE  Inv' /\ RollsOn
<1> DEFINE n == Len(builds)
           q == QueuedBecome(builds, s, "superseded")
           t == Retired(q, s)
<1>1. n \in Nat /\ TypeOK /\ Table(builds) /\ s \in live /\ DOMAIN builds = 1 .. n
  BY DEF Inv, TypeOK, EnqueueSourceBuild, ReuseBuildArtifact
<1>2. Evolved(builds, q) BY <1>1, QueuedBecomes
<1>3. Evolved(q, t) BY <1>2, RetiredOK DEF Evolved
<1>4. Evolved(builds, t) BY <1>2, <1>3, EvolvedTwice
<1>5. \A i \in 1 .. n : t[i].deployment \in Pending => t[i] = builds[i] /\ builds[i].service # s BY RetiredAll
<1>6. \A i \in 1 .. n : Shown(builds[i], i, current, live) BY DEF Inv
<1>7. UNCHANGED <<scope, live, rows, control, jobs, reports, faults>> BY DEF EnqueueSourceBuild, ReuseBuildArtifact
<1>8. n + 1 \in Nat /\ n + 1 >= n /\ n + 1 \in 0 .. n + 1 BY <1>1
<1>9. /\ rows' \in [Builders -> BuilderRow(n + 1)] /\ jobs' \in [Builders -> Job(n + 1)] /\ reports' \subseteq Reported(n + 1)
      /\ current \in [Services -> 0 .. n + 1] /\ rolled \in [Services -> 0 .. n + 1] /\ live' \subseteq Services
      /\ control' \in Control /\ faults' \in Nat
  BY <1>1, <1>7, <1>8, Grown DEF TypeOK
<1> HIDE DEF q, t
<1>10. CASE EnqueueSourceBuild(s) \/ \E d \in {"rolled"} : builds' = Append(t, Build(s, "succeeded", d)) /\ current' = [current EXCEPT ![s] = n + 1] /\ rolled' = [rolled EXCEPT ![s] = n + 1]
  <2>1. PICK x \in {Build(s, "queued", "queued_build"), Build(s, "succeeded", "rolled")} :
           /\ builds' = Append(t, x) /\ current' = [current EXCEPT ![s] = n + 1]
           /\ \/ rolled' = rolled
              \/ rolled' = [rolled EXCEPT ![s] = n + 1] /\ x.state = "succeeded"
    <3>1. CASE EnqueueSourceBuild(s)
      <4>1. builds' = Append(t, Build(s, "queued", "queued_build")) /\ rolled' = rolled /\ current' = [current EXCEPT ![s] = Len(builds')]
        BY <3>1 DEF EnqueueSourceBuild, q, t
      <4>2. Len(builds') = n + 1 BY <1>4, <4>1, AppendProperties DEF Evolved, Table
      <4> QED BY <4>1, <4>2, Zenon
    <3>2. Build(s, "succeeded", "rolled").state = "succeeded" BY DEF Build
    <3> QED BY <1>10, <3>1, <3>2
  <2>2. x \in BuildRow /\ Sound(x) /\ x.state # "running" /\ x.service = s
    BY NewBuild
  <2>3. x.deployment \in Pending => x.deployment = "queued_build" /\ x.state = "queued" BY DEF Build, Pending
  <2>4. /\ Table(builds') /\ Len(builds') = n + 1 /\ builds'[n + 1] = x /\ OneBuildEach' /\ RolledOK(builds', rolled)
        /\ \A i \in 1 .. n : builds'[i] = t[i]
    BY <1>4, <2>1, <2>2, Added
  <2>5. current' \in [Services -> 0 .. n + 1] /\ current'[s] = n + 1 /\ \A u \in Services \ {s} : current'[u] = current[u]
    BY <1>8, <1>9, <2>1
  <2>6. ASSUME NEW i \in 1 .. n + 1 PROVE Shown(builds'[i], i, current', live')
    <3>1. CASE i = n + 1 BY <1>1, <1>7, <2>2, <2>3, <2>4, <2>5, <3>1, SMTT(20) DEF Shown
    <3>2. CASE i \in 1 .. n
      <4>1. builds[i] \in BuildRow BY <3>2, <1>1 DEF TypeOK
      <4>2. builds[i].service \in Services BY <4>1 DEF BuildRow
      <4> QED BY <1>5, <1>6, <1>7, <2>4, <2>5, <3>2, <4>2 DEF Shown
    <3> QED BY <1>1, <3>1, <3>2
  <2>7. rolled' \in [Services -> 0 .. n + 1] /\ \A u \in Services : rolled'[u] = rolled[u] \/ (u = s /\ rolled'[u] = n + 1 /\ x.state = "succeeded")
    BY <1>8, <1>9, <2>1
  <2>8. RolledOK(builds', rolled') BY <2>2, <2>4, <2>7 DEF RolledOK
  <2>9. RollsOn
    <3>1. \A u \in Services : rolled[u] \in 0 .. n BY <1>1 DEF TypeOK
    <3> QED BY <1>1, <2>7, <3>1 DEF RollsOn
  <2>10. Inv' BY <1>7, <1>9, <2>4, <2>5, <2>6, <2>7, <2>8, Together
  <2> QED BY <2>9, <2>10
<1>11. ASSUME Serves(s), NEW i \in 1 .. n PROVE Shown(q[i], i, current, live)
  <2> PICK b \in BuildRow : b = builds[i] BY <1>1 DEF TypeOK
  <2>1. q[i] = IF b.service = s /\ b.state = "queued" THEN [b EXCEPT !.state = "superseded"] ELSE b
    BY <1>1 DEF q, QueuedBecome
  <2>2. q[i].deployment = b.deployment BY <2>1 DEF BuildRow
  <2>3. b.deployment \in Pending => b.service # s BY <1>1, <1>6, <1>11 DEF Serves, Shown, Pending
  <2>4. CASE q[i] = b BY <1>6, <2>4
  <2>5. CASE q[i] # b
    <3>1. q[i].deployment \notin Pending BY <2>1, <2>2, <2>3, <2>5
    <3> QED BY <3>1 DEF Shown
  <2> QED BY <2>4, <2>5
<1>12. CASE Serves(s) /\ builds' = Append(q, Build(s, "succeeded", "none")) /\ UNCHANGED <<current, rolled>>
  <2> PICK x : x = Build(s, "succeeded", "none") OBVIOUS
  <2>1. x \in BuildRow /\ Sound(x) /\ x.state # "running" /\ x.deployment \notin Pending
    BY NewBuild DEF Pending
  <2>2. /\ Table(builds') /\ Len(builds') = n + 1 /\ builds'[n + 1] = x /\ OneBuildEach' /\ RolledOK(builds', rolled)
        /\ \A i \in 1 .. n : builds'[i] = q[i]
    BY <1>2, <1>12, <2>1, Added
  <2>3. ASSUME NEW i \in 1 .. n + 1 PROVE Shown(builds'[i], i, current', live')
    <3>1. CASE i = n + 1 BY <2>1, <2>2, <3>1 DEF Shown
    <3>2. CASE i \in 1 .. n
      <4>1. builds'[i] = q[i] /\ current' = current /\ live' = live BY <1>7, <1>12, <2>2, <3>2
      <4> QED BY <1>11, <1>12, <3>2, <4>1
    <3> QED BY <1>1, <3>1, <3>2
  <2>4. Inv' BY <1>7, <1>9, <1>12, <2>2, <2>3, Together
  <2> QED BY <1>12, <2>4, RolledSame
<1>13. /\ rows' \in [Builders -> BuilderRow(n)] /\ jobs' \in [Builders -> Job(n)] /\ reports' \subseteq Reported(n)
       /\ current \in [Services -> 0 .. n] /\ 0 \in 0 .. n
  BY <1>1, <1>7 DEF TypeOK
<1>14. CASE Serves(s) /\ builds' = q /\ UNCHANGED <<current, rolled>>
  <2>1. \A i \in 1 .. n : Shown(builds'[i], i, current', live') BY <1>7, <1>11, <1>14
  <2>2. Evolved(builds, builds') BY <1>2, <1>14
  <2>3. current' \in [Services -> 0 .. n] BY <1>13, <1>14
  <2>4. Inv' BY <1>7, <1>9, <1>13, <1>14, <2>1, <2>2, <2>3, InPlace
  <2> QED BY <1>14, <2>4, RolledSame
<1>15. CASE builds' = t /\ current' = [current EXCEPT ![s] = 0] /\ UNCHANGED rolled
  <2>1. Evolved(builds, builds') BY <1>4, <1>15
  <2>2. current' \in [Services -> 0 .. n] /\ \A u \in Services \ {s} : current'[u] = current[u] BY <1>13, <1>15
  <2>3. ASSUME NEW i \in 1 .. n PROVE Shown(builds'[i], i, current', live')
    <3>1. builds[i] \in BuildRow BY <1>1 DEF TypeOK
    <3>2. builds[i].service \in Services BY <3>1 DEF BuildRow
    <3> QED BY <1>5, <1>6, <1>7, <1>15, <2>2, <3>2 DEF Shown
  <2>4. Inv' BY <1>7, <1>9, <1>13, <1>15, <2>1, <2>2, <2>3, InPlace
  <2> QED BY <1>15, <2>4, RolledSame
<1>16. CASE ReuseRecorded(s) BY <1>10, <1>12, <1>16 DEF ReuseRecorded, q, t
<1>17. CASE ReuseOfBuilt(s) BY <1>14, <1>15, <1>17 DEF ReuseOfBuilt, q, t
<1> QED BY <1>10, <1>16, <1>17 DEF ReuseBuildArtifact

\* The row of a cancelled build.
LEMMA CancelledRow ==
  ASSUME NEW b \in BuildRow, NEW st \in Ended \cup {"queued", "running"}, NEW k \in BOOLEAN
  PROVE  [b EXCEPT !.state = st, !.cancel = k, !.deployment = "cancelled"] \in BuildRow
<1>1. "cancelled" \in Settled BY DEF Settled
<1> QED BY <1>1, Zenon DEF BuildRow

\* A deployment that waits for no build, and a cancellation.
LEMMA WithdrawStep ==
  ASSUME Inv, NEW s \in Services, Redeploy(s) \/ CancelDeployment(s)
  PROVE  Inv' /\ RollsOn
<1> DEFINE n == Len(builds)
<1>1. n \in Nat /\ TypeOK /\ Table(builds) /\ DOMAIN builds = 1 .. n /\ current[s] \in 1 .. n
  BY DEF Inv, TypeOK, Redeploy, CancelDeployment
<1>2. \A i \in 1 .. n : builds[i] \in BuildRow /\ builds[i].service \in Services /\ Shown(builds[i], i, current, live)
  <2>1. \A i \in 1 .. n : builds[i] \in BuildRow BY <1>1 DEF TypeOK
  <2> QED BY <2>1 DEF Inv, BuildRow
<1>3. UNCHANGED <<scope, live, rolled, rows, control, jobs, reports, faults>> BY DEF Redeploy, CancelDeployment
<1>4. current' \in {current, [current EXCEPT ![s] = 0]} BY DEF Redeploy, CancelDeployment
<1>5. current' \in [Services -> 0 .. n] /\ \A u \in Services \ {s} : current'[u] = current[u]
  <2>1. current \in [Services -> 0 .. n] /\ 0 \in 0 .. n BY <1>1 DEF TypeOK
  <2> QED BY <1>4, <2>1
<1>6. Evolved(builds, builds')
      /\ \A i \in 1 .. n : builds'[i].deployment \in Pending => builds'[i] = builds[i] /\ i # current[s]
  <2>1. CASE Redeploy(s)
    <3>1. builds' = Retired(builds, s) BY <2>1 DEF Redeploy
    <3>2. Evolved(builds, builds') BY <1>1, <3>1, RetiredOK
    <3>3. ASSUME NEW i \in 1 .. n PROVE builds'[i].deployment \in Pending => builds'[i] = builds[i] /\ i # current[s]
      <4>1. builds'[i] = IF i = current[s] /\ builds[i].deployment \in Pending
                         THEN [builds[i] EXCEPT !.deployment = "superseded"] ELSE builds[i]
        BY <1>1, <3>1 DEF Retired
      <4>2. [builds[i] EXCEPT !.deployment = "superseded"].deployment = "superseded" BY <1>2 DEF BuildRow
      <4> QED BY <4>1, <4>2 DEF Pending
    <3> QED BY <3>2, <3>3
  <2>2. CASE CancelDeployment(s)
    <3> PICK i \in 1 .. n : i = current[s] BY <1>1
    <3> PICK b \in BuildRow : b = builds[i] /\ Sound(b) BY <1>1, <1>2 DEF Table
    <3> PICK st : st = IF b.state = "queued" THEN "cancelled" ELSE b.state OBVIOUS
    <3> PICK k \in BOOLEAN : k = (b.state = "running") BY Zenon
    <3> DEFINE c == [b EXCEPT !.state = st, !.cancel = k, !.deployment = "cancelled"]
    <3>1. builds' = [builds EXCEPT ![i] = c] BY <2>2 DEF CancelDeployment
    <3>8. st \in Ended \cup {"queued", "running"} BY DEF BuildRow, Ended
    <3>2. c \in BuildRow BY <3>8, CancelledRow, Zenon
    <3>3. c.state = st /\ c.deployment = "cancelled" /\ c.epoch = b.epoch /\ c.image = b.image /\ c.service = b.service /\ c.owner = b.owner
      BY DEF BuildRow
    <3> HIDE DEF c
    <3>4. Sound(c) /\ Onward(b, c) BY <3>3 DEF Sound, Onward, Pending
    <3>5. Evolved(builds, builds') /\ \A j \in 1 .. n : builds'[j] = IF j = i THEN c ELSE builds[j]
      BY <3>1, <3>2, <3>4, OneRow, Zenon
    <3> QED BY <3>3, <3>5 DEF Pending
  <2> QED BY <2>1, <2>2
<1>7. ASSUME NEW i \in 1 .. n PROVE Shown(builds'[i], i, current', live')
  <2>1. CASE builds'[i].deployment \notin Pending BY <2>1 DEF Shown
  <2>2. CASE builds'[i].deployment \in Pending
    <3>1. builds'[i] = builds[i] /\ i # current[s] BY <1>6, <2>2
    <3>2. builds[i].service # s BY <1>2, <2>2, <3>1 DEF Shown
    <3> QED BY <1>2, <1>3, <1>5, <2>2, <3>1, <3>2 DEF Shown
  <2> QED BY <2>1, <2>2
<1>8. /\ rows' \in [Builders -> BuilderRow(n)] /\ jobs' \in [Builders -> Job(n)] /\ reports' \subseteq Reported(n)
      /\ live' \subseteq Services /\ control' \in Control /\ faults' \in Nat
  BY <1>1, <1>3 DEF TypeOK
<1>9. Inv' BY <1>3, <1>5, <1>6, <1>7, <1>8, InPlace
<1> QED BY <1>3, <1>9, RolledSame

\* A service's tombstone.
LEMMA DeleteStep ==
  ASSUME Inv, NEW s \in Services, DeleteService(s)
  PROVE  Inv' /\ RollsOn
<1> DEFINE n == Len(builds)
           q == QueuedBecome(builds, s, "cancelled")
<1>1. n \in Nat /\ TypeOK /\ Table(builds) /\ DOMAIN builds = 1 .. n BY DEF Inv, TypeOK
<1>2. \A i \in 1 .. n : builds[i] \in BuildRow /\ Shown(builds[i], i, current, live) BY <1>1 DEF Inv, TypeOK
<1>3. Evolved(builds, q) BY <1>1, QueuedBecomes
<1>4. q \in Seq(BuildRow) /\ Len(q) = n /\ DOMAIN q = 1 .. n /\ \A i \in 1 .. n : q[i] \in BuildRow /\ Sound(q[i])
  BY <1>1, <1>3 DEF Evolved, Table
<1>5. builds' = [i \in 1 .. n |-> IF i = current[s] THEN [q[i] EXCEPT !.deployment = Moved(q[i].deployment, "removed")] ELSE q[i]]
  BY <1>1 DEF DeleteService
<1>6. ASSUME NEW i \in 1 .. n
      PROVE  q[i] = IF builds[i].service = s /\ builds[i].state = "queued" THEN [builds[i] EXCEPT !.state = "cancelled"] ELSE builds[i]
  BY <1>1 DEF QueuedBecome
<1> HIDE DEF q
<1>7. ASSUME NEW i \in 1 .. n
      PROVE  /\ builds'[i] \in BuildRow /\ Sound(builds'[i]) /\ Onward(q[i], builds'[i])
             /\ builds'[i].deployment \in Pending => builds'[i] = q[i] /\ i # current[s]
  <2> PICK b \in BuildRow : b = q[i] /\ Sound(b) BY <1>4
  <2> PICK d : d = Moved(b.deployment, "removed") OBVIOUS
  <2>1. d \in Settled \cup {"none"} BY DEF Moved, Settled
  <2>2. CASE i # current[s] BY <1>5, <2>2 DEF Onward
  <2>3. CASE i = current[s]
    <3>1. builds'[i] = [b EXCEPT !.deployment = d] BY <1>5, <2>3
    <3>2. builds'[i] \in BuildRow BY <2>1, <3>1 DEF BuildRow
    <3>3. builds'[i].deployment = d /\ builds'[i].state = b.state /\ builds'[i].epoch = b.epoch /\ builds'[i].image = b.image
          /\ builds'[i].service = b.service /\ builds'[i].owner = b.owner /\ builds'[i].cancel = b.cancel
      BY <3>1 DEF BuildRow
    <3>4. d \notin Pending BY <2>1 DEF Settled, Pending
    <3> QED BY <3>2, <3>3, <3>4 DEF Sound, Onward
  <2> QED BY <2>2, <2>3
<1>8. DOMAIN builds' = DOMAIN q /\ builds' = [i \in DOMAIN q |-> builds'[i]] BY <1>4, <1>5
<1>9. Evolved(q, builds') BY <1>4, <1>7, <1>8, Rewritten
<1>10. Evolved(builds, builds') BY <1>3, <1>9, EvolvedTwice
<1>11. UNCHANGED <<scope, current, rolled, rows, control, jobs, reports, faults>> /\ live' = live \ {s} BY DEF DeleteService
<1>12. ASSUME NEW i \in 1 .. n PROVE Shown(builds'[i], i, current', live')
  <2>1. CASE builds'[i].deployment \notin Pending BY <2>1 DEF Shown
  <2>2. CASE builds'[i].deployment \in Pending
    <3>1. builds'[i] = q[i] /\ i # current[s] BY <1>7, <2>2
    <3>2. q[i].deployment = builds[i].deployment BY <1>2, <1>6, Zenon DEF BuildRow
    <3>3. builds[i].service # s BY <1>2, <2>2, <3>1, <3>2 DEF Shown
    <3>4. builds'[i] = builds[i] BY <1>6, <3>1, <3>3, Zenon
    <3> QED BY <1>2, <1>11, <2>2, <3>3, <3>4 DEF Shown
  <2> QED BY <2>1, <2>2
<1>13. /\ rows' \in [Builders -> BuilderRow(n)] /\ jobs' \in [Builders -> Job(n)] /\ reports' \subseteq Reported(n)
       /\ live' \subseteq Services /\ control' \in Control /\ faults' \in Nat /\ current' \in [Services -> 0 .. n]
  BY <1>1, <1>11 DEF TypeOK
<1>14. Inv' BY <1>10, <1>11, <1>12, <1>13, InPlace, Zenon
<1> QED BY <1>11, <1>14, RolledSame

\* A restored service: nothing waits for it.
LEMMA RestoreStep ==
  ASSUME Inv, NEW s \in Services, RestoreService(s)
  PROVE  Inv' /\ RollsOn
<1>1. UNCHANGED <<scope, builds, current, rolled, rows, control, jobs, reports, faults>> /\ live' = live \cup {s} BY DEF RestoreService
<1>2. TypeOK' BY <1>1 DEF Inv, TypeOK
<1>3. OneBuildEach' /\ Table(builds)' /\ RolledOK(builds, rolled)' BY <1>1 DEF Inv, OneBuildEach, Running, Table, Sound, RolledOK
<1>4. \A i \in 1 .. Len(builds') : Shown(builds[i], i, current, live)' BY <1>1 DEF Inv, Shown
<1> QED BY <1>1, <1>2, <1>3, <1>4, RolledSame, Zenon DEF Inv

-----------------------------------------------------------------------------
\* Operators, and builders that report, give up or leave.
LEMMA BuilderStep ==
  ASSUME Inv, NEW w \in Builders,
         \/ BuilderFallsSilent(w) \/ Leave(w) \/ Abandon(w)
         \/ \E drained \in BOOLEAN : SetBuilderDrain(w, drained)
         \/ \E ok \in BOOLEAN : Report(w, ok)
  PROVE  Inv' /\ RollsOn
<1> DEFINE n == Len(builds)
<1>1. UNCHANGED <<scope, builds, current, live, rolled>>
  BY DEF BuilderFallsSilent, Leave, Abandon, SetBuilderDrain, Report
<1>2. /\ n \in Nat /\ rows \in [Builders -> BuilderRow(n)] /\ jobs \in [Builders -> Job(n)] /\ reports \subseteq Reported(n)
      /\ control \in Control /\ faults \in Nat
  BY DEF Inv, TypeOK
<1>3. Idle \in Job(n) /\ [Idle EXCEPT !.doing = "gone"] \in Job(n)
  BY <1>2, AttemptAssumption DEF Idle, Job
<1>5. CASE BuilderFallsSilent(w) \/ \E drained \in BOOLEAN : SetBuilderDrain(w, drained)
  <2> PICK r \in BuilderRow(n) : r = rows[w] BY <1>2
  <2>1. PICK d \in BOOLEAN : rows' \in {[rows EXCEPT ![w] = [r EXCEPT !.fresh = FALSE]], [rows EXCEPT ![w] = [r EXCEPT !.drained = d]]}
    BY <1>5, Zenon DEF BuilderFallsSilent, SetBuilderDrain
  <2>2. [r EXCEPT !.fresh = FALSE] \in BuilderRow(n) /\ [r EXCEPT !.drained = d] \in BuilderRow(n) BY Zenon DEF BuilderRow
  <2>3. rows' \in [Builders -> BuilderRow(n)] BY <1>2, <2>1, <2>2, Zenon
  <2>4. UNCHANGED <<control, jobs, reports, faults>> BY <1>5 DEF BuilderFallsSilent, SetBuilderDrain
  <2> QED BY <1>1, <1>2, <2>3, <2>4, Elsewhere, RolledSame
<1>6. CASE Leave(w) \/ Abandon(w)
  <2>1. jobs' \in [Builders -> Job(n)]
    <3>1. jobs' \in {[jobs EXCEPT ![w] = Idle], [jobs EXCEPT ![w] = [Idle EXCEPT !.doing = "gone"]]} BY <1>6 DEF Leave, Abandon
    <3> QED BY <1>2, <1>3, <3>1
  <2>2. reports' \subseteq Reported(n) BY <1>2, <1>6 DEF Leave, Abandon
  <2>3. UNCHANGED <<control, rows>> /\ faults' \in {faults, faults + 1} BY <1>6 DEF Leave, Abandon
  <2>4. faults' \in Nat BY <1>2, <2>3
  <2> QED BY <1>1, <1>2, <2>1, <2>2, <2>3, <2>4, Elsewhere, RolledSame
<1>7. ASSUME NEW ok \in BOOLEAN, Report(w, ok) PROVE Inv' /\ RollsOn
  <2> PICK j \in Job(n) : j = jobs[w] BY <1>2
  <2>1. j.doing = "building" /\ jobs' = [jobs EXCEPT ![w] = [j EXCEPT !.doing = "reporting"]]
        /\ reports' = reports \cup {[by |-> w, build |-> j.build, epoch |-> j.epoch, ok |-> ok]}
        /\ UNCHANGED <<control, rows, faults>>
    BY <1>7 DEF Report
  <2>2. [j EXCEPT !.doing = "reporting"] \in Job(n) BY <2>1 DEF Job
  <2>3. j.build \in 1 .. n /\ j.epoch \in 0 .. AttemptLimit BY <1>2, <2>1 DEF Job
  <2>4. [by |-> w, build |-> j.build, epoch |-> j.epoch, ok |-> ok] \in Reported(n) BY <2>3 DEF Reported
  <2>5. jobs' \in [Builders -> Job(n)] /\ reports' \subseteq Reported(n) BY <1>2, <2>1, <2>2, <2>4
  <2> QED BY <1>1, <1>2, <2>1, <2>5, Elsewhere, RolledSame
<1> QED BY <1>5, <1>6, <1>7

\* The row of a builder that was heard of.
LEMMA HeldRow ==
  ASSUME NEW n \in Nat, NEW x \in BuilderRow(n), NEW h
  PROVE  h \in 0 .. n \/ h = 0 => [x EXCEPT !.fresh = TRUE, !.holds = h] \in BuilderRow(n)
<1>1. 0 \in 0 .. n OBVIOUS
<1> QED BY <1>1, Zenon DEF BuilderRow

\* The row of a build that was rolled out.
LEMMA RolledRow ==
  ASSUME NEW b \in BuildRow, NEW d \in {"rolled", "none"}, NEW e \in 0 .. AttemptLimit
  PROVE  [b EXCEPT !.state = "succeeded", !.deployment = d, !.image = e] \in BuildRow
<1>1. "succeeded" \in Ended BY DEF Ended
<1> QED BY <1>1, Zenon DEF BuildRow

\* recoverExpiredBuildsTx clears rows of builders.
LEMMA ClearedOK ==
  ASSUME NEW n \in Nat, NEW rs \in [Builders -> BuilderRow(n)], NEW bs PROVE ClearedRows(rs, bs) \in [Builders -> BuilderRow(n)]
<1>1. \A w \in Builders : [rs[w] EXCEPT !.holds = 0] \in BuilderRow(n) BY DEF BuilderRow
<1> QED BY <1>1 DEF ClearedRows

\* The repair loop.
LEMMA RecoverStep == ASSUME Inv, RecoverExpiredBuilds PROVE Inv' /\ RollsOn
<1> DEFINE n == Len(builds)
<1>1. n \in Nat /\ TypeOK /\ Table(builds) /\ \A i \in 1 .. n : Shown(builds[i], i, current, live) BY DEF Inv, TypeOK
<1>2. UNCHANGED <<scope, current, live, rolled, control, jobs, reports, faults>> /\ builds' = RecoveredBuilds(builds)
  BY DEF RecoverExpiredBuilds
<1>3. Evolved(builds, builds') /\ \A i \in 1 .. n : Shown(builds'[i], i, current', live') BY <1>1, <1>2, RecoveredOK, Zenon
<1>4. rows' \in [Builders -> BuilderRow(n)] BY <1>1, ClearedOK DEF RecoverExpiredBuilds, TypeOK
<1>5. /\ jobs' \in [Builders -> Job(n)] /\ reports' \subseteq Reported(n) /\ current' \in [Services -> 0 .. n]
      /\ live' \subseteq Services /\ control' \in Control /\ faults' \in Nat
  BY <1>1, <1>2 DEF TypeOK
<1>6. Inv' BY <1>2, <1>3, <1>4, <1>5, InPlace
<1> QED BY <1>2, <1>6, RolledSame

\* Deadlines, and the heartbeat that moves one.
LEMMA TimeStep ==
  ASSUME Inv, NEW i, LeaseLapses(i) \/ DeadlinePasses(i) \/ QueueAges(i)
  PROVE  Inv' /\ RollsOn
<1> DEFINE n == Len(builds)
<1>1. n \in Nat /\ TypeOK /\ Table(builds) /\ \A j \in 1 .. n : Shown(builds[j], j, current, live) BY DEF Inv, TypeOK
<1>2. UNCHANGED <<scope, current, live, rolled, rows, control, jobs, reports, faults>> BY DEF LeaseLapses, DeadlinePasses, QueueAges
<1>3. i \in 1 .. n BY DEF LeaseLapses, DeadlinePasses, QueueAges, Running, Inv, TypeOK
<1> PICK b \in BuildRow : b = builds[i] /\ Sound(b) BY <1>1, <1>3 DEF Table
<1>4. PICK c \in {[b EXCEPT !.lapsed = TRUE], [b EXCEPT !.overran = TRUE], [b EXCEPT !.aged = TRUE]} :
         builds' = [builds EXCEPT ![i] = c]
  BY DEF LeaseLapses, DeadlinePasses, QueueAges
<1>5. c \in BuildRow /\ Sound(c) /\ Onward(b, c) /\ Shown(c, i, current, live) BY <1>1, <1>3, Marked, ZenonT(40)
<1>6. Evolved(builds, builds') /\ \A j \in 1 .. n : builds'[j] = IF j = i THEN c ELSE builds[j] BY <1>3, <1>4, <1>5, OneRow, Zenon
<1>7. \A j \in 1 .. n : Shown(builds'[j], j, current', live') BY <1>1, <1>2, <1>5, <1>6
<1>8. /\ rows' \in [Builders -> BuilderRow(n)] /\ jobs' \in [Builders -> Job(n)] /\ reports' \subseteq Reported(n)
      /\ current' \in [Services -> 0 .. n] /\ live' \subseteq Services /\ control' \in Control /\ faults' \in Nat
  BY <1>1, <1>2 DEF TypeOK
<1>9. Inv' BY <1>2, <1>6, <1>7, <1>8, InPlace
<1> QED BY <1>2, <1>9, RolledSame

\* A heartbeat keeps the lease, or ends the job.
LEMMA HeartbeatStep ==
  ASSUME Inv, NEW w \in Builders, HeartbeatBuild(w)
  PROVE  Inv' /\ RollsOn
<1> DEFINE n == Len(builds)
<1>1. n \in Nat /\ TypeOK /\ Table(builds) /\ \A j \in 1 .. n : Shown(builds[j], j, current, live) BY DEF Inv, TypeOK
<1>2. UNCHANGED <<scope, current, live, rolled, control, reports, faults>> BY DEF HeartbeatBuild
<1>3. /\ rows \in [Builders -> BuilderRow(n)] /\ jobs \in [Builders -> Job(n)] /\ reports' \subseteq Reported(n)
      /\ current' \in [Services -> 0 .. n] /\ live' \subseteq Services /\ control' \in Control /\ faults' \in Nat
  BY <1>1, <1>2 DEF TypeOK
<1> PICK j \in Job(n) : j = jobs[w] BY <1>3
<1>4. CASE jobs' = [jobs EXCEPT ![w] = Idle] /\ UNCHANGED <<builds, rows>>
  <2>1. Idle \in Job(n) BY <1>1, AttemptAssumption DEF Idle, Job
  <2>2. jobs' \in [Builders -> Job(n)] BY <1>3, <1>4, <2>1
  <2> QED BY <1>2, <1>3, <1>4, <2>2, Elsewhere, RolledSame
<1>5. CASE builds' = [builds EXCEPT ![j.build].lapsed = FALSE] /\ rows' = [rows EXCEPT ![w].fresh = TRUE, ![w].holds = j.build] /\ jobs' = jobs
  <2>1. j.build \in 1 .. n BY <1>1 DEF HeartbeatBuild, Job
  <2> PICK b \in BuildRow : b = builds[j.build] /\ Sound(b) BY <1>1, <2>1 DEF Table
  <2> PICK c : c = [b EXCEPT !.lapsed = FALSE] BY Zenon
  <2>2. c \in BuildRow /\ Sound(c) /\ Onward(b, c) /\ Shown(c, j.build, current, live) BY <1>1, <2>1, Marked, Zenon
  <2>3. builds' = [builds EXCEPT ![j.build] = c] BY <1>5
  <2>4. Evolved(builds, builds') /\ \A i \in 1 .. n : builds'[i] = IF i = j.build THEN c ELSE builds[i] BY <2>1, <2>2, <2>3, OneRow, Zenon
  <2>5. \A i \in 1 .. n : Shown(builds'[i], i, current', live') BY <1>1, <1>2, <2>2, <2>4, Zenon
  <2>6. rows' \in [Builders -> BuilderRow(n)]
    <3> PICK r \in BuilderRow(n) : r = rows[w] BY <1>3
    <3>1. rows' = [rows EXCEPT ![w] = [r EXCEPT !.fresh = TRUE, !.holds = j.build]] BY <1>5, Zenon
    <3>2. j.build \in 0 .. n BY <1>1, <2>1
    <3>3. [r EXCEPT !.fresh = TRUE, !.holds = j.build] \in BuilderRow(n) BY <1>1, <3>2, HeldRow, Zenon
    <3> QED BY <1>3, <3>1, <3>3
  <2>7. Inv' BY <1>2, <1>3, <1>5, <2>4, <2>5, <2>6, InPlace, ZenonT(40)
  <2> QED BY <1>2, <2>7, RolledSame
<1> QED BY <1>4, <1>5, Zenon DEF HeartbeatBuild

\* The outcome of an accepted report.
LEMMA Outcome ==
  ASSUME Inv, NEW r \in reports, AcceptsReport(r)
  PROVE  LET c == Completed(r) IN
         /\ c \in BuildRow /\ Sound(c) /\ Onward(builds[r.build], c) /\ Shown(c, r.build, current, live)
         /\ c.state = "succeeded" => ~Newer(builds, r.build)
<1> PICK k \in 1 .. Len(builds) : k = r.build BY DEF Inv, TypeOK, Reported
<1> PICK a \in BuildRow : a = builds[k] /\ Sound(a) /\ Shown(a, k, current, live) BY DEF Inv, Table
<1> DEFINE b == [a EXCEPT !.lapsed = FALSE]
           c == Completed(r)
<1>1. a.state = "running" /\ a.epoch = r.epoch BY DEF AcceptsReport, Owns
<1>2. b \in BuildRow /\ Sound(b) /\ Onward(a, b) /\ b.state = "running" /\ Shown(b, k, current, live) BY <1>1, Marked, Zenon
<1>3. b.epoch = r.epoch /\ b.image = 0 /\ b.service = a.service
  <2>1. b.epoch = a.epoch /\ b.image = a.image /\ b.service = a.service BY DEF BuildRow
  <2> QED BY <1>1, <2>1 DEF Sound
<1>4. c = IF b.service \notin live \/ b.cancel THEN [b EXCEPT !.state = "cancelled"]
          ELSE IF current[b.service] # k THEN [b EXCEPT !.state = "superseded"]
          ELSE IF b.deployment \in Settled THEN [b EXCEPT !.state = "cancelled"]
          ELSE IF ~r.ok THEN With(b, "failed", "failed")
          ELSE IF Newer(builds, k) THEN With(b, "superseded", "superseded")
          ELSE [With(b, "succeeded", "rolled") EXCEPT !.image = r.epoch]
  BY DEF Completed
<1> HIDE DEF b, c
<1>5. ASSUME NEW e \in {"cancelled", "superseded"}, c = [b EXCEPT !.state = e], b.deployment \notin Pending
      PROVE  c \in BuildRow /\ Sound(c) /\ Onward(b, c) /\ Shown(c, k, current, live) /\ c.state # "succeeded"
  <2>1. c \in BuildRow BY <1>2, <1>5, SMTT(20) DEF BuildRow, Ended
  <2>2. c.state = e /\ c.image = b.image /\ c.deployment = b.deployment /\ c.service = b.service /\ c.cancel = b.cancel
    BY <1>2, <1>5 DEF BuildRow
  <2> QED BY <1>2, <1>3, <1>5, <2>1, <2>2 DEF Sound, Onward, Shown
<1>6. ASSUME NEW e \in {"failed", "superseded"}, c = With(b, e, e)
      PROVE  c \in BuildRow /\ Sound(c) /\ Onward(b, c) /\ Shown(c, k, current, live) /\ c.state # "succeeded"
  <2>1. c.state = e BY <1>2, <1>6 DEF With, BuildRow
  <2> QED BY <1>2, <1>6, <2>1, Ends DEF Shown
<1>7. ASSUME c = [With(b, "succeeded", "rolled") EXCEPT !.image = r.epoch], b.deployment \notin Settled, ~b.cancel
      PROVE  c \in BuildRow /\ Sound(c) /\ Onward(b, c) /\ Shown(c, k, current, live)
  <2> PICK d : d = Moved(b.deployment, "rolled") OBVIOUS
  <2>1. d \in {"rolled", "none"}
    <3>1. b.deployment \in {"queued_build", "building", "rolled", "none"} BY <1>2, <1>7 DEF BuildRow, Pending
    <3>2. b.deployment # "queued_build" BY <1>2 DEF Shown, Pending
    <3> QED BY <3>1, <3>2 DEF Moved, Settled
  <2>2. c = [b EXCEPT !.state = "succeeded", !.deployment = d, !.image = r.epoch] BY <1>7 DEF With
  <2>3. r.epoch \in 0 .. AttemptLimit BY <1>2, <1>3, SMTT(20) DEF BuildRow
  <2>4. c \in BuildRow BY <1>2, <2>1, <2>2, <2>3, RolledRow, Zenon
  <2>5. c.state = "succeeded" /\ c.deployment = d /\ c.image = r.epoch /\ c.epoch = b.epoch /\ c.service = b.service
    BY <1>2, <2>2 DEF BuildRow
  <2> QED BY <1>2, <1>3, <2>1, <2>4, <2>5 DEF Sound, Onward, Shown, Pending
<1>8. b.deployment \in Pending => b.service \in live /\ ~b.cancel /\ current[b.service] = k /\ b.deployment \notin Settled
  BY <1>2 DEF Shown, Sound, Pending, Settled
<1>9. /\ c \in BuildRow /\ Sound(c) /\ Onward(b, c) /\ Shown(c, k, current, live)
      /\ c.state = "succeeded" => ~Newer(builds, k)
  BY <1>4, <1>5, <1>6, <1>7, <1>8
<1> QED BY <1>2, <1>9 DEF Onward, c

\* CompleteBuild.
LEMMA CompleteStep ==
  ASSUME Inv, NEW r \in reports, CompleteBuild(r)
  PROVE  Inv' /\ RollsOn
<1> DEFINE n == Len(builds)
<1>1. n \in Nat /\ TypeOK /\ Table(builds) /\ \A j \in 1 .. n : Shown(builds[j], j, current, live) BY DEF Inv, TypeOK
<1>2. UNCHANGED <<scope, current, live, control, faults>> BY DEF CompleteBuild
<1>3. /\ rows \in [Builders -> BuilderRow(n)] /\ jobs \in [Builders -> Job(n)] /\ reports' \subseteq Reported(n)
      /\ current' \in [Services -> 0 .. n] /\ live' \subseteq Services /\ control' \in Control /\ faults' \in Nat
      /\ rolled \in [Services -> 0 .. n]
  BY <1>1, <1>2 DEF TypeOK, CompleteBuild
<1>4. r.by \in Builders /\ r.build \in 1 .. n BY <1>1 DEF TypeOK, Reported
<1>5. jobs' \in [Builders -> Job(n)]
  <2>1. Idle \in Job(n) BY <1>1, AttemptAssumption DEF Idle, Job
  <2>2. jobs' \in {jobs, [jobs EXCEPT ![r.by] = Idle]} BY DEF CompleteBuild
  <2> QED BY <1>3, <2>1, <2>2
<1>6. CASE ~AcceptsReport(r)
  <2>1. UNCHANGED <<builds, rows, rolled>> BY <1>6 DEF CompleteBuild
  <2> QED BY <1>2, <1>3, <1>5, <2>1, Elsewhere, RolledSame
<1>7. CASE AcceptsReport(r)
  <2> PICK c : c = Completed(r) OBVIOUS
  <2>1. /\ c \in BuildRow /\ Sound(c) /\ Onward(builds[r.build], c) /\ Shown(c, r.build, current, live)
        /\ c.state = "succeeded" => ~Newer(builds, r.build)
    BY <1>7, Outcome
  <2>2. builds' = [builds EXCEPT ![r.build] = c] BY <1>7 DEF CompleteBuild
  <2>3. Evolved(builds, builds') /\ \A i \in 1 .. n : builds'[i] = IF i = r.build THEN c ELSE builds[i]
    BY <1>4, <2>1, <2>2, OneRow, Zenon
  <2>4. \A i \in 1 .. n : Shown(builds'[i], i, current', live') BY <1>1, <1>2, <2>1, <2>3
  <2>5. Table(builds') /\ Len(builds') = n /\ \A i \in 1 .. n : Onward(builds[i], builds'[i]) BY <2>3 DEF Evolved
  <2>6. rows' \in [Builders -> BuilderRow(n)]
    <3> PICK x \in BuilderRow(n) : x = rows[r.by] BY <1>3, <1>4
    <3>1. rows' = [rows EXCEPT ![r.by] = [x EXCEPT !.fresh = TRUE, !.holds = 0]] BY <1>7, Zenon DEF CompleteBuild
    <3>2. [x EXCEPT !.fresh = TRUE, !.holds = 0] \in BuilderRow(n) BY <1>1, HeldRow, Zenon
    <3> QED BY <1>3, <3>1, <3>2, Zenon
  <2> PICK s \in Services : s = builds[r.build].service
    <3>1. builds[r.build] \in BuildRow BY <1>1, <1>4 DEF TypeOK
    <3> QED BY <3>1 DEF BuildRow
  <2>7. rolled' = IF c.state = "succeeded" THEN [rolled EXCEPT ![s] = r.build] ELSE rolled
    BY <1>4, <1>7, <2>3 DEF CompleteBuild
  <2>8. /\ rolled' \in [Services -> 0 .. n]
        /\ \A u \in Services : rolled'[u] = rolled[u] \/ (u = s /\ rolled'[u] = r.build /\ c.state = "succeeded")
    BY <1>1, <1>3, <1>4, <2>7
  <2>9. RolledOK(builds', rolled) BY <2>5, RolledKept
  <2>10. RolledOK(builds', rolled')
    <3>1. builds'[r.build] = c /\ c.service = s BY <1>4, <2>1, <2>3, Zenon DEF Onward
    <3> QED BY <2>8, <2>9, <3>1, Zenon DEF RolledOK
  <2>11. OneBuildEach' BY <1>1, <2>5, Moves
  <2>12. Inv' BY <1>2, <1>3, <1>5, <2>4, <2>5, <2>6, <2>8, <2>10, <2>11, Together, SMTT(20)
  <2>13. ASSUME NEW u \in Services PROVE rolled'[u] >= rolled[u]
    <3>1. rolled[u] \in 0 .. n BY <1>3
    <3>2. CASE rolled'[u] = rolled[u] BY <1>1, <3>1, <3>2
    <3>3. CASE u = s /\ rolled'[u] = r.build /\ c.state = "succeeded"
      <4>1. ~Newer(builds, r.build) BY <2>1, <3>3, Zenon
      <4>2. rolled[u] # 0 => builds[rolled[u]].service = s /\ builds[rolled[u]].state = "succeeded" /\ rolled[u] \in DOMAIN builds
        BY <1>1, <3>1, <3>3 DEF Inv, RolledOK, TypeOK
      <4>3. rolled[u] # 0 => ~(rolled[u] > r.build) BY <4>1, <4>2 DEF Newer
      <4> QED BY <1>1, <1>4, <3>1, <3>3, <4>3
    <3> QED BY <2>8, <3>2, <3>3
  <2> QED BY <2>12, <2>13 DEF RollsOn
<1> QED BY <1>6, <1>7

\* The oldest of some builds is one of them.
LEMMA OldestIsOne == ASSUME NEW S, S \subseteq Nat, S # {} PROVE Min(S) \in S
<1> DEFINE earlier == OpToRel(<, Nat)
<1>1. \E m \in S : \A k \in S : ~(<<k, m>> \in earlier) BY WFMin, NatLessThanWellFounded, Zenon
<1>2. \E m \in S : \A k \in S : ~(k < m) BY <1>1, Zenon DEF OpToRel
<1>3. \E m \in S : \A k \in S : m <= k BY <1>2
<1> QED BY <1>3, Zenon DEF Min

\* A poll is answered with the builder's own build, or with a queued one while it has none.
LEMMA Offer ==
  ASSUME NEW bs \in Seq(BuildRow), NEW rs, NEW w
  PROVE  LET i == OfferedBuild(bs, rs, w) IN
         \/ i = 0
         \/ i \in 1 .. Len(bs) /\ bs[i].state = "running"
         \/ /\ i \in 1 .. Len(bs) /\ bs[i].state = "queued"
            /\ \A j \in 1 .. Len(bs) : bs[j].state = "running" => bs[j].owner # w
<1> DEFINE own == {j \in Running(bs) : bs[j].owner = w}
           i == OfferedBuild(bs, rs, w)
<1>1. DOMAIN bs = 1 .. Len(bs) /\ 1 .. Len(bs) \subseteq Nat BY SMTT(20)
<1>2. own \subseteq 1 .. Len(bs) /\ own \subseteq Nat /\ Claimable(bs) \subseteq 1 .. Len(bs) /\ Claimable(bs) \subseteq Nat
  BY <1>1 DEF Running, Claimable, ClaimCandidates, Waiting
<1>3. own # {} => Min(own) \in own BY <1>2, OldestIsOne, Zenon
<1>4. Claimable(bs) # {} => Min(Claimable(bs)) \in Claimable(bs) BY <1>2, OldestIsOne
<1>5. CASE i = 0 BY <1>5
<1>6. CASE own # {} /\ i = Min(own) BY <1>2, <1>3, <1>6 DEF Running
<1>7. CASE own = {} /\ Claimable(bs) # {} /\ i = Min(Claimable(bs))
  <2>1. bs[i].state = "queued" /\ i \in 1 .. Len(bs) BY <1>2, <1>4, <1>7, Zenon DEF Claimable, ClaimCandidates, Waiting
  <2>2. \A j \in 1 .. Len(bs) : bs[j].state = "running" => bs[j].owner # w BY <1>1, <1>7, Zenon DEF Running
  <2> QED BY <2>1, <2>2, Zenon
<1> QED BY <1>5, <1>6, <1>7, Zenon DEF OfferedBuild

\* The row of a build a builder took.
LEMMA LeasedOK ==
  ASSUME NEW b \in BuildRow, Sound(b), b.state = "queued", NEW w \in Builders, NEW i, NEW cur, NEW lv, Shown(b, i, cur, lv)
  PROVE  LET c == Leased(b, w) IN
         /\ c \in BuildRow /\ Sound(c) /\ Shown(c, i, cur, lv)
         /\ c.service = b.service /\ c.state = "running" /\ c.owner = w
<1> DEFINE c == Leased(b, w)
<1> PICK d : d = Moved(b.deployment, "building") OBVIOUS
<1> PICK e : e = b.epoch + 1 OBVIOUS
<1>1. d = IF b.deployment = "queued_build" THEN "building" ELSE b.deployment BY DEF Moved, Settled
<1>2. d \in Pending \cup Settled \cup {"rolled", "none"} BY <1>1 DEF BuildRow, Pending
<1>3. e \in 0 .. AttemptLimit
  <2>1. b.epoch \in 0 .. AttemptLimit /\ b.epoch < AttemptLimit BY DEF BuildRow, Sound
  <2> QED BY <2>1, AttemptAssumption
<1>4. c = [b EXCEPT !.state = "running", !.deployment = d, !.owner = w, !.epoch = e]
  <2>1. With(b, "running", "building") = [b EXCEPT !.state = "running", !.deployment = d] BY DEF With
  <2>2. With(b, "running", "building").epoch = b.epoch BY <2>1, Zenon DEF BuildRow
  <2> QED BY <2>1, <2>2, Zenon DEF Leased
<1> HIDE DEF c
<1>5. c \in BuildRow BY <1>2, <1>3, <1>4, Zenon DEF BuildRow
<1>6. /\ c.state = "running" /\ c.deployment = d /\ c.owner = w /\ c.epoch = e /\ c.service = b.service
      /\ c.image = b.image /\ c.cancel = b.cancel
  BY <1>4 DEF BuildRow
<1>7. Sound(c) BY <1>1, <1>6 DEF Sound, Pending
<1>8. Shown(c, i, cur, lv) BY <1>1, <1>6 DEF Shown, Pending
<1> QED BY <1>5, <1>6, <1>7, <1>8 DEF c

\* ClaimBuild: repair, then the builder's own build or a new one.
LEMMA ClaimStep ==
  ASSUME Inv, NEW w \in Builders, NEW fits \in BOOLEAN, NEW heard \in BOOLEAN, ClaimBuild(w, fits, heard)
  PROVE  Inv' /\ RollsOn
<1> DEFINE n == Len(builds)
           bs == RecoveredBuilds(builds)
           rs == ClearedRows([rows EXCEPT ![w].fresh = TRUE, ![w].fits = fits], bs)
           i == OfferedBuild(bs, rs, w)
<1>1. n \in Nat /\ TypeOK /\ Table(builds) /\ \A j \in 1 .. n : Shown(builds[j], j, current, live) BY DEF Inv, TypeOK
<1>2. UNCHANGED <<scope, current, live, rolled, control, reports>> BY SMTT(20) DEF ClaimBuild
<1>3. Evolved(builds, bs) /\ \A j \in 1 .. n : Shown(bs[j], j, current, live) BY <1>1, RecoveredOK, Zenon
<1>4. Table(bs) /\ bs \in Seq(BuildRow) /\ Len(bs) = n /\ DOMAIN bs = 1 .. n /\ \A j \in 1 .. n : bs[j] \in BuildRow
  BY <1>3 DEF Evolved, Table
<1>5. rs \in [Builders -> BuilderRow(n)]
  <2> PICK x \in BuilderRow(n) : x = rows[w] BY <1>1 DEF TypeOK
  <2> DEFINE y == [x EXCEPT !.fresh = TRUE, !.fits = fits]
  <2>1. y \in BuilderRow(n) BY Zenon DEF BuilderRow
  <2>2. [rows EXCEPT ![w].fresh = TRUE, ![w].fits = fits] = [rows EXCEPT ![w] = y] BY <1>1, Zenon DEF TypeOK
  <2> HIDE DEF y
  <2>3. [rows EXCEPT ![w] = y] \in [Builders -> BuilderRow(n)] BY <1>1, <2>1 DEF TypeOK
  <2> QED BY <1>1, <2>2, <2>3, ClearedOK, Zenon
<1>6. /\ builds' = IF i # 0 /\ bs[i].state = "queued" THEN [bs EXCEPT ![i] = Leased(bs[i], w)] ELSE bs
      /\ rows' = IF i # 0 /\ bs[i].state = "queued" THEN [rs EXCEPT ![w].holds = i] ELSE rs
      /\ jobs' = IF i # 0 /\ heard THEN [jobs EXCEPT ![w] = [doing |-> "building", build |-> i, epoch |-> builds'[i].epoch]] ELSE jobs
      /\ faults' \in {faults, faults + 1}
  BY DEF ClaimBuild
<1>7. \/ i = 0
      \/ i \in 1 .. n /\ bs[i].state = "running"
      \/ /\ i \in 1 .. n /\ bs[i].state = "queued"
         /\ \A j \in 1 .. n : bs[j].state = "running" => bs[j].owner # w
  BY <1>4, Offer
<1> HIDE DEF bs, rs, i
<1>8. /\ reports' \subseteq Reported(n) /\ current' \in [Services -> 0 .. n] /\ live' \subseteq Services
      /\ control' \in Control /\ faults' \in Nat /\ rolled' \in [Services -> 0 .. n] /\ jobs \in [Builders -> Job(n)]
  BY <1>1, <1>2, <1>6 DEF TypeOK
<1>9. ASSUME builds' \in Seq(BuildRow), Len(builds') = n PROVE jobs' \in [Builders -> Job(n)]
  <2>1. CASE i # 0 /\ heard
    <3>1. i \in 1 .. n /\ i \in 0 .. n BY <1>1, <1>7, <2>1
    <3>2. builds'[i] \in BuildRow BY <1>9, <3>1
    <3>3. builds'[i].epoch \in 0 .. AttemptLimit BY <3>2 DEF BuildRow
    <3>4. [doing |-> "building", build |-> i, epoch |-> builds'[i].epoch] \in Job(n) BY <2>1, <3>1, <3>3 DEF Job
    <3> QED BY <1>6, <1>8, <2>1, <3>4
  <2>2. CASE ~(i # 0 /\ heard) BY <1>6, <1>8, <2>2
  <2> QED BY <2>1, <2>2
<1>10. CASE ~(i # 0 /\ bs[i].state = "queued")
  <2>1. builds' = bs /\ rows' = rs BY <1>6, <1>10
  <2>2. jobs' \in [Builders -> Job(n)] BY <1>4, <1>9, <2>1
  <2>3. Inv' BY <1>2, <1>3, <1>5, <1>8, <2>1, <2>2, InPlace
  <2> QED BY <1>2, <2>3, RolledSame
<1>11. CASE i # 0 /\ bs[i].state = "queued"
  <2>1. i \in 1 .. n /\ \A j \in 1 .. n : bs[j].state = "running" => bs[j].owner # w BY <1>7, <1>11
  <2> PICK c : c = Leased(bs[i], w) OBVIOUS
  <2>2. /\ c \in BuildRow /\ Sound(c) /\ Shown(c, i, current, live)
        /\ c.service = bs[i].service /\ c.state = "running" /\ c.owner = w
    <3>1. bs[i] \in BuildRow /\ Sound(bs[i]) /\ Shown(bs[i], i, current, live) BY <1>3, <1>4, <2>1 DEF Table
    <3> QED BY <1>11, <3>1, LeasedOK, Zenon
  <2>3. builds' = [bs EXCEPT ![i] = c] BY <1>6, <1>11
  <2>4. builds' \in [1 .. n -> BuildRow] /\ \A j \in 1 .. n : builds'[j] = IF j = i THEN c ELSE bs[j]
    BY <1>4, <2>1, <2>2, <2>3
  <2>5. builds' \in Seq(BuildRow) /\ Len(builds') = n /\ DOMAIN builds' = 1 .. n BY <1>1, <2>4
  <2>6. Table(builds') BY <1>4, <2>2, <2>4, <2>5, Zenon DEF Table
  <2>7. \A j \in 1 .. n : Shown(builds'[j], j, current', live') BY <1>2, <1>3, <2>2, <2>4
  <2>8. jobs' \in [Builders -> Job(n)] BY <1>9, <2>5
  <2>9. rows' \in [Builders -> BuilderRow(n)]
    <3> PICK x \in BuilderRow(n) : x = rs[w] BY <1>5
    <3>1. rows' = [rs EXCEPT ![w] = [x EXCEPT !.holds = i]] BY <1>6, <1>11
    <3>2. i \in 0 .. n BY <1>1, <2>1
    <3>3. [x EXCEPT !.holds = i] \in BuilderRow(n) BY <3>2 DEF BuilderRow
    <3> QED BY <1>5, <3>1, <3>3
  <2>10. RolledOK(builds', rolled')
    <3>1. RolledOK(bs, rolled) BY <1>3, RolledKept DEF Evolved
    <3>2. \A s \in Services : rolled[s] \in 0 .. n BY <1>1 DEF TypeOK
    <3>3. \A s \in Services : rolled[s] # 0 => rolled[s] \in 1 .. n /\ rolled[s] # i BY <1>1, <1>11, <3>1, <3>2 DEF RolledOK
    <3> QED BY <1>2, <2>4, <3>1, <3>3 DEF RolledOK
  <2>11. OneBuildEach'
    <3> SUFFICES ASSUME NEW j \in 1 .. n, NEW k \in 1 .. n, builds'[j].state = "running", builds'[k].state = "running",
                        builds'[j].owner = builds'[k].owner
                 PROVE  j = k
      BY <2>5 DEF OneBuildEach, Running
    <3>1. CASE j = i \/ k = i BY <2>1, <2>2, <2>4, <3>1
    <3>2. CASE j # i /\ k # i
      <4>1. bs[j].state = "running" /\ bs[k].state = "running" /\ bs[j].owner = bs[k].owner BY <2>4, <3>2, SMTT(20)
      <4>2. builds[j].state = "running" /\ builds[k].state = "running" /\ builds[j].owner = builds[k].owner
        BY <1>3, <4>1, Zenon DEF Evolved, Onward
      <4> QED BY <4>2, SMTT(20) DEF Inv, TypeOK, OneBuildEach, Running
    <3> QED BY <3>1, <3>2
  <2>12. Inv' BY <1>2, <1>8, <2>5, <2>6, <2>7, <2>8, <2>9, <2>10, <2>11, Together
  <2> QED BY <1>2, <2>12, RolledSame
<1> QED BY <1>10, <1>11

-----------------------------------------------------------------------------
\* No build has been requested.
LEMMA InvInit == Init => Inv
<1> SUFFICES ASSUME Init PROVE Inv OBVIOUS
<1>1. builds = <<>> /\ Len(builds) = 0 /\ 0 \in 0 .. Len(builds) BY DEF Init
<1>2. Idle \in Job(0) /\ 0 \in 0 .. AttemptLimit BY AttemptAssumption DEF Idle, Job
<1>3. [fresh |-> FALSE, fits |-> FALSE, drained |-> FALSE, holds |-> 0] \in BuilderRow(0) BY DEF BuilderRow
<1>4. rows \in [Builders -> BuilderRow(0)] /\ jobs \in [Builders -> Job(0)] BY <1>2, <1>3 DEF Init
<1>5. builds \in Seq(BuildRow) BY <1>1
<1>6. current \in [Services -> 0 .. 0] /\ rolled \in [Services -> 0 .. 0] BY DEF Init
<1>7. scope \in Scopes /\ live \subseteq Services /\ reports \subseteq Reported(0) /\ faults \in Nat BY DEF Init
<1>8. control \in Control BY DEF Init, Control
<1>9. TypeOK BY <1>1, <1>4, <1>5, <1>6, <1>7, <1>8 DEF TypeOK
<1>10. Table(builds) BY <1>1, <1>5 DEF Table
<1>11. OneBuildEach /\ RolledOK(builds, rolled) BY <1>1, SMTT(20) DEF Init, OneBuildEach, Running, RolledOK
<1> QED BY <1>1, <1>9, <1>10, <1>11 DEF Inv

\* Every step keeps the invariant and rolls no service back.
LEMMA InvStep == ASSUME Inv, [Next]_vars PROVE Inv' /\ RollsOn
<1>1. (\A s \in scope.services : s \in Services) /\ (\A w \in scope.builders : w \in Builders)
  BY ScopeAssumption DEF Inv, TypeOK
<1>2. CASE UNCHANGED vars
  <2>1. UNCHANGED <<scope, builds, current, live, rolled>> /\ UNCHANGED <<rows, jobs, reports, control, faults>> BY <1>2 DEF vars
  <2>2. Inv' BY <2>1, Elsewhere, SMTT(20) DEF Inv, TypeOK
  <2> QED BY <2>1, <2>2, RolledSame
<1>3. ASSUME NEW s \in scope.services,
             \/ EnqueueSourceBuild(s) \/ ReuseBuildArtifact(s) \/ Redeploy(s)
             \/ CancelDeployment(s) \/ DeleteService(s) \/ RestoreService(s)
      PROVE  Inv' /\ RollsOn
  BY <1>1, <1>3, RequestStep, WithdrawStep, DeleteStep, RestoreStep, Zenon
<1>4. CASE SetBuildSchedulerPaused \/ \E s \in scope.services : SetBlocked(s)
  <2>1. UNCHANGED <<scope, builds, current, live, rolled>> /\ UNCHANGED <<rows, jobs, reports, faults>> /\ control' \in Control
    <3>1. control.paused \in BOOLEAN /\ control.blocked \subseteq Services /\ control \in Control BY DEF Inv, TypeOK, Control
    <3>2. CASE SetBuildSchedulerPaused
      <4>1. control' = [control EXCEPT !.paused = ~@] BY <3>2 DEF SetBuildSchedulerPaused
      <4>2. control' \in Control BY <3>1, <4>1 DEF Control
      <4> QED BY <3>2, <4>2 DEF SetBuildSchedulerPaused
    <3>3. ASSUME NEW s \in scope.services, SetBlocked(s)
          PROVE  UNCHANGED <<scope, builds, current, live, rolled>> /\ UNCHANGED <<rows, jobs, reports, faults>> /\ control' \in Control
      <4>1. PICK b \in SUBSET Services : control' = [control EXCEPT !.blocked = b] BY <1>1, <3>1, <3>3 DEF SetBlocked
      <4>2. control' \in Control BY <3>1, <4>1 DEF Control
      <4> QED BY <3>3, <4>2 DEF SetBlocked
    <3> QED BY <1>4, <3>2, <3>3
  <2>2. Inv' BY <2>1, Elsewhere DEF Inv, TypeOK
  <2> QED BY <2>1, <2>2, RolledSame
<1>5. ASSUME NEW w \in Builders,
             \/ \E fits, heard \in BOOLEAN : ClaimBuild(w, fits, heard)
             \/ HeartbeatBuild(w) \/ Abandon(w) \/ Leave(w)
             \/ \E ok \in BOOLEAN : Report(w, ok)
             \/ \E drained \in BOOLEAN : SetBuilderDrain(w, drained)
             \/ BuilderFallsSilent(w)
      PROVE  Inv' /\ RollsOn
  BY <1>5, ClaimStep, HeartbeatStep, BuilderStep
<1> QED BY <1>1, <1>2, <1>3, <1>4, <1>5, RecoverStep, CompleteStep, TimeStep, Zenon DEF Next

-----------------------------------------------------------------------------
\* The invariant holds throughout.
THEOREM Invariant == Spec => []Inv
<1>1. Inv /\ [Next]_vars => Inv' BY InvStep
<1> QED BY <1>1, InvInit, PTL DEF Spec

\* Rows of build_runs and builder_workers have their types, no build is claimed more often
\* than the attempt limit, and whatever is held, done or reported was requested.
THEOREM TypeCorrect == Spec => []TypeOK
<1>1. Inv => TypeOK BY DEF Inv
<1> QED BY <1>1, Invariant, PTL

\* A deployment that waits is the current one and shows the state of its build, whichever of
\* requests, cancellation, deletion, repair, claims and reports ended the build.
THEOREM DeploymentsShowBuilds == Spec => []DeploymentShowsBuild
<1>1. Inv => DeploymentShowsBuild BY DEF Inv, TypeOK, DeploymentShowsBuild, Shown
<1> QED BY <1>1, Invariant, PTL

\* A builder is never leased a second build, whatever answers get lost.
THEOREM BuildersHaveOneBuild == Spec => []OneBuildEach
<1>1. Inv => OneBuildEach BY SMTT(20) DEF Inv
<1> QED BY <1>1, Invariant, PTL

\* The image that is rolled out was built under the latest claim, however late reports are.
THEOREM LatestClaimsWin == Spec => []LatestClaimWins
<1>1. Inv => LatestClaimWins BY DEF Inv, TypeOK, Table, Sound, LatestClaimWins
<1> QED BY <1>1, Invariant, PTL

\* A late build never puts a service back to an older request.
THEOREM RolloutsAreNeverBack == Spec => RolloutsNeverBack
<1>1. Inv /\ [Next]_vars => [\A s \in Services : rolled'[s] >= rolled[s]]_vars BY InvStep DEF RollsOn
<1> QED BY <1>1, Invariant, PTL DEF Spec, RolloutsNeverBack
=============================================================================
