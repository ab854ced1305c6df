--------------------------- MODULE RestartsProofs ---------------------------
(***************************************************************************)
(* An end of the process is counted once, and what crash-loops or backs    *)
(* off is not started, for any settings, any number of ends, generations,  *)
(* forced restarts and faults, and any age of the copies read back.        *)
(***************************************************************************)
EXTENDS Restarts, TLAPS

\* A history o, wherever it is kept, under generation g with e ends so far, container c
\* and at most m restarts (0 for any number): it counts no more than has ended; while the
\* container lies ended, a history that does not wait for its restart lacks that end; the
\* cause agrees with the exit code.
Good(o, m, g, e, c) ==
  /\ o \in Observation /\ o.gen <= g
  /\ o.gen = g => o.count <= e /\ (m > 0 => o.count <= m)
  /\ o.gen = g /\ c.state = "exited" /\ c.gen = g /\ ~o.awaiting /\ ~o.loop => o.count < e
  /\ o.cause \in {"zero", "operator"} => o.exit = "zero"

\* What a reconcile r found: a container that ran and is gone has ended since; one that was
\* down, and is to be counted, has an end that is not counted yet.
Found(r, g, e, c, restarts) ==
  r.pc = "looked" =>
    /\ r.cause = "zero" => r.exit = "zero"
    /\ r.obs.gen = g => /\ r.up /\ c.state # "running" => r.obs.count < e
                        /\ ~r.up /\ ~r.obs.loop /\ ~r.obs.awaiting /\ (restarts \/ c.state = "exited") => r.obs.count < e

\* The inductive invariant.
Inv ==
  /\ TypeOK /\ desired.gen >= 1 /\ container.gen <= desired.gen
  /\ container.state = "exited" /\ container.gen = desired.gen => ends >= 1
  /\ run.pc = "looked" /\ container.state # "none" => container.gen = desired.gen
  /\ \A o \in {file, echo, reported, known} : Good(o, scope.max, desired.gen, ends, container)
  /\ run.pc # "idle" => Good(run.obs, scope.max, desired.gen, ends, container)
  /\ Found(run, desired.gen, ends, container, ShouldRestart(run.cause))

-----------------------------------------------------------------------------
\* No history.
LEMMA EmptyGood == ASSUME NEW m, NEW g \in Nat, g >= 1, NEW e, NEW c PROVE Empty \in Observation /\ Good(Empty, m, g, e, c)
<1>1. Empty \in Observation BY DEF Empty, Observation, End
<1>2. Empty.gen = 0 /\ Empty.cause = "none" BY DEF Empty
<1> QED BY <1>1, <1>2 DEF Good

\* One more end leaves every history at least one short.
LEMMA GoodAfterEnd ==
  ASSUME NEW o, NEW m, NEW g, NEW e \in Nat, NEW c, NEW d, Good(o, m, g, e, c) PROVE Good(o, m, g, e + 1, d)
<1>1. o.count \in Nat BY DEF Good, Observation
<1> QED BY <1>1 DEF Good

\* A container that is started, removed, or stays as it is.
LEMMA GoodBeside ==
  ASSUME NEW o, NEW m, NEW g, NEW e, NEW c, NEW d, Good(o, m, g, e, c),
         d.state # "exited" \/ (d.state = c.state /\ d.gen = c.gen)
  PROVE  Good(o, m, g, e, d)
BY DEF Good

\* A history of an older generation.
LEMMA GoodOlder ==
  ASSUME NEW o, NEW m, NEW g \in Nat, NEW e, NEW c, NEW f, NEW d, Good(o, m, g, e, c) PROVE Good(o, m, g + 1, f, d)
<1>1. o.gen \in Nat BY DEF Good, Observation
<1> QED BY <1>1 DEF Good

\* MergeObservations takes one of the two.
LEMMA LoadedOne == Loaded \in {file, echo}
BY DEF Loaded, MergeObservations

\* What the invariant says of constants and containers.
LEMMA Facts ==
  ASSUME Inv
  PROVE  /\ desired.gen \in Nat /\ desired.gen >= 1 /\ ends \in Nat /\ now \in Nat /\ stamp \in Nat
         /\ scope \in Scopes /\ {scope.max, scope.cap, scope.delay} \subseteq Nat
         /\ Missing \in [state : {"none", "running", "exited"}, gen : Nat, end : End]
         /\ Started \in [state : {"none", "running", "exited"}, gen : Nat, end : End]
         /\ Idle \in [pc : {"idle", "looked", "starting"}, obs : Observation, nonce : Nat, up : BOOLEAN,
                      cause : End, exit : {"zero", "nonzero"}]
         /\ Missing.state = "none" /\ Missing.gen = 0 /\ Started.state = "running" /\ Started.gen = desired.gen
         /\ Idle.pc = "idle"
<1>1. /\ desired.gen \in Nat /\ desired.gen >= 1 /\ ends \in Nat /\ now \in Nat /\ stamp \in Nat /\ scope \in Scopes
  BY DEF Inv, TypeOK
<1>2. {scope.max, scope.cap, scope.delay} \subseteq Nat BY <1>1, RestartBounds
<1>3. Empty \in Observation BY <1>1, EmptyGood
<1>4. /\ Missing \in [state : {"none", "running", "exited"}, gen : Nat, end : End]
      /\ Missing.state = "none" /\ Missing.gen = 0
  BY DEF Missing, End
<1>5. /\ Started \in [state : {"none", "running", "exited"}, gen : Nat, end : End]
      /\ Started.state = "running" /\ Started.gen = desired.gen
  BY <1>1 DEF Started, End
<1>6. /\ Idle \in [pc : {"idle", "looked", "starting"}, obs : Observation, nonce : Nat, up : BOOLEAN,
                   cause : End, exit : {"zero", "nonzero"}]
      /\ Idle.pc = "idle"
  BY <1>3 DEF Idle, End
<1> QED BY <1>1, <1>2, <1>4, <1>5, <1>6

-----------------------------------------------------------------------------
\* A step that leaves generation, ends and container alone, and moves histories about.
LEMMA Passes ==
  ASSUME Inv, TypeOK', UNCHANGED <<scope, ends, container>>, desired'.gen = desired.gen,
         \A o \in {file', echo', reported', known'} : Good(o, scope.max, desired.gen, ends, container),
         run' = run \/ run'.pc = "idle"
  PROVE  Inv'
<1>1. ShouldRestart(run.cause)' = ShouldRestart(run'.cause) BY DEF ShouldRestart
<1>2. run' = run => ShouldRestart(run.cause)' = ShouldRestart(run.cause) BY DEF ShouldRestart
<1>3. Found(run, desired.gen, ends, container, ShouldRestart(run.cause))' BY <1>2 DEF Inv, Found
<1> QED BY <1>3 DEF Inv

\* A step that changes the container without an end, and moves no history.
LEMMA Handles ==
  ASSUME Inv, TypeOK', UNCHANGED <<scope, ends, desired>>,
         \A o \in {file', echo', reported', known'} : Good(o, scope.max, desired.gen, ends, container),
         run'.pc = "idle",
         \/ container'.state # "exited" /\ container'.gen <= desired.gen
         \/ container'.state = container.state /\ container'.gen = container.gen
  PROVE  Inv'
<1>1. \A o \in {file', echo', reported', known'} : Good(o, scope.max, desired.gen, ends, container') BY GoodBeside
<1>2. Found(run, desired.gen, ends, container, ShouldRestart(run.cause))' BY DEF Found
<1> QED BY <1>1, <1>2 DEF Inv

\* A step in which the process ends.
LEMMA EndStep ==
  ASSUME Inv, TypeOK', UNCHANGED <<scope, desired, file, echo, reported, known>>,
         ends' = ends + 1, container'.state # "running",
         container'.gen <= desired.gen, run.pc = "looked" => container'.state = "none" \/ container'.gen = desired.gen,
         run' = run \/ run'.pc = "idle"
  PROVE  Inv'
<1>1. ends \in Nat /\ desired.gen \in Nat BY Facts
<1>2. \A o \in {file', echo', reported', known'} : Good(o, scope.max, desired.gen, ends', container') BY <1>1, GoodAfterEnd DEF Inv
<1>3. run.pc # "idle" => Good(run.obs, scope.max, desired.gen, ends', container') BY <1>1, GoodAfterEnd DEF Inv
<1>4. run.pc # "idle" /\ run.obs.gen = desired.gen => run.obs.count < ends'
  <2>1. run.obs.count \in Nat BY DEF Inv, TypeOK, Observation
  <2> QED BY <1>1, <2>1 DEF Inv, Good
<1>5. Found(run, desired.gen, ends, container, ShouldRestart(run.cause))' BY <1>4 DEF Inv, Found
<1> QED BY <1>1, <1>2, <1>3, <1>5 DEF Inv

-----------------------------------------------------------------------------
\* saveObservation of a history that may be kept.
LEMMA SaveStep ==
  ASSUME Inv, NEW o, Good(o, scope.max, desired.gen, ends, container), NEW starts, Save(o, starts)
  PROVE  Inv'
<1>1. UNCHANGED <<scope, now, desired, container, echo, known, ends, forces>> BY DEF Save
<1>2. o \in Observation /\ o.last \in Nat /\ stamp \in Nat BY Facts DEF Good, Observation
<1>3. Good(Empty, scope.max, desired.gen, ends, container) /\ Empty \in Observation BY Facts, EmptyGood
<1>4. file' \in {file, o, Empty} /\ reported' \in {reported, o, Empty} /\ stamp' \in {stamp, o.last} BY DEF Save
<1>5. force' \in BOOLEAN /\ faults' \in Nat
  <2>1. force' = force \/ force' = FALSE BY Zenon DEF Save
  <2>2. force \in BOOLEAN BY DEF Inv, TypeOK
  <2>3. force' \in BOOLEAN BY <2>1, <2>2, Zenon
  <2>4. faults' = faults \/ faults' = faults + 1 BY DEF Save, Fault
  <2>5. faults \in Nat BY DEF Inv, TypeOK
  <2> QED BY <2>3, <2>4, <2>5
<1>6. \A h \in {file', echo', reported', known'} : Good(h, scope.max, desired.gen, ends, container) BY <1>1, <1>3, <1>4 DEF Inv
<1>7. CASE run' = Idle
  <2>1. TypeOK' BY <1>1, <1>2, <1>3, <1>4, <1>5, <1>7, Facts DEF Inv, TypeOK
  <2> QED BY <1>1, <1>6, <1>7, <2>1, Passes, Facts
<1>8. CASE run' = [run EXCEPT !.pc = "starting", !.obs = o]
  <2>1. /\ run' \in [pc : {"idle", "looked", "starting"}, obs : Observation, nonce : Nat, up : BOOLEAN,
                     cause : End, exit : {"zero", "nonzero"}]
        /\ run'.pc = "starting" /\ run'.obs = o
    BY <1>2, <1>8, Zenon DEF Inv, TypeOK
  <2>2. TypeOK' BY <1>1, <1>2, <1>3, <1>4, <1>5, <2>1 DEF Inv, TypeOK
  <2>3. Found(run, desired.gen, ends, container, ShouldRestart(run.cause))' BY <2>1 DEF Found
  <2> QED BY <1>1, <1>6, <2>1, <2>2, <2>3 DEF Inv
<1> QED BY <1>7, <1>8 DEF Save

\* The delay of a restart.
LEMMA DelayInt == ASSUME Inv, NEW n \in Nat, NEW d \in BackoffDelay(n) PROVE d \in Int
<1>1. scope.cap \in Nat /\ scope.delay \in Nat BY Facts
<1>2. 2^n \in Int BY SMT
<1>3. scope.delay * 2^n \in Int BY <1>1, <1>2
<1> QED BY <1>1, <1>3 DEF BackoffDelay

\* A history that is at least as new as what is desired is of this generation.
LEMMA OfGeneration ==
  ASSUME Inv, run.pc = "looked", ~Authorizes(run.obs, run.nonce)
  PROVE  run.obs.gen = desired.gen
BY Facts DEF Inv, Good, Observation, TypeOK, Authorizes

\* Stability resets the counts.
LEMMA ResetRow ==
  ASSUME NEW k \in Observation, NEW h, h = [k EXCEPT !.count = 0, !.window = 0, !.next = 0]
  PROVE  h \in Observation /\ h.gen = k.gen /\ h.count = 0 /\ h.cause = k.cause /\ h.exit = k.exit
<1>1. 0 \in Nat /\ 0 \in Int OBVIOUS
<1>2. h \in Observation BY <1>1, Zenon DEF Observation
<1>3. h.gen = k.gen /\ h.count = 0 /\ h.cause = k.cause /\ h.exit = k.exit BY Zenon DEF Observation
<1> QED BY <1>2, <1>3

\* Counted, one more restart.
LEMMA CountedOK ==
  ASSUME NEW q \in Observation, NEW d \in Int, now \in Nat, stamp + 1 \in Nat
  PROVE  LET h == Counted(q, d) IN
         h \in Observation /\ h.gen = q.gen /\ h.count = q.count + 1 /\ h.awaiting /\ h.cause = q.cause /\ h.exit = q.exit
<1> DEFINE h == Counted(q, d)
           n == q.count + 1
           w == IF q.window = 0 THEN now ELSE q.window
           l == stamp + 1
           t == now + d
<1>1. n \in Nat /\ w \in Nat /\ l \in Nat /\ t \in Int BY DEF Observation
<1>2. h = [q EXCEPT !.count = n, !.window = w, !.last = l, !.next = t, !.awaiting = TRUE, !.started = 0] BY DEF Counted
<1> HIDE DEF h, n, w, l, t
<1>3. 0 \in Nat OBVIOUS
<1>4. h \in Observation BY <1>1, <1>2, <1>3, Zenon DEF Observation
<1>5. h.gen = q.gen /\ h.count = n /\ h.awaiting /\ h.cause = q.cause /\ h.exit = q.exit BY <1>2, Zenon DEF Observation
<1> QED BY <1>4, <1>5, Zenon DEF h, n

\* The outcomes that allow the allocation to run, or see it run.
LEMMA RunsStep == ASSUME Inv, Adopt \/ Authorize \/ SeeRunning PROVE Inv'
<1> PICK o \in Observation : o = run.obs BY DEF Inv, TypeOK
<1>1. run.pc = "looked" /\ Good(o, scope.max, desired.gen, ends, container) BY DEF Inv, Adopt, Authorize, SeeRunning, Save
<1>2. run.nonce \in Nat /\ stamp + 1 \in Nat /\ now \in Nat /\ desired.gen \in Nat /\ ends \in Nat /\ scope.max \in Nat
  BY Facts DEF Inv, TypeOK
<1>3. container.state = "exited" /\ container.gen = desired.gen => ends >= 1 BY DEF Inv
<1>4. CASE Adopt
  <2> PICK s \in Nat : s = IF o.started = 0 THEN now ELSE o.started BY <1>2 DEF Observation
  <2> PICK h : h = [o EXCEPT !.gen = desired.gen, !.nonce = run.nonce, !.started = s] OBVIOUS
  <2>1. h \in Observation BY <1>2, ZenonT(40) DEF Observation
  <2>2. h.gen = desired.gen /\ h.count = 0 /\ h.cause = o.cause /\ h.exit = o.exit BY <1>4 DEF Observation, Adopt, Adopts
  <2>3. Good(h, scope.max, desired.gen, ends, container) BY <1>1, <1>2, <1>3, <2>1, <2>2 DEF Good
  <2>4. Save(h, FALSE) BY <1>4, Zenon DEF Adopt
  <2> QED BY <2>3, <2>4, SaveStep, Zenon
<1>5. CASE Authorize
  <2> PICK h : h = AuthorizedReset(o, run.nonce) OBVIOUS
  <2>1. h \in Observation
    <3>1. Empty \in Observation BY <1>2, Facts, EmptyGood
    <3> PICK c \in {"operator", "none"} : c = IF run.nonce > o.nonce THEN "operator" ELSE "none" OBVIOUS
    <3>2. h = [Empty EXCEPT !.gen = desired.gen, !.nonce = run.nonce, !.last = stamp + 1, !.cause = c] BY DEF AuthorizedReset
    <3>3. c \in End \cup {"operator"} BY DEF End
    <3> QED BY <1>2, <3>1, <3>2, <3>3, ZenonT(40) DEF Observation
  <2>2. h.gen = desired.gen /\ h.count = 0 /\ h.exit = "zero" BY DEF AuthorizedReset, Empty
  <2>3. Good(h, scope.max, desired.gen, ends, container) BY <1>2, <1>3, <2>1, <2>2 DEF Good
  <2>4. Save(h, TRUE) BY <1>5, Zenon DEF Authorize
  <2> QED BY <2>3, <2>4, SaveStep, Zenon
<1>6. CASE SeeRunning
  <2> PICK s \in Nat : s = IF o.started = 0 THEN now ELSE o.started BY <1>2 DEF Observation
  <2> PICK k : k = [o EXCEPT !.started = s, !.awaiting = FALSE, !.loop = FALSE, !.gen = desired.gen, !.nonce = run.nonce] OBVIOUS
  <2>1. k \in Observation BY <1>2, ZenonT(40) DEF Observation
  <2>2. k.gen = desired.gen /\ k.count = o.count /\ k.cause = o.cause /\ k.exit = o.exit BY DEF Observation
  <2>3. o.gen = desired.gen BY <1>1, <1>6, OfGeneration DEF SeeRunning
  <2>4. container.state = "exited" => o.count < ends BY <1>1, <1>6, <2>3 DEF SeeRunning, Inv, Found
  <2>5. Good(k, scope.max, desired.gen, ends, container) BY <1>1, <2>1, <2>2, <2>3, <2>4 DEF Good
  <2> PICK h : h = ResetCrashHistory(k) OBVIOUS
  <2>6. h \in Observation /\ h.gen = desired.gen /\ h.count = 0 /\ h.cause = o.cause /\ h.exit = o.exit
    <3>1. h = [k EXCEPT !.count = 0, !.window = 0, !.next = 0] BY DEF ResetCrashHistory
    <3>2. h \in Observation /\ h.gen = k.gen /\ h.count = 0 /\ h.cause = k.cause /\ h.exit = k.exit BY <2>1, <3>1, ResetRow, Zenon
    <3> QED BY <2>2, <3>2
  <2>7. Good(h, scope.max, desired.gen, ends, container) BY <1>1, <1>2, <1>3, <2>6 DEF Good
  <2>8. Save(k, FALSE) \/ Save(h, FALSE) BY <1>6, Zenon DEF SeeRunning, SeenRunning
  <2> QED BY <2>5, <2>7, <2>8, SaveStep, Zenon
<1> QED BY <1>4, <1>5, <1>6

\* The outcomes for a container that is down: an end is counted only while a count is due.
LEMMA DownStep == ASSUME Inv, StayLooped \/ Stop \/ EnterLoop \/ CountRestart \/ AwaitRestart PROVE Inv'
<1> PICK o \in Observation : o = run.obs BY DEF Inv, TypeOK
<1>1. run.pc = "looked" /\ Good(o, scope.max, desired.gen, ends, container)
  BY Zenon DEF Inv, StayLooped, Stop, EnterLoop, CountRestart, AwaitRestart, Save
<1>2. o.gen = desired.gen /\ ~run.up
  BY <1>1, OfGeneration, Zenon DEF StayLooped, Stop, EnterLoop, CountRestart, AwaitRestart, JustDown, Down
<1>3. ends \in Nat /\ stamp + 1 \in Nat /\ now \in Nat /\ scope.max \in Nat BY Facts
<1> PICK x \in {"zero", "nonzero"} : x = IF run.cause = "liveness" THEN o.exit ELSE run.exit BY DEF Observation, Inv, TypeOK
<1> PICK c \in End : c = run.cause BY DEF Inv, TypeOK
<1>4. Ended(o) = [o EXCEPT !.cause = c, !.exit = x] BY DEF Ended
<1>5. c \in End \cup {"operator"} /\ c # "operator" /\ (c = "zero" => x = "zero")
  BY <1>1 DEF End, Inv, Found
<1>6. CASE StayLooped
  <2> PICK h : h = [o EXCEPT !.awaiting = FALSE] BY Zenon
  <2>1. h \in Observation BY Zenon DEF Observation
  <2>2. h.gen = o.gen /\ h.count = o.count /\ h.loop /\ h.cause = o.cause /\ h.exit = o.exit BY <1>6 DEF StayLooped, Observation
  <2>3. Good(h, scope.max, desired.gen, ends, container) BY <1>1, <2>1, <2>2 DEF Good
  <2>4. Save(h, FALSE) BY <1>6, Zenon DEF StayLooped
  <2> QED BY <2>3, <2>4, SaveStep, Zenon
<1>7. CASE AwaitRestart
  <2>1. Save(o, o.next = 0 \/ now >= o.next) BY <1>7 DEF AwaitRestart
  <2> QED BY <1>1, <2>1, SaveStep
<1>8. CASE Stop
  <2> PICK h : h = [o EXCEPT !.cause = c, !.exit = x] OBVIOUS
  <2>1. h \in Observation BY <1>5, Zenon DEF Observation
  <2>2. h.gen = o.gen /\ h.count = o.count /\ h.cause = c /\ h.exit = x BY DEF Observation
  <2>3. container.state = "exited" => o.count < ends BY <1>1, <1>2, <1>8 DEF Inv, Found, Stop, JustDown
  <2>4. Good(h, scope.max, desired.gen, ends, container) BY <1>1, <1>5, <2>1, <2>2, <2>3 DEF Good
  <2>5. Save(h, FALSE) BY <1>4, <1>8, Zenon DEF Stop
  <2> QED BY <2>4, <2>5, SaveStep, Zenon
<1>9. CASE EnterLoop
  <2> PICK h : h = [[o EXCEPT !.cause = c, !.exit = x] EXCEPT !.loop = TRUE] OBVIOUS
  <2>1. h \in Observation BY <1>5, ZenonT(40) DEF Observation
  <2>2. h.gen = o.gen /\ h.count = o.count /\ h.loop /\ h.cause = c /\ h.exit = x BY DEF Observation
  <2>3. Good(h, scope.max, desired.gen, ends, container) BY <1>1, <1>5, <2>1, <2>2 DEF Good
  <2>4. Save(h, FALSE) BY <1>4, <1>9, Zenon DEF EnterLoop
  <2> QED BY <2>3, <2>4, SaveStep, Zenon
<1>10. CASE CountRestart
  <2>1. PICK d \in BackoffDelay(o.count) : Save(Counted(Ended(o), d), d = 0) BY <1>10 DEF CountRestart
  <2>2. o.count \in Nat /\ d \in Int /\ now + d \in Int BY <1>3, DelayInt DEF Observation
  <2> PICK q : q = [o EXCEPT !.cause = c, !.exit = x] OBVIOUS
  <2>3. q \in Observation BY <1>5, Zenon DEF Observation
  <2>4. q.gen = o.gen /\ q.count = o.count /\ q.cause = c /\ q.exit = x BY DEF Observation
  <2>6. PICK h : h = Counted(q, d) OBVIOUS
  <2>7. h \in Observation /\ h.gen = q.gen /\ h.count = q.count + 1 /\ h.awaiting /\ h.cause = q.cause /\ h.exit = q.exit
    <3>1. now \in Nat /\ stamp + 1 \in Nat /\ d \in Int BY <1>3, <2>2
    <3> QED BY ONLY <2>3, <2>6, <3>1, CountedOK, Zenon
  <2>8. h.gen = o.gen /\ h.count = o.count + 1 /\ h.cause = c /\ h.exit = x BY <2>4, <2>7
  <2>9. o.count < ends BY <1>1, <1>2, <1>10 DEF Inv, Found, CountRestart, JustDown
  <2>10. scope.max > 0 => o.count < scope.max BY <1>3, <1>10, <2>2 DEF CountRestart, BudgetExhausted
  <2>11. Good(h, scope.max, desired.gen, ends, container) BY <1>2, <1>3, <1>5, <2>2, <2>7, <2>8, <2>9, <2>10, Facts DEF Good
  <2>12. Save(h, d = 0) BY <1>4, <2>1, <2>6
  <2> QED BY <2>11, <2>12, SaveStep
<1> QED BY <1>6, <1>7, <1>8, <1>9, <1>10

\* What a reconcile may find.
LEMMA Finds ==
  ASSUME Inv, TypeOK', UNCHANGED <<scope, desired, file, echo, reported, known>>,
         run'.pc = "looked",
         \A o \in {file, echo, reported, known, run'.obs} : Good(o, scope.max, desired.gen, ends', container'),
         container'.gen <= desired.gen, container'.state # "none" => container'.gen = desired.gen,
         container'.state = "exited" => ends' >= 1,
         run'.cause = "zero" => run'.exit = "zero",
         run'.up => container'.state = "running",
         /\ ~run'.up /\ ~run'.obs.loop /\ ~run'.obs.awaiting /\ run'.obs.gen = desired.gen
         /\ (ShouldRestart(run'.cause) \/ container'.state = "exited")
         => run'.obs.count < ends'
  PROVE  Inv'
<1>1. ShouldRestart(run.cause)' = ShouldRestart(run'.cause) BY DEF ShouldRestart
<1>2. Found(run, desired.gen, ends, container, ShouldRestart(run.cause))' BY <1>1 DEF Found
<1> QED BY <1>2 DEF Inv

\* A reconcile loads the history and looks at the container, or starts one.
LEMMA LookStep == ASSUME Inv, Look \/ LookReclaims PROVE Inv'
<1>1. UNCHANGED <<scope, now, desired, file, echo, reported, known, stamp, forces, faults>> /\ force' = FALSE /\ run.pc = "idle"
  BY DEF Look, LookReclaims
<1> PICK o \in Observation : o = Loaded BY LoadedOne DEF Inv, TypeOK
<1>2. \A h \in {file, echo, reported, known, o} : Good(h, scope.max, desired.gen, ends, container) BY LoadedOne DEF Inv
<1> PICK k \in Nat : k = Nonce BY DEF Nonce, Observation
<1>3. desired.gen \in Nat /\ ends \in Nat /\ container.gen <= desired.gen BY Facts DEF Inv
<1>4. ASSUME NEW s \in [up : BOOLEAN, cause : End, exit : {"zero", "nonzero"}], Looked(o, s)
      PROVE  /\ run'.pc = "looked" /\ run'.obs = o /\ run'.up = s.up /\ run'.cause = s.cause /\ run'.exit = s.exit
             /\ run' \in [pc : {"idle", "looked", "starting"}, obs : Observation, nonce : Nat, up : BOOLEAN,
                          cause : End, exit : {"zero", "nonzero"}]
  BY <1>4 DEF Looked
<1>5. StatusFound \in [up : BOOLEAN, cause : End, exit : {"zero", "nonzero"}]
      /\ StatusFound.up = (container.state = "running") /\ (StatusFound.cause = "zero" => StatusFound.exit = "zero")
  <2>1. container.end \in End BY DEF Inv, TypeOK
  <2>2. ExitOf(container.end) \in {"zero", "nonzero"} /\ (container.end = "zero" => ExitOf(container.end) = "zero")
    BY DEF ExitOf, Failure
  <2> QED BY <2>1, <2>2 DEF StatusFound
<1>6. ASSUME ends' \in Nat, container' \in [state : {"none", "running", "exited"}, gen : Nat, end : End],
             run' \in [pc : {"idle", "looked", "starting"}, obs : Observation, nonce : Nat, up : BOOLEAN,
                       cause : End, exit : {"zero", "nonzero"}]
      PROVE  TypeOK'
  BY <1>1, <1>6, Zenon DEF Inv, TypeOK
<1>7. CASE Look /\ Matches
  <2>1. container' = container /\ ends' = ends /\ Looked(o, StatusFound) BY <1>7 DEF Look
  <2>2. /\ run'.pc = "looked" /\ run'.obs = o /\ run'.up = (container.state = "running") /\ TypeOK'
        /\ run'.cause = "zero" => run'.exit = "zero"
    BY <1>3, <1>4, <1>5, <1>6, <2>1 DEF Inv, TypeOK
  <2>3. container.state \in {"running", "exited"} /\ container.gen = desired.gen BY <1>7 DEF Matches, Inv, TypeOK
  <2>4. ~run'.up /\ ~o.loop /\ ~o.awaiting /\ o.gen = desired.gen => o.count < ends BY <1>2, <2>2, <2>3, Zenon DEF Good
  <2> QED BY <1>1, <1>2, <2>1, <2>2, <2>3, <2>4, Finds, Zenon DEF Inv
<1>8. CASE Look /\ ~Matches /\ Preserve(o, k)
  <2>1. container' = Missing /\ ends' = ends /\ Looked(o, StatusSaved(o)) BY <1>8 DEF Look
  <2>2. StatusSaved(o) \in [up : BOOLEAN, cause : End, exit : {"zero", "nonzero"}] BY DEF StatusSaved, Observation, End
  <2>3. ~StatusSaved(o).up /\ StatusSaved(o).exit = o.exit /\ StatusSaved(o).cause = IF o.cause = "kill" THEN "kill" ELSE o.exit
    BY DEF StatusSaved
  <2>4. /\ run'.pc = "looked" /\ run'.obs = o /\ ~run'.up /\ TypeOK' /\ (run'.cause = "zero" => run'.exit = "zero")
        /\ run'.cause = IF o.cause = "kill" THEN "kill" ELSE o.exit
    BY <1>3, <1>4, <1>6, <2>1, <2>2, <2>3, Facts
  <2>5. \A h \in {file, echo, reported, known, o} : Good(h, scope.max, desired.gen, ends', container')
    BY <1>2, <2>1, GoodBeside, Facts
  <2>6. ~o.loop /\ ~o.awaiting => ~ShouldRestart(run'.cause)
    <3>1. ~o.loop /\ ~o.awaiting => o.cause # "none" /\ ~ShouldRestart(o.cause) BY <1>8 DEF Preserve
    <3>2. o.cause \in {"zero", "operator"} => o.exit = "zero" BY <1>2 DEF Good
    <3>3. scope.policy = "always" \/ scope.policy = "never" \/ (\A c : ShouldRestart(c) = Failure(c)) BY Zenon DEF ShouldRestart
    <3>4. o.cause \in End \cup {"operator"} BY DEF Observation
    <3> QED BY <2>4, <3>1, <3>2, <3>3, <3>4 DEF ShouldRestart, Failure, End
  <2> QED BY <1>1, <1>3, <2>1, <2>4, <2>5, <2>6, Finds, Facts
<1>9. CASE Look /\ ~Matches /\ ~Preserve(o, k)
  <2>1. container' = Started /\ ends' = ends /\ Looked(o, StatusStarted) BY <1>9 DEF Look
  <2>2. StatusStarted \in [up : BOOLEAN, cause : End, exit : {"zero", "nonzero"}] BY DEF StatusStarted, End
  <2>3. run'.pc = "looked" /\ run'.obs = o /\ run'.up = TRUE /\ run'.cause = "none" /\ TypeOK'
    BY <1>3, <1>4, <1>6, <2>1, <2>2, Facts, Zenon DEF StatusStarted
  <2>4. \A h \in {file, echo, reported, known, o} : Good(h, scope.max, desired.gen, ends', container')
    BY <1>2, <2>1, GoodBeside, Facts
  <2> QED BY <1>1, <1>3, <2>1, <2>3, <2>4, Finds, Facts
<1>10. CASE LookReclaims
  <2> PICK s : s = [StatusFound EXCEPT !.up = FALSE, !.cause = "kill"] OBVIOUS
  <2>1. s \in [up : BOOLEAN, cause : End, exit : {"zero", "nonzero"}] /\ ~s.up /\ s.cause = "kill" BY <1>5, Zenon DEF End
  <2>2. container' = Missing /\ Looked(o, s) /\ Matches BY <1>10 DEF LookReclaims, Ends
  <2>3. ends' = (IF container.state = "running" THEN ends + 1 ELSE ends) BY <1>10 DEF LookReclaims, Ends
  <2>4. run'.pc = "looked" /\ run'.obs = o /\ ~run'.up /\ run'.cause = "kill" /\ TypeOK'
    <3>1. ends' \in Nat BY <1>3, <2>3
    <3>2. container' \in [state : {"none", "running", "exited"}, gen : Nat, end : End] BY <2>2, Facts
    <3>3. /\ run'.pc = "looked" /\ run'.obs = o /\ run'.up = s.up /\ run'.cause = s.cause
          /\ run' \in [pc : {"idle", "looked", "starting"}, obs : Observation, nonce : Nat, up : BOOLEAN,
                       cause : End, exit : {"zero", "nonzero"}]
      BY <1>4, <2>1, <2>2, Zenon
    <3>4. TypeOK' BY <1>6, <3>1, <3>2, <3>3, Zenon
    <3> QED BY <2>1, <3>3, <3>4, Zenon
  <2>5. \A h \in {file, echo, reported, known, o} : Good(h, scope.max, desired.gen, ends', container')
    <3>1. CASE ends' = ends + 1 BY <1>2, <1>3, <3>1, GoodAfterEnd
    <3>2. CASE ends' = ends
      <4>1. container'.state # "exited" BY <2>2, Facts
      <4> QED BY <1>2, <3>2, <4>1, GoodBeside
    <3> QED BY <2>3, <3>1, <3>2
  <2>6. container.state \in {"running", "exited"} /\ container.gen = desired.gen BY <2>2 DEF Matches, Inv, TypeOK
  <2>7. ~o.loop /\ ~o.awaiting /\ o.gen = desired.gen => o.count < ends'
    <3>1. o.count \in Nat BY DEF Observation
    <3> QED BY <1>2, <1>3, <2>3, <2>6, <3>1 DEF Good
  <2> QED BY <1>1, <1>3, <2>2, <2>4, <2>5, <2>7, Finds, Facts
<1> QED BY <1>7, <1>8, <1>9, <1>10

\* A liveness failure removes the container a reconcile found running.
LEMMA LivenessStep == ASSUME Inv, LivenessFails PROVE Inv'
<1>1. UNCHANGED <<scope, now, desired, force, file, echo, reported, known, stamp, forces, faults>> BY DEF LivenessFails
<1>2. run.pc = "looked" /\ run.up /\ run' = [run EXCEPT !.up = FALSE, !.cause = "liveness"] BY DEF LivenessFails
<1>3. /\ run' \in [pc : {"idle", "looked", "starting"}, obs : Observation, nonce : Nat, up : BOOLEAN,
                   cause : End, exit : {"zero", "nonzero"}]
      /\ run'.pc = "looked" /\ run'.obs = run.obs /\ ~run'.up /\ run'.cause = "liveness"
  BY <1>2, Zenon DEF Inv, TypeOK, End
<1>4. container' = Missing BY DEF LivenessFails, Ends
<1>5. ends' = (IF container.state = "running" THEN ends + 1 ELSE ends) BY DEF LivenessFails, Ends
<1>6. ends \in Nat /\ desired.gen \in Nat /\ run.obs.count \in Nat BY Facts DEF Inv, TypeOK, Observation
<1>7. TypeOK'
  <2>1. ends' \in Nat BY <1>5, <1>6
  <2>2. container' \in [state : {"none", "running", "exited"}, gen : Nat, end : End] BY <1>4, Facts
  <2> QED BY <1>1, <1>3, <2>1, <2>2, Zenon DEF Inv, TypeOK
<1>8. \A h \in {file, echo, reported, known, run.obs} : Good(h, scope.max, desired.gen, ends', container')
  <2>1. \A h \in {file, echo, reported, known, run.obs} : Good(h, scope.max, desired.gen, ends, container) BY <1>2 DEF Inv
  <2>2. CASE ends' = ends + 1 BY <1>6, <2>1, <2>2, GoodAfterEnd
  <2>3. CASE ends' = ends
    <3>1. container'.state # "exited" BY <1>4, Facts
    <3> QED BY <2>1, <2>3, <3>1, GoodBeside
  <2> QED BY <1>5, <2>2, <2>3
<1>9. run.obs.gen = desired.gen => run.obs.count < ends'
  <2>1. run.obs.gen = desired.gen => run.obs.count <= ends BY <1>2 DEF Inv, Good
  <2>2. run.obs.gen = desired.gen /\ container.state # "running" => run.obs.count < ends BY <1>2 DEF Inv, Found
  <2> QED BY <1>5, <1>6, <2>1, <2>2
<1> QED BY <1>1, <1>3, <1>4, <1>6, <1>7, <1>8, <1>9, Finds, Facts

\* Ends of the process, reboots and crashes of the agent.
LEMMA FaultStep ==
  ASSUME Inv, (\E cause \in {"zero", "nonzero", "kill"} : Exit(cause)) \/ Reboot \/ AgentCrash
  PROVE  Inv'
<1>1. UNCHANGED <<scope, now, desired, file, echo, reported, known, stamp, forces>> BY DEF Exit, Reboot, AgentCrash
<1>2. ends \in Nat /\ desired.gen \in Nat BY Facts
<1>3. faults' \in Nat BY DEF Exit, Reboot, AgentCrash, Fault, Inv, TypeOK
<1>4. force' \in BOOLEAN
  <2>1. force' = force \/ force' = FALSE BY Zenon DEF Exit, Reboot, AgentCrash
  <2>2. force \in BOOLEAN BY DEF Inv, TypeOK
  <2> QED BY <2>1, <2>2, Zenon
<1>5. run' = run \/ run' = Idle BY DEF Exit, Reboot, AgentCrash
<1>6. run' = run \/ run'.pc = "idle" BY <1>5, Facts
<1>7. run' \in [pc : {"idle", "looked", "starting"}, obs : Observation, nonce : Nat, up : BOOLEAN,
                cause : End, exit : {"zero", "nonzero"}]
  BY <1>5, Facts DEF Inv, TypeOK
<1>8. ASSUME NEW x \in {"zero", "nonzero", "kill"}, container.state = "running", Ends([container EXCEPT !.state = "exited", !.end = x])
      PROVE  Inv'
  <2>1. /\ container' \in [state : {"none", "running", "exited"}, gen : Nat, end : End]
        /\ container'.state = "exited" /\ container'.gen = container.gen /\ ends' = ends + 1
    BY <1>8, Zenon DEF Inv, TypeOK, Ends, End
  <2>2. ends' \in Nat BY <1>2, <2>1
  <2>3. TypeOK' BY <1>1, <1>3, <1>4, <1>7, <2>1, <2>2, Zenon DEF Inv, TypeOK
  <2>4. container'.gen <= desired.gen /\ (run.pc = "looked" => container'.gen = desired.gen) BY <1>8, <2>1 DEF Inv
  <2> QED BY <1>1, <1>6, <2>1, <2>3, <2>4, EndStep
<1>9. ASSUME run' = Idle, ends' = ends, container' = container \/ container' = [container EXCEPT !.end = "zero"] PROVE Inv'
  <2>1. /\ container' \in [state : {"none", "running", "exited"}, gen : Nat, end : End]
        /\ container'.state = container.state /\ container'.gen = container.gen
    BY <1>9 DEF Inv, TypeOK, End
  <2>2. TypeOK' BY <1>1, <1>2, <1>3, <1>4, <1>7, <1>9, <2>1, Zenon DEF Inv, TypeOK
  <2>3. \A o \in {file', echo', reported', known'} : Good(o, scope.max, desired.gen, ends, container) BY <1>1 DEF Inv
  <2> QED BY <1>1, <1>9, <2>1, <2>2, <2>3, Handles, Facts
<1>10. CASE \E cause \in {"zero", "nonzero", "kill"} : Exit(cause) BY <1>8, <1>10, Zenon DEF Exit
<1>11. CASE Reboot BY <1>8, <1>9, <1>11 DEF Reboot
<1>12. CASE AgentCrash BY <1>9, <1>12 DEF AgentCrash
<1> QED BY <1>10, <1>11, <1>12

\* The engine starts, fails to start, or removes the container.
LEMMA EngineStep == ASSUME Inv, Restart \/ RestartFails \/ LookFails \/ StopService \/ RestartManagedDashboard PROVE Inv'
<1>1. UNCHANGED <<scope, now, desired, file, echo, known, stamp, ends>>
  BY DEF Restart, RestartFails, LookFails, StopService, RestartManagedDashboard
<1>2. desired.gen \in Nat /\ desired.gen >= 1 /\ Missing.gen = 0 /\ Missing.state = "none" /\ Started.gen = desired.gen /\ Started.state = "running"
  BY Facts
<1>3. (run' = run /\ run.pc = "idle") \/ run' = Idle
  BY DEF Restart, RestartFails, LookFails, StopService, RestartManagedDashboard
<1>4. container' \in {container, Missing, Started}
  BY DEF Restart, RestartFails, LookFails, StopService, RestartManagedDashboard
<1>5. Good(Empty, scope.max, desired.gen, ends, container) /\ Empty \in Observation BY Facts, EmptyGood
<1>6. Good(Loaded, scope.max, desired.gen, ends, container) BY LoadedOne DEF Inv
<1>7. \/ reported' \in {reported, Empty, Loaded}
      \/ run.pc = "starting" /\ reported' = run.obs
  BY DEF Restart, RestartFails, LookFails, StopService, RestartManagedDashboard
<1>8. Good(reported', scope.max, desired.gen, ends, container) BY <1>5, <1>6, <1>7 DEF Inv
<1>9. reported' \in Observation BY <1>8 DEF Good
<1>10. faults' \in Nat /\ forces' \in Nat
  BY DEF Restart, RestartFails, LookFails, StopService, RestartManagedDashboard, Fault, Inv, TypeOK
<1>11. force' \in BOOLEAN
  <2>1. force' = force \/ force' = FALSE \/ force' = TRUE
    BY Zenon DEF Restart, RestartFails, LookFails, StopService, RestartManagedDashboard
  <2>2. force \in BOOLEAN BY DEF Inv, TypeOK
  <2> QED BY <2>1, <2>2, Zenon
<1>12. TypeOK'
  <2>1. run' \in [pc : {"idle", "looked", "starting"}, obs : Observation, nonce : Nat, up : BOOLEAN,
                  cause : End, exit : {"zero", "nonzero"}]
    BY <1>3, Facts DEF Inv, TypeOK
  <2>2. container' \in [state : {"none", "running", "exited"}, gen : Nat, end : End] BY <1>4, Facts DEF Inv, TypeOK
  <2> QED BY <1>1, <1>9, <1>10, <1>11, <2>1, <2>2, Zenon DEF Inv, TypeOK
<1>13. \A o \in {file', echo', reported', known'} : Good(o, scope.max, desired.gen, ends, container) BY <1>1, <1>8 DEF Inv
<1>14. run'.pc = "idle" BY <1>3, Facts
<1>15. \/ container'.state # "exited" /\ container'.gen <= desired.gen
       \/ container'.state = container.state /\ container'.gen = container.gen
  BY <1>2, <1>4
<1> QED BY <1>1, <1>12, <1>13, <1>14, <1>15, Handles

\* The control plane's copies, sleep and wake, and time.
LEMMA CopyStep ==
  ASSUME Inv, RecordObservation \/ LoseLiveRole \/ AcceptOverlay \/ Tick \/ (\E i \in {"run", "stop"} : SetIntent(i))
  PROVE  Inv'
<1>1. UNCHANGED <<scope, force, container, file, reported, run, stamp, ends, forces, faults>>
  BY DEF RecordObservation, LoseLiveRole, AcceptOverlay, Tick, SetIntent
<1>2. known' \in {known, reported, Empty} /\ echo' \in {echo, known} /\ now' \in {now, now + 1}
  BY DEF RecordObservation, LoseLiveRole, AcceptOverlay, Tick, SetIntent
<1>3. Good(Empty, scope.max, desired.gen, ends, container) /\ Empty \in Observation BY Facts, EmptyGood
<1>4. desired' \in [gen : Nat, intent : {"run", "stop"}] /\ desired'.gen = desired.gen
  BY DEF RecordObservation, LoseLiveRole, AcceptOverlay, Tick, SetIntent, Inv, TypeOK
<1>5. TypeOK' BY <1>1, <1>2, <1>3, <1>4 DEF Inv, TypeOK
<1>6. \A o \in {file', echo', reported', known'} : Good(o, scope.max, desired.gen, ends, container) BY <1>1, <1>2, <1>3 DEF Inv
<1> QED BY <1>1, <1>4, <1>5, <1>6, Passes

\* A new generation.
LEMMA RetargetStep == ASSUME Inv, Retarget PROVE Inv'
<1>1. /\ UNCHANGED <<scope, now, force, container, file, run, stamp, forces, faults>> /\ run.pc = "idle" /\ ends' = 0
      /\ echo' = Empty /\ known' = Empty /\ reported' = Empty
  BY DEF Retarget
<1>2. desired' \in [gen : Nat, intent : {"run", "stop"}] /\ desired'.gen = desired.gen + 1 BY DEF Retarget, Inv, TypeOK
<1>3. desired.gen \in Nat /\ desired.gen >= 1 /\ container.gen \in Nat /\ container.gen <= desired.gen BY Facts DEF Inv, TypeOK
<1>4. Empty \in Observation /\ Good(Empty, scope.max, desired'.gen, ends', container) BY <1>2, <1>3, EmptyGood
<1>5. TypeOK' BY <1>1, <1>2, <1>4 DEF Inv, TypeOK
<1>6. Good(file, scope.max, desired'.gen, ends', container) BY <1>2, <1>3, GoodOlder DEF Inv
<1>7. Found(run, desired.gen, ends, container, ShouldRestart(run.cause))' BY <1>1 DEF Found
<1> QED BY <1>1, <1>2, <1>3, <1>4, <1>5, <1>6, <1>7 DEF Inv

-----------------------------------------------------------------------------
\* Nothing has been placed on the node.
LEMMA InvInit == Init => Inv
<1> SUFFICES ASSUME Init PROVE Inv OBVIOUS
<1>1. desired.gen = 1 /\ ends = 0 /\ container.gen = 0 /\ container.state = "none" /\ run.pc = "idle" BY DEF Init, Missing, Idle
<1>2. Empty \in Observation /\ Good(Empty, scope.max, desired.gen, ends, container) BY <1>1, EmptyGood
<1>3. container \in [state : {"none", "running", "exited"}, gen : Nat, end : End] BY DEF Init, Missing, End
<1>4. run \in [pc : {"idle", "looked", "starting"}, obs : Observation, nonce : Nat, up : BOOLEAN,
               cause : End, exit : {"zero", "nonzero"}]
  BY <1>2 DEF Init, Idle, End
<1>5. force \in BOOLEAN BY Zenon DEF Init
<1>6. TypeOK BY <1>2, <1>3, <1>4, <1>5 DEF Init, TypeOK
<1>7. Found(run, desired.gen, ends, container, ShouldRestart(run.cause)) BY <1>1 DEF Found
<1> QED BY <1>1, <1>2, <1>6, <1>7 DEF Init, Inv

\* Every step keeps the invariant.
LEMMA InvStep == ASSUME Inv, [Next]_vars PROVE Inv'
<1>1. CASE UNCHANGED vars
  <2>1. TypeOK' BY <1>1 DEF Inv, TypeOK, vars
  <2> QED BY <1>1, <2>1, Passes, Zenon DEF Inv, vars
<1>2. CASE Next
  BY <1>2, LookStep, RunsStep, DownStep, EngineStep, LivenessStep, FaultStep, CopyStep, RetargetStep DEF Next, Reconcile, Evaluate
<1> QED BY <1>1, <1>2, Zenon

-----------------------------------------------------------------------------
\* The invariant holds throughout.
THEOREM Invariant == Spec => []Inv
<1>1. Inv /\ [Next]_vars => Inv' BY InvStep
<1> QED BY <1>1, InvInit, PTL DEF Spec

\* Histories, the container and the reconcile have their types in the file and in every copy.
THEOREM TypeCorrect == Spec => []TypeOK
<1>1. Inv => TypeOK BY DEF Inv
<1> QED BY <1>1, Invariant, PTL

\* The saved history never counts more restarts than the process had ends, nor more than
\* MaxRestarts, whatever is torn, read back late, reclaimed, rebooted or retargeted.
THEOREM EndsAreCountedOnce == Spec => []CountedOnce
<1>1. Inv => CountedOnce BY DEF Inv, Good, CountedOnce
<1> QED BY <1>1, Invariant, PTL

-----------------------------------------------------------------------------
(* Which history counts when several are left: the order of LastRestartAt *)

\* A history that counts, waits or has given up was stamped, under some generation.
Stamped(o, s) == /\ o.last <= s /\ (o.awaiting \/ o.loop \/ o.count > 0 => o.last > 0)
                 /\ o.last > 0 => o.gen >= 1

\* Two histories of one decision are of one generation, and none counts more than
\* the one that still waits.
Agree(x, y) == x.last = y.last /\ x.last > 0 => x.gen = y.gen /\ (x.awaiting => y.count <= x.count)

Copies == {file, echo, reported, known, run.obs}

\* The inductive invariant: copies agree; without torn files none is newer than the
\* file, and a reconcile works on nothing older than it; what is about to start may.
Aged == /\ \A x \in Copies : Stamped(x, stamp)
        /\ \A x, y \in Copies : Agree(x, y)
        /\ "torn" \in scope.events \/ \A x \in Copies : x.last <= file.last
        /\ run.pc = "looked" => file.last <= run.obs.last
        /\ run.pc = "starting" => ~file.loop /\ (file.awaiting => file.next <= now)

\* The fields of a history that are compared.
LEMMA Fields ==
  ASSUME Inv, NEW o \in Copies
  PROVE  /\ o \in Observation /\ o.last \in Nat /\ o.count \in Nat /\ o.gen \in Nat /\ o.nonce \in Nat /\ o.next \in Int
         /\ o.awaiting \in BOOLEAN /\ o.loop \in BOOLEAN
<1>1. o \in Observation BY DEF Inv, TypeOK, Copies
<1> QED BY <1>1 DEF Observation

\* When MergeObservations takes the copy.
LEMMA MergeTakes ==
  ASSUME NEW l, NEW r, MergeObservations(l, r) # l
  PROVE  MergeObservations(l, r) = r /\ (l = Empty \/ RemoteCounts(l, r))
BY DEF MergeObservations

\* MergeObservations never takes a history older than the file's.
LEMMA MergeNewer ==
  ASSUME NEW l \in Observation, NEW r \in Observation PROVE MergeObservations(l, r).last >= l.last
<1>1. l.last \in Nat /\ r.last \in Nat BY DEF Observation
<1>2. l = Empty => l.last = 0 BY DEF Empty
<1>3. MergeObservations(l, r) = l \/ (MergeObservations(l, r) = r /\ (l = Empty \/ r.last >= l.last))
  BY <1>1, MergeTakes DEF RemoteCounts
<1> QED BY <1>1, <1>2, <1>3

\* No history is as old as can be.
LEMMA EmptyStamped ==
  ASSUME NEW s \in Nat
  PROVE  Stamped(Empty, s) /\ Empty.last = 0
BY DEF Stamped, Empty

\* A step that moves copies about, and stamps nothing.
LEMMA Moves ==
  ASSUME Inv, Aged, UNCHANGED <<scope, stamp>>, file' = file \/ (file' = Empty /\ "torn" \in scope.events /\ run'.pc = "idle"),
         \A o \in Copies' : o \in Copies \cup {Empty}, now' \in {now, now + 1},
         run'.pc = "looked" => run'.obs.last >= file'.last,
         run'.pc = "starting" => run.pc = "starting"
  PROVE  Aged'
<1>1. stamp \in Nat /\ now \in Nat BY Facts
<1>2. Stamped(Empty, stamp) /\ Empty.last = 0 BY <1>1, EmptyStamped
<1>3. \A x \in Copies' : Stamped(x, stamp) BY <1>2 DEF Aged
<1>4. \A x, y \in Copies' : Agree(x, y) BY <1>2 DEF Aged, Agree
<1>5. "torn" \in scope'.events \/ \A x \in Copies' : x.last <= file'.last
  <2>1. file \in Copies BY DEF Copies
  <2>2. file.last \in Nat BY <2>1, Fields
  <2> QED BY <1>2, <2>2 DEF Aged
<1>6. run'.pc = "starting" => ~file'.loop /\ (file'.awaiting => file'.next <= now')
  <2> SUFFICES ASSUME run'.pc = "starting" PROVE ~file'.loop /\ (file'.awaiting => file'.next <= now') OBVIOUS
  <2>1. file' = file /\ ~file.loop /\ (file.awaiting => file.next <= now) BY DEF Aged
  <2>2. file \in Copies BY DEF Copies
  <2>3. file.next \in Int BY <2>2, Fields
  <2> QED BY <1>1, <2>1, <2>3
<1>7. run'.pc = "looked" => file'.last <= run'.obs.last
  <2>1. file \in Copies /\ run'.obs \in Copies' BY DEF Copies
  <2>2. file'.last \in Nat /\ run'.obs.last \in Nat BY <1>2, <2>1, Fields
  <2> QED BY <2>2
<1> QED BY <1>3, <1>4, <1>5, <1>6, <1>7 DEF Aged

\* A history that an evaluation makes out of k: of the same decision, or of a new one.
Derived(o, k) == /\ o.last = k.last /\ o.count <= k.count /\ (o.awaiting => k.awaiting /\ o.count = k.count)
                 /\ o.last > 0 => o.gen = k.gen
                 /\ o.loop => k.loop \/ k.count > 0

\* It agrees with every other copy.
LEMMA DerivedAgrees ==
  ASSUME Inv, Aged, NEW o \in Observation, Derived(o, run.obs)
  PROVE  Stamped(o, stamp) /\ \A x \in Copies : Agree(o, x) /\ Agree(x, o)
<1> PICK k \in Copies : k = run.obs BY DEF Copies
<1>1. o.last \in Nat /\ o.count \in Nat /\ k.last \in Nat /\ k.count \in Nat BY Fields DEF Observation
<1>2. Stamped(k, stamp) /\ Derived(o, k) BY DEF Aged
<1>3. Stamped(o, stamp) BY <1>1, <1>2 DEF Stamped, Derived
<1>4. ASSUME NEW x \in Copies PROVE Agree(o, x) /\ Agree(x, o)
  <2>1. Agree(k, x) /\ Agree(x, k) BY DEF Aged
  <2>2. x.last \in Nat /\ x.count \in Nat BY Fields
  <2> QED BY <1>1, <1>2, <2>1, <2>2 DEF Agree, Derived
<1> QED BY <1>3, <1>4

\* A new decision is stamped later than every copy.
LEMMA FreshAgrees ==
  ASSUME Inv, Aged, NEW o \in Observation, o.last = stamp + 1, o.gen >= 1
  PROVE  Stamped(o, stamp + 1) /\ \A x \in Copies : x.last < o.last /\ Agree(o, x) /\ Agree(x, o)
<1>1. stamp \in Nat BY Facts
<1>2. Stamped(o, stamp + 1) BY <1>1 DEF Stamped
<1>3. ASSUME NEW x \in Copies PROVE x.last < o.last /\ Agree(o, x) /\ Agree(x, o)
  <2>1. x.last \in Nat /\ x.last <= stamp BY Fields DEF Aged, Stamped
  <2> QED BY <1>1, <2>1 DEF Agree
<1> QED BY <1>2, <1>3

\* saveObservation of such a history.
LEMMA SaveAged ==
  ASSUME Inv, Aged, NEW o \in Observation, NEW starts, Save(o, starts),
         Derived(o, run.obs) \/ (o.last = stamp + 1 /\ o.gen >= 1),
         starts => ~o.loop /\ (o.awaiting => o.next <= now)
  PROVE  Aged'
<1>1. run.pc = "looked" /\ UNCHANGED <<scope, now, desired, container, echo, known, ends, forces>> BY DEF Save
<1>2. stamp \in Nat /\ now \in Nat /\ o.last \in Nat BY Facts DEF Observation
<1>3. Idle.pc = "idle" /\ Idle.obs = Empty BY DEF Idle
<1>4. Stamped(Empty, stamp) /\ Empty.last = 0 BY <1>2, EmptyStamped
<1>5. CASE stamp' = stamp /\ run' = Idle /\ reported' \in {reported, Empty}
           /\ (file' = file \/ (file' = Empty /\ "torn" \in scope.events))
  <2>1. \A x \in Copies' : x \in Copies \cup {Empty} BY <1>1, <1>3, <1>5 DEF Copies
  <2> QED BY <1>1, <1>3, <1>5, <2>1, Moves
<1>6. CASE /\ file' = o /\ stamp' = (IF o.last > stamp THEN o.last ELSE stamp)
           /\ \/ starts /\ run' = [run EXCEPT !.pc = "starting", !.obs = o] /\ reported' = reported
              \/ run' = Idle /\ reported' = o
  <2>1. \A x \in Copies' : x \in Copies \cup {Empty, o}
    <3>1. run.obs \in Observation /\ (run'.obs = o \/ run'.obs = Empty) BY <1>3, <1>6 DEF Inv, TypeOK
    <3> QED BY <1>1, <1>6, <3>1 DEF Copies
  <2>2. /\ stamp' \in Nat /\ stamp' >= stamp /\ Stamped(o, stamp')
        /\ \A x \in Copies : Agree(o, x) /\ Agree(x, o) /\ x.last <= stamp
        /\ o.last >= run.obs.last
    <3>1. \A x \in Copies : x.last \in Nat /\ x.last <= stamp BY Fields DEF Aged, Stamped
    <3>2. run.obs \in Copies BY DEF Copies
    <3>3. CASE Derived(o, run.obs)
      <4>1. stamp' = stamp BY <1>2, <1>6, <3>1, <3>2, <3>3 DEF Derived
      <4> QED BY <1>2, <3>1, <3>2, <3>3, <4>1, DerivedAgrees DEF Derived
    <3>4. CASE o.last = stamp + 1 /\ o.gen >= 1
      <4>1. stamp' = stamp + 1 BY <1>2, <1>6, <3>4
      <4> QED BY <1>2, <3>1, <3>2, <3>4, <4>1, FreshAgrees
    <3> QED BY <3>3, <3>4
  <2>3. \A x \in Copies : Stamped(x, stamp')
    <3> TAKE x \in Copies
    <3>1. Stamped(x, stamp) /\ x.last \in Nat BY Fields DEF Aged
    <3> QED BY <1>2, <2>2, <3>1 DEF Stamped
  <2>4. \A x \in Copies' : Stamped(x, stamp') BY <1>2, <2>1, <2>2, <2>3, EmptyStamped
  <2>5. Agree(o, o)
    <3>1. o.count \in Nat BY DEF Observation
    <3> QED BY <3>1 DEF Agree
  <2>6. \A x, y \in Copies' : Agree(x, y)
    <3>1. \A x, y \in Copies \cup {o} : Agree(x, y) BY <2>2, <2>5 DEF Aged
    <3>2. \A x : Agree(Empty, x) BY <1>4 DEF Agree
    <3>3. \A x : Agree(x, Empty) BY <1>4 DEF Agree
    <3> QED BY <2>1, <3>1, <3>2, <3>3
  <2>7. "torn" \in scope.events \/ \A x \in Copies' : x.last <= o.last
    <3> SUFFICES ASSUME "torn" \notin scope.events, NEW x \in Copies' PROVE x.last <= o.last OBVIOUS
    <3>1. file.last <= run.obs.last BY <1>1 DEF Aged
    <3>2. \A y \in Copies : y.last \in Nat /\ y.last <= file.last BY Fields DEF Aged
    <3>3. file \in Copies /\ run.obs \in Copies BY DEF Copies
    <3> QED BY <1>2, <1>4, <2>1, <2>2, <3>1, <3>2, <3>3
  <2>8. run'.pc = "starting" => starts
    BY <1>3, <1>6
  <2>9. run'.pc # "looked" BY <1>3, <1>6 DEF Inv, TypeOK
  <2> QED BY <1>1, <1>6, <2>4, <2>6, <2>7, <2>8, <2>9 DEF Aged
<1> QED BY <1>5, <1>6 DEF Save, Fault

\* Stability keeps the stamp.
LEMMA ResetKeeps ==
  ASSUME NEW k \in Observation, ~k.awaiting, ~k.loop, NEW h, h = [k EXCEPT !.count = 0, !.window = 0, !.next = 0]
  PROVE  h.last = k.last /\ ~h.awaiting /\ ~h.loop
<1>1. h.last = k.last BY Zenon DEF Observation
<1>2. ~h.awaiting BY Zenon DEF Observation
<1>3. ~h.loop BY Zenon DEF Observation
<1> QED BY <1>1, <1>2, <1>3

\* Outcomes that see the allocation run, or allow it to.
LEMMA RunsAged == ASSUME Inv, Aged, Adopt \/ Authorize \/ SeeRunning PROVE Aged'
<1> PICK o \in Observation : o = run.obs BY DEF Inv, TypeOK
<1>1. o.last \in Nat /\ o.count \in Nat /\ o.gen \in Nat /\ o \in Copies BY DEF Observation, Copies
<1>2. run.pc = "looked" /\ run.nonce \in Nat /\ stamp + 1 \in Nat /\ now \in Nat /\ desired.gen \in Nat /\ desired.gen >= 1
  BY Facts DEF Inv, TypeOK, Adopt, Authorize, SeeRunning, Save
<1>3. CASE Adopt
  <2> PICK s \in Nat : s = IF o.started = 0 THEN now ELSE o.started BY <1>2 DEF Observation
  <2> PICK h : h = [o EXCEPT !.gen = desired.gen, !.nonce = run.nonce, !.started = s] OBVIOUS
  <2>1. h \in Observation BY <1>2, ZenonT(40) DEF Observation
  <2>2. h.last = o.last /\ h.count = o.count /\ h.awaiting = o.awaiting /\ h.loop = o.loop BY DEF Observation
  <2>3. o.last = 0
    <3>1. o.gen = 0 BY <1>3 DEF Adopt, Adopts
    <3>2. Stamped(o, stamp) BY <1>1 DEF Aged
    <3> QED BY <1>1, <3>1, <3>2 DEF Stamped
  <2>4. Derived(h, o) BY <1>1, <2>2, <2>3 DEF Derived
  <2>5. Save(h, FALSE) BY <1>3, Zenon DEF Adopt
  <2> QED BY <2>1, <2>4, <2>5, SaveAged
<1>4. CASE Authorize
  <2> PICK h : h = AuthorizedReset(o, run.nonce) OBVIOUS
  <2>1. h \in Observation
    <3>1. Empty \in Observation BY <1>2, Facts, EmptyGood
    <3> PICK c \in {"operator", "none"} : c = IF run.nonce > o.nonce THEN "operator" ELSE "none" OBVIOUS
    <3>2. h = [Empty EXCEPT !.gen = desired.gen, !.nonce = run.nonce, !.last = stamp + 1, !.cause = c] BY DEF AuthorizedReset
    <3>3. c \in End \cup {"operator"} BY DEF End
    <3> QED BY <1>2, <3>1, <3>2, <3>3, ZenonT(40) DEF Observation
  <2>2. h.gen = desired.gen /\ h.last = stamp + 1 /\ ~h.loop /\ ~h.awaiting BY DEF AuthorizedReset, Empty
  <2>3. Save(h, TRUE) BY <1>4, Zenon DEF Authorize
  <2> QED BY <1>2, <2>1, <2>2, <2>3, SaveAged
<1>5. CASE SeeRunning
  <2> PICK s \in Nat : s = IF o.started = 0 THEN now ELSE o.started BY <1>2 DEF Observation
  <2> PICK k : k = [o EXCEPT !.started = s, !.awaiting = FALSE, !.loop = FALSE, !.gen = desired.gen, !.nonce = run.nonce] OBVIOUS
  <2>1. k \in Observation BY <1>2, ZenonT(40) DEF Observation
  <2>2. k.gen = desired.gen /\ k.count = o.count /\ k.last = o.last /\ ~k.awaiting /\ ~k.loop BY DEF Observation
  <2>3. o.gen = desired.gen BY <1>2, <1>5, OfGeneration DEF SeeRunning
  <2>4. Derived(k, o) BY <1>1, <2>2, <2>3 DEF Derived
  <2> PICK h : h = ResetCrashHistory(k) OBVIOUS
  <2>5. h = [k EXCEPT !.count = 0, !.window = 0, !.next = 0] BY DEF ResetCrashHistory
  <2>6. h \in Observation /\ h.gen = k.gen /\ h.count = 0 BY ONLY <2>1, <2>5, ResetRow, Zenon
  <2>7. h.last = k.last /\ ~h.awaiting /\ ~h.loop BY ONLY <2>1, <2>2, <2>5, ResetKeeps, Zenon
  <2>8. Derived(h, o) BY <1>1, <2>2, <2>3, <2>6, <2>7 DEF Derived
  <2>9. Save(k, FALSE) \/ Save(h, FALSE) BY <1>5, Zenon DEF SeeRunning, SeenRunning
  <2>10. CASE Save(k, FALSE) BY <2>1, <2>4, <2>10, SaveAged
  <2>11. CASE Save(h, FALSE) BY <2>6, <2>8, <2>11, SaveAged
  <2> QED BY <2>9, <2>10, <2>11
<1> QED BY <1>3, <1>4, <1>5

\* Outcomes for a container that is down: the loop closes on a stamped count, a new
\* count is stamped anew, and a start comes due.
LEMMA DownAged == ASSUME Inv, Aged, StayLooped \/ Stop \/ EnterLoop \/ CountRestart \/ AwaitRestart PROVE Aged'
<1> PICK o \in Observation : o = run.obs BY DEF Inv, TypeOK
<1>1. o.last \in Nat /\ o.count \in Nat /\ o.gen \in Nat /\ o.next \in Int /\ o.awaiting \in BOOLEAN BY DEF Observation
<1>2. run.pc = "looked" /\ o.gen = desired.gen
  <2>1. run.pc = "looked" BY Zenon DEF StayLooped, Stop, EnterLoop, CountRestart, AwaitRestart, Save
  <2> QED BY <2>1, OfGeneration, Zenon DEF StayLooped, Stop, EnterLoop, CountRestart, AwaitRestart, JustDown, Down
<1>3. stamp + 1 \in Nat /\ now \in Nat /\ scope.max \in Nat /\ desired.gen >= 1 BY Facts
<1> PICK x \in {"zero", "nonzero"} : x = IF run.cause = "liveness" THEN o.exit ELSE run.exit BY DEF Observation, Inv, TypeOK
<1> PICK c \in End : c = run.cause BY DEF Inv, TypeOK
<1>4. Ended(o) = [o EXCEPT !.cause = c, !.exit = x] BY DEF Ended
<1>5. c \in End \cup {"operator"} OBVIOUS
<1>6. CASE StayLooped
  <2> PICK h : h = [o EXCEPT !.awaiting = FALSE] BY Zenon
  <2>1. h \in Observation BY Zenon DEF Observation
  <2>2. h.gen = o.gen /\ h.count = o.count /\ h.last = o.last /\ ~h.awaiting /\ o.loop BY <1>6 DEF StayLooped, Observation
  <2>3. Derived(h, o) BY <1>1, <2>2 DEF Derived
  <2>4. Save(h, FALSE) BY <1>6, Zenon DEF StayLooped
  <2> QED BY <2>1, <2>3, <2>4, SaveAged
<1>7. CASE AwaitRestart
  <2>1. Save(o, o.next = 0 \/ now >= o.next) /\ ~o.loop BY <1>7 DEF AwaitRestart
  <2>2. Derived(o, o) BY <1>1, <2>1 DEF Derived
  <2>3. o.next = 0 \/ now >= o.next => o.next <= now BY <1>1, <1>3
  <2> QED BY <2>1, <2>2, <2>3, SaveAged
<1>8. CASE Stop
  <2> PICK h : h = [o EXCEPT !.cause = c, !.exit = x] OBVIOUS
  <2>1. h \in Observation BY <1>5, Zenon DEF Observation
  <2>2. h.gen = o.gen /\ h.count = o.count /\ h.last = o.last /\ h.awaiting = o.awaiting /\ h.loop = o.loop BY DEF Observation
  <2>3. Derived(h, o) BY <1>1, <2>2 DEF Derived
  <2>4. Save(h, FALSE) BY <1>4, <1>8, Zenon DEF Stop
  <2> QED BY <2>1, <2>3, <2>4, SaveAged
<1>9. CASE EnterLoop
  <2> PICK h : h = [[o EXCEPT !.cause = c, !.exit = x] EXCEPT !.loop = TRUE] OBVIOUS
  <2>1. h \in Observation BY <1>5, ZenonT(40) DEF Observation
  <2>2. h.gen = o.gen /\ h.count = o.count /\ h.last = o.last /\ h.awaiting = o.awaiting BY DEF Observation
  <2>3. o.count > 0 BY <1>1, <1>3, <1>9 DEF EnterLoop, BudgetExhausted
  <2>4. Derived(h, o) BY <1>1, <2>2, <2>3 DEF Derived
  <2>5. Save(h, FALSE) BY <1>4, <1>9, Zenon DEF EnterLoop
  <2> QED BY <2>1, <2>4, <2>5, SaveAged
<1>10. CASE CountRestart
  <2>1. PICK d \in BackoffDelay(o.count) : Save(Counted(Ended(o), d), d = 0) BY <1>10 DEF CountRestart
  <2>2. d \in Int BY <1>1, DelayInt
  <2> PICK q : q = [o EXCEPT !.cause = c, !.exit = x] OBVIOUS
  <2>3. q \in Observation BY <1>5, Zenon DEF Observation
  <2>4. q.gen = o.gen /\ q.loop = o.loop BY DEF Observation
  <2> PICK h : h = Counted(q, d) OBVIOUS
  <2>5. h \in Observation /\ h.gen = q.gen BY <1>3, <2>2, <2>3, CountedOK
  <2>6. h.last = stamp + 1 /\ h.next = now + d /\ h.loop = q.loop BY <2>3 DEF Counted, Observation
  <2>7. ~o.loop BY <1>10 DEF CountRestart, JustDown
  <2>8. Save(h, d = 0) BY <1>4, <2>1
  <2>9. d = 0 => ~h.loop /\ h.next <= now BY <1>3, <2>4, <2>6, <2>7
  <2> QED BY <1>2, <1>3, <2>4, <2>5, <2>6, <2>8, <2>9, SaveAged
<1> QED BY <1>6, <1>7, <1>8, <1>9, <1>10

\* A reconcile begins with the newer history.
LEMMA LookAged == ASSUME Inv, Aged, Look \/ LookReclaims PROVE Aged'
<1>1. UNCHANGED <<scope, now, file, echo, reported, known, stamp>> BY DEF Look, LookReclaims
<1>2. run'.pc = "looked" /\ run'.obs = Loaded BY DEF Look, LookReclaims, Looked
<1>3. \A o \in Copies' : o \in Copies \cup {Empty} BY <1>1, <1>2, LoadedOne DEF Copies
<1>4. Loaded.last >= file.last BY MergeNewer DEF Loaded, Inv, TypeOK
<1> QED BY <1>1, <1>2, <1>3, <1>4, Moves

\* Every other step moves copies about.
LEMMA OtherAged ==
  ASSUME Inv, Aged,
         \/ LookFails \/ LivenessFails \/ Restart \/ RestartFails \/ StopService
         \/ \E cause \in {"zero", "nonzero", "kill"} : Exit(cause)
         \/ Reboot \/ AgentCrash \/ RestartManagedDashboard \/ Retarget \/ \E i \in {"run", "stop"} : SetIntent(i)
         \/ RecordObservation \/ LoseLiveRole \/ AcceptOverlay \/ Tick
  PROVE  Aged'
<1>1. Idle.pc = "idle" /\ Idle.obs = Empty BY DEF Idle
<1>2. UNCHANGED <<scope, stamp, file>> /\ now' \in {now, now + 1}
  BY DEF LookFails, LivenessFails, Restart, RestartFails, StopService, Exit, Reboot, AgentCrash, RestartManagedDashboard,
         Retarget, SetIntent, RecordObservation, LoseLiveRole, AcceptOverlay, Tick
<1>3. /\ echo' \in {echo, known, Empty} /\ known' \in {known, reported, Empty}
      /\ reported' \in {reported, Empty, Loaded, run.obs}
  BY DEF LookFails, LivenessFails, Restart, RestartFails, StopService, Exit, Reboot, AgentCrash, RestartManagedDashboard,
         Retarget, SetIntent, RecordObservation, LoseLiveRole, AcceptOverlay, Tick
<1>4. run' = run \/ run' = Idle \/ run' = [run EXCEPT !.up = FALSE, !.cause = "liveness"]
  BY DEF LookFails, LivenessFails, Restart, RestartFails, StopService, Exit, Reboot, AgentCrash, RestartManagedDashboard,
         Retarget, SetIntent, RecordObservation, LoseLiveRole, AcceptOverlay, Tick
<1>5. (run'.pc = run.pc /\ run'.obs = run.obs) \/ (run'.pc = "idle" /\ run'.obs = Empty) BY <1>1, <1>4, Zenon DEF Inv, TypeOK
<1>6. \A o \in Copies' : o \in Copies \cup {Empty} BY <1>2, <1>3, <1>5, LoadedOne DEF Copies
<1>7. run'.pc = "looked" => run'.obs.last >= file.last
  <2>1. file \in Copies /\ run.obs \in Copies BY DEF Copies
  <2>2. file.last \in Nat /\ run.obs.last \in Nat BY <2>1, Fields
  <2> QED BY <1>5, <2>2 DEF Aged
<1> QED BY <1>2, <1>5, <1>6, <1>7, Moves

\* Nothing has been saved.
LEMMA AgedInit == Init => Aged
<1> SUFFICES ASSUME Init PROVE Aged OBVIOUS
<1>1. Idle.pc = "idle" /\ Idle.obs = Empty BY DEF Idle
<1>2. Stamped(Empty, 0) /\ Empty.last = 0 BY EmptyStamped
<1>3. \A x \in Copies : x = Empty BY <1>1 DEF Init, Copies
<1>4. stamp = 0 /\ file = Empty /\ run.pc = "idle" BY <1>1 DEF Init
<1> QED BY <1>2, <1>3, <1>4 DEF Aged, Agree

LEMMA AgedStep == ASSUME Inv, Aged, [Next]_vars PROVE Aged'
<1>1. CASE UNCHANGED vars BY <1>1 DEF Aged, Copies, vars
<1>2. CASE Next
  BY <1>2, LookAged, RunsAged, DownAged, OtherAged DEF Next, Reconcile, Evaluate
<1> QED BY <1>1, <1>2

\* A held history is not given up for a copy that is no newer.
LEMMA HeldIsPreserved ==
  ASSUME Inv, Aged, HeldBack, ~force, ~("torn" \in scope.events /\ echo.last > file.last)
  PROVE  Preserve(Loaded, Nonce)
<1>1. file \in Copies /\ echo \in Copies BY DEF Copies
<1>2. /\ file.last \in Nat /\ file.count \in Nat /\ file.gen \in Nat /\ file.next \in Int /\ file.nonce \in Nat
      /\ echo.last \in Nat /\ echo.count \in Nat /\ echo.gen \in Nat /\ echo.nonce \in Nat
      /\ now \in Nat /\ desired.gen \in Nat /\ desired.gen >= 1
  BY <1>1, Fields, Facts
<1>3. echo.last <= file.last BY <1>1, <1>2 DEF Aged
<1>4. file # Empty BY <1>2 DEF HeldBack, Empty
<1>5. file.last > 0 BY <1>1 DEF Aged, Stamped, HeldBack
<1>6. Nonce = 0 BY DEF Nonce
<1>7. CASE Loaded = file
  BY <1>2, <1>6, <1>7 DEF Preserve, Authorizes, HeldBack
<1>8. CASE Loaded # file
  <2>1. Loaded = echo /\ RemoteCounts(file, echo) BY <1>4, <1>8, MergeTakes DEF Loaded
  <2>2. echo.last = file.last BY <1>2, <1>3, <2>1 DEF RemoteCounts
  <2>3. Agree(file, echo) BY <1>1 DEF Aged
  <2>4. echo.gen = desired.gen BY <1>5, <2>2, <2>3 DEF Agree, HeldBack
  <2>5. echo.loop BY <1>2, <1>5, <2>1, <2>2, <2>3 DEF Agree, HeldBack, RemoteCounts
  <2> QED BY <1>2, <1>6, <2>1, <2>4, <2>5 DEF Preserve, Authorizes
<1> QED BY <1>7, <1>8

\* Only a look that preserves nothing, and a restart that is due, start a container.
LEMMA OnlyThese ==
  ASSUME Inv, Next, container'.state = "running", container' # container
  PROVE  (Look /\ ~Preserve(Loaded, Nonce)) \/ Restart
<1>1. Missing.state = "none" BY Facts
<1>2. Look /\ Preserve(Loaded, Nonce) => container' = container \/ container' = Missing BY DEF Look
<1>3. ~Evaluate BY DEF Evaluate, Adopt, Authorize, SeeRunning, StayLooped, Stop, EnterLoop, CountRestart, AwaitRestart, Save
<1>4. ASSUME NEW c, Ends([container EXCEPT !.state = "exited", !.end = c]) PROVE FALSE
  <2>1. container'.state = "exited" BY <1>4, Zenon DEF Ends, Inv, TypeOK
  <2> QED BY <2>1
<1>5. ~(\E cause \in {"zero", "nonzero", "kill"} : Exit(cause)) BY <1>4, Zenon DEF Exit
<1>6. ~Reboot
  <2>1. CASE container.state = "running" BY <1>4, <2>1, Zenon DEF Reboot
  <2>2. CASE container.state # "running"
    <3>1. Reboot => container' = container \/ container' = [container EXCEPT !.end = "zero"] BY <2>2 DEF Reboot
    <3>2. container' = [container EXCEPT !.end = "zero"] => container'.state = container.state BY Zenon DEF Inv, TypeOK
    <3> QED BY <2>2, <3>1, <3>2
  <2> QED BY <2>1, <2>2
<1>7. ~LookReclaims /\ ~LivenessFails BY <1>1 DEF LookReclaims, LivenessFails, Ends
<1>8. ~LookFails /\ ~RestartFails /\ ~StopService /\ ~RestartManagedDashboard
  BY <1>1 DEF LookFails, RestartFails, StopService, RestartManagedDashboard
<1>9. /\ ~AgentCrash /\ ~Retarget /\ ~(\E i \in {"run", "stop"} : SetIntent(i))
      /\ ~RecordObservation /\ ~LoseLiveRole /\ ~AcceptOverlay /\ ~Tick
  BY DEF AgentCrash, Retarget, SetIntent, RecordObservation, LoseLiveRole, AcceptOverlay, Tick
<1> QED BY <1>1, <1>2, <1>3, <1>5, <1>6, <1>7, <1>8, <1>9 DEF Next, Reconcile

\* No reconcile starts a container whose saved history is in a crash loop or in its
\* backoff, for any settings and any sequence of crashes, reboots, sleeps, lost roles and
\* stale overlays: without a new rollout or a forced restart it takes a torn file.
THEOREM OnlyAllowedStarts == Spec => StartsAllowed
<1>1. ASSUME Inv, Aged, [Next]_vars
      PROVE  (container'.state = "running" /\ container' # container) =>
               force \/ ~HeldBack \/ ("torn" \in scope.events /\ echo.last > file.last)
  <2> SUFFICES ASSUME container'.state = "running", container' # container, ~force, HeldBack,
                      ~("torn" \in scope.events /\ echo.last > file.last)
               PROVE  FALSE
    OBVIOUS
  <2>1. Next BY <1>1 DEF vars
  <2>2. Preserve(Loaded, Nonce) BY <1>1, HeldIsPreserved
  <2>3. Restart BY <1>1, <2>1, <2>2, OnlyThese
  <2>4. file \in Copies BY DEF Copies
  <2>5. file.next \in Int /\ now \in Nat BY <1>1, <2>4, Fields, Facts
  <2> QED BY <1>1, <2>3, <2>5 DEF Restart, Aged, HeldBack
<1>2. Inv /\ Aged /\ [Next]_vars => Aged' BY AgedStep
<1>3. Spec => []Aged BY <1>2, AgedInit, Invariant, PTL DEF Spec
<1> QED BY <1>1, <1>3, Invariant, PTL DEF Spec, StartsAllowed
=============================================================================
