---------------------- MODULE MigrationExecutorProofs ----------------------
(***************************************************************************)
(* Proofs about MigrationExecutor, and about MigrationBatch on top of it,  *)
(* for every value of their constants: all requests, any number of         *)
(* goroutines and members, a store that loses writes, crashes.             *)
(***************************************************************************)
EXTENDS MigrationBatch, TLAPS

\* A record that may be written to the store at any time.
Good == {r \in Record : Coherent(r)}

(***************************************************************************)
(* What the code writes into a record keeps it good.                       *)
(***************************************************************************)
StepStates == {"pending", "running", "waiting", "completed", "failed", "skipped"}

\* r with x as its step s
Replaced(r, s, x) == [r EXCEPT !.steps = [r.steps EXCEPT ![s] = x]]

LEMMA RecordFields ==
    ASSUME NEW r \in Record
    PROVE  /\ r.status \in Status
           /\ r.mode \in Modes
           /\ r.cur \in 1..(NSteps + 1)
           /\ r.steps \in [Steps -> StepState]
BY DEF Record

LEMMA StepFields ==
    ASSUME NEW x \in StepState
    PROVE  x.st \in StepStates /\ x.pr \in 0..MaxPRs /\ x.prst \in {"", "open", "merged"}
BY DEF StepState, StepStates

LEMMA CurrentStep ==
    ASSUME NEW r \in Record, r.cur <= NSteps
    PROVE  r.cur \in Steps /\ Step(r) \in StepState
BY ExecutorAssumption DEF Record, Steps, Step

LEMMA StepUpdates ==
    ASSUME NEW x \in StepState, NEW v \in StepStates
    PROVE  /\ [x EXCEPT !.st = v] \in StepState
           /\ [x EXCEPT !.st = v].st = v
           /\ [x EXCEPT !.st = v].pr = x.pr
           /\ [x EXCEPT !.st = v].prst = x.prst
BY DEF StepState, StepStates

LEMMA HostUpdates ==
    ASSUME NEW x \in StepState
    PROVE  /\ [x EXCEPT !.st = "waiting", !.prst = "open"] \in StepState
           /\ [x EXCEPT !.st = "waiting", !.prst = "open"].st = "waiting"
           /\ [x EXCEPT !.st = "waiting", !.prst = "open"].pr = x.pr
           /\ [x EXCEPT !.st = "waiting", !.prst = "open"].prst = "open"
           /\ [x EXCEPT !.st = "completed", !.prst = "merged"] \in StepState
           /\ [x EXCEPT !.st = "completed", !.prst = "merged"].st = "completed"
           /\ [x EXCEPT !.st = "completed", !.prst = "merged"].pr = x.pr
           /\ [x EXCEPT !.prst = "merged"] \in StepState
           /\ [x EXCEPT !.prst = "merged"].st = x.st
           /\ [x EXCEPT !.prst = "merged"].pr = x.pr
<1>1. /\ [x EXCEPT !.st = "waiting", !.prst = "open"] \in StepState
      /\ [x EXCEPT !.st = "waiting", !.prst = "open"].st = "waiting"
      /\ [x EXCEPT !.st = "waiting", !.prst = "open"].pr = x.pr
      /\ [x EXCEPT !.st = "waiting", !.prst = "open"].prst = "open"
  BY DEF StepState
<1>2. /\ [x EXCEPT !.st = "completed", !.prst = "merged"] \in StepState
      /\ [x EXCEPT !.st = "completed", !.prst = "merged"].st = "completed"
      /\ [x EXCEPT !.st = "completed", !.prst = "merged"].pr = x.pr
  BY DEF StepState
<1>3. /\ [x EXCEPT !.prst = "merged"] \in StepState
      /\ [x EXCEPT !.prst = "merged"].st = x.st
      /\ [x EXCEPT !.prst = "merged"].pr = x.pr
  BY DEF StepState
<1> QED
  BY <1>1, <1>2, <1>3

LEMMA NumberUpdates ==
    ASSUME NEW x \in StepState, NEW p \in PRs
    PROVE  /\ [x EXCEPT !.pr = p] \in StepState
           /\ [x EXCEPT !.pr = p].st = x.st
           /\ [x EXCEPT !.pr = p].pr = p
           /\ [x EXCEPT !.pr = p].prst = x.prst
           /\ p > 0
<1>1. p \in 0..MaxPRs /\ p > 0
  BY ExecutorAssumption DEF PRs
<1> QED
  BY <1>1 DEF StepState

LEMMA ReplacedRecord ==
    ASSUME NEW r \in Record, NEW s \in Steps, NEW x \in StepState
    PROVE  /\ Replaced(r, s, x) \in Record
           /\ Replaced(r, s, x).status = r.status
           /\ Replaced(r, s, x).mode = r.mode
           /\ Replaced(r, s, x).cur = r.cur
           /\ Replaced(r, s, x).steps = [r.steps EXCEPT ![s] = x]
BY DEF Replaced, Record

LEMMA ReplacedSteps ==
    ASSUME NEW r \in Record, NEW s \in Steps, NEW x \in StepState, NEW t \in Steps
    PROVE  Replaced(r, s, x).steps[t] = IF t = s THEN x ELSE r.steps[t]
<1>1. Replaced(r, s, x).steps = [r.steps EXCEPT ![s] = x]
  BY ReplacedRecord
<1>2. r.steps \in [Steps -> StepState]
  BY RecordFields
<1> QED
  BY <1>1, <1>2

LEMMA WithStatusGood ==
    ASSUME NEW r \in Good, NEW st \in Status,
           st \notin {"waiting", "completed"}
    PROVE  /\ WithStatus(r, st) \in Good
           /\ WithStatus(r, st).status = st
           /\ WithStatus(r, st).cur = r.cur
           /\ WithStatus(r, st).steps = r.steps
BY DEF Good, Record, WithStatus, Coherent, OrderedSteps, WaitsForItsPR, NothingLeft, Step

\* The current step may change as long as a step that waits has its open PR,
\* and the status still fits.
LEMMA ReplacedGood ==
    ASSUME NEW r \in Good, r.cur <= NSteps, NEW x \in StepState,
           x.st = "waiting" => x.pr > 0 /\ x.prst = "open",
           r.status = "waiting" => x.st = "waiting",
           r.status = "completed" => x.st \in {"completed", "skipped"}
    PROVE  Replaced(r, r.cur, x) \in Good
<1> DEFINE q == Replaced(r, r.cur, x)
<1>1. r \in Record /\ r.cur \in Steps
  BY CurrentStep DEF Good
<1>2. q \in Record /\ q.status = r.status /\ q.cur = r.cur
  BY <1>1, ReplacedRecord
<1>a. \A t \in Steps : q.steps[t] = IF t = r.cur THEN x ELSE r.steps[t]
  BY <1>1, ReplacedSteps
<1>3. r.cur \in Int /\ Steps \subseteq Int
  BY <1>1, ExecutorAssumption DEF Steps
<1> HIDE DEF q
<1>4. OrderedSteps(q)
  BY <1>2, <1>a, <1>3 DEF Good, Coherent, OrderedSteps
<1>5. WaitsForItsPR(q)
  BY <1>1, <1>2, <1>a DEF Good, Coherent, WaitsForItsPR, Step
<1>6. NothingLeft(q)
  BY <1>1, <1>2, <1>a DEF Good, Coherent, NothingLeft
<1> QED
  BY <1>2, <1>4, <1>5, <1>6 DEF Good, Coherent, q

LEMMA StepMergedReplaces ==
    ASSUME NEW r \in Record, NEW s \in Steps
    PROVE  StepMerged(r, s) =
              Replaced(r, s, [r.steps[s] EXCEPT !.st = "completed", !.prst = "merged"])
<1>1. r.steps[s] \in StepState
  BY RecordFields
<1> QED
  BY <1>1 DEF StepMerged, Replaced

\* A waiting step is the current one.
LEMMA OnlyCurrentWaits ==
    ASSUME NEW r \in Good, NEW s \in Steps, r.steps[s].st = "waiting"
    PROVE  s = r.cur /\ r.cur <= NSteps
<1>1. r \in Record /\ OrderedSteps(r)
  BY DEF Good, Coherent
<1>2. r.cur \in Int /\ s \in Int /\ s <= NSteps
  BY <1>1, RecordFields, ExecutorAssumption DEF Steps
<1> QED
  BY <1>1, <1>2 DEF OrderedSteps

\* Passing the current step: it is completed, CurrentStep moves on.
LEMMA PassedGood ==
    ASSUME NEW r \in Good, r.cur <= NSteps,
           NEW x \in StepState, x.st = "completed",
           NEW st \in Status, st # "waiting",
           st = "completed" => r.status = "completed"
    PROVE  [Replaced(r, r.cur, x) EXCEPT !.cur = r.cur + 1, !.status = st] \in Good
<1> DEFINE y == Replaced(r, r.cur, x)
<1> DEFINE q == [y EXCEPT !.cur = r.cur + 1, !.status = st]
<1>1. r \in Record /\ r.cur \in Steps
  BY CurrentStep DEF Good
<1>2. y \in Record
  BY <1>1, ReplacedRecord
<1>3. \A t \in Steps : y.steps[t] = IF t = r.cur THEN x ELSE r.steps[t]
  BY <1>1, ReplacedSteps
<1>4. r.cur \in Int /\ Steps \subseteq Int /\ r.cur + 1 \in 1..(NSteps + 1)
  BY <1>1, ExecutorAssumption DEF Steps
<1> HIDE DEF y
<1>5. q \in Record /\ q.status = st /\ q.cur = r.cur + 1 /\ q.steps = y.steps
  BY <1>2, <1>4 DEF Record
<1> HIDE DEF q
<1>6. OrderedSteps(q)
  BY <1>3, <1>4, <1>5 DEF Good, Coherent, OrderedSteps
<1>7. WaitsForItsPR(q)
  BY <1>3, <1>5 DEF Good, Coherent, WaitsForItsPR
<1>8. NothingLeft(q)
  BY <1>3, <1>5 DEF Good, Coherent, NothingLeft
<1> QED
  BY <1>5, <1>6, <1>7, <1>8 DEF Good, Coherent, q, y

LEMMA NewMigrationGood ==
    ASSUME NEW mode \in Modes
    PROVE  NewMigration(mode) \in Good
<1>1. [st |-> "pending", pr |-> 0, prst |-> ""] \in StepState
  BY ExecutorAssumption DEF StepState
<1>2. 1 \in 1..(NSteps + 1)
  BY ExecutorAssumption
<1>3. NewMigration(mode) \in Record
  BY <1>1, <1>2 DEF NewMigration, Record, Status
<1> DEFINE q == NewMigration(mode)
<1>4. q.status = "running" /\ q.cur = 1 /\ \A s \in Steps : q.steps[s].st = "pending"
  BY DEF NewMigration
<1>5. \A s \in Steps : ~(s < 1)
  BY ExecutorAssumption DEF Steps
<1> HIDE DEF q
<1>6. Coherent(q)
  BY <1>4, <1>5 DEF Coherent, OrderedSteps, WaitsForItsPR, NothingLeft
<1> QED
  BY <1>3, <1>6 DEF Good, q

LEMMA WithStepGood ==
    ASSUME NEW r \in Good, r.cur <= NSteps, r.status \notin {"waiting", "completed"},
           NEW v \in StepStates \ {"waiting"}
    PROVE  /\ WithStep(r, v) \in Good
           /\ WithStep(r, v).status = r.status
           /\ WithStep(r, v).cur = r.cur
<1> DEFINE x == [r.steps[r.cur] EXCEPT !.st = v]
<1>1. r \in Record /\ r.cur \in Steps /\ r.steps[r.cur] \in StepState
  BY CurrentStep DEF Good, Step
<1>2. WithStep(r, v) = Replaced(r, r.cur, x)
  BY <1>1 DEF WithStep, Replaced
<1>3. x \in StepState /\ x.st = v
  BY <1>1, StepUpdates
<1> HIDE DEF x
<1>4. Replaced(r, r.cur, x) \in Good
  BY <1>3, ReplacedGood
<1>5. Replaced(r, r.cur, x).cur = r.cur /\ Replaced(r, r.cur, x).status = r.status
  BY <1>1 DEF Replaced, Record
<1> QED
  BY <1>2, <1>4, <1>5, Zenon

LEMMA OpenedGood ==
    ASSUME NEW r \in Good, r.cur <= NSteps, r.status = "running", NEW p \in PRs
    PROVE  /\ Opened(r, p) \in Good
           /\ Opened(r, p).status = "running"
           /\ Opened(r, p).cur = r.cur
           /\ Step(Opened(r, p)).pr > 0
<1> DEFINE x == [r.steps[r.cur] EXCEPT !.pr = p]
<1>1. r \in Record /\ r.cur \in Steps /\ r.steps[r.cur] \in StepState
  BY CurrentStep DEF Good, Step
<1>2. Opened(r, p) = Replaced(r, r.cur, x)
  BY <1>1 DEF Opened, Replaced
<1>3. x \in StepState /\ x.st = r.steps[r.cur].st /\ x.pr > 0 /\ x.prst = r.steps[r.cur].prst
  BY <1>1, NumberUpdates
<1> HIDE DEF x
<1>4. x.st = "waiting" => x.prst = "open"
  BY <1>1, <1>3 DEF Good, Coherent, WaitsForItsPR
<1>5. Replaced(r, r.cur, x) \in Good
  BY <1>3, <1>4, ReplacedGood
<1>6. Replaced(r, r.cur, x).steps[r.cur] = x
  BY <1>1, <1>3, ReplacedSteps
<1>7. Replaced(r, r.cur, x).cur = r.cur /\ Replaced(r, r.cur, x).status = r.status
  BY <1>1, <1>3, ReplacedRecord
<1> QED
  BY <1>2, <1>3, <1>5, <1>6, <1>7 DEF Step

LEMMA ParkedGood ==
    ASSUME NEW r \in Good, r.cur <= NSteps, r.status = "running", Step(r).pr > 0
    PROVE  Parked(r) \in Good
<1> DEFINE x == [r.steps[r.cur] EXCEPT !.st = "waiting", !.prst = "open"]
<1>1. r \in Record /\ r.cur \in Steps /\ r.steps[r.cur] \in StepState
  BY CurrentStep DEF Good, Step
<1>2. Parked(r) = Replaced(r, r.cur, x)
  BY <1>1 DEF Parked, Replaced
<1>3. x \in StepState /\ x.st = "waiting" /\ x.pr > 0 /\ x.prst = "open"
  BY <1>1, HostUpdates DEF Step
<1> HIDE DEF x
<1> QED
  BY <1>2, <1>3, ReplacedGood

LEMMA MergedGood ==
    ASSUME NEW r \in Good, r.cur <= NSteps, r.status = "running"
    PROVE  Merged(r) \in Good
<1> DEFINE x == [r.steps[r.cur] EXCEPT !.st = "completed", !.prst = "merged"]
<1>1. r \in Record /\ r.cur \in Steps /\ r.steps[r.cur] \in StepState
  BY CurrentStep DEF Good, Step
<1>2. Merged(r) = Replaced(r, r.cur, x)
  BY <1>1, StepMergedReplaces DEF Merged
<1>3. x \in StepState /\ x.st = "completed"
  BY <1>1, HostUpdates
<1> HIDE DEF x
<1> QED
  BY <1>2, <1>3, ReplacedGood

LEMMA FailingGood ==
    ASSUME NEW r \in Good, r.cur <= NSteps
    PROVE  Failing(r) \in Good
<1> DEFINE q == WithStatus(r, "failed")
<1>1. q \in Good /\ q.status = "failed" /\ q.cur = r.cur
  BY WithStatusGood DEF Status
<1>2. r \in Record
  BY DEF Good
<1>3. Failing(r) = WithStep(q, "failed")
  BY <1>2 DEF Failing, WithStatus, WithStep, Record
<1> HIDE DEF q
<1> QED
  BY <1>1, <1>3, WithStepGood DEF StepStates

LEMMA WaitingGood ==
    ASSUME NEW r \in Good, r.cur <= NSteps, Step(r).st = "waiting"
    PROVE  WithStatus(r, "waiting") \in Good
BY DEF Good, Record, Status, WithStatus, Coherent, OrderedSteps, WaitsForItsPR, NothingLeft, Step

LEMMA FinishedGood ==
    ASSUME NEW r \in Good, r.cur > NSteps
    PROVE  WithStatus(r, "completed") \in Good
<1>1. \A s \in Steps : s < r.cur
  BY ExecutorAssumption DEF Good, Record, Steps
<1> QED
  BY <1>1 DEF Good, Record, Status, WithStatus, Coherent, OrderedSteps, WaitsForItsPR, NothingLeft, Step

LEMMA AdvancedGood ==
    ASSUME NEW r \in Good, r.cur <= NSteps, r.status # "waiting"
    PROVE  Advanced(r) \in Good /\ Advanced(r).status = r.status
<1> DEFINE x == [r.steps[r.cur] EXCEPT !.st = "completed"]
<1> DEFINE q == [Replaced(r, r.cur, x) EXCEPT !.cur = r.cur + 1, !.status = r.status]
<1>1. r \in Record /\ r.cur \in Steps /\ r.steps[r.cur] \in StepState
  BY CurrentStep DEF Good, Step
<1>2. Advanced(r) = q /\ q.status = r.status
  BY <1>1 DEF Advanced, WithStep, Replaced, Record
<1>3. x \in StepState /\ x.st = "completed"
  BY <1>1, StepUpdates DEF StepStates
<1>4. r.status \in Status
  BY <1>1, RecordFields
<1> HIDE DEF x
<1>5. q \in Good
  BY <1>3, <1>4, PassedGood
<1> QED
  BY <1>2, <1>5

LEMMA AlreadyDoneGood ==
    ASSUME NEW r \in Good, r.cur = 1
    PROVE  AlreadyDone(r) \in Good
<1> DEFINE f == [s \in Steps |->
                    [r.steps[s] EXCEPT !.st = IF s = 1 THEN "completed" ELSE "skipped"]]
<1> DEFINE q == AlreadyDone(r)
<1>1. r \in Record /\ r.steps \in [Steps -> StepState]
  BY RecordFields DEF Good
<1>2. \A s \in Steps : f[s] \in StepState /\ f[s].st = IF s = 1 THEN "completed" ELSE "skipped"
  <2> TAKE s \in Steps
  <2> DEFINE v == IF s = 1 THEN "completed" ELSE "skipped"
  <2>1. r.steps[s] \in StepState /\ v \in StepStates
    BY <1>1 DEF StepStates
  <2>2. f[s] = [r.steps[s] EXCEPT !.st = v]
    OBVIOUS
  <2> HIDE DEF f, v
  <2>3. f[s] \in StepState /\ f[s].st = v
    BY <2>1, <2>2, StepUpdates
  <2> QED
    BY <2>3 DEF v
<1>3. f \in [Steps -> StepState]
  BY <1>2
<1>4. q.status = "completed" /\ q.cur = 1 /\ q.steps = f
  BY <1>1 DEF AlreadyDone, Record
<1>5. q \in Record
  BY <1>1, <1>3 DEF AlreadyDone, Record, Status
<1>6. \A s \in Steps : ~(s < 1)
  BY ExecutorAssumption DEF Steps
<1> HIDE DEF f, q
<1>7. Coherent(q)
  BY <1>2, <1>4, <1>6 DEF Coherent, OrderedSteps, WaitsForItsPR, NothingLeft
<1> QED
  BY <1>5, <1>7 DEF Good, q

LEMMA ResumedGood ==
    ASSUME NEW r \in Good, r.status = "failed" => r.cur <= NSteps
    PROVE  Resumed(r) \in Good
<1>1. r \in Record
  BY DEF Good
<1>2. CASE r.status = "waiting"
  <2> DEFINE x == [r.steps[r.cur] EXCEPT !.st = "completed", !.prst = "merged"]
  <2>1. r.cur <= NSteps
    BY <1>2 DEF Good, Coherent, WaitsForItsPR
  <2>2. r.cur \in Steps /\ r.steps[r.cur] \in StepState
    BY <1>1, <2>1, CurrentStep DEF Step
  <2>3. Resumed(r) = [Replaced(r, r.cur, x) EXCEPT !.cur = r.cur + 1, !.status = "running"]
    BY <1>1, <1>2, <2>2, StepMergedReplaces DEF Resumed, WithStatus, PastPR
  <2>4. x \in StepState /\ x.st = "completed"
    BY <2>2, HostUpdates
  <2> HIDE DEF x
  <2>5. "running" \in Status
    BY DEF Status
  <2>6. [Replaced(r, r.cur, x) EXCEPT !.cur = r.cur + 1, !.status = "running"] \in Good
    BY <2>1, <2>4, <2>5, PassedGood
  <2> QED
    BY <2>3, <2>6
<1>3. CASE r.status = "failed"
  <2>1. WithStep(r, "pending") \in Good
    BY <1>3, WithStepGood DEF StepStates
  <2>2. Resumed(r) = WithStatus(WithStep(r, "pending"), "running")
    BY <1>3 DEF Resumed
  <2> QED
    BY <2>1, <2>2, WithStatusGood DEF Status
<1>4. CASE r.status \notin {"waiting", "failed"}
  <2>1. Resumed(r) = WithStatus(r, "running")
    BY <1>4 DEF Resumed
  <2> QED
    BY <2>1, WithStatusGood DEF Status
<1> QED
  BY <1>2, <1>3, <1>4

LEMMA MergedByUserGood ==
    ASSUME NEW r \in Good, NEW s \in Steps
    PROVE  MergedByUser(r, s) \in Good
<1>1. r \in Record /\ r.steps[s] \in StepState
  BY RecordFields DEF Good
<1>2. CASE r.steps[s].st = "waiting"
  <2> DEFINE x == [r.steps[s] EXCEPT !.st = "completed", !.prst = "merged"]
  <2> DEFINE st == IF r.status = "waiting" THEN "running" ELSE r.status
  <2>1. s = r.cur /\ r.cur <= NSteps
    BY <1>2, OnlyCurrentWaits
  <2>2. MergedByUser(r, s) = [Replaced(r, s, x) EXCEPT !.cur = r.cur + 1, !.status = st]
    BY <1>1, <1>2, StepMergedReplaces DEF MergedByUser, WithStatus, PastPR
  <2>3. x \in StepState /\ x.st = "completed"
    BY <1>1, HostUpdates
  <2>4. st \in Status /\ st # "waiting" /\ (st = "completed" => r.status = "completed")
    BY <1>1, RecordFields DEF Status
  <2> HIDE DEF x, st
  <2>5. [Replaced(r, r.cur, x) EXCEPT !.cur = r.cur + 1, !.status = st] \in Good
    BY <2>1, <2>3, <2>4, PassedGood
  <2> QED
    BY <2>1, <2>2, <2>5
<1>3. CASE r.steps[s].st # "waiting"
  <2> DEFINE x == [r.steps[s] EXCEPT !.prst = "merged"]
  <2> DEFINE q == Replaced(r, s, x)
  <2>1. MergedByUser(r, s) = q
    BY <1>3 DEF MergedByUser, Replaced
  <2>2. x \in StepState /\ x.st = r.steps[s].st
    BY <1>1, HostUpdates
  <2> HIDE DEF x
  <2>3. q \in Record /\ q.status = r.status /\ q.cur = r.cur
    BY <1>1, <2>2, ReplacedRecord
  <2>4. \A t \in Steps : q.steps[t] = IF t = s THEN x ELSE r.steps[t]
    BY <1>1, <2>2, ReplacedSteps
  <2>5. r.status = "waiting" => r.cur \in Steps /\ r.cur # s
    BY <1>1, <1>3, CurrentStep DEF Good, Coherent, WaitsForItsPR, Step
  <2> HIDE DEF q
  <2>6. OrderedSteps(q)
    BY <2>2, <2>3, <2>4 DEF Good, Coherent, OrderedSteps
  <2>7. WaitsForItsPR(q)
    BY <1>3, <2>2, <2>3, <2>4, <2>5 DEF Good, Coherent, WaitsForItsPR, Step
  <2>8. NothingLeft(q)
    BY <2>2, <2>3, <2>4 DEF Good, Coherent, NothingLeft
  <2> QED
    BY <2>1, <2>3, <2>6, <2>7, <2>8 DEF Good, Coherent
<1> QED
  BY <1>2, <1>3

(***************************************************************************)
(* The inductive invariant.  TypeOK alone is not inductive: a goroutine    *)
(* writes its copy to the store, so the copies must be good too, and what  *)
(* the code does to a copy keeps it good only because of what the code has *)
(* checked on the way to the place where it stands.                        *)
(***************************************************************************)
\* Where a copy of a record is held ...
Holding == {"begin", "exec", "opened", "pr", "merged", "parked", "judge", "gate",
            "recover", "create", "merge", "accepted", "approved", "declined",
            "refused", "resume", "halt", "saveAndDelete", "mergePR",
            "mergedByUser", "reverting", "rollback", "members", "launch"}

\* ... whose status is known to be running ...
KnownRunning == {"begin", "exec", "opened", "pr", "merged", "parked"}

\* ... or waiting ...
KnownWaiting == {"merge", "accepted", "declined", "refused"}

\* ... whose current step exists ...
InStep == {"exec", "opened", "pr", "merged", "parked", "judge"}

\* ... and has a PR.
WithPR == {"opened", "pr", "merged", "parked"}

\* The places of MigrationBatch: a request that starts a batch, the goroutine
\* that keeps one; the others are those of any migration.
Starting == {"members", "batch", "first"}
Keeping  == {"advance", "step", "next", "launch", "run"}
Places   == Labels \ (Starting \cup Keeping)

\* c is a copy that may be held at label l.
Fits(l, c) ==
    /\ l \in Holding => c \in Good
    /\ l \in KnownRunning => c.status = "running"
    /\ l \in KnownWaiting => c.status = "waiting"
    /\ l \in InStep => c.cur <= NSteps
    /\ l \in WithPR => Step(c).pr > 0
    /\ l \in {"approved", "resume"} /\ c.status = "failed" => c.cur <= NSteps

LabelInv(p) == (pc[p] # "idle" => job[p] \in Migrations) /\ Fits(pc[p], copy[p])

StoreGood == store \in [Migrations -> Good \cup {Unborn, Deleted}]

IInv == TypeOK /\ StoreGood /\ \A p \in Procs : LabelInv(p)

\* The conjuncts of TypeOK that are not about a copy or about where it is held.
RestType ==
    /\ prs \in [PRs -> {"none", "open", "merged"}]
    /\ running \in [Migrations -> Workers \cup {Nobody}]
    /\ cancelled \in SUBSET Workers
    /\ failed \in SUBSET Procs
    /\ todo \in [Handlers -> SUBSET Steps]
    /\ requests \in 0..MaxRequests
    /\ done \in SUBSET (Migrations \X Steps)
    /\ used \in SUBSET Workers

(***************************************************************************)
(* One actor moves.                                                        *)
(***************************************************************************)
LEMMA MoveTo ==
    ASSUME IInv, NEW p \in Procs, NEW l \in Labels,
           NEW c \in Record \cup {Nobody}, NEW j \in Migrations \cup {Nobody},
           pc' = [pc EXCEPT ![p] = l],
           copy' = [copy EXCEPT ![p] = c],
           job' = [job EXCEPT ![p] = j],
           l # "idle" => j \in Migrations,
           Fits(l, c), StoreGood', RestType'
    PROVE  IInv'
<1>1. store' \in [Migrations -> Record \cup {Unborn, Deleted}]
  <2>1. Good \subseteq Record
    BY DEF Good
  <2> QED
    BY <2>1 DEF StoreGood
<1>2. /\ pc' \in [Procs -> Labels]
      /\ copy' \in [Procs -> Record \cup {Nobody}]
      /\ job' \in [Procs -> Migrations \cup {Nobody}]
  BY DEF IInv, TypeOK
<1>3. TypeOK'
  BY <1>1, <1>2 DEF TypeOK, RestType
<1>4. ASSUME NEW q \in Procs
      PROVE  LabelInv(q)'
  <2>1. CASE q = p
    <3>1. pc'[q] = l /\ copy'[q] = c /\ job'[q] = j
      BY <2>1 DEF IInv, TypeOK
    <3> QED
      BY <3>1 DEF LabelInv, Fits, Step
  <2>2. CASE q # p
    <3>1. pc'[q] = pc[q] /\ copy'[q] = copy[q] /\ job'[q] = job[q]
      BY <2>2 DEF IInv, TypeOK
    <3>2. LabelInv(q)
      BY DEF IInv
    <3> QED
      BY <3>1, <3>2 DEF LabelInv, Fits, Step
  <2> QED
    BY <2>1, <2>2
<1> QED
  BY <1>3, <1>4 DEF IInv

LEMMA Standing ==
    ASSUME IInv, NEW p \in Procs
    PROVE  /\ pc[p] \in Labels
           /\ pc[p] # "idle" => job[p] \in Migrations
           /\ job[p] \in Migrations \cup {Nobody}
           /\ copy[p] \in Record \cup {Nobody}
           /\ Fits(pc[p], copy[p])
           /\ pc = [pc EXCEPT ![p] = pc[p]]
           /\ job = [job EXCEPT ![p] = job[p]]
           /\ copy = [copy EXCEPT ![p] = copy[p]]
<1>1. /\ pc \in [Procs -> Labels]
      /\ job \in [Procs -> Migrations \cup {Nobody}]
      /\ copy \in [Procs -> Record \cup {Nobody}]
  BY DEF IInv, TypeOK
<1>2. LabelInv(p)
  BY DEF IInv
<1> QED
  BY <1>1, <1>2 DEF LabelInv

LEMMA ReadsGood ==
    ASSUME IInv, NEW id \in Migrations, Exists(id)
    PROVE  store[id] \in Good /\ store[id] \in Record
BY DEF IInv, StoreGood, Exists, Good

LEMMA SavesGood ==
    ASSUME IInv, NEW id \in Migrations, NEW r \in Good \cup {Unborn, Deleted},
           TrySave(id, r) \/ Save(id, r) \/ SaveFails
    PROVE  StoreGood'
BY DEF IInv, StoreGood, TrySave, Save, SaveFails

LEMMA KeepsStore ==
    ASSUME IInv, UNCHANGED store
    PROVE  StoreGood'
BY DEF IInv, StoreGood

LEMMA KeepsRest ==
    ASSUME IInv, UNCHANGED <<prs, running, cancelled, failed, todo, requests, done, used>>
    PROVE  RestType'
BY DEF IInv, TypeOK, RestType

\* Where no copy is held nothing is asked of it.
LEMMA NothingHeld ==
    ASSUME NEW l \in Labels \ Holding, NEW c
    PROVE  Fits(l, c)
BY DEF Fits, Holding, KnownRunning, KnownWaiting, InStep, WithPR

LEMMA DropTo ==
    ASSUME IInv, NEW p \in Procs, NEW l \in Labels \ Holding, l # "idle", pc[p] # "idle",
           Drop(p, l), UNCHANGED job, StoreGood', RestType'
    PROVE  IInv'
<1>1. pc' = [pc EXCEPT ![p] = l] /\ copy' = [copy EXCEPT ![p] = Nobody]
  BY DEF Drop, Goto, Hold
<1>2. job' = [job EXCEPT ![p] = job[p]] /\ job[p] \in Migrations
  BY Standing
<1>3. Fits(l, Nobody)
  BY NothingHeld
<1> QED
  BY <1>1, <1>2, <1>3, MoveTo

LEMMA HoldAt ==
    ASSUME IInv, NEW p \in Procs, NEW l \in Labels, l # "idle", pc[p] # "idle",
           NEW c \in Good, Goto(p, l), Hold(p, c), UNCHANGED job,
           Fits(l, c), StoreGood', RestType'
    PROVE  IInv'
<1>1. pc' = [pc EXCEPT ![p] = l] /\ copy' = [copy EXCEPT ![p] = c]
  BY DEF Goto, Hold
<1>2. job' = [job EXCEPT ![p] = job[p]] /\ job[p] \in Migrations
  BY Standing
<1>3. c \in Record
  BY DEF Good
<1> QED
  BY <1>1, <1>2, <1>3, MoveTo

LEMMA FetchKeeps ==
    ASSUME IInv, NEW w \in Workers, Fetch(w)
    PROVE  IInv'
<1>1. w \in Procs /\ pc[w] # "idle" /\ StoreGood' /\ RestType' /\ UNCHANGED job
  BY KeepsStore, KeepsRest DEF Fetch, Procs
<1>2. job[w] \in Migrations
  BY <1>1, Standing
<1>3. CASE IsRunning(job[w]) /\ Hold(w, store[job[w]]) /\ Goto(w, "begin")
  <2>1. store[job[w]] \in Good /\ store[job[w]].status = "running"
    BY <1>2, <1>3, ReadsGood DEF IsRunning
  <2>2. Fits("begin", store[job[w]])
    BY <2>1 DEF Fits, Holding, KnownRunning, KnownWaiting, InStep, WithPR
  <2> QED
    BY <1>1, <1>3, <2>1, <2>2, HoldAt DEF Labels
<1>4. CASE Drop(w, "exit")
  BY <1>1, <1>4, DropTo DEF Labels, Holding
<1> QED
  BY <1>3, <1>4 DEF Fetch

LEMMA FinishKeeps ==
    ASSUME IInv, NEW w \in Workers, Finish(w)
    PROVE  IInv'
<1>1. w \in Procs /\ pc[w] = "begin" /\ copy[w].cur > NSteps /\ RestType' /\ UNCHANGED job
  BY KeepsRest DEF Finish, Procs
<1>2. job[w] \in Migrations /\ copy[w] \in Good
  BY <1>1, Standing DEF Fits, Holding
<1>3. WithStatus(copy[w], "completed") \in Good
  BY <1>1, <1>2, FinishedGood
<1>4. StoreGood'
  BY <1>2, <1>3, SavesGood DEF Finish
<1> QED
  BY <1>1, <1>4, DropTo DEF Finish, Labels, Holding

LEMMA BeginKeeps ==
    ASSUME IInv, NEW w \in Workers, Begin(w)
    PROVE  IInv'
<1> DEFINE r == WithStep(copy[w], "running")
<1>1. w \in Procs /\ pc[w] = "begin" /\ copy[w].cur <= NSteps /\ UNCHANGED job
  BY DEF Begin, Procs
<1>2. job[w] \in Migrations /\ copy[w] \in Good /\ copy[w].status = "running"
  BY <1>1, Standing DEF Fits, Holding, KnownRunning
<1>3. r \in Good /\ r.status = "running" /\ r.cur <= NSteps
  BY <1>1, <1>2, WithStepGood DEF StepStates
<1>4. TrySave(job[w], r) /\ Hold(w, r) /\ Goto(w, "exec")
  BY DEF Begin
<1>5. RestType'
  BY DEF Begin, IInv, TypeOK, RestType
<1> HIDE DEF r
<1>6. StoreGood'
  BY <1>2, <1>3, <1>4, SavesGood
<1>7. Fits("exec", r)
  BY <1>3 DEF Fits, Holding, KnownRunning, KnownWaiting, InStep, WithPR
<1> QED
  BY <1>1, <1>3, <1>4, <1>5, <1>6, <1>7, HoldAt DEF Labels

LEMMA AddLogKeeps ==
    ASSUME IInv, NEW p \in Procs, AddLog(p)
    PROVE  IInv'
<1>1. pc[p] \in Logging /\ Save(job[p], copy[p]) /\ UNCHANGED <<pc, copy, job>> /\ RestType'
  BY KeepsRest DEF AddLog
<1>2. job[p] \in Migrations /\ copy[p] \in Good
  BY <1>1, Standing DEF Logging, Fits, Holding
<1>3. StoreGood'
  BY <1>1, <1>2, SavesGood
<1> QED
  BY <1>1, <1>2, <1>3, Standing, MoveTo

LEMMA LogFirstKeeps ==
    ASSUME IInv, NEW p \in Procs, LogFirst(p)
    PROVE  IInv'
<1> DEFINE l == FirstLog[pc[p]]
<1>1. /\ pc[p] \in {"opened", "accepted", "declined", "reverting"}
      /\ TrySave(job[p], copy[p]) /\ Goto(p, l) /\ UNCHANGED <<copy, job>>
  BY DEF LogFirst, FirstLog
<1>2. job[p] \in Migrations /\ copy[p] \in Good
  BY <1>1, Standing DEF Fits, Holding
<1>3. Fits(pc[p], copy[p])
  BY Standing
<1>4. l \in {"pr", "approved", "refused", "rollback"} /\ Fits(l, copy[p])
  BY <1>1, <1>2, <1>3 DEF FirstLog, Fits, Holding, KnownRunning, KnownWaiting, InStep, WithPR
<1>5. RestType' /\ StoreGood'
  BY <1>1, <1>2, KeepsRest, SavesGood DEF LogFirst
<1>6. Hold(p, copy[p])
  BY <1>1, Standing DEF Hold
<1> HIDE DEF l
<1> QED
  BY <1>1, <1>2, <1>4, <1>5, <1>6, HoldAt DEF Labels

LEMMA StepSucceedsKeeps ==
    ASSUME IInv, NEW w \in Workers, StepSucceeds(w)
    PROVE  IInv'
<1>1. w \in Procs /\ pc[w] = "exec" /\ UNCHANGED job
  BY DEF StepSucceeds, Procs
<1>2. job[w] \in Migrations /\ copy[w] \in Good /\ copy[w].cur \in Steps
  BY <1>1, Standing, CurrentStep DEF Fits, Holding, InStep, Good
<1>3. StoreGood'
  BY <1>2, SavesGood DEF StepSucceeds
<1>4. RestType'
  BY <1>2 DEF StepSucceeds, IInv, TypeOK, RestType
<1> QED
  BY <1>1, <1>3, <1>4, DropTo DEF StepSucceeds, Labels, Holding

LEMMA StepFailsKeeps ==
    ASSUME IInv, NEW w \in Workers, StepFails(w)
    PROVE  IInv'
<1>1. w \in Procs /\ pc[w] = "exec" /\ UNCHANGED job /\ StoreGood'
  BY KeepsStore DEF StepFails, Procs
<1>2. RestType'
  BY <1>1 DEF StepFails, IInv, TypeOK, RestType
<1> QED
  BY <1>1, <1>2, DropTo DEF StepFails, Labels, Holding

LEMMA AlreadyMigratedKeeps ==
    ASSUME IInv, NEW w \in Workers, AlreadyMigrated(w)
    PROVE  IInv'
<1>1. w \in Procs /\ pc[w] = "exec" /\ copy[w].cur = 1 /\ UNCHANGED job
  BY DEF AlreadyMigrated, Procs
<1>2. job[w] \in Migrations /\ copy[w] \in Good
  BY <1>1, Standing DEF Fits, Holding
<1>3. AlreadyDone(copy[w]) \in Good
  BY <1>1, <1>2, AlreadyDoneGood
<1>4. StoreGood'
  BY <1>2, <1>3, SavesGood DEF AlreadyMigrated
<1>5. 1 \in Steps
  BY ExecutorAssumption DEF Steps
<1>6. RestType'
  BY <1>2, <1>5 DEF AlreadyMigrated, IInv, TypeOK, RestType
<1> QED
  BY <1>1, <1>4, <1>6, DropTo DEF AlreadyMigrated, Labels, Holding

LEMMA OpenPRKeeps ==
    ASSUME IInv, NEW w \in Workers, OpenPR(w)
    PROVE  IInv'
<1>1. w \in Procs /\ pc[w] = "exec" /\ Goto(w, "opened") /\ UNCHANGED job /\ StoreGood'
  BY KeepsStore DEF OpenPR, Procs
<1>2. /\ copy[w] \in Good /\ copy[w].status = "running" /\ copy[w].cur <= NSteps
  BY <1>1, Standing DEF Fits, Holding, KnownRunning, InStep
<1>3. PICK p \in PRs : prs' = [prs EXCEPT ![p] = "open"] /\ Hold(w, Opened(copy[w], p))
  BY DEF OpenPR
<1> DEFINE c == Opened(copy[w], p)
<1>4. c \in Good /\ c.status = "running" /\ c.cur <= NSteps /\ Step(c).pr > 0
  BY <1>2, OpenedGood
<1>5. RestType'
  BY <1>3 DEF OpenPR, IInv, TypeOK, RestType
<1>6. Hold(w, c)
  BY <1>3
<1> HIDE DEF c
<1>7. Fits("opened", c)
  BY <1>4 DEF Fits, Holding, KnownRunning, KnownWaiting, InStep, WithPR
<1> QED
  BY <1>1, <1>4, <1>5, <1>6, <1>7, HoldAt DEF Labels

LEMMA AutoMergeKeeps ==
    ASSUME IInv, NEW w \in Workers, AutoMerge(w)
    PROVE  IInv'
<1>1. w \in Procs /\ pc[w] = "pr" /\ UNCHANGED <<job, copy>> /\ StoreGood'
  BY KeepsStore DEF AutoMerge, Procs
<1>2. job[w] \in Migrations /\ Fits("pr", copy[w]) /\ copy[w] \in Good
  BY <1>1, Standing DEF Fits, Holding
<1>3. PICK l \in {"merged", "parked"} : Goto(w, l)
  BY DEF AutoMerge
<1>4. Fits(l, copy[w])
  BY <1>2, <1>3 DEF Fits, Holding, KnownRunning, KnownWaiting, InStep, WithPR
<1>5. copy[w].cur \in Steps
  BY <1>2, CurrentStep DEF Fits, InStep, Good
<1>6. RestType'
  BY <1>2, <1>5 DEF AutoMerge, IInv, TypeOK, RestType
<1>7. Hold(w, copy[w])
  BY <1>1, Standing DEF Hold
<1> QED
  BY <1>1, <1>2, <1>3, <1>4, <1>6, <1>7, HoldAt DEF Labels

LEMMA SaveMergedKeeps ==
    ASSUME IInv, NEW w \in Workers, SaveMerged(w)
    PROVE  IInv'
<1>1. w \in Procs /\ pc[w] = "merged" /\ UNCHANGED job /\ RestType'
  BY KeepsRest DEF SaveMerged, Procs
<1>2. /\ job[w] \in Migrations /\ copy[w] \in Good
      /\ copy[w].status = "running" /\ copy[w].cur <= NSteps
  BY <1>1, Standing DEF Fits, Holding, KnownRunning, InStep
<1>3. StoreGood'
  BY <1>2, MergedGood, SavesGood DEF SaveMerged
<1> QED
  BY <1>1, <1>3, DropTo DEF SaveMerged, Labels, Holding

LEMMA SaveParkedKeeps ==
    ASSUME IInv, NEW w \in Workers, SaveParked(w)
    PROVE  IInv'
<1>1. w \in Procs /\ pc[w] \in {"parked", "pr"} /\ UNCHANGED job /\ RestType'
  BY KeepsRest DEF SaveParked, Procs
<1>2. /\ job[w] \in Migrations /\ copy[w] \in Good /\ copy[w].status = "running"
      /\ copy[w].cur <= NSteps /\ Step(copy[w]).pr > 0
  BY <1>1, Standing DEF Fits, Holding, KnownRunning, InStep, WithPR
<1>3. StoreGood'
  BY <1>2, ParkedGood, SavesGood DEF SaveParked
<1> QED
  BY <1>1, <1>3, DropTo DEF SaveParked, Labels, Holding

LEMMA RereadKeeps ==
    ASSUME IInv, NEW w \in Workers, Reread(w)
    PROVE  IInv'
<1>1. w \in Procs /\ pc[w] # "idle" /\ UNCHANGED job /\ StoreGood' /\ RestType'
  BY KeepsStore, KeepsRest DEF Reread, Procs
<1>2. job[w] \in Migrations
  BY <1>1, Standing
<1>3. CASE \E l \in {"panic", "exit"} : Drop(w, l)
  BY <1>1, <1>3, DropTo DEF Labels, Holding
<1>4. CASE /\ Exists(job[w]) /\ store[job[w]].cur <= NSteps
           /\ Hold(w, store[job[w]]) /\ Goto(w, "judge")
  <2>1. store[job[w]] \in Good
    BY <1>2, <1>4, ReadsGood
  <2>2. Fits("judge", store[job[w]])
    BY <1>4, <2>1 DEF Fits, Holding, KnownRunning, KnownWaiting, InStep, WithPR
  <2> QED
    BY <1>1, <1>4, <2>1, <2>2, HoldAt DEF Labels
<1> QED
  BY <1>3, <1>4 DEF Reread

LEMMA FailKeeps ==
    ASSUME IInv, NEW w \in Workers, Fail(w)
    PROVE  IInv'
<1>1. w \in Procs /\ pc[w] = "judge" /\ UNCHANGED job /\ RestType'
  BY KeepsRest DEF Fail, Procs
<1>2. job[w] \in Migrations /\ copy[w] \in Good /\ copy[w].cur <= NSteps
  BY <1>1, Standing DEF Fits, Holding, InStep
<1>3. StoreGood'
  BY <1>2, FailingGood, SavesGood DEF Fail
<1> QED
  BY <1>1, <1>3, DropTo DEF Fail, Labels, Holding

LEMMA WaitKeeps ==
    ASSUME IInv, NEW w \in Workers, Wait(w)
    PROVE  IInv'
<1>1. w \in Procs /\ pc[w] = "judge" /\ Step(copy[w]).st = "waiting" /\ UNCHANGED job /\ RestType'
  BY KeepsRest DEF Wait, Procs
<1>2. job[w] \in Migrations /\ copy[w] \in Good /\ copy[w].cur <= NSteps
  BY <1>1, Standing DEF Fits, Holding, InStep
<1>3. WithStatus(copy[w], "waiting") \in Good
  BY <1>1, <1>2, WaitingGood
<1>4. StoreGood'
  BY <1>2, <1>3, SavesGood DEF Wait
<1> QED
  BY <1>1, <1>4, DropTo DEF Wait, Labels, Holding

LEMMA AdvanceKeeps ==
    ASSUME IInv, NEW w \in Workers, Advance(w)
    PROVE  IInv'
<1> DEFINE c == Advanced(copy[w])
<1>1. w \in Procs /\ pc[w] = "judge" /\ Step(copy[w]).st # "waiting" /\ UNCHANGED job /\ RestType'
  BY KeepsRest DEF Advance, Procs
<1>2. job[w] \in Migrations /\ copy[w] \in Good /\ copy[w].cur <= NSteps
  BY <1>1, Standing DEF Fits, Holding, InStep
<1>3. copy[w].status # "waiting"
  BY <1>1, <1>2 DEF Good, Coherent, WaitsForItsPR
<1>4. c \in Good
  BY <1>2, <1>3, AdvancedGood
<1>5. StoreGood'
  BY <1>2, <1>4, SavesGood DEF Advance
<1>6. (Hold(w, c) /\ Goto(w, "gate")) \/ Drop(w, "top")
  BY DEF Advance
<1> HIDE DEF c
<1>7. Fits("gate", c)
  BY <1>4 DEF Fits, Holding, KnownRunning, KnownWaiting, InStep, WithPR
<1>8. CASE Hold(w, c) /\ Goto(w, "gate")
  BY <1>1, <1>4, <1>5, <1>7, <1>8, HoldAt DEF Labels
<1>9. CASE Drop(w, "top")
  BY <1>1, <1>5, <1>9, DropTo DEF Labels, Holding
<1> QED
  BY <1>6, <1>8, <1>9

LEMMA GateKeeps ==
    ASSUME IInv, NEW w \in Workers, Gate(w)
    PROVE  IInv'
<1>1. w \in Procs /\ pc[w] = "gate" /\ UNCHANGED job /\ RestType'
  BY KeepsRest DEF Gate, Procs
<1>2. job[w] \in Migrations /\ copy[w] \in Good
  BY <1>1, Standing DEF Fits, Holding
<1>3. StoreGood'
  BY <1>2, WithStatusGood, SavesGood DEF Gate, Status
<1> QED
  BY <1>1, <1>3, DropTo DEF Gate, Labels, Holding

LEMMA RecoverReadKeeps ==
    ASSUME IInv, NEW w \in Workers, RecoverRead(w)
    PROVE  IInv'
<1>1. w \in Procs /\ pc[w] # "idle" /\ UNCHANGED job /\ StoreGood' /\ RestType'
  BY KeepsStore, KeepsRest DEF RecoverRead, Procs
<1>2. job[w] \in Migrations
  BY <1>1, Standing
<1>3. CASE Drop(w, "exit")
  BY <1>1, <1>3, DropTo DEF Labels, Holding
<1>4. CASE Exists(job[w]) /\ Hold(w, store[job[w]]) /\ Goto(w, "recover")
  <2>1. store[job[w]] \in Good
    BY <1>2, <1>4, ReadsGood
  <2>2. Fits("recover", store[job[w]])
    BY <2>1 DEF Fits, Holding, KnownRunning, KnownWaiting, InStep, WithPR
  <2> QED
    BY <1>1, <1>4, <2>1, <2>2, HoldAt DEF Labels
<1> QED
  BY <1>3, <1>4 DEF RecoverRead

LEMMA RecoverSaveKeeps ==
    ASSUME IInv, NEW w \in Workers, RecoverSave(w)
    PROVE  IInv'
<1>1. w \in Procs /\ pc[w] = "recover" /\ UNCHANGED job /\ RestType'
  BY KeepsRest DEF RecoverSave, Procs
<1>2. job[w] \in Migrations /\ copy[w] \in Good
  BY <1>1, Standing DEF Fits, Holding
<1>3. StoreGood'
  BY <1>2, WithStatusGood, SavesGood DEF RecoverSave, Status
<1> QED
  BY <1>1, <1>3, DropTo DEF RecoverSave, Labels, Holding

LEMMA ExitKeeps ==
    ASSUME IInv, NEW w \in Workers, Exit(w)
    PROVE  IInv'
<1>1. w \in Procs /\ StoreGood'
  BY KeepsStore DEF Exit, Procs
<1>2. RestType'
  BY DEF Exit, IInv, TypeOK, RestType
<1>3. /\ pc' = [pc EXCEPT ![w] = "idle"]
      /\ copy' = [copy EXCEPT ![w] = Nobody]
      /\ job' = [job EXCEPT ![w] = Nobody]
  BY DEF Exit, Drop, Goto, Hold
<1>4. Fits("idle", Nobody)
  BY NothingHeld DEF Labels, Holding
<1> QED
  BY <1>1, <1>2, <1>3, <1>4, MoveTo DEF Labels

LEMMA RunStepsKeeps ==
    ASSUME IInv, NEW w \in Workers, RunSteps(w)
    PROVE  IInv'
<1>1. w \in Procs
  BY DEF Procs
<1> QED
  BY <1>1, FetchKeeps, FinishKeeps, BeginKeeps, StepSucceedsKeeps, StepFailsKeeps,
     AlreadyMigratedKeeps, OpenPRKeeps, LogFirstKeeps, AutoMergeKeeps, SaveMergedKeeps,
     SaveParkedKeeps, RereadKeeps, FailKeeps, WaitKeeps, AdvanceKeeps, GateKeeps,
     RecoverReadKeeps, RecoverSaveKeeps, ExitKeeps
  DEF RunSteps

(***************************************************************************)
(* The requests.                                                           *)
(***************************************************************************)
LEMMA AnswerTo ==
    ASSUME IInv, NEW h \in Procs, Answer(h), StoreGood', RestType'
    PROVE  IInv'
<1>1. /\ pc' = [pc EXCEPT ![h] = "idle"]
      /\ copy' = [copy EXCEPT ![h] = Nobody]
      /\ job' = [job EXCEPT ![h] = Nobody]
  BY DEF Answer, Drop, Goto, Hold
<1>2. Fits("idle", Nobody)
  BY NothingHeld DEF Labels, Holding
<1> QED
  BY <1>1, <1>2, MoveTo DEF Labels

LEMMA TakeTo ==
    ASSUME IInv, NEW h \in Procs, NEW id \in Migrations, NEW c \in Good \cup {Nobody},
           NEW l \in Labels, l # "idle", Take(h, id, c, l), Fits(l, c), StoreGood', RestType'
    PROVE  IInv'
<1>1. /\ pc' = [pc EXCEPT ![h] = l]
      /\ copy' = [copy EXCEPT ![h] = c]
      /\ job' = [job EXCEPT ![h] = id]
  BY DEF Take, Goto, Hold
<1>2. c \in Record \cup {Nobody}
  BY DEF Good
<1> QED
  BY <1>1, <1>2, MoveTo

LEMMA StayTo ==
    ASSUME IInv, NEW p \in Procs, NEW l \in Labels, l # "idle", pc[p] # "idle",
           Goto(p, l), UNCHANGED <<copy, job>>, Fits(l, copy[p]), StoreGood', RestType'
    PROVE  IInv'
<1>1. /\ pc' = [pc EXCEPT ![p] = l]
      /\ copy' = [copy EXCEPT ![p] = copy[p]]
      /\ job' = [job EXCEPT ![p] = job[p]]
      /\ job[p] \in Migrations /\ copy[p] \in Record \cup {Nobody}
  BY Standing DEF Goto
<1> QED
  BY <1>1, MoveTo

LEMMA Counted ==
    ASSUME IInv, requests < MaxRequests, requests' = requests + 1
    PROVE  requests' \in 0..MaxRequests
BY ExecutorAssumption DEF IInv, TypeOK

LEMMA StartKeeps ==
    ASSUME IInv, NEW h \in Handlers, NEW id \in Migrations, NEW mode \in Modes,
           Start(h, id, mode)
    PROVE  IInv'
<1> DEFINE c == NewMigration(mode)
<1>1. h \in Procs /\ Take(h, id, c, "create") /\ StoreGood'
  BY KeepsStore DEF Start, Procs
<1>2. c \in Good
  BY NewMigrationGood
<1>3. RestType'
  BY Counted DEF Start, Ask, IInv, TypeOK, RestType
<1> HIDE DEF c
<1>4. Fits("create", c)
  BY <1>2 DEF Fits, Holding, KnownRunning, KnownWaiting, InStep, WithPR
<1> QED
  BY <1>1, <1>2, <1>3, <1>4, TakeTo DEF Labels

LEMMA CreateKeeps ==
    ASSUME IInv, NEW h \in Handlers, Create(h)
    PROVE  IInv'
<1>1. h \in Procs /\ pc[h] = "create" /\ RestType'
  BY KeepsRest DEF Create, Procs
<1>2. job[h] \in Migrations /\ copy[h] \in Good
  BY <1>1, Standing DEF Fits, Holding
<1>3. StoreGood'
  BY <1>2, SavesGood DEF Create
<1>4. CASE Goto(h, "spawn") /\ UNCHANGED <<job, copy>>
  <2>1. Fits("spawn", copy[h])
    BY NothingHeld DEF Labels, Holding
  <2> QED
    BY <1>1, <1>3, <1>4, <2>1, StayTo DEF Labels
<1>5. CASE Answer(h)
  BY <1>1, <1>3, <1>5, AnswerTo
<1> QED
  BY <1>4, <1>5 DEF Create

\* The only step that moves two actors.
LEMMA SpawnKeeps ==
    ASSUME IInv, NEW h \in Handlers, Spawn(h)
    PROVE  IInv'
<1>1. pc[h] = "spawn" /\ Hold(h, Nobody) /\ UNCHANGED <<store, prs, cancelled, failed, todo, requests, done, used>>
  BY DEF Spawn
<1>2. PICK w \in Workers :
        /\ pc' = [pc EXCEPT ![w] = "top", ![h] = "idle"]
        /\ job' = [job EXCEPT ![w] = job[h], ![h] = Nobody]
        /\ running' = [running EXCEPT ![job[h]] = w]
  BY DEF Spawn
<1>3. h \in Procs /\ w \in Procs /\ w # h
  BY ExecutorAssumption DEF Procs
<1>4. job[h] \in Migrations
  BY <1>1, <1>3, Standing
<1>5. TypeOK'
  <2>1. /\ pc \in [Procs -> Labels]
        /\ job \in [Procs -> Migrations \cup {Nobody}]
        /\ copy \in [Procs -> Record \cup {Nobody}]
        /\ running \in [Migrations -> Workers \cup {Nobody}]
    BY DEF IInv, TypeOK
  <2>2. pc' \in [Procs -> Labels]
    BY <1>2, <2>1 DEF Labels
  <2>3. job' \in [Procs -> Migrations \cup {Nobody}]
    BY <1>2, <1>4, <2>1
  <2>4. copy' \in [Procs -> Record \cup {Nobody}]
    BY <1>1, <2>1 DEF Hold
  <2>5. running' \in [Migrations -> Workers \cup {Nobody}]
    BY <1>2, <1>4, <2>1
  <2> QED
    BY <1>1, <2>2, <2>3, <2>4, <2>5 DEF IInv, TypeOK
<1>6. StoreGood'
  BY <1>1, KeepsStore
<1>7. ASSUME NEW q \in Procs
      PROVE  LabelInv(q)'
  <2>0. /\ pc \in [Procs -> Labels]
        /\ job \in [Procs -> Migrations \cup {Nobody}]
        /\ copy \in [Procs -> Record \cup {Nobody}]
    BY DEF IInv, TypeOK
  <2>1. CASE q = w
    <3>1. pc'[q] = "top" /\ job'[q] = job[h]
      BY <1>2, <1>3, <2>0, <2>1
    <3>2. Fits("top", copy[q])'
      BY NothingHeld DEF Labels, Holding, Fits, KnownRunning, KnownWaiting, InStep, WithPR
    <3> QED
      BY <1>4, <3>1, <3>2 DEF LabelInv
  <2>2. CASE q = h
    <3>1. pc'[q] = "idle"
      BY <1>2, <1>3, <2>0, <2>2
    <3>2. Fits("idle", copy[q])'
      BY DEF Holding, Fits, KnownRunning, KnownWaiting, InStep, WithPR
    <3> QED
      BY <3>1, <3>2 DEF LabelInv
  <2>3. CASE q # w /\ q # h
    <3>1. pc'[q] = pc[q] /\ copy'[q] = copy[q] /\ job'[q] = job[q]
      BY <1>1, <1>2, <2>0, <2>3 DEF Hold
    <3>2. LabelInv(q)
      BY DEF IInv
    <3> QED
      BY <3>1, <3>2 DEF LabelInv, Fits, Step
  <2> QED
    BY <2>1, <2>2, <2>3
<1> QED
  BY <1>5, <1>6, <1>7 DEF IInv

LEMMA ContinueWithFits ==
    ASSUME IInv, NEW h \in Handlers, NEW id \in Migrations, Exists(id), Resumable(store[id]),
           ContinueWith(h, id), StoreGood', RestType'
    PROVE  IInv'
<1>1. store[id] \in Good /\ h \in Procs
  BY ReadsGood DEF Procs
<1>2. CASE UnmergedPR(store[id])
  <2>1. Fits("merge", store[id])
    BY <1>1, <1>2 DEF UnmergedPR, Fits, Holding, KnownRunning, KnownWaiting, InStep, WithPR
  <2> QED
    BY <1>1, <1>2, <2>1, TakeTo DEF ContinueWith, Labels
<1>3. CASE ~UnmergedPR(store[id])
  <2>1. Fits("resume", store[id])
    BY <1>1 DEF Resumable, Fits, Holding, KnownRunning, KnownWaiting, InStep, WithPR
  <2> QED
    BY <1>1, <1>3, <2>1, TakeTo DEF ContinueWith, Labels
<1> QED
  BY <1>2, <1>3

LEMMA ContinueKeeps ==
    ASSUME IInv, NEW h \in Handlers, NEW id \in Migrations, Continue(h, id)
    PROVE  IInv'
<1>1. Exists(id) /\ Resumable(store[id]) /\ ContinueWith(h, id) /\ StoreGood'
  BY KeepsStore DEF Continue
<1>2. RestType'
  BY Counted DEF Continue, Ask, IInv, TypeOK, RestType
<1> QED
  BY <1>1, <1>2, ContinueWithFits

LEMMA MergeToContinueKeeps ==
    ASSUME IInv, NEW h \in Handlers, MergeToContinue(h)
    PROVE  IInv'
<1>1. h \in Procs /\ pc[h] = "merge" /\ UNCHANGED <<job, copy>> /\ StoreGood'
  BY KeepsStore DEF MergeToContinue, Procs
<1>2. /\ job[h] \in Migrations /\ copy[h] \in Good
      /\ copy[h].status = "waiting"
  BY <1>1, Standing DEF Fits, Holding, KnownWaiting
<1>3. PICK l \in {"accepted", "declined"} : Goto(h, l)
  BY DEF MergeToContinue
<1>4. Fits(l, copy[h])
  BY <1>2, <1>3 DEF Fits, Holding, KnownRunning, KnownWaiting, InStep, WithPR
<1>5. copy[h].cur \in Steps
  BY <1>2, CurrentStep DEF Good, Coherent, WaitsForItsPR
<1>6. RestType'
  BY <1>2, <1>5 DEF MergeToContinue, IInv, TypeOK, RestType
<1> QED
  BY <1>1, <1>3, <1>4, <1>6, StayTo DEF Labels

LEMMA MergeRefusedKeeps ==
    ASSUME IInv, NEW h \in Handlers, MergeRefused(h)
    PROVE  IInv'
<1>1. h \in Procs /\ pc[h] = "refused" /\ Answer(h) /\ RestType'
  BY KeepsRest DEF MergeRefused, Procs
<1>2. job[h] \in Migrations /\ copy[h] \in Good /\ copy[h].status = "waiting"
  BY <1>1, Standing DEF Fits, Holding, KnownWaiting
<1>3. copy[h].cur <= NSteps
  BY <1>2 DEF Good, Coherent, WaitsForItsPR
<1>4. StoreGood'
  BY <1>2, <1>3, FailingGood, SavesGood DEF MergeRefused
<1> QED
  BY <1>1, <1>4, AnswerTo

LEMMA ResumeKeeps ==
    ASSUME IInv, NEW h \in Handlers, Resume(h)
    PROVE  IInv'
<1>1. h \in Procs /\ pc[h] \in {"resume", "approved"} /\ RestType'
  BY KeepsRest DEF Resume, Procs
<1>2. /\ job[h] \in Migrations /\ copy[h] \in Good
      /\ copy[h].status = "failed" => copy[h].cur <= NSteps
  BY <1>1, Standing DEF Fits, Holding
<1>3. Resumed(copy[h]) \in Good
  BY <1>2, ResumedGood
<1>4. StoreGood'
  BY <1>2, <1>3, SavesGood DEF Resume
<1>5. CASE Goto(h, "spawn") /\ UNCHANGED <<job, copy>>
  <2>1. Fits("spawn", copy[h])
    BY NothingHeld DEF Labels, Holding
  <2> QED
    BY <1>1, <1>4, <1>5, <2>1, StayTo DEF Labels
<1>6. CASE Answer(h)
  BY <1>1, <1>4, <1>6, AnswerTo
<1> QED
  BY <1>5, <1>6 DEF Resume

LEMMA RetryKeeps ==
    ASSUME IInv, NEW h \in Handlers, NEW id \in Migrations, Retry(h, id)
    PROVE  IInv'
<1>1. /\ h \in Procs /\ Exists(id) /\ store[id].cur <= NSteps
      /\ Take(h, id, store[id], "resume") /\ StoreGood'
  BY KeepsStore DEF Retry, Procs
<1>2. store[id] \in Good
  BY <1>1, ReadsGood
<1>3. RestType'
  BY Counted DEF Retry, Ask, IInv, TypeOK, RestType
<1>4. Fits("resume", store[id])
  BY <1>1, <1>2 DEF Fits, Holding, KnownRunning, KnownWaiting, InStep, WithPR
<1> QED
  BY <1>1, <1>2, <1>3, <1>4, TakeTo DEF Labels

LEMMA HaltKeeps ==
    ASSUME IInv, NEW h \in Handlers, NEW id \in Migrations, NEW call \in Halting,
           Halt(h, id, call)
    PROVE  IInv'
<1>1. h \in Procs /\ Take(h, id, Nobody, call) /\ StoreGood'
  BY KeepsStore DEF Halt, Procs
<1>2. cancelled' \in SUBSET Workers /\ running' \in [Migrations -> Workers \cup {Nobody}]
  BY DEF Halt, IInv, TypeOK
<1>3. RestType'
  BY <1>2, Counted DEF Halt, Ask, IInv, TypeOK, RestType
<1>4. call \in Labels \ Holding /\ call # "idle"
  BY DEF Halting, Labels, Holding
<1> QED
  BY <1>1, <1>3, <1>4, NothingHeld, TakeTo

LEMMA HaltReadKeeps ==
    ASSUME IInv, NEW h \in Handlers, HaltRead(h)
    PROVE  IInv'
<1>1. h \in Procs /\ pc[h] \in Halting /\ pc[h] # "idle" /\ StoreGood' /\ RestType'
  BY KeepsStore, KeepsRest DEF HaltRead, Halting, Procs
<1>2. job[h] \in Migrations
  BY <1>1, Standing
<1>3. ASSUME Exists(job[h]), UNCHANGED job, NEW st \in {"paused", "cancelled"},
             NEW l \in {"halt", "saveAndDelete"},
             Hold(h, WithStatus(store[job[h]], st)), Goto(h, l)
      PROVE  IInv'
  <2> DEFINE c == WithStatus(store[job[h]], st)
  <2>1. c \in Good
    BY <1>2, <1>3, ReadsGood, WithStatusGood DEF Status
  <2>2. Hold(h, c)
    BY <1>3
  <2> HIDE DEF c
  <2>3. Fits(l, c)
    BY <2>1 DEF Fits, Holding, KnownRunning, KnownWaiting, InStep, WithPR
  <2> QED
    BY <1>1, <1>3, <2>1, <2>2, <2>3, HoldAt DEF Labels
<1>4. CASE Goto(h, "remove") /\ UNCHANGED <<copy, job>>
  <2>1. Fits("remove", copy[h])
    BY NothingHeld DEF Labels, Holding
  <2> QED
    BY <1>1, <1>4, <2>1, StayTo DEF Labels
<1>5. CASE Answer(h)
  BY <1>1, <1>5, AnswerTo
<1> QED
  BY <1>3, <1>4, <1>5 DEF HaltRead

LEMMA HaltSaveKeeps ==
    ASSUME IInv, NEW h \in Handlers, HaltSave(h)
    PROVE  IInv'
<1>1. h \in Procs /\ pc[h] \in {"halt", "saveAndDelete"} /\ RestType'
  BY KeepsRest DEF HaltSave, Procs
<1>2. job[h] \in Migrations /\ copy[h] \in Good
  BY <1>1, Standing DEF Fits, Holding
<1>3. StoreGood'
  BY <1>2, SavesGood DEF HaltSave
<1>4. CASE Goto(h, "remove") /\ UNCHANGED <<copy, job>>
  <2>1. Fits("remove", copy[h])
    BY NothingHeld DEF Labels, Holding
  <2> QED
    BY <1>1, <1>3, <1>4, <2>1, StayTo DEF Labels
<1>5. CASE Answer(h)
  BY <1>1, <1>3, <1>5, AnswerTo
<1> QED
  BY <1>4, <1>5 DEF HaltSave

LEMMA RemoveKeeps ==
    ASSUME IInv, NEW h \in Handlers, Remove(h)
    PROVE  IInv'
<1>1. h \in Procs /\ pc[h] = "remove" /\ Answer(h) /\ RestType'
  BY KeepsRest DEF Remove, Procs
<1>2. job[h] \in Migrations
  BY <1>1, Standing
<1>3. StoreGood'
  BY <1>2, SavesGood DEF Remove
<1> QED
  BY <1>1, <1>3, AnswerTo

LEMMA MergePRKeeps ==
    ASSUME IInv, NEW h \in Handlers, NEW id \in Migrations, NEW s \in Steps, MergePR(h, id, s)
    PROVE  IInv'
<1>1. h \in Procs /\ Exists(id) /\ Take(h, id, store[id], "mergePR") /\ StoreGood'
  BY KeepsStore DEF MergePR, Procs
<1>2. store[id] \in Good
  BY <1>1, ReadsGood
<1>3. RestType'
  BY Counted DEF MergePR, Ask, IInv, TypeOK, RestType
<1>4. Fits("mergePR", store[id])
  BY <1>2 DEF Fits, Holding, KnownRunning, KnownWaiting, InStep, WithPR
<1> QED
  BY <1>1, <1>2, <1>3, <1>4, TakeTo DEF Labels

LEMMA MergePRAtHostKeeps ==
    ASSUME IInv, NEW h \in Handlers, MergePRAtHost(h)
    PROVE  IInv'
<1>1. h \in Procs /\ pc[h] = "mergePR" /\ StoreGood'
  BY KeepsStore DEF MergePRAtHost, Procs
<1>2. job[h] \in Migrations /\ copy[h] \in Good /\ todo[h] \subseteq Steps
  BY <1>1, Standing DEF Fits, Holding, IInv, TypeOK
<1>3. RestType'
  BY <1>2 DEF MergePRAtHost, IInv, TypeOK, RestType
<1>4. CASE Goto(h, "mergedByUser") /\ UNCHANGED <<copy, job>>
  <2>1. Fits("mergedByUser", copy[h])
    BY <1>2 DEF Fits, Holding, KnownRunning, KnownWaiting, InStep, WithPR
  <2> QED
    BY <1>1, <1>3, <1>4, <2>1, StayTo DEF Labels
<1>5. CASE Answer(h)
  BY <1>1, <1>3, <1>5, AnswerTo
<1> QED
  BY <1>4, <1>5 DEF MergePRAtHost

LEMMA MergePRSaveKeeps ==
    ASSUME IInv, NEW h \in Handlers, MergePRSave(h)
    PROVE  IInv'
<1>1. h \in Procs /\ pc[h] = "mergedByUser"
  BY DEF MergePRSave, Procs
<1>2. job[h] \in Migrations /\ copy[h] \in Good /\ todo[h] \subseteq Steps
  BY <1>1, Standing DEF Fits, Holding, IInv, TypeOK
<1>3. PICK s \in todo[h] :
        /\ TrySave(job[h], MergedByUser(copy[h], s))
        /\ (Goto(h, "continue") /\ Hold(h, Nobody) /\ UNCHANGED job) \/ Answer(h)
  BY DEF MergePRSave
<1>4. StoreGood'
  BY <1>2, <1>3, MergedByUserGood, SavesGood
<1>5. RestType'
  BY DEF MergePRSave, IInv, TypeOK, RestType
<1>6. CASE Goto(h, "continue") /\ Hold(h, Nobody) /\ UNCHANGED job
  BY <1>1, <1>4, <1>5, <1>6, DropTo DEF Drop, Labels, Holding
<1>7. CASE Answer(h)
  BY <1>1, <1>4, <1>5, <1>7, AnswerTo
<1> QED
  BY <1>3, <1>6, <1>7

LEMMA ContinueMergedKeeps ==
    ASSUME IInv, NEW h \in Handlers, ContinueMerged(h)
    PROVE  IInv'
<1>1. h \in Procs /\ pc[h] = "continue" /\ StoreGood' /\ RestType'
  BY KeepsStore, KeepsRest DEF ContinueMerged, Procs
<1>2. job[h] \in Migrations
  BY <1>1, Standing
<1>3. CASE Exists(job[h]) /\ Resumable(store[job[h]]) /\ ContinueWith(h, job[h])
  BY <1>1, <1>2, <1>3, ContinueWithFits
<1>4. CASE Answer(h)
  BY <1>1, <1>4, AnswerTo
<1> QED
  BY <1>3, <1>4 DEF ContinueMerged

LEMMA RollbackKeeps ==
    ASSUME IInv, NEW h \in Handlers, NEW id \in Migrations, Rollback(h, id)
    PROVE  IInv'
<1>1. h \in Procs /\ Exists(id) /\ Take(h, id, store[id], "reverting") /\ StoreGood'
  BY KeepsStore DEF Rollback, Procs
<1>2. store[id] \in Good
  BY <1>1, ReadsGood
<1>3. RollbackSteps \subseteq Steps
  BY ExecutorAssumption DEF Steps
<1>4. RestType'
  BY <1>3, Counted DEF Rollback, Ask, IInv, TypeOK, RestType
<1>5. Fits("reverting", store[id])
  BY <1>2 DEF Fits, Holding, KnownRunning, KnownWaiting, InStep, WithPR
<1> QED
  BY <1>1, <1>2, <1>4, <1>5, TakeTo DEF Labels

LEMMA RollbackPRKeeps ==
    ASSUME IInv, NEW h \in Handlers, RollbackPR(h)
    PROVE  IInv'
<1>1. h \in Procs /\ pc[h] = "rollback" /\ TrySave(job[h], copy[h]) /\ UNCHANGED <<pc, job, copy>>
  BY DEF RollbackPR, Procs
<1>2. job[h] \in Migrations /\ copy[h] \in Good
  BY <1>1, Standing DEF Fits, Holding
<1>3. StoreGood'
  BY <1>1, <1>2, SavesGood
<1>4. prs' \in [PRs -> {"none", "open", "merged"}]
  BY DEF RollbackPR, IInv, TypeOK
<1>5. failed' \in SUBSET Procs /\ todo' \in [Handlers -> SUBSET Steps]
  BY <1>1 DEF RollbackPR, IInv, TypeOK
<1>6. RestType'
  BY <1>4, <1>5 DEF RollbackPR, IInv, TypeOK, RestType
<1> QED
  BY <1>1, <1>2, <1>3, <1>6, Standing, MoveTo

LEMMA RollbackEndKeeps ==
    ASSUME IInv, NEW h \in Handlers, RollbackEnd(h)
    PROVE  IInv'
<1>1. h \in Procs /\ pc[h] = "rollback" /\ Answer(h)
  BY DEF RollbackEnd, Procs
<1>2. job[h] \in Migrations /\ copy[h] \in Good
  BY <1>1, Standing DEF Fits, Holding
<1>3. WithStatus(copy[h], IF h \in failed THEN "failed" ELSE "rolled_back") \in Good
  BY <1>2, WithStatusGood DEF Status
<1>4. StoreGood'
  BY <1>2, <1>3, SavesGood DEF RollbackEnd
<1>5. RestType'
  BY DEF RollbackEnd, IInv, TypeOK, RestType
<1> QED
  BY <1>1, <1>4, <1>5, AnswerTo

LEMMA RequestKeeps ==
    ASSUME IInv, NEW h \in Handlers, Request(h)
    PROVE  IInv'
BY StartKeeps, ContinueKeeps, RetryKeeps, HaltKeeps, MergePRKeeps, RollbackKeeps DEF Request

LEMMA ServeKeeps ==
    ASSUME IInv, NEW h \in Handlers, Serve(h)
    PROVE  IInv'
<1>1. h \in Procs
  BY DEF Procs
<1> QED
  BY <1>1, CreateKeeps, SpawnKeeps, MergeToContinueKeeps, LogFirstKeeps, MergeRefusedKeeps,
     ResumeKeeps, HaltReadKeeps, HaltSaveKeeps, RemoveKeeps, MergePRAtHostKeeps,
     MergePRSaveKeeps, ContinueMergedKeeps, RollbackPRKeeps, RollbackEndKeeps
  DEF Serve

(***************************************************************************)
(* The environment.                                                        *)
(***************************************************************************)
LEMMA HostMergeKeeps ==
    ASSUME IInv, NEW p \in PRs, HostMerge(p)
    PROVE  IInv'
<1>1. /\ prs' = [prs EXCEPT ![p] = "merged"]
      /\ UNCHANGED <<store, running, pc, job, copy, cancelled, failed, todo, requests, done, used>>
  BY DEF HostMerge
<1>2. TypeOK' /\ StoreGood'
  BY <1>1 DEF IInv, TypeOK, StoreGood
<1>3. \A q \in Procs : LabelInv(q)'
  BY <1>1 DEF IInv, LabelInv, Fits, Step
<1> QED
  BY <1>2, <1>3 DEF IInv

LEMMA CrashKeeps ==
    ASSUME IInv, Crash
    PROVE  IInv'
<1>1. TypeOK' /\ StoreGood'
  BY DEF Crash, IInv, TypeOK, StoreGood, Labels
<1>2. \A q \in Procs : pc'[q] = "idle"
  BY DEF Crash
<1>3. \A q \in Procs : LabelInv(q)'
  BY <1>2 DEF LabelInv, Fits, Holding, KnownRunning, KnownWaiting, InStep, WithPR
<1> QED
  BY <1>1, <1>3 DEF IInv

LEMMA InitInv == Init => IInv
<1> SUFFICES ASSUME Init PROVE IInv
  OBVIOUS
<1>1. TypeOK /\ StoreGood
  BY ExecutorAssumption DEF Init, TypeOK, StoreGood, Labels
<1>2. \A q \in Procs : pc[q] = "idle"
  BY DEF Init
<1>3. \A q \in Procs : LabelInv(q)
  BY <1>2 DEF LabelInv, Fits, Holding, KnownRunning, KnownWaiting, InStep, WithPR
<1> QED
  BY <1>1, <1>3 DEF IInv

LEMMA NextInv == IInv /\ [Next]_vars => IInv'
<1> SUFFICES ASSUME IInv, [Next]_vars PROVE IInv'
  OBVIOUS
<1>1. CASE Next
  BY <1>1, RunStepsKeeps, RequestKeeps, ServeKeeps, AddLogKeeps, HostMergeKeeps, CrashKeeps
  DEF Next
<1>2. CASE UNCHANGED vars
  <2>1. TypeOK' /\ StoreGood'
    BY <1>2 DEF vars, IInv, TypeOK, StoreGood
  <2>2. \A q \in Procs : LabelInv(q)'
    BY <1>2 DEF vars, IInv, LabelInv, Fits, Step
  <2> QED
    BY <2>1, <2>2 DEF IInv
<1> QED
  BY <1>1, <1>2

LEMMA Invariance == Spec => []IInv
BY InitInv, NextInv, PTL DEF Spec

\* Every variable keeps its type: the record a goroutine writes is always one
\* the code can read again, with CurrentStep in range.
THEOREM TypeCorrect == Spec => []TypeOK
<1>1. IInv => TypeOK
  BY DEF IInv
<1> QED
  BY <1>1, Invariance, PTL

\* Whatever requests, goroutines, lost saves and crashes there are, the stored
\* record makes sense: steps in order, waiting only for an open PR of the
\* current step, completed only with no step left.
THEOREM RecordsStayCoherent == Spec => []RecordsCoherent
<1>1. IInv => RecordsCoherent
  BY ReadsGood DEF RecordsCoherent, Good
<1> QED
  BY <1>1, Invariance, PTL

(***************************************************************************)
(* e.running: what is registered there is at work on that migration.       *)
(***************************************************************************)
\* A step that neither registers, starts nor ends a goroutine.
Calm ==
    /\ \A id \in Migrations : running'[id] \in {running[id], Nobody}
    /\ \A w \in Workers : pc[w] # "idle" => pc'[w] # "idle" /\ job'[w] = job[w]

LEMMA CalmKeeps ==
    ASSUME CancelsTheRightWork, TypeOK, Calm
    PROVE  CancelsTheRightWork'
<1> SUFFICES ASSUME NEW id \in Migrations, running'[id] # Nobody
             PROVE  pc'[running'[id]] # "idle" /\ job'[running'[id]] = id
  BY DEF CancelsTheRightWork
<1>1. running'[id] = running[id] /\ running[id] \in Workers
  BY DEF Calm, TypeOK
<1>2. pc[running[id]] # "idle" /\ job[running[id]] = id
  BY <1>1 DEF CancelsTheRightWork
<1> QED
  BY <1>1, <1>2 DEF Calm

\* A goroutine that goes on, at a place of its own.
LEMMA GoesOn ==
    ASSUME TypeOK, NEW w \in Workers, NEW l \in Labels \ {"idle"}, Goto(w, l), UNCHANGED <<job, running>>
    PROVE  Calm
BY DEF Goto, Calm, TypeOK, Procs

\* A request that goes on or is answered: no goroutine is touched.
LEMMA RequestMoves ==
    ASSUME TypeOK, NEW h \in Handlers, NEW l, NEW j,
           Goto(h, l) \/ UNCHANGED pc, job' = [job EXCEPT ![h] = j] \/ UNCHANGED job,
           \A id \in Migrations : running'[id] \in {running[id], Nobody}
    PROVE  Calm
<1>1. h \notin Workers
  BY ExecutorAssumption
<1> QED
  BY <1>1 DEF Goto, Calm, TypeOK, Procs

LEMMA RunStepsMoves ==
    ASSUME NEW w \in Workers, RunSteps(w), ~Exit(w)
    PROVE  /\ pc[w] \in Places \ {"idle"}
           /\ \E l \in Places \ {"idle"} : Goto(w, l)
           /\ UNCHANGED <<job, running>>
<1>1. CASE Fetch(w)
  <2>1. (\E l \in {"begin", "exit"} : Goto(w, l)) /\ UNCHANGED <<job, running>>
    BY <1>1 DEF Fetch, Drop
  <2>2. pc[w] \in Places \ {"idle"}
    BY <1>1 DEF Fetch, Places, Labels, Starting, Keeping
  <2> QED
    BY <2>1, <2>2 DEF Places, Labels, Starting, Keeping
<1>2. CASE Finish(w)
  <2>1. (\E l \in {"exit"} : Goto(w, l)) /\ UNCHANGED <<job, running>>
    BY <1>2 DEF Finish, Drop
  <2>2. pc[w] \in Places \ {"idle"}
    BY <1>2 DEF Finish, Places, Labels, Starting, Keeping
  <2> QED
    BY <2>1, <2>2 DEF Places, Labels, Starting, Keeping
<1>3. CASE Begin(w)
  <2>1. (\E l \in {"exec"} : Goto(w, l)) /\ UNCHANGED <<job, running>>
    BY <1>3 DEF Begin, Drop
  <2>2. pc[w] \in Places \ {"idle"}
    BY <1>3 DEF Begin, Places, Labels, Starting, Keeping
  <2> QED
    BY <2>1, <2>2 DEF Places, Labels, Starting, Keeping
<1>4. CASE StepSucceeds(w)
  <2>1. (\E l \in {"reread"} : Goto(w, l)) /\ UNCHANGED <<job, running>>
    BY <1>4 DEF StepSucceeds, Drop
  <2>2. pc[w] \in Places \ {"idle"}
    BY <1>4 DEF StepSucceeds, Places, Labels, Starting, Keeping
  <2> QED
    BY <2>1, <2>2 DEF Places, Labels, Starting, Keeping
<1>5. CASE StepFails(w)
  <2>1. (\E l \in {"reread"} : Goto(w, l)) /\ UNCHANGED <<job, running>>
    BY <1>5 DEF StepFails, Drop
  <2>2. pc[w] \in Places \ {"idle"}
    BY <1>5 DEF StepFails, Places, Labels, Starting, Keeping
  <2> QED
    BY <2>1, <2>2 DEF Places, Labels, Starting, Keeping
<1>6. CASE AlreadyMigrated(w)
  <2>1. (\E l \in {"already"} : Goto(w, l)) /\ UNCHANGED <<job, running>>
    BY <1>6 DEF AlreadyMigrated, Drop
  <2>2. pc[w] \in Places \ {"idle"}
    BY <1>6 DEF AlreadyMigrated, Places, Labels, Starting, Keeping
  <2> QED
    BY <2>1, <2>2 DEF Places, Labels, Starting, Keeping
<1>7. CASE OpenPR(w)
  <2>1. (\E l \in {"opened"} : Goto(w, l)) /\ UNCHANGED <<job, running>>
    BY <1>7 DEF OpenPR, Drop
  <2>2. pc[w] \in Places \ {"idle"}
    BY <1>7 DEF OpenPR, Places, Labels, Starting, Keeping
  <2> QED
    BY <2>1, <2>2 DEF Places, Labels, Starting, Keeping
<1>8. CASE AutoMerge(w)
  <2>1. (\E l \in {"merged", "parked"} : Goto(w, l)) /\ UNCHANGED <<job, running>>
    BY <1>8 DEF AutoMerge, Drop
  <2>2. pc[w] \in Places \ {"idle"}
    BY <1>8 DEF AutoMerge, Places, Labels, Starting, Keeping
  <2> QED
    BY <2>1, <2>2 DEF Places, Labels, Starting, Keeping
<1>9. CASE SaveMerged(w)
  <2>1. (\E l \in {"reread"} : Goto(w, l)) /\ UNCHANGED <<job, running>>
    BY <1>9 DEF SaveMerged, Drop
  <2>2. pc[w] \in Places \ {"idle"}
    BY <1>9 DEF SaveMerged, Places, Labels, Starting, Keeping
  <2> QED
    BY <2>1, <2>2 DEF Places, Labels, Starting, Keeping
<1>10. CASE SaveParked(w)
  <2>1. (\E l \in {"reread"} : Goto(w, l)) /\ UNCHANGED <<job, running>>
    BY <1>10 DEF SaveParked, Drop
  <2>2. pc[w] \in Places \ {"idle"}
    BY <1>10 DEF SaveParked, Places, Labels, Starting, Keeping
  <2> QED
    BY <2>1, <2>2 DEF Places, Labels, Starting, Keeping
<1>11. CASE Reread(w)
  <2>1. (\E l \in {"panic", "exit", "judge"} : Goto(w, l)) /\ UNCHANGED <<job, running>>
    BY <1>11 DEF Reread, Drop
  <2>2. pc[w] \in Places \ {"idle"}
    BY <1>11 DEF Reread, Places, Labels, Starting, Keeping
  <2> QED
    BY <2>1, <2>2 DEF Places, Labels, Starting, Keeping
<1>12. CASE Fail(w)
  <2>1. (\E l \in {"exit"} : Goto(w, l)) /\ UNCHANGED <<job, running>>
    BY <1>12 DEF Fail, Drop
  <2>2. pc[w] \in Places \ {"idle"}
    BY <1>12 DEF Fail, Places, Labels, Starting, Keeping
  <2> QED
    BY <2>1, <2>2 DEF Places, Labels, Starting, Keeping
<1>13. CASE Wait(w)
  <2>1. (\E l \in {"exit"} : Goto(w, l)) /\ UNCHANGED <<job, running>>
    BY <1>13 DEF Wait, Drop
  <2>2. pc[w] \in Places \ {"idle"}
    BY <1>13 DEF Wait, Places, Labels, Starting, Keeping
  <2> QED
    BY <2>1, <2>2 DEF Places, Labels, Starting, Keeping
<1>14. CASE Advance(w)
  <2>1. (\E l \in {"gate", "top"} : Goto(w, l)) /\ UNCHANGED <<job, running>>
    BY <1>14 DEF Advance, Drop
  <2>2. pc[w] \in Places \ {"idle"}
    BY <1>14 DEF Advance, Places, Labels, Starting, Keeping
  <2> QED
    BY <2>1, <2>2 DEF Places, Labels, Starting, Keeping
<1>15. CASE Gate(w)
  <2>1. (\E l \in {"exit"} : Goto(w, l)) /\ UNCHANGED <<job, running>>
    BY <1>15 DEF Gate, Drop
  <2>2. pc[w] \in Places \ {"idle"}
    BY <1>15 DEF Gate, Places, Labels, Starting, Keeping
  <2> QED
    BY <2>1, <2>2 DEF Places, Labels, Starting, Keeping
<1>16. CASE RecoverRead(w)
  <2>1. (\E l \in {"recover", "exit"} : Goto(w, l)) /\ UNCHANGED <<job, running>>
    BY <1>16 DEF RecoverRead, Drop
  <2>2. pc[w] \in Places \ {"idle"}
    BY <1>16 DEF RecoverRead, Places, Labels, Starting, Keeping
  <2> QED
    BY <2>1, <2>2 DEF Places, Labels, Starting, Keeping
<1>17. CASE RecoverSave(w)
  <2>1. (\E l \in {"exit"} : Goto(w, l)) /\ UNCHANGED <<job, running>>
    BY <1>17 DEF RecoverSave, Drop
  <2>2. pc[w] \in Places \ {"idle"}
    BY <1>17 DEF RecoverSave, Places, Labels, Starting, Keeping
  <2> QED
    BY <2>1, <2>2 DEF Places, Labels, Starting, Keeping
<1>18. CASE LogFirst(w)
  <2>1. (\E l \in {"pr", "approved", "refused", "rollback"} : Goto(w, l)) /\ UNCHANGED <<job, running>>
    BY <1>18 DEF LogFirst, FirstLog
  <2>2. pc[w] \in Places \ {"idle"}
    BY <1>18 DEF LogFirst, FirstLog, Places, Labels, Starting, Keeping
  <2> QED
    BY <2>1, <2>2 DEF Places, Labels, Starting, Keeping
<1> QED
  BY <1>1, <1>2, <1>3, <1>4, <1>5, <1>6, <1>7, <1>8, <1>9, <1>10, <1>11, <1>12, <1>13, <1>14, <1>15, <1>16, <1>17, <1>18 DEF RunSteps

LEMMA RunStepsCalm ==
    ASSUME TypeOK, NEW w \in Workers, RunSteps(w), ~Exit(w)
    PROVE  Calm
BY RunStepsMoves, GoesOn DEF Places

\* Request h goes on or is answered.
RequestGoesOn(h) ==
    /\ pc[h] \in Places
    /\ (\E l \in Places : Goto(h, l)) \/ UNCHANGED pc
    /\ (\E j : job' = [job EXCEPT ![h] = j]) \/ UNCHANGED job
    /\ \A id \in Migrations : running'[id] \in {running[id], Nobody}

LEMMA RequestsMove ==
    ASSUME TypeOK, NEW h \in Handlers, Request(h) \/ Serve(h), ~Spawn(h)
    PROVE  RequestGoesOn(h)
<1>1. ASSUME NEW id \in Migrations, NEW mode \in Modes, Start(h, id, mode) PROVE RequestGoesOn(h)
  BY <1>1 DEF Start, Take, Ask, RequestGoesOn, Places, Labels, Starting, Keeping
<1>2. ASSUME NEW id \in Migrations, Continue(h, id) PROVE RequestGoesOn(h)
  BY <1>2 DEF Continue, ContinueWith, Take, Ask, RequestGoesOn, Places, Labels, Starting, Keeping
<1>3. ASSUME NEW id \in Migrations, Retry(h, id) PROVE RequestGoesOn(h)
  BY <1>3 DEF Retry, Take, Ask, RequestGoesOn, Places, Labels, Starting, Keeping
<1>4. ASSUME NEW id \in Migrations, NEW s \in Steps, MergePR(h, id, s) PROVE RequestGoesOn(h)
  BY <1>4 DEF MergePR, Take, Ask, RequestGoesOn, Places, Labels, Starting, Keeping
<1>5. ASSUME NEW id \in Migrations, Rollback(h, id) PROVE RequestGoesOn(h)
  BY <1>5 DEF Rollback, Take, Ask, RequestGoesOn, Places, Labels, Starting, Keeping
<1>6. ASSUME NEW id \in Migrations, NEW call \in Halting, Halt(h, id, call) PROVE RequestGoesOn(h)
  <2>1. pc[h] \in Places /\ (\E l \in Places : Goto(h, l)) /\ \E j : job' = [job EXCEPT ![h] = j]
    BY <1>6 DEF Halt, Take, Ask, Halting, Places, Labels, Starting, Keeping
  <2>2. \A m \in Migrations : running'[m] \in {running[m], Nobody}
    BY <1>6 DEF Halt, TypeOK
  <2> QED
    BY <2>1, <2>2 DEF RequestGoesOn
<1>7. CASE Create(h)
  BY <1>7 DEF Create, Answer, Drop, RequestGoesOn, Places, Labels, Starting, Keeping
<1>8. CASE MergeToContinue(h)
  BY <1>8 DEF MergeToContinue, Answer, Drop, RequestGoesOn, Places, Labels, Starting, Keeping
<1>9. CASE LogFirst(h)
  BY <1>9 DEF LogFirst, Answer, Drop, FirstLog, RequestGoesOn, Places, Labels, Starting, Keeping
<1>10. CASE MergeRefused(h)
  BY <1>10 DEF MergeRefused, Answer, Drop, RequestGoesOn, Places, Labels, Starting, Keeping
<1>11. CASE Resume(h)
  BY <1>11 DEF Resume, Answer, Drop, RequestGoesOn, Places, Labels, Starting, Keeping
<1>12. CASE HaltRead(h)
  BY <1>12 DEF HaltRead, Answer, Drop, Halting, RequestGoesOn, Places, Labels, Starting, Keeping
<1>13. CASE HaltSave(h)
  BY <1>13 DEF HaltSave, Answer, Drop, RequestGoesOn, Places, Labels, Starting, Keeping
<1>14. CASE Remove(h)
  BY <1>14 DEF Remove, Answer, Drop, RequestGoesOn, Places, Labels, Starting, Keeping
<1>15. CASE MergePRAtHost(h)
  BY <1>15 DEF MergePRAtHost, Answer, Drop, RequestGoesOn, Places, Labels, Starting, Keeping
<1>16. CASE MergePRSave(h)
  BY <1>16 DEF MergePRSave, Answer, Drop, RequestGoesOn, Places, Labels, Starting, Keeping
<1>17. CASE ContinueMerged(h)
  BY <1>17 DEF ContinueMerged, Answer, Drop, Take, ContinueWith, RequestGoesOn, Places, Labels, Starting, Keeping
<1>18. CASE RollbackPR(h)
  BY <1>18 DEF RollbackPR, Answer, Drop, RequestGoesOn, Places, Labels, Starting, Keeping
<1>19. CASE RollbackEnd(h)
  BY <1>19 DEF RollbackEnd, Answer, Drop, RequestGoesOn, Places, Labels, Starting, Keeping
<1> QED
  BY <1>1, <1>2, <1>3, <1>4, <1>5, <1>6, <1>7, <1>8, <1>9, <1>10, <1>11, <1>12, <1>13, <1>14, <1>15, <1>16, <1>17, <1>18, <1>19 DEF Request, Serve

LEMMA RequestsCalm ==
    ASSUME TypeOK, NEW h \in Handlers, Request(h) \/ Serve(h), ~Spawn(h)
    PROVE  Calm
<1>1. RequestGoesOn(h)
  BY RequestsMove
<1> QED
  BY <1>1, RequestMoves DEF RequestGoesOn

\* Goroutine w ends: nothing of it stays registered.
LEMMA ExitCancels ==
    ASSUME TypeOK, CancelsTheRightWork, NEW w \in Workers, Exit(w)
    PROVE  CancelsTheRightWork'
<1> SUFFICES ASSUME NEW id \in Migrations, running'[id] # Nobody
             PROVE  pc'[running'[id]] # "idle" /\ job'[running'[id]] = id
  BY DEF CancelsTheRightWork
<1>1. /\ running' = [running EXCEPT ![job[w]] = Nobody]
      /\ pc' = [pc EXCEPT ![w] = "idle"]
      /\ job' = [job EXCEPT ![w] = Nobody]
  BY DEF Exit, Drop, Goto
<1>2. running[id] \in Workers /\ running'[id] = running[id] /\ id # job[w]
  BY <1>1 DEF TypeOK
<1>3. pc[running[id]] # "idle" /\ job[running[id]] = id
  BY <1>2 DEF CancelsTheRightWork
<1> QED
  BY <1>1, <1>2, <1>3 DEF TypeOK, Procs

\* Goroutine w is started on migration m and registered.
LEMMA Registers ==
    ASSUME TypeOK, CancelsTheRightWork, NEW w \in Workers, NEW m,
           running' = [running EXCEPT ![m] = w], pc'[w] # "idle", job'[w] = m, pc[w] = "idle",
           \A v \in Workers : v # w /\ pc[v] # "idle" => pc'[v] # "idle" /\ job'[v] = job[v]
    PROVE  CancelsTheRightWork'
<1> SUFFICES ASSUME NEW id \in Migrations, running'[id] # Nobody
             PROVE  pc'[running'[id]] # "idle" /\ job'[running'[id]] = id
  BY DEF CancelsTheRightWork
<1>1. CASE id = m
  BY <1>1 DEF TypeOK
<1>2. CASE id # m
  <2>1. running[id] \in Workers /\ running'[id] = running[id]
    BY <1>2 DEF TypeOK
  <2>2. pc[running[id]] # "idle" /\ job[running[id]] = id
    BY <2>1 DEF CancelsTheRightWork
  <2> QED
    BY <2>1, <2>2
<1> QED
  BY <1>1, <1>2

LEMMA NextCancels ==
    ASSUME TypeOK, CancelsTheRightWork, [Next]_vars
    PROVE  CancelsTheRightWork'
<1>1. ASSUME NEW w \in Workers, RunSteps(w) PROVE CancelsTheRightWork'
  BY <1>1, ExitCancels, RunStepsCalm, CalmKeeps
<1>2. ASSUME NEW h \in Handlers, Request(h) \/ Serve(h) PROVE CancelsTheRightWork'
  <2>1. CASE Spawn(h)
    <3>1. PICK w \in Workers :
            /\ pc[w] = "idle"
            /\ pc' = [pc EXCEPT ![w] = "top", ![h] = "idle"]
            /\ job' = [job EXCEPT ![w] = job[h], ![h] = Nobody]
            /\ running' = [running EXCEPT ![job[h]] = w]
      BY <2>1 DEF Spawn
    <3>2. h \notin Workers /\ w # h
      BY ExecutorAssumption
    <3> QED
      BY <3>1, <3>2, Registers DEF TypeOK, Procs
  <2>2. CASE ~Spawn(h)
    BY <1>2, <2>2, RequestsCalm, CalmKeeps
  <2> QED
    BY <2>1, <2>2
<1>3. ASSUME NEW p \in Procs, AddLog(p) PROVE CancelsTheRightWork'
  BY <1>3, CalmKeeps DEF AddLog, Calm
<1>4. ASSUME NEW p \in PRs, HostMerge(p) PROVE CancelsTheRightWork'
  BY <1>4, CalmKeeps DEF HostMerge, Calm
<1>5. CASE Crash
  BY <1>5 DEF Crash, CancelsTheRightWork
<1>6. CASE UNCHANGED vars
  BY <1>6, CalmKeeps DEF vars, Calm
<1> QED
  BY <1>1, <1>2, <1>3, <1>4, <1>5, <1>6 DEF Next

\* Pause, Cancel and Delete stop the goroutine of the migration they name and
\* no other: e.running holds no cancel function of another or of an ended one.
THEOREM CancelFindsItsWork == Spec => []CancelsTheRightWork
<1>1. Init => CancelsTheRightWork
  BY DEF Init, CancelsTheRightWork
<1>2. TypeOK /\ CancelsTheRightWork /\ [Next]_vars => CancelsTheRightWork'
  BY NextCancels
<1> QED
  BY <1>1, <1>2, TypeCorrect, PTL DEF Spec

(***************************************************************************)
(* The numbers of pull requests.  They travel with the copies, so those    *)
(* must be real too; a pull request that was opened stays opened.          *)
(***************************************************************************)
Known == {0} \cup {p \in PRs : prs[p] # "none"}

NumbersIn(r, K) == \A s \in Steps : r.steps[s].pr \in K

StoreNumbers == \A id \in Migrations : Exists(id) => NumbersIn(store[id], Known)
CopyNumbers  == \A p \in Procs : pc[p] \in Holding => NumbersIn(copy[p], Known)
NumbersInv   == StoreNumbers /\ CopyNumbers

SameNumbers(q, r) == \A s \in Steps : q.steps[s].pr = r.steps[s].pr

LEMMA ReplacedNumbers ==
    ASSUME NEW r \in Record, NEW s \in Steps, NEW x \in StepState, x.pr = r.steps[s].pr
    PROVE  SameNumbers(Replaced(r, s, x), r)
BY ReplacedSteps DEF SameNumbers

LEMMA StatusNumbers ==
    ASSUME NEW r \in Record, NEW st
    PROVE  SameNumbers(WithStatus(r, st), r)
BY DEF SameNumbers, WithStatus, Record

LEMMA StepNumbers ==
    ASSUME NEW r \in Record, r.cur <= NSteps, NEW v \in StepStates
    PROVE  SameNumbers(WithStep(r, v), r)
<1> DEFINE x == [r.steps[r.cur] EXCEPT !.st = v]
<1>1. r.cur \in Steps /\ r.steps[r.cur] \in StepState
  BY CurrentStep DEF Step
<1>2. WithStep(r, v) = Replaced(r, r.cur, x)
  BY <1>1 DEF WithStep, Replaced
<1>3. x \in StepState /\ x.pr = r.steps[r.cur].pr
  BY <1>1, StepUpdates
<1> HIDE DEF x
<1> QED
  BY <1>1, <1>2, <1>3, ReplacedNumbers

LEMMA HostNumbers ==
    ASSUME NEW r \in Record, NEW s \in Steps
    PROVE  SameNumbers(StepMerged(r, s), r)
<1> DEFINE x == [r.steps[s] EXCEPT !.st = "completed", !.prst = "merged"]
<1>1. r.steps[s] \in StepState
  BY RecordFields
<1>2. x \in StepState /\ x.pr = r.steps[s].pr
  BY <1>1, HostUpdates
<1>3. StepMerged(r, s) = Replaced(r, s, x)
  BY StepMergedReplaces
<1> HIDE DEF x
<1> QED
  BY <1>2, <1>3, ReplacedNumbers

LEMMA ParkedNumbers ==
    ASSUME NEW r \in Record, r.cur <= NSteps
    PROVE  SameNumbers(Parked(r), r)
<1> DEFINE x == [r.steps[r.cur] EXCEPT !.st = "waiting", !.prst = "open"]
<1>1. r.cur \in Steps /\ r.steps[r.cur] \in StepState
  BY CurrentStep DEF Step
<1>2. Parked(r) = Replaced(r, r.cur, x)
  BY <1>1 DEF Parked, Replaced
<1>3. x \in StepState /\ x.pr = r.steps[r.cur].pr
  BY <1>1, HostUpdates
<1> HIDE DEF x
<1> QED
  BY <1>1, <1>2, <1>3, ReplacedNumbers

LEMMA FailingNumbers ==
    ASSUME NEW r \in Record, r.cur <= NSteps
    PROVE  SameNumbers(Failing(r), r)
<1>1. SameNumbers(WithStep(r, "failed"), r)
  BY StepNumbers DEF StepStates
<1>2. \A s \in Steps : Failing(r).steps[s].pr = WithStep(r, "failed").steps[s].pr
  BY DEF Failing, WithStatus, WithStep, Record
<1> QED
  BY <1>1, <1>2 DEF SameNumbers

LEMMA AdvancedNumbers ==
    ASSUME NEW r \in Record, r.cur <= NSteps
    PROVE  SameNumbers(Advanced(r), r)
<1> DEFINE q == WithStep(r, "completed")
<1>1. SameNumbers(q, r)
  BY StepNumbers DEF StepStates
<1>2. Advanced(r) = [q EXCEPT !.cur = r.cur + 1]
  BY DEF Advanced
<1> DEFINE n == r.cur + 1
<1>3. \A s \in Steps : [q EXCEPT !.cur = n].steps[s].pr = q.steps[s].pr
  BY DEF WithStep, Record
<1> QED
  BY <1>1, <1>2, <1>3 DEF SameNumbers

LEMMA AlreadyNumbers ==
    ASSUME NEW r \in Record
    PROVE  SameNumbers(AlreadyDone(r), r)
<1> SUFFICES ASSUME NEW s \in Steps PROVE AlreadyDone(r).steps[s].pr = r.steps[s].pr
  BY DEF SameNumbers
<1> DEFINE v == IF s = 1 THEN "completed" ELSE "skipped"
<1>1. r.steps[s] \in StepState /\ v \in StepStates
  BY RecordFields DEF StepStates
<1>2. AlreadyDone(r).steps[s] = [r.steps[s] EXCEPT !.st = v]
  BY DEF AlreadyDone, Record
<1> HIDE DEF v
<1> QED
  BY <1>1, <1>2, StepUpdates

LEMMA ResumedNumbers ==
    ASSUME NEW r \in Record, r.status \in {"waiting", "failed"} => r.cur <= NSteps
    PROVE  SameNumbers(Resumed(r), r)
<1>1. CASE r.status = "waiting"
  <2>1. r.cur \in Steps
    BY <1>1, CurrentStep
  <2>2. SameNumbers(StepMerged(r, r.cur), r)
    BY <2>1, HostNumbers
  <2>3. \A s \in Steps : Resumed(r).steps[s].pr = StepMerged(r, r.cur).steps[s].pr
    BY <1>1 DEF Resumed, PastPR, WithStatus, StepMerged, Record
  <2> QED
    BY <2>2, <2>3 DEF SameNumbers
<1>2. CASE r.status = "failed"
  <2>1. SameNumbers(WithStep(r, "pending"), r)
    BY <1>2, StepNumbers DEF StepStates
  <2>2. \A s \in Steps : Resumed(r).steps[s].pr = WithStep(r, "pending").steps[s].pr
    BY <1>2 DEF Resumed, WithStatus, WithStep, Record
  <2> QED
    BY <2>1, <2>2 DEF SameNumbers
<1>3. CASE r.status \notin {"waiting", "failed"}
  BY <1>3, StatusNumbers DEF Resumed
<1> QED
  BY <1>1, <1>2, <1>3

LEMMA MergedByUserNumbers ==
    ASSUME NEW r \in Record, NEW s \in Steps
    PROVE  SameNumbers(MergedByUser(r, s), r)
<1>1. CASE r.steps[s].st = "waiting"
  <2>1. SameNumbers(StepMerged(r, s), r)
    BY HostNumbers
  <2>2. \A t \in Steps : MergedByUser(r, s).steps[t].pr = StepMerged(r, s).steps[t].pr
    BY <1>1 DEF MergedByUser, PastPR, WithStatus, StepMerged, Record
  <2> QED
    BY <2>1, <2>2 DEF SameNumbers
<1>2. CASE r.steps[s].st # "waiting"
  <2> DEFINE x == [r.steps[s] EXCEPT !.prst = "merged"]
  <2>1. r.steps[s] \in StepState
    BY RecordFields
  <2>2. x \in StepState /\ x.pr = r.steps[s].pr
    BY <2>1, HostUpdates
  <2>3. MergedByUser(r, s) = Replaced(r, s, x)
    BY <1>2 DEF MergedByUser, Replaced
  <2> HIDE DEF x
  <2> QED
    BY <2>2, <2>3, ReplacedNumbers
<1> QED
  BY <1>1, <1>2

\* No pull request is forgotten.
LEMMA NumbersLast ==
    ASSUME NEW r, NEW K, NEW L, NumbersIn(r, K), K \subseteq L
    PROVE  NumbersIn(r, L)
BY DEF NumbersIn

LEMMA KnownGrows ==
    ASSUME IInv, NEW p \in PRs, NEW v \in {"open", "merged"}, prs' = [prs EXCEPT ![p] = v]
    PROVE  Known \subseteq Known' /\ p \in Known'
BY DEF Known, IInv, TypeOK

LEMMA NumbersStored ==
    ASSUME IInv, NumbersInv, NEW id \in Migrations, NEW r,
           r \in Record => NumbersIn(r, Known'), r \in Record \cup {Unborn, Deleted},
           Known \subseteq Known', TrySave(id, r) \/ Save(id, r) \/ SaveFails
    PROVE  StoreNumbers'
<1> SUFFICES ASSUME NEW m \in Migrations, Exists(m)' PROVE NumbersIn(store'[m], Known')
  BY DEF StoreNumbers
<1>1. CASE store'[m] = store[m]
  <2>1. NumbersIn(store[m], Known)
    BY <1>1 DEF NumbersInv, StoreNumbers, Exists
  <2> QED
    BY <1>1, <2>1, NumbersLast
<1>2. CASE store'[m] # store[m]
  <2>1. store'[m] = r
    BY <1>2 DEF TrySave, Save, SaveFails, IInv, TypeOK
  <2> QED
    BY <2>1 DEF Exists
<1> QED
  BY <1>1, <1>2

LEMMA NumbersKept ==
    ASSUME IInv, NumbersInv, UNCHANGED store, Known \subseteq Known'
    PROVE  StoreNumbers'
<1> SUFFICES ASSUME NEW m \in Migrations, Exists(m)' PROVE NumbersIn(store'[m], Known')
  BY DEF StoreNumbers
<1>1. store'[m] = store[m] /\ Exists(m)
  BY DEF Exists
<1> QED
  BY <1>1, NumbersLast DEF NumbersInv, StoreNumbers

\* One actor moves to l, holding c.
LEMMA NumbersHeld ==
    ASSUME IInv, NumbersInv, NEW p \in Procs, NEW l, NEW c,
           pc' = [pc EXCEPT ![p] = l], copy' = [copy EXCEPT ![p] = c],
           l \in Holding => NumbersIn(c, Known'), Known \subseteq Known'
    PROVE  CopyNumbers'
<1> SUFFICES ASSUME NEW q \in Procs, pc'[q] \in Holding PROVE NumbersIn(copy'[q], Known')
  BY DEF CopyNumbers
<1>1. CASE q = p
  BY <1>1 DEF IInv, TypeOK
<1>2. CASE q # p
  <2>1. pc'[q] = pc[q] /\ copy'[q] = copy[q]
    BY <1>2 DEF IInv, TypeOK
  <2> QED
    BY <2>1, NumbersLast DEF NumbersInv, CopyNumbers
<1> QED
  BY <1>1, <1>2

LEMMA NumbersDropped ==
    ASSUME IInv, NumbersInv, NEW p \in Procs, NEW l, l \notin Holding,
           Drop(p, l) \/ (Goto(p, l) /\ UNCHANGED copy), Known \subseteq Known'
    PROVE  CopyNumbers'
<1>1. copy = [copy EXCEPT ![p] = copy[p]]
  BY DEF IInv, TypeOK
<1> QED
  BY <1>1, NumbersHeld DEF Drop, Goto, Hold

LEMMA NumbersCarried ==
    ASSUME IInv, NumbersInv, NEW p \in Procs, NEW l, pc[p] \in Holding,
           Goto(p, l) \/ UNCHANGED pc, UNCHANGED copy, Known \subseteq Known'
    PROVE  CopyNumbers'
<1>1. copy = [copy EXCEPT ![p] = copy[p]] /\ pc = [pc EXCEPT ![p] = pc[p]]
  BY DEF IInv, TypeOK
<1>2. NumbersIn(copy'[p], Known')
  <2>1. NumbersIn(copy[p], Known) /\ copy'[p] = copy[p]
    BY DEF NumbersInv, CopyNumbers
  <2> QED
    BY <2>1, NumbersLast
<1> QED
  BY <1>1, <1>2, NumbersHeld DEF Goto

\* What is held where a record is written.
LEMMA WriterHolds ==
    ASSUME IInv, NumbersInv, NEW p \in Procs, pc[p] \in Holding
    PROVE  /\ job[p] \in Migrations /\ copy[p] \in Good /\ copy[p] \in Record
           /\ NumbersIn(copy[p], Known)
           /\ pc[p] \in KnownRunning => copy[p].status = "running"
           /\ pc[p] \in KnownWaiting => copy[p].status = "waiting"
           /\ pc[p] \in InStep => copy[p].cur <= NSteps
           /\ pc[p] \in {"approved", "resume"} /\ copy[p].status = "failed" => copy[p].cur <= NSteps
           /\ copy[p].status = "waiting" => copy[p].cur <= NSteps
<1>1. pc[p] # "idle"
  BY DEF Holding
<1>2. copy[p] \in Good /\ job[p] \in Migrations
  BY <1>1, Standing DEF Fits
<1> QED
  BY <1>1, <1>2, Standing DEF Fits, Good, Coherent, WaitsForItsPR, NumbersInv, CopyNumbers

\* The writer's own record, or one with the same numbers, is stored.
LEMMA NumbersWritten ==
    ASSUME IInv, NumbersInv, NEW p \in Procs, pc[p] \in Holding,
           NEW r \in Record, SameNumbers(r, copy[p]), Known \subseteq Known',
           TrySave(job[p], r) \/ Save(job[p], r) \/ SaveFails
    PROVE  StoreNumbers'
<1>1. NumbersIn(r, Known)
  BY WriterHolds DEF NumbersIn, SameNumbers
<1> QED
  BY <1>1, WriterHolds, NumbersLast, NumbersStored

LEMMA SameAsItself == ASSUME NEW r PROVE SameNumbers(r, r)
BY DEF SameNumbers

LEMMA KnownStays == ASSUME UNCHANGED prs PROVE Known \subseteq Known'
BY DEF Known

LEMMA GoodRecords == Good \subseteq Record
BY DEF Good

LEMMA NumbersRead ==
    ASSUME IInv, NumbersInv, NEW id \in Migrations, Exists(id)
    PROVE  store[id] \in Record /\ NumbersIn(store[id], Known)
BY ReadsGood DEF NumbersInv, StoreNumbers

\* A record that is taken from the store.
LEMMA NumbersTaken ==
    ASSUME IInv, NumbersInv, NEW p \in Procs, NEW l, NEW id \in Migrations, Exists(id),
           Goto(p, l), Hold(p, store[id]), Known \subseteq Known'
    PROVE  CopyNumbers'
<1>1. NumbersIn(store[id], Known')
  BY NumbersRead, NumbersLast
<1> QED
  BY <1>1, NumbersHeld DEF Goto, Hold

LEMMA RunStepsNumbers ==
    ASSUME IInv, NumbersInv, NEW w \in Workers, RunSteps(w)
    PROVE  NumbersInv'
<1>0. w \in Procs
  BY DEF Procs
<1>1. CASE Fetch(w)
  <2>1. Known \subseteq Known' /\ StoreNumbers' /\ job[w] \in Migrations
    BY <1>0, <1>1, KnownStays, NumbersKept, Standing DEF Fetch
  <2>2. CASE IsRunning(job[w]) /\ Hold(w, store[job[w]]) /\ Goto(w, "begin")
    BY <1>0, <2>1, <2>2, NumbersTaken DEF IsRunning, NumbersInv
  <2>3. CASE Drop(w, "exit")
    BY <1>0, <2>1, <2>3, NumbersDropped DEF Holding, NumbersInv
  <2> QED
    BY <1>1, <2>2, <2>3 DEF Fetch
<1>2. CASE Finish(w)
  <2>1. pc[w] \in Holding /\ Known \subseteq Known' /\ Drop(w, "exit") /\ TrySave(job[w], WithStatus(copy[w], "completed"))
    BY <1>2, KnownStays DEF Finish, Holding
  <2>2. copy[w] \in Record /\ WithStatus(copy[w], "completed") \in Record
    BY <1>0, <1>2, <2>1, WriterHolds, FinishedGood, GoodRecords DEF Finish
  <2> QED
    BY <1>0, <2>1, <2>2, StatusNumbers, NumbersWritten, NumbersDropped DEF Holding, NumbersInv
<1>3. CASE Begin(w)
  <2> DEFINE r == WithStep(copy[w], "running")
  <2>1. /\ pc[w] = "begin" /\ Known \subseteq Known' /\ copy[w].cur <= NSteps
        /\ Goto(w, "exec") /\ Hold(w, r) /\ TrySave(job[w], r)
    BY <1>3, KnownStays DEF Begin
  <2>2. /\ copy[w] \in Record /\ NumbersIn(copy[w], Known)
        /\ r \in Record /\ SameNumbers(r, copy[w])
    BY <1>0, <2>1, WriterHolds, WithStepGood, StepNumbers, GoodRecords DEF Holding, KnownRunning, StepStates
  <2> HIDE DEF r
  <2>3. StoreNumbers'
    BY <1>0, <2>1, <2>2, NumbersWritten DEF Holding
  <2>4. NumbersIn(r, Known')
    BY <2>1, <2>2 DEF NumbersIn, SameNumbers
  <2> QED
    BY <1>0, <2>1, <2>3, <2>4, NumbersHeld DEF Goto, Hold, NumbersInv
<1>4. CASE StepSucceeds(w)
  <2>1. pc[w] \in Holding /\ Known \subseteq Known' /\ Drop(w, "reread") /\ TrySave(job[w], copy[w])
    BY <1>4, KnownStays DEF StepSucceeds, Holding
  <2> QED
    BY <1>0, <2>1, WriterHolds, SameAsItself, NumbersWritten, NumbersDropped DEF Holding, NumbersInv
<1>5. CASE StepFails(w)
  <2>1. Known \subseteq Known' /\ Drop(w, "reread") /\ UNCHANGED store
    BY <1>5, KnownStays DEF StepFails
  <2> QED
    BY <1>0, <2>1, NumbersKept, NumbersDropped DEF Holding, NumbersInv
<1>6. CASE AlreadyMigrated(w)
  <2>1. pc[w] \in Holding /\ Known \subseteq Known' /\ Drop(w, "already") /\ TrySave(job[w], AlreadyDone(copy[w]))
    BY <1>6, KnownStays DEF AlreadyMigrated, Holding
  <2>2. copy[w] \in Record /\ AlreadyDone(copy[w]) \in Record
    BY <1>0, <1>6, <2>1, WriterHolds, AlreadyDoneGood, GoodRecords DEF AlreadyMigrated
  <2> QED
    BY <1>0, <2>1, <2>2, AlreadyNumbers, NumbersWritten, NumbersDropped DEF Holding, NumbersInv
<1>7. CASE OpenPR(w)
  <2>1. pc[w] = "exec" /\ Goto(w, "opened") /\ UNCHANGED store
    BY <1>7 DEF OpenPR
  <2>2. PICK p \in PRs : prs' = [prs EXCEPT ![p] = "open"] /\ Hold(w, Opened(copy[w], p))
    BY <1>7 DEF OpenPR
  <2>3. Known \subseteq Known' /\ p \in Known'
    BY <2>2, KnownGrows
  <2>4. /\ copy[w] \in Record /\ copy[w].cur <= NSteps
        /\ NumbersIn(copy[w], Known')
    BY <1>0, <2>1, <2>3, WriterHolds, NumbersLast DEF Holding, InStep
  <2>5. NumbersIn(Opened(copy[w], p), Known')
    <3> DEFINE x == [copy[w].steps[copy[w].cur] EXCEPT !.pr = p]
    <3>1. copy[w].cur \in Steps /\ copy[w].steps[copy[w].cur] \in StepState
      BY <2>4, CurrentStep DEF Step
    <3>2. Opened(copy[w], p) = Replaced(copy[w], copy[w].cur, x)
      BY <2>4, <3>1 DEF Opened, Replaced
    <3>3. x \in StepState /\ x.pr = p
      BY <3>1, NumberUpdates
    <3> HIDE DEF x
    <3> QED
      BY <2>3, <2>4, <3>1, <3>2, <3>3, ReplacedSteps DEF NumbersIn
  <2> QED
    BY <1>0, <2>1, <2>2, <2>3, <2>5, NumbersKept, NumbersHeld DEF Goto, Hold, NumbersInv
<1>8. CASE LogFirst(w)
  <2>1. pc[w] \in Holding /\ Known \subseteq Known' /\ (\E l : Goto(w, l)) /\ UNCHANGED copy /\ TrySave(job[w], copy[w])
    BY <1>8, KnownStays DEF LogFirst, FirstLog, Holding
  <2> QED
    BY <1>0, <2>1, WriterHolds, SameAsItself, NumbersWritten, NumbersCarried DEF NumbersInv
<1>9. CASE AutoMerge(w)
  <2>1. pc[w] = "pr" /\ (\E l : Goto(w, l)) /\ UNCHANGED <<copy, store>>
    BY <1>9 DEF AutoMerge
  <2>2. Step(copy[w]).pr \in PRs
    <3>1. copy[w] \in Record /\ copy[w].cur <= NSteps
      BY <1>0, <2>1, WriterHolds DEF Holding, InStep
    <3>2. Step(copy[w]).pr \in 0..MaxPRs
      BY <3>1, CurrentStep, StepFields
    <3>3. Step(copy[w]).pr > 0
      BY <1>0, <2>1, Standing DEF Fits, WithPR
    <3> QED
      BY <3>2, <3>3, ExecutorAssumption DEF PRs
  <2>3. Known \subseteq Known'
    BY <1>9, <2>2, KnownStays, KnownGrows DEF AutoMerge
  <2> QED
    BY <1>0, <2>1, <2>3, NumbersKept, NumbersCarried DEF NumbersInv, Holding
<1>10. CASE SaveMerged(w)
  <2>1. pc[w] = "merged" /\ Known \subseteq Known' /\ Drop(w, "reread") /\ TrySave(job[w], Merged(copy[w]))
    BY <1>10, KnownStays DEF SaveMerged
  <2>2. copy[w] \in Record /\ copy[w].cur \in Steps /\ Merged(copy[w]) \in Record
    BY <1>0, <2>1, WriterHolds, MergedGood, CurrentStep, GoodRecords DEF Holding, InStep, KnownRunning
  <2>3. SameNumbers(Merged(copy[w]), copy[w])
    BY <2>2, HostNumbers DEF Merged
  <2> QED
    BY <1>0, <2>1, <2>2, <2>3, NumbersWritten, NumbersDropped DEF Holding, NumbersInv
<1>11. CASE SaveParked(w)
  <2>1. pc[w] \in {"pr", "parked"} /\ Known \subseteq Known' /\ Drop(w, "reread") /\ TrySave(job[w], Parked(copy[w]))
    BY <1>11, KnownStays DEF SaveParked
  <2>2. copy[w] \in Record /\ copy[w].cur <= NSteps /\ Parked(copy[w]) \in Record
    BY <1>0, <2>1, WriterHolds, ParkedGood, Standing, GoodRecords DEF Holding, InStep, KnownRunning, Fits, WithPR
  <2> QED
    BY <1>0, <2>1, <2>2, ParkedNumbers, NumbersWritten, NumbersDropped DEF Holding, NumbersInv
<1>12. CASE Reread(w)
  <2>1. Known \subseteq Known' /\ StoreNumbers' /\ job[w] \in Migrations
    BY <1>0, <1>12, KnownStays, NumbersKept, Standing DEF Reread
  <2>2. CASE Exists(job[w]) /\ Hold(w, store[job[w]]) /\ Goto(w, "judge")
    BY <1>0, <2>1, <2>2, NumbersTaken DEF NumbersInv
  <2>3. CASE Drop(w, "exit") \/ Drop(w, "panic")
    BY <1>0, <2>1, <2>3, NumbersDropped DEF Holding, NumbersInv
  <2> QED
    BY <1>12, <2>2, <2>3 DEF Reread
<1>13. CASE Fail(w)
  <2>1. pc[w] = "judge" /\ Known \subseteq Known' /\ Drop(w, "exit") /\ TrySave(job[w], Failing(copy[w]))
    BY <1>13, KnownStays DEF Fail
  <2>2. copy[w] \in Record /\ copy[w].cur <= NSteps /\ Failing(copy[w]) \in Record
    BY <1>0, <2>1, WriterHolds, FailingGood, GoodRecords DEF Holding, InStep
  <2> QED
    BY <1>0, <2>1, <2>2, FailingNumbers, NumbersWritten, NumbersDropped DEF Holding, NumbersInv
<1>14. CASE Wait(w)
  <2>1. /\ pc[w] = "judge" /\ Known \subseteq Known' /\ Drop(w, "exit") /\ Step(copy[w]).st = "waiting"
        /\ TrySave(job[w], WithStatus(copy[w], "waiting"))
    BY <1>14, KnownStays DEF Wait
  <2>2. copy[w] \in Record /\ WithStatus(copy[w], "waiting") \in Record
    BY <1>0, <2>1, WriterHolds, WaitingGood, GoodRecords DEF Holding, InStep
  <2> QED
    BY <1>0, <2>1, <2>2, StatusNumbers, NumbersWritten, NumbersDropped DEF Holding, NumbersInv
<1>15. CASE Advance(w)
  <2> DEFINE r == Advanced(copy[w])
  <2>1. pc[w] = "judge" /\ Known \subseteq Known' /\ TrySave(job[w], r) /\ Step(copy[w]).st # "waiting"
    BY <1>15, KnownStays DEF Advance
  <2>2. /\ copy[w] \in Record /\ NumbersIn(copy[w], Known)
        /\ copy[w] \in Good /\ copy[w].cur <= NSteps
    BY <1>0, <2>1, WriterHolds DEF Holding, InStep
  <2>3. copy[w].status # "waiting"
    BY <2>1, <2>2 DEF Good, Coherent, WaitsForItsPR
  <2>4. r \in Record /\ SameNumbers(r, copy[w])
    BY <2>2, <2>3, AdvancedGood, AdvancedNumbers, GoodRecords
  <2>5. (Hold(w, r) /\ Goto(w, "gate")) \/ Drop(w, "top")
    BY <1>15 DEF Advance
  <2> HIDE DEF r
  <2>6. StoreNumbers'
    BY <1>0, <2>1, <2>4, NumbersWritten DEF Holding
  <2>7. NumbersIn(r, Known')
    BY <2>1, <2>2, <2>4 DEF NumbersIn, SameNumbers
  <2>8. CASE Hold(w, r) /\ Goto(w, "gate")
    BY <1>0, <2>1, <2>6, <2>7, <2>8, NumbersHeld DEF Goto, Hold, NumbersInv
  <2>9. CASE Drop(w, "top")
    BY <1>0, <2>1, <2>6, <2>9, NumbersDropped DEF Holding, NumbersInv
  <2> QED
    BY <2>5, <2>8, <2>9
<1>16. CASE Gate(w)
  <2>1. pc[w] \in Holding /\ Known \subseteq Known' /\ Drop(w, "exit") /\ TrySave(job[w], WithStatus(copy[w], "gated"))
    BY <1>16, KnownStays DEF Gate, Holding
  <2>2. copy[w] \in Record /\ WithStatus(copy[w], "gated") \in Record
    BY <1>0, <2>1, WriterHolds, WithStatusGood, GoodRecords DEF Status
  <2> QED
    BY <1>0, <2>1, <2>2, StatusNumbers, NumbersWritten, NumbersDropped DEF Holding, NumbersInv
<1>17. CASE RecoverRead(w)
  <2>1. Known \subseteq Known' /\ StoreNumbers' /\ job[w] \in Migrations
    BY <1>0, <1>17, KnownStays, NumbersKept, Standing DEF RecoverRead
  <2>2. CASE Exists(job[w]) /\ Hold(w, store[job[w]]) /\ Goto(w, "recover")
    BY <1>0, <2>1, <2>2, NumbersTaken DEF NumbersInv
  <2>3. CASE Drop(w, "exit")
    BY <1>0, <2>1, <2>3, NumbersDropped DEF Holding, NumbersInv
  <2> QED
    BY <1>17, <2>2, <2>3 DEF RecoverRead
<1>18. CASE RecoverSave(w)
  <2>1. pc[w] \in Holding /\ Known \subseteq Known' /\ Drop(w, "exit") /\ TrySave(job[w], WithStatus(copy[w], "failed"))
    BY <1>18, KnownStays DEF RecoverSave, Holding
  <2>2. copy[w] \in Record /\ WithStatus(copy[w], "failed") \in Record
    BY <1>0, <2>1, WriterHolds, WithStatusGood, GoodRecords DEF Status
  <2> QED
    BY <1>0, <2>1, <2>2, StatusNumbers, NumbersWritten, NumbersDropped DEF Holding, NumbersInv
<1>19. CASE Exit(w)
  <2>1. Known \subseteq Known' /\ Drop(w, "idle") /\ UNCHANGED store
    BY <1>19, KnownStays DEF Exit
  <2> QED
    BY <1>0, <2>1, NumbersKept, NumbersDropped DEF Holding, NumbersInv
<1> QED
  BY <1>1, <1>2, <1>3, <1>4, <1>5, <1>6, <1>7, <1>8, <1>9, <1>10, <1>11, <1>12, <1>13, <1>14,
     <1>15, <1>16, <1>17, <1>18, <1>19 DEF RunSteps

LEMMA NumbersAnswered ==
    ASSUME IInv, NumbersInv, NEW h \in Procs, Answer(h), Known \subseteq Known'
    PROVE  CopyNumbers'
BY NumbersDropped DEF Answer, Holding

\* A request takes up a migration and writes nothing yet.
LEMMA NumbersTakenUp ==
    ASSUME IInv, NumbersInv, NEW h \in Procs, NEW id, NEW c, NEW l,
           Take(h, id, c, l), l \in Holding => NumbersIn(c, Known),
           UNCHANGED <<store, prs>>
    PROVE  NumbersInv'
<1>1. Known \subseteq Known'
  BY KnownStays
<1>2. l \in Holding => NumbersIn(c, Known')
  BY <1>1, NumbersLast
<1> QED
  BY <1>1, <1>2, NumbersKept, NumbersHeld DEF Take, Goto, Hold, NumbersInv

LEMMA ContinueNumbers ==
    ASSUME IInv, NumbersInv, NEW h \in Procs, NEW id \in Migrations, Exists(id),
           ContinueWith(h, id), UNCHANGED <<store, prs>>
    PROVE  NumbersInv'
BY NumbersRead, NumbersTakenUp DEF ContinueWith

LEMMA RequestNumbers ==
    ASSUME IInv, NumbersInv, NEW h \in Handlers, Request(h)
    PROVE  NumbersInv'
<1>0. h \in Procs
  BY DEF Procs
<1>1. PICK id \in Migrations :
         \/ \E mode \in Modes : Start(h, id, mode)
         \/ Continue(h, id)
         \/ Retry(h, id)
         \/ \E call \in Halting : Halt(h, id, call)
         \/ \E s \in Steps : MergePR(h, id, s)
         \/ Rollback(h, id)
  BY DEF Request
<1>2. ASSUME NEW mode \in Modes, Start(h, id, mode)
      PROVE  NumbersInv'
  <2>1. NumbersIn(NewMigration(mode), Known)
    BY DEF NumbersIn, NewMigration, Known
  <2> QED
    BY <1>0, <1>2, <2>1, NumbersTakenUp DEF Start
<1>3. CASE Continue(h, id)
  BY <1>0, <1>3, ContinueNumbers DEF Continue
<1>4. CASE Retry(h, id)
  BY <1>0, <1>4, NumbersRead, NumbersTakenUp DEF Retry
<1>5. ASSUME NEW call \in Halting, Halt(h, id, call)
      PROVE  NumbersInv'
  BY <1>0, <1>5, NumbersTakenUp DEF Halt, Halting, Holding
<1>6. ASSUME NEW s \in Steps, MergePR(h, id, s)
      PROVE  NumbersInv'
  BY <1>0, <1>6, NumbersRead, NumbersTakenUp DEF MergePR
<1>7. CASE Rollback(h, id)
  BY <1>0, <1>7, NumbersRead, NumbersTakenUp DEF Rollback
<1> QED
  BY <1>1, <1>2, <1>3, <1>4, <1>5, <1>6, <1>7

LEMMA ServeNumbers ==
    ASSUME IInv, NumbersInv, NEW h \in Handlers, Serve(h)
    PROVE  NumbersInv'
<1>0. h \in Procs /\ pc[h] \in Labels /\ (pc[h] # "idle" => job[h] \in Migrations)
  BY Standing DEF Procs
<1>1. CASE Create(h)
  <2>1. /\ pc[h] \in Holding /\ Known \subseteq Known'
        /\ Save(job[h], copy[h]) \/ SaveFails
        /\ (Goto(h, "spawn") /\ UNCHANGED copy) \/ Answer(h)
    BY <1>1, KnownStays DEF Create, Holding
  <2>2. StoreNumbers'
    BY <1>0, <2>1, WriterHolds, SameAsItself, NumbersWritten
  <2> QED
    BY <1>0, <2>1, <2>2, NumbersDropped, NumbersAnswered DEF NumbersInv, Holding
<1>2. CASE Spawn(h)
  <2>1. PICK w \in Workers : pc' = [pc EXCEPT ![w] = "top", ![h] = "idle"]
    BY <1>2 DEF Spawn
  <2>2. Hold(h, Nobody) /\ Known \subseteq Known' /\ StoreNumbers'
    BY <1>2, KnownStays, NumbersKept DEF Spawn
  <2>3. ASSUME NEW q \in Procs, pc'[q] \in Holding
        PROVE  NumbersIn(copy'[q], Known')
    <3>1. q # h /\ pc'[q] = pc[q] /\ copy'[q] = copy[q]
      BY <1>0, <2>1, <2>2, <2>3 DEF Hold, Holding, IInv, TypeOK
    <3> QED
      BY <2>2, <2>3, <3>1, NumbersLast DEF NumbersInv, CopyNumbers
  <2> QED
    BY <2>2, <2>3 DEF NumbersInv, CopyNumbers
<1>3. CASE MergeToContinue(h)
  <2>1. pc[h] = "merge" /\ (\E l : Goto(h, l)) /\ UNCHANGED <<copy, store>>
    BY <1>3 DEF MergeToContinue
  <2>2. Known \subseteq Known'
    BY <1>3 DEF MergeToContinue, Known, IInv, TypeOK
  <2> QED
    BY <1>0, <2>1, <2>2, NumbersKept, NumbersCarried DEF NumbersInv, Holding
<1>4. CASE LogFirst(h)
  <2>1. pc[h] \in Holding /\ Known \subseteq Known' /\ (\E l : Goto(h, l)) /\ UNCHANGED copy /\ TrySave(job[h], copy[h])
    BY <1>4, KnownStays DEF LogFirst, FirstLog, Holding
  <2> QED
    BY <1>0, <2>1, WriterHolds, SameAsItself, NumbersWritten, NumbersCarried DEF NumbersInv
<1>5. CASE MergeRefused(h)
  <2>1. pc[h] = "refused" /\ Known \subseteq Known' /\ Answer(h) /\ TrySave(job[h], Failing(copy[h]))
    BY <1>5, KnownStays DEF MergeRefused
  <2>2. copy[h] \in Record /\ copy[h].cur <= NSteps /\ Failing(copy[h]) \in Record
    BY <1>0, <2>1, WriterHolds, FailingGood, GoodRecords DEF Holding, KnownWaiting
  <2> QED
    BY <1>0, <2>1, <2>2, FailingNumbers, NumbersWritten, NumbersAnswered DEF Holding, NumbersInv
<1>6. CASE Resume(h)
  <2> DEFINE r == Resumed(copy[h])
  <2>1. /\ pc[h] \in {"resume", "approved"} /\ pc[h] \in Holding /\ Known \subseteq Known'
        /\ Save(job[h], r) \/ SaveFails
        /\ (Goto(h, "spawn") /\ UNCHANGED copy) \/ Answer(h)
    BY <1>6, KnownStays DEF Resume, Holding
  <2>2. /\ copy[h] \in Record /\ copy[h] \in Good
        /\ copy[h].status \in {"waiting", "failed"} => copy[h].cur <= NSteps
    BY <1>0, <2>1, WriterHolds
  <2>3. r \in Record /\ SameNumbers(r, copy[h])
    BY <2>2, ResumedGood, ResumedNumbers, GoodRecords
  <2> HIDE DEF r
  <2>4. StoreNumbers'
    BY <1>0, <2>1, <2>3, NumbersWritten
  <2> QED
    BY <1>0, <2>1, <2>4, NumbersDropped, NumbersAnswered DEF NumbersInv, Holding
<1>7. CASE HaltRead(h)
  <2>1. Known \subseteq Known' /\ StoreNumbers' /\ pc[h] # "idle"
    BY <1>7, KnownStays, NumbersKept DEF HaltRead, Halting
  <2>2. ASSUME Exists(job[h]), NEW st, NEW l, Hold(h, WithStatus(store[job[h]], st)), Goto(h, l)
        PROVE  CopyNumbers'
    <3> DEFINE c == WithStatus(store[job[h]], st)
    <3>1. store[job[h]] \in Record /\ NumbersIn(store[job[h]], Known)
      BY <1>0, <2>1, <2>2, NumbersRead
    <3>2. SameNumbers(c, store[job[h]])
      BY <3>1, StatusNumbers
    <3> HIDE DEF c
    <3>3. NumbersIn(c, Known')
      BY <2>1, <3>1, <3>2 DEF NumbersIn, SameNumbers
    <3>4. pc' = [pc EXCEPT ![h] = l] /\ copy' = [copy EXCEPT ![h] = c]
      BY <2>2 DEF Goto, Hold, c
    <3> QED
      BY <1>0, <2>1, <3>3, <3>4, NumbersHeld
  <2>3. CASE Goto(h, "remove") /\ UNCHANGED copy
    BY <1>0, <2>1, <2>3, NumbersDropped DEF Holding, NumbersInv
  <2>4. CASE Answer(h)
    BY <1>0, <2>1, <2>4, NumbersAnswered DEF NumbersInv
  <2> QED
    BY <1>7, <2>1, <2>2, <2>3, <2>4 DEF HaltRead, NumbersInv
<1>8. CASE HaltSave(h)
  <2>1. /\ pc[h] \in Holding /\ Known \subseteq Known' /\ TrySave(job[h], copy[h])
        /\ (Goto(h, "remove") /\ UNCHANGED copy) \/ Answer(h)
    BY <1>8, KnownStays DEF HaltSave, Holding
  <2>2. StoreNumbers'
    BY <1>0, <2>1, WriterHolds, SameAsItself, NumbersWritten
  <2> QED
    BY <1>0, <2>1, <2>2, NumbersDropped, NumbersAnswered DEF NumbersInv, Holding
<1>9. CASE Remove(h)
  <2>1. /\ pc[h] = "remove" /\ Known \subseteq Known' /\ Answer(h)
        /\ Save(job[h], Deleted) \/ SaveFails
    BY <1>9, KnownStays DEF Remove
  <2>2. ASSUME NEW m \in Migrations, Exists(m)'
        PROVE  store'[m] = store[m] /\ Exists(m)
    BY <1>0, <2>1, <2>2 DEF Save, SaveFails, Exists, IInv, TypeOK
  <2>3. StoreNumbers'
    <3> SUFFICES ASSUME NEW m \in Migrations, Exists(m)' PROVE NumbersIn(store'[m], Known')
      BY DEF StoreNumbers
    <3> QED
      BY <2>1, <2>2, NumbersLast DEF NumbersInv, StoreNumbers
  <2> QED
    BY <1>0, <2>1, <2>3, NumbersAnswered DEF NumbersInv
<1>10. CASE MergePRAtHost(h)
  <2>1. pc[h] = "mergePR" /\ UNCHANGED store /\ (Answer(h) \/ (Goto(h, "mergedByUser") /\ UNCHANGED copy))
    BY <1>10 DEF MergePRAtHost
  <2>2. Known \subseteq Known'
    BY <1>10 DEF MergePRAtHost, Known, IInv, TypeOK
  <2> QED
    BY <1>0, <2>1, <2>2, NumbersKept, NumbersCarried, NumbersAnswered DEF NumbersInv, Holding
<1>11. CASE MergePRSave(h)
  <2>1. PICK s \in todo[h] :
          /\ TrySave(job[h], MergedByUser(copy[h], s))
          /\ (Goto(h, "continue") /\ Hold(h, Nobody)) \/ Answer(h)
    BY <1>11 DEF MergePRSave
  <2>2. pc[h] = "mergedByUser" /\ Known \subseteq Known' /\ s \in Steps
    BY <1>11, KnownStays DEF MergePRSave, IInv, TypeOK
  <2>3. copy[h] \in Record /\ MergedByUser(copy[h], s) \in Record
    BY <1>0, <2>2, WriterHolds, MergedByUserGood, GoodRecords DEF Holding
  <2>4. StoreNumbers'
    BY <1>0, <2>1, <2>2, <2>3, MergedByUserNumbers, NumbersWritten DEF Holding
  <2> QED
    BY <1>0, <2>1, <2>2, <2>4, NumbersDropped, NumbersAnswered DEF Drop, Holding, NumbersInv
<1>12. CASE ContinueMerged(h)
  <2>1. pc[h] # "idle" /\ UNCHANGED <<store, prs>>
    BY <1>12 DEF ContinueMerged
  <2>2. CASE Answer(h)
    BY <1>0, <2>1, <2>2, KnownStays, NumbersKept, NumbersAnswered DEF NumbersInv
  <2> QED
    BY <1>0, <1>12, <2>1, <2>2, ContinueNumbers DEF ContinueMerged
<1>13. CASE RollbackPR(h)
  <2>1. pc[h] \in Holding /\ UNCHANGED <<pc, copy>> /\ TrySave(job[h], copy[h])
    BY <1>13 DEF RollbackPR, Holding
  <2>2. Known \subseteq Known'
    BY <1>13 DEF RollbackPR, Known, IInv, TypeOK
  <2> QED
    BY <1>0, <2>1, <2>2, WriterHolds, SameAsItself, NumbersWritten, NumbersCarried DEF NumbersInv
<1>14. CASE RollbackEnd(h)
  <2> DEFINE st == IF h \in failed THEN "failed" ELSE "rolled_back"
  <2>1. pc[h] \in Holding /\ Known \subseteq Known' /\ Answer(h) /\ TrySave(job[h], WithStatus(copy[h], st))
    BY <1>14, KnownStays DEF RollbackEnd, Holding
  <2>2. st \in Status \ {"waiting", "completed"}
    BY DEF Status
  <2> HIDE DEF st
  <2>3. copy[h] \in Record /\ WithStatus(copy[h], st) \in Record
    BY <1>0, <2>1, <2>2, WriterHolds, WithStatusGood, GoodRecords
  <2> QED
    BY <1>0, <2>1, <2>3, StatusNumbers, NumbersWritten, NumbersAnswered DEF NumbersInv
<1> QED
  BY <1>1, <1>2, <1>3, <1>4, <1>5, <1>6, <1>7, <1>8, <1>9, <1>10, <1>11, <1>12, <1>13, <1>14 DEF Serve

LEMMA NextNumbers ==
    ASSUME IInv, NumbersInv, [Next]_vars
    PROVE  NumbersInv'
<1>1. ASSUME NEW p \in Procs, AddLog(p)
      PROVE  NumbersInv'
  <2>1. pc[p] \in Holding /\ Known \subseteq Known' /\ UNCHANGED <<pc, copy>> /\ Save(job[p], copy[p])
    BY <1>1, KnownStays DEF AddLog, Logging, Holding
  <2> QED
    BY <2>1, WriterHolds, SameAsItself, NumbersWritten, NumbersCarried DEF NumbersInv
<1>2. ASSUME NEW p \in PRs, HostMerge(p)
      PROVE  NumbersInv'
  <2>1. Known \subseteq Known' /\ UNCHANGED <<store, pc, copy>>
    BY <1>2, KnownGrows DEF HostMerge
  <2>2. CopyNumbers'
    <3> SUFFICES ASSUME NEW q \in Procs, pc'[q] \in Holding PROVE NumbersIn(copy'[q], Known')
      BY DEF CopyNumbers
    <3> QED
      BY <2>1, NumbersLast DEF NumbersInv, CopyNumbers
  <2> QED
    BY <2>1, <2>2, NumbersKept DEF NumbersInv
<1>3. CASE Crash
  <2>1. Known \subseteq Known' /\ UNCHANGED store /\ \A q \in Procs : pc'[q] = "idle"
    BY <1>3, KnownStays DEF Crash
  <2> QED
    BY <2>1, NumbersKept DEF NumbersInv, CopyNumbers, Holding
<1>4. CASE UNCHANGED vars
  BY <1>4 DEF vars, NumbersInv, StoreNumbers, CopyNumbers, Known, Exists
<1> QED
  BY <1>1, <1>2, <1>3, <1>4, RunStepsNumbers, RequestNumbers, ServeNumbers DEF Next

\* A pull request number in a record never names one that was not opened: not
\* through a stale copy, not after a lost save, not after a restart.  What
\* createPRWithLog, handleMergePR and ContinueAfterPR ask the Git host to
\* merge is a pull request of this service.
THEOREM NumbersStayReal == Spec => []PRNumbersReal
<1>1. Init => NumbersInv
  BY DEF Init, NumbersInv, StoreNumbers, CopyNumbers, Exists, Holding
<1>2. IInv /\ NumbersInv => PRNumbersReal
  <2> SUFFICES ASSUME IInv, NumbersInv, NEW id \in Migrations, Exists(id),
                      NEW s \in Steps, store[id].steps[s].pr > 0
               PROVE  prs[store[id].steps[s].pr] # "none"
    BY DEF PRNumbersReal
  <2> QED
    BY DEF NumbersInv, StoreNumbers, NumbersIn, Known
<1> QED
  BY <1>1, <1>2, NextNumbers, Invariance, PTL DEF Spec

(***************************************************************************)
(* Batches: the same facts with MigrationBatch's goroutine and requests.   *)
(***************************************************************************)
LEMMA MemberFacts ==
    /\ Size \in Nat \ {0}
    /\ \A i \in 1..Size : Members[i] \in Migrations /\ Members[i] \in InBatch
    /\ \A i, j \in 1..Size : Members[i] = Members[j] => i = j
    /\ InBatch \subseteq Migrations
<1>1. Members \in Seq(Migrations) /\ Members # <<>>
  BY BatchAssumption
<1>2. Len(Members) \in Nat /\ DOMAIN Members = 1..Len(Members)
  BY <1>1
<1>3. Len(Members) # 0
  BY <1>1
<1>4. \A i \in 1..Len(Members) : Members[i] \in Migrations
  BY <1>1
<1> QED
  BY <1>2, <1>3, <1>4, BatchAssumption DEF Size, InBatch

\* One request starts the batch, before its goroutine is there.
StartingInv ==
    \A h \in Procs : pc[h] \in Starting =>
        /\ h \in Handlers /\ job[h] = Members[1] /\ keeper = Nobody
        /\ \A g \in Procs : pc[g] \in Starting => g = h
        /\ pc[h] = "first" => batch = [status |-> "running", index |-> 1]

\* The keeper keeps a batch that runs and has a current member.
KeeperInv ==
    keeper # Nobody =>
        /\ pc[keeper] # "idle" /\ job[keeper] = Members[1]
        /\ batch.status = "running" /\ batch.index \in 1..Size

\* What advanceBatch holds where it stands.
KeepingInv ==
    \A p \in Procs : pc[p] \in Keeping =>
        /\ p = keeper /\ p # Nobody
        /\ pc[p] # "advance" => local.status = "running" /\ local.index \in 2..(Size + 1)
        /\ pc[p] \in {"next", "launch", "run"} => local.index <= Size

\* advanceBatch waits for the member's run it has started.
InnerInv ==
    inner # Nobody =>
        /\ keeper # Nobody /\ pc[keeper] = "advance"
        /\ pc[inner] \in Places \ {"idle"} /\ job[inner] \in InBatch

BatchTypes ==
    /\ batch \in BatchRecord \cup {NoBatch}
    /\ local \in BatchRecord \cup {NoBatch}
    /\ keeper \in Workers \cup {Nobody}
    /\ inner \in Workers \cup {Nobody}

BInv == IInv /\ BatchTypes /\ StartingInv /\ KeeperInv /\ KeepingInv /\ InnerInv

(***************************************************************************)
(* Steps of the executor beside the batch.                                 *)
(***************************************************************************)
\* Actor p does not move, or moves among the executor's places; the goroutines
\* of the batch neither end nor turn to another migration.
Beside(p) ==
    \/ pc'[p] = pc[p] /\ job'[p] = job[p]
    \/ /\ pc[p] \in Places /\ pc'[p] \in Places
       /\ p \in {keeper, inner} \ {Nobody} => pc'[p] # "idle" /\ job'[p] = job[p]

LEMMA BesideKeeps ==
    ASSUME BInv, IInv', \A p \in Procs : Beside(p), UNCHANGED bvars
    PROVE  BInv'
<1>1. batch' = batch /\ local' = local /\ keeper' = keeper /\ inner' = inner
  BY DEF bvars
<1>2. BatchTypes'
  BY <1>1 DEF BInv, BatchTypes
<1>3. Nobody \notin Workers /\ Workers \subseteq Procs
  BY ExecutorAssumption DEF Procs
<1>4. \A p \in Procs : pc'[p] \in Starting \cup Keeping => pc'[p] = pc[p] /\ job'[p] = job[p]
  BY DEF Beside, Places
<1>5. StartingInv'
  BY <1>1, <1>4 DEF BInv, StartingInv
<1>6. ASSUME keeper # Nobody
      PROVE  keeper \in Procs /\ pc'[keeper] # "idle" /\ job'[keeper] = job[keeper]
  <2>1. keeper \in Procs
    BY <1>3, <1>6 DEF BInv, BatchTypes
  <2>2. pc[keeper] # "idle"
    BY <1>6 DEF BInv, KeeperInv
  <2> QED
    BY <1>6, <2>1, <2>2 DEF Beside
<1>7. KeeperInv'
  BY <1>1, <1>6 DEF BInv, KeeperInv
<1>8. KeepingInv'
  BY <1>1, <1>4 DEF BInv, KeepingInv
<1>9. InnerInv'
  <2> SUFFICES ASSUME inner # Nobody
               PROVE  /\ keeper # Nobody /\ pc'[keeper] = "advance"
                      /\ pc'[inner] \in Places \ {"idle"} /\ job'[inner] \in InBatch
    BY <1>1 DEF InnerInv
  <2>1. /\ keeper # Nobody /\ pc[keeper] = "advance"
        /\ pc[inner] \in Places \ {"idle"} /\ job[inner] \in InBatch
    BY DEF BInv, InnerInv
  <2>2. inner \in Procs \ {Nobody}
    BY <1>3 DEF BInv, BatchTypes
  <2>3. pc'[keeper] = "advance"
    BY <1>6, <2>1 DEF Beside, Places, Keeping
  <2> QED
    BY <2>1, <2>2, <2>3 DEF Beside
<1> QED
  BY <1>2, <1>5, <1>7, <1>8, <1>9 DEF BInv

LEMMA RunStepsBeside ==
    ASSUME BInv, NEW w \in Workers, RunStepsHere(w)
    PROVE  BInv'
<1>1. RunSteps(w) /\ UNCHANGED bvars /\ (w \in {keeper, inner} => pc[w] \notin {"exit", "panic"})
  BY DEF RunStepsHere
<1>2. IInv'
  BY <1>1, RunStepsKeeps DEF BInv
<1>3. pc \in [Procs -> Labels] /\ job \in [Procs -> Migrations \cup {Nobody}] /\ w \in Procs
  BY DEF BInv, IInv, TypeOK, Procs
<1>4. CASE Exit(w)
  <2>1. /\ pc[w] = "exit" /\ pc' = [pc EXCEPT ![w] = "idle"] /\ job' = [job EXCEPT ![w] = Nobody]
    BY <1>4 DEF Exit, Drop, Goto
  <2>2. \A p \in Procs : Beside(p)
    BY <1>1, <1>3, <2>1 DEF Beside, Places, Labels, Starting, Keeping
  <2> QED
    BY <1>1, <1>2, <2>2, BesideKeeps
<1>5. CASE ~Exit(w)
  <2>1. /\ pc[w] \in Places \ {"idle"}
        /\ \E l \in Places \ {"idle"} : pc' = [pc EXCEPT ![w] = l]
        /\ UNCHANGED job
    BY <1>1, <1>5, RunStepsMoves DEF Goto
  <2>2. \A p \in Procs : Beside(p)
    BY <1>3, <2>1 DEF Beside
  <2> QED
    BY <1>1, <1>2, <2>2, BesideKeeps
<1> QED
  BY <1>4, <1>5

LEMMA RequestsBeside ==
    ASSUME BInv, NEW h \in Handlers, Request(h) \/ Serve(h), UNCHANGED bvars
    PROVE  BInv'
<1>2. IInv'
  BY RequestKeeps, ServeKeeps DEF BInv
<1>3. /\ pc \in [Procs -> Labels] /\ job \in [Procs -> Migrations \cup {Nobody}] /\ h \in Procs
      /\ TypeOK /\ h \notin {keeper, inner} \ {Nobody}
  BY ExecutorAssumption DEF BInv, IInv, TypeOK, Procs, BatchTypes
<1>a. keeper # Nobody => pc[keeper] # "idle"
  BY DEF BInv, KeeperInv
<1>b. inner # Nobody => pc[inner] # "idle"
  BY DEF BInv, InnerInv
<1>4. CASE Spawn(h)
  <2>1. PICK w \in Workers :
          /\ pc[w] = "idle"
          /\ pc' = [pc EXCEPT ![w] = "top", ![h] = "idle"]
          /\ job' = [job EXCEPT ![w] = job[h], ![h] = Nobody]
    BY <1>4 DEF Spawn
  <2>2. pc[h] = "spawn"
    BY <1>4 DEF Spawn
  <2>3. w \in Procs /\ w # Nobody /\ w # h /\ h \in Procs
    BY ExecutorAssumption DEF Procs
  <2>4. w \notin {keeper, inner}
    BY <1>a, <1>b, <2>1, <2>3
  <2>5. Beside(w)
    BY <1>3, <2>1, <2>3, <2>4 DEF Beside, Places, Labels, Starting, Keeping
  <2>6. Beside(h)
    BY <1>3, <2>1, <2>2, <2>3 DEF Beside, Places, Labels, Starting, Keeping
  <2>7. \A p \in Procs : Beside(p)
    BY <1>3, <2>1, <2>3, <2>5, <2>6 DEF Beside
  <2> QED
    BY <1>2, <2>7, BesideKeeps
<1>5. CASE ~Spawn(h)
  <2>1. RequestGoesOn(h)
    BY <1>3, <1>5, RequestsMove
  <2>2. Beside(h)
    BY <1>3, <2>1 DEF RequestGoesOn, Goto, Beside
  <2>3. \A p \in Procs : Beside(p)
    BY <1>3, <2>1, <2>2 DEF RequestGoesOn, Goto, Beside
  <2> QED
    BY <1>2, <2>3, BesideKeeps
<1> QED
  BY <1>4, <1>5
(***************************************************************************)
(* The actions of the batch.                                               *)
(***************************************************************************)
\* Goroutine w starts on migration id; p, which starts it, moves to l.
LEMMA StartsGoroutine ==
    ASSUME IInv, NEW p \in Procs, NEW w \in Workers, w # p, NEW id \in Migrations,
           NEW l \in Labels \ Holding, NEW j \in Migrations \cup {Nobody},
           l # "idle" => j \in Migrations,
           pc' = [pc EXCEPT ![w] = "top", ![p] = l],
           job' = [job EXCEPT ![w] = id, ![p] = j],
           copy' = [copy EXCEPT ![p] = Nobody] \/ copy' = copy,
           running' = [running EXCEPT ![id] = w],
           UNCHANGED <<store, prs, cancelled, failed, todo, requests, done, used>>
    PROVE  IInv'
<1>0. /\ pc \in [Procs -> Labels]
      /\ job \in [Procs -> Migrations \cup {Nobody}]
      /\ copy \in [Procs -> Record \cup {Nobody}]
      /\ running \in [Migrations -> Workers \cup {Nobody}]
      /\ w \in Procs
  BY DEF IInv, TypeOK, Procs
<1>1. TypeOK'
  <2>1. pc' \in [Procs -> Labels]
    BY <1>0 DEF Labels
  <2>2. job' \in [Procs -> Migrations \cup {Nobody}]
    BY <1>0
  <2>3. copy' \in [Procs -> Record \cup {Nobody}]
    BY <1>0
  <2>4. running' \in [Migrations -> Workers \cup {Nobody}]
    BY <1>0
  <2> QED
    BY <2>1, <2>2, <2>3, <2>4 DEF IInv, TypeOK
<1>2. StoreGood'
  BY KeepsStore
<1>3. ASSUME NEW q \in Procs
      PROVE  LabelInv(q)'
  <2>1. CASE q = w
    <3>1. pc'[q] = "top" /\ job'[q] = id
      BY <1>0, <2>1
    <3>2. Fits("top", copy[q])'
      BY NothingHeld DEF Labels, Holding, Fits, KnownRunning, KnownWaiting, InStep, WithPR
    <3> QED
      BY <3>1, <3>2 DEF LabelInv
  <2>2. CASE q = p
    <3>1. pc'[q] = l /\ job'[q] = j
      BY <1>0, <2>2
    <3>2. Fits(l, copy'[q])
      BY NothingHeld
    <3> QED
      BY <3>1, <3>2 DEF LabelInv, Fits, Step
  <2>3. CASE q # w /\ q # p
    <3>1. pc'[q] = pc[q] /\ copy'[q] = copy[q] /\ job'[q] = job[q]
      BY <1>0, <2>3
    <3>2. LabelInv(q)
      BY DEF IInv
    <3> QED
      BY <3>1, <3>2 DEF LabelInv, Fits, Step
  <2> QED
    BY <2>1, <2>2, <2>3
<1> QED
  BY <1>1, <1>2, <1>3 DEF IInv

LEMMA StartBatchKeeps ==
    ASSUME IInv, NEW h \in Handlers, NEW mode \in Modes, StartBatch(h, mode)
    PROVE  IInv'
<1> DEFINE c == NewMigration(mode)
<1>1. h \in Procs /\ Take(h, Members[1], c, "members") /\ StoreGood' /\ Members[1] \in Migrations
  BY KeepsStore, MemberFacts DEF StartBatch, Procs
<1>2. c \in Good
  BY NewMigrationGood
<1>3. RestType'
  BY Counted DEF StartBatch, Ask, IInv, TypeOK, RestType
<1> HIDE DEF c
<1>4. Fits("members", c)
  BY <1>2 DEF Fits, Holding, KnownRunning, KnownWaiting, InStep, WithPR
<1> QED
  BY <1>1, <1>2, <1>3, <1>4, TakeTo DEF Labels

LEMMA SaveMemberKeeps ==
    ASSUME IInv, NEW h \in Handlers, SaveMember(h)
    PROVE  IInv'
<1>1. h \in Procs /\ pc[h] = "members" /\ RestType'
  BY KeepsRest DEF SaveMember, Procs
<1>2. copy[h] \in Good /\ Fits("members", copy[h])
  BY <1>1, Standing DEF Fits, Holding
<1>3. PICK i \in 1..Size :
        \/ /\ Save(Members[i], IF i = 1 THEN copy[h] ELSE WithStatus(copy[h], "pending"))
           /\ Goto(h, IF i = Size THEN "batch" ELSE "members")
           /\ UNCHANGED <<copy, job>>
        \/ SaveFails /\ Answer(h)
  BY DEF SaveMember
<1>4. Members[i] \in Migrations
  BY MemberFacts
<1>5. WithStatus(copy[h], "pending") \in Good
  BY <1>2, WithStatusGood DEF Status
<1>6. CASE Save(Members[i], IF i = 1 THEN copy[h] ELSE WithStatus(copy[h], "pending"))
           /\ Goto(h, IF i = Size THEN "batch" ELSE "members")
           /\ UNCHANGED <<copy, job>>
  <2>1. StoreGood'
    BY <1>2, <1>4, <1>5, <1>6, SavesGood
  <2>2. Fits("batch", copy[h])
    BY NothingHeld DEF Labels, Holding
  <2> QED
    BY <1>1, <1>2, <1>6, <2>1, <2>2, StayTo DEF Labels
<1>7. CASE SaveFails /\ Answer(h)
  <2>1. StoreGood'
    BY <1>7, KeepsStore DEF SaveFails
  <2> QED
    BY <1>1, <1>7, <2>1, AnswerTo
<1> QED
  BY <1>3, <1>6, <1>7

LEMMA SaveNewBatchKeeps ==
    ASSUME IInv, NEW h \in Handlers, SaveNewBatch(h)
    PROVE  IInv'
<1>1. h \in Procs /\ pc[h] = "batch" /\ RestType' /\ StoreGood'
  BY KeepsRest, KeepsStore DEF SaveNewBatch, Procs
<1>2. CASE Goto(h, "first") /\ UNCHANGED <<copy, job>>
  <2>1. Fits("first", copy[h])
    BY NothingHeld DEF Labels, Holding
  <2> QED
    BY <1>1, <1>2, <2>1, StayTo DEF Labels
<1>3. CASE Answer(h)
  BY <1>1, <1>3, AnswerTo
<1> QED
  BY <1>2, <1>3 DEF SaveNewBatch

LEMMA SpawnKeeperKeeps ==
    ASSUME IInv, NEW h \in Handlers, SpawnKeeper(h)
    PROVE  IInv'
<1>1. h \in Procs /\ h \notin Workers /\ Members[1] \in Migrations
  BY ExecutorAssumption, MemberFacts DEF Procs
<1>2. UNCHANGED <<store, prs, cancelled, failed, todo, requests, done, used>>
  BY DEF SpawnKeeper
<1>3. ASSUME NEW w \in Workers, Hold(h, Nobody),
             pc' = [pc EXCEPT ![w] = "top", ![h] = "idle"],
             job' = [job EXCEPT ![w] = Members[1], ![h] = Nobody],
             running' = [running EXCEPT ![Members[1]] = w]
      PROVE  IInv'
  <2>1. w # h /\ "idle" \in Labels \ Holding
    BY <1>1 DEF Labels, Holding
  <2>2. copy' = [copy EXCEPT ![h] = Nobody]
    BY <1>3 DEF Hold
  <2> QED
    BY <1>1, <1>2, <1>3, <2>1, <2>2, StartsGoroutine
<1>4. CASE Answer(h) /\ UNCHANGED running
  BY <1>1, <1>2, <1>4, AnswerTo, KeepsStore, KeepsRest
<1> QED
  BY <1>3, <1>4 DEF SpawnKeeper

LEMMA KeepBatchKeeps ==
    ASSUME BInv, NEW w \in Workers, KeepBatch(w)
    PROVE  IInv'
<1>0. IInv /\ w \in Procs
  BY DEF BInv, Procs
<1>1. CASE FirstMemberEnds(w)
  <2>1. pc[w] = "exit" /\ Goto(w, "advance") /\ UNCHANGED <<copy, job>> /\ StoreGood' /\ RestType'
    BY <1>0, <1>1, KeepsStore, KeepsRest DEF FirstMemberEnds
  <2>2. Fits("advance", copy[w])
    BY NothingHeld DEF Labels, Holding
  <2> QED
    BY <1>0, <2>1, <2>2, StayTo DEF Labels
<1>2. CASE CheckMember(w)
  <2>1. pc[w] = "advance" /\ UNCHANGED job /\ StoreGood' /\ RestType'
    BY <1>0, <1>2, KeepsStore, KeepsRest DEF CheckMember
  <2>2. CASE Goto(w, "step") /\ UNCHANGED copy
    <3>1. Fits("step", copy[w])
      BY NothingHeld DEF Labels, Holding
    <3> QED
      BY <1>0, <2>1, <2>2, <3>1, StayTo DEF Labels
  <2>3. CASE Drop(w, "exit")
    BY <1>0, <2>1, <2>3, DropTo DEF Labels, Holding
  <2> QED
    BY <1>2, <2>2, <2>3 DEF CheckMember, Leave
<1>3. CASE StepBatch(w)
  <2>1. pc[w] = "step" /\ UNCHANGED job /\ StoreGood' /\ RestType'
    BY <1>0, <1>3, KeepsStore, KeepsRest DEF StepBatch
  <2>2. CASE Goto(w, "next") /\ UNCHANGED copy
    <3>1. Fits("next", copy[w])
      BY NothingHeld DEF Labels, Holding
    <3> QED
      BY <1>0, <2>1, <2>2, <3>1, StayTo DEF Labels
  <2>3. CASE Drop(w, "exit")
    BY <1>0, <2>1, <2>3, DropTo DEF Labels, Holding
  <2> QED
    BY <1>3, <2>2, <2>3 DEF StepBatch, Leave
<1>4. CASE ReadNext(w)
  <2> DEFINE next == Members[local.index]
  <2>1. pc[w] = "next" /\ UNCHANGED job /\ StoreGood' /\ RestType'
    BY <1>0, <1>4, KeepsStore, KeepsRest DEF ReadNext
  <2>2. next \in Migrations
    BY <1>0, <2>1, MemberFacts DEF BInv, KeepingInv, Keeping
  <2>3. CASE Exists(next) /\ Hold(w, WithStatus(store[next], "running")) /\ Goto(w, "launch")
    <3>1. WithStatus(store[next], "running") \in Good
      BY <1>0, <2>2, <2>3, ReadsGood, WithStatusGood DEF Status
    <3>2. Fits("launch", WithStatus(store[next], "running"))
      BY <3>1 DEF Fits, Holding, KnownRunning, KnownWaiting, InStep, WithPR
    <3> QED
      BY <1>0, <2>1, <2>3, <3>1, <3>2, HoldAt DEF Labels
  <2>4. CASE Drop(w, "exit")
    BY <1>0, <2>1, <2>4, DropTo DEF Labels, Holding
  <2> QED
    BY <1>4, <2>3, <2>4 DEF ReadNext, Leave
<1>5. CASE Launch(w)
  <2>1. pc[w] = "launch" /\ UNCHANGED job /\ RestType' /\ Drop(w, "run") /\ TrySave(Members[local.index], copy[w])
    BY <1>0, <1>5, KeepsRest DEF Launch
  <2>2. Members[local.index] \in Migrations /\ copy[w] \in Good
    BY <1>0, <2>1, Standing, MemberFacts DEF BInv, KeepingInv, Keeping, Fits, Holding
  <2>3. StoreGood'
    BY <1>0, <2>1, <2>2, SavesGood
  <2> QED
    BY <1>0, <2>1, <2>3, DropTo DEF Labels, Holding
<1>6. CASE RunMember(w)
  <2>1. pc[w] = "run" /\ Members[local.index] \in Migrations /\ job[w] \in Migrations
    BY <1>0, <1>6, Standing, MemberFacts DEF RunMember, BInv, KeepingInv, Keeping
  <2>2. PICK v \in Workers :
          /\ pc[v] = "idle"
          /\ pc' = [pc EXCEPT ![v] = "top", ![w] = "advance"]
          /\ job' = [job EXCEPT ![v] = Members[local.index]]
          /\ running' = [running EXCEPT ![Members[local.index]] = v]
    BY <1>6 DEF RunMember
  <2>3. v # w /\ job' = [job EXCEPT ![v] = Members[local.index], ![w] = job[w]]
    BY <1>0, <2>1, <2>2 DEF IInv, TypeOK
  <2> QED
    BY <1>0, <1>6, <2>1, <2>2, <2>3, StartsGoroutine DEF RunMember, Labels, Holding
<1>7. CASE InnerEnds(w)
  BY <1>0, <1>7, ExitKeeps DEF InnerEnds
<1>8. CASE MemberPanics(w)
  <2>1. pc[w] = "panic" /\ Goto(w, "exit") /\ UNCHANGED <<copy, job>> /\ StoreGood' /\ RestType'
    BY <1>0, <1>8, KeepsStore, KeepsRest DEF MemberPanics
  <2>2. Fits("exit", copy[w])
    BY NothingHeld DEF Labels, Holding
  <2> QED
    BY <1>0, <2>1, <2>2, StayTo DEF Labels
<1> QED
  BY <1>1, <1>2, <1>3, <1>4, <1>5, <1>6, <1>7, <1>8 DEF KeepBatch
\* While a request starts the batch there is no keeper, and the other way round.
LEMMA NobodyKeeps ==
    ASSUME BInv, keeper = Nobody
    PROVE  inner = Nobody /\ \A p \in Procs : pc[p] \notin Keeping
BY DEF BInv, InnerInv, KeepingInv

\* The request that starts the batch goes on.
LEMMA StarterMoves ==
    ASSUME BInv, IInv', NEW h \in Handlers, keeper = Nobody,
           \A g \in Procs : pc[g] \in Starting => g = h,
           NEW l \in Starting \cup {"idle"}, NEW j,
           pc' = [pc EXCEPT ![h] = l], job' = [job EXCEPT ![h] = j],
           l \in Starting => j = Members[1],
           l = "first" => batch' = [status |-> "running", index |-> 1],
           batch' \in BatchRecord \cup {NoBatch}, UNCHANGED <<local, keeper, inner>>
    PROVE  BInv'
<1>1. inner = Nobody /\ \A p \in Procs : pc[p] \notin Keeping
  BY NobodyKeeps
<1>2. h \in Procs /\ pc'[h] = l /\ job'[h] = j /\ \A p \in Procs : p # h => pc'[p] = pc[p]
  BY DEF BInv, IInv, TypeOK, Procs
<1>3. \A g \in Procs : pc'[g] \in Starting => g = h
  BY <1>2
<1>4. \A p \in Procs : pc'[p] \notin Keeping
  BY <1>1, <1>2 DEF Starting, Keeping
<1> QED
  BY <1>1, <1>2, <1>3, <1>4 DEF BInv, BatchTypes, StartingInv, KeeperInv, KeepingInv, InnerInv

LEMMA StartBatchInv ==
    ASSUME BInv, NEW h \in Handlers, NEW mode \in Modes, StartBatch(h, mode)
    PROVE  BInv'
<1>1. IInv'
  BY StartBatchKeeps DEF BInv
<1>2. \A p \in Procs : job[p] # Members[1]
  BY MemberFacts DEF StartBatch
<1>3. keeper = Nobody /\ \A g \in Procs : pc[g] \notin Starting
  BY <1>2 DEF BInv, KeeperInv, StartingInv, BatchTypes, Procs
<1>4. /\ pc' = [pc EXCEPT ![h] = "members"] /\ job' = [job EXCEPT ![h] = Members[1]]
      /\ UNCHANGED bvars
  BY DEF StartBatch, Take, Goto
<1> QED
  BY <1>1, <1>3, <1>4, StarterMoves DEF Starting, bvars, BInv, BatchTypes

LEMMA ServeBatchInv ==
    ASSUME BInv, NEW h \in Handlers, ServeBatch(h)
    PROVE  BInv'
<1>1. IInv'
  BY SaveMemberKeeps, SaveNewBatchKeeps, SpawnKeeperKeeps DEF BInv, ServeBatch
<1>2. h \in Procs /\ pc[h] \in Starting
  BY DEF ServeBatch, SaveMember, SaveNewBatch, SpawnKeeper, Starting, Procs
<1>3. /\ keeper = Nobody /\ job[h] = Members[1]
      /\ \A g \in Procs : pc[g] \in Starting => g = h
      /\ pc[h] = "first" => batch = [status |-> "running", index |-> 1]
  BY <1>2 DEF BInv, StartingInv
<1>4. [status |-> "running", index |-> 1] \in BatchRecord
  BY MemberFacts DEF BatchRecord
<1>5. job = [job EXCEPT ![h] = Members[1]]
  BY <1>2, <1>3 DEF BInv, IInv, TypeOK
<1>6. CASE SaveMember(h)
  <2>1. UNCHANGED bvars
    BY <1>6 DEF SaveMember
  <2>2. \/ (\E l \in {"batch", "members"} : Goto(h, l)) /\ UNCHANGED job
        \/ Answer(h)
    BY <1>6 DEF SaveMember
  <2> QED
    BY <1>1, <1>3, <1>5, <2>1, <2>2, StarterMoves
    DEF Starting, Answer, Drop, Goto, bvars, BInv, BatchTypes
<1>7. CASE SaveNewBatch(h)
  <2>1. UNCHANGED <<local, keeper, inner>>
    BY <1>7 DEF SaveNewBatch
  <2>2. \/ batch' = [status |-> "running", index |-> 1] /\ Goto(h, "first") /\ UNCHANGED job
        \/ Answer(h) /\ UNCHANGED batch
    BY <1>7 DEF SaveNewBatch
  <2> QED
    BY <1>1, <1>3, <1>4, <1>5, <2>1, <2>2, StarterMoves
    DEF Starting, Answer, Drop, Goto, BInv, BatchTypes
<1>8. CASE SpawnKeeper(h)
  <2>1. CASE Answer(h) /\ UNCHANGED keeper
    <3>1. UNCHANGED bvars
      BY <1>8, <2>1 DEF SpawnKeeper, bvars
    <3> QED
      BY <1>1, <1>3, <2>1, <3>1, StarterMoves DEF Starting, Answer, Drop, Goto, bvars, BInv, BatchTypes
  <2>2. ASSUME NEW w \in Workers, pc[w] = "idle", keeper' = w,
               pc' = [pc EXCEPT ![w] = "top", ![h] = "idle"],
               job' = [job EXCEPT ![w] = Members[1], ![h] = Nobody]
        PROVE  BInv'
    <3>1. w # h /\ w \in Procs /\ w # Nobody
      BY ExecutorAssumption DEF Procs
    <3>2. pc[h] = "first" /\ UNCHANGED <<batch, local, inner>>
      BY <1>8 DEF SpawnKeeper
    <3>3. inner = Nobody /\ \A p \in Procs : pc[p] \notin Keeping
      BY <1>3, NobodyKeeps
    <3>4. /\ pc'[w] = "top" /\ job'[w] = Members[1] /\ pc'[h] = "idle"
          /\ \A p \in Procs : p \notin {w, h} => pc'[p] = pc[p]
      BY <1>2, <2>2, <3>1 DEF BInv, IInv, TypeOK
    <3>5. \A p \in Procs : pc'[p] \notin Keeping /\ pc'[p] \notin Starting
      BY <1>3, <3>3, <3>4 DEF Keeping, Starting
    <3>6. BatchTypes'
      BY <2>2, <3>2 DEF BInv, BatchTypes
    <3>7. KeeperInv'
      BY <1>3, <2>2, <3>2, <3>4, MemberFacts DEF KeeperInv
    <3> QED
      BY <1>1, <3>2, <3>3, <3>5, <3>6, <3>7 DEF BInv, StartingInv, KeepingInv, InnerInv
  <2> QED
    BY <1>8, <2>1, <2>2 DEF SpawnKeeper
<1> QED
  BY <1>6, <1>7, <1>8 DEF ServeBatch

\* The keeper goes on in advanceBatch, or leaves it.
LEMMA KeeperMoves ==
    ASSUME BInv, IInv', keeper # Nobody, inner = Nobody, inner' = Nobody,
           NEW l, pc' = [pc EXCEPT ![keeper] = l], UNCHANGED job, BatchTypes',
           \/ keeper' = Nobody /\ l = "exit"
           \/ /\ keeper' = keeper /\ l \in Keeping
              /\ batch'.status = "running" /\ batch'.index \in 1..Size
              /\ l # "advance" => local'.status = "running" /\ local'.index \in 2..(Size + 1)
              /\ l \in {"next", "launch", "run"} => local'.index <= Size
    PROVE  BInv'
<1>1. keeper \in Procs
  BY DEF BInv, BatchTypes, Procs
<1>2. pc'[keeper] = l /\ \A p \in Procs : p # keeper => pc'[p] = pc[p] /\ pc[p] \notin Keeping
  BY <1>1 DEF BInv, IInv, TypeOK, KeepingInv
<1>3. \A p \in Procs : pc'[p] \notin Starting
  BY <1>1, <1>2 DEF BInv, StartingInv, Starting, Keeping
<1>4. KeepingInv'
  BY <1>1, <1>2 DEF KeepingInv, Keeping
<1>5. KeeperInv'
  BY <1>2 DEF BInv, KeeperInv, Keeping
<1> QED
  BY <1>3, <1>4, <1>5 DEF BInv, StartingInv, InnerInv

LEMMA KeepBatchInv ==
    ASSUME BInv, NEW w \in Workers, KeepBatch(w)
    PROVE  BInv'
<1>1. IInv'
  BY KeepBatchKeeps
<1>2. w \in Procs /\ w # Nobody /\ Size \in Nat \ {0}
  BY ExecutorAssumption, MemberFacts DEF Procs
<1>3. ASSUME w = keeper, pc[w] # "advance"
      PROVE  inner = Nobody
  BY <1>3 DEF BInv, InnerInv
<1>4. w = keeper => batch.status = "running" /\ batch.index \in 1..Size /\ batch \in BatchRecord
  BY <1>2 DEF BInv, KeeperInv, BatchTypes, NoBatch
<1>5. CASE FirstMemberEnds(w)
  <2>1. w = keeper /\ pc[w] = "exit" /\ Goto(w, "advance") /\ UNCHANGED <<job, bvars>>
    BY <1>5 DEF FirstMemberEnds
  <2> QED
    BY <1>1, <1>2, <1>3, <1>4, <2>1, KeeperMoves DEF Goto, bvars, Keeping, BInv, BatchTypes
<1>6. CASE CheckMember(w)
  <2>1. w = keeper /\ inner = Nobody /\ UNCHANGED <<job, batch, inner>>
    BY <1>6 DEF CheckMember
  <2>2. CASE local' = [batch EXCEPT !.index = @ + 1] /\ Goto(w, "step") /\ UNCHANGED keeper
    <3>1. local' \in BatchRecord /\ local'.status = "running" /\ local'.index \in 2..(Size + 1)
      BY <1>2, <1>4, <2>1, <2>2 DEF BatchRecord
    <3>2. BatchTypes'
      BY <2>1, <2>2, <3>1 DEF BInv, BatchTypes
    <3> QED
      BY <1>1, <1>2, <1>4, <2>1, <2>2, <3>1, <3>2, KeeperMoves DEF Goto, Keeping
  <2>3. CASE Leave(w)
    <3>1. BatchTypes'
      BY <2>1, <2>3 DEF BInv, BatchTypes, Leave
    <3> QED
      BY <1>1, <1>2, <2>1, <2>3, <3>1, KeeperMoves DEF Leave, Drop, Goto
  <2> QED
    BY <1>6, <2>2, <2>3 DEF CheckMember
<1>7. CASE StepBatch(w)
  <2>1. w = keeper /\ pc[w] = "step" /\ UNCHANGED <<job, inner>> /\ inner = Nobody
    BY <1>3, <1>7 DEF StepBatch
  <2>2. local.status = "running" /\ local.index \in 2..(Size + 1) /\ local \in BatchRecord
    BY <1>2, <2>1 DEF BInv, KeepingInv, Keeping, BatchTypes, NoBatch
  <2>3. CASE local.index > Size
    <3>1. SaveBatch([local EXCEPT !.status = "completed"]) /\ Leave(w)
      BY <1>7, <2>3 DEF StepBatch
    <3>2. [local EXCEPT !.status = "completed"] \in BatchRecord
      BY <2>2 DEF BatchRecord
    <3>3. BatchTypes'
      BY <2>1, <3>1, <3>2 DEF BInv, BatchTypes, Leave, SaveBatch
    <3> QED
      BY <1>1, <1>2, <2>1, <3>1, <3>3, KeeperMoves DEF Leave, Drop, Goto
  <2>4. CASE ~(local.index > Size)
    <3>1. SaveBatch(local) /\ Goto(w, "next") /\ UNCHANGED <<local, keeper>>
      BY <1>7, <2>4 DEF StepBatch
    <3>2. BatchTypes'
      BY <2>1, <2>2, <3>1 DEF BInv, BatchTypes, SaveBatch
    <3>3. local.index \in 1..Size
      BY <1>2, <2>2, <2>4
    <3>4. batch'.status = "running" /\ batch'.index \in 1..Size
      BY <1>4, <2>1, <2>2, <3>1, <3>3 DEF SaveBatch
    <3>5. local'.status = "running" /\ local'.index \in 2..(Size + 1) /\ local'.index <= Size
      BY <2>2, <2>4, <3>1, <3>3, <1>2
    <3>6. pc' = [pc EXCEPT ![keeper] = "next"] /\ keeper' = keeper
      BY <2>1, <3>1 DEF Goto
    <3> QED
      BY <1>1, <1>2, <2>1, <3>2, <3>4, <3>5, <3>6, KeeperMoves DEF Keeping
  <2> QED
    BY <2>3, <2>4
<1>8. CASE ReadNext(w)
  <2>1. w = keeper /\ pc[w] = "next" /\ UNCHANGED <<job, inner>> /\ inner = Nobody
    BY <1>3, <1>8 DEF ReadNext
  <2>2. /\ local.status = "running" /\ local.index \in 2..(Size + 1) /\ local.index <= Size
        /\ local \in BatchRecord
    BY <1>2, <2>1 DEF BInv, KeepingInv, Keeping, BatchTypes, NoBatch
  <2>3. CASE Goto(w, "launch") /\ UNCHANGED <<batch, local, keeper>>
    <3>1. BatchTypes'
      BY <2>1, <2>3 DEF BInv, BatchTypes
    <3> QED
      BY <1>1, <1>2, <1>4, <2>1, <2>2, <2>3, <3>1, KeeperMoves DEF Goto, Keeping
  <2>4. CASE SaveBatch([local EXCEPT !.status = "failed"]) /\ Leave(w)
    <3>1. [local EXCEPT !.status = "failed"] \in BatchRecord
      BY <2>2 DEF BatchRecord
    <3>2. BatchTypes'
      BY <2>1, <2>4, <3>1 DEF BInv, BatchTypes, Leave, SaveBatch
    <3> QED
      BY <1>1, <1>2, <2>1, <2>4, <3>2, KeeperMoves DEF Leave, Drop, Goto
  <2> QED
    BY <1>8, <2>3, <2>4 DEF ReadNext
<1>9. CASE Launch(w)
  <2>1. /\ w = keeper /\ pc[w] = "launch" /\ UNCHANGED <<job, bvars>> /\ Drop(w, "run")
        /\ inner = Nobody
    BY <1>3, <1>9 DEF Launch
  <2>2. /\ local.status = "running" /\ local.index \in 2..(Size + 1) /\ local.index <= Size
    BY <1>2, <2>1 DEF BInv, KeepingInv, Keeping
  <2> QED
    BY <1>1, <1>2, <1>4, <2>1, <2>2, KeeperMoves DEF Drop, Goto, bvars, Keeping, BInv, BatchTypes
<1>10. CASE RunMember(w)
  <2>1. w = keeper /\ pc[w] = "run" /\ local' = NoBatch /\ UNCHANGED <<batch, keeper>>
    BY <1>10 DEF RunMember
  <2>2. PICK v \in Workers :
          /\ pc[v] = "idle"
          /\ pc' = [pc EXCEPT ![v] = "top", ![w] = "advance"]
          /\ job' = [job EXCEPT ![v] = Members[local.index]]
          /\ inner' = v
    BY <1>10 DEF RunMember
  <2>3. v # w /\ v \in Procs /\ v # Nobody
    BY <2>1, <2>2, ExecutorAssumption DEF Procs
  <2>4. /\ pc'[v] = "top" /\ pc'[w] = "advance" /\ job'[v] = Members[local.index] /\ job'[w] = job[w]
        /\ \A p \in Procs : p \notin {v, w} => pc'[p] = pc[p]
    BY <1>2, <2>2, <2>3 DEF BInv, IInv, TypeOK
  <2>5. job'[v] \in InBatch
    BY <1>2, <2>1, <2>4, MemberFacts DEF BInv, KeepingInv, Keeping
  <2>6. \A p \in Procs : pc'[p] \notin Starting /\ (pc'[p] \in Keeping => p = w)
    BY <1>2, <2>1, <2>4 DEF BInv, StartingInv, KeepingInv, Starting, Keeping
  <2>7. BatchTypes'
    BY <2>1, <2>2 DEF BInv, BatchTypes
  <2>8. KeeperInv'
    BY <2>1, <2>4 DEF BInv, KeeperInv
  <2>9. KeepingInv'
    BY <1>2, <2>1, <2>4, <2>6 DEF KeepingInv
  <2>10. InnerInv'
    BY <1>2, <2>1, <2>2, <2>4, <2>5 DEF InnerInv, Places, Labels, Starting, Keeping
  <2> QED
    BY <1>1, <2>6, <2>7, <2>8, <2>9, <2>10 DEF BInv, StartingInv
<1>11. CASE InnerEnds(w)
  <2>1. w = inner /\ Exit(w) /\ inner' = Nobody /\ UNCHANGED <<batch, local, keeper>>
    BY <1>11 DEF InnerEnds
  <2>2. keeper # Nobody /\ pc[keeper] = "advance" /\ pc[w] = "exit" /\ w # keeper /\ keeper \in Procs
    BY <1>2, <2>1 DEF BInv, InnerInv, Exit, BatchTypes, Procs
  <2>3. /\ pc'[w] = "idle" /\ job'[keeper] = job[keeper]
        /\ \A p \in Procs : p # w => pc'[p] = pc[p]
    BY <1>2, <2>1, <2>2 DEF Exit, Drop, Goto, BInv, IInv, TypeOK
  <2>4. \A p \in Procs : pc'[p] \notin Starting /\ (pc'[p] \in Keeping => pc'[p] = pc[p])
    BY <1>2, <2>2, <2>3 DEF BInv, StartingInv, Starting, Keeping
  <2>5. BatchTypes'
    BY <2>1 DEF BInv, BatchTypes
  <2>6. KeeperInv'
    BY <2>1, <2>2, <2>3 DEF BInv, KeeperInv
  <2>7. KeepingInv'
    BY <2>1, <2>4 DEF BInv, KeepingInv
  <2> QED
    BY <1>1, <2>1, <2>4, <2>5, <2>6, <2>7 DEF BInv, StartingInv, InnerInv
<1>12. CASE MemberPanics(w)
  <2>1. /\ pc[w] = "panic" /\ Goto(w, "exit") /\ UNCHANGED <<job, batch, local, inner>>
        /\ keeper' = IF w = keeper THEN Nobody ELSE keeper
        /\ w \in {keeper, inner}
    BY <1>12 DEF MemberPanics
  <2>2. BatchTypes'
    BY <2>1 DEF BInv, BatchTypes
  <2>3. CASE w = keeper
    BY <1>1, <1>2, <1>3, <2>1, <2>2, <2>3, KeeperMoves DEF Goto
  <2>4. CASE w # keeper
    <3>1. \A p \in Procs : Beside(p)
      BY <1>2, <2>1, <2>4
      DEF Beside, Goto, BInv, IInv, TypeOK, Places, Labels, Starting, Keeping
    <3> QED
      BY <1>1, <2>1, <2>4, <3>1, BesideKeeps DEF bvars
  <2> QED
    BY <2>3, <2>4
<1> QED
  BY <1>5, <1>6, <1>7, <1>8, <1>9, <1>10, <1>11, <1>12 DEF KeepBatch

LEMMA BatchCrashInv ==
    ASSUME BInv, BatchCrash
    PROVE  BInv'
<1>1. IInv'
  BY CrashKeeps DEF BInv, BatchCrash
<1>2. \A p \in Procs : pc'[p] = "idle"
  BY DEF BatchCrash, Crash
<1>3. keeper' = Nobody /\ inner' = Nobody /\ local' = NoBatch /\ batch' = batch
  BY DEF BatchCrash
<1> QED
  BY <1>1, <1>2, <1>3
  DEF BInv, BatchTypes, StartingInv, KeeperInv, KeepingInv, InnerInv, Starting, Keeping

LEMMA BatchInitInv == BatchInit => BInv
<1> SUFFICES ASSUME BatchInit PROVE BInv
  OBVIOUS
<1>1. IInv /\ \A p \in Procs : pc[p] = "idle"
  BY InitInv DEF BatchInit, Init
<1> QED
  BY <1>1
  DEF BatchInit, BInv, BatchTypes, StartingInv, KeeperInv, KeepingInv, InnerInv, Starting, Keeping

LEMMA BatchNextInv == BInv /\ [BatchNext]_allVars => BInv'
<1> SUFFICES ASSUME BInv, [BatchNext]_allVars PROVE BInv'
  OBVIOUS
<1>1. ASSUME NEW h \in Handlers, OtherRequest(h) PROVE BInv'
  <2>1. Request(h) /\ UNCHANGED bvars
    BY <1>1 DEF OtherRequest, Request
  <2> QED
    BY <2>1, RequestsBeside
<1>2. ASSUME NEW h \in Handlers, ServeHere(h) PROVE BInv'
  BY <1>2, RequestsBeside DEF ServeHere
<1>3. ASSUME NEW p \in Procs, AddLog(p), UNCHANGED bvars PROVE BInv'
  BY <1>3, AddLogKeeps, BesideKeeps DEF AddLog, Beside, BInv
<1>4. ASSUME NEW p \in PRs, HostMerge(p), UNCHANGED bvars PROVE BInv'
  BY <1>4, HostMergeKeeps, BesideKeeps DEF HostMerge, Beside, BInv
<1>5. CASE UNCHANGED allVars
  <2>1. UNCHANGED vars /\ UNCHANGED bvars
    BY <1>5 DEF allVars
  <2>2. IInv'
    BY <2>1, NextInv DEF BInv
  <2> QED
    BY <2>1, <2>2, BesideKeeps DEF vars, Beside
<1> QED
  BY <1>1, <1>2, <1>3, <1>4, <1>5, RunStepsBeside, KeepBatchInv, StartBatchInv, ServeBatchInv,
     BatchCrashInv
  DEF BatchNext

LEMMA BatchInvariance == BatchSpec => []BInv
BY BatchInitInv, BatchNextInv, PTL DEF BatchSpec
(***************************************************************************)
(* What the runs of a batch check.                                         *)
(***************************************************************************)
LEMMA KeepBatchCancels ==
    ASSUME BInv, CancelsTheRightWork, NEW w \in Workers, KeepBatch(w)
    PROVE  CancelsTheRightWork'
<1>1. TypeOK /\ w \in Procs
  BY DEF BInv, IInv, Procs
<1>2. CASE RunMember(w)
  <2>1. pc[w] = "run" /\ Members[local.index] \in Migrations
    BY <1>1, <1>2, MemberFacts DEF RunMember, BInv, KeepingInv, Keeping
  <2>2. PICK v \in Workers :
          /\ pc[v] = "idle"
          /\ pc' = [pc EXCEPT ![v] = "top", ![w] = "advance"]
          /\ job' = [job EXCEPT ![v] = Members[local.index]]
          /\ running' = [running EXCEPT ![Members[local.index]] = v]
    BY <1>2 DEF RunMember
  <2>3. v # w
    BY <2>1, <2>2
  <2> QED
    BY <1>1, <2>1, <2>2, <2>3, Registers DEF TypeOK, Procs
<1>3. CASE InnerEnds(w)
  BY <1>1, <1>3, ExitCancels DEF InnerEnds
<1>4. CASE \E l \in Labels \ {"idle"} : Goto(w, l) /\ UNCHANGED <<job, running>>
  BY <1>1, <1>4, GoesOn, CalmKeeps
<1>5. CASE FirstMemberEnds(w)
  BY <1>4, <1>5 DEF FirstMemberEnds, Labels
<1>6. CASE CheckMember(w)
  BY <1>4, <1>6 DEF CheckMember, Leave, Drop, Labels
<1>7. CASE StepBatch(w)
  BY <1>4, <1>7 DEF StepBatch, Leave, Drop, Labels
<1>8. CASE ReadNext(w)
  BY <1>4, <1>8 DEF ReadNext, Leave, Drop, Labels
<1>9. CASE Launch(w)
  BY <1>4, <1>9 DEF Launch, Drop, Labels
<1>10. CASE MemberPanics(w)
  BY <1>4, <1>10 DEF MemberPanics, Labels
<1> QED
  BY <1>2, <1>3, <1>5, <1>6, <1>7, <1>8, <1>9, <1>10 DEF KeepBatch

LEMMA StartBatchCancels ==
    ASSUME BInv, CancelsTheRightWork, NEW h \in Handlers,
           ServeBatch(h) \/ \E mode \in Modes : StartBatch(h, mode)
    PROVE  CancelsTheRightWork'
<1>1. TypeOK /\ h \in Procs /\ h \notin Workers
  BY ExecutorAssumption DEF BInv, IInv, Procs
<1>2. CASE SpawnKeeper(h)
  <2>1. CASE Answer(h) /\ UNCHANGED running
    BY <1>1, <2>1, RequestMoves, CalmKeeps DEF Answer, Drop
  <2>2. ASSUME NEW w \in Workers, pc[w] = "idle",
               pc' = [pc EXCEPT ![w] = "top", ![h] = "idle"],
               job' = [job EXCEPT ![w] = Members[1], ![h] = Nobody],
               running' = [running EXCEPT ![Members[1]] = w]
        PROVE  CancelsTheRightWork'
    <3>1. w # h /\ w \in Procs
      BY <1>1 DEF Procs
    <3>2. pc'[w] = "top" /\ job'[w] = Members[1]
      BY <1>1, <2>2, <3>1 DEF TypeOK
    <3>3. \A v \in Workers : v # w => pc'[v] = pc[v] /\ job'[v] = job[v]
      BY <1>1, <2>2 DEF TypeOK, Procs
    <3> QED
      BY <1>1, <2>2, <3>2, <3>3, Registers
  <2> QED
    BY <1>2, <2>1, <2>2 DEF SpawnKeeper
<1>3. CASE SaveMember(h) \/ SaveNewBatch(h) \/ \E mode \in Modes : StartBatch(h, mode)
  <2>1. /\ \E l : Goto(h, l)
        /\ (\E j : job' = [job EXCEPT ![h] = j]) \/ UNCHANGED job
        /\ UNCHANGED running
    BY <1>3 DEF SaveMember, SaveNewBatch, StartBatch, Take, Answer, Drop
  <2> QED
    BY <1>1, <2>1, RequestMoves, CalmKeeps
<1> QED
  BY <1>2, <1>3 DEF ServeBatch

LEMMA BatchNextCancels ==
    ASSUME BInv, CancelsTheRightWork, [BatchNext]_allVars
    PROVE  CancelsTheRightWork'
<1>1. TypeOK
  BY DEF BInv, IInv
<1>2. CASE [Next]_vars
  BY <1>1, <1>2, NextCancels
<1>3. ASSUME NEW w \in Workers, RunStepsHere(w) PROVE [Next]_vars
  BY <1>3 DEF RunStepsHere, Next
<1>4. ASSUME NEW h \in Handlers, OtherRequest(h) \/ ServeHere(h) PROVE [Next]_vars
  <2>1. Request(h) \/ Serve(h)
    BY <1>4 DEF OtherRequest, ServeHere, Request
  <2> QED
    BY <2>1 DEF Next
<1>5. CASE (\E p \in Procs : AddLog(p)) \/ (\E p \in PRs : HostMerge(p)) \/ BatchCrash
  BY <1>2, <1>5 DEF BatchCrash, Next
<1>6. CASE UNCHANGED allVars
  BY <1>2, <1>6 DEF allVars
<1> QED
  BY <1>2, <1>3, <1>4, <1>5, <1>6, KeepBatchCancels, StartBatchCancels DEF BatchNext

\* With batches, too, every variable keeps its type, and the run that
\* advanceBatch waits for is that of a member.
THEOREM BatchTypeCorrect == BatchSpec => []BatchTypeOK
<1>1. BInv => BatchTypeOK
  BY DEF BInv, IInv, BatchTypes, InnerInv, BatchTypeOK
<1> QED
  BY <1>1, BatchInvariance, PTL

\* Neither the goroutine of a batch, which saves a member as running whatever
\* it was, nor requests, lost saves and crashes leave a record that makes no
\* sense.
THEOREM BatchRecordsStayCoherent == BatchSpec => []RecordsCoherent
<1>1. BInv => RecordsCoherent
  BY ReadsGood DEF BInv, RecordsCoherent, Good
<1> QED
  BY <1>1, BatchInvariance, PTL

\* Pause, Cancel and Delete of a member stop its own goroutine and no other,
\* while the keeper of the batch and the runs it waits for come and go.
THEOREM BatchCancelFindsItsWork == BatchSpec => []CancelsTheRightWork
<1>1. BatchInit => CancelsTheRightWork
  BY DEF BatchInit, Init, CancelsTheRightWork
<1>2. BInv /\ CancelsTheRightWork /\ [BatchNext]_allVars => CancelsTheRightWork'
  BY BatchNextCancels
<1> QED
  BY <1>1, <1>2, BatchInvariance, PTL DEF BatchSpec
=============================================================================
