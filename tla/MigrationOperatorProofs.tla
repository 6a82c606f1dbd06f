---------------------- MODULE MigrationOperatorProofs ----------------------
(***************************************************************************)
(* Proofs about MigrationExecutor for one operator who waits for the       *)
(* answer of a request before making the next, and who neither pauses,     *)
(* cancels, deletes nor merges from the page: any number of migrations,    *)
(* goroutines, steps and pull requests, crashes at any time.  The runs     *)
(* executor_races and executor_pause show that these hypotheses are needed.*)
(* Then about MigrationBatch, for one operator with batches of any length. *)
(***************************************************************************)
EXTENDS MigrationExecutorProofs, FiniteSetTheorems

OneOperator ==
    /\ \A g, h \in Handlers : g = h
    /\ Calls \subseteq {"start", "continue", "retry", "rollback"}

\* The store keeps what it is given.  A goroutine ignores the error of a save:
\* without this a step is run twice or forgotten.
Steady == "flaky" \notin Faults

(***************************************************************************)
(* The invariant.  A goroutine at work owns the record of its migration,   *)
(* which is running; a request owns the record it works on, which no       *)
(* goroutine drives.  Their copies are the record in the store, but for    *)
(* the pull request just opened.                                           *)
(***************************************************************************)
Settled == {"running", "waiting", "gated", "failed", "completed", "rolled_back"}
Driving(w) == pc[w] \notin {"idle", "exit"}
AtWork == {"top", "begin", "exec", "opened", "pr", "merged", "parked", "reread",
           "already", "judge", "gate", "panic", "recover"}

\* A goroutine may be at l, holding c, while the store has s.
MayDrive(l, c, s) ==
    /\ l \in AtWork
    /\ s \notin {Unborn, Deleted}
    /\ s.status = "running" \/ (l = "already" /\ s.status = "completed" /\ s.cur <= NSteps)
    /\ l \in {"judge", "gate"} => c.status = "running"

\* ... and then, with a steady store, it knows exactly what it does; D, U and F
\* are done, used and failed.
DrivesExactly(id, w, l, c, s, D, U, F) ==
    /\ l \notin {"panic", "recover"}
    /\ l \in Holding \ {"opened"} => c = s
    /\ l = "opened" => c.cur = s.cur /\ \E p \in PRs : c = Opened(s, p)
    /\ l \in InStep \ {"judge"} => Step(c).st = "running"
    /\ l = "merged" => <<id, s.cur>> \in D
    /\ l \in {"reread", "already"} => s.cur <= NSteps
    /\ l \in {"reread", "judge"} /\ w \notin F => Step(s).st = "waiting" \/ <<id, s.cur>> \in D
    /\ l \in {"top", "begin"} /\ w \in U /\ s.mode = "gates" => s.cur > NSteps

\* Where the request stands, by the status of the migration it takes up.
Waits  == {"merge", "accepted", "approved", "declined", "refused"}
Undoes == {"reverting", "rollback"}

\* A request for migration id may be at l, holding c, while the store has s.
MayAct(id, l, c, s, D) ==
    /\ l \in {"create", "spawn", "resume"} \cup Waits \cup Undoes
    /\ IF l = "create"
       THEN s = Unborn /\ \E mode \in Modes : c = NewMigration(mode)
       ELSE s \notin {Unborn, Deleted} /\ (l = "spawn" \/ c = s)
    /\ l = "spawn" => s.status = "running"
    /\ l \in Waits => s.status = "waiting"
    /\ l = "resume" => s.status \in {"gated", "failed"}
    /\ l \in Undoes => s.status = "failed"
    /\ l \in {"accepted", "approved"} => <<id, s.cur>> \in D

\* A step of s that is marked completed was carried out; P is prs.
ReallyDone(id, s, D, P) ==
    \A t \in Steps : s.steps[t].st = "completed" =>
        <<id, t>> \in D \/ (s.steps[t].pr > 0 /\ P[s.steps[t].pr] = "merged")

Undriven(id) == \A w \in Workers : job[w] = id => pc[w] = "exit"

IdleInv    == \A p \in Procs : pc[p] = "idle" => job[p] = Nobody /\ p \notin used
StatusInv  == \A id \in Migrations : Exists(id) => store[id].status \in Settled
DriveInv   == \A w \in Workers : Driving(w) => MayDrive(pc[w], copy[w], store[job[w]])
ApartInv   == \A v, w \in Workers : Driving(v) /\ Driving(w) /\ job[v] = job[w] => v = w
RequestInv == \A h \in Handlers : pc[h] # "idle" =>
                  Undriven(job[h]) /\ MayAct(job[h], pc[h], copy[h], store[job[h]], done)
ExactInv   == \A w \in Workers : Driving(w) =>
                  DrivesExactly(job[w], w, pc[w], copy[w], store[job[w]], done, used, failed)
DoneInv    == \A id \in Migrations : Exists(id) => ReallyDone(id, store[id], done, prs)

OpInv ==
    /\ IdleInv /\ StatusInv /\ DriveInv /\ ApartInv /\ RequestInv
    /\ Steady => ExactInv /\ DoneInv

(***************************************************************************)
(* How the record of a migration changes: the actions of MigrationLifecycle*)
(* seen from the store.                                                    *)
(***************************************************************************)
Stage(s)  == IF s \notin {Unborn, Deleted} THEN s.status ELSE "unborn"
Behind(s) == IF s \notin {Unborn, Deleted} THEN s.cur - 1 ELSE 0

Turn(s, r) ==
    \/ Stage(r) = Stage(s) /\ Behind(r) = Behind(s)
    \/ Stage(s) = "unborn" /\ Stage(r) = "running" /\ Behind(r) = Behind(s)
    \/ Stage(s) = "running" /\ Stage(r) \in {"waiting", "gated", "failed"} /\ Behind(r) = Behind(s)
    \/ Stage(s) = "waiting" /\ Stage(r) = "failed" /\ Behind(r) = Behind(s)
    \/ Stage(s) \in {"gated", "failed"} /\ Stage(r) = "running" /\ Behind(r) = Behind(s)
    \/ Stage(s) = "failed" /\ Stage(r) = "rolled_back" /\ Behind(r) = Behind(s)
    \/ /\ Stage(s) = "running" /\ Stage(r) = "completed"
       /\ Behind(r) = Behind(s) /\ Behind(s) \in {0, NSteps}
    \/ /\ Stage(s) \in {"running", "waiting"} /\ Stage(r) = "running"
       /\ Behind(r) = Behind(s) + 1 /\ Behind(s) < NSteps

\* One migration turns, or none.
StoreTurns ==
    \/ UNCHANGED store
    \/ \E id \in Migrations : \E r \in Record :
          store' = [store EXCEPT ![id] = r] /\ Turn(store[id], r)

Kept == OpInv' /\ (Steady => StoreTurns)

(***************************************************************************)
(* One goroutine moves.                                                    *)
(***************************************************************************)
\* The histories only grow: what was done stays done.
Lasting == done \subseteq done' /\ \A p \in PRs : prs[p] = "merged" => prs'[p] = "merged"

LEMMA DriverStands ==
    ASSUME IInv, OpInv, NEW w \in Workers, Driving(w)
    PROVE  /\ w \in Procs /\ job[w] \in Migrations /\ Exists(job[w])
           /\ store[job[w]] \in Good /\ store[job[w]] \in Record
           /\ Fits(pc[w], copy[w])
           /\ MayDrive(pc[w], copy[w], store[job[w]])
           /\ Steady => DrivesExactly(job[w], w, pc[w], copy[w], store[job[w]], done, used, failed)
           /\ Steady => ReallyDone(job[w], store[job[w]], done, prs)
           /\ store[job[w]].status \in Settled
<1>1. w \in Procs
  BY DEF Procs
<1>2. job[w] \in Migrations /\ Fits(pc[w], copy[w])
  BY <1>1, Standing DEF Driving
<1>3. MayDrive(pc[w], copy[w], store[job[w]])
  BY DEF OpInv, DriveInv
<1>4. Exists(job[w])
  BY <1>3 DEF MayDrive, Exists
<1> QED
  BY <1>1, <1>2, <1>3, <1>4, ReadsGood DEF OpInv, ExactInv, DoneInv, StatusInv

LEMMA DoneLasts ==
    ASSUME NEW id, NEW s, ReallyDone(id, s, done, prs), s \in Record, Lasting
    PROVE  ReallyDone(id, s, done', prs')
<1> SUFFICES ASSUME NEW t \in Steps, s.steps[t].st = "completed", <<id, t>> \notin done'
             PROVE  s.steps[t].pr > 0 /\ prs'[s.steps[t].pr] = "merged"
  BY DEF ReallyDone
<1>1. s.steps[t].pr > 0 /\ prs[s.steps[t].pr] = "merged"
  BY DEF ReallyDone, Lasting
<1>2. s.steps[t].pr \in PRs
  <2>1. s.steps[t] \in StepState
    BY RecordFields
  <2>2. s.steps[t].pr \in 0..MaxPRs
    BY <2>1, StepFields
  <2> QED
    BY <1>1, <2>2, ExecutorAssumption DEF PRs
<1> QED
  BY <1>1, <1>2 DEF Lasting

LEMMA ExactLasts ==
    ASSUME NEW id, NEW w, NEW l, NEW c, NEW s,
           DrivesExactly(id, w, l, c, s, done, used, failed),
           Lasting, w \in used' <=> w \in used, w \in failed' <=> w \in failed
    PROVE  DrivesExactly(id, w, l, c, s, done', used', failed')
BY DEF DrivesExactly, Lasting

LEMMA ActLasts ==
    ASSUME NEW id, NEW l, NEW c, NEW s, MayAct(id, l, c, s, done), Lasting
    PROVE  MayAct(id, l, c, s, done')
BY DEF MayAct, Lasting

\* Goroutine w moves to l, holding c; the record of its migration becomes r.
LEMMA DriverMoves ==
    ASSUME IInv, OpInv, NEW w \in Workers, Driving(w),
           NEW l, l # "idle", NEW c, NEW r \in Record,
           pc' = [pc EXCEPT ![w] = l], copy' = [copy EXCEPT ![w] = c], UNCHANGED job,
           store' = [store EXCEPT ![job[w]] = r],
           Lasting, used' \ {w} = used \ {w}, failed' \ {w} = failed \ {w},
           r.status \in Settled,
           l # "exit" => MayDrive(l, c, r),
           Steady => /\ l # "exit" => DrivesExactly(job[w], w, l, c, r, done', used', failed')
                     /\ ReallyDone(job[w], r, done', prs')
                     /\ Turn(store[job[w]], r)
    PROVE  Kept
<1> DEFINE id == job[w]
<1>1. w \in Procs /\ id \in Migrations /\ Exists(id)
  BY DriverStands
<1>2. /\ pc \in [Procs -> Labels] /\ copy \in [Procs -> Record \cup {Nobody}]
      /\ store \in [Migrations -> Record \cup {Unborn, Deleted}]
      /\ used \subseteq Workers /\ Workers \cap Handlers = {} /\ Handlers \subseteq Procs /\ Workers \subseteq Procs
  BY ExecutorAssumption DEF IInv, TypeOK, Procs
<1>3. /\ pc'[w] = l /\ copy'[w] = c /\ store'[id] = r /\ job' = job
      /\ \A q \in Procs : q # w => pc'[q] = pc[q] /\ copy'[q] = copy[q]
      /\ \A m \in Migrations : m # id => store'[m] = store[m]
  BY <1>1, <1>2
<1>4. r \notin {Unborn, Deleted}
  BY SentinelAssumption
<1>5. IdleInv'
  <2> SUFFICES ASSUME NEW q \in Procs, pc'[q] = "idle" PROVE job'[q] = Nobody /\ q \notin used'
    BY DEF IdleInv
  <2>1. q # w /\ pc[q] = "idle"
    BY <1>3
  <2> QED
    BY <1>3, <2>1 DEF OpInv, IdleInv
<1>6. StatusInv'
  <2> SUFFICES ASSUME NEW m \in Migrations, Exists(m)' PROVE store'[m].status \in Settled
    BY DEF StatusInv
  <2> QED
    BY <1>3 DEF OpInv, StatusInv, Exists
<1>7. ASSUME NEW v \in Workers, Driving(v)', v # w
      PROVE  /\ Driving(v) /\ job[v] \in Migrations /\ job'[v] = job[v] /\ job[v] # id
             /\ pc'[v] = pc[v] /\ copy'[v] = copy[v] /\ store'[job[v]] = store[job[v]]
  <2>1. pc'[v] = pc[v] /\ copy'[v] = copy[v]
    BY <1>2, <1>3, <1>7
  <2>2. Driving(v)
    BY <1>7, <2>1 DEF Driving
  <2>3. job[v] # id /\ job[v] \in Migrations
    BY <1>7, <2>2, DriverStands DEF OpInv, ApartInv
  <2> QED
    BY <1>3, <2>1, <2>2, <2>3
<1>8. DriveInv'
  <2> SUFFICES ASSUME NEW v \in Workers, Driving(v)' PROVE MayDrive(pc'[v], copy'[v], store'[job'[v]])
    BY DEF DriveInv
  <2>1. CASE v = w
    BY <1>3, <2>1 DEF Driving
  <2>2. CASE v # w
    BY <1>7, <2>2 DEF OpInv, DriveInv
  <2> QED
    BY <2>1, <2>2
<1>9. ApartInv'
  <2> SUFFICES ASSUME NEW u \in Workers, NEW v \in Workers, Driving(u)', Driving(v)',
                      job'[u] = job'[v], u # v
               PROVE  FALSE
    BY DEF ApartInv
  <2> QED
    BY <1>3, <1>7 DEF OpInv, ApartInv
<1>10. RequestInv'
  <2> SUFFICES ASSUME NEW h \in Handlers, pc'[h] # "idle"
               PROVE  /\ \A v \in Workers : job'[v] = job'[h] => pc'[v] = "exit"
                      /\ MayAct(job'[h], pc'[h], copy'[h], store'[job'[h]], done')
    BY DEF RequestInv, Undriven
  <2>1. h # w /\ h \in Procs /\ pc'[h] = pc[h] /\ copy'[h] = copy[h] /\ job'[h] = job[h]
    BY <1>2, <1>3
  <2>2. Undriven(job[h]) /\ MayAct(job[h], pc[h], copy[h], store[job[h]], done)
    BY <2>1 DEF OpInv, RequestInv
  <2>3. job[h] \in Migrations
    BY <2>1, Standing
  <2>4. job[h] # id
    BY <2>2 DEF Undriven, Driving
  <2>5. store'[job[h]] = store[job[h]]
    BY <1>3, <2>3, <2>4
  <2>6. \A v \in Workers : job'[v] = job'[h] => pc'[v] = "exit"
    BY <1>2, <1>3, <2>1, <2>2, <2>4 DEF Undriven
  <2> QED
    BY <2>1, <2>2, <2>5, <2>6, ActLasts
<1>11. ASSUME Steady
       PROVE  ExactInv'
  <2> SUFFICES ASSUME NEW v \in Workers, Driving(v)'
               PROVE  DrivesExactly(job'[v], v, pc'[v], copy'[v], store'[job'[v]], done', used', failed')
    BY DEF ExactInv
  <2>1. CASE v = w
    BY <1>3, <1>11, <2>1 DEF Driving
  <2>2. CASE v # w
    <3>1. DrivesExactly(job[v], v, pc[v], copy[v], store[job[v]], done, used, failed)
      BY <1>7, <1>11, <2>2, DriverStands
    <3>2. (v \in used' <=> v \in used) /\ (v \in failed' <=> v \in failed)
      BY <2>2
    <3> QED
      BY <1>7, <2>2, <3>1, <3>2, ExactLasts
  <2> QED
    BY <2>1, <2>2
<1>12. ASSUME Steady
       PROVE  DoneInv'
  <2> SUFFICES ASSUME NEW m \in Migrations, Exists(m)' PROVE ReallyDone(m, store'[m], done', prs')
    BY DEF DoneInv
  <2>1. CASE m = id
    BY <1>3, <1>12, <2>1
  <2>2. CASE m # id
    <3>1. store'[m] = store[m] /\ Exists(m)
      BY <1>3, <2>2 DEF Exists
    <3>2. ReallyDone(m, store[m], done, prs) /\ store[m] \in Record
      BY <1>12, <3>1, ReadsGood DEF OpInv, DoneInv
    <3> QED
      BY <3>1, <3>2, DoneLasts
  <2> QED
    BY <2>1, <2>2
<1>13. Steady => StoreTurns
  BY <1>1 DEF StoreTurns
<1> QED
  BY <1>5, <1>6, <1>8, <1>9, <1>10, <1>11, <1>12, <1>13 DEF Kept, OpInv

(***************************************************************************)
(* What each write does to the status, to CurrentStep and to the steps     *)
(* marked completed: q marks n at most besides those r does.               *)
(***************************************************************************)
Marks(q, r, n) ==
    \A t \in Steps : q.steps[t].st = "completed" =>
        t = n \/ (r.steps[t].st = "completed" /\ q.steps[t].pr = r.steps[t].pr)

LEMMA MarkedDone ==
    ASSUME NEW id, NEW q, NEW r, NEW n, NEW D, NEW P, Marks(q, r, n), ReallyDone(id, r, D, P),
           n \in Steps => <<id, n>> \in D
    PROVE  ReallyDone(id, q, D, P)
BY DEF Marks, ReallyDone

LEMMA ReplacedMarks ==
    ASSUME NEW r \in Record, NEW s \in Steps, NEW x \in StepState
    PROVE  /\ Marks(Replaced(r, s, x), r, s)
           /\ x.st # "completed" => \A n : Marks(Replaced(r, s, x), r, n)
BY ReplacedSteps DEF Marks

LEMMA ReplacedEffect ==
    ASSUME NEW r \in Record, r.cur <= NSteps, NEW x \in StepState, NEW q, q = Replaced(r, r.cur, x)
    PROVE  /\ q \in Record /\ q.status = r.status /\ q.cur = r.cur /\ q.mode = r.mode
           /\ Step(q) = x
           /\ Marks(q, r, r.cur)
           /\ x.st # "completed" => \A n : Marks(q, r, n)
<1>1. r.cur \in Steps
  BY CurrentStep
<1>2. q.steps[r.cur] = x
  BY <1>1, ReplacedSteps
<1>3. q \in Record /\ q.status = r.status /\ q.cur = r.cur /\ q.mode = r.mode
  BY <1>1, ReplacedRecord
<1> QED
  BY <1>1, <1>2, <1>3, ReplacedMarks DEF Step

LEMMA StatusEffect ==
    ASSUME NEW r \in Record, NEW st \in Status
    PROVE  LET q == WithStatus(r, st)
           IN  /\ q \in Record /\ q.status = st /\ q.cur = r.cur /\ q.steps = r.steps
               /\ \A n : Marks(q, r, n)
BY DEF WithStatus, Record, Marks

LEMMA StepEffect ==
    ASSUME NEW r \in Record, r.cur <= NSteps, NEW v \in StepStates
    PROVE  LET q == WithStep(r, v)
           IN  /\ q \in Record /\ q.status = r.status /\ q.cur = r.cur /\ q.mode = r.mode
               /\ Step(q).st = v
               /\ Marks(q, r, r.cur) /\ (v # "completed" => \A n : Marks(q, r, n))
<1> DEFINE x == [r.steps[r.cur] EXCEPT !.st = v]
<1>1. r.cur \in Steps /\ r.steps[r.cur] \in StepState
  BY CurrentStep DEF Step
<1>2. WithStep(r, v) = Replaced(r, r.cur, x)
  BY <1>1 DEF WithStep, Replaced
<1>3. x \in StepState /\ x.st = v
  BY <1>1, StepUpdates
<1> HIDE DEF x
<1> QED
  BY <1>2, <1>3, ReplacedEffect

LEMMA OpenedEffect ==
    ASSUME NEW r \in Record, r.cur <= NSteps, NEW p \in PRs
    PROVE  LET q == Opened(r, p)
           IN  /\ q \in Record /\ q.status = r.status /\ q.cur = r.cur
               /\ Step(q).st = Step(r).st
               /\ Step(r).st # "completed" => \A n : Marks(q, r, n)
<1> DEFINE x == [r.steps[r.cur] EXCEPT !.pr = p]
<1>1. r.cur \in Steps /\ r.steps[r.cur] \in StepState
  BY CurrentStep DEF Step
<1>2. Opened(r, p) = Replaced(r, r.cur, x)
  BY <1>1 DEF Opened, Replaced
<1>3. x \in StepState /\ x.st = Step(r).st
  BY <1>1, NumberUpdates DEF Step
<1> HIDE DEF x
<1> QED
  BY <1>2, <1>3, ReplacedEffect

LEMMA HostEffect ==
    ASSUME NEW r \in Record, r.cur <= NSteps
    PROVE  /\ LET q == Parked(r)
              IN  /\ q \in Record /\ q.status = r.status /\ q.cur = r.cur
                  /\ Step(q).st = "waiting" /\ \A n : Marks(q, r, n)
           /\ LET q == Merged(r)
              IN  /\ q \in Record /\ q.status = r.status /\ q.cur = r.cur
                  /\ Marks(q, r, r.cur)
<1> DEFINE x == [r.steps[r.cur] EXCEPT !.st = "waiting", !.prst = "open"]
<1> DEFINE y == [r.steps[r.cur] EXCEPT !.st = "completed", !.prst = "merged"]
<1>1. r.cur \in Steps /\ r.steps[r.cur] \in StepState
  BY CurrentStep DEF Step
<1>2. Parked(r) = Replaced(r, r.cur, x)
  BY <1>1 DEF Parked, Replaced
<1>3. x \in StepState /\ x.st = "waiting"
  BY <1>1, HostUpdates
<1>4. Merged(r) = Replaced(r, r.cur, y)
  BY <1>1, StepMergedReplaces DEF Merged
<1>5. y \in StepState
  BY <1>1, HostUpdates
<1> HIDE DEF x, y
<1>6. LET q == Parked(r)
      IN  /\ q \in Record /\ q.status = r.status /\ q.cur = r.cur
          /\ Step(q).st = "waiting" /\ \A n : Marks(q, r, n)
  BY <1>2, <1>3, ReplacedEffect
<1>7. LET q == Merged(r)
      IN  q \in Record /\ q.status = r.status /\ q.cur = r.cur /\ Marks(q, r, r.cur)
  BY <1>1, <1>4, <1>5, ReplacedEffect
<1> QED
  BY <1>6, <1>7

LEMMA FailingEffect ==
    ASSUME NEW r \in Record, r.cur <= NSteps
    PROVE  LET q == Failing(r)
           IN  q \in Record /\ q.status = "failed" /\ q.cur = r.cur /\ \A n : Marks(q, r, n)
<1> DEFINE y == WithStep(r, "failed")
<1>1. y \in Record /\ y.cur = r.cur /\ \A n : Marks(y, r, n)
  BY StepEffect DEF StepStates
<1>2. Failing(r) = WithStatus(y, "failed")
  BY DEF Failing
<1> HIDE DEF y
<1>3. WithStatus(y, "failed") \in Record /\ WithStatus(y, "failed").status = "failed"
      /\ WithStatus(y, "failed").cur = y.cur /\ WithStatus(y, "failed").steps = y.steps
  BY <1>1, StatusEffect DEF Status
<1> QED
  BY <1>1, <1>2, <1>3 DEF Marks

LEMMA AdvancedEffect ==
    ASSUME NEW r \in Record, r.cur <= NSteps
    PROVE  LET q == Advanced(r)
           IN  /\ q \in Record /\ q.status = r.status /\ q.cur = r.cur + 1 /\ q.mode = r.mode
               /\ Marks(q, r, r.cur)
<1> DEFINE y == WithStep(r, "completed")
<1> DEFINE n == r.cur + 1
<1>1. y \in Record /\ y.status = r.status /\ y.mode = r.mode /\ Marks(y, r, r.cur)
  BY StepEffect DEF StepStates
<1>2. Advanced(r) = [y EXCEPT !.cur = n]
  BY DEF Advanced
<1>3. n \in 1..(NSteps + 1)
  BY ExecutorAssumption DEF Record
<1>4. /\ [y EXCEPT !.cur = n] \in Record /\ [y EXCEPT !.cur = n].status = y.status
      /\ [y EXCEPT !.cur = n].cur = n /\ [y EXCEPT !.cur = n].mode = y.mode
      /\ [y EXCEPT !.cur = n].steps = y.steps
  <2> HIDE DEF y, n
  <2> QED
    BY <1>1, <1>3 DEF Record
<1> HIDE DEF y
<1> QED
  BY <1>1, <1>2, <1>4 DEF Marks

LEMMA AlreadyEffect ==
    ASSUME NEW r \in Good, r.cur = 1
    PROVE  LET q == AlreadyDone(r)
           IN  q \in Record /\ q.status = "completed" /\ q.cur = 1 /\ Marks(q, r, 1)
<1>1. AlreadyDone(r) \in Record /\ r \in Record
  BY AlreadyDoneGood, GoodRecords
<1>2. AlreadyDone(r).status = "completed" /\ AlreadyDone(r).cur = 1
  BY <1>1 DEF AlreadyDone, Record
<1>3. ASSUME NEW t \in Steps, t # 1
      PROVE  AlreadyDone(r).steps[t].st = "skipped"
  <2>1. r.steps[t] \in StepState
    BY <1>1, RecordFields
  <2>2. AlreadyDone(r).steps[t] = [r.steps[t] EXCEPT !.st = "skipped"]
    BY <1>1, <1>3 DEF AlreadyDone, Record
  <2> QED
    BY <2>1, <2>2, StepUpdates DEF StepStates
<1> QED
  BY <1>1, <1>2, <1>3 DEF Marks

LEMMA ResumedEffect ==
    ASSUME NEW r \in Record, r.status \in {"waiting", "failed"} => r.cur <= NSteps,
           r.status # "waiting" \/ Resumed(r) \in Record
    PROVE  LET q == Resumed(r)
           IN  /\ q \in Record /\ q.status = "running"
               /\ q.cur = IF r.status = "waiting" THEN r.cur + 1 ELSE r.cur
               /\ Marks(q, r, IF r.status = "waiting" THEN r.cur ELSE 0)
<1>1. CASE r.status = "waiting"
  <2> DEFINE y == Merged(r)
  <2> DEFINE z == [y EXCEPT !.cur = r.cur + 1]
  <2>1. y \in Record /\ Marks(y, r, r.cur)
    BY <1>1, HostEffect
  <2>2. Resumed(r) = [z EXCEPT !.status = "running"]
    BY <1>1 DEF Resumed, PastPR, Merged, WithStatus
  <2>3. Resumed(r).status = "running" /\ Resumed(r).cur = r.cur + 1 /\ Resumed(r).steps = y.steps
    <3> HIDE DEF y
    <3> QED
      BY <2>1, <2>2 DEF Record
  <2> HIDE DEF y
  <2> QED
    BY <1>1, <2>1, <2>3 DEF Marks
<1>2. CASE r.status = "failed"
  <2> DEFINE y == WithStep(r, "pending")
  <2>1. y \in Record /\ y.cur = r.cur /\ \A n : Marks(y, r, n)
    BY <1>2, StepEffect DEF StepStates
  <2>2. Resumed(r) = WithStatus(y, "running")
    BY <1>2 DEF Resumed
  <2> HIDE DEF y
  <2>3. /\ WithStatus(y, "running") \in Record /\ WithStatus(y, "running").status = "running"
        /\ WithStatus(y, "running").cur = y.cur /\ WithStatus(y, "running").steps = y.steps
    BY <2>1, StatusEffect DEF Status
  <2> QED
    BY <1>2, <2>1, <2>2, <2>3 DEF Marks
<1>3. CASE r.status \notin {"waiting", "failed"}
  BY <1>3, StatusEffect DEF Resumed, Status
<1> QED
  BY <1>1, <1>2, <1>3

LEMMA StageOf ==
    ASSUME NEW s \in Record
    PROVE  Stage(s) = s.status /\ Behind(s) = s.cur - 1 /\ s \notin {Unborn, Deleted}
BY SentinelAssumption DEF Stage, Behind

LEMMA SameTurn == \A s : Turn(s, s)
BY DEF Turn

\* Goroutine w moves to l, holding c, and writes r to the store if it can.
LEMMA DriverSaves ==
    ASSUME IInv, OpInv, NEW w \in Workers, Driving(w),
           NEW l, l # "idle", NEW c, NEW r \in Record,
           pc' = [pc EXCEPT ![w] = l], copy' = [copy EXCEPT ![w] = c], UNCHANGED job,
           TrySave(job[w], r),
           Lasting, used' \ {w} = used \ {w}, failed' \ {w} = failed \ {w},
           r.status \in Settled,
           l # "exit" => MayDrive(l, c, r) /\ MayDrive(l, c, store[job[w]]),
           Steady => /\ l # "exit" => DrivesExactly(job[w], w, l, c, r, done', used', failed')
                     /\ ReallyDone(job[w], r, done', prs')
                     /\ Turn(store[job[w]], r)
    PROVE  Kept
<1>1. CASE store' = [store EXCEPT ![job[w]] = r]
  BY <1>1, DriverMoves
<1>2. CASE ~Steady /\ UNCHANGED store
  <2>1. store[job[w]] \in Record /\ store[job[w]].status \in Settled
    BY DriverStands
  <2>2. store' = [store EXCEPT ![job[w]] = store[job[w]]]
    BY <1>2 DEF IInv, TypeOK
  <2> QED
    BY <1>2, <2>1, <2>2, DriverMoves
<1> QED
  BY <1>1, <1>2 DEF TrySave, Save, SaveFails, Steady

\* Goroutine w moves to l, holding c, and writes nothing.
LEMMA DriverRests ==
    ASSUME IInv, OpInv, NEW w \in Workers, Driving(w),
           NEW l, l # "idle", NEW c,
           pc' = [pc EXCEPT ![w] = l], copy' = [copy EXCEPT ![w] = c], UNCHANGED <<job, store>>,
           Lasting, used' \ {w} = used \ {w}, failed' \ {w} = failed \ {w},
           l # "exit" => MayDrive(l, c, store[job[w]]),
           Steady /\ l # "exit" => DrivesExactly(job[w], w, l, c, store[job[w]], done', used', failed')
    PROVE  Kept
<1> DEFINE r == store[job[w]]
<1>1. r \in Record /\ r.status \in Settled /\ (Steady => ReallyDone(job[w], r, done, prs))
  BY DriverStands
<1>2. Steady => ReallyDone(job[w], r, done', prs')
  BY <1>1, DoneLasts
<1>3. store' = [store EXCEPT ![job[w]] = r]
  BY DEF IInv, TypeOK
<1>4. Turn(store[job[w]], r)
  BY SameTurn
<1> HIDE DEF r
<1>5. l # "exit" => MayDrive(l, c, r)
  BY DEF r
<1>6. Steady /\ l # "exit" => DrivesExactly(job[w], w, l, c, r, done', used', failed')
  BY DEF r
<1> QED
  BY <1>1, <1>2, <1>3, <1>4, <1>5, <1>6, DriverMoves

\* A write that marks step n, carried out, or none (n = 0).
LEMMA StaysDone ==
    ASSUME NEW id, NEW q, NEW r \in Record, NEW n, Marks(q, r, n), Lasting,
           ReallyDone(id, r, done, prs), n = 0 \/ <<id, n>> \in done'
    PROVE  ReallyDone(id, q, done', prs')
<1>1. 0 \notin Steps
  BY ExecutorAssumption DEF Steps
<1>2. ReallyDone(id, r, done', prs')
  BY DoneLasts
<1> QED
  BY <1>1, <1>2, MarkedDone

\* What a goroutine whose step is under way knows.
LEMMA InStepStands ==
    ASSUME IInv, OpInv, NEW w \in Workers, pc[w] \in KnownRunning \cup InStep
    PROVE  /\ Driving(w) /\ w \in Procs /\ job[w] \in Migrations
           /\ copy[w] \in Good /\ copy[w] \in Record /\ copy[w].status = "running"
           /\ pc[w] \in InStep => copy[w].cur <= NSteps /\ copy[w].cur \in Steps
           /\ store[job[w]] \in Record /\ store[job[w]].status = "running"
           /\ store[job[w]] \notin {Unborn, Deleted}
           /\ Steady => ReallyDone(job[w], store[job[w]], done, prs)
           /\ Steady /\ pc[w] # "opened" => copy[w] = store[job[w]]
<1>1. Driving(w)
  BY DEF Driving, KnownRunning, InStep
<1>2. /\ w \in Procs /\ job[w] \in Migrations /\ store[job[w]] \in Record
      /\ Fits(pc[w], copy[w]) /\ MayDrive(pc[w], copy[w], store[job[w]])
      /\ Steady => ReallyDone(job[w], store[job[w]], done, prs)
  BY <1>1, DriverStands
<1>3. pc[w] # "already"
  BY DEF KnownRunning, InStep
<1>4. /\ copy[w] \in Good /\ copy[w].status = "running"
      /\ pc[w] \in InStep => copy[w].cur <= NSteps
  BY <1>2 DEF Fits, MayDrive, Holding, KnownRunning, InStep
<1>5. copy[w] \in Record
  BY <1>4, GoodRecords
<1>6. Steady /\ pc[w] # "opened" => copy[w] = store[job[w]]
  BY <1>1, DriverStands DEF DrivesExactly, Holding, KnownRunning, InStep
<1> QED
  BY <1>1, <1>2, <1>3, <1>4, <1>5, <1>6, CurrentStep DEF MayDrive

LEMMA FetchKept ==
    ASSUME IInv, OpInv, NEW w \in Workers, Fetch(w)
    PROVE  Kept
<1>1. /\ Driving(w) /\ pc[w] = "top" /\ UNCHANGED <<store, prs, job, done, used, failed>>
      /\ Lasting
  BY DEF Fetch, Driving, Lasting
<1>2. /\ MayDrive("top", copy[w], store[job[w]])
      /\ Steady => DrivesExactly(job[w], w, "top", copy[w], store[job[w]], done, used, failed)
  BY <1>1, DriverStands
<1>3. CASE Hold(w, store[job[w]]) /\ Goto(w, "begin")
  <2>1. MayDrive("begin", store[job[w]], store[job[w]])
    BY <1>2 DEF MayDrive, AtWork
  <2>2. Steady => DrivesExactly(job[w], w, "begin", store[job[w]], store[job[w]], done', used', failed')
    BY <1>1, <1>2 DEF DrivesExactly, InStep
  <2> QED
    BY <1>1, <1>3, <2>1, <2>2, DriverRests DEF Hold, Goto
<1>4. CASE Drop(w, "exit")
  BY <1>1, <1>4, DriverRests DEF Drop, Hold, Goto
<1> QED
  BY <1>3, <1>4 DEF Fetch

LEMMA FinishKept ==
    ASSUME IInv, OpInv, NEW w \in Workers, Finish(w)
    PROVE  Kept
<1> DEFINE r == WithStatus(copy[w], "completed")
<1>1. /\ pc[w] = "begin" /\ UNCHANGED <<prs, job, done, used, failed>> /\ Lasting
      /\ TrySave(job[w], r) /\ copy[w].cur > NSteps
      /\ pc' = [pc EXCEPT ![w] = "exit"] /\ copy' = [copy EXCEPT ![w] = Nobody]
  BY DEF Finish, Lasting, Drop, Hold, Goto
<1>2. /\ Driving(w) /\ copy[w] \in Record /\ store[job[w]] \in Record
      /\ store[job[w]].status = "running"
      /\ Steady => ReallyDone(job[w], store[job[w]], done, prs)
  BY <1>1, InStepStands DEF KnownRunning
<1>3. Steady => copy[w] = store[job[w]]
  BY <1>1, InStepStands DEF KnownRunning
<1>4. r \in Record /\ r.status = "completed" /\ r.cur = copy[w].cur /\ Marks(r, copy[w], 0)
  BY <1>2, StatusEffect DEF Status
<1> HIDE DEF r
<1>5. ASSUME Steady
      PROVE  ReallyDone(job[w], r, done', prs') /\ Turn(store[job[w]], r)
  <2>1. ReallyDone(job[w], r, done', prs')
    BY <1>1, <1>2, <1>3, <1>4, <1>5, StaysDone
  <2>2. copy[w].cur - 1 = NSteps
    BY <1>1, <1>2, ExecutorAssumption DEF Record
  <2> QED
    BY <1>1, <1>2, <1>3, <1>4, <1>5, <2>1, <2>2, StageOf DEF Turn
<1> QED
  BY <1>1, <1>2, <1>4, <1>5, DriverSaves DEF Settled

LEMMA BeginKept ==
    ASSUME IInv, OpInv, NEW w \in Workers, Begin(w)
    PROVE  Kept
<1> DEFINE r == WithStep(copy[w], "running")
<1>1. /\ pc[w] = "begin" /\ UNCHANGED <<prs, job, done, failed>> /\ Lasting
      /\ TrySave(job[w], r) /\ copy[w].cur <= NSteps /\ used' = used \cup {w}
      /\ pc' = [pc EXCEPT ![w] = "exec"] /\ copy' = [copy EXCEPT ![w] = r]
  BY DEF Begin, Lasting, Hold, Goto
<1>2. /\ Driving(w) /\ copy[w] \in Record /\ copy[w].status = "running"
      /\ store[job[w]] \in Record /\ store[job[w]].status = "running"
      /\ Steady => copy[w] = store[job[w]] /\ ReallyDone(job[w], store[job[w]], done, prs)
  BY <1>1, InStepStands DEF KnownRunning
<1>3. /\ r \in Record /\ r.status = copy[w].status /\ r.cur = copy[w].cur
      /\ Step(r).st = "running" /\ Marks(r, copy[w], 0)
  BY <1>1, <1>2, StepEffect DEF StepStates
<1> HIDE DEF r
<1>4. MayDrive("exec", r, r) /\ MayDrive("exec", r, store[job[w]])
  BY <1>2, <1>3, StageOf DEF MayDrive, AtWork
<1>5. ASSUME Steady
      PROVE  /\ DrivesExactly(job[w], w, "exec", r, r, done', used', failed')
             /\ ReallyDone(job[w], r, done', prs') /\ Turn(store[job[w]], r)
  <2>1. ReallyDone(job[w], r, done', prs')
    BY <1>1, <1>2, <1>3, <1>5, StaysDone
  <2>2. DrivesExactly(job[w], w, "exec", r, r, done', used', failed')
    BY <1>3 DEF DrivesExactly, InStep
  <2> QED
    BY <1>2, <1>3, <1>5, <2>1, <2>2, StageOf DEF Turn
<1> QED
  BY <1>1, <1>2, <1>3, <1>4, <1>5, DriverSaves DEF Settled

LEMMA StepSucceedsKept ==
    ASSUME IInv, OpInv, NEW w \in Workers, StepSucceeds(w)
    PROVE  Kept
<1> DEFINE r == copy[w]
<1>1. /\ pc[w] = "exec" /\ UNCHANGED <<prs, job, used, failed>> /\ Lasting
      /\ TrySave(job[w], r) /\ <<job[w], r.cur>> \in done'
      /\ pc' = [pc EXCEPT ![w] = "reread"] /\ copy' = [copy EXCEPT ![w] = Nobody]
  BY DEF StepSucceeds, Lasting, Drop, Hold, Goto
<1>2. /\ Driving(w) /\ r \in Record /\ r.status = "running" /\ r.cur <= NSteps
      /\ store[job[w]] \in Record /\ store[job[w]].status = "running"
      /\ Steady => r = store[job[w]] /\ ReallyDone(job[w], store[job[w]], done, prs)
  BY <1>1, InStepStands DEF KnownRunning, InStep
<1> HIDE DEF r
<1>3. MayDrive("reread", Nobody, r) /\ MayDrive("reread", Nobody, store[job[w]])
  BY <1>2, StageOf DEF MayDrive, AtWork
<1>4. Steady => DrivesExactly(job[w], w, "reread", Nobody, r, done', used', failed')
  BY <1>1, <1>2 DEF DrivesExactly, Holding, InStep
<1>5. Steady => ReallyDone(job[w], r, done', prs') /\ Turn(store[job[w]], r)
  BY <1>1, <1>2, DoneLasts, SameTurn
<1> QED
  BY <1>1, <1>2, <1>3, <1>4, <1>5, DriverSaves DEF Settled

LEMMA StepFailsKept ==
    ASSUME IInv, OpInv, NEW w \in Workers, StepFails(w)
    PROVE  Kept
<1>1. /\ pc[w] = "exec" /\ UNCHANGED <<store, prs, job, done, used>> /\ Lasting
      /\ failed' = failed \cup {w}
      /\ pc' = [pc EXCEPT ![w] = "reread"] /\ copy' = [copy EXCEPT ![w] = Nobody]
  BY DEF StepFails, Lasting, Drop, Hold, Goto
<1>2. /\ Driving(w) /\ copy[w].cur <= NSteps
      /\ store[job[w]] \in Record /\ store[job[w]].status = "running"
      /\ Steady => copy[w] = store[job[w]]
  BY <1>1, InStepStands DEF KnownRunning, InStep
<1>3. MayDrive("reread", Nobody, store[job[w]])
  BY <1>2, StageOf DEF MayDrive, AtWork
<1>4. Steady => DrivesExactly(job[w], w, "reread", Nobody, store[job[w]], done', used', failed')
  BY <1>1, <1>2 DEF DrivesExactly, Holding, InStep
<1> QED
  BY <1>1, <1>2, <1>3, <1>4, DriverRests

LEMMA AlreadyMigratedKept ==
    ASSUME IInv, OpInv, NEW w \in Workers, AlreadyMigrated(w)
    PROVE  Kept
<1> DEFINE r == AlreadyDone(copy[w])
<1>1. /\ pc[w] = "exec" /\ UNCHANGED <<prs, job, used, failed>> /\ Lasting
      /\ TrySave(job[w], r) /\ copy[w].cur = 1 /\ <<job[w], 1>> \in done'
      /\ pc' = [pc EXCEPT ![w] = "already"] /\ copy' = [copy EXCEPT ![w] = Nobody]
  BY DEF AlreadyMigrated, Lasting, Drop, Hold, Goto
<1>2. /\ Driving(w) /\ copy[w] \in Good /\ copy[w] \in Record
      /\ store[job[w]] \in Record /\ store[job[w]].status = "running"
      /\ Steady => copy[w] = store[job[w]] /\ ReallyDone(job[w], store[job[w]], done, prs)
  BY <1>1, InStepStands DEF KnownRunning, InStep
<1>3. r \in Record /\ r.status = "completed" /\ r.cur = 1 /\ Marks(r, copy[w], 1) /\ 1 <= NSteps
  BY <1>1, <1>2, AlreadyEffect, ExecutorAssumption
<1> HIDE DEF r
<1>4. MayDrive("already", Nobody, r) /\ MayDrive("already", Nobody, store[job[w]])
  BY <1>2, <1>3, StageOf DEF MayDrive, AtWork
<1>5. ASSUME Steady
      PROVE  /\ DrivesExactly(job[w], w, "already", Nobody, r, done', used', failed')
             /\ ReallyDone(job[w], r, done', prs') /\ Turn(store[job[w]], r)
  <2>1. ReallyDone(job[w], r, done', prs')
    BY <1>1, <1>2, <1>3, <1>5, StaysDone
  <2>2. DrivesExactly(job[w], w, "already", Nobody, r, done', used', failed')
    BY <1>3 DEF DrivesExactly, Holding, InStep
  <2> QED
    BY <1>1, <1>2, <1>3, <1>5, <2>1, <2>2, StageOf DEF Turn
<1> QED
  BY <1>1, <1>2, <1>3, <1>4, <1>5, DriverSaves DEF Settled

LEMMA OpenPRKept ==
    ASSUME IInv, OpInv, NEW w \in Workers, OpenPR(w)
    PROVE  Kept
<1>1. pc[w] = "exec" /\ UNCHANGED <<store, job, done, used, failed>>
  BY DEF OpenPR
<1>2. PICK p \in PRs : /\ prs[p] = "none" /\ prs' = [prs EXCEPT ![p] = "open"]
                       /\ copy' = [copy EXCEPT ![w] = Opened(copy[w], p)]
                       /\ pc' = [pc EXCEPT ![w] = "opened"]
  BY DEF OpenPR, Hold, Goto
<1>3. Lasting
  BY <1>1, <1>2 DEF Lasting, IInv, TypeOK
<1>4. /\ Driving(w) /\ copy[w] \in Record /\ copy[w].cur <= NSteps
      /\ store[job[w]] \in Record /\ store[job[w]].status = "running"
      /\ Steady => copy[w] = store[job[w]]
      /\ Steady => Step(copy[w]).st = "running"
  BY <1>1, InStepStands, DriverStands DEF KnownRunning, InStep, DrivesExactly
<1> DEFINE c == Opened(copy[w], p)
<1>5. c.cur = copy[w].cur /\ Step(c).st = Step(copy[w]).st
  BY <1>4, OpenedEffect
<1>6. MayDrive("opened", c, store[job[w]])
  BY <1>4, StageOf DEF MayDrive, AtWork
<1>7. Steady => c = Opened(store[job[w]], p)
  BY <1>4
<1> HIDE DEF c
<1>8. Steady => DrivesExactly(job[w], w, "opened", c, store[job[w]], done', used', failed')
  BY <1>4, <1>5, <1>7 DEF DrivesExactly, InStep
<1>9. copy' = [copy EXCEPT ![w] = c]
  BY <1>2 DEF c
<1> QED
  BY <1>1, <1>2, <1>3, <1>4, <1>6, <1>8, <1>9, DriverRests

LEMMA DriverLogKept ==
    ASSUME IInv, OpInv, NEW w \in Workers, LogFirst(w)
    PROVE  Kept
<1> DEFINE r == copy[w]
<1>0. pc[w] \in DOMAIN FirstLog /\ Driving(w)
  BY DEF LogFirst, FirstLog, Driving
<1>1. pc[w] = "opened" /\ UNCHANGED <<prs, job, done, used, failed>> /\ Lasting /\ TrySave(job[w], r)
  BY <1>0, DriverStands DEF LogFirst, Lasting, FirstLog, MayDrive, AtWork
<1>2. pc' = [pc EXCEPT ![w] = "pr"] /\ copy' = [copy EXCEPT ![w] = r]
  <2>1. FirstLog["opened"] = "pr"
    BY DEF FirstLog
  <2>2. w \in Procs /\ UNCHANGED copy
    BY DEF LogFirst, Procs
  <2> QED
    BY <1>1, <2>1, <2>2, Standing DEF LogFirst, Goto
<1>3. /\ Driving(w) /\ r \in Record /\ r.status = "running" /\ r.cur <= NSteps
      /\ store[job[w]] \in Record /\ store[job[w]].status = "running"
      /\ Steady => ReallyDone(job[w], store[job[w]], done, prs)
  BY <1>1, InStepStands DEF KnownRunning, InStep
<1>4. MayDrive("pr", r, r) /\ MayDrive("pr", r, store[job[w]])
  BY <1>3, StageOf DEF MayDrive, AtWork
<1>5. ASSUME Steady
      PROVE  /\ DrivesExactly(job[w], w, "pr", r, r, done', used', failed')
             /\ ReallyDone(job[w], r, done', prs') /\ Turn(store[job[w]], r)
  <2>1. DrivesExactly(job[w], w, "opened", r, store[job[w]], done, used, failed)
    BY <1>1, <1>3, <1>5, DriverStands
  <2>2. Step(r).st = "running" /\ r.cur = store[job[w]].cur
    BY <2>1 DEF DrivesExactly, InStep
  <2>3. PICK p \in PRs : r = Opened(store[job[w]], p)
    BY <2>1 DEF DrivesExactly
  <2>4. Step(r).st = Step(store[job[w]]).st
    BY <1>3, <2>2, <2>3, OpenedEffect
  <2>5. Marks(r, store[job[w]], 0)
    BY <1>3, <2>2, <2>3, <2>4, OpenedEffect
  <2>6. ReallyDone(job[w], r, done', prs')
    BY <1>1, <1>3, <1>5, <2>5, StaysDone
  <2>7. DrivesExactly(job[w], w, "pr", r, r, done', used', failed')
    BY <2>2 DEF DrivesExactly, InStep
  <2> QED
    BY <1>3, <2>2, <2>6, <2>7, StageOf DEF Turn
<1> HIDE DEF r
<1> QED
  BY <1>1, <1>2, <1>3, <1>4, <1>5, DriverSaves DEF Settled

LEMMA AutoMergeKept ==
    ASSUME IInv, OpInv, NEW w \in Workers, AutoMerge(w)
    PROVE  Kept
<1>1. pc[w] = "pr" /\ UNCHANGED <<store, copy, job, used, failed>> /\ Lasting
  BY DEF AutoMerge, Lasting, IInv, TypeOK
<1>2. PICK l \in {"merged", "parked"} :
         /\ pc' = [pc EXCEPT ![w] = l]
         /\ l = "merged" => <<job[w], copy[w].cur>> \in done'
  BY DEF AutoMerge, Goto
<1>3. /\ Driving(w) /\ w \in Procs /\ copy[w].cur <= NSteps
      /\ store[job[w]] \in Record /\ store[job[w]].status = "running"
      /\ Steady => copy[w] = store[job[w]]
      /\ Steady => Step(copy[w]).st = "running"
  BY <1>1, InStepStands, DriverStands DEF KnownRunning, InStep, DrivesExactly
<1>4. copy' = [copy EXCEPT ![w] = copy[w]]
  BY <1>1, <1>3, Standing
<1>5. MayDrive(l, copy[w], store[job[w]])
  BY <1>3, StageOf DEF MayDrive, AtWork
<1>6. Steady => DrivesExactly(job[w], w, l, copy[w], store[job[w]], done', used', failed')
  BY <1>2, <1>3 DEF DrivesExactly, InStep
<1> QED
  BY <1>1, <1>2, <1>3, <1>4, <1>5, <1>6, DriverRests

LEMMA SaveMergedKept ==
    ASSUME IInv, OpInv, NEW w \in Workers, SaveMerged(w)
    PROVE  Kept
<1> DEFINE r == Merged(copy[w])
<1>1. /\ pc[w] = "merged" /\ UNCHANGED <<prs, job, done, used, failed>> /\ Lasting
      /\ TrySave(job[w], r)
      /\ pc' = [pc EXCEPT ![w] = "reread"] /\ copy' = [copy EXCEPT ![w] = Nobody]
  BY DEF SaveMerged, Lasting, Drop, Hold, Goto
<1>2. /\ Driving(w) /\ copy[w] \in Record /\ copy[w].status = "running" /\ copy[w].cur <= NSteps
      /\ store[job[w]] \in Record /\ store[job[w]].status = "running"
      /\ Steady => copy[w] = store[job[w]] /\ ReallyDone(job[w], store[job[w]], done, prs)
  BY <1>1, InStepStands DEF KnownRunning, InStep
<1>3. r \in Record /\ r.status = "running" /\ r.cur = copy[w].cur /\ Marks(r, copy[w], copy[w].cur)
  BY <1>2, HostEffect
<1> HIDE DEF r
<1>4. MayDrive("reread", Nobody, r) /\ MayDrive("reread", Nobody, store[job[w]])
  BY <1>2, <1>3, StageOf DEF MayDrive, AtWork
<1>5. ASSUME Steady
      PROVE  /\ DrivesExactly(job[w], w, "reread", Nobody, r, done', used', failed')
             /\ ReallyDone(job[w], r, done', prs') /\ Turn(store[job[w]], r)
  <2>1. <<job[w], copy[w].cur>> \in done'
    BY <1>1, <1>2, <1>5, DriverStands DEF DrivesExactly
  <2>2. ReallyDone(job[w], r, done', prs')
    BY <1>1, <1>2, <1>3, <1>5, <2>1, StaysDone
  <2>3. DrivesExactly(job[w], w, "reread", Nobody, r, done', used', failed')
    BY <1>2, <1>3, <2>1 DEF DrivesExactly, Holding, InStep
  <2> QED
    BY <1>2, <1>3, <1>5, <2>2, <2>3, StageOf DEF Turn
<1> QED
  BY <1>1, <1>2, <1>3, <1>4, <1>5, DriverSaves DEF Settled

LEMMA SaveParkedKept ==
    ASSUME IInv, OpInv, NEW w \in Workers, SaveParked(w)
    PROVE  Kept
<1> DEFINE r == Parked(copy[w])
<1>1. /\ pc[w] \in {"pr", "parked"} /\ UNCHANGED <<prs, job, done, used, failed>> /\ Lasting
      /\ TrySave(job[w], r)
      /\ pc' = [pc EXCEPT ![w] = "reread"] /\ copy' = [copy EXCEPT ![w] = Nobody]
  BY DEF SaveParked, Lasting, Drop, Hold, Goto
<1>2. /\ Driving(w) /\ copy[w] \in Record /\ copy[w].status = "running" /\ copy[w].cur <= NSteps
      /\ store[job[w]] \in Record /\ store[job[w]].status = "running"
      /\ Steady => copy[w] = store[job[w]] /\ ReallyDone(job[w], store[job[w]], done, prs)
  BY <1>1, InStepStands DEF KnownRunning, InStep
<1>3. /\ r \in Record /\ r.status = "running" /\ r.cur = copy[w].cur
      /\ Step(r).st = "waiting" /\ Marks(r, copy[w], 0)
  BY <1>2, HostEffect
<1> HIDE DEF r
<1>4. MayDrive("reread", Nobody, r) /\ MayDrive("reread", Nobody, store[job[w]])
  BY <1>2, <1>3, StageOf DEF MayDrive, AtWork
<1>5. ASSUME Steady
      PROVE  /\ DrivesExactly(job[w], w, "reread", Nobody, r, done', used', failed')
             /\ ReallyDone(job[w], r, done', prs') /\ Turn(store[job[w]], r)
  <2>1. ReallyDone(job[w], r, done', prs')
    BY <1>1, <1>2, <1>3, <1>5, StaysDone
  <2>2. DrivesExactly(job[w], w, "reread", Nobody, r, done', used', failed')
    BY <1>2, <1>3 DEF DrivesExactly, Holding, InStep
  <2> QED
    BY <1>2, <1>3, <1>5, <2>1, <2>2, StageOf DEF Turn
<1> QED
  BY <1>1, <1>2, <1>3, <1>4, <1>5, DriverSaves DEF Settled

LEMMA RereadKept ==
    ASSUME IInv, OpInv, NEW w \in Workers, Reread(w)
    PROVE  Kept
<1> DEFINE s == store[job[w]]
<1>1. /\ pc[w] \in {"reread", "already"} /\ UNCHANGED <<store, prs, job, done, used, failed>>
      /\ Lasting
  BY DEF Reread, Lasting
<1>2. /\ Driving(w) /\ s \in Record /\ MayDrive(pc[w], copy[w], s)
      /\ Steady => DrivesExactly(job[w], w, pc[w], copy[w], s, done, used, failed)
  <2>1. Driving(w)
    BY <1>1 DEF Driving
  <2> QED
    BY <2>1, DriverStands
<1>3. CASE s.cur > NSteps /\ Drop(w, "panic")
  <2>1. MayDrive("panic", Nobody, s)
    BY <1>1, <1>2, <1>3, ExecutorAssumption DEF MayDrive, AtWork, Record
  <2>2. ~Steady
    BY <1>1, <1>2, <1>3, ExecutorAssumption DEF DrivesExactly, Record
  <2> QED
    BY <1>1, <1>2, <1>3, <2>1, <2>2, DriverRests DEF Drop, Hold, Goto
<1>4. CASE s.cur <= NSteps /\ pc[w] = "reread" /\ Hold(w, s) /\ Goto(w, "judge")
  <2>1. MayDrive("judge", s, s)
    BY <1>2, <1>4 DEF MayDrive, AtWork
  <2>2. Steady => DrivesExactly(job[w], w, "judge", s, s, done', used', failed')
    BY <1>1, <1>2, <1>4 DEF DrivesExactly, InStep
  <2> QED
    BY <1>1, <1>2, <1>4, <2>1, <2>2, DriverRests DEF Hold, Goto
<1>5. CASE Drop(w, "exit")
  BY <1>1, <1>2, <1>5, DriverRests DEF Drop, Hold, Goto
<1> QED
  BY <1>1, <1>3, <1>4, <1>5 DEF Reread

LEMMA FailKept ==
    ASSUME IInv, OpInv, NEW w \in Workers, Fail(w)
    PROVE  Kept
<1> DEFINE r == Failing(copy[w])
<1>1. /\ pc[w] = "judge" /\ UNCHANGED <<prs, job, done, used, failed>> /\ Lasting
      /\ TrySave(job[w], r)
      /\ pc' = [pc EXCEPT ![w] = "exit"] /\ copy' = [copy EXCEPT ![w] = Nobody]
  BY DEF Fail, Lasting, Drop, Hold, Goto
<1>2. /\ Driving(w) /\ copy[w] \in Record /\ copy[w].cur <= NSteps
      /\ store[job[w]] \in Record /\ store[job[w]].status = "running"
      /\ Steady => copy[w] = store[job[w]] /\ ReallyDone(job[w], store[job[w]], done, prs)
  BY <1>1, InStepStands DEF KnownRunning, InStep
<1>3. r \in Record /\ r.status = "failed" /\ r.cur = copy[w].cur /\ Marks(r, copy[w], 0)
  BY <1>2, FailingEffect
<1> HIDE DEF r
<1>4. ASSUME Steady
      PROVE  ReallyDone(job[w], r, done', prs') /\ Turn(store[job[w]], r)
  <2>1. ReallyDone(job[w], r, done', prs')
    BY <1>1, <1>2, <1>3, <1>4, StaysDone
  <2> QED
    BY <1>2, <1>3, <1>4, <2>1, StageOf DEF Turn
<1> QED
  BY <1>1, <1>2, <1>3, <1>4, DriverSaves DEF Settled

\* Where the goroutine ends, writing another status.
LEMMA LeavesKept ==
    ASSUME IInv, OpInv, NEW w \in Workers, pc[w] \in {"judge", "gate"}, NEW st \in {"waiting", "gated"},
           TrySave(job[w], WithStatus(copy[w], st)), Drop(w, "exit"),
           UNCHANGED <<prs, job, done, used, failed>>
    PROVE  Kept
<1> DEFINE r == WithStatus(copy[w], st)
<1>1. /\ Lasting /\ TrySave(job[w], r) /\ Driving(w)
      /\ pc' = [pc EXCEPT ![w] = "exit"] /\ copy' = [copy EXCEPT ![w] = Nobody]
  BY DEF Lasting, Drop, Hold, Goto, Driving
<1>2. /\ copy[w] \in Record /\ store[job[w]] \in Record /\ store[job[w]].status = "running"
      /\ Steady => copy[w] = store[job[w]] /\ ReallyDone(job[w], store[job[w]], done, prs)
  BY <1>1, DriverStands, GoodRecords DEF MayDrive, DrivesExactly, Fits, Holding
<1>3. r \in Record /\ r.status = st /\ r.cur = copy[w].cur /\ Marks(r, copy[w], 0)
  BY <1>2, StatusEffect DEF Status
<1> HIDE DEF r
<1>4. ASSUME Steady
      PROVE  ReallyDone(job[w], r, done', prs') /\ Turn(store[job[w]], r)
  <2>1. ReallyDone(job[w], r, done', prs')
    BY <1>1, <1>2, <1>3, <1>4, StaysDone
  <2> QED
    BY <1>2, <1>3, <1>4, <2>1, StageOf DEF Turn
<1> QED
  BY <1>1, <1>2, <1>3, <1>4, DriverSaves DEF Settled

LEMMA AdvanceKept ==
    ASSUME IInv, OpInv, NEW w \in Workers, Advance(w)
    PROVE  Kept
<1> DEFINE r == Advanced(copy[w])
<1>1. /\ pc[w] = "judge" /\ UNCHANGED <<prs, job, done, used, failed>> /\ Lasting
      /\ TrySave(job[w], r) /\ w \notin failed /\ Step(copy[w]).st # "waiting"
  BY DEF Advance, Lasting
<1>2. /\ Driving(w) /\ copy[w] \in Record /\ copy[w].status = "running"
      /\ copy[w].cur <= NSteps /\ copy[w].cur \in Steps
      /\ store[job[w]] \in Record /\ store[job[w]].status = "running"
      /\ Steady => copy[w] = store[job[w]] /\ ReallyDone(job[w], store[job[w]], done, prs)
  BY <1>1, InStepStands DEF KnownRunning, InStep
<1>3. /\ r \in Record /\ r.status = "running" /\ r.cur = copy[w].cur + 1 /\ r.mode = copy[w].mode
      /\ Marks(r, copy[w], copy[w].cur)
  BY <1>2, AdvancedEffect
<1>4. \/ Hold(w, r) /\ Goto(w, "gate")
      \/ Drop(w, "top") /\ (r.mode = "gates" => r.cur > NSteps)
  BY <1>2, <1>3, ExecutorAssumption DEF Advance, Steps
<1> HIDE DEF r
<1>5. ASSUME Steady
      PROVE  ReallyDone(job[w], r, done', prs') /\ Turn(store[job[w]], r)
  <2>1. <<job[w], copy[w].cur>> \in done'
    BY <1>1, <1>2, <1>5, DriverStands DEF DrivesExactly
  <2>2. ReallyDone(job[w], r, done', prs')
    BY <1>1, <1>2, <1>3, <1>5, <2>1, StaysDone
  <2>3. /\ Behind(r) = Behind(store[job[w]]) + 1 /\ Behind(store[job[w]]) < NSteps
        /\ Stage(r) = "running" /\ Stage(store[job[w]]) = "running"
    BY <1>2, <1>3, <1>5, StageOf, ExecutorAssumption DEF Steps
  <2> QED
    BY <2>2, <2>3 DEF Turn
<1>6. CASE Hold(w, r) /\ Goto(w, "gate")
  <2>1. MayDrive("gate", r, r) /\ MayDrive("gate", r, store[job[w]])
    BY <1>2, <1>3, StageOf DEF MayDrive, AtWork
  <2>2. Steady => DrivesExactly(job[w], w, "gate", r, r, done', used', failed')
    BY DEF DrivesExactly, InStep
  <2>3. pc' = [pc EXCEPT ![w] = "gate"] /\ copy' = [copy EXCEPT ![w] = r]
    BY <1>6 DEF Hold, Goto
  <2> QED
    BY <1>1, <1>2, <1>3, <1>5, <2>1, <2>2, <2>3, DriverSaves DEF Settled
<1>7. CASE Drop(w, "top") /\ (r.mode = "gates" => r.cur > NSteps)
  <2>1. MayDrive("top", Nobody, r) /\ MayDrive("top", Nobody, store[job[w]])
    BY <1>2, <1>3, StageOf DEF MayDrive, AtWork
  <2>2. Steady => DrivesExactly(job[w], w, "top", Nobody, r, done', used', failed')
    BY <1>7 DEF DrivesExactly, Holding, InStep
  <2>3. pc' = [pc EXCEPT ![w] = "top"] /\ copy' = [copy EXCEPT ![w] = Nobody]
    BY <1>7 DEF Drop, Hold, Goto
  <2> QED
    BY <1>1, <1>2, <1>3, <1>5, <2>1, <2>2, <2>3, DriverSaves DEF Settled
<1> QED
  BY <1>4, <1>6, <1>7

\* With a steady store nothing panics.
LEMMA RecoverKept ==
    ASSUME IInv, OpInv, NEW w \in Workers, RecoverRead(w) \/ RecoverSave(w)
    PROVE  Kept
<1> DEFINE s == store[job[w]]
<1>1. /\ pc[w] \in {"panic", "recover"} /\ Driving(w)
      /\ UNCHANGED <<prs, job, done, used, failed>> /\ Lasting
  BY DEF RecoverRead, RecoverSave, Lasting, Driving
<1>2. /\ s \in Record /\ MayDrive(pc[w], copy[w], s) /\ Fits(pc[w], copy[w])
      /\ ~Steady
  BY <1>1, DriverStands DEF DrivesExactly
<1>3. CASE UNCHANGED store /\ Hold(w, s) /\ Goto(w, "recover")
  <2>1. MayDrive("recover", s, s)
    BY <1>1, <1>2 DEF MayDrive, AtWork
  <2> QED
    BY <1>1, <1>2, <1>3, <2>1, DriverRests DEF Hold, Goto
<1>4. CASE UNCHANGED store /\ Drop(w, "exit")
  BY <1>1, <1>2, <1>4, DriverRests DEF Drop, Hold, Goto
<1>5. CASE RecoverSave(w)
  <2> DEFINE r == WithStatus(copy[w], "failed")
  <2>1. TrySave(job[w], r) /\ Drop(w, "exit") /\ pc[w] = "recover"
    BY <1>5 DEF RecoverSave
  <2>2. copy[w] \in Record
    BY <1>2, <2>1, GoodRecords DEF Fits, Holding
  <2>3. r \in Record /\ r.status = "failed"
    BY <2>2, StatusEffect DEF Status
  <2> HIDE DEF r
  <2> QED
    BY <1>1, <1>2, <2>1, <2>3, DriverSaves DEF Drop, Hold, Goto, Settled
<1> QED
  BY <1>3, <1>4, <1>5 DEF RecoverRead

LEMMA DriverAddLogKept ==
    ASSUME IInv, OpInv, NEW w \in Workers, AddLog(w)
    PROVE  Kept
<1>1. /\ pc[w] \in Logging /\ Driving(w) /\ UNCHANGED <<pc, prs, job, copy, done, used, failed>>
      /\ Lasting /\ TrySave(job[w], copy[w])
  BY DEF AddLog, Logging, Driving, Lasting, TrySave
<1>2. pc[w] \in {"exec", "pr", "merged", "parked", "judge"}
  BY <1>1, DriverStands DEF Logging, MayDrive, AtWork
<1> DEFINE r == copy[w]
<1> DEFINE l == pc[w]
<1>3. /\ w \in Procs /\ r \in Record /\ r.status = "running"
      /\ Steady => r = store[job[w]] /\ ReallyDone(job[w], store[job[w]], done, prs)
  BY <1>2, InStepStands DEF KnownRunning, InStep
<1>4. pc' = [pc EXCEPT ![w] = l] /\ copy' = [copy EXCEPT ![w] = r] /\ l \notin {"idle", "exit"}
  BY <1>1, <1>2, <1>3, Standing
<1>5. MayDrive(l, r, store[job[w]])
  BY <1>1, DriverStands
<1>6. Steady => DrivesExactly(job[w], w, l, r, r, done', used', failed')
  BY <1>1, <1>3, DriverStands
<1>7. Steady => ReallyDone(job[w], r, done', prs') /\ Turn(store[job[w]], r)
  BY <1>1, <1>3, SameTurn
<1> HIDE DEF l, r
<1>8. MayDrive(l, r, r)
  BY <1>3, <1>5, StageOf DEF MayDrive
<1>9. TrySave(job[w], r)
  BY <1>1 DEF r
<1> QED
  BY <1>1, <1>3, <1>4, <1>5, <1>6, <1>7, <1>8, <1>9, DriverSaves DEF Settled

LEMMA ExitKept ==
    ASSUME IInv, OpInv, NEW w \in Workers, Exit(w)
    PROVE  Kept
<1>1. /\ pc[w] = "exit" /\ UNCHANGED <<store, prs, done>> /\ Lasting
      /\ used' = used \ {w} /\ failed' = failed \ {w}
      /\ pc' = [pc EXCEPT ![w] = "idle"] /\ copy' = [copy EXCEPT ![w] = Nobody]
      /\ job' = [job EXCEPT ![w] = Nobody]
  BY DEF Exit, Lasting, Drop, Hold, Goto
<1>2. /\ w \in Procs /\ Handlers \subseteq Procs /\ Workers \subseteq Procs
      /\ Workers \cap Handlers = {} /\ Nobody \notin Migrations
  BY ExecutorAssumption DEF Procs
<1>3. /\ pc'[w] = "idle" /\ job'[w] = Nobody
      /\ \A q \in Procs : q # w => pc'[q] = pc[q] /\ copy'[q] = copy[q] /\ job'[q] = job[q]
  BY <1>1, <1>2 DEF IInv, TypeOK
<1>4. \A v \in Workers : Driving(v)' => Driving(v) /\ v # w
  BY <1>2, <1>3 DEF Driving
<1>5. IdleInv'
  <2> SUFFICES ASSUME NEW q \in Procs, pc'[q] = "idle" PROVE job'[q] = Nobody /\ q \notin used'
    BY DEF IdleInv
  <2> QED
    BY <1>1, <1>3 DEF OpInv, IdleInv
<1>6. StatusInv' /\ (Steady => DoneInv')
  BY <1>1 DEF OpInv, StatusInv, DoneInv, Exists
<1>7. DriveInv'
  <2> SUFFICES ASSUME NEW v \in Workers, Driving(v)' PROVE MayDrive(pc'[v], copy'[v], store'[job'[v]])
    BY DEF DriveInv
  <2> QED
    BY <1>1, <1>2, <1>3, <1>4 DEF OpInv, DriveInv
<1>8. ApartInv'
  <2> SUFFICES ASSUME NEW u \in Workers, NEW v \in Workers, Driving(u)', Driving(v)', job'[u] = job'[v]
               PROVE  u = v
    BY DEF ApartInv
  <2> QED
    BY <1>2, <1>3, <1>4 DEF OpInv, ApartInv
<1>9. RequestInv'
  <2> SUFFICES ASSUME NEW h \in Handlers, pc'[h] # "idle"
               PROVE  /\ \A v \in Workers : job'[v] = job'[h] => pc'[v] = "exit"
                      /\ MayAct(job'[h], pc'[h], copy'[h], store'[job'[h]], done')
    BY DEF RequestInv, Undriven
  <2>1. h # w /\ h \in Procs /\ pc'[h] = pc[h] /\ copy'[h] = copy[h] /\ job'[h] = job[h]
    BY <1>2, <1>3
  <2>2. Undriven(job[h]) /\ MayAct(job[h], pc[h], copy[h], store[job[h]], done) /\ job[h] \in Migrations
    BY <2>1, Standing DEF OpInv, RequestInv
  <2> QED
    BY <1>1, <1>2, <1>3, <2>1, <2>2 DEF Undriven
<1>10. ASSUME Steady
       PROVE  ExactInv'
  <2> SUFFICES ASSUME NEW v \in Workers, Driving(v)'
               PROVE  DrivesExactly(job'[v], v, pc'[v], copy'[v], store'[job'[v]], done', used', failed')
    BY DEF ExactInv
  <2>1. v # w /\ DrivesExactly(job[v], v, pc[v], copy[v], store[job[v]], done, used, failed)
    BY <1>4, <1>10, DriverStands
  <2>2. (v \in used' <=> v \in used) /\ (v \in failed' <=> v \in failed)
    BY <1>1, <2>1
  <2> QED
    BY <1>1, <1>2, <1>3, <2>1, <2>2, ExactLasts
<1> QED
  BY <1>1, <1>5, <1>6, <1>7, <1>8, <1>9, <1>10 DEF Kept, OpInv, StoreTurns

LEMMA RunStepsKept ==
    ASSUME IInv, OpInv, NEW w \in Workers, RunSteps(w)
    PROVE  Kept
<1>1. CASE Wait(w)
  BY <1>1, LeavesKept DEF Wait
<1>2. CASE Gate(w)
  BY <1>2, LeavesKept DEF Gate
<1> QED
  BY <1>1, <1>2, FetchKept, FinishKept, BeginKept, StepSucceedsKept, StepFailsKept, AlreadyMigratedKept,
     OpenPRKept, DriverLogKept, AutoMergeKept, SaveMergedKept, SaveParkedKept, RereadKept, FailKept,
     AdvanceKept, RecoverKept, ExitKept
  DEF RunSteps

(***************************************************************************)
(* The request moves.                                                      *)
(***************************************************************************)
\* A goroutine that works on a migration finds it running, or just completed.
LEMMA NotDriven ==
    ASSUME IInv, OpInv, NEW id \in Migrations,
           Exists(id) => store[id].status \notin {"running", "completed"}
    PROVE  Undriven(id)
<1> SUFFICES ASSUME NEW w \in Workers, job[w] = id, pc[w] # "exit" PROVE FALSE
  BY DEF Undriven
<1>1. w \in Procs /\ Nobody \notin Migrations
  BY ExecutorAssumption DEF Procs
<1>2. Driving(w)
  BY <1>1 DEF OpInv, IdleInv, Driving
<1> QED
  BY <1>2, DriverStands DEF MayDrive

LEMMA RequestStands ==
    ASSUME IInv, OpInv, NEW h \in Handlers, pc[h] # "idle"
    PROVE  /\ h \in Procs /\ job[h] \in Migrations /\ Undriven(job[h])
           /\ MayAct(job[h], pc[h], copy[h], store[job[h]], done)
           /\ Fits(pc[h], copy[h])
           /\ pc[h] # "create" => /\ store[job[h]] \in Record /\ store[job[h]] \in Good
                                  /\ Steady => ReallyDone(job[h], store[job[h]], done, prs)
<1>1. h \in Procs
  BY DEF Procs
<1>2. /\ job[h] \in Migrations /\ Undriven(job[h]) /\ Fits(pc[h], copy[h])
      /\ MayAct(job[h], pc[h], copy[h], store[job[h]], done)
  BY <1>1, Standing DEF OpInv, RequestInv
<1>3. pc[h] # "create" => Exists(job[h])
  BY <1>2 DEF MayAct, Exists
<1> QED
  BY <1>1, <1>2, <1>3, ReadsGood DEF OpInv, DoneInv

\* Request h moves to l, holding c and working on j.
LEMMA RequestMovesOn ==
    ASSUME IInv, OpInv, OneOperator, NEW h \in Handlers,
           NEW l, NEW c, NEW j \in Migrations \cup {Nobody},
           pc' = [pc EXCEPT ![h] = l], copy' = [copy EXCEPT ![h] = c], job' = [job EXCEPT ![h] = j],
           l = "idle" => j = Nobody,
           l # "idle" => j \in Migrations /\ Undriven(j) /\ MayAct(j, l, c, store'[j], done'),
           Lasting, UNCHANGED used, \A w \in Workers : w \in failed' <=> w \in failed,
           \A m \in Migrations :
              store'[m] = store[m] \/
                 /\ Undriven(m)
                 /\ Exists(m)' => /\ store'[m].status \in Settled
                                  /\ Steady => ReallyDone(m, store'[m], done', prs'),
           Steady => StoreTurns
    PROVE  Kept
<1>2. /\ h \in Procs /\ Handlers \subseteq Procs /\ Workers \subseteq Procs
      /\ h \notin Workers /\ Nobody \notin Migrations /\ h \notin used
  BY ExecutorAssumption DEF Procs, IInv, TypeOK
<1>3. /\ pc'[h] = l /\ copy'[h] = c /\ job'[h] = j
      /\ \A q \in Procs : q # h => pc'[q] = pc[q] /\ copy'[q] = copy[q] /\ job'[q] = job[q]
  BY <1>2 DEF IInv, TypeOK
<1>4. ASSUME NEW v \in Workers, Driving(v)'
      PROVE  /\ Driving(v) /\ pc'[v] = pc[v] /\ copy'[v] = copy[v] /\ job'[v] = job[v]
             /\ store'[job[v]] = store[job[v]]
  <2>1. Driving(v) /\ pc'[v] = pc[v] /\ copy'[v] = copy[v] /\ job'[v] = job[v]
    BY <1>2, <1>3, <1>4 DEF Driving
  <2>2. job[v] \in Migrations /\ ~Undriven(job[v])
    BY <2>1, DriverStands DEF Undriven, Driving
  <2> QED
    BY <2>1, <2>2
<1>5. IdleInv'
  <2> SUFFICES ASSUME NEW q \in Procs, pc'[q] = "idle" PROVE job'[q] = Nobody /\ q \notin used'
    BY DEF IdleInv
  <2> QED
    BY <1>2, <1>3 DEF OpInv, IdleInv
<1>6. StatusInv'
  <2> SUFFICES ASSUME NEW m \in Migrations, Exists(m)' PROVE store'[m].status \in Settled
    BY DEF StatusInv
  <2> QED
    BY DEF OpInv, StatusInv, Exists
<1>7. DriveInv'
  <2> SUFFICES ASSUME NEW v \in Workers, Driving(v)' PROVE MayDrive(pc'[v], copy'[v], store'[job'[v]])
    BY DEF DriveInv
  <2> QED
    BY <1>4 DEF OpInv, DriveInv
<1>8. ApartInv'
  <2> SUFFICES ASSUME NEW u \in Workers, NEW v \in Workers, Driving(u)', Driving(v)', job'[u] = job'[v]
               PROVE  u = v
    BY DEF ApartInv
  <2> QED
    BY <1>4 DEF OpInv, ApartInv
<1>9. RequestInv'
  <2> SUFFICES ASSUME NEW g \in Handlers, pc'[g] # "idle"
               PROVE  /\ \A v \in Workers : job'[v] = job'[g] => pc'[v] = "exit"
                      /\ MayAct(job'[g], pc'[g], copy'[g], store'[job'[g]], done')
    BY DEF RequestInv, Undriven
  <2>1. g = h
    BY DEF OneOperator
  <2>2. Undriven(j) /\ MayAct(j, l, c, store'[j], done')
    BY <1>3, <2>1
  <2>3. \A v \in Workers : pc'[v] = pc[v] /\ job'[v] = job[v]
    BY <1>2, <1>3
  <2> QED
    BY <1>3, <2>1, <2>2, <2>3 DEF Undriven
<1>10. ASSUME Steady
       PROVE  ExactInv'
  <2> SUFFICES ASSUME NEW v \in Workers, Driving(v)'
               PROVE  DrivesExactly(job'[v], v, pc'[v], copy'[v], store'[job'[v]], done', used', failed')
    BY DEF ExactInv
  <2>1. DrivesExactly(job[v], v, pc[v], copy[v], store[job[v]], done, used, failed)
    BY <1>4, <1>10, DriverStands
  <2> QED
    BY <1>4, <2>1, ExactLasts
<1>11. ASSUME Steady
       PROVE  DoneInv'
  <2> SUFFICES ASSUME NEW m \in Migrations, Exists(m)' PROVE ReallyDone(m, store'[m], done', prs')
    BY DEF DoneInv
  <2>1. CASE store'[m] = store[m]
    <3>1. Exists(m)
      BY <2>1 DEF Exists
    <3>2. ReallyDone(m, store[m], done, prs) /\ store[m] \in Record
      BY <1>11, <3>1, ReadsGood DEF OpInv, DoneInv
    <3> QED
      BY <2>1, <3>2, DoneLasts
  <2>2. CASE store'[m] # store[m]
    BY <1>11, <2>2
  <2> QED
    BY <2>1, <2>2
<1> QED
  BY <1>5, <1>6, <1>7, <1>8, <1>9, <1>10, <1>11 DEF Kept, OpInv

\* Goes on at l with the same migration, or is answered.
Onward(h, l, c) ==
    /\ pc' = [pc EXCEPT ![h] = l] /\ copy' = [copy EXCEPT ![h] = c]
    /\ job' = [job EXCEPT ![h] = IF l = "idle" THEN Nobody ELSE job[h]]

LEMMA AnswerOnward == ASSUME NEW h, Answer(h) PROVE Onward(h, "idle", Nobody)
BY DEF Answer, Drop, Goto, Hold, Onward

LEMMA GotoOnward ==
    ASSUME IInv, NEW h \in Handlers, NEW l, l # "idle", Goto(h, l), UNCHANGED <<copy, job>>
    PROVE  Onward(h, l, copy[h])
BY DEF IInv, TypeOK, Procs, Goto, Onward

\* The request writes r.
LEMMA RequestSaves ==
    ASSUME IInv, OpInv, OneOperator, NEW h \in Handlers, pc[h] # "idle",
           NEW l, NEW c, NEW r \in Record, Onward(h, l, c),
           TrySave(job[h], r) \/ Save(job[h], r),
           l # "idle" => /\ MayAct(job[h], l, c, r, done')
                         /\ Save(job[h], r) \/ MayAct(job[h], l, c, store[job[h]], done'),
           Lasting, UNCHANGED used, \A w \in Workers : w \in failed' <=> w \in failed,
           r.status \in Settled,
           Steady => ReallyDone(job[h], r, done', prs') /\ Turn(store[job[h]], r)
    PROVE  Kept
<1> DEFINE id == job[h]
<1>1. h \in Procs /\ id \in Migrations /\ Undriven(id) /\ r \notin {Unborn, Deleted}
  BY RequestStands, SentinelAssumption
<1> DEFINE j == IF l = "idle" THEN Nobody ELSE id
<1>2. /\ j \in Migrations \cup {Nobody} /\ (l = "idle" => j = Nobody) /\ (l # "idle" => j = id)
      /\ pc' = [pc EXCEPT ![h] = l] /\ copy' = [copy EXCEPT ![h] = c] /\ job' = [job EXCEPT ![h] = j]
  BY <1>1 DEF Onward
<1> HIDE DEF j
<1>3. CASE Save(id, r)
  <2>1. store'[id] = r /\ \A m \in Migrations : m # id => store'[m] = store[m]
    BY <1>1, <1>3 DEF Save, IInv, TypeOK
  <2>2. Steady => StoreTurns
    BY <1>1, <1>3 DEF Save, StoreTurns
  <2>3. l # "idle" => j \in Migrations /\ Undriven(j) /\ MayAct(j, l, c, store'[j], done')
    BY <1>1, <1>2, <2>1
  <2>4. \A m \in Migrations :
           store'[m] = store[m] \/
              /\ Undriven(m)
              /\ Exists(m)' => /\ store'[m].status \in Settled
                               /\ Steady => ReallyDone(m, store'[m], done', prs')
    BY <1>1, <2>1
  <2> QED
    BY <1>2, <2>2, <2>3, <2>4, RequestMovesOn
<1>4. CASE ~Steady /\ UNCHANGED store /\ (l # "idle" => MayAct(id, l, c, store[id], done'))
  BY <1>1, <1>2, <1>4, RequestMovesOn
<1>5. Save(id, r) \/ (~Steady /\ UNCHANGED store)
  BY DEF TrySave, SaveFails, Steady
<1> QED
  BY <1>3, <1>4, <1>5

\* The request writes nothing.
LEMMA RequestRests ==
    ASSUME IInv, OpInv, OneOperator, NEW h \in Handlers, pc[h] # "idle",
           NEW l, NEW c, Onward(h, l, c), UNCHANGED store,
           l # "idle" => MayAct(job[h], l, c, store[job[h]], done'),
           Lasting, UNCHANGED used, \A w \in Workers : w \in failed' <=> w \in failed
    PROVE  Kept
<1> DEFINE j == IF l = "idle" THEN Nobody ELSE job[h]
<1>1. job[h] \in Migrations /\ Undriven(job[h])
  BY RequestStands
<1>2. /\ j \in Migrations \cup {Nobody} /\ (l = "idle" => j = Nobody) /\ (l # "idle" => j = job[h])
      /\ pc' = [pc EXCEPT ![h] = l] /\ copy' = [copy EXCEPT ![h] = c] /\ job' = [job EXCEPT ![h] = j]
  BY <1>1 DEF Onward
<1> HIDE DEF j
<1>3. \A m \in Migrations : store'[m] = store[m]
  OBVIOUS
<1>4. l # "idle" => j \in Migrations /\ Undriven(j) /\ MayAct(j, l, c, store'[j], done')
  BY <1>1, <1>2
<1> QED
  BY <1>2, <1>3, <1>4, RequestMovesOn DEF StoreTurns

\* A new request takes up migration id.
LEMMA RequestTakes ==
    ASSUME IInv, OpInv, OneOperator, NEW h \in Handlers, NEW id \in Migrations,
           NEW l, l # "idle", NEW c, Take(h, id, c, l), Undriven(id),
           MayAct(id, l, c, store[id], done),
           UNCHANGED <<store, prs, done, used, failed>>
    PROVE  Kept
<1>1. Lasting /\ (\A m \in Migrations : store'[m] = store[m]) /\ StoreTurns
  BY DEF Lasting, StoreTurns
<1>2. pc' = [pc EXCEPT ![h] = l] /\ copy' = [copy EXCEPT ![h] = c] /\ job' = [job EXCEPT ![h] = id]
  BY DEF Take, Hold, Goto
<1> QED
  BY <1>1, <1>2, RequestMovesOn

LEMMA StartKept ==
    ASSUME IInv, OpInv, OneOperator, NEW h \in Handlers, NEW id \in Migrations, NEW mode \in Modes,
           Start(h, id, mode)
    PROVE  Kept
<1>1. Take(h, id, NewMigration(mode), "create") /\ store[id] = Unborn
  BY DEF Start
<1>2. Undriven(id)
  BY <1>1, NotDriven DEF Exists
<1>3. MayAct(id, "create", NewMigration(mode), store[id], done)
  BY <1>1 DEF MayAct, Waits, Undoes
<1> QED
  BY <1>1, <1>2, <1>3, RequestTakes DEF Start

LEMMA ContinueKept ==
    ASSUME IInv, OpInv, OneOperator, NEW h \in Handlers, NEW id \in Migrations, Continue(h, id)
    PROVE  Kept
<1> DEFINE s == store[id]
<1>1. Exists(id) /\ Resumable(s) /\ ContinueWith(h, id)
  BY DEF Continue
<1>2. s \in Good /\ s \in Record /\ s.status \in Settled
  BY <1>1, ReadsGood DEF OpInv, StatusInv
<1>3. s.status \in {"waiting", "gated", "failed"}
  BY <1>1, <1>2 DEF Resumable, Settled
<1>4. Undriven(id)
  BY <1>3, NotDriven
<1>5. s.status = "waiting" => UnmergedPR(s)
  <2> SUFFICES ASSUME s.status = "waiting" PROVE UnmergedPR(s)
    OBVIOUS
  <2>1. s.cur <= NSteps /\ Step(s).st = "waiting" /\ s.cur \in Steps
    BY <1>2, CurrentStep DEF Good, Coherent, WaitsForItsPR
  <2>2. Step(s).pr > 0 /\ Step(s).prst = "open"
    BY <1>2, <2>1 DEF Good, Coherent, WaitsForItsPR, Step
  <2> QED
    BY <2>2 DEF UnmergedPR
<1>6. CASE UnmergedPR(s)
  <2>1. MayAct(id, "merge", s, s, done)
    BY <1>1, <1>6 DEF MayAct, UnmergedPR, Exists, Waits, Undoes
  <2> QED
    BY <1>1, <1>4, <1>6, <2>1, RequestTakes DEF Continue, ContinueWith
<1>7. CASE ~UnmergedPR(s)
  <2>1. MayAct(id, "resume", s, s, done)
    BY <1>1, <1>3, <1>5, <1>7 DEF MayAct, Exists, Waits, Undoes
  <2> QED
    BY <1>1, <1>4, <1>7, <2>1, RequestTakes DEF Continue, ContinueWith
<1> QED
  BY <1>6, <1>7

LEMMA RetryKept ==
    ASSUME IInv, OpInv, OneOperator, NEW h \in Handlers, NEW id \in Migrations, Retry(h, id)
    PROVE  Kept
<1>1. Exists(id) /\ store[id].status = "failed" /\ Take(h, id, store[id], "resume")
  BY DEF Retry
<1>2. Undriven(id) /\ MayAct(id, "resume", store[id], store[id], done)
  BY <1>1, NotDriven DEF MayAct, Exists, Waits, Undoes
<1> QED
  BY <1>1, <1>2, RequestTakes DEF Retry

LEMMA RollbackKept ==
    ASSUME IInv, OpInv, OneOperator, NEW h \in Handlers, NEW id \in Migrations, Rollback(h, id)
    PROVE  Kept
<1>1. /\ Exists(id) /\ store[id].status \in {"failed", "cancelled"}
      /\ Take(h, id, store[id], "reverting")
  BY DEF Rollback
<1>2. store[id].status = "failed"
  BY <1>1 DEF OpInv, StatusInv, Settled
<1>3. Undriven(id) /\ MayAct(id, "reverting", store[id], store[id], done)
  BY <1>1, <1>2, NotDriven DEF MayAct, Exists, Waits, Undoes
<1> QED
  BY <1>1, <1>3, RequestTakes DEF Rollback

\* The operator makes no other request.
LEMMA RequestKept ==
    ASSUME IInv, OpInv, OneOperator, NEW h \in Handlers, Request(h)
    PROVE  Kept
<1>1. \A id \in Migrations : /\ \A call \in Halting : ~Halt(h, id, call)
                             /\ \A s \in Steps : ~MergePR(h, id, s)
  BY DEF OneOperator, Halt, Halting, MergePR
<1> QED
  BY <1>1, StartKept, ContinueKept, RetryKept, RollbackKept DEF Request

LEMMA CreateKept ==
    ASSUME IInv, OpInv, OneOperator, NEW h \in Handlers, Create(h)
    PROVE  Kept
<1> DEFINE r == copy[h]
<1>1. pc[h] = "create" /\ UNCHANGED <<prs, done, used, failed>> /\ Lasting
  BY DEF Create, Lasting
<1>2. MayAct(job[h], "create", r, store[job[h]], done)
  BY <1>1, RequestStands
<1>3. PICK mode \in Modes : r = NewMigration(mode)
  BY <1>2 DEF MayAct
<1>4. store[job[h]] = Unborn /\ r \in Record
  BY <1>2, <1>3, NewMigrationGood, GoodRecords DEF MayAct
<1>5. r.status = "running" /\ r.cur = 1 /\ \A t \in Steps : r.steps[t].st = "pending"
  <2> DEFINE q == NewMigration(mode)
  <2>1. q.status = "running" /\ q.cur = 1 /\ \A t \in Steps : q.steps[t].st = "pending"
    BY DEF NewMigration
  <2> HIDE DEF q, r
  <2>2. r = q
    BY <1>3 DEF q
  <2> QED
    BY <2>1, <2>2
<1>6. CASE Save(job[h], r) /\ Goto(h, "spawn") /\ UNCHANGED <<job, copy>>
  <2>1. Onward(h, "spawn", r)
    BY <1>6, GotoOnward
  <2>2. MayAct(job[h], "spawn", r, r, done')
    BY <1>4, <1>5, StageOf DEF MayAct, Waits, Undoes
  <2>3. ReallyDone(job[h], r, done', prs')
    BY <1>5 DEF ReallyDone
  <2>4. Turn(store[job[h]], r)
    <3>1. Stage(store[job[h]]) = "unborn" /\ Behind(store[job[h]]) = 0
      BY <1>4 DEF Stage, Behind
    <3> QED
      BY <1>4, <1>5, <3>1, StageOf DEF Turn
  <2> HIDE DEF r
  <2> QED
    BY <1>1, <1>4, <1>5, <1>6, <2>1, <2>2, <2>3, <2>4, RequestSaves DEF Settled
<1>7. CASE UNCHANGED store /\ Answer(h)
  BY <1>1, <1>7, AnswerOnward, RequestRests
<1> QED
  BY <1>6, <1>7 DEF Create, SaveFails

\* The goroutine takes over from the request.
LEMMA SpawnKept ==
    ASSUME IInv, OpInv, OneOperator, NEW h \in Handlers, Spawn(h)
    PROVE  Kept
<1> DEFINE id == job[h]
<1> DEFINE s == store[id]
<1>1. /\ pc[h] = "spawn" /\ UNCHANGED <<store, prs, done, used, failed>> /\ Lasting
      /\ copy' = [copy EXCEPT ![h] = Nobody]
  BY DEF Spawn, Hold, Lasting
<1>2. PICK w \in Workers :
        /\ pc[w] = "idle"
        /\ pc' = [pc EXCEPT ![w] = "top", ![h] = "idle"]
        /\ job' = [job EXCEPT ![w] = job[h], ![h] = Nobody]
  BY DEF Spawn
<1>3. /\ h \in Procs /\ w \in Procs /\ w # h /\ Handlers \subseteq Procs /\ Workers \subseteq Procs
      /\ h \notin Workers /\ h \notin used
  BY ExecutorAssumption DEF Procs, IInv, TypeOK
<1>4. id \in Migrations /\ Undriven(id) /\ MayAct(id, "spawn", copy[h], s, done) /\ s \in Record
  BY <1>1, RequestStands
<1>5. s \notin {Unborn, Deleted} /\ s.status = "running"
  BY <1>4 DEF MayAct
<1>6. /\ pc'[w] = "top" /\ job'[w] = id /\ pc'[h] = "idle" /\ job'[h] = Nobody
      /\ \A q \in Procs : q \notin {w, h} => pc'[q] = pc[q] /\ job'[q] = job[q]
      /\ \A q \in Procs : q # h => copy'[q] = copy[q]
  BY <1>1, <1>2, <1>3 DEF IInv, TypeOK
<1>7. w \notin used
  BY <1>2, <1>3 DEF OpInv, IdleInv
<1>8. ASSUME NEW v \in Workers, Driving(v)', v # w
      PROVE  /\ Driving(v) /\ pc'[v] = pc[v] /\ copy'[v] = copy[v] /\ job'[v] = job[v]
             /\ job[v] # id
  <2>1. Driving(v) /\ pc'[v] = pc[v] /\ copy'[v] = copy[v] /\ job'[v] = job[v]
    BY <1>3, <1>6, <1>8 DEF Driving
  <2> QED
    BY <1>4, <2>1 DEF Undriven, Driving
<1>9. IdleInv'
  <2> SUFFICES ASSUME NEW q \in Procs, pc'[q] = "idle" PROVE job'[q] = Nobody /\ q \notin used'
    BY DEF IdleInv
  <2> QED
    BY <1>1, <1>3, <1>6 DEF OpInv, IdleInv
<1>10. StatusInv' /\ (Steady => DoneInv')
  BY <1>1 DEF OpInv, StatusInv, DoneInv, Exists
<1>11. DriveInv'
  <2> SUFFICES ASSUME NEW v \in Workers, Driving(v)' PROVE MayDrive(pc'[v], copy'[v], store'[job'[v]])
    BY DEF DriveInv
  <2>1. CASE v = w
    <3>1. \A c : MayDrive("top", c, s)
      BY <1>5 DEF MayDrive, AtWork
    <3>2. store'[job'[v]] = s /\ pc'[v] = "top"
      BY <1>1, <1>6, <2>1
    <3> QED
      BY <3>1, <3>2
  <2>2. CASE v # w
    BY <1>1, <1>8, <2>2 DEF OpInv, DriveInv
  <2> QED
    BY <2>1, <2>2
<1>12. ApartInv'
  <2> SUFFICES ASSUME NEW u \in Workers, NEW v \in Workers, Driving(u)', Driving(v)',
                      job'[u] = job'[v], u # v
               PROVE  FALSE
    BY DEF ApartInv
  <2> QED
    BY <1>6, <1>8 DEF OpInv, ApartInv
<1>13. RequestInv'
  <2> SUFFICES ASSUME NEW g \in Handlers, pc'[g] # "idle" PROVE FALSE
    BY DEF RequestInv
  <2>1. g = h
    BY DEF OneOperator
  <2> QED
    BY <1>6, <2>1
<1>14. ASSUME Steady
       PROVE  ExactInv'
  <2> SUFFICES ASSUME NEW v \in Workers, Driving(v)'
               PROVE  DrivesExactly(job'[v], v, pc'[v], copy'[v], store'[job'[v]], done', used', failed')
    BY DEF ExactInv
  <2>1. CASE v = w
    <3>1. \A c : DrivesExactly(id, w, "top", c, s, done', used', failed')
      BY <1>1, <1>7 DEF DrivesExactly, Holding, InStep
    <3>2. store'[job'[v]] = s /\ pc'[v] = "top" /\ job'[v] = id
      BY <1>1, <1>6, <2>1
    <3> QED
      BY <2>1, <3>1, <3>2
  <2>2. CASE v # w
    <3>1. DrivesExactly(job[v], v, pc[v], copy[v], store[job[v]], done, used, failed)
      BY <1>8, <1>14, <2>2, DriverStands
    <3> QED
      BY <1>1, <1>8, <2>2, <3>1, ExactLasts
  <2> QED
    BY <2>1, <2>2
<1> QED
  BY <1>1, <1>9, <1>10, <1>11, <1>12, <1>13, <1>14 DEF Kept, OpInv, StoreTurns

\* Where the request holds the record of the store.
LEMMA RequestHolds ==
    ASSUME IInv, OpInv, NEW h \in Handlers, pc[h] \notin {"idle", "create", "spawn"}
    PROVE  /\ copy[h] = store[job[h]] /\ copy[h] \in Record /\ copy[h] \in Good
           /\ MayAct(job[h], pc[h], copy[h], copy[h], done)
           /\ Steady => ReallyDone(job[h], copy[h], done, prs)
           /\ copy[h].status \in Settled
           /\ pc[h] \in {"resume"} \cup Waits \cup Undoes
<1>1. MayAct(job[h], pc[h], copy[h], store[job[h]], done) /\ store[job[h]] \in Record
  BY RequestStands
<1>2. copy[h] = store[job[h]]
  BY <1>1 DEF MayAct
<1> QED
  BY <1>1, <1>2, RequestStands DEF MayAct, Settled, Waits, Undoes

LEMMA MergeToContinueKept ==
    ASSUME IInv, OpInv, OneOperator, NEW h \in Handlers, MergeToContinue(h)
    PROVE  Kept
<1> DEFINE c == copy[h]
<1>1. /\ pc[h] = "merge" /\ UNCHANGED <<store, copy, job, used, failed>> /\ Lasting
  BY DEF MergeToContinue, Lasting, IInv, TypeOK
<1>2. PICK l \in {"accepted", "declined"} :
         Goto(h, l) /\ (l = "accepted" => <<job[h], c.cur>> \in done')
  BY DEF MergeToContinue
<1>3. MayAct(job[h], "merge", c, c, done) /\ c = store[job[h]]
  BY <1>1, RequestHolds
<1>4. Onward(h, l, c)
  BY <1>1, <1>2, GotoOnward
<1> HIDE DEF c
<1>5. MayAct(job[h], l, c, c, done')
  BY <1>2, <1>3 DEF MayAct, Waits, Undoes
<1> QED
  BY <1>1, <1>2, <1>3, <1>4, <1>5, RequestRests

\* A log entry writes what the store has.
LEMMA RequestLogs ==
    ASSUME IInv, OpInv, OneOperator, NEW h \in Handlers, pc[h] \notin {"idle", "create", "spawn"},
           NEW l, l # "idle", Onward(h, l, copy[h]), TrySave(job[h], copy[h]),
           MayAct(job[h], l, copy[h], copy[h], done'), Lasting, UNCHANGED used,
           \A w \in Workers : w \in failed' <=> w \in failed
    PROVE  Kept
<1>1. /\ copy[h] = store[job[h]] /\ copy[h] \in Record /\ copy[h].status \in Settled
      /\ Steady => ReallyDone(job[h], copy[h], done, prs)
  BY RequestHolds
<1>2. Steady => ReallyDone(job[h], copy[h], done', prs') /\ Turn(store[job[h]], copy[h])
  BY <1>1, DoneLasts, SameTurn
<1> QED
  BY <1>1, <1>2, RequestSaves

LEMMA RequestLogKept ==
    ASSUME IInv, OpInv, OneOperator, NEW h \in Handlers, LogFirst(h)
    PROVE  Kept
<1>1. /\ pc[h] \in DOMAIN FirstLog /\ UNCHANGED <<copy, job, prs, done, used, failed>> /\ Lasting
      /\ Goto(h, FirstLog[pc[h]]) /\ TrySave(job[h], copy[h])
      /\ pc[h] \notin {"idle", "create", "spawn"}
  BY DEF LogFirst, FirstLog, Lasting
<1>2. MayAct(job[h], pc[h], copy[h], copy[h], done) /\ pc[h] \in {"resume"} \cup Waits \cup Undoes
  BY <1>1, RequestHolds
<1>3. PICK l : l = FirstLog[pc[h]]
  OBVIOUS
<1>4. \/ pc[h] = "accepted" /\ l = "approved"
      \/ pc[h] = "declined" /\ l = "refused"
      \/ pc[h] = "reverting" /\ l = "rollback"
  BY <1>1, <1>2, <1>3 DEF FirstLog, Waits, Undoes
<1>5. MayAct(job[h], l, copy[h], copy[h], done') /\ l # "idle"
  BY <1>1, <1>2, <1>4 DEF MayAct, Waits, Undoes
<1>6. Onward(h, l, copy[h])
  BY <1>1, <1>3, <1>5, GotoOnward
<1> QED
  BY <1>1, <1>5, <1>6, RequestLogs

LEMMA RequestAddLogKept ==
    ASSUME IInv, OpInv, OneOperator, NEW h \in Handlers, AddLog(h)
    PROVE  Kept
<1>1. /\ pc[h] \notin {"idle", "create", "spawn"} /\ UNCHANGED <<pc, copy, job, prs, done, used, failed>>
      /\ Lasting /\ TrySave(job[h], copy[h])
  BY DEF AddLog, Logging, Lasting, TrySave
<1>2. MayAct(job[h], pc[h], copy[h], copy[h], done)
  BY <1>1, RequestHolds
<1>3. Onward(h, pc[h], copy[h])
  BY <1>1 DEF Onward, IInv, TypeOK
<1> QED
  BY <1>1, <1>2, <1>3, RequestLogs

LEMMA MergeRefusedKept ==
    ASSUME IInv, OpInv, OneOperator, NEW h \in Handlers, MergeRefused(h)
    PROVE  Kept
<1> DEFINE r == Failing(copy[h])
<1>1. /\ pc[h] = "refused" /\ UNCHANGED <<prs, done, used, failed>> /\ Lasting
      /\ TrySave(job[h], r) /\ Onward(h, "idle", Nobody)
  BY AnswerOnward DEF MergeRefused, Lasting
<1>2. /\ copy[h] = store[job[h]] /\ copy[h] \in Record /\ copy[h] \in Good
      /\ copy[h].status = "waiting"
      /\ Steady => ReallyDone(job[h], copy[h], done, prs)
  BY <1>1, RequestHolds DEF MayAct, Waits
<1>3. copy[h].cur <= NSteps
  BY <1>2 DEF Good, Coherent, WaitsForItsPR
<1>4. r \in Record /\ r.status = "failed" /\ r.cur = copy[h].cur /\ Marks(r, copy[h], 0)
  BY <1>2, <1>3, FailingEffect
<1> HIDE DEF r
<1>5. ASSUME Steady
      PROVE  ReallyDone(job[h], r, done', prs') /\ Turn(store[job[h]], r)
  <2>1. ReallyDone(job[h], r, done', prs')
    BY <1>1, <1>2, <1>4, <1>5, StaysDone
  <2> QED
    BY <1>2, <1>4, <2>1, StageOf DEF Turn
<1> QED
  BY <1>1, <1>4, <1>5, RequestSaves DEF Settled

LEMMA ResumeKept ==
    ASSUME IInv, OpInv, OneOperator, NEW h \in Handlers, Resume(h)
    PROVE  Kept
<1> DEFINE c == copy[h]
<1> DEFINE r == Resumed(c)
<1>1. pc[h] \in {"resume", "approved"} /\ UNCHANGED <<prs, done, used, failed>> /\ Lasting
  BY DEF Resume, Lasting
<1>2. /\ c = store[job[h]] /\ c \in Record /\ c \in Good
      /\ MayAct(job[h], pc[h], c, c, done) /\ Fits(pc[h], c)
      /\ Steady => ReallyDone(job[h], c, done, prs)
  BY <1>1, RequestHolds, RequestStands
<1>3. /\ c.status \in {"gated", "failed", "waiting"}
      /\ c.status = "waiting" => <<job[h], c.cur>> \in done
      /\ c.status \in {"waiting", "failed"} => c.cur <= NSteps /\ c.cur \in Steps
  BY <1>1, <1>2, CurrentStep DEF MayAct, Waits, Fits, Good, Coherent, WaitsForItsPR
<1>4. r \in Record
  BY <1>2, <1>3, ResumedGood, GoodRecords
<1>5. /\ r.status = "running"
      /\ r.cur = IF c.status = "waiting" THEN c.cur + 1 ELSE c.cur
      /\ Marks(r, c, IF c.status = "waiting" THEN c.cur ELSE 0)
  BY <1>2, <1>3, <1>4, ResumedEffect
<1>6. CASE UNCHANGED store /\ Answer(h)
  BY <1>1, <1>6, AnswerOnward, RequestRests
<1>7. CASE Save(job[h], r) /\ Goto(h, "spawn") /\ UNCHANGED <<job, copy>>
  <2>1. Onward(h, "spawn", c)
    BY <1>7, GotoOnward
  <2> HIDE DEF r, c
  <2>2. MayAct(job[h], "spawn", c, r, done')
    BY <1>4, <1>5, StageOf DEF MayAct, Waits, Undoes
  <2>3. Steady => ReallyDone(job[h], r, done', prs')
    BY <1>1, <1>2, <1>3, <1>5, StaysDone
  <2>4. Turn(store[job[h]], r)
    <3>1. /\ Stage(r) = "running" /\ Behind(r) = r.cur - 1
          /\ Stage(store[job[h]]) = c.status /\ Behind(store[job[h]]) = c.cur - 1
          /\ c.cur \in Int
      BY <1>2, <1>4, <1>5, StageOf, ExecutorAssumption DEF Record
    <3>2. CASE c.status = "waiting"
      <4>1. Behind(r) = Behind(store[job[h]]) + 1 /\ Behind(store[job[h]]) < NSteps
        BY <1>3, <1>5, <3>1, <3>2, ExecutorAssumption
      <4> QED
        BY <3>1, <3>2, <4>1 DEF Turn
    <3>3. CASE c.status \in {"gated", "failed"}
      BY <1>5, <3>1, <3>3 DEF Turn
    <3> QED
      BY <1>3, <3>2, <3>3
  <2>5. pc[h] # "idle" /\ "spawn" # "idle"
    BY <1>1
  <2> QED
    BY <1>1, <1>4, <1>5, <1>7, <2>1, <2>2, <2>3, <2>4, <2>5, RequestSaves DEF Settled
<1> QED
  BY <1>6, <1>7 DEF Resume, SaveFails

LEMMA RollbackPRKept ==
    ASSUME IInv, OpInv, OneOperator, NEW h \in Handlers, RollbackPR(h)
    PROVE  Kept
<1>1. /\ pc[h] = "rollback" /\ UNCHANGED <<pc, copy, job, done, used>>
      /\ TrySave(job[h], copy[h])
  BY DEF RollbackPR
<1>2. \A w \in Workers : w \in failed' <=> w \in failed
  BY ExecutorAssumption DEF RollbackPR
<1>3. Lasting
  BY <1>1 DEF RollbackPR, Lasting, IInv, TypeOK
<1>4. MayAct(job[h], pc[h], copy[h], copy[h], done')
  BY <1>1, RequestHolds
<1>5. Onward(h, pc[h], copy[h])
  BY <1>1 DEF Onward, IInv, TypeOK
<1> QED
  BY <1>1, <1>2, <1>3, <1>4, <1>5, RequestLogs

LEMMA RollbackEndKept ==
    ASSUME IInv, OpInv, OneOperator, NEW h \in Handlers, RollbackEnd(h)
    PROVE  Kept
<1> DEFINE st == IF h \in failed THEN "failed" ELSE "rolled_back"
<1> DEFINE r == WithStatus(copy[h], st)
<1>1. /\ pc[h] = "rollback" /\ UNCHANGED <<prs, done, used>> /\ Lasting
      /\ TrySave(job[h], r) /\ Onward(h, "idle", Nobody)
  BY AnswerOnward DEF RollbackEnd, Lasting
<1>2. \A w \in Workers : w \in failed' <=> w \in failed
  BY ExecutorAssumption DEF RollbackEnd
<1>3. /\ copy[h] = store[job[h]] /\ copy[h] \in Record /\ copy[h].status = "failed"
      /\ Steady => ReallyDone(job[h], copy[h], done, prs)
  BY <1>1, RequestHolds DEF MayAct, Undoes
<1>4. st \in {"failed", "rolled_back"}
  OBVIOUS
<1> HIDE DEF st
<1>5. r \in Record /\ r.status = st /\ r.cur = copy[h].cur /\ Marks(r, copy[h], 0)
  BY <1>3, <1>4, StatusEffect DEF Status
<1> HIDE DEF r
<1>6. ASSUME Steady
      PROVE  ReallyDone(job[h], r, done', prs') /\ Turn(store[job[h]], r)
  <2>1. ReallyDone(job[h], r, done', prs')
    BY <1>1, <1>3, <1>5, <1>6, StaysDone
  <2> QED
    BY <1>3, <1>4, <1>5, <2>1, StageOf DEF Turn
<1> QED
  BY <1>1, <1>2, <1>4, <1>5, <1>6, RequestSaves DEF Settled

LEMMA ServeKept ==
    ASSUME IInv, OpInv, OneOperator, NEW h \in Handlers, Serve(h)
    PROVE  Kept
<1>1. ~HaltRead(h) /\ ~HaltSave(h) /\ ~Remove(h) /\ ~MergePRAtHost(h) /\ ~MergePRSave(h) /\ ~ContinueMerged(h)
  <2>1. pc[h] # "idle" => pc[h] \in {"create", "spawn", "resume"} \cup Waits \cup Undoes
    BY RequestStands DEF MayAct
  <2> QED
    BY <2>1 DEF HaltRead, HaltSave, Remove, MergePRAtHost, MergePRSave, ContinueMerged, Halting, Waits, Undoes
<1> QED
  BY <1>1, CreateKept, SpawnKept, MergeToContinueKept, RequestLogKept, MergeRefusedKept, ResumeKept,
     RollbackPRKept, RollbackEndKept
  DEF Serve

(***************************************************************************)
(* The environment.                                                        *)
(***************************************************************************)
\* Nobody moves, the store is as it was.
LEMMA StillKept ==
    ASSUME IInv, OpInv, Lasting, UNCHANGED <<store, pc, job, copy, failed, used>>
    PROVE  Kept
<1>1. IdleInv' /\ StatusInv' /\ ApartInv'
  BY DEF OpInv, IdleInv, StatusInv, ApartInv, Exists, Driving
<1>2. DriveInv'
  BY DEF OpInv, DriveInv, Driving
<1>3. RequestInv'
  <2> SUFFICES ASSUME NEW h \in Handlers, pc'[h] # "idle"
               PROVE  /\ \A v \in Workers : job'[v] = job'[h] => pc'[v] = "exit"
                      /\ MayAct(job'[h], pc'[h], copy'[h], store'[job'[h]], done')
    BY DEF RequestInv, Undriven
  <2>1. Undriven(job[h]) /\ MayAct(job[h], pc[h], copy[h], store[job[h]], done)
    BY DEF OpInv, RequestInv
  <2> QED
    BY <2>1, ActLasts DEF Undriven
<1>4. ASSUME Steady
      PROVE  ExactInv'
  <2> SUFFICES ASSUME NEW v \in Workers, Driving(v)
               PROVE  DrivesExactly(job[v], v, pc[v], copy[v], store[job[v]], done', used', failed')
    BY DEF ExactInv, Driving
  <2>1. DrivesExactly(job[v], v, pc[v], copy[v], store[job[v]], done, used, failed)
    BY <1>4, DriverStands
  <2> QED
    BY <2>1, ExactLasts
<1>5. ASSUME Steady
      PROVE  DoneInv'
  <2> SUFFICES ASSUME NEW m \in Migrations, Exists(m)' PROVE ReallyDone(m, store'[m], done', prs')
    BY DEF DoneInv
  <2>1. Exists(m)
    BY DEF Exists
  <2>2. ReallyDone(m, store[m], done, prs) /\ store[m] \in Record
    BY <1>5, <2>1, ReadsGood DEF OpInv, DoneInv
  <2> QED
    BY <2>2, DoneLasts
<1> QED
  BY <1>1, <1>2, <1>3, <1>4, <1>5 DEF Kept, OpInv, StoreTurns

LEMMA CrashKept ==
    ASSUME IInv, OpInv, Crash
    PROVE  Kept
<1>1. /\ UNCHANGED <<store, prs, done>> /\ used' = {}
      /\ \A p \in Procs : pc'[p] = "idle" /\ job'[p] = Nobody
      /\ Workers \subseteq Procs /\ Handlers \subseteq Procs
  BY DEF Crash, Procs
<1>2. IdleInv' /\ StatusInv' /\ (Steady => DoneInv')
  BY <1>1 DEF OpInv, IdleInv, StatusInv, DoneInv, Exists
<1>3. (\A w \in Workers : ~Driving(w)') /\ (\A h \in Handlers : pc'[h] = "idle")
  BY <1>1 DEF Driving
<1>4. DriveInv' /\ ApartInv' /\ RequestInv' /\ ExactInv'
  BY <1>3 DEF DriveInv, ApartInv, RequestInv, ExactInv
<1> QED
  BY <1>1, <1>2, <1>4 DEF Kept, OpInv, StoreTurns

LEMMA InitOp == Init => OpInv
<1> SUFFICES ASSUME Init PROVE OpInv
  OBVIOUS
<1>1. /\ \A p \in Procs : pc[p] = "idle" /\ job[p] = Nobody
      /\ used = {} /\ Workers \subseteq Procs /\ Handlers \subseteq Procs
      /\ \A id \in Migrations : ~Exists(id)
  BY DEF Init, Procs, Exists
<1>2. (\A w \in Workers : ~Driving(w)) /\ (\A h \in Handlers : pc[h] = "idle")
  BY <1>1 DEF Driving
<1> QED
  BY <1>1, <1>2 DEF OpInv, IdleInv, StatusInv, DriveInv, ApartInv, RequestInv, ExactInv, DoneInv

LEMMA NextKept ==
    ASSUME IInv, OpInv, OneOperator, [Next]_vars
    PROVE  Kept
<1>1. ASSUME NEW p \in Procs, AddLog(p)
      PROVE  Kept
  BY <1>1, DriverAddLogKept, RequestAddLogKept DEF Procs
<1>2. ASSUME NEW p \in PRs, HostMerge(p)
      PROVE  Kept
  <2>1. Lasting
    BY <1>2 DEF HostMerge, Lasting, IInv, TypeOK
  <2> QED
    BY <1>2, <2>1, StillKept DEF HostMerge
<1>3. CASE UNCHANGED vars
  BY <1>3, StillKept DEF vars, Lasting
<1> QED
  BY <1>1, <1>2, <1>3, RunStepsKept, RequestKept, ServeKept, CrashKept DEF Next

LEMMA OperatorInvariance ==
    ASSUME OneOperator
    PROVE  Spec => [](IInv /\ OpInv)
<1>1. Init => IInv /\ OpInv
  BY InitInv, InitOp
<1>2. IInv /\ OpInv /\ [Next]_vars => (IInv /\ OpInv)'
  BY NextInv, NextKept DEF Kept
<1> QED
  BY <1>1, <1>2, PTL DEF Spec

(***************************************************************************)
(* The theorems.                                                           *)
(***************************************************************************)
\* A migration has one goroutine at most that may still write its record, and
\* none while a request changes it: ContinueAfterPR and RetryMigration start a
\* goroutine only when the one before is past its last write.  Holds even when
\* saves are lost.
THEOREM OneDriverEach ==
    ASSUME OneOperator
    PROVE  Spec => []OneDriver
<1>1. IInv /\ OpInv => OneDriver
  <2> SUFFICES ASSUME IInv, OpInv, NEW id \in Migrations
               PROVE  /\ Cardinality(Drivers(id)) <= 1
                      /\ (\E h \in Handlers : job[h] = id) => Drivers(id) = {}
    BY DEF OneDriver
  <2>0. Nobody \notin Migrations /\ Workers \subseteq Procs /\ Handlers \subseteq Procs
    BY ExecutorAssumption DEF Procs
  <2>1. \A w \in Drivers(id) : Driving(w) /\ w \in Workers /\ job[w] = id
    BY <2>0 DEF Drivers, Driving, OpInv, IdleInv
  <2>2. \A v, w \in Drivers(id) : v = w
    BY <2>1 DEF OpInv, ApartInv
  <2>3. CASE Drivers(id) = {}
    BY <2>3, FS_EmptySet
  <2>4. CASE Drivers(id) # {}
    <3>1. PICK w : w \in Drivers(id)
      BY <2>4
    <3>2. Drivers(id) = {w}
      BY <2>2, <3>1
    <3>3. Cardinality(Drivers(id)) <= 1
      BY <3>2, FS_Singleton
    <3>4. ASSUME NEW h \in Handlers, job[h] = id
          PROVE  FALSE
      <4>1. pc[h] # "idle"
        BY <2>0, <3>4 DEF OpInv, IdleInv
      <4>2. Undriven(id)
        BY <3>4, <4>1 DEF OpInv, RequestInv
      <4> QED
        BY <3>1, <4>2 DEF Undriven, Drivers
    <3> QED
      BY <3>3, <3>4
  <2> QED
    BY <2>3, <2>4
<1> QED
  BY <1>1, OperatorInvariance, PTL

\* No step is marked completed whose work was not carried out, whether it was
\* a goroutine, ContinueAfterPR or AlreadyMigrated that marked it, crashes
\* between the work and the mark included.
THEOREM CompletedWasRun ==
    ASSUME OneOperator, Steady
    PROVE  Spec => []CompletedStepsWereRun
<1>1. OpInv => CompletedStepsWereRun
  BY DEF OpInv, DoneInv, ReallyDone, CompletedStepsWereRun, StepReallyDone
<1> QED
  BY <1>1, OperatorInvariance, PTL

\* In gates mode RunSteps never begins a second step in the same goroutine.
THEOREM EachStepApproved ==
    ASSUME OneOperator, Steady
    PROVE  Spec => []OneStepPerApproval
<1>1. IInv /\ OpInv => OneStepPerApproval
  <2> SUFFICES ASSUME IInv, OpInv, NEW w \in Workers, pc[w] = "begin", copy[w].mode = "gates",
                      copy[w].cur <= NSteps, w \in used
               PROVE  FALSE
    BY DEF OneStepPerApproval
  <2>1. DrivesExactly(job[w], w, "begin", copy[w], store[job[w]], done, used, failed)
    BY DEF OpInv, ExactInv, Driving
  <2>2. copy[w] = store[job[w]]
    BY <2>1 DEF DrivesExactly, Holding
  <2>3. copy[w].cur > NSteps
    BY <2>1, <2>2 DEF DrivesExactly
  <2>4. copy[w] \in Record
    BY DriverStands, <2>2 DEF Driving
  <2> QED
    BY <2>3, <2>4, ExecutorAssumption DEF Record
<1> QED
  BY <1>1, OperatorInvariance, PTL

\* CurrentStep never goes back, whoever writes the record.
THEOREM ProgressStays ==
    ASSUME OneOperator, Steady
    PROVE  Spec => ProgressKept
<1> DEFINE Grows == \A id \in Migrations : Exists(id) /\ Exists(id)' => store'[id].cur >= store[id].cur
<1>1. IInv /\ OpInv /\ [Next]_vars => [Grows]_vars
  <2> SUFFICES ASSUME IInv, OpInv, [Next]_vars, NEW id \in Migrations, Exists(id), Exists(id)'
               PROVE  store'[id].cur >= store[id].cur
    OBVIOUS
  <2>1. store[id] \in Record /\ store[id].cur \in Int
    BY ReadsGood, ExecutorAssumption DEF Record
  <2>2. CASE store'[id] = store[id]
    BY <2>1, <2>2
  <2>3. CASE store'[id] # store[id]
    <3>1. StoreTurns
      BY NextKept DEF Kept
    <3>2. PICK r \in Record : store'[id] = r /\ Turn(store[id], r)
      BY <2>3, <3>1 DEF StoreTurns, IInv, TypeOK
    <3>3. Behind(r) = r.cur - 1 /\ Behind(store[id]) = store[id].cur - 1
      BY <2>1, StageOf
    <3>4. r.cur \in Int
      BY ExecutorAssumption DEF Record
    <3> QED
      BY <2>1, <3>2, <3>3, <3>4 DEF Turn
  <2> QED
    BY <2>2, <2>3
<1> QED
  BY <1>1, OperatorInvariance, PTL DEF Spec, ProgressKept

\* The executor implements the lifecycle: what the store goes through, seen as
\* status and number of steps behind, is a behaviour of MigrationLifecycle.
THEOREM ImplementsLifecycle ==
    ASSUME OneOperator, Steady
    PROVE  Spec => FollowsLifecycle
<1> DEFINE stages == [id \in Migrations |-> IF Exists(id) THEN store[id].status ELSE "unborn"]
<1> DEFINE passed == [id \in Migrations |-> IF Exists(id) THEN store[id].cur - 1 ELSE 0]
<1>1. Init => Lifecycle!Init
  BY DEF Init, Exists, Lifecycle!Init
<1>2. IInv /\ OpInv /\ [Next]_vars => [Lifecycle!Next]_(Lifecycle!vars)
  <2> SUFFICES ASSUME IInv, OpInv, [Next]_vars
               PROVE  [Lifecycle!Next]_(Lifecycle!vars)
    OBVIOUS
  <2>1. stages = [id \in Migrations |-> Stage(store[id])] /\ passed = [id \in Migrations |-> Behind(store[id])]
    BY DEF Exists, Stage, Behind
  <2>2. /\ stages' = [id \in Migrations |-> Stage(store'[id])]
        /\ passed' = [id \in Migrations |-> Behind(store'[id])]
    BY DEF Exists, Stage, Behind
  <2>3. CASE UNCHANGED store
    BY <2>3 DEF Lifecycle!vars, Exists
  <2>4. ASSUME NEW id \in Migrations, NEW r \in Record,
               store' = [store EXCEPT ![id] = r], Turn(store[id], r)
        PROVE  [Lifecycle!Next]_(Lifecycle!vars)
    <3> DEFINE s == store[id]
    <3>1. stages[id] = Stage(s) /\ passed[id] = Behind(s)
      BY <2>1
    <3>2. store'[id] = r /\ \A m \in Migrations : m # id => store'[m] = store[m]
      BY <2>4 DEF IInv, TypeOK
    <3>3. stages' = [stages EXCEPT ![id] = Stage(r)] /\ passed' = [passed EXCEPT ![id] = Behind(r)]
      <4>1. [m \in Migrations |-> Stage(store'[m])] = [[m \in Migrations |-> Stage(store[m])] EXCEPT ![id] = Stage(r)]
        BY <3>2
      <4>2. [m \in Migrations |-> Behind(store'[m])] = [[m \in Migrations |-> Behind(store[m])] EXCEPT ![id] = Behind(r)]
        BY <3>2
      <4> HIDE DEF stages, passed
      <4> QED
        BY <2>1, <2>2, <4>1, <4>2
    <3>4. /\ Stage(r) = Stage(s) => stages' = stages
          /\ Behind(r) = Behind(s) => passed' = passed
      BY <2>1, <2>2, <3>2
    <3>5. Behind(s) \in Int
      BY <2>4, ExecutorAssumption DEF Behind, IInv, TypeOK, Record
    <3>6. CASE Stage(r) = Stage(s) /\ Behind(r) = Behind(s)
      BY <3>4, <3>6 DEF Lifecycle!vars
    <3>7. CASE Stage(s) = "unborn" /\ Stage(r) = "running" /\ Behind(r) = Behind(s)
      <4>1. Lifecycle!Create(id)
        BY <3>1, <3>3, <3>4, <3>7 DEF Lifecycle!Create, Lifecycle!Become
      <4> QED
        BY <4>1 DEF Lifecycle!Next
    <3>8. CASE Stage(s) = "running" /\ Stage(r) \in {"waiting", "gated", "failed"} /\ Behind(r) = Behind(s)
      <4>1. Lifecycle!Rest(id)
        BY <3>1, <3>3, <3>4, <3>8 DEF Lifecycle!Rest, Lifecycle!Become
      <4> QED
        BY <4>1 DEF Lifecycle!Next
    <3>9. CASE Stage(s) = "waiting" /\ Stage(r) = "failed" /\ Behind(r) = Behind(s)
      <4>1. Lifecycle!Rest(id)
        BY <3>1, <3>3, <3>4, <3>9 DEF Lifecycle!Rest, Lifecycle!Become
      <4> QED
        BY <4>1 DEF Lifecycle!Next
    <3>10. CASE Stage(s) \in {"gated", "failed"} /\ Stage(r) = "running" /\ Behind(r) = Behind(s)
      <4>1. Lifecycle!Resume(id)
        BY <3>1, <3>3, <3>4, <3>10 DEF Lifecycle!Resume, Lifecycle!Become
      <4> QED
        BY <4>1 DEF Lifecycle!Next
    <3>11. CASE Stage(s) = "failed" /\ Stage(r) = "rolled_back" /\ Behind(r) = Behind(s)
      <4>1. Lifecycle!RollBack(id)
        BY <3>1, <3>3, <3>4, <3>11 DEF Lifecycle!RollBack, Lifecycle!Become
      <4> QED
        BY <4>1 DEF Lifecycle!Next
    <3>12. CASE /\ Stage(s) = "running" /\ Stage(r) = "completed"
                /\ Behind(r) = Behind(s) /\ Behind(s) \in {0, NSteps}
      <4>1. Lifecycle!Complete(id)
        BY <3>1, <3>3, <3>4, <3>12 DEF Lifecycle!Complete, Lifecycle!Become
      <4> QED
        BY <4>1 DEF Lifecycle!Next
    <3>13. CASE /\ Stage(s) \in {"running", "waiting"} /\ Stage(r) = "running"
                /\ Behind(r) = Behind(s) + 1 /\ Behind(s) < NSteps
      <4>1. Lifecycle!Pass(id)
        BY <3>1, <3>3, <3>13 DEF Lifecycle!Pass
      <4>2. CASE Stage(s) = "running"
        <5>1. Lifecycle!PassStep(id)
          BY <3>1, <3>4, <3>13, <4>1, <4>2 DEF Lifecycle!PassStep
        <5> QED
          BY <5>1 DEF Lifecycle!Next
      <4>3. CASE Stage(s) = "waiting"
        <5>1. Lifecycle!Resume(id)
          BY <3>1, <3>3, <3>13, <4>1, <4>3 DEF Lifecycle!Resume, Lifecycle!Become
        <5> QED
          BY <5>1 DEF Lifecycle!Next
      <4> QED
        BY <3>13, <4>2, <4>3
    <3> QED
      BY <2>4, <3>6, <3>7, <3>8, <3>9, <3>10, <3>11, <3>12, <3>13 DEF Turn
  <2>5. StoreTurns
    BY NextKept DEF Kept
  <2> QED
    BY <2>3, <2>4, <2>5 DEF StoreTurns
<1> QED
  BY <1>1, <1>2, OperatorInvariance, PTL DEF Spec, FollowsLifecycle, Lifecycle!Spec

(***************************************************************************)
(* Batches: one operator who starts migrations and batches and rolls back. *)
(***************************************************************************)
\* The requests of one operator who starts migrations and batches and rolls
\* back what has failed, with the store on disk.
OneQueue ==
    /\ \A g, h \in Handlers : g = h
    /\ Calls \subseteq {"batch", "start", "rollback"}
    /\ FileStore
    /\ Steady

Working(w) == pc[w] \in AtWork \ {"already"}
NoneWorks  == \A w \in Workers : ~Working(w)
NoneRuns   == \A id \in Migrations : ~IsRunning(id)

\* A goroutine may be at l, holding c, while the store has s.
MayWork(l, c, s) ==
    /\ s \notin {Unborn, Deleted} /\ l \notin {"panic", "recover"}
    /\ IF l = "already" THEN s.status = "completed" ELSE s.status = "running"
    /\ l \in (InStep \ {"judge"}) \cup {"reread", "already"} => s.cur <= NSteps
    /\ l \in {"judge", "gate"} => c.status = "running"
WorkInv == \A w \in Workers : pc[w] \in AtWork => MayWork(pc[w], copy[w], store[job[w]])

\* Where a goroutine may stand.
WorkerPlaces == \A w \in Workers : pc[w] \in {"idle", "exit"} \cup AtWork \cup Keeping

SoleInv == \A v, w \in Workers : Working(v) /\ Working(w) => v = w

\* A request may be at l, on migration id with record s, holding c.
Undoable(s) == s \notin {Unborn, Deleted} /\ s.status \in {"failed", "cancelled"}
MayServe(id, l, c, s) ==
    /\ l \in {"idle", "create", "spawn"} \cup Starting \cup Undoes
    /\ l = "create" =>
        /\ s = Unborn /\ id \notin InBatch /\ c.status = "running" /\ NoneRuns
        /\ batch.status # "running"
    /\ l = "spawn" => IsRunning(id) /\ NoneWorks /\ batch.status # "running"
    /\ l \in Starting => NoneWorks /\ \A m \in Migrations : IsRunning(m) => m = Members[1]
    /\ l = "members" =>
        /\ \E mode \in Modes : c = NewMigration(mode)
        /\ store[Members[1]] = Unborn \/ IsRunning(Members[1])
    /\ l \in {"members", "batch"} => batch = NoBatch
    /\ l \in {"batch", "first"} => IsRunning(Members[1])
    /\ l \in Undoes => Undoable(s) /\ Undoable(c)
ServeInv == \A h \in Handlers : MayServe(job[h], pc[h], copy[h], store[job[h]])

\* Between two members nothing runs.
BetweenMembers ==
    /\ keeper # Nobody /\ ~Working(keeper) /\ pc[keeper] # "run"
    /\ inner # Nobody => ~Working(inner)
QuietInv ==
    /\ BetweenMembers => NoneRuns
    /\ keeper # Nobody /\ pc[keeper] = "run" =>
        NoneWorks /\ IsRunning(Members[batch.index])

KeptAt(places) == keeper # Nobody /\ pc[keeper] \in places

\* A member that is still to come, one that had its turn.
ToCome(s)  == s = Unborn \/ (s \notin {Unborn, Deleted} /\ s.status = "pending" /\ \A t \in Steps : s.steps[t].st = "pending")
Treated(s) == s \notin {Unborn, Deleted} /\ s.status \in {"completed", "failed", "cancelled", "rolled_back"}
Started(s) == s \notin {Unborn, Deleted} /\ s.status # "pending"
StillToCome(i) == (i > 1 /\ i > batch.index) \/ (i = batch.index /\ KeptAt({"next", "launch"}))
HadItsTurn(i)  == i < batch.index \/ (i = batch.index /\ KeptAt({"step"}))
HasItsTurn(i)  == i = batch.index /\ keeper # Nobody /\ ~KeptAt({"next", "launch"})
SeqInv ==
    /\ batch # NoBatch => Exists(Members[1])
    /\ \A i \in 1..Size :
        /\ StillToCome(i) => ToCome(store[Members[i]])
        /\ HadItsTurn(i)  => Treated(store[Members[i]])
        /\ HasItsTurn(i)  => Started(store[Members[i]])
    /\ KeptAt({"step"}) => local.index = batch.index + 1
    /\ KeptAt({"next", "launch", "run"}) => local.index = batch.index
    /\ KeptAt({"launch"}) => copy[keeper].status = "running"
    /\ batch.status = "completed" => batch.index = Size + 1

QInv ==
    /\ cancelled = {} /\ WorkerPlaces /\ WorkInv /\ SoleInv /\ ServeInv
    /\ OneMigrationAtATime /\ QuietInv /\ SeqInv

(***************************************************************************)
(* A goroutine takes a step of its migration.                              *)
(***************************************************************************)
LEMMA QueueTypes ==
    ASSUME BInv
    PROVE  /\ pc \in [Procs -> Labels]
           /\ job \in [Procs -> Migrations \cup {Nobody}]
           /\ copy \in [Procs -> Record \cup {Nobody}]
           /\ store \in [Migrations -> Record \cup {Unborn, Deleted}]
           /\ Workers \subseteq Procs /\ Handlers \subseteq Procs
           /\ Workers \cap Handlers = {} /\ Nobody \notin Workers
           /\ \A p \in Procs : pc[p] # "idle" => job[p] \in Migrations
           /\ \A p \in Procs : Fits(pc[p], copy[p])
           /\ keeper # Nobody => keeper \in Workers
           /\ inner # Nobody => inner \in Workers
           /\ \A p \in Procs : pc[p] \in Keeping => p = keeper
BY ExecutorAssumption
DEF BInv, IInv, TypeOK, Procs, LabelInv, BatchTypes, KeepingInv

\* Goroutine w moves to l, holding c; the record of its migration becomes r.
WorkerStep(w, l, c, r) ==
    /\ pc[w] \in AtWork /\ l \in AtWork \cup {"exit"}
    /\ pc' = [pc EXCEPT ![w] = l] /\ copy' = [copy EXCEPT ![w] = c]
    /\ UNCHANGED <<job, cancelled>>
    /\ store' = [store EXCEPT ![job[w]] = r]
    /\ r \notin {Unborn, Deleted}
    /\ IF l = "exit" THEN r.status \notin {"running", "pending"} ELSE MayWork(l, c, r)
    /\ pc[w] = "already" => l = "exit" /\ r = store[job[w]]

LEMMA WorkerStands ==
    ASSUME BInv, QInv, NEW w \in Workers, pc[w] \in AtWork
    PROVE  /\ w \in Procs /\ job[w] \in Migrations /\ Exists(job[w])
           /\ store[job[w]] \in Good /\ store[job[w]] \in Record
           /\ MayWork(pc[w], copy[w], store[job[w]])
           /\ Working(w) => IsRunning(job[w])
           /\ pc[w] \in Holding => copy[w] \in Good /\ copy[w] \in Record
           /\ pc[w] \in KnownRunning => copy[w].status = "running"
           /\ pc[w] \in InStep => copy[w].cur <= NSteps
<1>1. w \in Procs /\ job[w] \in Migrations /\ Fits(pc[w], copy[w])
  BY QueueTypes DEF AtWork
<1>2. MayWork(pc[w], copy[w], store[job[w]])
  BY DEF QInv, WorkInv
<1>3. Exists(job[w])
  BY <1>2 DEF MayWork, Exists
<1>4. store[job[w]] \in Good /\ store[job[w]] \in Record
  BY <1>1, <1>3, ReadsGood DEF BInv
<1>5. Working(w) => IsRunning(job[w])
  BY <1>2, <1>3 DEF MayWork, IsRunning, Working
<1> QED
  BY <1>1, <1>2, <1>3, <1>4, <1>5, GoodRecords DEF Fits

\* w writes r, which is a record, to the store: it does, the store is steady.
LEMMA WorkerWrites ==
    ASSUME BInv, QInv, Steady, NEW w \in Workers, pc[w] \in AtWork \ {"already"},
           NEW l \in AtWork \cup {"exit"}, NEW c, NEW r \in Record,
           TrySave(job[w], r), Goto(w, l), Hold(w, c), UNCHANGED <<job, cancelled>>,
           IF l = "exit" THEN r.status \notin {"running", "pending"} ELSE MayWork(l, c, r)
    PROVE  \E s : WorkerStep(w, l, c, s)
BY SentinelAssumption DEF WorkerStep, TrySave, SaveFails, Save, Steady, Goto, Hold

\* w leaves the store alone.
LEMMA WorkerOnlyMoves ==
    ASSUME BInv, QInv, NEW w \in Workers, pc[w] \in AtWork,
           NEW l \in AtWork \cup {"exit"}, NEW c,
           UNCHANGED store, Goto(w, l), Hold(w, c), UNCHANGED <<job, cancelled>>,
           IF l = "exit" THEN store[job[w]].status \notin {"running", "pending"}
           ELSE MayWork(l, c, store[job[w]]),
           pc[w] = "already" => l = "exit"
    PROVE  WorkerStep(w, l, c, store[job[w]])
<1>1. store = [store EXCEPT ![job[w]] = store[job[w]]]
  BY QueueTypes
<1>2. store[job[w]] \notin {Unborn, Deleted}
  BY WorkerStands DEF Exists
<1> QED
  BY <1>1, <1>2 DEF WorkerStep, Goto, Hold

LEMMA RunStepsStep ==
    ASSUME BInv, QInv, Steady, NEW w \in Workers, RunSteps(w), ~Exit(w)
    PROVE  \E l, c, r : WorkerStep(w, l, c, r)
<1>0. w \notin cancelled
  BY DEF QInv
<1>1. ASSUME pc[w] \in AtWork
      PROVE  /\ w \in Procs /\ job[w] \in Migrations /\ Exists(job[w])
             /\ store[job[w]] \in Good /\ store[job[w]] \in Record
             /\ MayWork(pc[w], copy[w], store[job[w]])
             /\ Working(w) => IsRunning(job[w])
             /\ pc[w] \in Holding => copy[w] \in Good /\ copy[w] \in Record
             /\ pc[w] \in KnownRunning => copy[w].status = "running"
             /\ pc[w] \in InStep => copy[w].cur <= NSteps
  BY <1>1, WorkerStands
<1>2. CASE Fetch(w)
  <2>1. pc[w] = "top" /\ IsRunning(job[w])
    BY <1>1, <1>2 DEF Fetch, AtWork, Working
  <2>2. Hold(w, store[job[w]]) /\ Goto(w, "begin") /\ UNCHANGED <<store, job, cancelled>>
    BY <1>0, <1>2, <2>1 DEF Fetch, Steady
  <2>3. MayWork("begin", store[job[w]], store[job[w]])
    BY <2>1 DEF MayWork, IsRunning, Exists, InStep
  <2> QED
    BY <2>1, <2>2, <2>3, WorkerOnlyMoves DEF AtWork
<1>3. CASE Finish(w)
  <2>1. /\ pc[w] = "begin" /\ TrySave(job[w], WithStatus(copy[w], "completed"))
        /\ Goto(w, "exit") /\ Hold(w, Nobody) /\ UNCHANGED <<job, cancelled>>
    BY <1>3 DEF Finish, Drop
  <2>2. WithStatus(copy[w], "completed") \in Record /\ WithStatus(copy[w], "completed").status = "completed"
    BY <1>1, <2>1, StatusEffect DEF AtWork, Holding, Status
  <2> QED
    BY <2>1, <2>2, WorkerWrites DEF AtWork
<1>4. CASE Begin(w)
  <2> DEFINE r == WithStep(copy[w], "running")
  <2>1. /\ pc[w] = "begin" /\ copy[w].cur <= NSteps /\ TrySave(job[w], r)
        /\ Goto(w, "exec") /\ Hold(w, r) /\ UNCHANGED <<job, cancelled>>
    BY <1>4 DEF Begin
  <2>2. r \in Record /\ r.status = "running" /\ r.cur <= NSteps
    BY <1>1, <2>1, StepEffect DEF AtWork, Holding, KnownRunning, StepStates
  <2> HIDE DEF r
  <2>3. MayWork("exec", r, r)
    BY <2>2, SentinelAssumption DEF MayWork
  <2> QED
    BY <2>1, <2>2, <2>3, WorkerWrites DEF AtWork
<1>5. CASE StepSucceeds(w)
  <2>1. /\ pc[w] = "exec" /\ TrySave(job[w], copy[w])
        /\ Goto(w, "reread") /\ Hold(w, Nobody) /\ UNCHANGED <<job, cancelled>>
    BY <1>5 DEF StepSucceeds, Drop
  <2>2. copy[w] \in Record /\ copy[w].status = "running" /\ copy[w].cur <= NSteps
    BY <1>1, <2>1 DEF AtWork, Holding, KnownRunning, InStep
  <2>3. MayWork("reread", Nobody, copy[w])
    BY <2>2, SentinelAssumption DEF MayWork
  <2> QED
    BY <2>1, <2>2, <2>3, WorkerWrites DEF AtWork
<1>6. CASE StepFails(w)
  <2>1. /\ pc[w] = "exec" /\ UNCHANGED <<store, job, cancelled>>
        /\ Goto(w, "reread") /\ Hold(w, Nobody)
    BY <1>6 DEF StepFails, Drop
  <2>2. MayWork("reread", Nobody, store[job[w]])
    BY <1>1, <2>1 DEF MayWork, AtWork, InStep
  <2> QED
    BY <2>1, <2>2, WorkerOnlyMoves DEF AtWork
<1>7. CASE AlreadyMigrated(w)
  <2>1. /\ pc[w] = "exec" /\ copy[w].cur = 1 /\ TrySave(job[w], AlreadyDone(copy[w]))
        /\ Goto(w, "already") /\ Hold(w, Nobody) /\ UNCHANGED <<job, cancelled>>
    BY <1>7 DEF AlreadyMigrated, Drop
  <2>2. AlreadyDone(copy[w]) \in Record /\ AlreadyDone(copy[w]).status = "completed" /\ AlreadyDone(copy[w]).cur = 1
    BY <1>1, <2>1, AlreadyEffect DEF AtWork, Holding
  <2>3. 1 <= NSteps
    BY ExecutorAssumption
  <2>4. MayWork("already", Nobody, AlreadyDone(copy[w]))
    BY <2>2, <2>3, SentinelAssumption DEF MayWork
  <2> QED
    BY <2>1, <2>2, <2>4, WorkerWrites DEF AtWork
<1>8. CASE OpenPR(w)
  <2>1. pc[w] = "exec" /\ UNCHANGED <<store, job, cancelled>> /\ Goto(w, "opened")
    BY <1>8 DEF OpenPR
  <2>2. PICK c : Hold(w, c)
    BY <1>8 DEF OpenPR
  <2>3. MayWork("opened", c, store[job[w]])
    BY <1>1, <2>1 DEF MayWork, AtWork, InStep
  <2> QED
    BY <2>1, <2>2, <2>3, WorkerOnlyMoves DEF AtWork
<1>9. CASE LogFirst(w)
  <2>1. pc[w] \in DOMAIN FirstLog /\ pc[w] \in Labels
    BY <1>9, QueueTypes DEF LogFirst
  <2>2. CASE pc[w] = "opened"
    <3>1. /\ TrySave(job[w], copy[w]) /\ Goto(w, "pr") /\ UNCHANGED <<copy, job, cancelled>>
      BY <1>9, <2>2 DEF LogFirst, FirstLog
    <3>2. copy[w] \in Record /\ copy[w].status = "running" /\ copy[w].cur <= NSteps
      BY <1>1, <2>2 DEF AtWork, Holding, KnownRunning, InStep
    <3>3. MayWork("pr", copy[w], copy[w])
      BY <3>2, SentinelAssumption DEF MayWork
    <3>4. Hold(w, copy[w])
      BY <3>1, QueueTypes DEF Hold
    <3> QED
      BY <2>2, <3>1, <3>2, <3>3, <3>4, WorkerWrites DEF AtWork
  <2>3. CASE pc[w] # "opened"
    BY <1>9, <2>1, <2>3 DEF QInv, WorkerPlaces, FirstLog, AtWork, Keeping
  <2> QED
    BY <2>2, <2>3
<1>10. CASE AutoMerge(w)
  <2>1. pc[w] = "pr" /\ UNCHANGED <<store, copy, job, cancelled>> /\ \E l \in {"merged", "parked"} : Goto(w, l)
    BY <1>10 DEF AutoMerge
  <2>2. \A l \in {"merged", "parked"} : MayWork(l, copy[w], store[job[w]])
    BY <1>1, <2>1 DEF MayWork, AtWork, InStep
  <2>3. Hold(w, copy[w])
    BY <2>1, QueueTypes DEF Hold
  <2> QED
    BY <2>1, <2>2, <2>3, WorkerOnlyMoves DEF AtWork
<1>11. CASE SaveMerged(w)
  <2>1. /\ pc[w] = "merged" /\ TrySave(job[w], Merged(copy[w]))
        /\ Goto(w, "reread") /\ Hold(w, Nobody) /\ UNCHANGED <<job, cancelled>>
    BY <1>11 DEF SaveMerged, Drop
  <2>2. Merged(copy[w]) \in Record /\ Merged(copy[w]).status = "running" /\ Merged(copy[w]).cur <= NSteps
    BY <1>1, <2>1, HostEffect DEF AtWork, Holding, KnownRunning, InStep
  <2>3. MayWork("reread", Nobody, Merged(copy[w]))
    BY <2>2, SentinelAssumption DEF MayWork
  <2> QED
    BY <2>1, <2>2, <2>3, WorkerWrites DEF AtWork
<1>12. CASE SaveParked(w)
  <2>1. /\ pc[w] \in {"parked", "pr"} /\ TrySave(job[w], Parked(copy[w]))
        /\ Goto(w, "reread") /\ Hold(w, Nobody) /\ UNCHANGED <<job, cancelled>>
    BY <1>12 DEF SaveParked, Drop
  <2>2. Parked(copy[w]) \in Record /\ Parked(copy[w]).status = "running" /\ Parked(copy[w]).cur <= NSteps
    BY <1>1, <2>1, HostEffect DEF AtWork, Holding, KnownRunning, InStep
  <2>3. MayWork("reread", Nobody, Parked(copy[w]))
    BY <2>2, SentinelAssumption DEF MayWork
  <2> QED
    BY <2>1, <2>2, <2>3, WorkerWrites DEF AtWork
<1>13. CASE Reread(w)
  <2>1. pc[w] \in {"reread", "already"} /\ UNCHANGED <<store, job, cancelled>>
    BY <1>13 DEF Reread
  <2>2. Exists(job[w]) /\ store[job[w]].cur <= NSteps /\ MayWork(pc[w], copy[w], store[job[w]])
    BY <1>1, <2>1 DEF MayWork, AtWork
  <2>3. ~(store[job[w]].cur > NSteps)
    BY <1>1, <2>1, <2>2, ExecutorAssumption DEF AtWork, Record
  <2>4. IF pc[w] = "already" THEN Drop(w, "exit") ELSE Hold(w, store[job[w]]) /\ Goto(w, "judge")
    BY <1>13, <2>2, <2>3 DEF Reread, Steady
  <2>5. CASE pc[w] = "already"
    <3>1. store[job[w]].status = "completed"
      BY <2>2, <2>5 DEF MayWork
    <3> QED
      BY <2>1, <2>4, <2>5, <3>1, WorkerOnlyMoves DEF AtWork, Drop
  <2>6. CASE pc[w] = "reread"
    <3>1. MayWork("judge", store[job[w]], store[job[w]])
      BY <2>2, <2>6 DEF MayWork
    <3> QED
      BY <2>1, <2>4, <2>6, <3>1, WorkerOnlyMoves DEF AtWork
  <2> QED
    BY <2>1, <2>5, <2>6
<1>14. CASE Fail(w)
  <2>1. /\ pc[w] = "judge" /\ TrySave(job[w], Failing(copy[w]))
        /\ Goto(w, "exit") /\ Hold(w, Nobody) /\ UNCHANGED <<job, cancelled>>
    BY <1>14 DEF Fail, Drop
  <2>2. Failing(copy[w]) \in Record /\ Failing(copy[w]).status = "failed"
    BY <1>1, <2>1, FailingEffect DEF AtWork, Holding, InStep
  <2> QED
    BY <2>1, <2>2, WorkerWrites DEF AtWork
<1>15. CASE Wait(w)
  <2>1. /\ pc[w] = "judge" /\ TrySave(job[w], WithStatus(copy[w], "waiting"))
        /\ Goto(w, "exit") /\ Hold(w, Nobody) /\ UNCHANGED <<job, cancelled>>
    BY <1>15 DEF Wait, Drop
  <2>2. WithStatus(copy[w], "waiting") \in Record /\ WithStatus(copy[w], "waiting").status = "waiting"
    BY <1>1, <2>1, StatusEffect DEF AtWork, Holding, Status
  <2> QED
    BY <2>1, <2>2, WorkerWrites DEF AtWork
<1>16. CASE Advance(w)
  <2> DEFINE r == Advanced(copy[w])
  <2>1. /\ pc[w] = "judge" /\ TrySave(job[w], r) /\ UNCHANGED <<job, cancelled>>
        /\ \/ Goto(w, "gate") /\ Hold(w, r)
           \/ Goto(w, "top") /\ Hold(w, Nobody)
    BY <1>16 DEF Advance, Drop
  <2>2. copy[w].status = "running"
    BY <1>1, <2>1 DEF AtWork, MayWork
  <2>3. r \in Record /\ r.status = "running"
    BY <1>1, <2>1, <2>2, AdvancedEffect DEF AtWork, Holding, InStep
  <2> HIDE DEF r
  <2>4. MayWork("gate", r, r) /\ MayWork("top", Nobody, r)
    BY <2>3, SentinelAssumption DEF MayWork, InStep
  <2> QED
    BY <2>1, <2>3, <2>4, WorkerWrites DEF AtWork
<1>17. CASE Gate(w)
  <2>1. /\ pc[w] = "gate" /\ TrySave(job[w], WithStatus(copy[w], "gated"))
        /\ Goto(w, "exit") /\ Hold(w, Nobody) /\ UNCHANGED <<job, cancelled>>
    BY <1>17 DEF Gate, Drop
  <2>2. WithStatus(copy[w], "gated") \in Record /\ WithStatus(copy[w], "gated").status = "gated"
    BY <1>1, <2>1, StatusEffect DEF AtWork, Holding, Status
  <2> QED
    BY <2>1, <2>2, WorkerWrites DEF AtWork
<1>18. CASE RecoverRead(w) \/ RecoverSave(w)
  BY <1>1, <1>18 DEF RecoverRead, RecoverSave, AtWork, MayWork
<1> QED
  BY <1>2, <1>3, <1>4, <1>5, <1>6, <1>7, <1>8, <1>9, <1>10, <1>11, <1>12, <1>13, <1>14, <1>15,
     <1>16, <1>17, <1>18 DEF RunSteps

\* Only a running migration is worked on, but for the completed one whose
\* goroutine is about to end.
LEMMA WorkerMoves ==
    ASSUME BInv, QInv, NEW w \in Workers, NEW l, NEW c, NEW r, WorkerStep(w, l, c, r)
    PROVE  /\ w \in Procs /\ job[w] \in Migrations
           /\ pc'[w] = l /\ copy'[w] = c /\ store'[job[w]] = r
           /\ \A p \in Procs : p # w => pc'[p] = pc[p] /\ copy'[p] = copy[p]
           /\ \A m \in Migrations : m # job[w] => store'[m] = store[m]
           /\ Working(w) \/ (pc[w] = "already" /\ l = "exit" /\ store' = store)
           /\ Working(w) => IsRunning(job[w]) /\ \A m \in Migrations : IsRunning(m) => m = job[w]
<1>1. w \in Procs /\ job[w] \in Migrations /\ (Working(w) => IsRunning(job[w]))
  BY WorkerStands DEF WorkerStep
<1>2. \A m \in Migrations : Working(w) /\ IsRunning(m) => m = job[w]
  BY <1>1 DEF QInv, OneMigrationAtATime
<1>3. /\ pc'[w] = l /\ copy'[w] = c /\ store'[job[w]] = r
      /\ \A p \in Procs : p # w => pc'[p] = pc[p] /\ copy'[p] = copy[p]
      /\ \A m \in Migrations : m # job[w] => store'[m] = store[m]
  BY <1>1, QueueTypes DEF WorkerStep
<1>4. Working(w) \/ (pc[w] = "already" /\ l = "exit" /\ store' = store)
  <2>1. CASE pc[w] = "already"
    BY <1>1, <2>1, QueueTypes DEF WorkerStep
  <2> QED
    BY <2>1 DEF WorkerStep, Working
<1> QED
  BY <1>1, <1>2, <1>3, <1>4

LEMMA WorkerKeeps ==
    ASSUME BInv, QInv, UNCHANGED bvars,
           NEW w \in Workers, NEW l, NEW c, NEW r, WorkerStep(w, l, c, r)
    PROVE  QInv'
<1> DEFINE id == job[w]
<1>1. /\ w \in Procs /\ id \in Migrations
      /\ pc'[w] = l /\ copy'[w] = c /\ store'[id] = r
      /\ \A p \in Procs : p # w => pc'[p] = pc[p] /\ copy'[p] = copy[p]
      /\ \A m \in Migrations : m # id => store'[m] = store[m]
      /\ Working(w) \/ (pc[w] = "already" /\ l = "exit" /\ store' = store)
      /\ Working(w) => IsRunning(id) /\ \A m \in Migrations : IsRunning(m) => m = id
  BY WorkerMoves
<1>2. /\ pc[w] \in AtWork /\ l \in AtWork \cup {"exit"}
      /\ job' = job /\ cancelled' = cancelled /\ r \notin {Unborn, Deleted}
      /\ IF l = "exit" THEN r.status \notin {"running", "pending"} ELSE MayWork(l, c, r)
  BY DEF WorkerStep
<1>3. /\ Workers \subseteq Procs /\ Handlers \subseteq Procs /\ Workers \cap Handlers = {}
      /\ batch' = batch /\ local' = local /\ keeper' = keeper /\ inner' = inner
      /\ (keeper # Nobody => keeper \in Workers) /\ (inner # Nobody => inner \in Workers)
  BY QueueTypes DEF bvars
<1>4. r.status # "pending"
  BY <1>2 DEF MayWork
<1>5. l = "already" \/ l = "exit" => r.status # "running"
  BY <1>2 DEF MayWork
<1> HIDE DEF id
<1>6. cancelled' = {} /\ WorkerPlaces'
  BY <1>1, <1>2, <1>3 DEF QInv, WorkerPlaces
<1>7. WorkInv'
  <2> SUFFICES ASSUME NEW v \in Workers, pc'[v] \in AtWork
               PROVE  MayWork(pc'[v], copy'[v], store'[job[v]])
    BY <1>2 DEF WorkInv, MayWork
  <2>1. CASE v = w
    BY <1>1, <1>2, <2>1 DEF id, AtWork
  <2>2. CASE v # w
    <3>1. pc'[v] = pc[v] /\ copy'[v] = copy[v] /\ MayWork(pc[v], copy[v], store[job[v]])
      BY <1>1, <1>3, <2>2 DEF QInv, WorkInv
    <3>2. CASE Working(w) /\ job[v] = id
      <4>1. pc[v] = "already"
        BY <2>2, <3>1, <3>2 DEF QInv, SoleInv, Working
      <4> QED
        BY <1>1, <3>1, <3>2, <4>1 DEF MayWork, IsRunning
    <3>3. CASE Working(w) /\ job[v] # id
      <4>1. job[v] \in Migrations
        BY <1>3, <3>1, QueueTypes DEF AtWork
      <4> QED
        BY <1>1, <3>1, <3>3, <4>1
    <3> QED
      BY <1>1, <3>1, <3>2, <3>3
  <2> QED
    BY <2>1, <2>2
<1>8. \A v \in Workers : Working(v)' => Working(v)
  BY <1>1, <1>2, <1>3 DEF Working, AtWork
<1>9. SoleInv'
  BY <1>8 DEF QInv, SoleInv
<1>10. \A m \in Migrations : IsRunning(m)' => IsRunning(m)
  BY <1>1 DEF IsRunning, Exists
<1>11. OneMigrationAtATime'
  BY <1>10 DEF QInv, OneMigrationAtATime
<1>12. NoneRuns => NoneRuns'
  BY <1>10 DEF NoneRuns
<1>13. NoneWorks => NoneWorks' /\ store' = store
  BY <1>1, <1>8 DEF NoneWorks
<1>14. ServeInv'
  <2> SUFFICES ASSUME NEW h \in Handlers
               PROVE  MayServe(job[h], pc[h], copy[h], store[job[h]])'
    BY DEF ServeInv
  <2>1. MayServe(job[h], pc[h], copy[h], store[job[h]])
    BY DEF QInv, ServeInv
  <2>2. pc'[h] = pc[h] /\ copy'[h] = copy[h] /\ job'[h] = job[h]
    BY <1>1, <1>2, <1>3
  <2>3. CASE pc[h] \in Undoes
    <3>1. store[job[h]] = store'[job[h]]
      <4>1. Undoable(store[job[h]])
        BY <2>1, <2>3 DEF MayServe
      <4>2. job[h] \in Migrations
        BY <1>3, <2>3, QueueTypes DEF Undoes
      <4>3. Working(w) => job[h] # id
        BY <1>1, <4>1 DEF IsRunning, Undoable
      <4> QED
        BY <1>1, <4>2, <4>3
    <3> QED
      BY <2>1, <2>2, <2>3, <3>1 DEF MayServe, Undoes, Starting, Undoable
  <2>4. CASE pc[h] = "create"
    <3>1. NoneRuns /\ ~Working(w)
      BY <1>1, <2>1, <2>4 DEF MayServe, NoneRuns
    <3>2. NoneRuns' /\ store' = store
      BY <1>1, <1>12, <3>1
    <3> QED
      BY <1>3, <2>1, <2>2, <2>4, <3>2 DEF MayServe, Undoes, Starting
  <2>5. CASE pc[h] \in {"spawn"} \cup Starting
    <3>1. NoneWorks
      BY <2>1, <2>5 DEF MayServe, Starting
    <3>2. NoneWorks' /\ store' = store
      BY <1>13, <3>1
    <3> QED
      BY <1>3, <2>1, <2>2, <2>5, <3>2 DEF MayServe, Undoes, Starting, IsRunning, Exists
  <2>6. CASE pc[h] = "idle"
    BY <2>2, <2>6 DEF MayServe, Undoes, Starting
  <2> QED
    BY <2>1, <2>3, <2>4, <2>5, <2>6 DEF MayServe
<1>15. QuietInv'
  <2>1. ASSUME BetweenMembers' PROVE NoneRuns'
    <3>1. keeper # Nobody
      BY <1>3, <2>1 DEF BetweenMembers
    <3>2. CASE BetweenMembers
      BY <1>12, <3>2 DEF QInv, QuietInv
    <3>3. CASE ~BetweenMembers
      <4>1. Working(w) /\ ~Working(w)'
        BY <1>1, <1>2, <1>3, <2>1, <3>1, <3>3 DEF BetweenMembers, Working, AtWork
      <4>2. r.status # "running"
        BY <1>1, <1>2, <1>5, <4>1 DEF Working
      <4> QED
        BY <1>1, <1>10, <4>1, <4>2 DEF NoneRuns, IsRunning
    <3> QED
      BY <3>2, <3>3
  <2>2. ASSUME keeper' # Nobody, pc'[keeper'] = "run"
        PROVE  NoneWorks' /\ IsRunning(Members[batch.index])'
    <3>1. keeper # Nobody /\ pc[keeper] = "run"
      BY <1>1, <1>2, <1>3, <2>2 DEF AtWork
    <3>2. NoneWorks /\ IsRunning(Members[batch.index])
      BY <3>1 DEF QInv, QuietInv
    <3> QED
      BY <1>3, <1>13, <3>2 DEF IsRunning, Exists
  <2> QED
    BY <2>1, <2>2 DEF QuietInv
<1>16. SeqInv'
  <2>1. \A places \in SUBSET {"next", "launch", "run", "step"} : KeptAt(places)' = KeptAt(places)
    BY <1>1, <1>2, <1>3 DEF KeptAt, AtWork
  <2>2. /\ KeptAt({"next", "launch"})' = KeptAt({"next", "launch"})
        /\ KeptAt({"step"})' = KeptAt({"step"})
        /\ KeptAt({"launch"})' = KeptAt({"launch"})
        /\ KeptAt({"next", "launch", "run"})' = KeptAt({"next", "launch", "run"})
    BY <2>1
  <2>3. \A m \in Migrations :
          /\ ToCome(store[m]) => store'[m] = store[m]
          /\ Treated(store[m]) => store'[m] = store[m]
          /\ Started(store[m]) => Started(store'[m])
          /\ Exists(m) => Exists(m)'
    BY <1>1, <1>2, <1>4 DEF ToCome, Treated, Started, IsRunning, Exists
  <2>4. copy'[keeper] = copy[keeper] \/ ~KeptAt({"launch"})
    BY <1>1, <1>2, <1>3 DEF KeptAt, AtWork
  <2>5. \A i \in 1..Size : Members[i] \in Migrations
    BY MemberFacts
  <2>6. \A i : /\ StillToCome(i)' = StillToCome(i)
               /\ HadItsTurn(i)' = HadItsTurn(i)
               /\ HasItsTurn(i)' = HasItsTurn(i)
    BY <1>3, <2>2 DEF StillToCome, HadItsTurn, HasItsTurn
  <2>7. \A i \in 1..Size :
          /\ StillToCome(i)' => ToCome(store'[Members[i]])
          /\ HadItsTurn(i)'  => Treated(store'[Members[i]])
          /\ HasItsTurn(i)'  => Started(store'[Members[i]])
    BY <2>3, <2>5, <2>6 DEF QInv, SeqInv
  <2>8. batch' # NoBatch => Exists(Members[1])'
    BY <1>3, <2>3, <2>5, MemberFacts DEF QInv, SeqInv
  <2> QED
    BY <1>3, <2>2, <2>4, <2>7, <2>8 DEF QInv, SeqInv, ToCome, Treated, Started
<1> QED
  BY <1>6, <1>7, <1>9, <1>11, <1>14, <1>15, <1>16 DEF QInv

(***************************************************************************)
(* A goroutine that does not work moves, or the keeper does.               *)
(***************************************************************************)
\* While there is a keeper the requests only roll back.
LEMMA KeeperAlone ==
    ASSUME BInv, QInv, keeper # Nobody
    PROVE  /\ batch.status = "running" /\ batch.index \in 1..Size /\ batch # NoBatch
           /\ keeper \in Workers /\ keeper \in Procs
           /\ \A h \in Handlers : pc[h] \in {"idle"} \cup Undoes
<1>1. batch.status = "running" /\ batch.index \in 1..Size
  BY DEF BInv, KeeperInv
<1>2. batch # NoBatch
  BY <1>1 DEF NoBatch
<1>3. ASSUME NEW h \in Handlers PROVE pc[h] \in {"idle"} \cup Undoes
  <2>1. MayServe(job[h], pc[h], copy[h], store[job[h]]) /\ h \in Procs
    BY QueueTypes DEF QInv, ServeInv
  <2>2. pc[h] \notin Starting
    BY <2>1 DEF BInv, StartingInv
  <2>3. pc[h] \notin {"create", "spawn"}
    BY <1>1, <2>1 DEF MayServe
  <2> QED
    BY <2>1, <2>2, <2>3 DEF MayServe
<1> QED
  BY <1>1, <1>2, <1>3, QueueTypes

LEMMA ServeWhileKept ==
    ASSUME BInv, QInv, keeper # Nobody,
           \A h \in Handlers : pc'[h] = pc[h] /\ copy'[h] = copy[h] /\ job'[h] = job[h],
           \A m \in Migrations : Undoable(store[m]) => store'[m] = store[m]
    PROVE  ServeInv'
<1> SUFFICES ASSUME NEW h \in Handlers
             PROVE  MayServe(job[h], pc[h], copy[h], store[job[h]])'
  BY DEF ServeInv
<1>1. MayServe(job[h], pc[h], copy[h], store[job[h]]) /\ pc[h] \in {"idle"} \cup Undoes
  BY KeeperAlone DEF QInv, ServeInv
<1>2. pc'[h] = pc[h] /\ copy'[h] = copy[h] /\ job'[h] = job[h]
  OBVIOUS
<1>3. pc[h] \in Undoes => job[h] \in Migrations
  BY QueueTypes DEF Undoes
<1>4. pc[h] \in Undoes => Undoable(store'[job[h]])
  BY <1>1, <1>3 DEF MayServe
<1> QED
  BY <1>1, <1>2, <1>4 DEF MayServe, Undoes, Starting, Undoable

LEMMA ServeStays ==
    ASSUME BInv, QInv, batch' = batch, store' = store, NoneWorks => NoneWorks',
           \A h \in Handlers : pc'[h] = pc[h] /\ copy'[h] = copy[h] /\ job'[h] = job[h]
    PROVE  ServeInv'
<1> SUFFICES ASSUME NEW h \in Handlers
             PROVE  MayServe(job[h], pc[h], copy[h], store[job[h]])'
  BY DEF ServeInv
<1>1. MayServe(job[h], pc[h], copy[h], store[job[h]])
  BY DEF QInv, ServeInv
<1>2. NoneRuns' = NoneRuns /\ \A m : IsRunning(m)' = IsRunning(m)
  BY DEF NoneRuns, IsRunning, Exists
<1> QED
  BY <1>1, <1>2 DEF MayServe, Undoes, Starting, Undoable

\* Goroutine w, which does not work, moves to l, where it does not work either.
Rests(w, l) ==
    /\ pc[w] \notin AtWork /\ l \in {"idle", "exit"} \cup Keeping
    /\ pc'[w] = l
    /\ \A p \in Procs : p # w => pc'[p] = pc[p] /\ copy'[p] = copy[p] /\ job'[p] = job[p]
    /\ cancelled' \subseteq cancelled

LEMMA RestMoves ==
    ASSUME BInv, QInv, NEW w \in Workers, NEW l, Rests(w, l), store' = store
    PROVE  /\ cancelled' = {} /\ WorkerPlaces' /\ WorkInv' /\ SoleInv' /\ OneMigrationAtATime'
           /\ NoneRuns' = NoneRuns
           /\ \A v \in Workers : Working(v)' = Working(v)
           /\ NoneWorks' = NoneWorks
           /\ \A h \in Handlers : pc'[h] = pc[h] /\ copy'[h] = copy[h] /\ job'[h] = job[h]
<1>1. /\ pc[w] \notin AtWork /\ pc'[w] = l /\ l \in {"idle", "exit"} \cup Keeping /\ l \notin AtWork
      /\ \A p \in Procs : p # w => pc'[p] = pc[p] /\ copy'[p] = copy[p] /\ job'[p] = job[p]
      /\ cancelled' = {}
  BY DEF Rests, AtWork, Keeping, QInv
<1>2. Workers \subseteq Procs /\ Handlers \subseteq Procs /\ w \in Procs /\ w \notin Handlers
  BY QueueTypes
<1>3. WorkerPlaces'
  BY <1>1, <1>2 DEF QInv, WorkerPlaces
<1>4. WorkInv'
  BY <1>1, <1>2 DEF QInv, WorkInv, MayWork
<1>5. \A v \in Workers : Working(v)' = Working(v)
  BY <1>1, <1>2 DEF Working
<1>6. SoleInv' /\ NoneWorks' = NoneWorks
  BY <1>5 DEF QInv, SoleInv, NoneWorks
<1>7. \A m : IsRunning(m)' = IsRunning(m)
  BY DEF IsRunning, Exists
<1>8. OneMigrationAtATime' /\ NoneRuns' = NoneRuns
  BY <1>7 DEF QInv, OneMigrationAtATime, NoneRuns
<1> QED
  BY <1>1, <1>2, <1>3, <1>4, <1>5, <1>6, <1>8

\* A run ends: of a migration outside the batch, or the one that advanceBatch
\* waits for; or that of the first member.
LEMMA RunEndsKeeps ==
    ASSUME BInv, QInv, NEW w \in Workers, NEW l,
           Rests(w, l), pc[w] = "exit", l \in {"idle", "advance"},
           UNCHANGED <<store, batch, local, keeper>>,
           w = keeper => l = "advance",
           inner' = inner \/ (w = inner /\ inner' = Nobody)
    PROVE  QInv'
<1>1. /\ cancelled' = {} /\ WorkerPlaces' /\ WorkInv' /\ SoleInv' /\ OneMigrationAtATime'
      /\ NoneRuns' = NoneRuns /\ NoneWorks' = NoneWorks
      /\ \A v \in Workers : Working(v)' = Working(v)
      /\ \A h \in Handlers : pc'[h] = pc[h] /\ copy'[h] = copy[h] /\ job'[h] = job[h]
  BY RestMoves
<1>2. ServeInv'
  BY <1>1, ServeStays
<1>3. /\ pc'[w] = l
      /\ \A p \in Procs : p # w => pc'[p] = pc[p] /\ copy'[p] = copy[p]
  BY DEF Rests
<1>4. /\ Workers \subseteq Procs /\ (keeper # Nobody => keeper \in Workers)
      /\ (inner # Nobody => inner \in Workers) /\ ~Working(w)
  BY QueueTypes DEF Working, AtWork
<1>5. \A places \in SUBSET {"next", "launch", "run", "step"} : KeptAt(places)' = KeptAt(places)
  BY <1>3, <1>4 DEF KeptAt
<1>6. /\ KeptAt({"next", "launch"})' = KeptAt({"next", "launch"})
      /\ KeptAt({"step"})' = KeptAt({"step"})
      /\ KeptAt({"launch"})' = KeptAt({"launch"})
      /\ KeptAt({"next", "launch", "run"})' = KeptAt({"next", "launch", "run"})
  BY <1>5
<1>7. QuietInv'
  <2>1. BetweenMembers' => BetweenMembers
    BY <1>1, <1>3, <1>4 DEF BetweenMembers
  <2>2. keeper' # Nobody /\ pc'[keeper] = "run" => keeper # Nobody /\ pc[keeper] = "run"
    BY <1>3, <1>4
  <2> QED
    BY <1>1, <2>1, <2>2 DEF QInv, QuietInv, IsRunning, Exists
<1>8. SeqInv'
  <2>1. \A i : /\ StillToCome(i)' = StillToCome(i)
               /\ HadItsTurn(i)' = HadItsTurn(i)
               /\ HasItsTurn(i)' = HasItsTurn(i)
    BY <1>6 DEF StillToCome, HadItsTurn, HasItsTurn
  <2>2. copy'[keeper] = copy[keeper] \/ ~KeptAt({"launch"})
    BY <1>3, <1>4 DEF KeptAt
  <2> QED
    BY <1>6, <2>1, <2>2 DEF QInv, SeqInv, Exists
<1> QED
  BY <1>1, <1>2, <1>7, <1>8 DEF QInv

LEMMA RunEnds ==
    ASSUME BInv, QInv, NEW w \in Workers,
           \/ RunStepsHere(w) /\ Exit(w)
           \/ FirstMemberEnds(w)
           \/ InnerEnds(w)
    PROVE  QInv'
<1>0. /\ pc \in [Procs -> Labels] /\ job \in [Procs -> Migrations \cup {Nobody}]
      /\ copy \in [Procs -> Record \cup {Nobody}] /\ w \in Procs /\ w # Nobody
  BY QueueTypes
<1>1. CASE RunStepsHere(w) /\ Exit(w)
  <2>1. /\ pc[w] = "exit" /\ UNCHANGED store /\ UNCHANGED bvars /\ w \notin {keeper, inner}
    BY <1>1 DEF RunStepsHere, Exit
  <2>2. Rests(w, "idle")
    BY <1>0, <1>1 DEF Rests, Exit, Drop, Goto, Hold, AtWork
  <2> QED
    BY <2>1, <2>2, RunEndsKeeps DEF bvars
<1>2. CASE FirstMemberEnds(w)
  <2>1. /\ pc[w] = "exit" /\ UNCHANGED store /\ UNCHANGED bvars
    BY <1>2 DEF FirstMemberEnds
  <2>2. Rests(w, "advance")
    BY <1>0, <1>2 DEF Rests, FirstMemberEnds, Goto, AtWork, Keeping
  <2> QED
    BY <2>1, <2>2, RunEndsKeeps DEF bvars
<1>3. CASE InnerEnds(w)
  <2>1. /\ pc[w] = "exit" /\ UNCHANGED <<store, batch, local, keeper>> /\ w = inner /\ inner' = Nobody
    BY <1>3 DEF InnerEnds, Exit
  <2>2. Rests(w, "idle")
    BY <1>0, <1>3 DEF Rests, InnerEnds, Exit, Drop, Goto, Hold, AtWork
  <2>3. w # keeper
    BY <1>0, <2>1 DEF BInv, InnerInv
  <2> QED
    BY <2>1, <2>2, <2>3, RunEndsKeeps
<1> QED
  BY <1>1, <1>2, <1>3

(***************************************************************************)
(* The keeper inside advanceBatch.                                         *)
(***************************************************************************)
\* It moves to l and writes the batch at most.
LEMMA KeeperRests ==
    ASSUME BInv, QInv, NEW w \in Workers, w = keeper, pc[w] \in Keeping,
           NEW l \in {"exit"} \cup Keeping, Goto(w, l),
           copy' = copy \/ \E c : Hold(w, c),
           UNCHANGED <<store, job, cancelled>>,
           QuietInv', SeqInv'
    PROVE  QInv'
<1>1. Rests(w, l)
  BY QueueTypes DEF Rests, Goto, Hold, Keeping, AtWork
<1>2. /\ cancelled' = {} /\ WorkerPlaces' /\ WorkInv' /\ SoleInv' /\ OneMigrationAtATime'
      /\ \A h \in Handlers : pc'[h] = pc[h] /\ copy'[h] = copy[h] /\ job'[h] = job[h]
  BY <1>1, RestMoves
<1>3. ServeInv'
  BY <1>2, ServeWhileKept, QueueTypes
<1> QED
  BY <1>2, <1>3 DEF QInv

\* What a member's place in the batch says about it, while the keeper is there.
LEMMA KeeperStands ==
    ASSUME BInv, QInv, NEW w \in Workers, w = keeper, pc[w] \in Keeping
    PROVE  /\ keeper # Nobody /\ batch.status = "running" /\ batch.index \in 1..Size
           /\ batch.index \in Nat /\ Size \in Nat
           /\ pc[w] # "advance" => inner = Nobody
           /\ pc[w] \notin {"run", "advance"} => NoneRuns /\ NoneWorks
           /\ pc[w] = "step" => local.index = batch.index + 1
           /\ pc[w] \in {"next", "launch", "run"} => local.index = batch.index
           /\ pc[w] # "advance" => local \in BatchRecord /\ local.status = "running"
           /\ Exists(Members[1])
<1>0. keeper # Nobody /\ batch.status = "running" /\ batch.index \in 1..Size /\ batch # NoBatch
  BY KeeperAlone, QueueTypes
<1>1. pc[w] # "advance" => inner = Nobody
  BY DEF BInv, InnerInv
<1>2. ASSUME pc[w] \notin {"run", "advance"} PROVE NoneRuns /\ NoneWorks
  <2>1. BetweenMembers
    BY <1>0, <1>1, <1>2 DEF BetweenMembers, Working, AtWork, Keeping
  <2>2. NoneRuns
    BY <2>1 DEF QInv, QuietInv
  <2>3. \A v \in Workers : Working(v) => IsRunning(job[v]) /\ job[v] \in Migrations
    BY WorkerStands DEF Working
  <2> QED
    BY <2>2, <2>3 DEF NoneRuns, NoneWorks
<1>3. /\ pc[w] = "step" => local.index = batch.index + 1
      /\ pc[w] \in {"next", "launch", "run"} => local.index = batch.index
  BY <1>0 DEF QInv, SeqInv, KeptAt
<1>4. pc[w] # "advance" => local \in BatchRecord /\ local.status = "running"
  <2>1. local \in BatchRecord \cup {NoBatch}
    BY DEF BInv, BatchTypes
  <2>2. pc[w] # "advance" => local.status = "running"
    BY QueueTypes DEF BInv, KeepingInv
  <2> QED
    BY <2>1, <2>2 DEF NoBatch
<1> QED
  BY <1>0, <1>1, <1>2, <1>3, <1>4, MemberFacts DEF QInv, SeqInv

LEMMA CheckMemberKeepsQueue ==
    ASSUME BInv, QInv, Steady, NEW w \in Workers, CheckMember(w)
    PROVE  QInv'
<1> DEFINE current == Members[batch.index]
<1>1. /\ w = keeper /\ pc[w] = "advance" /\ inner = Nobody
      /\ UNCHANGED <<store, job, cancelled, batch, inner>>
  BY DEF CheckMember
<1>2. /\ keeper # Nobody /\ batch.status = "running" /\ batch.index \in 1..Size
      /\ batch.index \in Nat /\ Size \in Nat /\ Exists(Members[1])
  BY <1>1, KeeperStands DEF Keeping
<1>3. Started(store[current])
  BY <1>1, <1>2 DEF QInv, SeqInv, HasItsTurn, KeptAt
<1>4. current \in Migrations
  BY <1>2, MemberFacts
<1>5. CASE /\ Exists(current) /\ ~StillActive(current)
           /\ local' = [batch EXCEPT !.index = @ + 1]
           /\ Goto(w, "step") /\ UNCHANGED <<copy, keeper>>
  <2>1. store[current] \in Record
    BY <1>4, <1>5, QueueTypes DEF Exists
  <2>2. Treated(store[current])
    BY <1>3, <1>5, <2>1 DEF Treated, Started, StillActive, Exists, Record, Status, Active
  <2>3. pc'[w] = "step" /\ w \in Procs /\ w \notin {Nobody}
    BY <1>1, <1>2, <1>5, QueueTypes DEF Goto
  <2>4. QuietInv'
    <3>1. NoneRuns
      BY <1>1, <1>2 DEF QInv, QuietInv, BetweenMembers, Working, AtWork
    <3> QED
      BY <1>1, <1>5, <2>3, <3>1 DEF QuietInv, NoneRuns, IsRunning, Exists
  <2>5. SeqInv'
    <3>1. local'.index = batch.index + 1
      <4>1. batch \in BatchRecord
        BY <1>2 DEF BInv, BatchTypes, NoBatch
      <4> QED
        BY <1>5, <4>1 DEF BatchRecord
    <3>2. \A i \in 1..Size :
            /\ StillToCome(i)' => StillToCome(i)
            /\ HadItsTurn(i)' => HadItsTurn(i) \/ i = batch.index
            /\ HasItsTurn(i)' => HasItsTurn(i)
      BY <1>1, <1>2, <1>5, <2>3 DEF StillToCome, HadItsTurn, HasItsTurn, KeptAt
    <3>3. \A i \in 1..Size :
            /\ StillToCome(i)' => ToCome(store'[Members[i]])
            /\ HadItsTurn(i)'  => Treated(store'[Members[i]])
            /\ HasItsTurn(i)'  => Started(store'[Members[i]])
      BY <1>1, <2>2, <3>2 DEF QInv, SeqInv
    <3> QED
      BY <1>1, <1>2, <1>5, <2>3, <3>1, <3>3 DEF SeqInv, KeptAt, Exists
  <2> QED
    BY <1>1, <1>5, <2>4, <2>5, KeeperRests DEF Keeping
<1>6. CASE Leave(w)
  <2>1. keeper' = Nobody /\ Goto(w, "exit") /\ Hold(w, Nobody)
    BY <1>6 DEF Leave, Drop
  <2>2. QuietInv'
    BY <2>1 DEF QuietInv, BetweenMembers
  <2>3. SeqInv'
    <3>1. \A i \in 1..Size :
            /\ StillToCome(i)' => StillToCome(i)
            /\ HadItsTurn(i)' => HadItsTurn(i)
            /\ ~HasItsTurn(i)'
      BY <1>1, <2>1 DEF StillToCome, HadItsTurn, HasItsTurn, KeptAt
    <3> QED
      BY <1>1, <1>2, <2>1, <3>1 DEF QInv, SeqInv, KeptAt, Exists
  <2> QED
    BY <1>1, <2>1, <2>2, <2>3, KeeperRests DEF Keeping
<1> QED
  BY <1>5, <1>6 DEF CheckMember

LEMMA StepBatchKeepsQueue ==
    ASSUME BInv, QInv, Steady, NEW w \in Workers, StepBatch(w)
    PROVE  QInv'
<1>1. /\ w = keeper /\ pc[w] = "step"
      /\ UNCHANGED <<store, job, cancelled, inner>>
  BY DEF StepBatch
<1>2. /\ keeper # Nobody /\ batch.status = "running" /\ batch.index \in 1..Size
      /\ batch.index \in Nat /\ Size \in Nat /\ Exists(Members[1])
      /\ NoneRuns /\ local.index = batch.index + 1 /\ local \in BatchRecord /\ local.status = "running"
  BY <1>1, KeeperStands DEF Keeping
<1>3. Treated(store[Members[batch.index]])
  BY <1>1, <1>2 DEF QInv, SeqInv, HadItsTurn, KeptAt
<1>4. CASE /\ local.index > Size
           /\ SaveBatch([local EXCEPT !.status = "completed"]) /\ Leave(w)
  <2>1. /\ keeper' = Nobody /\ Goto(w, "exit") /\ Hold(w, Nobody)
        /\ batch' = [local EXCEPT !.status = "completed"]
    BY <1>4 DEF Leave, Drop, SaveBatch, Steady
  <2>2. batch.index = Size /\ batch'.index = Size + 1 /\ batch'.status = "completed"
    BY <1>2, <1>4, <2>1 DEF BatchRecord
  <2>3. QuietInv'
    BY <2>1 DEF QuietInv, BetweenMembers
  <2>4. SeqInv'
    <3>1. \A i \in 1..Size :
            /\ ~StillToCome(i)'
            /\ HadItsTurn(i)' => HadItsTurn(i) \/ i = batch.index
            /\ ~HasItsTurn(i)'
      BY <1>1, <1>2, <2>1, <2>2 DEF StillToCome, HadItsTurn, HasItsTurn, KeptAt
    <3> QED
      BY <1>1, <1>2, <1>3, <2>1, <2>2, <3>1 DEF QInv, SeqInv, KeptAt, Exists
  <2> QED
    BY <1>1, <2>1, <2>3, <2>4, KeeperRests DEF Keeping
<1>5. CASE /\ ~(local.index > Size)
           /\ SaveBatch(local) /\ Goto(w, "next") /\ UNCHANGED <<copy, local, keeper>>
  <2>1. batch' = local
    BY <1>5 DEF SaveBatch, Steady
  <2>2. pc'[w] = "next"
    BY <1>5, QueueTypes DEF Goto
  <2>3. QuietInv'
    BY <1>1, <1>2, <1>5, <2>2 DEF QuietInv, NoneRuns, IsRunning, Exists
  <2>4. SeqInv'
    <3>1. \A i \in 1..Size :
            /\ StillToCome(i)' => StillToCome(i)
            /\ HadItsTurn(i)' => HadItsTurn(i) \/ i = batch.index
            /\ ~HasItsTurn(i)'
      BY <1>1, <1>2, <1>5, <2>1, <2>2 DEF StillToCome, HadItsTurn, HasItsTurn, KeptAt
    <3> QED
      BY <1>1, <1>2, <1>3, <1>5, <2>1, <2>2, <3>1 DEF QInv, SeqInv, KeptAt, Exists
  <2> QED
    BY <1>1, <1>5, <2>3, <2>4, KeeperRests DEF Keeping
<1> QED
  BY <1>4, <1>5 DEF StepBatch

LEMMA ReadNextKeepsQueue ==
    ASSUME BInv, QInv, Steady, NEW w \in Workers, ReadNext(w)
    PROVE  QInv'
<1> DEFINE next == Members[local.index]
<1>1. /\ w = keeper /\ pc[w] = "next"
      /\ UNCHANGED <<store, job, cancelled, inner>>
  BY DEF ReadNext
<1>2. /\ keeper # Nobody /\ batch.status = "running" /\ batch.index \in 1..Size
      /\ batch.index \in Nat /\ Size \in Nat /\ Exists(Members[1])
      /\ NoneRuns /\ local.index = batch.index /\ local \in BatchRecord /\ local.status = "running"
  BY <1>1, KeeperStands DEF Keeping
<1>3. CASE /\ Exists(next) /\ Hold(w, WithStatus(store[next], "running")) /\ Goto(w, "launch")
           /\ UNCHANGED <<batch, local, keeper>>
  <2>1. pc'[w] = "launch" /\ copy'[w] = WithStatus(store[next], "running")
    BY <1>3, QueueTypes DEF Goto, Hold
  <2>2. copy'[w].status = "running"
    <3>1. next \in Migrations
      BY <1>2, MemberFacts
    <3>2. store[next] \in Record
      BY <1>3, <3>1, QueueTypes DEF Exists
    <3> QED
      BY <2>1, <3>2 DEF WithStatus, Record
  <2>3. QuietInv'
    BY <1>1, <1>2, <1>3, <2>1 DEF QuietInv, NoneRuns, IsRunning, Exists
  <2>4. SeqInv'
    <3>1. \A i \in 1..Size :
            /\ StillToCome(i)' => StillToCome(i)
            /\ HadItsTurn(i)' => HadItsTurn(i)
            /\ ~HasItsTurn(i)'
      BY <1>1, <1>3, <2>1 DEF StillToCome, HadItsTurn, HasItsTurn, KeptAt
    <3> QED
      BY <1>1, <1>2, <1>3, <2>1, <2>2, <3>1 DEF QInv, SeqInv, KeptAt, Exists
  <2> QED
    BY <1>1, <1>3, <2>3, <2>4, KeeperRests DEF Keeping
<1>4. CASE SaveBatch([local EXCEPT !.status = "failed"]) /\ Leave(w)
  <2>1. /\ keeper' = Nobody /\ Goto(w, "exit") /\ Hold(w, Nobody)
        /\ batch' = [local EXCEPT !.status = "failed"]
    BY <1>4 DEF Leave, Drop, SaveBatch, Steady
  <2>2. batch'.index = batch.index /\ batch'.status = "failed"
    BY <1>2, <2>1 DEF BatchRecord
  <2>3. QuietInv'
    BY <2>1 DEF QuietInv, BetweenMembers
  <2>4. SeqInv'
    <3>1. \A i \in 1..Size :
            /\ StillToCome(i)' => StillToCome(i)
            /\ HadItsTurn(i)' => HadItsTurn(i)
            /\ ~HasItsTurn(i)'
      BY <1>1, <2>1, <2>2 DEF StillToCome, HadItsTurn, HasItsTurn, KeptAt
    <3> QED
      BY <1>1, <1>2, <2>1, <2>2, <3>1 DEF QInv, SeqInv, KeptAt, Exists
  <2> QED
    BY <1>1, <2>1, <2>3, <2>4, KeeperRests DEF Keeping
<1> QED
  BY <1>3, <1>4 DEF ReadNext

LEMMA LaunchKeepsQueue ==
    ASSUME BInv, QInv, Steady, NEW w \in Workers, Launch(w)
    PROVE  QInv'
<1> DEFINE id == Members[batch.index]
<1>1. /\ w = keeper /\ pc[w] = "launch" /\ Goto(w, "run") /\ Hold(w, Nobody)
      /\ UNCHANGED <<job, cancelled, batch, local, keeper, inner>>
  BY DEF Launch, Drop, bvars
<1>2. /\ keeper # Nobody /\ batch.status = "running" /\ batch.index \in 1..Size
      /\ batch.index \in Nat /\ Size \in Nat /\ Exists(Members[1])
      /\ NoneRuns /\ NoneWorks /\ local.index = batch.index /\ inner = Nobody
  BY <1>1, KeeperStands DEF Keeping
<1>3. /\ id \in Migrations
      /\ \A i \in 1..Size : Members[i] \in Migrations /\ (Members[i] = id => i = batch.index)
  BY <1>2, MemberFacts
<1>4. ToCome(store[id])
  BY <1>1, <1>2 DEF QInv, SeqInv, StillToCome, KeptAt
<1>5. copy[w] \in Record /\ copy[w].status = "running"
  <2>1. copy[w] \in Good
    BY <1>1, QueueTypes DEF Fits, Holding
  <2>2. copy[w].status = "running"
    BY <1>1, <1>2 DEF QInv, SeqInv, KeptAt
  <2> QED
    BY <2>1, <2>2, GoodRecords
<1>6. /\ store'[id] = copy[w] /\ \A m \in Migrations : m # id => store'[m] = store[m]
  <2>1. store' = [store EXCEPT ![id] = copy[w]]
    BY <1>2 DEF Launch, TrySave, SaveFails, Save, Steady
  <2> QED
    BY <1>3, <2>1, QueueTypes
<1>7. IsRunning(id)' /\ \A m \in Migrations : IsRunning(m)' => m = id
  BY <1>1, <1>2, <1>3, <1>5, <1>6, SentinelAssumption DEF IsRunning, Exists, NoneRuns
<1>8. /\ pc'[w] = "run" /\ w \in Procs
      /\ \A p \in Procs : p # w => pc'[p] = pc[p] /\ copy'[p] = copy[p] /\ job'[p] = job[p]
      /\ Workers \subseteq Procs /\ Handlers \subseteq Procs /\ w \notin Handlers
  BY <1>1, QueueTypes DEF Goto, Hold
<1> HIDE DEF id
<1>9. \A v \in Workers : Working(v)' = Working(v)
  BY <1>1, <1>8 DEF Working, AtWork
<1>10. cancelled' = {} /\ WorkerPlaces' /\ SoleInv' /\ NoneWorks'
  BY <1>1, <1>2, <1>8, <1>9 DEF QInv, WorkerPlaces, SoleInv, NoneWorks, Keeping
<1>11. OneMigrationAtATime'
  BY <1>7 DEF OneMigrationAtATime
<1>12. WorkInv'
  <2> SUFFICES ASSUME NEW v \in Workers, pc'[v] \in AtWork
               PROVE  MayWork(pc'[v], copy'[v], store'[job[v]])
    BY <1>1 DEF WorkInv, MayWork
  <2>1. v # w /\ pc[v] = "already"
    BY <1>2, <1>8, <1>9 DEF NoneWorks, Working, AtWork
  <2>2. MayWork("already", copy[v], store[job[v]]) /\ job[v] \in Migrations
    BY <2>1, QueueTypes DEF QInv, WorkInv, AtWork
  <2>3. job[v] # id
    BY <1>4, <2>2 DEF MayWork, ToCome
  <2> QED
    BY <1>6, <1>8, <2>1, <2>2, <2>3
<1>13. ServeInv'
  <2>1. \A m \in Migrations : Undoable(store[m]) => store'[m] = store[m]
    BY <1>4, <1>6 DEF Undoable, ToCome
  <2>2. \A h \in Handlers : pc'[h] = pc[h] /\ copy'[h] = copy[h] /\ job'[h] = job[h]
    BY <1>8
  <2> QED
    BY <1>2, <2>1, <2>2, ServeWhileKept
<1>14. QuietInv'
  BY <1>1, <1>7, <1>8, <1>10 DEF QuietInv, BetweenMembers, id
<1>15. SeqInv'
  <2>1. \A i \in 1..Size :
          /\ StillToCome(i)' => StillToCome(i) /\ i # batch.index
          /\ HadItsTurn(i)' => HadItsTurn(i) /\ i # batch.index
          /\ HasItsTurn(i)' => i = batch.index
    BY <1>1, <1>2, <1>8 DEF StillToCome, HadItsTurn, HasItsTurn, KeptAt
  <2>2. Started(copy[w])
    BY <1>5, SentinelAssumption DEF Started
  <2>3. \A i \in 1..Size :
          /\ StillToCome(i)' => ToCome(store'[Members[i]])
          /\ HadItsTurn(i)'  => Treated(store'[Members[i]])
          /\ HasItsTurn(i)'  => Started(store'[Members[i]])
    BY <1>3, <1>6, <2>1, <2>2 DEF QInv, SeqInv, id
  <2>4. Exists(Members[1])'
    BY <1>2, <1>3, <1>5, <1>6, MemberFacts, SentinelAssumption DEF Exists
  <2> QED
    BY <1>1, <1>2, <1>8, <2>3, <2>4 DEF SeqInv, KeptAt
<1> QED
  BY <1>10, <1>11, <1>12, <1>13, <1>14, <1>15 DEF QInv

LEMMA RunMemberKeepsQueue ==
    ASSUME BInv, QInv, Steady, NEW w \in Workers, RunMember(w)
    PROVE  QInv'
<1>1. /\ w = keeper /\ pc[w] = "run"
      /\ UNCHANGED <<store, copy, cancelled, batch, keeper>>
  BY DEF RunMember
<1>2. /\ keeper # Nobody /\ batch.status = "running" /\ batch.index \in 1..Size
      /\ batch.index \in Nat /\ Size \in Nat /\ Exists(Members[1]) /\ local.index = batch.index
  BY <1>1, KeeperStands DEF Keeping
<1>3. NoneWorks /\ IsRunning(Members[batch.index])
  BY <1>1, <1>2 DEF QInv, QuietInv
<1>4. PICK v \in Workers :
        /\ pc[v] = "idle"
        /\ pc' = [pc EXCEPT ![v] = "top", ![w] = "advance"]
        /\ job' = [job EXCEPT ![v] = Members[local.index]]
        /\ inner' = v
  BY DEF RunMember
<1>5. /\ v # w /\ pc'[v] = "top" /\ pc'[w] = "advance" /\ job'[v] = Members[batch.index]
      /\ \A p \in Procs : p \notin {v, w} => pc'[p] = pc[p]
      /\ \A p \in Procs : p # v => job'[p] = job[p]
      /\ Workers \subseteq Procs /\ Handlers \subseteq Procs /\ w \in Procs
      /\ v \notin Handlers /\ w \notin Handlers /\ v # Nobody
  BY <1>1, <1>2, <1>4, QueueTypes
<1>6. \A u \in Workers : Working(u)' => u = v
  BY <1>3, <1>5 DEF NoneWorks, Working, AtWork
<1>7. cancelled' = {} /\ WorkerPlaces' /\ SoleInv' /\ OneMigrationAtATime'
  BY <1>1, <1>5, <1>6 DEF QInv, WorkerPlaces, SoleInv, OneMigrationAtATime, IsRunning, Exists,
     AtWork, Keeping
<1>8. WorkInv'
  <2> SUFFICES ASSUME NEW u \in Workers, pc'[u] \in AtWork
               PROVE  MayWork(pc'[u], copy[u], store[job'[u]])
    BY <1>1 DEF WorkInv, MayWork
  <2>1. CASE u = v
    BY <1>3, <1>5, <2>1 DEF MayWork, IsRunning, Exists, InStep
  <2>2. CASE u # v
    BY <1>5, <2>2 DEF QInv, WorkInv, AtWork
  <2> QED
    BY <2>1, <2>2
<1>9. ServeInv'
  <2>1. \A h \in Handlers : pc'[h] = pc[h] /\ copy'[h] = copy[h] /\ job'[h] = job[h]
    BY <1>1, <1>5
  <2> QED
    BY <1>1, <1>2, <2>1, ServeWhileKept
<1>10. QuietInv'
  BY <1>1, <1>4, <1>5 DEF QuietInv, BetweenMembers, Working, AtWork
<1>11. SeqInv'
  <2>1. \A i \in 1..Size :
          /\ StillToCome(i)' => StillToCome(i)
          /\ HadItsTurn(i)' => HadItsTurn(i)
          /\ HasItsTurn(i)' => HasItsTurn(i)
    BY <1>1, <1>5 DEF StillToCome, HadItsTurn, HasItsTurn, KeptAt
  <2> QED
    BY <1>1, <1>2, <1>5, <2>1 DEF QInv, SeqInv, KeptAt, Exists
<1> QED
  BY <1>7, <1>8, <1>9, <1>10, <1>11 DEF QInv

LEMMA KeepBatchQueue ==
    ASSUME BInv, QInv, Steady, NEW w \in Workers, KeepBatch(w)
    PROVE  QInv'
<1>1. ~MemberPanics(w)
  BY DEF MemberPanics, QInv, WorkInv, MayWork, AtWork
<1> QED
  BY <1>1, RunEnds, CheckMemberKeepsQueue, StepBatchKeepsQueue, ReadNextKeepsQueue,
     LaunchKeepsQueue, RunMemberKeepsQueue DEF KeepBatch

LEMMA RunStepsQueue ==
    ASSUME BInv, QInv, Steady, NEW w \in Workers, RunStepsHere(w)
    PROVE  QInv'
<1>1. CASE Exit(w)
  BY <1>1, RunEnds
<1>2. CASE ~Exit(w)
  BY <1>2, RunStepsStep, WorkerKeeps DEF RunStepsHere
<1> QED
  BY <1>1, <1>2

(***************************************************************************)
(* The operator's request.                                                 *)
(***************************************************************************)
OneHandler == \A g, h \in Handlers : g = h

Undone(s) == s \notin {Unborn, Deleted} /\ s.status \in {"failed", "cancelled", "rolled_back"}

\* Request h moves and the goroutines do not; the store changes, if at all,
\* where a migration is rolled back.
Asks(h) ==
    /\ \A p \in Procs : p # h => pc'[p] = pc[p] /\ copy'[p] = copy[p] /\ job'[p] = job[p]
    /\ cancelled' = cancelled /\ UNCHANGED bvars
    /\ \A m \in Migrations : store'[m] = store[m] \/ (Undoable(store[m]) /\ Undone(store'[m]))

LEMMA AsksKeeps ==
    ASSUME BInv, QInv, OneHandler, NEW h \in Handlers, Asks(h),
           MayServe(job[h], pc[h], copy[h], store[job[h]])'
    PROVE  QInv'
<1>1. /\ \A p \in Procs : p # h => pc'[p] = pc[p] /\ copy'[p] = copy[p] /\ job'[p] = job[p]
      /\ cancelled' = cancelled
      /\ batch' = batch /\ local' = local /\ keeper' = keeper /\ inner' = inner
      /\ \A m \in Migrations : store'[m] = store[m] \/ (Undoable(store[m]) /\ Undone(store'[m]))
  BY DEF Asks, bvars
<1>2. /\ Workers \subseteq Procs /\ h \notin Workers
      /\ (keeper # Nobody => keeper \in Workers) /\ (inner # Nobody => inner \in Workers)
  BY QueueTypes
<1>3. \A v \in Workers : pc'[v] = pc[v] /\ copy'[v] = copy[v] /\ job'[v] = job[v] /\ Working(v)' = Working(v)
  BY <1>1, <1>2 DEF Working
<1>4. \A m \in Migrations : IsRunning(m)' = IsRunning(m)
  BY <1>1 DEF IsRunning, Exists, Undoable, Undone
<1>5. ServeInv'
  <2>1. \A g \in Handlers : g = h
    BY DEF OneHandler
  <2> QED
    BY <2>1 DEF ServeInv
<1>6. WorkInv'
  <2> SUFFICES ASSUME NEW v \in Workers, pc'[v] \in AtWork
               PROVE  MayWork(pc'[v], copy'[v], store'[job'[v]])
    BY DEF WorkInv, MayWork
  <2>1. MayWork(pc[v], copy[v], store[job[v]]) /\ job[v] \in Migrations
    BY <1>2, <1>3, QueueTypes DEF QInv, WorkInv, AtWork
  <2>2. store'[job[v]] = store[job[v]]
    BY <1>1, <2>1 DEF MayWork, Undoable
  <2> QED
    BY <1>3, <2>1, <2>2
<1>7. cancelled' = {} /\ WorkerPlaces' /\ SoleInv' /\ OneMigrationAtATime'
  BY <1>1, <1>3, <1>4 DEF QInv, WorkerPlaces, SoleInv, OneMigrationAtATime
<1>8. BetweenMembers' = BetweenMembers /\ NoneRuns' = NoneRuns /\ NoneWorks' = NoneWorks
  BY <1>1, <1>2, <1>3, <1>4 DEF BetweenMembers, NoneRuns, NoneWorks
<1>9. QuietInv'
  <2>1. ASSUME keeper # Nobody, pc[keeper] = "run" PROVE IsRunning(Members[batch.index])'
    <3>1. batch.index \in 1..Size
      BY <2>1, KeeperAlone
    <3>2. Members[batch.index] \in Migrations
      BY <3>1, MemberFacts
    <3> QED
      BY <1>1, <1>4, <2>1, <3>2 DEF QInv, QuietInv, IsRunning, Exists
  <2> QED
    BY <1>1, <1>2, <1>3, <1>8, <2>1 DEF QInv, QuietInv
<1>10. SeqInv'
  <2>1. \A places : KeptAt(places)' = KeptAt(places)
    BY <1>1, <1>2, <1>3 DEF KeptAt
  <2>2. \A i : /\ StillToCome(i)' = StillToCome(i)
               /\ HadItsTurn(i)' = HadItsTurn(i)
               /\ HasItsTurn(i)' = HasItsTurn(i)
    BY <1>1, <2>1 DEF StillToCome, HadItsTurn, HasItsTurn
  <2>3. \A m \in Migrations :
          /\ ToCome(store[m]) => ToCome(store'[m])
          /\ Treated(store[m]) => Treated(store'[m])
          /\ Started(store[m]) => Started(store'[m])
          /\ Exists(m) => Exists(m)'
    BY <1>1 DEF ToCome, Treated, Started, Exists, Undoable, Undone
  <2>4. \A i \in 1..Size : Members[i] \in Migrations
    BY MemberFacts
  <2>5. \A i \in 1..Size :
          /\ StillToCome(i)' => ToCome(store'[Members[i]])
          /\ HadItsTurn(i)'  => Treated(store'[Members[i]])
          /\ HasItsTurn(i)'  => Started(store'[Members[i]])
    BY <2>2, <2>3, <2>4 DEF QInv, SeqInv
  <2>6. batch' # NoBatch => Exists(Members[1])'
    BY <1>1, <2>3, <2>4, MemberFacts DEF QInv, SeqInv
  <2>7. KeptAt({"launch"}) => copy'[keeper] = copy[keeper]
    BY <1>2, <1>3 DEF KeptAt
  <2> QED
    BY <1>1, <2>1, <2>5, <2>6, <2>7 DEF QInv, SeqInv
<1> QED
  BY <1>5, <1>6, <1>7, <1>9, <1>10 DEF QInv

\* The request for a rollback, and what it writes.
Undoing(h) ==
    \/ \E id \in Migrations : Rollback(h, id)
    \/ LogFirst(h) \/ RollbackPR(h) \/ RollbackEnd(h) \/ AddLog(h)

Undid(h) ==
    /\ Asks(h)
    /\ MayServe(job[h], pc[h], copy[h], store[job[h]])'
    /\ pc'[h] \in {"idle"} \cup Undoes

LEMMA UndoesAsk ==
    ASSUME BInv, QInv, Steady, NEW h \in Handlers, UNCHANGED bvars, Undoing(h)
    PROVE  Undid(h)
<1>0. /\ h \in Procs /\ pc \in [Procs -> Labels] /\ job \in [Procs -> Migrations \cup {Nobody}]
      /\ copy \in [Procs -> Record \cup {Nobody}]
      /\ pc[h] # "idle" => job[h] \in Migrations
      /\ store \in [Migrations -> Record \cup {Unborn, Deleted}]
      /\ pc[h] \in Holding => copy[h] \in Record
  BY QueueTypes, GoodRecords DEF Fits
<1>1. MayServe(job[h], pc[h], copy[h], store[job[h]])
  BY DEF QInv, ServeInv
<1>2. ASSUME NEW id \in Migrations, Rollback(h, id) PROVE Undid(h)
  <2>1. /\ Undoable(store[id]) /\ store' = store /\ cancelled' = cancelled
        /\ pc' = [pc EXCEPT ![h] = "reverting"] /\ copy' = [copy EXCEPT ![h] = store[id]]
        /\ job' = [job EXCEPT ![h] = id]
    BY <1>2 DEF Rollback, Take, Goto, Hold, Undoable, Exists
  <2>2. Asks(h)
    BY <1>0, <2>1 DEF Asks
  <2>3. pc'[h] = "reverting" /\ copy'[h] = store[id] /\ job'[h] = id
    BY <1>0, <2>1
  <2>4. MayServe(job[h], pc[h], copy[h], store[job[h]])'
    BY <2>1, <2>3 DEF MayServe, Undoes, Starting, Undoable
  <2> QED
    BY <2>2, <2>3, <2>4 DEF Undid, Undoes
<1>3. ASSUME LogFirst(h) \/ RollbackPR(h) \/ AddLog(h) PROVE Undid(h)
  <2>1. pc[h] \in Undoes
    BY <1>1, <1>3 DEF LogFirst, FirstLog, RollbackPR, AddLog, Logging, MayServe, Starting, Undoes
  <2>2. /\ store' = [store EXCEPT ![job[h]] = copy[h]]
        /\ pc' = pc \/ pc' = [pc EXCEPT ![h] = "rollback"]
        /\ UNCHANGED <<copy, job, cancelled>>
    BY <1>3, <2>1 DEF LogFirst, FirstLog, RollbackPR, AddLog, TrySave, SaveFails, Save, Goto,
       Steady, Undoes
  <2>3. Undoable(store[job[h]]) /\ Undoable(copy[h]) /\ job[h] \in Migrations
    BY <1>0, <1>1, <2>1 DEF MayServe, Undoes
  <2>4. Asks(h)
    BY <1>0, <2>2, <2>3 DEF Asks, Undoable, Undone
  <2>5. pc'[h] \in Undoes /\ copy'[h] = copy[h] /\ job'[h] = job[h] /\ store'[job[h]] = copy[h]
    BY <1>0, <2>1, <2>2, <2>3 DEF Undoes
  <2>6. MayServe(job[h], pc[h], copy[h], store[job[h]])'
    BY <2>3, <2>5 DEF MayServe, Undoes, Starting, Undoable
  <2> QED
    BY <2>4, <2>5, <2>6 DEF Undid
<1>4. ASSUME RollbackEnd(h) PROVE Undid(h)
  <2> DEFINE r == WithStatus(copy[h], IF h \in failed THEN "failed" ELSE "rolled_back")
  <2>1. /\ pc[h] = "rollback" /\ store' = [store EXCEPT ![job[h]] = r]
        /\ pc' = [pc EXCEPT ![h] = "idle"] /\ copy' = [copy EXCEPT ![h] = Nobody]
        /\ job' = [job EXCEPT ![h] = Nobody] /\ cancelled' = cancelled
    BY <1>4 DEF RollbackEnd, TrySave, SaveFails, Save, Steady, Answer, Drop, Goto, Hold
  <2>2. r \in Record /\ r.status \in {"failed", "rolled_back"}
    BY <1>0, <2>1, StatusEffect DEF Holding, Status
  <2> HIDE DEF r
  <2>3. Undoable(store[job[h]]) /\ job[h] \in Migrations
    BY <1>0, <1>1, <2>1 DEF MayServe, Undoes
  <2>4. Asks(h)
    BY <1>0, <2>1, <2>2, <2>3, SentinelAssumption DEF Asks, Undone
  <2>5. pc'[h] = "idle"
    BY <1>0, <2>1
  <2>6. MayServe(job[h], pc[h], copy[h], store[job[h]])'
    BY <2>5 DEF MayServe, Undoes, Starting
  <2> QED
    BY <2>4, <2>5, <2>6 DEF Undid
<1> QED
  BY <1>2, <1>3, <1>4 DEF Undoing

LEMMA UndoesKeep ==
    ASSUME BInv, QInv, OneHandler, Steady, NEW h \in Handlers, UNCHANGED bvars, Undoing(h)
    PROVE  QInv'
BY UndoesAsk, AsksKeeps DEF Undid

\* The request for a migration or for a batch: nothing runs when it is let in.
LEMMA NoneActive ==
    ASSUME BInv, QInv, ~HasActiveMigration
    PROVE  NoneRuns /\ NoneWorks
<1>1. NoneRuns
  BY DEF NoneRuns, HasActiveMigration, IsRunning, Active
<1>2. \A v \in Workers : Working(v) => IsRunning(job[v]) /\ job[v] \in Migrations
  BY WorkerStands DEF Working
<1> QED
  BY <1>1, <1>2 DEF NoneRuns, NoneWorks

LEMMA StartKeepsQueue ==
    ASSUME BInv, QInv, OneHandler, FileStore, NEW h \in Handlers, UNCHANGED bvars,
           NEW id \in Migrations \ InBatch, NEW mode \in Modes, Start(h, id, mode), ~BatchCountsAsActive
    PROVE  QInv'
<1>0. /\ h \in Procs /\ pc \in [Procs -> Labels] /\ job \in [Procs -> Migrations \cup {Nobody}]
      /\ copy \in [Procs -> Record \cup {Nobody}]
  BY QueueTypes
<1>1. NoneRuns /\ batch.status # "running"
  BY NoneActive DEF Start, BatchCountsAsActive
<1>2. /\ store' = store /\ cancelled' = cancelled /\ store[id] = Unborn
      /\ pc' = [pc EXCEPT ![h] = "create"] /\ copy' = [copy EXCEPT ![h] = NewMigration(mode)]
      /\ job' = [job EXCEPT ![h] = id]
  BY DEF Start, Take, Goto, Hold
<1>3. Asks(h)
  BY <1>0, <1>2 DEF Asks
<1>4. pc'[h] = "create" /\ copy'[h] = NewMigration(mode) /\ job'[h] = id
  BY <1>0, <1>2
<1>5. NoneRuns' /\ batch'.status # "running"
  BY <1>1, <1>2 DEF NoneRuns, IsRunning, Exists, bvars
<1>6. copy'[h].status = "running"
  <2>1. NewMigration(mode).status = "running"
    BY DEF NewMigration
  <2> QED
    BY <1>4, <2>1
<1>7. MayServe(job[h], pc[h], copy[h], store[job[h]])'
  BY <1>2, <1>4, <1>5, <1>6 DEF MayServe, Undoes, Starting
<1> QED
  BY <1>3, <1>7, AsksKeeps

LEMMA StartBatchKeepsQueue ==
    ASSUME BInv, QInv, OneHandler, NEW h \in Handlers, NEW mode \in Modes, StartBatch(h, mode)
    PROVE  QInv'
<1>0. /\ h \in Procs /\ pc \in [Procs -> Labels] /\ job \in [Procs -> Migrations \cup {Nobody}]
      /\ copy \in [Procs -> Record \cup {Nobody}]
  BY QueueTypes
<1>1. NoneRuns /\ NoneWorks
  BY NoneActive DEF StartBatch
<1>2. /\ store' = store /\ cancelled' = cancelled /\ UNCHANGED bvars
      /\ pc' = [pc EXCEPT ![h] = "members"] /\ copy' = [copy EXCEPT ![h] = NewMigration(mode)]
      /\ job' = [job EXCEPT ![h] = Members[1]]
  BY DEF StartBatch, Take, Goto, Hold
<1>3. store[Members[1]] = Unborn
  BY MemberFacts DEF StartBatch
<1>4. batch = NoBatch
  BY <1>3 DEF QInv, SeqInv, Exists
<1>5. Asks(h)
  BY <1>0, <1>2 DEF Asks
<1>6. pc'[h] = "members" /\ copy'[h] = NewMigration(mode) /\ job'[h] = Members[1]
  BY <1>0, <1>2, MemberFacts
<1>7. NoneRuns' /\ batch' = NoBatch
  BY <1>1, <1>2, <1>4 DEF NoneRuns, IsRunning, Exists, bvars
<1>8. NoneWorks'
  BY <1>0, <1>1, <1>2, QueueTypes DEF NoneWorks, Working
<1>9. MayServe(job[h], pc[h], copy[h], store[job[h]])'
  BY <1>2, <1>3, <1>6, <1>7, <1>8 DEF MayServe, Undoes, Starting, NoneRuns
<1> QED
  BY <1>5, <1>9, AsksKeeps

\* The first record of a migration: of one that is started, of a member.
LEMMA NewRecordKeeps ==
    ASSUME BInv, QInv, OneHandler, NEW h \in Handlers, keeper = Nobody, NoneWorks,
           UNCHANGED <<bvars, cancelled>>,
           \A p \in Procs : p # h => pc'[p] = pc[p] /\ copy'[p] = copy[p] /\ job'[p] = job[p],
           NEW id \in Migrations, NEW r \in Record, store[id] = Unborn, Save(id, r),
           r.status = "running" => NoneRuns,
           \A i \in 1..Size : Members[i] = id => batch = NoBatch /\ (i = 1 \/ ToCome(r)),
           MayServe(job[h], pc[h], copy[h], store[job[h]])'
    PROVE  QInv'
<1>1. /\ batch' = batch /\ local' = local /\ keeper' = Nobody /\ inner' = inner /\ cancelled' = cancelled
      /\ Workers \subseteq Procs /\ h \notin Workers /\ store'[id] = r
      /\ \A m \in Migrations : m # id => store'[m] = store[m]
  BY QueueTypes DEF bvars, Save
<1>2. \A v \in Workers : pc'[v] = pc[v] /\ copy'[v] = copy[v] /\ job'[v] = job[v] /\ ~Working(v)'
  BY <1>1 DEF Working, NoneWorks
<1>3. cancelled' = {} /\ WorkerPlaces' /\ SoleInv'
  BY <1>1, <1>2 DEF QInv, WorkerPlaces, SoleInv
<1>4. ServeInv'
  <2>1. \A g \in Handlers : g = h
    BY DEF OneHandler
  <2> QED
    BY <2>1 DEF ServeInv
<1>5. OneMigrationAtATime'
  <2>1. \A m \in Migrations : IsRunning(m)' => IsRunning(m) \/ (m = id /\ NoneRuns)
    BY <1>1 DEF IsRunning, Exists
  <2> QED
    BY <2>1 DEF QInv, OneMigrationAtATime, NoneRuns
<1>6. WorkInv'
  <2> SUFFICES ASSUME NEW v \in Workers, pc'[v] \in AtWork
               PROVE  MayWork(pc'[v], copy'[v], store'[job'[v]])
    BY DEF WorkInv, MayWork
  <2>1. MayWork(pc[v], copy[v], store[job[v]]) /\ job[v] \in Migrations
    BY <1>1, <1>2, QueueTypes DEF QInv, WorkInv, AtWork
  <2>2. job[v] # id
    BY <2>1 DEF MayWork
  <2> QED
    BY <1>1, <1>2, <2>1, <2>2
<1>7. QuietInv'
  BY <1>1 DEF QuietInv, BetweenMembers
<1>8. SeqInv'
  <2>1. /\ \A places : ~KeptAt(places)' /\ ~KeptAt(places)
        /\ \A i \in 1..Size : /\ StillToCome(i)' => StillToCome(i) /\ i > 1
                              /\ HadItsTurn(i)' => HadItsTurn(i) /\ i < batch.index
                              /\ ~HasItsTurn(i)'
    BY <1>1 DEF KeptAt, StillToCome, HadItsTurn, HasItsTurn
  <2>2. ASSUME NEW i \in 1..Size
        PROVE  /\ StillToCome(i)' => ToCome(store'[Members[i]])
               /\ HadItsTurn(i)'  => Treated(store'[Members[i]])
    <3>1. Members[i] \in Migrations
      BY MemberFacts
    <3>2. CASE Members[i] = id
      <4>1. batch.index = 0 /\ (i = 1 \/ ToCome(r)) /\ i \in Nat /\ i >= 1
        BY <3>2, MemberFacts DEF NoBatch
      <4> QED
        BY <1>1, <2>1, <3>2, <4>1
    <3>3. CASE Members[i] # id
      BY <1>1, <2>1, <3>1, <3>3 DEF QInv, SeqInv
    <3> QED
      BY <3>2, <3>3
  <2>3. batch' # NoBatch => Exists(Members[1])'
    BY <1>1, MemberFacts, SentinelAssumption DEF QInv, SeqInv, Exists
  <2> QED
    BY <1>1, <2>1, <2>2, <2>3 DEF QInv, SeqInv
<1> QED
  BY <1>3, <1>4, <1>5, <1>6, <1>7, <1>8 DEF QInv

LEMMA CreateKeepsQueue ==
    ASSUME BInv, QInv, OneHandler, Steady, NEW h \in Handlers, Create(h), UNCHANGED bvars
    PROVE  QInv'
<1>0. /\ h \in Procs /\ pc \in [Procs -> Labels] /\ job[h] \in Migrations /\ copy[h] \in Record
      /\ store \in [Migrations -> Record \cup {Unborn, Deleted}]
  BY QueueTypes, GoodRecords DEF Fits, Create, Holding
<1>1. /\ pc[h] = "create" /\ Save(job[h], copy[h]) /\ pc' = [pc EXCEPT ![h] = "spawn"]
      /\ UNCHANGED <<job, copy, cancelled>>
  BY DEF Create, SaveFails, Steady, Goto
<1>2. /\ store[job[h]] = Unborn /\ job[h] \notin InBatch /\ copy[h].status = "running" /\ NoneRuns
      /\ batch.status # "running"
  BY <1>1 DEF QInv, ServeInv, MayServe
<1>3. keeper = Nobody
  BY <1>2, KeeperAlone
<1>4. NoneWorks
  <2>1. \A v \in Workers : Working(v) => IsRunning(job[v]) /\ job[v] \in Migrations
    BY WorkerStands DEF Working
  <2> QED
    BY <1>2, <2>1 DEF NoneRuns, NoneWorks
<1>5. IsRunning(job[h])' /\ NoneWorks' /\ batch'.status # "running" /\ pc'[h] = "spawn"
  <2>1. store'[job[h]] = copy[h] /\ job' = job /\ pc'[h] = "spawn" /\ batch' = batch
    BY <1>0, <1>1 DEF Save, bvars
  <2>2. \A v \in Workers : pc'[v] = pc[v]
    BY <1>0, <1>1, QueueTypes
  <2> QED
    BY <1>0, <1>2, <1>4, <2>1, <2>2, SentinelAssumption DEF IsRunning, Exists, NoneWorks, Working
<1>6. MayServe(job[h], pc[h], copy[h], store[job[h]])'
  BY <1>5 DEF MayServe, Starting, Undoes
<1>7. \A p \in Procs : p # h => pc'[p] = pc[p] /\ copy'[p] = copy[p] /\ job'[p] = job[p]
  BY <1>0, <1>1
<1>8. \A i \in 1..Size : Members[i] # job[h]
  BY <1>2, MemberFacts
<1> QED
  BY <1>0, <1>1, <1>2, <1>3, <1>4, <1>6, <1>7, <1>8, NewRecordKeeps

LEMMA SaveMemberKeepsQueue ==
    ASSUME BInv, QInv, OneHandler, Steady, NEW h \in Handlers, SaveMember(h)
    PROVE  QInv'
<1>0. /\ h \in Procs /\ pc \in [Procs -> Labels]
      /\ store \in [Migrations -> Record \cup {Unborn, Deleted}]
  BY QueueTypes
<1>1. PICK i \in 1..Size :
        /\ store[Members[i]] = Unborn
        /\ \A j \in 1..(i - 1) : store[Members[j]] # Unborn
        /\ Save(Members[i], IF i = 1 THEN copy[h] ELSE WithStatus(copy[h], "pending"))
        /\ Goto(h, IF i = Size THEN "batch" ELSE "members")
        /\ UNCHANGED <<copy, job>>
  BY DEF SaveMember, SaveFails, Steady
<1>2. pc[h] = "members" /\ UNCHANGED <<bvars, cancelled>>
  BY DEF SaveMember
<1>3. /\ NoneWorks /\ batch = NoBatch
      /\ \A m \in Migrations : IsRunning(m) => m = Members[1]
      /\ \E mode \in Modes : copy[h] = NewMigration(mode)
      /\ store[Members[1]] = Unborn \/ IsRunning(Members[1])
  BY <1>2 DEF QInv, ServeInv, MayServe, Starting
<1>4. keeper = Nobody
  BY <1>0, <1>2 DEF BInv, StartingInv, Starting
<1>5. /\ Members[i] \in Migrations /\ Members[1] \in Migrations /\ Size \in Nat /\ i \in Nat /\ i >= 1
      /\ \A j \in 1..Size : Members[j] = Members[i] => j = i
  BY MemberFacts
<1> DEFINE r == IF i = 1 THEN copy[h] ELSE WithStatus(copy[h], "pending")
<1>6. /\ r \in Record
      /\ i = 1 => r.status = "running"
      /\ i # 1 => r.status = "pending" /\ ToCome(r)
  <2>1. PICK mode \in Modes : copy[h] = NewMigration(mode)
    BY <1>3
  <2>2. copy[h] \in Record
    BY <2>1, NewMigrationGood, GoodRecords
  <2>3. copy[h].status = "running" /\ \A t \in Steps : copy[h].steps[t].st = "pending"
    <3>1. LET q == NewMigration(mode)
          IN  q.status = "running" /\ \A t \in Steps : q.steps[t].st = "pending"
      BY DEF NewMigration
    <3> QED
      BY <2>1, <3>1
  <2>4. CASE i = 1
    BY <2>2, <2>3, <2>4
  <2>5. CASE i # 1
    <3>1. /\ r \in Record /\ r.status = "pending" /\ r.steps = copy[h].steps
      BY <2>2, <2>5, StatusEffect DEF Status
    <3> QED
      BY <2>3, <2>5, <3>1, SentinelAssumption DEF ToCome
  <2> QED
    BY <2>4, <2>5
<1>7. Save(Members[i], r)
  BY <1>1
<1> HIDE DEF r
<1>8. store'[Members[i]] = r /\ \A m \in Migrations : m # Members[i] => store'[m] = store[m]
  BY <1>0, <1>5, <1>7 DEF Save
<1>9. i = 1 => NoneRuns
  BY <1>1, <1>3 DEF NoneRuns, IsRunning, Exists
<1>10. \A p \in Procs : p # h => pc'[p] = pc[p] /\ copy'[p] = copy[p] /\ job'[p] = job[p]
  BY <1>0, <1>1 DEF Goto
<1>11. NoneWorks'
  BY <1>3, <1>10, QueueTypes DEF NoneWorks, Working
<1>12. \A m \in Migrations : IsRunning(m)' => m = Members[1]
  BY <1>3, <1>6, <1>8 DEF IsRunning, Exists
<1>13. IsRunning(Members[1])'
  <2>1. CASE i = 1
    BY <1>6, <1>8, <2>1, SentinelAssumption DEF IsRunning, Exists
  <2>2. CASE i # 1
    <3>1. 1 \in 1..(i - 1)
      BY <1>5, <2>2
    <3>2. Members[1] # Members[i]
      BY <1>5, <2>2, MemberFacts
    <3> QED
      BY <1>1, <1>3, <1>5, <1>8, <3>1, <3>2 DEF IsRunning, Exists
  <2> QED
    BY <2>1, <2>2
<1>14. MayServe(job[h], pc[h], copy[h], store[job[h]])'
  <2>1. pc'[h] \in {"members", "batch"} /\ copy'[h] = copy[h] /\ batch' = NoBatch
    BY <1>0, <1>1, <1>2, <1>3 DEF Goto, bvars
  <2> QED
    BY <1>3, <1>11, <1>12, <1>13, <2>1 DEF MayServe, Starting, Undoes
<1>15. \A j \in 1..Size : Members[j] = Members[i] => batch = NoBatch /\ (j = 1 \/ ToCome(r))
  BY <1>3, <1>5, <1>6
<1>16. r.status = "running" => NoneRuns
  BY <1>6, <1>9
<1> QED
  BY <1>1, <1>2, <1>3, <1>4, <1>5, <1>6, <1>7, <1>10, <1>14, <1>15, <1>16, NewRecordKeeps

\* The goroutine starts, on a migration of its own or on the first member.
LEMMA SpawnsKeep ==
    ASSUME BInv, QInv, OneHandler, NEW h \in Handlers, keeper = Nobody, NoneWorks,
           NEW id \in Migrations, IsRunning(id), NEW w \in Workers, pc[w] = "idle",
           pc' = [pc EXCEPT ![w] = "top", ![h] = "idle"],
           job' = [job EXCEPT ![w] = id, ![h] = Nobody], Hold(h, Nobody),
           UNCHANGED <<store, cancelled, batch, local, inner>>,
           \/ keeper' = Nobody
           \/ keeper' = w /\ id = Members[1] /\ batch = [status |-> "running", index |-> 1]
    PROVE  QInv'
<1>1. /\ w # h /\ w \in Procs /\ h \in Procs /\ Workers \subseteq Procs /\ Handlers \subseteq Procs
      /\ h \notin Workers /\ w # Nobody
      /\ pc'[w] = "top" /\ job'[w] = id /\ pc'[h] = "idle"
      /\ \A p \in Procs : p \notin {w, h} => pc'[p] = pc[p] /\ job'[p] = job[p] /\ copy'[p] = copy[p]
  BY QueueTypes DEF Hold
<1>2. \A v \in Workers : Working(v)' => v = w
  BY <1>1 DEF NoneWorks, Working
<1>3. /\ cancelled' = {} /\ WorkerPlaces' /\ SoleInv' /\ OneMigrationAtATime'
  BY <1>1, <1>2 DEF QInv, WorkerPlaces, SoleInv, OneMigrationAtATime, IsRunning, Exists, AtWork
<1>4. WorkInv'
  <2> SUFFICES ASSUME NEW v \in Workers, pc'[v] \in AtWork
               PROVE  MayWork(pc'[v], copy'[v], store[job'[v]])
    BY DEF WorkInv, MayWork
  <2>1. CASE v = w
    BY <1>1, <2>1 DEF MayWork, IsRunning, Exists, InStep
  <2>2. CASE v # w
    BY <1>1, <2>2 DEF QInv, WorkInv
  <2> QED
    BY <2>1, <2>2
<1>5. ServeInv'
  <2>1. \A g \in Handlers : g = h
    BY DEF OneHandler
  <2> QED
    BY <1>1, <2>1 DEF ServeInv, MayServe, Undoes, Starting
<1>6. QuietInv'
  BY <1>1 DEF QuietInv, BetweenMembers, Working, AtWork
<1>7. SeqInv'
  <2>1. \A places \in SUBSET Keeping : ~KeptAt(places)' /\ ~KeptAt(places)
    BY <1>1 DEF KeptAt, Keeping
  <2>2. /\ ~KeptAt({"next", "launch"})' /\ ~KeptAt({"step"})' /\ ~KeptAt({"launch"})'
        /\ ~KeptAt({"next", "launch", "run"})'
    BY <2>1 DEF Keeping
  <2>3. \A i \in 1..Size :
          /\ StillToCome(i)' => StillToCome(i)
          /\ HadItsTurn(i)' => HadItsTurn(i)
    BY <2>2 DEF StillToCome, HadItsTurn
  <2>4. \A i \in 1..Size : HasItsTurn(i)' => Started(store[Members[i]])
    BY DEF HasItsTurn, Started, IsRunning, Exists
  <2> QED
    BY <2>2, <2>3, <2>4 DEF QInv, SeqInv, Exists
<1> QED
  BY <1>3, <1>4, <1>5, <1>6, <1>7 DEF QInv

LEMMA SpawnKeepsQueue ==
    ASSUME BInv, QInv, OneHandler, NEW h \in Handlers,
           (Spawn(h) /\ UNCHANGED bvars) \/ (SpawnKeeper(h) /\ Steady)
    PROVE  QInv'
<1>0. h \in Procs /\ (pc[h] # "idle" => job[h] \in Migrations) /\ Members[1] \in Migrations
  BY QueueTypes, MemberFacts
<1>1. CASE Spawn(h) /\ UNCHANGED bvars
  <2>1. IsRunning(job[h]) /\ NoneWorks /\ batch.status # "running"
    BY <1>1 DEF Spawn, QInv, ServeInv, MayServe
  <2>2. keeper = Nobody
    BY <2>1, KeeperAlone
  <2>3. PICK w \in Workers : /\ pc[w] = "idle"
                             /\ pc' = [pc EXCEPT ![w] = "top", ![h] = "idle"]
                             /\ job' = [job EXCEPT ![w] = job[h], ![h] = Nobody]
    BY <1>1 DEF Spawn
  <2>4. Hold(h, Nobody) /\ UNCHANGED <<store, cancelled, batch, local, inner>> /\ keeper' = Nobody
    BY <1>1, <2>2 DEF Spawn, bvars
  <2>5. job[h] \in Migrations
    BY <1>0, <1>1 DEF Spawn
  <2> QED
    BY <2>1, <2>2, <2>3, <2>4, <2>5, SpawnsKeep
<1>2. CASE SpawnKeeper(h) /\ Steady
  <2>0. pc[h] = "first"
    BY <1>2 DEF SpawnKeeper
  <2>1. NoneWorks /\ IsRunning(Members[1])
    BY <2>0 DEF QInv, ServeInv, MayServe, Starting
  <2>2. keeper = Nobody /\ batch = [status |-> "running", index |-> 1]
    BY <1>0, <2>0 DEF BInv, StartingInv, Starting
  <2>3. Exists(Members[1])
    BY <2>1 DEF IsRunning
  <2>4. PICK w \in Workers : /\ pc[w] = "idle"
                             /\ pc' = [pc EXCEPT ![w] = "top", ![h] = "idle"]
                             /\ job' = [job EXCEPT ![w] = Members[1], ![h] = Nobody]
                             /\ keeper' = w
    BY <1>2, <2>3 DEF SpawnKeeper, Steady
  <2>5. Hold(h, Nobody) /\ UNCHANGED <<store, cancelled, batch, local, inner>>
    BY <1>2, <2>3 DEF SpawnKeeper, Steady
  <2> QED
    BY <1>0, <2>1, <2>2, <2>4, <2>5, SpawnsKeep
<1> QED
  BY <1>1, <1>2

LEMMA SaveNewBatchKeepsQueue ==
    ASSUME BInv, QInv, OneHandler, Steady, NEW h \in Handlers, SaveNewBatch(h)
    PROVE  QInv'
<1>0. h \in Procs /\ pc \in [Procs -> Labels] /\ h \notin Workers /\ Workers \subseteq Procs
  BY QueueTypes
<1>1. /\ pc[h] = "batch" /\ batch' = [status |-> "running", index |-> 1] /\ Goto(h, "first")
      /\ UNCHANGED <<copy, job, store, cancelled, local, keeper, inner>>
  BY DEF SaveNewBatch, Steady
<1>2. /\ NoneWorks /\ batch = NoBatch /\ IsRunning(Members[1])
      /\ \A m \in Migrations : IsRunning(m) => m = Members[1]
  BY <1>1 DEF QInv, ServeInv, MayServe, Starting
<1>3. keeper = Nobody
  BY <1>0, <1>1 DEF BInv, StartingInv, Starting
<1>4. pc'[h] = "first" /\ \A p \in Procs : p # h => pc'[p] = pc[p]
  BY <1>0, <1>1 DEF Goto
<1>5. \A v \in Workers : pc'[v] = pc[v] /\ Working(v)' = Working(v)
  BY <1>0, <1>4 DEF Working
<1>6. \A m : IsRunning(m)' = IsRunning(m)
  BY <1>1 DEF IsRunning, Exists
<1>7. /\ cancelled' = {} /\ WorkerPlaces' /\ SoleInv' /\ OneMigrationAtATime' /\ NoneWorks'
  BY <1>1, <1>2, <1>5, <1>6 DEF QInv, WorkerPlaces, SoleInv, OneMigrationAtATime, NoneWorks
<1>8. WorkInv'
  BY <1>1, <1>5 DEF QInv, WorkInv, MayWork
<1>9. ServeInv'
  <2>1. \A g \in Handlers : g = h
    BY DEF OneHandler
  <2>2. MayServe(job[h], pc[h], copy[h], store[job[h]])'
    BY <1>2, <1>4, <1>6, <1>7 DEF MayServe, Undoes, Starting
  <2> QED
    BY <2>1, <2>2 DEF ServeInv
<1>10. QuietInv'
  BY <1>1, <1>3 DEF QuietInv, BetweenMembers
<1>11. SeqInv'
  <2>1. \A places : ~KeptAt(places)' /\ ~KeptAt(places)
    BY <1>1, <1>3 DEF KeptAt
  <2>2. \A i \in 1..Size :
          /\ StillToCome(i)' => StillToCome(i)
          /\ ~HadItsTurn(i)' /\ ~HasItsTurn(i)'
    BY <1>1, <1>2, <1>3, <2>1 DEF StillToCome, HadItsTurn, HasItsTurn, NoBatch
  <2>3. batch'.status # "completed" /\ Exists(Members[1])'
    BY <1>1, <1>2 DEF IsRunning, Exists
  <2> QED
    BY <1>1, <2>1, <2>2, <2>3 DEF QInv, SeqInv
<1> QED
  BY <1>7, <1>8, <1>9, <1>10, <1>11 DEF QInv

(***************************************************************************)
(* Every step.                                                             *)
(***************************************************************************)
\* A goroutine that logs writes its copy, which is what it works from.
LEMMA WorkerLogs ==
    ASSUME BInv, QInv, NEW w \in Workers, AddLog(w)
    PROVE  WorkerStep(w, pc[w], copy[w], copy[w])
<1>1. pc[w] \in {"exec", "pr", "merged", "parked", "judge"}
  BY DEF AddLog, Logging, QInv, WorkerPlaces, AtWork, Keeping
<1>2. /\ w \in Procs /\ job[w] \in Migrations
      /\ copy[w] \in Record /\ copy[w].status = "running" /\ copy[w].cur <= NSteps
  BY <1>1, WorkerStands DEF AtWork, Holding, KnownRunning, InStep, MayWork
<1>3. MayWork(pc[w], copy[w], copy[w])
  BY <1>1, <1>2, SentinelAssumption DEF MayWork
<1>4. /\ store' = [store EXCEPT ![job[w]] = copy[w]]
      /\ pc' = [pc EXCEPT ![w] = pc[w]] /\ copy' = [copy EXCEPT ![w] = copy[w]]
      /\ UNCHANGED <<job, cancelled>>
  BY <1>2, QueueTypes DEF AddLog, Save
<1> QED
  BY <1>1, <1>2, <1>3, <1>4, SentinelAssumption DEF WorkerStep, AtWork

\* What the operator's request does.
StartsOne(h) ==
    \E id \in Migrations \ InBatch, mode \in Modes : Start(h, id, mode) /\ ~BatchCountsAsActive

LEMMA RequestsAre ==
    ASSUME BInv, QInv, OneQueue, NEW h \in Handlers,
           \/ \E mode \in Modes : StartBatch(h, mode)
           \/ OtherRequest(h) \/ ServeHere(h) \/ ServeBatch(h)
    PROVE  \/ \E mode \in Modes : StartBatch(h, mode)
           \/ SaveMember(h) \/ SaveNewBatch(h) \/ SpawnKeeper(h)
           \/ UNCHANGED bvars /\ (StartsOne(h) \/ Undoing(h) \/ Create(h) \/ Spawn(h))
<1>0. Calls \subseteq {"batch", "start", "rollback"}
  BY DEF OneQueue
<1>1. CASE OtherRequest(h)
  <2>1. ASSUME NEW id \in Migrations
        PROVE  /\ ~Continue(h, id) /\ ~Retry(h, id)
               /\ \A call \in Halting : ~Halt(h, id, call)
               /\ \A s \in Steps : ~MergePR(h, id, s)
    BY <1>0 DEF Continue, Retry, Halt, Halting, MergePR
  <2> QED
    BY <1>1, <2>1 DEF OtherRequest, StartsOne, Undoing
<1>2. CASE ServeHere(h)
  <2>1. pc[h] \in {"idle", "create", "spawn"} \cup Starting \cup Undoes
    BY DEF QInv, ServeInv, MayServe
  <2>2. /\ ~MergeToContinue(h) /\ ~MergeRefused(h) /\ ~Resume(h)
        /\ ~HaltRead(h) /\ ~HaltSave(h) /\ ~Remove(h)
        /\ ~MergePRAtHost(h) /\ ~MergePRSave(h) /\ ~ContinueMerged(h)
    BY <2>1 DEF MergeToContinue, MergeRefused, Resume, HaltRead, HaltSave, Remove, MergePRAtHost,
       MergePRSave, ContinueMerged, Halting, Starting, Undoes
  <2> QED
    BY <1>2, <2>2 DEF ServeHere, Serve, Undoing
<1> QED
  BY <1>1, <1>2 DEF ServeBatch

LEMMA RequestsQueue ==
    ASSUME BInv, QInv, OneQueue, NEW h \in Handlers,
           \/ \E mode \in Modes : StartBatch(h, mode)
           \/ OtherRequest(h) \/ ServeHere(h) \/ ServeBatch(h)
    PROVE  QInv'
<1>1. OneHandler /\ FileStore /\ Steady
  BY DEF OneQueue, OneHandler
<1> QED
  BY <1>1, RequestsAre, StartKeepsQueue, UndoesKeep, CreateKeepsQueue, SpawnKeepsQueue,
     StartBatchKeepsQueue, SaveMemberKeepsQueue, SaveNewBatchKeepsQueue DEF StartsOne

\* Nobody moves, or the pod restarts: the store and the batch stay.
LEMMA CrashKeepsQueue ==
    ASSUME BInv, QInv, BatchCrash
    PROVE  QInv'
<1>1. /\ pc' = [p \in Procs |-> "idle"] /\ cancelled' = {} /\ store' = store
      /\ keeper' = Nobody /\ batch' = batch
  BY DEF BatchCrash, Crash
<1>2. \A p \in Procs : pc'[p] = "idle"
  BY <1>1
<1>3. Workers \subseteq Procs /\ Handlers \subseteq Procs
  BY QueueTypes
<1>4. WorkerPlaces' /\ WorkInv' /\ SoleInv' /\ ServeInv' /\ OneMigrationAtATime' /\ QuietInv'
  BY <1>1, <1>2, <1>3 DEF QInv, WorkerPlaces, WorkInv, SoleInv, ServeInv, OneMigrationAtATime,
     QuietInv, BetweenMembers, Working, MayServe, IsRunning, Exists, AtWork, Starting, Undoes
<1>5. SeqInv'
  <2>1. \A places : ~KeptAt(places)'
    BY <1>1 DEF KeptAt
  <2>2. \A i \in 1..Size :
          /\ StillToCome(i)' => StillToCome(i)
          /\ HadItsTurn(i)' => HadItsTurn(i)
          /\ ~HasItsTurn(i)'
    BY <1>1, <2>1 DEF StillToCome, HadItsTurn, HasItsTurn
  <2> QED
    BY <1>1, <2>1, <2>2 DEF QInv, SeqInv, Exists
<1> QED
  BY <1>1, <1>4, <1>5 DEF QInv

LEMMA NobodyMovesQueue ==
    ASSUME QInv, UNCHANGED <<store, pc, job, copy, cancelled, bvars>>
    PROVE  QInv'
BY DEF QInv, WorkerPlaces, WorkInv, MayWork, SoleInv, ServeInv, MayServe, Undoable,
   OneMigrationAtATime, QuietInv, BetweenMembers, NoneRuns, NoneWorks, SeqInv, KeptAt,
   StillToCome, HadItsTurn, HasItsTurn, ToCome, Treated, Started, Working, IsRunning, Exists, bvars

LEMMA NextQueue ==
    ASSUME OneQueue
    PROVE  BInv /\ QInv /\ [BatchNext]_allVars => QInv'
<1> SUFFICES ASSUME BInv, QInv, [BatchNext]_allVars
             PROVE  QInv'
  OBVIOUS
<1>0. OneHandler /\ Steady
  BY DEF OneQueue, OneHandler
<1>1. ASSUME NEW p \in Procs, AddLog(p), UNCHANGED bvars PROVE QInv'
  <2>1. CASE p \in Workers
    BY <1>1, <2>1, WorkerLogs, WorkerKeeps
  <2>2. CASE p \in Handlers
    BY <1>0, <1>1, <2>2, UndoesKeep DEF Undoing
  <2> QED
    BY <2>1, <2>2 DEF Procs
<1>2. ASSUME NEW p \in PRs, HostMerge(p), UNCHANGED bvars PROVE QInv'
  BY <1>2, NobodyMovesQueue DEF HostMerge
<1>3. CASE UNCHANGED allVars
  BY <1>3, NobodyMovesQueue DEF allVars, vars
<1> QED
  BY <1>0, <1>1, <1>2, <1>3, RunStepsQueue, KeepBatchQueue, RequestsQueue, CrashKeepsQueue
  DEF BatchNext

LEMMA InitQueue == BatchInit => QInv
<1> SUFFICES ASSUME BatchInit
             PROVE  QInv
  OBVIOUS
<1>1. /\ pc = [p \in Procs |-> "idle"] /\ cancelled = {}
      /\ store = [id \in Migrations |-> Unborn] /\ batch = NoBatch /\ keeper = Nobody
  BY DEF BatchInit, Init
<1>2. Workers \subseteq Procs /\ Handlers \subseteq Procs
  BY DEF Procs
<1>3. WorkerPlaces /\ WorkInv /\ SoleInv /\ ServeInv
  BY <1>1, <1>2 DEF WorkerPlaces, WorkInv, SoleInv, ServeInv, Working, MayServe, AtWork, Starting,
     Undoes
<1>4. OneMigrationAtATime /\ QuietInv
  BY <1>1 DEF OneMigrationAtATime, QuietInv, BetweenMembers, IsRunning, Exists
<1>5. SeqInv
  <2>1. \A i \in 1..Size : Members[i] \in Migrations
    BY MemberFacts
  <2> QED
    BY <1>1, <2>1, MemberFacts DEF SeqInv, KeptAt, StillToCome, HadItsTurn, HasItsTurn, ToCome, NoBatch
<1> QED
  BY <1>1, <1>3, <1>4, <1>5 DEF QInv

LEMMA QueueInvariance ==
    ASSUME OneQueue
    PROVE  BatchSpec => [](BInv /\ QInv)
<1>1. BInv /\ QInv /\ [BatchNext]_allVars => QInv'
  BY NextQueue
<1> QED
  BY <1>1, InitQueue, BatchInitInv, BatchNextInv, PTL DEF BatchSpec

\* "Only one migration runs at a time to avoid PR conflicts on shared files":
\* HasActiveMigration and the batch's own file keep it for one operator who
\* starts migrations and batches and rolls back, restarts included, although
\* advanceBatch saves the next member as running without asking.
THEOREM RunsOneAtATime ==
    ASSUME OneQueue
    PROVE  BatchSpec => []OneMigrationAtATime
<1>1. QInv => OneMigrationAtATime
  BY DEF QInv
<1> QED
  BY <1>1, QueueInvariance, PTL

\* "addons run one at a time in sequence": a later member is untouched, an
\* earlier one is at rest, for a batch of any length.
THEOREM MembersStayInSequence ==
    ASSUME OneQueue
    PROVE  BatchSpec => []MembersInSequence
<1>1. QInv => MembersInSequence
  <2> SUFFICES ASSUME QInv, NEW i \in 1..Size
               PROVE  /\ i > 1 /\ i > batch.index => Untouched(Members[i])
                      /\ i < batch.index => AtRest(Members[i])
    BY DEF MembersInSequence
  <2>1. i > 1 /\ i > batch.index => ToCome(store[Members[i]])
    BY DEF QInv, SeqInv, StillToCome
  <2>2. i < batch.index => Treated(store[Members[i]])
    BY DEF QInv, SeqInv, HadItsTurn
  <2> QED
    BY <2>1, <2>2 DEF ToCome, Treated, Untouched, AtRest, StillActive, Exists, Active
<1> QED
  BY <1>1, QueueInvariance, PTL

\* advanceBatch completes the batch past its last member only: by then every
\* member was started and is at rest.
THEOREM BatchTreatsEveryMember ==
    ASSUME OneQueue
    PROVE  BatchSpec => []BatchTreatsAll
<1>1. QInv => BatchTreatsAll
  <2> SUFFICES ASSUME QInv, batch.status = "completed", NEW id \in InBatch
               PROVE  AtRest(id) /\ (Exists(id) => store[id].status # "pending")
    BY DEF BatchTreatsAll
  <2>1. PICK i \in 1..Size : id = Members[i]
    BY DEF InBatch
  <2>2. i < batch.index
    <3>1. batch.index = Size + 1
      BY DEF QInv, SeqInv
    <3> QED
      BY <3>1, MemberFacts
  <2>3. Treated(store[id])
    BY <2>1, <2>2 DEF QInv, SeqInv, HadItsTurn
  <2> QED
    BY <2>3 DEF Treated, AtRest, StillActive, Active
<1> QED
  BY <1>1, QueueInvariance, PTL

(***************************************************************************)
(* The batch implements BatchQueue.                                        *)
(***************************************************************************)
\* No migration is deleted, and a batch is saved after all of its members.
SavedInv ==
    /\ \A m \in Migrations : store[m] # Unborn => Exists(m)
    /\ batch # NoBatch \/ (\E h \in Handlers : pc[h] = "batch") =>
        \A i \in 1..Size : Exists(Members[i])

\* What is saved stays, and the batch comes after its members.
SavedStay ==
    /\ \A m \in Migrations : (store'[m] # Unborn => Exists(m)') /\ (Exists(m) => Exists(m)')
    /\ \A h \in Handlers : pc'[h] = "batch" => pc[h] = "batch"
    /\ batch' # NoBatch => batch # NoBatch \/ \E h \in Handlers : pc[h] = "batch"

LEMMA SavedLasts ==
    ASSUME SavedInv, SavedStay
    PROVE  SavedInv'
BY MemberFacts DEF SavedInv, SavedStay

QueueStep == [Queue!Next]_(Queue!vars)
Follows   == SavedInv' /\ QueueStep

LEMMA TurnsStand ==
    ASSUME batch' = batch, \A i \in 1..Size : TurnOf(Members[i])' = TurnOf(Members[i])
    PROVE  QueueStep
BY DEF QueueStep, Queue!vars

LEMMA SameTurnOf ==
    ASSUME NEW m, store'[m] = store[m]
    PROVE  TurnOf(m)' = TurnOf(m)
BY DEF TurnOf, Exists

\* One member's record changes: the one at place k.
LEMMA OneTurn ==
    ASSUME NEW k \in 1..Size,
           \A m \in Migrations : m # Members[k] => store'[m] = store[m]
    PROVE  [i \in 1..Size |-> TurnOf(Members[i])]'
               = [[i \in 1..Size |-> TurnOf(Members[i])] EXCEPT ![k] = TurnOf(Members[k])']
<1>1. \A i \in 1..Size : i # k => TurnOf(Members[i])' = TurnOf(Members[i])
  BY MemberFacts, SameTurnOf
<1> QED
  BY <1>1

\* The words for what a record is.
LEMMA TurnIs ==
    ASSUME NEW m
    PROVE  /\ ~Exists(m) <=> TurnOf(m) = "absent"
           /\ Exists(m) /\ store[m].status = "pending" <=> TurnOf(m) = "queued"
           /\ Exists(m) /\ store[m].status = "running" <=> TurnOf(m) = "running"
           /\ Undoable(store[m]) => TurnOf(m) = "ended"
           /\ Undone(store[m]) => TurnOf(m) = "ended"
           /\ Treated(store[m]) => TurnOf(m) = "ended"
           /\ TurnOf(m) \in {"absent", "queued", "running", "stopped", "ended"}
BY DEF TurnOf, Undoable, Undone, Treated, Exists

\* The record of one member changes, that of no other migration.
LEMMA MemberRests ==
    ASSUME batch' = batch, NEW id \in Migrations, IsRunning(id),
           \A m \in Migrations : m # id => store'[m] = store[m],
           Exists(id)', store'[id].status # "pending"
    PROVE  QueueStep
<1>1. TurnOf(id) = "running" /\ TurnOf(id)' \in {"running", "stopped", "ended"}
  BY TurnIs DEF TurnOf, IsRunning, Exists
<1>2. CASE id \notin InBatch
  <2>1. \A i \in 1..Size : Members[i] # id /\ Members[i] \in Migrations
    BY <1>2, MemberFacts
  <2> QED
    BY <2>1, TurnsStand, SameTurnOf
<1>3. CASE id \in InBatch
  <2>1. PICK k \in 1..Size : id = Members[k]
    BY <1>3 DEF InBatch
  <2>2. [i \in 1..Size |-> TurnOf(Members[i])]'
            = [[i \in 1..Size |-> TurnOf(Members[i])] EXCEPT ![k] = TurnOf(Members[k])']
    BY <2>1, OneTurn
  <2>3. CASE TurnOf(id)' = "running"
    BY <1>1, <2>1, <2>2, <2>3 DEF QueueStep, Queue!vars
  <2>4. CASE TurnOf(id)' # "running"
    <3>1. Queue!Rest(k)
      BY <1>1, <2>1, <2>2, <2>4 DEF Queue!Rest, Queue!Become
    <3> QED
      BY <3>1 DEF QueueStep, Queue!Next
  <2> QED
    BY <2>3, <2>4
<1> QED
  BY <1>2, <1>3

(***************************************************************************)
(* The goroutines.                                                         *)
(***************************************************************************)
\* A goroutine works on its migration.
LEMMA WorkerFollows ==
    ASSUME BInv, QInv, SavedInv, UNCHANGED bvars,
           NEW w \in Workers, NEW l, NEW c, NEW r, WorkerStep(w, l, c, r)
    PROVE  Follows
<1>1. /\ w \in Procs /\ job[w] \in Migrations /\ store'[job[w]] = r
      /\ \A p \in Procs : p # w => pc'[p] = pc[p]
      /\ \A m \in Migrations : m # job[w] => store'[m] = store[m]
      /\ IsRunning(job[w]) \/ store' = store
  BY WorkerMoves
<1>2. r \notin {Unborn, Deleted} /\ batch' = batch /\ Handlers \subseteq Procs /\ w \notin Handlers
  BY QueueTypes DEF WorkerStep, bvars
<1>3. r.status # "pending"
  BY DEF WorkerStep, MayWork
<1>4. SavedStay
  BY <1>1, <1>2 DEF SavedInv, SavedStay, Exists
<1>5. CASE store' = store
  BY <1>2, <1>5, TurnsStand, SameTurnOf, SavedLasts, <1>4 DEF Follows
<1>6. CASE IsRunning(job[w])
  BY <1>1, <1>2, <1>3, <1>4, <1>6, MemberRests, SavedLasts DEF Follows, Exists
<1> QED
  BY <1>1, <1>5, <1>6

\* Nothing is written.
LEMMA StoreStands ==
    ASSUME SavedInv, store' = store, batch' = batch,
           \A h \in Handlers : pc'[h] = "batch" => pc[h] = "batch"
    PROVE  Follows
BY TurnsStand, SameTurnOf, SavedLasts DEF Follows, SavedStay, SavedInv, Exists

\* The keeper, or a run that ends, moves.
LEMMA KeeperGoes ==
    ASSUME BInv, NEW w \in Workers, NEW l, Goto(w, l)
    PROVE  /\ \A h \in Handlers : pc'[h] = pc[h]
           /\ w \in Procs /\ pc'[w] = l
BY QueueTypes DEF Goto

LEMMA StepBatchFollows ==
    ASSUME BInv, QInv, SavedInv, Steady, NEW w \in Workers, StepBatch(w)
    PROVE  Follows
<1>1. w = keeper /\ pc[w] = "step" /\ store' = store
  BY DEF StepBatch
<1>2. /\ batch.status = "running" /\ batch.index \in 1..Size /\ Size \in Nat
      /\ local.index = batch.index + 1 /\ local \in BatchRecord /\ local.status = "running"
  BY <1>1, KeeperStands DEF Keeping
<1>3. batch # NoBatch /\ \A h \in Handlers : pc'[h] = pc[h]
  BY <1>2, KeeperGoes DEF StepBatch, Leave, Drop, NoBatch
<1>4. SavedStay
  BY <1>1, <1>3 DEF SavedInv, SavedStay, Exists
<1>5. TurnOf(Members[batch.index]) = "ended"
  <2>1. Treated(store[Members[batch.index]])
    <3>1. keeper # Nobody
      BY <1>1, KeeperStands DEF Keeping
    <3> QED
      BY <1>1, <1>2, <3>1 DEF QInv, SeqInv, HadItsTurn, KeptAt
  <2> QED
    BY <2>1, TurnIs
<1>6. /\ batch'.index = batch.index + 1
      /\ batch'.status = IF batch.index = Size THEN "completed" ELSE "running"
  BY <1>2 DEF StepBatch, SaveBatch, Steady, BatchRecord
<1>7. [i \in 1..Size |-> TurnOf(Members[i])]' = [i \in 1..Size |-> TurnOf(Members[i])]
  BY <1>1, SameTurnOf
<1>8. Queue!MoveOn
  BY <1>2, <1>5, <1>6, <1>7 DEF Queue!MoveOn
<1> QED
  BY <1>4, <1>8, SavedLasts DEF Follows, QueueStep, Queue!Next

LEMMA ReadNextFollows ==
    ASSUME BInv, QInv, SavedInv, Steady, NEW w \in Workers, ReadNext(w)
    PROVE  Follows
<1>1. w = keeper /\ pc[w] = "next" /\ store' = store
  BY DEF ReadNext
<1>2. batch.status = "running" /\ local.index = batch.index /\ batch.index \in 1..Size
  BY <1>1, KeeperStands DEF Keeping
<1>3. Exists(Members[local.index])
  BY <1>2 DEF SavedInv, NoBatch
<1>4. batch' = batch /\ Goto(w, "launch")
  BY <1>3 DEF ReadNext, Steady
<1> QED
  BY <1>1, <1>4, KeeperGoes, StoreStands

LEMMA LaunchFollows ==
    ASSUME BInv, QInv, SavedInv, Steady, NEW w \in Workers, Launch(w)
    PROVE  Follows
<1>1. w = keeper /\ pc[w] = "launch" /\ Goto(w, "run") /\ batch' = batch
  BY DEF Launch, Drop, bvars
<1>2. /\ keeper # Nobody /\ batch.status = "running" /\ batch.index \in 1..Size
      /\ local.index = batch.index
  BY <1>1, KeeperStands DEF Keeping
<1>3. PICK k \in 1..Size : k = batch.index
  BY <1>2
<1> DEFINE id == Members[k]
<1>4. id \in Migrations /\ Exists(id)
  BY <1>2, MemberFacts DEF SavedInv, NoBatch
<1>5. copy[w] \in Record /\ copy[w].status = "running"
  <2>1. copy[w] \in Good
    BY <1>1, QueueTypes DEF Fits, Holding
  <2>2. copy[w].status = "running"
    BY <1>1, <1>2 DEF QInv, SeqInv, KeptAt
  <2> QED
    BY <2>1, <2>2, GoodRecords
<1>6. store'[id] = copy[w] /\ \A m \in Migrations : m # id => store'[m] = store[m]
  <2>1. store' = [store EXCEPT ![id] = copy[w]]
    BY <1>2, <1>3 DEF Launch, TrySave, SaveFails, Save, Steady
  <2> QED
    BY <1>4, <2>1, QueueTypes
<1>7. TurnOf(id) = "queued"
  <2>1. ToCome(store[id])
    BY <1>1, <1>2, <1>3 DEF QInv, SeqInv, StillToCome, KeptAt
  <2> QED
    BY <1>4, <2>1, TurnIs DEF ToCome, Exists
<1>8. Exists(id)' /\ TurnOf(id)' = "running"
  BY <1>5, <1>6, SentinelAssumption DEF TurnOf, Exists
<1>9. SavedStay
  BY <1>1, <1>4, <1>5, <1>6, <1>8, KeeperGoes, SentinelAssumption DEF SavedInv, SavedStay, Exists
<1>10. [i \in 1..Size |-> TurnOf(Members[i])]'
           = [[i \in 1..Size |-> TurnOf(Members[i])] EXCEPT ![k] = TurnOf(Members[k])']
  BY <1>6, OneTurn
<1>11. Queue!Begin
  BY <1>1, <1>2, <1>3, <1>7, <1>8, <1>10 DEF Queue!Begin, Queue!Become
<1> QED
  BY <1>9, <1>11, SavedLasts DEF Follows, QueueStep, Queue!Next

LEMMA RunMemberFollows ==
    ASSUME BInv, QInv, SavedInv, NEW w \in Workers, RunMember(w)
    PROVE  Follows
<1>1. PICK v \in Workers : pc' = [pc EXCEPT ![v] = "top", ![w] = "advance"]
  BY DEF RunMember
<1>2. \A h \in Handlers : pc'[h] = pc[h]
  BY <1>1, QueueTypes
<1> QED
  BY <1>2, StoreStands DEF RunMember

LEMMA KeepBatchFollows ==
    ASSUME BInv, QInv, SavedInv, Steady, NEW w \in Workers, KeepBatch(w)
    PROVE  Follows
<1>1. CASE FirstMemberEnds(w) \/ CheckMember(w) \/ InnerEnds(w)
  <2>1. store' = store /\ batch' = batch /\ \E l : Goto(w, l)
    BY <1>1 DEF FirstMemberEnds, CheckMember, InnerEnds, Exit, Leave, Drop, bvars
  <2> QED
    BY <2>1, KeeperGoes, StoreStands
<1>2. ~MemberPanics(w)
  BY DEF MemberPanics, QInv, WorkInv, MayWork, AtWork
<1> QED
  BY <1>1, <1>2, StepBatchFollows, ReadNextFollows, LaunchFollows, RunMemberFollows DEF KeepBatch

LEMMA RunStepsFollows ==
    ASSUME BInv, QInv, SavedInv, Steady, NEW w \in Workers, RunStepsHere(w)
    PROVE  Follows
<1>1. CASE Exit(w)
  BY <1>1, KeeperGoes, StoreStands DEF Exit, Drop, RunStepsHere, bvars
<1>2. CASE ~Exit(w)
  BY <1>2, RunStepsStep, WorkerFollows DEF RunStepsHere
<1> QED
  BY <1>1, <1>2

(***************************************************************************)
(* The operator's request.                                                 *)
(***************************************************************************)
\* A migration is rolled back: it had ended.
LEMMA UndoesFollow ==
    ASSUME BInv, QInv, SavedInv, Steady, NEW h \in Handlers, UNCHANGED bvars, Undoing(h)
    PROVE  Follows
<1>1. Asks(h) /\ pc'[h] \in {"idle"} \cup Undoes
  BY UndoesAsk DEF Undid
<1>2. /\ batch' = batch /\ Handlers \subseteq Procs
      /\ \A p \in Procs : p # h => pc'[p] = pc[p]
      /\ \A m \in Migrations : store'[m] = store[m] \/ (Undoable(store[m]) /\ Undone(store'[m]))
  BY <1>1, QueueTypes DEF Asks, bvars
<1>3. SavedStay
  BY <1>1, <1>2 DEF SavedInv, SavedStay, Exists, Undone, Undoes
<1>4. ASSUME NEW m \in Migrations PROVE TurnOf(m)' = TurnOf(m)
  <2>1. CASE store'[m] = store[m]
    BY <2>1, SameTurnOf
  <2>2. CASE Undoable(store[m]) /\ Undone(store'[m])
    <3>1. TurnOf(m) = "ended"
      BY <2>2, TurnIs
    <3>2. TurnOf(m)' = "ended"
      BY <2>2 DEF TurnOf, Undone, Exists
    <3> QED
      BY <3>1, <3>2
  <2> QED
    BY <1>2, <2>1, <2>2
<1>5. QueueStep
  BY <1>2, <1>4, TurnsStand, MemberFacts
<1> QED
  BY <1>3, <1>5, SavedLasts DEF Follows

\* A request comes in, or its goroutine starts: nothing is written.
LEMMA EntersFollow ==
    ASSUME BInv, QInv, SavedInv, Steady, NEW h \in Handlers,
           \/ UNCHANGED bvars /\ (StartsOne(h) \/ Spawn(h))
           \/ \E mode \in Modes : StartBatch(h, mode)
           \/ SpawnKeeper(h)
    PROVE  Follows
<1>0. Handlers \subseteq Procs /\ Workers \subseteq Procs /\ Workers \cap Handlers = {}
      /\ pc \in [Procs -> Labels]
  BY QueueTypes
<1>1. CASE UNCHANGED bvars /\ StartsOne(h)
  <2>1. store' = store /\ batch' = batch /\ pc' = [pc EXCEPT ![h] = "create"]
    BY <1>1 DEF StartsOne, Start, Take, Goto, bvars
  <2> QED
    BY <1>0, <2>1, StoreStands
<1>2. CASE \E mode \in Modes : StartBatch(h, mode)
  <2>1. store' = store /\ batch' = batch /\ pc' = [pc EXCEPT ![h] = "members"]
    BY <1>2 DEF StartBatch, Take, Goto, bvars
  <2> QED
    BY <1>0, <2>1, StoreStands
<1>3. CASE UNCHANGED bvars /\ Spawn(h)
  <2>1. store' = store /\ batch' = batch
        /\ \E w \in Workers : pc' = [pc EXCEPT ![w] = "top", ![h] = "idle"]
    BY <1>3 DEF Spawn, bvars
  <2> QED
    BY <1>0, <2>1, StoreStands
<1>4. CASE SpawnKeeper(h)
  <2>1. store' = store /\ batch' = batch
    BY <1>4 DEF SpawnKeeper
  <2>2. \/ \E w \in Workers : pc' = [pc EXCEPT ![w] = "top", ![h] = "idle"]
        \/ pc' = [pc EXCEPT ![h] = "idle"]
    BY <1>4 DEF SpawnKeeper, Answer, Drop, Goto
  <2> QED
    BY <1>0, <2>1, <2>2, StoreStands
<1> QED
  BY <1>1, <1>2, <1>3, <1>4

\* The record of a migration outside the batch.
LEMMA CreateFollows ==
    ASSUME BInv, QInv, SavedInv, Steady, NEW h \in Handlers, Create(h), UNCHANGED bvars
    PROVE  Follows
<1>0. /\ h \in Procs /\ pc \in [Procs -> Labels] /\ job[h] \in Migrations /\ copy[h] \in Record
      /\ store \in [Migrations -> Record \cup {Unborn, Deleted}] /\ Handlers \subseteq Procs
  BY QueueTypes, GoodRecords DEF Fits, Create, Holding
<1>1. /\ pc[h] = "create" /\ store' = [store EXCEPT ![job[h]] = copy[h]]
      /\ pc' = [pc EXCEPT ![h] = "spawn"] /\ batch' = batch
  BY DEF Create, Save, SaveFails, Steady, Goto, bvars
<1>2. job[h] \notin InBatch
  BY <1>1 DEF QInv, ServeInv, MayServe
<1>3. SavedStay
  BY <1>0, <1>1, SentinelAssumption DEF SavedInv, SavedStay, Exists
<1>4. \A i \in 1..Size : store'[Members[i]] = store[Members[i]]
  BY <1>0, <1>1, <1>2, MemberFacts
<1> QED
  BY <1>1, <1>3, <1>4, SameTurnOf, TurnsStand, SavedLasts DEF Follows

\* The members are saved in order; after the last one all are there.
LEMMA SaveMemberFollows ==
    ASSUME BInv, QInv, SavedInv, Steady, NEW h \in Handlers, SaveMember(h)
    PROVE  Follows
<1>0. /\ h \in Procs /\ pc \in [Procs -> Labels] /\ Handlers \subseteq Procs
      /\ store \in [Migrations -> Record \cup {Unborn, Deleted}]
  BY QueueTypes
<1>1. PICK i \in 1..Size :
        /\ store[Members[i]] = Unborn
        /\ \A j \in 1..(i - 1) : store[Members[j]] # Unborn
        /\ Save(Members[i], IF i = 1 THEN copy[h] ELSE WithStatus(copy[h], "pending"))
        /\ Goto(h, IF i = Size THEN "batch" ELSE "members")
  BY DEF SaveMember, SaveFails, Steady
<1>2. pc[h] = "members" /\ batch' = batch
  BY DEF SaveMember, bvars
<1>3. batch = NoBatch /\ \E mode \in Modes : copy[h] = NewMigration(mode)
  BY <1>2 DEF QInv, ServeInv, MayServe
<1>4. /\ Members[i] \in Migrations /\ Size \in Nat /\ i \in Nat /\ i >= 1 /\ i <= Size
      /\ \A j \in 1..Size : Members[j] \in Migrations /\ (Members[j] = Members[i] => j = i)
  BY MemberFacts
<1> DEFINE r == IF i = 1 THEN copy[h] ELSE WithStatus(copy[h], "pending")
<1>5. /\ r \in Record
      /\ i = 1 => r.status = "running"
      /\ i # 1 => r.status = "pending"
  <2>1. PICK mode \in Modes : copy[h] = NewMigration(mode)
    BY <1>3
  <2>2. copy[h] \in Record
    BY <2>1, NewMigrationGood, GoodRecords
  <2>3. copy[h].status = "running"
    <3>1. NewMigration(mode).status = "running"
      BY DEF NewMigration
    <3> QED
      BY <2>1, <3>1
  <2>4. WithStatus(copy[h], "pending") \in Record /\ WithStatus(copy[h], "pending").status = "pending"
    BY <2>2, StatusEffect DEF Status
  <2> QED
    BY <2>2, <2>3, <2>4
<1>6. /\ store'[Members[i]] = r
      /\ \A m \in Migrations : m # Members[i] => store'[m] = store[m]
  BY <1>0, <1>1, <1>4 DEF Save
<1> HIDE DEF r
<1>7. r \notin {Unborn, Deleted}
  BY <1>5, SentinelAssumption
<1>8. /\ TurnOf(Members[i]) = "absent"
      /\ TurnOf(Members[i])' = IF i = 1 THEN "running" ELSE "queued"
  BY <1>1, <1>5, <1>6, <1>7 DEF TurnOf, Exists
<1>9. [k \in 1..Size |-> TurnOf(Members[k])]'
          = [[k \in 1..Size |-> TurnOf(Members[k])] EXCEPT ![i] = TurnOf(Members[i])']
  BY <1>6, OneTurn
<1>10. \A j \in 1..(i - 1) : Exists(Members[j]) /\ TurnOf(Members[j]) # "absent"
  <2> TAKE j \in 1..(i - 1)
  <2>1. j \in 1..Size /\ store[Members[j]] # Unborn
    BY <1>1, <1>4
  <2>2. Exists(Members[j])
    BY <1>4, <2>1 DEF SavedInv, Exists
  <2> QED
    BY <2>2, TurnIs
<1>11. Queue!Enqueue(i)
  <2>1. batch.status = "none"
    BY <1>3 DEF NoBatch
  <2>2. \A j \in 1..(i - 1) : [k \in 1..Size |-> TurnOf(Members[k])][j] # "absent"
    BY <1>4, <1>10
  <2> QED
    BY <1>2, <1>8, <1>9, <2>1, <2>2 DEF Queue!Enqueue, Queue!Become
<1>12. SavedInv'
  <2>1. \A m \in Migrations : (store'[m] # Unborn => Exists(m)') /\ (Exists(m) => Exists(m)')
    BY <1>6, <1>7 DEF SavedInv, Exists
  <2>2. ASSUME pc'[h] = "batch" PROVE \A j \in 1..Size : Exists(Members[j])'
    <3>1. i = Size
      BY <1>0, <1>1, <2>2 DEF Goto
    <3>2. \A j \in 1..Size : j = i \/ j \in 1..(i - 1)
      BY <1>4, <3>1
    <3> QED
      BY <1>4, <1>6, <1>7, <1>10, <2>1, <3>2 DEF Exists
  <2>3. ASSUME NEW g \in Handlers, pc'[g] = "batch" PROVE pc[g] = "batch" \/ g = h
    BY <1>0, <1>1, <2>3 DEF Goto
  <2>4. ASSUME \E g \in Handlers : pc[g] = "batch" PROVE \A j \in 1..Size : Exists(Members[j])'
    BY <1>4, <2>1, <2>4 DEF SavedInv
  <2>5. batch' = NoBatch
    BY <1>2, <1>3
  <2> QED
    BY <2>1, <2>2, <2>3, <2>4, <2>5 DEF SavedInv
<1> QED
  BY <1>11, <1>12 DEF Follows, QueueStep, Queue!Next

LEMMA SaveNewBatchFollows ==
    ASSUME BInv, QInv, SavedInv, Steady, NEW h \in Handlers, SaveNewBatch(h)
    PROVE  Follows
<1>1. /\ pc[h] = "batch" /\ batch' = [status |-> "running", index |-> 1] /\ Goto(h, "first")
      /\ store' = store
  BY DEF SaveNewBatch, Steady
<1>2. batch = NoBatch /\ \A i \in 1..Size : Exists(Members[i])
  BY <1>1 DEF QInv, ServeInv, MayServe, SavedInv
<1>3. SavedStay
  BY <1>1, QueueTypes DEF SavedInv, SavedStay, Exists, Goto
<1>4. [i \in 1..Size |-> TurnOf(Members[i])]' = [i \in 1..Size |-> TurnOf(Members[i])]
  BY <1>1, SameTurnOf
<1>5. \A i \in 1..Size : TurnOf(Members[i]) # "absent"
  BY <1>2, TurnIs
<1>6. Queue!Open
  BY <1>1, <1>2, <1>4, <1>5 DEF Queue!Open, NoBatch
<1> QED
  BY <1>3, <1>6, SavedLasts DEF Follows, QueueStep, Queue!Next

(***************************************************************************)
(* Every step.                                                             *)
(***************************************************************************)
LEMMA NextFollows ==
    ASSUME OneQueue, BInv, QInv, SavedInv, [BatchNext]_allVars
    PROVE  Follows
<1>0. Steady
  BY DEF OneQueue
<1>1. ASSUME NEW w \in Workers, RunStepsHere(w) \/ KeepBatch(w) PROVE Follows
  BY <1>0, <1>1, RunStepsFollows, KeepBatchFollows
<1>2. ASSUME NEW h \in Handlers,
             \/ \E mode \in Modes : StartBatch(h, mode)
             \/ OtherRequest(h) \/ ServeHere(h) \/ ServeBatch(h)
      PROVE  Follows
  BY <1>0, <1>2, RequestsAre, EntersFollow, UndoesFollow, CreateFollows, SaveMemberFollows,
     SaveNewBatchFollows
<1>3. ASSUME NEW p \in Procs, AddLog(p), UNCHANGED bvars PROVE Follows
  <2>1. CASE p \in Workers
    BY <1>3, <2>1, WorkerLogs, WorkerFollows
  <2>2. CASE p \in Handlers
    BY <1>0, <1>3, <2>2, UndoesFollow DEF Undoing
  <2> QED
    BY <2>1, <2>2 DEF Procs
<1>4. CASE (\E p \in PRs : HostMerge(p)) /\ UNCHANGED bvars
  BY <1>4, StoreStands DEF HostMerge, bvars
<1>5. CASE BatchCrash
  <2>1. pc' = [p \in Procs |-> "idle"] /\ store' = store /\ batch' = batch
    BY <1>5 DEF BatchCrash, Crash
  <2>2. \A h \in Handlers : pc'[h] = "idle"
    BY <2>1, QueueTypes
  <2> QED
    BY <2>1, <2>2, StoreStands
<1>6. CASE UNCHANGED allVars
  BY <1>6, StoreStands DEF allVars, vars, bvars
<1> QED
  BY <1>1, <1>2, <1>3, <1>4, <1>5, <1>6 DEF BatchNext

\* A batch is the sequential queue that models.go promises: the members are
\* saved before it, each has one turn, in order, and is passed when it has
\* ended; rollbacks, other migrations and restarts change nothing in that.
THEOREM ImplementsQueue ==
    ASSUME OneQueue
    PROVE  BatchSpec => FollowsQueue
<1>1. BatchInit => SavedInv /\ Queue!Init
  <2> SUFFICES ASSUME BatchInit
               PROVE  SavedInv /\ Queue!Init
    OBVIOUS
  <2>1. /\ pc = [p \in Procs |-> "idle"] /\ store = [id \in Migrations |-> Unborn] /\ batch = NoBatch
        /\ Handlers \subseteq Procs
    BY DEF BatchInit, Init, Procs
  <2>2. \A i \in 1..Size : TurnOf(Members[i]) = "absent"
    BY <2>1, MemberFacts DEF TurnOf, Exists
  <2>3. SavedInv
    BY <2>1 DEF SavedInv
  <2> QED
    BY <2>1, <2>2, <2>3 DEF Queue!Init, NoBatch
<1>2. BInv /\ QInv /\ SavedInv /\ [BatchNext]_allVars => SavedInv' /\ [Queue!Next]_(Queue!vars)
  BY NextFollows DEF Follows, QueueStep
<1> QED
  BY <1>1, <1>2, QueueInvariance, PTL DEF BatchSpec, FollowsQueue, Queue!Spec
=============================================================================
