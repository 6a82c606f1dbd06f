------------------------- MODULE MigrationExecutor -------------------------
(***************************************************************************)
(* The migration executor (internal/migration/executor.go, rollback.go)    *)
(* with the HTTP handlers that drive it (internal/api/migration.go) and    *)
(* the store both write to (internal/migration/store.go).                  *)
(*                                                                         *)
(* A goroutine (worker) and a request handler each hold a private copy of  *)
(* a migration record, read with GetMigration, and write the WHOLE record  *)
(* back with SaveMigration: there is no version check, the last writer     *)
(* wins.  Every read of the store and every write to it is one step here,  *)
(* so that all orders of reads and writes of concurrent actors arise.      *)
(***************************************************************************)
EXTENDS Integers, FiniteSets

CONSTANTS
    Migrations,    \* migration ids that may be created
    Workers,       \* goroutines that may live at once (bound)
    Handlers,      \* requests that may be in progress at once (bound)
    NSteps,        \* len(StepDefinitions)
    PRSteps,       \* steps that open a pull request
    RollbackSteps, \* PR steps that rollback reverses and that an
                   \* already-set label lets complete without a PR
    MaxPRs,        \* pull requests that may be opened (bound)
    MaxRequests,   \* requests that users may make (bound)
    Modes,         \* values of the request's "mode" field
    Calls,         \* requests the users of the instance make
    Faults,        \* what may go wrong: "crash", "flaky" store
    Unborn,        \* store value of an id not yet created
    Deleted,       \* store value of an id whose record was deleted
    Nobody         \* no goroutine, no migration, no copy

AllCalls == {"start", "continue", "retry", "pause", "cancel",
             "delete", "mergePR", "rollback",
             "batch"} \* made in MigrationBatch

ASSUME ExecutorAssumption ==
    /\ NSteps \in Nat \ {0}
    /\ MaxPRs \in Nat
    /\ MaxRequests \in Nat
    /\ PRSteps \subseteq 1..NSteps
    /\ RollbackSteps \subseteq PRSteps
    /\ Calls \subseteq AllCalls
    /\ Faults \subseteq {"crash", "flaky"}
    /\ Workers \cap Handlers = {}
    /\ Nobody \notin Workers \cup Migrations

Steps == 1..NSteps
PRs   == 1..MaxPRs
Procs == Workers \cup Handlers

Status == {"pending", "running", "waiting", "paused", "completed", "failed",
           "gated", "cancelled", "rolled_back"}
Active == {"running", "waiting", "paused", "gated"}

StepState ==
    [st : {"pending", "running", "waiting", "completed", "failed", "skipped"},
     pr : 0..MaxPRs,
     prst : {"", "open", "merged"}]

Record == [status : Status, mode : Modes, cur : 1..(NSteps + 1),
           steps : [Steps -> StepState]]

\* the store tells an id without a record from one that has a record
ASSUME SentinelAssumption == {Unborn, Deleted} \cap Record = {}

\* Fault: CurrentStep counts from zero, as the slice of steps does.
NewMigrationFromZero(mode) ==
    [status |-> "running", mode |-> mode, cur |-> 0,
     steps  |-> [s \in Steps |-> [st |-> "pending", pr |-> 0, prst |-> ""]]]

\* StartMigration saves it as running; only a batch leaves members pending
NewMigration(mode) ==
    [status |-> "running", mode |-> mode, cur |-> 1,
     steps  |-> [s \in Steps |-> [st |-> "pending", pr |-> 0, prst |-> ""]]]

VARIABLES
    store,     \* id -> the persisted record, Unborn or Deleted
    prs,       \* pull request number -> its state at the Git host
    running,   \* e.running: id -> the goroutine whose cancel is registered
    pc,        \* where each goroutine and each request stands
    job,       \* the migration it works on
    copy,      \* its private copy of the record
    cancelled, \* goroutines whose context is cancelled
    failed,    \* goroutines whose step returned an error; requests that
               \* met an error while rolling back
    todo,      \* request -> steps it still has to treat
    requests,  \* how many requests were made (for the bound)
    done,      \* history: <<id, step>> whose work really was carried out
    used       \* history: goroutines that have begun a step

vars == <<store, prs, running, pc, job, copy, cancelled, failed, todo, requests, done, used>>

Exists(id) == store[id] \notin {Unborn, Deleted}
IsRunning(id) == Exists(id) /\ store[id].status = "running"
Step(r) == r.steps[r.cur]

(***************************************************************************)
(* What the code writes into a record it holds.                            *)
(***************************************************************************)
WithStatus(r, status) == [r EXCEPT !.status = status]
WithStep(r, st)       == [r EXCEPT !.steps[r.cur].st = st]
Failing(r)            == WithStatus(WithStep(r, "failed"), "failed")

\* step.PRNumber = pr.ID
Opened(r, p) == [r EXCEPT !.steps[r.cur].pr = p]

\* the PR is open: the step waits for somebody to merge it
Parked(r) == [r EXCEPT !.steps[r.cur].st = "waiting", !.steps[r.cur].prst = "open"]

\* the PR of step s is merged, which completes the step
StepMerged(r, s) == [r EXCEPT !.steps[s].st = "completed", !.steps[s].prst = "merged"]

\* auto-merged: the step is complete, RunSteps will advance
Merged(r) == StepMerged(r, r.cur)

\* Fault: CurrentStep++ without marking the step.
AdvancedUnmarked(r) == [r EXCEPT !.cur = r.cur + 1]

\* Fault: the step is marked, CurrentStep stays.
AdvancedInPlace(r) == WithStep(r, "completed")

\* step completed, CurrentStep++
Advanced(r) == [WithStep(r, "completed") EXCEPT !.cur = r.cur + 1]

\* stepVerifyCatalog finds the addon enabled and running in NEW
AlreadyDone(r) ==
    [r EXCEPT !.status = "completed",
              !.steps = [s \in Steps |->
                            [r.steps[s] EXCEPT !.st = IF s = 1 THEN "completed" ELSE "skipped"]]]

\* somebody merged it later: CurrentStep++ as well
PastPR(r, s) == [StepMerged(r, s) EXCEPT !.cur = r.cur + 1]

\* Fault: the merged step is left for RunSteps to advance.
ResumedBeforeAdvancing(r) ==
    WithStatus(IF r.status = "waiting" THEN Merged(r) ELSE WithStep(r, "pending"), "running")

\* Fault: a failed migration starts over.
ResumedFromStart(r) ==
    WithStatus(IF r.status = "failed" THEN [r EXCEPT !.cur = 1] ELSE Advanced(r), "running")

\* the switch of ContinueAfterPR, after a successful merge if there was one
Resumed(r) ==
    WithStatus(
        CASE r.status = "waiting" -> PastPR(r, r.cur)
          [] r.status = "failed"  -> WithStep(r, "pending")
          [] OTHER                -> r,
        "running")

\* handleMergePR, once the host has merged the PR of step s
MergedByUser(r, s) ==
    IF r.steps[s].st = "waiting"
    THEN WithStatus(PastPR(r, s), IF r.status = "waiting" THEN "running" ELSE r.status)
    ELSE [r EXCEPT !.steps[s].prst = "merged"]

(***************************************************************************)
(* The store.  A goroutine ignores the error of a save; in a ConfigMap     *)
(* store the save of a deleted record creates it again.  A save is one     *)
(* step; that of a file truncates it and then writes (store.go:45), and    *)
(* who reads in between fails to decode it: a "flaky" read here.           *)
(***************************************************************************)
Save(id, r)  == store' = [store EXCEPT ![id] = r]
SaveFails    == "flaky" \in Faults /\ UNCHANGED store
TrySave(id, r) == Save(id, r) \/ SaveFails
HasActiveMigration == \E id \in Migrations : Exists(id) /\ store[id].status \in Active

Goto(p, label) == pc' = [pc EXCEPT ![p] = label]
Hold(p, r)     == copy' = [copy EXCEPT ![p] = r]

\* from here on the copy is not used: a new one is read, or none
Drop(p, label) == Goto(p, label) /\ Hold(p, Nobody)

Init ==
    /\ store = [id \in Migrations |-> Unborn]
    /\ prs = [p \in PRs |-> "none"]
    /\ running = [id \in Migrations |-> Nobody]
    /\ pc = [p \in Procs |-> "idle"]
    /\ job = [p \in Procs |-> Nobody]
    /\ copy = [p \in Procs |-> Nobody]
    /\ cancelled = {}
    /\ failed = {}
    /\ todo = [h \in Handlers |-> {}]
    /\ requests = 0
    /\ done = {}
    /\ used = {}

(***************************************************************************)
(* RunSteps, one goroutine.                                                *)
(***************************************************************************)
\* top of the loop: ctx.Err, GetMigration, Status != running
Fetch(w) ==
    /\ pc[w] = "top"
    /\ \/ /\ w \notin cancelled
          /\ IsRunning(job[w])
          /\ Hold(w, store[job[w]])
          /\ Goto(w, "begin")
       \/ /\ \/ w \in cancelled
             \/ ~IsRunning(job[w])
             \/ "flaky" \in Faults
          /\ Drop(w, "exit")
    /\ UNCHANGED <<store, prs, running, job, cancelled, failed, todo, requests, done, used>>

\* all steps are behind: the migration is completed
Finish(w) ==
    /\ pc[w] = "begin"
    /\ copy[w].cur > NSteps
    /\ TrySave(job[w], WithStatus(copy[w], "completed"))
    /\ Drop(w, "exit")
    /\ UNCHANGED <<prs, running, job, cancelled, failed, todo, requests, done, used>>

Begin(w) ==
    /\ pc[w] = "begin"
    /\ copy[w].cur <= NSteps
    /\ LET r == WithStep(copy[w], "running")
       IN  /\ TrySave(job[w], r)
           /\ Hold(w, r)
    /\ Goto(w, "exec")
    /\ used' = used \cup {w}
    /\ UNCHANGED <<prs, running, job, cancelled, failed, todo, requests, done>>

\* addLog writes the copy back as it is, stale or not.  Here the copy holds
\* something the store has not seen: the number of a new PR, or it is older
\* than the call to the host that was just made.
FirstLog == [opened |-> "pr", accepted |-> "approved", declined |-> "refused",
             reverting |-> "rollback"]
LogFirst(p) ==
    /\ pc[p] \in DOMAIN FirstLog
    /\ TrySave(job[p], copy[p])
    /\ Goto(p, FirstLog[pc[p]])
    /\ UNCHANGED <<prs, running, job, copy, cancelled, failed, todo, requests, done, used>>

\* The log entries after that: any number of them.  One that follows the save
\* of the copy at once changes nothing, one that comes later is a stale write.
Logging == {"exec", "pr", "merged", "parked", "judge", "approved", "refused", "rollback"}
AddLog(p) ==
    /\ pc[p] \in Logging
    /\ pc[p] = "judge" => p \in failed
    /\ Save(job[p], copy[p])
    /\ UNCHANGED <<prs, running, pc, job, copy, cancelled, failed, todo, requests, done, used>>

\* executeStep returns nil without a PR; step 10 never does
StepSucceeds(w) ==
    /\ pc[w] = "exec"
    /\ copy[w].cur \notin PRSteps \ RollbackSteps
    /\ TrySave(job[w], copy[w])
    /\ done' = done \cup {<<job[w], copy[w].cur>>}
    /\ Drop(w, "reread")
    /\ UNCHANGED <<prs, running, job, cancelled, failed, todo, requests, used>>

\* any call of the step fails, its 2 minutes pass or its context is cancelled
StepFails(w) ==
    /\ pc[w] = "exec"
    /\ failed' = failed \cup {w}
    /\ Drop(w, "reread")
    /\ UNCHANGED <<store, prs, running, job, cancelled, todo, requests, done, used>>

\* step 1 returns ALREADY_MIGRATED after saving the record as completed
AlreadyMigrated(w) ==
    /\ pc[w] = "exec"
    /\ copy[w].cur = 1
    /\ TrySave(job[w], AlreadyDone(copy[w]))
    /\ done' = done \cup {<<job[w], 1>>}
    /\ Drop(w, "already")
    /\ UNCHANGED <<prs, running, job, cancelled, failed, todo, requests, used>>

\* Fault: the error of CreatePullRequest is ignored.
OpenPRUnchecked(w) ==
    /\ pc[w] = "exec"
    /\ copy[w].cur \in PRSteps
    /\ \E p \in PRs : prs[p] = "none" /\ Hold(w, Opened(copy[w], p))
    /\ Goto(w, "opened")
    /\ UNCHANGED <<store, prs, running, job, cancelled, failed, todo, requests, done, used>>

\* createPRWithLog: branch, commit, pull request
OpenPR(w) ==
    /\ pc[w] = "exec"
    /\ copy[w].cur \in PRSteps
    /\ \E p \in PRs :
          /\ prs[p] = "none"
          /\ \A q \in PRs : q < p => prs[q] # "none"
          /\ prs' = [prs EXCEPT ![p] = "open"]
          /\ Hold(w, Opened(copy[w], p))
    /\ Goto(w, "opened")
    /\ UNCHANGED <<store, running, job, cancelled, failed, todo, requests, done, used>>

AutoMerge(w) ==
    /\ pc[w] = "pr"
    /\ copy[w].mode = "yolo"
    /\ \/ /\ prs[Step(copy[w]).pr] = "open"
          /\ prs' = [prs EXCEPT ![Step(copy[w]).pr] = "merged"]
          /\ done' = done \cup {<<job[w], copy[w].cur>>}
          /\ Goto(w, "merged")
       \/ /\ Goto(w, "parked")
          /\ UNCHANGED <<prs, done>>
    /\ UNCHANGED <<store, running, job, copy, cancelled, failed, todo, requests, used>>

SaveMerged(w) ==
    /\ pc[w] = "merged"
    /\ TrySave(job[w], Merged(copy[w]))
    /\ Drop(w, "reread")
    /\ UNCHANGED <<prs, running, job, cancelled, failed, todo, requests, done, used>>

SaveParked(w) ==
    /\ \/ pc[w] = "parked"
       \/ pc[w] = "pr" /\ copy[w].mode # "yolo"
    /\ TrySave(job[w], Parked(copy[w]))
    /\ Drop(w, "reread")
    /\ UNCHANGED <<prs, running, job, cancelled, failed, todo, requests, done, used>>

\* after executeStep: the record is read again and step = &m.Steps[CurrentStep-1],
\* which panics when another actor has moved CurrentStep past the last step
Reread(w) ==
    /\ pc[w] \in {"reread", "already"}
    /\ \/ /\ Exists(job[w])
          /\ store[job[w]].cur > NSteps
          /\ Drop(w, "panic")
       \/ /\ Exists(job[w])
          /\ store[job[w]].cur <= NSteps
          /\ IF pc[w] = "already"
             THEN Drop(w, "exit")
             ELSE Hold(w, store[job[w]]) /\ Goto(w, "judge")
       \/ /\ ~Exists(job[w]) \/ "flaky" \in Faults
          /\ Drop(w, "exit")
    /\ UNCHANGED <<store, prs, running, job, cancelled, failed, todo, requests, done, used>>

Fail(w) ==
    /\ pc[w] = "judge"
    /\ w \in failed
    /\ TrySave(job[w], Failing(copy[w]))
    /\ Drop(w, "exit")
    /\ UNCHANGED <<prs, running, job, cancelled, failed, todo, requests, done, used>>

Wait(w) ==
    /\ pc[w] = "judge"
    /\ w \notin failed
    /\ Step(copy[w]).st = "waiting"
    /\ TrySave(job[w], WithStatus(copy[w], "waiting"))
    /\ Drop(w, "exit")
    /\ UNCHANGED <<prs, running, job, cancelled, failed, todo, requests, done, used>>

\* Fault: the step that waits for its PR is taken for completed.
AdvancePastPR(w) ==
    /\ pc[w] = "judge"
    /\ w \notin failed
    /\ TrySave(job[w], Advanced(copy[w]))
    /\ Drop(w, "top")
    /\ UNCHANGED <<prs, running, job, cancelled, failed, todo, requests, done, used>>

\* Fault: no gate before the last step.
AdvanceToLastStep(w) ==
    /\ pc[w] = "judge"
    /\ w \notin failed
    /\ Step(copy[w]).st # "waiting"
    /\ TrySave(job[w], Advanced(copy[w]))
    /\ IF copy[w].mode = "gates" /\ copy[w].cur + 1 < NSteps
       THEN Hold(w, Advanced(copy[w])) /\ Goto(w, "gate")
       ELSE Drop(w, "top")
    /\ UNCHANGED <<prs, running, job, cancelled, failed, todo, requests, done, used>>

Advance(w) ==
    /\ pc[w] = "judge"
    /\ w \notin failed
    /\ Step(copy[w]).st # "waiting"
    /\ TrySave(job[w], Advanced(copy[w]))
    /\ IF copy[w].mode = "gates" /\ copy[w].cur < NSteps
       THEN Hold(w, Advanced(copy[w])) /\ Goto(w, "gate")
       ELSE Drop(w, "top")
    /\ UNCHANGED <<prs, running, job, cancelled, failed, todo, requests, done, used>>

Gate(w) ==
    /\ pc[w] = "gate"
    /\ TrySave(job[w], WithStatus(copy[w], "gated"))
    /\ Drop(w, "exit")
    /\ UNCHANGED <<prs, running, job, cancelled, failed, todo, requests, done, used>>

\* the deferred recover marks the migration failed
RecoverRead(w) ==
    /\ pc[w] = "panic"
    /\ \/ /\ Exists(job[w])
          /\ Hold(w, store[job[w]])
          /\ Goto(w, "recover")
       \/ /\ ~Exists(job[w]) \/ "flaky" \in Faults
          /\ Drop(w, "exit")
    /\ UNCHANGED <<store, prs, running, job, cancelled, failed, todo, requests, done, used>>

RecoverSave(w) ==
    /\ pc[w] = "recover"
    /\ TrySave(job[w], WithStatus(copy[w], "failed"))
    /\ Drop(w, "exit")
    /\ UNCHANGED <<prs, running, job, cancelled, failed, todo, requests, done, used>>

\* Fault: the goroutine leaves its cancel function registered.
ExitRegistered(w) ==
    /\ pc[w] = "exit"
    /\ Drop(w, "idle")
    /\ job' = [job EXCEPT ![w] = Nobody]
    /\ cancelled' = cancelled \ {w}
    /\ failed' = failed \ {w}
    /\ used' = used \ {w}
    /\ UNCHANGED <<store, prs, running, todo, requests, done>>

\* deferred delete(e.running, id): whichever cancel is registered there
Exit(w) ==
    /\ pc[w] = "exit"
    /\ running' = [running EXCEPT ![job[w]] = Nobody]
    /\ Drop(w, "idle")
    /\ job' = [job EXCEPT ![w] = Nobody]
    /\ cancelled' = cancelled \ {w}
    /\ failed' = failed \ {w}
    /\ used' = used \ {w}
    /\ UNCHANGED <<store, prs, todo, requests, done>>

RunSteps(w) ==
    \/ Fetch(w) \/ Finish(w) \/ Begin(w)
    \/ StepSucceeds(w) \/ StepFails(w) \/ AlreadyMigrated(w)
    \/ OpenPR(w) \/ LogFirst(w) \/ AutoMerge(w) \/ SaveMerged(w) \/ SaveParked(w)
    \/ Reread(w) \/ Fail(w) \/ Wait(w) \/ Advance(w) \/ Gate(w)
    \/ RecoverRead(w) \/ RecoverSave(w) \/ Exit(w)

(***************************************************************************)
(* The request handlers.                                                   *)
(***************************************************************************)
\* a request is answered
Answer(h) ==
    /\ Drop(h, "idle")
    /\ job' = [job EXCEPT ![h] = Nobody]

\* a user makes a request
Ask(h) ==
    /\ pc[h] = "idle"
    /\ requests < MaxRequests
    /\ requests' = requests + 1

\* a request takes up migration id, holding r
Take(h, id, r, label) ==
    /\ job' = [job EXCEPT ![h] = id]
    /\ Hold(h, r)
    /\ Goto(h, label)

\* handleStartMigration: refused while another migration is active
Start(h, id, mode) ==
    /\ "start" \in Calls
    /\ Ask(h)
    /\ ~HasActiveMigration
    /\ store[id] = Unborn
    /\ \A p \in Procs : job[p] # id
    /\ Take(h, id, NewMigration(mode), "create")
    /\ UNCHANGED <<store, prs, running, cancelled, failed, todo, done, used>>

\* StartMigration saves the record; without a save there is no goroutine
Create(h) ==
    /\ pc[h] = "create"
    /\ \/ /\ Save(job[h], copy[h])
          /\ Goto(h, "spawn")
          /\ UNCHANGED <<job, copy>>
       \/ SaveFails /\ Answer(h)
    /\ UNCHANGED <<prs, running, cancelled, failed, todo, requests, done, used>>

\* the cancel function replaces the one registered, the goroutine starts
Spawn(h) ==
    /\ pc[h] = "spawn"
    /\ \E w \in Workers :
          /\ pc[w] = "idle"
          /\ pc' = [pc EXCEPT ![w] = "top", ![h] = "idle"]
          /\ job' = [job EXCEPT ![w] = job[h], ![h] = Nobody]
          /\ running' = [running EXCEPT ![job[h]] = w]
    /\ Hold(h, Nobody)
    /\ UNCHANGED <<store, prs, cancelled, failed, todo, requests, done, used>>

\* Fault: a running migration can be continued.
ResumableRunning(r) == r.status \notin {"completed", "rolled_back"}

\* ContinueAfterPR reads the record and looks at its status.  A waiting or failed
\* one whose cursor is past the last step makes it panic (executor.go:294): in a
\* request net/http recovers and nothing has changed, in the background of
\* handleMergePR the process dies as in Crash.  No run comes to the latter.
Resumable(r) ==
    /\ r.status \in {"waiting", "gated", "paused", "cancelled", "failed"}
    /\ r.status \in {"waiting", "failed"} => r.cur <= NSteps

UnmergedPR(r) == r.status = "waiting" /\ Step(r).pr > 0 /\ Step(r).prst # "merged"

ContinueWith(h, id) ==
    Take(h, id, store[id], IF UnmergedPR(store[id]) THEN "merge" ELSE "resume")

Continue(h, id) ==
    /\ "continue" \in Calls
    /\ Ask(h)
    /\ Exists(id)
    /\ Resumable(store[id])
    /\ ContinueWith(h, id)
    /\ UNCHANGED <<store, prs, running, cancelled, failed, todo, done, used>>

MergeToContinue(h) ==
    /\ pc[h] = "merge"
    /\ \/ /\ prs[Step(copy[h]).pr] = "open"
          /\ prs' = [prs EXCEPT ![Step(copy[h]).pr] = "merged"]
          /\ done' = done \cup {<<job[h], copy[h].cur>>}
          /\ Goto(h, "accepted")
       \/ /\ Goto(h, "declined")
          /\ UNCHANGED <<prs, done>>
    /\ UNCHANGED <<store, running, job, copy, cancelled, failed, todo, requests, used>>

MergeRefused(h) ==
    /\ pc[h] = "refused"
    /\ TrySave(job[h], Failing(copy[h]))
    /\ Answer(h)
    /\ UNCHANGED <<prs, running, cancelled, failed, todo, requests, done, used>>

\* Status = running and the save whose error is returned
Resume(h) ==
    /\ pc[h] \in {"resume", "approved"}
    /\ \/ /\ Save(job[h], Resumed(copy[h]))
          /\ Goto(h, "spawn")
          /\ UNCHANGED <<job, copy>>
       \/ SaveFails /\ Answer(h)
    /\ UNCHANGED <<prs, running, cancelled, failed, todo, requests, done, used>>

Retry(h, id) ==
    /\ "retry" \in Calls
    /\ Ask(h)
    /\ Exists(id)
    /\ store[id].status = "failed"
    /\ store[id].cur <= NSteps
    /\ Take(h, id, store[id], "resume")
    /\ UNCHANGED <<store, prs, running, cancelled, failed, todo, done, used>>

\* PauseMigration, CancelMigration: first the cancel function, under the lock
Halting == {"pause", "cancel", "delete"}
Halt(h, id, call) ==
    /\ call \in Calls
    /\ Ask(h)
    /\ store[id] # Unborn
    /\ cancelled' = cancelled \cup ({running[id]} \ {Nobody})
    /\ running' = [running EXCEPT ![id] = Nobody]
    /\ Take(h, id, Nobody, call)
    /\ UNCHANGED <<store, prs, failed, todo, done, used>>

\* then the record is read ...
HaltRead(h) ==
    /\ pc[h] \in Halting
    /\ \/ /\ Exists(job[h])
          /\ Hold(h, WithStatus(store[job[h]],
                                IF pc[h] = "pause" THEN "paused" ELSE "cancelled"))
          /\ Goto(h, IF pc[h] = "delete" THEN "saveAndDelete" ELSE "halt")
          /\ UNCHANGED job
       \/ /\ ~Exists(job[h]) \/ "flaky" \in Faults
          /\ IF pc[h] = "delete"
             THEN Goto(h, "remove") /\ UNCHANGED <<copy, job>>
             ELSE Answer(h)
    /\ UNCHANGED <<store, prs, running, cancelled, failed, todo, requests, done, used>>

\* ... and its status is overwritten, whatever it was
HaltSave(h) ==
    /\ \/ pc[h] = "halt" /\ Answer(h)
       \/ pc[h] = "saveAndDelete" /\ Goto(h, "remove") /\ UNCHANGED <<copy, job>>
    /\ TrySave(job[h], copy[h])
    /\ UNCHANGED <<prs, running, cancelled, failed, todo, requests, done, used>>

\* handleDeleteMigration: DeleteMigration after the cancel
Remove(h) ==
    /\ pc[h] = "remove"
    /\ Save(job[h], Deleted) \/ SaveFails
    /\ Answer(h)
    /\ UNCHANGED <<prs, running, cancelled, failed, todo, requests, done, used>>

\* handleMergePR on step s
MergePR(h, id, s) ==
    /\ "mergePR" \in Calls
    /\ Ask(h)
    /\ Exists(id)
    /\ store[id].steps[s].pr > 0
    /\ Take(h, id, store[id], "mergePR")
    /\ todo' = [todo EXCEPT ![h] = {s}]
    /\ UNCHANGED <<store, prs, running, cancelled, failed, done, used>>

MergePRAtHost(h) ==
    /\ pc[h] = "mergePR"
    /\ \/ \E s \in todo[h] :
             LET p == copy[h].steps[s].pr
             IN  /\ prs[p] = "open"
                 /\ prs' = [prs EXCEPT ![p] = "merged"]
                 /\ done' = done \cup {<<job[h], s>>}
                 /\ Goto(h, "mergedByUser")
                 /\ UNCHANGED <<copy, job, todo>>
       \/ /\ Answer(h)
          /\ todo' = [todo EXCEPT ![h] = {}]
          /\ UNCHANGED <<prs, done>>
    /\ UNCHANGED <<store, running, cancelled, failed, requests, used>>

\* the step is marked; when the migration waited for it, ContinueAfterPR is
\* started in the background
MergePRSave(h) ==
    /\ pc[h] = "mergedByUser"
    /\ \E s \in todo[h] :
          /\ TrySave(job[h], MergedByUser(copy[h], s))
          /\ IF copy[h].steps[s].st = "waiting" /\ copy[h].status = "waiting"
             THEN Goto(h, "continue") /\ Hold(h, Nobody) /\ UNCHANGED job
             ELSE Answer(h)
    /\ todo' = [todo EXCEPT ![h] = {}]
    /\ UNCHANGED <<prs, running, cancelled, failed, requests, done, used>>

\* that background call, with the switch on the status it reads
ContinueMerged(h) ==
    /\ pc[h] = "continue"
    /\ \/ /\ Exists(job[h])
          /\ Resumable(store[job[h]])
          /\ ContinueWith(h, job[h])
       \/ /\ Exists(job[h]) => ~Resumable(store[job[h]]) \/ "flaky" \in Faults
          /\ Answer(h)
    /\ UNCHANGED <<store, prs, running, cancelled, failed, todo, requests, done, used>>

\* RollbackMigration: only failed or cancelled migrations
Rollback(h, id) ==
    /\ "rollback" \in Calls
    /\ Ask(h)
    /\ Exists(id)
    /\ store[id].status \in {"failed", "cancelled"}
    /\ Take(h, id, store[id], "reverting")
    /\ todo' = [todo EXCEPT ![h] =
                   {s \in RollbackSteps : store[id].steps[s].st = "completed"}]
    /\ UNCHANGED <<store, prs, running, cancelled, failed, done, used>>

\* one PR per completed step, the later step first; an error is counted;
\* logged before and after
RollbackPR(h) ==
    /\ pc[h] = "rollback"
    /\ \E s \in todo[h] :
          /\ \A t \in todo[h] : t <= s
          /\ todo' = [todo EXCEPT ![h] = @ \ {s}]
          /\ TrySave(job[h], copy[h])
          /\ \/ /\ failed' = failed \cup {h}
                /\ UNCHANGED prs
             \/ \E p \in PRs :
                   /\ prs[p] = "none"
                   /\ \A q \in PRs : q < p => prs[q] # "none"
                   /\ \E outcome \in IF copy[h].mode = "yolo" THEN {"open", "merged"} ELSE {"open"} :
                         prs' = [prs EXCEPT ![p] = outcome]
                   /\ UNCHANGED failed
    /\ UNCHANGED <<running, pc, job, copy, cancelled, requests, done, used>>

RollbackEnd(h) ==
    /\ pc[h] = "rollback"
    /\ todo[h] = {}
    /\ TrySave(job[h], WithStatus(copy[h], IF h \in failed THEN "failed" ELSE "rolled_back"))
    /\ Answer(h)
    /\ failed' = failed \ {h}
    /\ UNCHANGED <<prs, running, cancelled, todo, requests, done, used>>

Request(h) ==
    \E id \in Migrations :
       \/ \E mode \in Modes : Start(h, id, mode)
       \/ Continue(h, id)
       \/ Retry(h, id)
       \/ \E call \in Halting : Halt(h, id, call)
       \/ \E s \in Steps : MergePR(h, id, s)
       \/ Rollback(h, id)

Serve(h) ==
    \/ Create(h) \/ Spawn(h)
    \/ MergeToContinue(h) \/ LogFirst(h) \/ MergeRefused(h) \/ Resume(h)
    \/ HaltRead(h) \/ HaltSave(h) \/ Remove(h)
    \/ MergePRAtHost(h) \/ MergePRSave(h) \/ ContinueMerged(h)
    \/ RollbackPR(h) \/ RollbackEnd(h)

(***************************************************************************)
(* The environment.                                                        *)
(***************************************************************************)
\* a reviewer merges a PR at the Git host
HostMerge(p) ==
    /\ prs[p] = "open"
    /\ prs' = [prs EXCEPT ![p] = "merged"]
    /\ UNCHANGED <<store, running, pc, job, copy, cancelled, failed, todo, requests, done, used>>

\* the pod restarts: goroutines, requests and e.running are gone
Crash ==
    /\ "crash" \in Faults
    /\ running' = [id \in Migrations |-> Nobody]
    /\ pc' = [p \in Procs |-> "idle"]
    /\ job' = [p \in Procs |-> Nobody]
    /\ copy' = [p \in Procs |-> Nobody]
    /\ cancelled' = {}
    /\ failed' = {}
    /\ todo' = [h \in Handlers |-> {}]
    /\ used' = {}
    /\ UNCHANGED <<store, prs, requests, done>>

Next ==
    \/ \E w \in Workers : RunSteps(w)
    \/ \E h \in Handlers : Request(h) \/ Serve(h)
    \/ \E p \in Procs : AddLog(p)
    \/ \E p \in PRs : HostMerge(p)
    \/ Crash

Spec == Init /\ [][Next]_vars

\* Goroutines and requests in progress are scheduled; nobody is obliged to
\* make a request, to merge a PR or to crash.
Fairness ==
    /\ \A w \in Workers : WF_vars(RunSteps(w))
    /\ \A h \in Handlers : WF_vars(Serve(h))
FairSpec == Spec /\ Fairness
-----------------------------------------------------------------------------
(***************************************************************************)
(* Properties.                                                             *)
(***************************************************************************)
\* where a goroutine or a request may stand, those of MigrationBatch included
Labels == {"idle", "top", "begin", "exec", "pr", "merged", "parked", "reread",
           "already", "judge", "gate", "panic", "recover", "exit", "create",
           "spawn", "merge", "approved", "refused", "resume", "pause", "cancel",
           "delete", "halt", "saveAndDelete", "remove", "mergePR",
           "mergedByUser", "continue", "rollback", "opened", "accepted",
           "declined", "reverting",
           "members", "batch", "first", "advance", "step", "next", "launch", "run"}

TypeOK ==
    /\ store \in [Migrations -> Record \cup {Unborn, Deleted}]
    /\ prs \in [PRs -> {"none", "open", "merged"}]
    /\ running \in [Migrations -> Workers \cup {Nobody}]
    /\ pc \in [Procs -> Labels]
    /\ job \in [Procs -> Migrations \cup {Nobody}]
    /\ copy \in [Procs -> Record \cup {Nobody}]
    /\ cancelled \in SUBSET Workers
    /\ failed \in SUBSET Procs
    /\ todo \in [Handlers -> SUBSET Steps]
    /\ requests \in 0..MaxRequests
    /\ done \in SUBSET (Migrations \X Steps)
    /\ used \in SUBSET Workers

\* The steps before CurrentStep are behind, those after it are untouched.
OrderedSteps(r) ==
    \A s \in Steps :
        /\ s < r.cur => r.steps[s].st \in {"completed", "skipped"}
        /\ s > r.cur => r.steps[s].st \in {"pending", "skipped"}

\* A step that waits has a PR somebody must still merge; a migration waits
\* exactly because its current step does.
WaitsForItsPR(r) ==
    /\ \A s \in Steps : r.steps[s].st = "waiting" =>
                            r.steps[s].pr > 0 /\ r.steps[s].prst = "open"
    /\ r.status = "waiting" => r.cur <= NSteps /\ Step(r).st = "waiting"

\* A completed migration has no step left.
NothingLeft(r) ==
    r.status = "completed" => \A s \in Steps : r.steps[s].st \in {"completed", "skipped"}

Coherent(r) == OrderedSteps(r) /\ WaitsForItsPR(r) /\ NothingLeft(r)

\* However stale the copies that goroutines and handlers write over each
\* other, the record in the store always makes sense on its own.
RecordsCoherent == \A id \in Migrations : Exists(id) => Coherent(store[id])

\* Every PR number in the store names a PR that was opened.
PRNumbersReal ==
    \A id \in Migrations : Exists(id) =>
        \A s \in Steps : store[id].steps[s].pr > 0 => prs[store[id].steps[s].pr] # "none"

\* e.running never keeps the cancel function of a goroutine that has ended or
\* that works on another migration: a Pause cannot stop the wrong work.
CancelsTheRightWork ==
    \A id \in Migrations : running[id] # Nobody =>
        pc[running[id]] # "idle" /\ job[running[id]] = id

\* A goroutine that may still write the migration's record.
Drivers(id) == {w \in Workers : job[w] = id /\ pc[w] # "exit"}

\* One operator who neither pauses, cancels nor deletes: a migration is driven
\* by one goroutine at most, and by none while a request changes it.
OneDriver ==
    \A id \in Migrations :
        /\ Cardinality(Drivers(id)) <= 1
        /\ (\E h \in Handlers : job[h] = id) => Drivers(id) = {}

\* A step is marked completed only if its work was carried out: the step
\* succeeded, or its PR is merged at the Git host.
StepReallyDone(id, s) ==
    \/ <<id, s>> \in done
    \/ store[id].steps[s].pr > 0 /\ prs[store[id].steps[s].pr] = "merged"
CompletedStepsWereRun ==
    \A id \in Migrations : Exists(id) =>
        \A s \in Steps : store[id].steps[s].st = "completed" => StepReallyDone(id, s)

\* In gates mode a goroutine begins one step: the next one needs the request
\* that starts the next goroutine ("Pauses after each step for your approval").
OneStepPerApproval ==
    \A w \in Workers :
        pc[w] = "begin" /\ copy[w].mode = "gates" /\ copy[w].cur <= NSteps => w \notin used

\* Progress is never taken back: CurrentStep only grows.
ProgressKept ==
    [][\A id \in Migrations : Exists(id) /\ Exists(id)' => store'[id].cur >= store[id].cur]_vars

\* "Only one migration runs at a time to avoid PR conflicts on shared files."
OneMigrationAtATime ==
    \A a, b \in Migrations : IsRunning(a) /\ IsRunning(b) => a = b

\* A running migration comes to rest: completed, failed, waiting or gated.
RunsEnd ==
    \A id \in Migrations : IsRunning(id) ~> ~IsRunning(id)

\* Auto Merge: once the host has merged the PR a migration waits for, a
\* goroutine drives the migration again ("Auto Merge marks step complete and
\* continues migration", CHANGELOG.md).
AutoMergeContinues ==
    \A h \in Handlers, id \in Migrations :
        (pc[h] = "mergedByUser" /\ job[h] = id /\ copy[h].status = "waiting")
            ~> Drivers(id) # {}

\* The record in the store moves only as the lifecycle allows.
Lifecycle == INSTANCE MigrationLifecycle WITH
    status <- [id \in Migrations |-> IF Exists(id) THEN store[id].status ELSE "unborn"],
    passed <- [id \in Migrations |-> IF Exists(id) THEN store[id].cur - 1 ELSE 0]
FollowsLifecycle == Lifecycle!Spec
=============================================================================
