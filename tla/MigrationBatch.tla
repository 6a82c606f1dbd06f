--------------------------- MODULE MigrationBatch ---------------------------
(***************************************************************************)
(* Batches of migrations (StartBatch and advanceBatch of                   *)
(* internal/migration/executor.go), on top of MigrationExecutor: members,  *)
(* goroutines and requests are those of that module, step by step.         *)
(*                                                                         *)
(* One goroutine, the keeper, runs the first member and then, inside       *)
(* advanceBatch, the others one after the other.  A worker stands for the  *)
(* context of one run: the keeper while it runs the first member, another  *)
(* worker (inner) for each member that advanceBatch runs.                  *)
(***************************************************************************)
EXTENDS MigrationExecutor, Sequences

CONSTANTS
    Members,  \* the ids of the batch's migrations, in order
    FileStore \* files on disk (local mode) or ConfigMaps

ASSUME BatchAssumption ==
    /\ Members \in Seq(Migrations) /\ Members # <<>>
    /\ \A i, j \in DOMAIN Members : Members[i] = Members[j] => i = j
    /\ FileStore \in BOOLEAN

Size     == Len(Members)
InBatch  == {Members[i] : i \in 1..Size}
NoBatch  == [status |-> "none", index |-> 0]
BatchRecord == [status : {"running", "completed", "failed"}, index : 1..(Size + 1)]

VARIABLES
    batch,  \* the stored batch
    local,  \* the copy that advanceBatch holds
    keeper, \* the goroutine of StartBatch, until it leaves advanceBatch
    inner   \* the run that advanceBatch waits for

bvars == <<batch, local, keeper, inner>>
allVars == <<vars, bvars>>

BatchInit ==
    /\ Init
    /\ batch = NoBatch
    /\ local = NoBatch
    /\ keeper = Nobody
    /\ inner = Nobody

(***************************************************************************)
(* StartBatch                                                              *)
(***************************************************************************)
\* Fault: the list of migrations leaves the batch's file out.
BatchNeverCounts == FileStore /\ batch.status = "unfinished"

\* In local mode the file of a running batch is listed as one more migration,
\* with the batch's status for its own.
BatchCountsAsActive == FileStore /\ batch.status = "running"

\* handleStartBatch: refused while a migration is active; the ids are new
StartBatch(h, mode) ==
    /\ "batch" \in Calls
    /\ Ask(h)
    /\ ~HasActiveMigration
    /\ ~BatchCountsAsActive
    /\ \A id \in InBatch : store[id] = Unborn
    /\ \A p \in Procs : job[p] \notin InBatch
    /\ Take(h, Members[1], NewMigration(mode), "members")
    /\ UNCHANGED <<store, prs, running, cancelled, failed, todo, done, used, bvars>>

\* the members are saved one by one, the first one running, the others
\* pending; an error ends the request and leaves those already saved
SaveMember(h) ==
    /\ pc[h] = "members"
    /\ \E i \in 1..Size :
          /\ store[Members[i]] = Unborn
          /\ \A j \in 1..(i - 1) : store[Members[j]] # Unborn
          /\ \/ /\ Save(Members[i], IF i = 1 THEN copy[h] ELSE WithStatus(copy[h], "pending"))
                /\ Goto(h, IF i = Size THEN "batch" ELSE "members")
                /\ UNCHANGED <<copy, job>>
             \/ SaveFails /\ Answer(h)
    /\ UNCHANGED <<prs, running, cancelled, failed, todo, requests, done, used, bvars>>

SaveNewBatch(h) ==
    /\ pc[h] = "batch"
    /\ \/ /\ batch' = [status |-> "running", index |-> 1]
          /\ Goto(h, "first")
          /\ UNCHANGED <<copy, job>>
       \/ /\ "flaky" \in Faults
          /\ Answer(h)
          /\ UNCHANGED batch
    /\ UNCHANGED <<store, prs, running, cancelled, failed, todo, requests, done, used, local, keeper, inner>>

\* the goroutine starts, unless the first member cannot be read
SpawnKeeper(h) ==
    /\ pc[h] = "first"
    /\ \/ /\ Exists(Members[1])
          /\ \E w \in Workers :
                /\ pc[w] = "idle"
                /\ pc' = [pc EXCEPT ![w] = "top", ![h] = "idle"]
                /\ job' = [job EXCEPT ![w] = Members[1], ![h] = Nobody]
                /\ running' = [running EXCEPT ![Members[1]] = w]
                /\ keeper' = w
          /\ Hold(h, Nobody)
       \/ /\ ~Exists(Members[1]) \/ "flaky" \in Faults
          /\ Answer(h)
          /\ UNCHANGED <<running, keeper>>
    /\ UNCHANGED <<store, prs, cancelled, failed, todo, requests, done, used, batch, local, inner>>

(***************************************************************************)
(* The keeper after RunSteps: advanceBatch.  Nobody else writes the batch. *)
(***************************************************************************)
SaveBatch(b) == batch' = b \/ ("flaky" \in Faults /\ UNCHANGED batch)

\* RunSteps of the first member returns
FirstMemberEnds(w) ==
    /\ w = keeper
    /\ pc[w] = "exit"
    /\ Goto(w, "advance")
    /\ UNCHANGED <<store, prs, running, job, copy, cancelled, failed, todo, requests, done, used, bvars>>

\* advanceBatch returns: the deferred calls of the goroutine are left
Leave(w) ==
    /\ Drop(w, "exit")
    /\ keeper' = Nobody
    /\ local' = NoBatch

StillActive(id) == Exists(id) /\ store[id].status \in Active

\* Fault: a member that waits for its PR is passed over.
CheckMemberNotRunning(w) ==
    /\ w = keeper
    /\ pc[w] = "advance"
    /\ inner = Nobody
    /\ LET current == Members[batch.index]
       IN  \/ /\ Exists(current)
              /\ ~IsRunning(current)
              /\ local' = [batch EXCEPT !.index = @ + 1]
              /\ Goto(w, "step")
              /\ UNCHANGED <<copy, keeper>>
           \/ IsRunning(current) /\ Leave(w)
    /\ UNCHANGED <<store, prs, running, job, cancelled, failed, todo, requests, done, used, batch, inner>>

\* Fault: only a completed member lets the batch move on.
CheckMemberCompleted(w) ==
    /\ w = keeper
    /\ pc[w] = "advance"
    /\ inner = Nobody
    /\ LET current == Members[batch.index]
       IN  IF Exists(current) /\ store[current].status = "completed"
           THEN /\ local' = [batch EXCEPT !.index = @ + 1]
                /\ Goto(w, "step")
                /\ UNCHANGED <<copy, keeper>>
           ELSE Leave(w)
    /\ UNCHANGED <<store, prs, running, job, cancelled, failed, todo, requests, done, used, batch, inner>>

\* Fault: CurrentIndex is not moved, and the member is run again.
CheckMemberAgain(w) ==
    /\ w = keeper
    /\ pc[w] = "advance"
    /\ inner = Nobody
    /\ LET current == Members[batch.index]
       IN  \/ /\ Exists(current)
              /\ ~StillActive(current)
              /\ local' = batch
              /\ Goto(w, "step")
              /\ UNCHANGED <<copy, keeper>>
           \/ StillActive(current) /\ Leave(w)
    /\ UNCHANGED <<store, prs, running, job, cancelled, failed, todo, requests, done, used, batch, inner>>

\* GetBatch and GetMigration of the current member: it must have finished
CheckMember(w) ==
    /\ w = keeper
    /\ pc[w] = "advance"
    /\ inner = Nobody
    /\ LET current == Members[batch.index]
       IN  \/ /\ Exists(current)
              /\ ~StillActive(current)
              /\ local' = [batch EXCEPT !.index = @ + 1]
              /\ Goto(w, "step")
              /\ UNCHANGED <<copy, keeper>>
           \/ /\ \/ ~Exists(current)
                 \/ StillActive(current)
                 \/ "flaky" \in Faults
              /\ Leave(w)
    /\ UNCHANGED <<store, prs, running, job, cancelled, failed, todo, requests, done, used, batch, inner>>

\* Fault: CurrentIndex is compared with the last index.
StepBatchEarly(w) ==
    /\ w = keeper
    /\ pc[w] = "step"
    /\ IF local.index >= Size
       THEN SaveBatch([local EXCEPT !.status = "completed"]) /\ Leave(w)
       ELSE SaveBatch(local) /\ Goto(w, "next") /\ UNCHANGED <<copy, local, keeper>>
    /\ UNCHANGED <<store, prs, running, job, cancelled, failed, todo, requests, done, used, inner>>

\* CurrentIndex++: all addons done, or on to the next one
StepBatch(w) ==
    /\ w = keeper
    /\ pc[w] = "step"
    /\ IF local.index > Size
       THEN SaveBatch([local EXCEPT !.status = "completed"]) /\ Leave(w)
       ELSE SaveBatch(local) /\ Goto(w, "next") /\ UNCHANGED <<copy, local, keeper>>
    /\ UNCHANGED <<store, prs, running, job, cancelled, failed, todo, requests, done, used, inner>>

\* the next member is read; without it the batch has failed
ReadNext(w) ==
    /\ w = keeper
    /\ pc[w] = "next"
    /\ LET next == Members[local.index]
       IN  \/ /\ Exists(next)
              /\ Hold(w, WithStatus(store[next], "running"))
              /\ Goto(w, "launch")
              /\ UNCHANGED <<batch, local, keeper>>
           \/ /\ ~Exists(next) \/ "flaky" \in Faults
              /\ SaveBatch([local EXCEPT !.status = "failed"])
              /\ Leave(w)
    /\ UNCHANGED <<store, prs, running, job, cancelled, failed, todo, requests, done, used, inner>>

\* ... and saved as running, whatever its status was
Launch(w) ==
    /\ w = keeper
    /\ pc[w] = "launch"
    /\ TrySave(Members[local.index], copy[w])
    /\ Drop(w, "run")
    /\ UNCHANGED <<prs, running, job, cancelled, failed, todo, requests, done, used, bvars>>

RunMember(w) ==
    /\ w = keeper
    /\ pc[w] = "run"
    /\ \E v \in Workers :
          /\ pc[v] = "idle"
          /\ pc' = [pc EXCEPT ![v] = "top", ![w] = "advance"]
          /\ job' = [job EXCEPT ![v] = Members[local.index]]
          /\ running' = [running EXCEPT ![Members[local.index]] = v]
          /\ inner' = v
    /\ local' = NoBatch
    /\ UNCHANGED <<store, prs, copy, cancelled, failed, todo, requests, done, used, batch, keeper>>

\* Fault: advanceBatch does not notice that the run has ended.
InnerEndsUnnoticed(w) ==
    /\ w = inner
    /\ Exit(w)
    /\ UNCHANGED <<batch, local, keeper, inner>>

\* the run returns to advanceBatch
InnerEnds(w) ==
    /\ w = inner
    /\ Exit(w)
    /\ inner' = Nobody
    /\ UNCHANGED <<batch, local, keeper>>

\* the recover of a batch only logs: the keeper ends without advanceBatch,
\* advanceBatch goes on after a member's run
MemberPanics(w) ==
    /\ w \in {keeper, inner} \ {Nobody}
    /\ pc[w] = "panic"
    /\ Goto(w, "exit")
    /\ keeper' = IF w = keeper THEN Nobody ELSE keeper
    /\ UNCHANGED <<store, prs, running, job, copy, cancelled, failed, todo, requests, done, used, batch, local, inner>>

KeepBatch(w) ==
    \/ FirstMemberEnds(w) \/ CheckMember(w) \/ StepBatch(w) \/ ReadNext(w)
    \/ Launch(w) \/ RunMember(w) \/ InnerEnds(w) \/ MemberPanics(w)

\* RunSteps of a member, as of any migration, up to its end
RunStepsHere(w) ==
    /\ w \in {keeper, inner} => pc[w] \notin {"exit", "panic"}
    /\ RunSteps(w)
    /\ UNCHANGED bvars

ServeBatch(h) == SaveMember(h) \/ SaveNewBatch(h) \/ SpawnKeeper(h)

\* every other request; a migration outside the batch is started only when
\* the list of migrations shows none active
OtherRequest(h) ==
    /\ \/ \E id \in Migrations \ InBatch, mode \in Modes : Start(h, id, mode) /\ ~BatchCountsAsActive
       \/ \E id \in Migrations :
             \/ Continue(h, id)
             \/ Retry(h, id)
             \/ \E call \in Halting : Halt(h, id, call)
             \/ \E s \in Steps : MergePR(h, id, s)
             \/ Rollback(h, id)
    /\ UNCHANGED bvars

ServeHere(h) == Serve(h) /\ UNCHANGED bvars

BatchCrash ==
    /\ Crash
    /\ keeper' = Nobody
    /\ inner' = Nobody
    /\ local' = NoBatch
    /\ UNCHANGED batch

BatchNext ==
    \/ \E w \in Workers : RunStepsHere(w) \/ KeepBatch(w)
    \/ \E h \in Handlers : \E mode \in Modes : StartBatch(h, mode)
    \/ \E h \in Handlers : OtherRequest(h) \/ ServeHere(h) \/ ServeBatch(h)
    \/ (\E p \in Procs : AddLog(p)) /\ UNCHANGED bvars
    \/ (\E p \in PRs : HostMerge(p)) /\ UNCHANGED bvars
    \/ BatchCrash

BatchSpec == BatchInit /\ [][BatchNext]_allVars

\* Goroutines and requests in progress are scheduled, as in MigrationExecutor.
BatchFairSpec ==
    /\ BatchSpec
    /\ \A w \in Workers : WF_allVars(RunStepsHere(w) \/ KeepBatch(w))
    /\ \A h \in Handlers : WF_allVars(ServeHere(h) \/ ServeBatch(h))
-----------------------------------------------------------------------------
(***************************************************************************)
(* Properties.                                                             *)
(***************************************************************************)
BatchTypeOK ==
    /\ TypeOK
    /\ batch \in BatchRecord \cup {NoBatch}
    /\ local \in BatchRecord \cup {NoBatch}
    /\ keeper \in Workers \cup {Nobody}
    /\ inner \in Workers \cup {Nobody}
    /\ inner # Nobody => job[inner] \in InBatch

Untouched(id) == Exists(id) => \A s \in Steps : store[id].steps[s].st = "pending"
AtRest(id)    == ~StillActive(id)

\* "addons run one at a time in sequence": no step of a later member has begun
\* and the members before the current one are at rest.
MembersInSequence ==
    \A i \in 1..Size :
        /\ i > 1 /\ i > batch.index => Untouched(Members[i])
        /\ i < batch.index => AtRest(Members[i])

\* A batch is completed only when every one of its members had its turn.
BatchTreatsAll ==
    batch.status = "completed" =>
        \A id \in InBatch : AtRest(id) /\ (Exists(id) => store[id].status # "pending")

\* A batch ends or comes to a member that waits for a person.
BatchComesToRest ==
    batch.status = "running" ~>
        \/ batch.status # "running"
        \/ \E id \in InBatch : Exists(id) /\ store[id].status \in {"waiting", "gated"}

\* A member that has finished makes the batch move on, whoever ran its last
\* step ("it will call advanceBatch when done").
BatchMovesOn ==
    \A i \in 1..Size :
        (batch = [status |-> "running", index |-> i] /\ Exists(Members[i])
            /\ store[Members[i]].status = "completed")
        ~> batch # [status |-> "running", index |-> i]

\* How the queue sees the record of a member.
TurnOf(id) ==
    CASE ~Exists(id) -> "absent"
      [] Exists(id) /\ store[id].status = "pending" -> "queued"
      [] Exists(id) /\ store[id].status = "running" -> "running"
      [] Exists(id) /\ store[id].status \in {"waiting", "gated", "paused"} -> "stopped"
      [] OTHER -> "ended"

\* A batch is "a sequential queue": advanceBatch gives each member one turn, in
\* the order of the batch, and passes a member, by one place, only when it has
\* ended; none is skipped, run again or begun beside another.
Queue == INSTANCE BatchQueue WITH
    Length <- Size,
    state <- batch.status,
    at <- batch.index,
    turn <- [i \in 1..Size |-> TurnOf(Members[i])]
FollowsQueue == Queue!Spec
=============================================================================
