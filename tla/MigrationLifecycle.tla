------------------------ MODULE MigrationLifecycle -------------------------
(***************************************************************************)
(* What the migration pipeline promises of each migration (models.go,      *)
(* docs/user-guide/06-migration.md): it goes through its steps in order,   *)
(* one at a time, rests where a person must act, and ends completed only   *)
(* when no step is left.  MigrationExecutor implements it for an operator  *)
(* who does not interrupt a running goroutine.                             *)
(***************************************************************************)
EXTENDS Integers

CONSTANTS Migrations, NSteps

VARIABLES
    status, \* id -> the migration's status, "unborn" before it is created
    passed  \* id -> how many steps are behind

vars == <<status, passed>>

Init ==
    /\ status = [id \in Migrations |-> "unborn"]
    /\ passed = [id \in Migrations |-> 0]

Become(id, from, to) ==
    /\ status[id] \in from
    /\ status' = [status EXCEPT ![id] = to]

Pass(id) ==
    /\ passed[id] < NSteps
    /\ passed' = [passed EXCEPT ![id] = @ + 1]

Create(id) == Become(id, {"unborn"}, "running") /\ UNCHANGED passed

\* the current step is done, the goroutine goes on
PassStep(id) == status[id] = "running" /\ Pass(id) /\ UNCHANGED status

\* a PR waits for its merge, an approval is due, a step failed
Rest(id) ==
    /\ \/ Become(id, {"running"}, "waiting")
       \/ Become(id, {"running"}, "gated")
       \/ Become(id, {"running", "waiting"}, "failed")
    /\ UNCHANGED passed

\* approval, retry; merging the PR a migration waits for passes its step
Resume(id) ==
    \/ Become(id, {"gated", "failed"}, "running") /\ UNCHANGED passed
    \/ Become(id, {"waiting"}, "running") /\ Pass(id)

\* no step is left, or the first step found the addon migrated already
Complete(id) ==
    /\ passed[id] \in {0, NSteps}
    /\ Become(id, {"running"}, "completed")
    /\ UNCHANGED passed

RollBack(id) == Become(id, {"failed"}, "rolled_back") /\ UNCHANGED passed

Next ==
    \E id \in Migrations :
        Create(id) \/ PassStep(id) \/ Rest(id) \/ Resume(id) \/ Complete(id) \/ RollBack(id)

Spec == Init /\ [][Next]_vars
=============================================================================
