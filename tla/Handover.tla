------------------------------ MODULE Handover ------------------------------
(***************************************************************************)
(* What a migration does to the world (internal/migration/steps.go,        *)
(* rollback.go): it moves one addon, cluster by cluster, from the OLD      *)
(* ArgoCD to the NEW one, by pull requests to the two Git repositories     *)
(* that the two ArgoCDs follow.                                            *)
(*                                                                         *)
(* One migration at a time and one goroutine that drives it, as            *)
(* MigrationExecutor shows for an operator who interrupts nothing.  The    *)
(* steps before the current one are the completed ones (RecordsCoherent    *)
(* there), so the record keeps no status per step.  Reading a file and     *)
(* branching from main are two steps: main may move between them.          *)
(***************************************************************************)
EXTENDS Integers, FiniteSets

CONSTANTS
    Clusters,      \* clusters that run the addon
    Modes,         \* "gates", "yolo"
    MaxPRs,        \* pull requests that may be opened (bound)
    MaxMigrations, \* migrations that may be started (bound)
    Calls,         \* requests users make besides start and continue
    Faults         \* "unreachable": calls of an ArgoCD may fail; "lost": the
                   \* answer that brings a new PR's number may be lost

ASSUME HandoverAssumption ==
    /\ Modes \subseteq {"gates", "yolo"}
    /\ MaxPRs \in Nat
    /\ MaxMigrations \in Nat
    /\ Calls \subseteq {"cancel", "rollback"}
    /\ Faults \subseteq {"unreachable", "lost"}

LastStep == 10
PRs    == 1..MaxPRs
Labels == {"absent", "enabled", "disabled"}
Nothing == [status |-> "none"]

\* cluster-addons.yaml of each repository and addons-catalog.yaml, which is
\* in the NEW one: only what concerns the addon
Files == {"new", "old", "catalog"}
Content(f) == IF f = "catalog" THEN [{"addon"} -> {"inMigration", "done"}]
                               ELSE [Clusters -> Labels]

\* what a PR step changes, and what rollback changes back
Change(s) ==
    CASE s = 3  -> [file |-> "new", value |-> "enabled"]
      [] s = 5  -> [file |-> "old", value |-> "disabled"]
      [] s = 10 -> [file |-> "catalog", value |-> "done"]
Reversal(s) ==
    CASE s = 3 -> [file |-> "new", value |-> "disabled"]
      [] s = 5 -> [file |-> "old", value |-> "enabled"]

Record == [cluster : Clusters, mode : Modes, cur : 1..(LastStep + 1), pr : 0..MaxPRs,
           status : {"running", "waiting", "gated", "completed", "failed",
                     "cancelled", "rolled_back"}]
PullRequest == UNION {[file : {f}, base : Content(f), content : Content(f),
                       status : {"open", "merged"}] : f \in Files}

VARIABLES
    main,   \* file -> its content on the main branch
    prs,    \* the pull requests
    apps,   \* ArgoCD -> the addon's application on each cluster
    mig,    \* the current migration's record
    at,     \* where its goroutine or its rollback stands
    draft,  \* the change prepared from the content of main it has read
    todo,   \* completed PR steps that the rollback still has to reverse
    errors, \* the rollback met an error
    started, \* how many migrations were started (for the bound)
    undone  \* history: a rollback has begun

vars == <<main, prs, apps, mig, at, draft, todo, errors, started, undone>>
world == <<main, prs, apps>>
rollback == <<todo, errors, undone>>

NoDraft == [file |-> "none"]

Init ==
    /\ main = [new     |-> [c \in Clusters |-> "absent"],
               old     |-> [c \in Clusters |-> "enabled"],
               catalog |-> [addon |-> "inMigration"]]
    /\ prs = [p \in PRs |-> Nothing]
    /\ apps = [new |-> [c \in Clusters |-> "none"], old |-> [c \in Clusters |-> "healthy"]]
    /\ mig = Nothing
    /\ at = "rest"
    /\ draft = NoDraft
    /\ todo = {}
    /\ errors = FALSE
    /\ started = 0
    /\ undone = FALSE

(***************************************************************************)
(* Git hosts.                                                              *)
(***************************************************************************)
\* setAddonLabel, setInMigrationFalse: one entry of a file is set
Edited(f, c, v) == [main[f] EXCEPT ![IF f = "catalog" THEN "addon" ELSE c] = v]

\* a merge applies what the branch changed since it left main
Touched(pr) == {e \in DOMAIN pr.base : pr.content[e] # pr.base[e]}
Mergeable(p) ==
    /\ prs[p].status = "open"
    /\ \A e \in Touched(prs[p]) : main[prs[p].file][e] \in {prs[p].base[e], prs[p].content[e]}
Merge(p) ==
    /\ Mergeable(p)
    /\ prs' = [prs EXCEPT ![p].status = "merged"]
    /\ main' = [main EXCEPT ![prs[p].file] =
                   [e \in DOMAIN @ |-> IF e \in Touched(prs[p]) THEN prs[p].content[e] ELSE @[e]]]

\* a branch from main as it is now, the prepared file on it, a pull request
Open(p) ==
    /\ prs[p] = Nothing
    /\ \A q \in PRs : q < p => prs[q] # Nothing
    /\ prs' = [prs EXCEPT ![p] = [file |-> draft.file, base |-> main[draft.file],
                                  content |-> draft.content, status |-> "open"]]

(***************************************************************************)
(* The ten steps.                                                          *)
(***************************************************************************)
Gated(s) == mig.mode = "gates" /\ s < LastStep

\* the goroutine marks the step, waits for an approval or goes on
Pass(s) ==
    /\ mig.cur = s
    /\ mig' = [mig EXCEPT !.cur = s + 1, !.pr = 0,
                          !.status = IF Gated(s) THEN "gated" ELSE "running"]
    /\ at' = IF Gated(s) THEN "rest" ELSE "exec"
    /\ draft' = NoDraft
    /\ UNCHANGED <<rollback, started>>

\* ... or comes to rest; the PR's number is needed only to wait for it
Rest(status) ==
    /\ mig' = [mig EXCEPT !.status = status, !.pr = IF status = "waiting" THEN @ ELSE 0]
    /\ at' = "rest"
    /\ draft' = NoDraft
    /\ UNCHANGED <<rollback, started>>

AlreadySet(s) == s # LastStep /\ main[Change(s).file][mig.cluster] = Change(s).value
NewApp == apps.new[mig.cluster]
OldApp == apps.old[mig.cluster]

\* stepVerifyCatalog: enabled in NEW and seen in NEW is taken for migrated
VerifyCatalog ==
    /\ at = "exec" /\ mig.cur = 1
    /\ \/ AlreadySet(3) /\ NewApp # "none" /\ Rest("completed")
       \/ ~(AlreadySet(3) /\ NewApp # "none") /\ Pass(1)
    /\ UNCHANGED world

CompareValues == at = "exec" /\ Pass(2) /\ UNCHANGED world

\* steps 3 and 5: the label has its value already
SkipPR ==
    /\ at = "exec" /\ mig.cur \in {3, 5}
    /\ AlreadySet(mig.cur)
    /\ Pass(mig.cur)
    /\ UNCHANGED world

\* steps 3, 5 and 10 read the file from main and change it ...
Prepare ==
    /\ at = "exec" /\ mig.cur \in {3, 5, LastStep}
    /\ ~AlreadySet(mig.cur)
    /\ LET ch == Change(mig.cur)
       IN  draft' = [file |-> ch.file, content |-> Edited(ch.file, mig.cluster, ch.value)]
    /\ at' = "drafted"
    /\ UNCHANGED <<world, mig, rollback, started>>

\* ... and createPRWithLog opens a pull request with it
OpenPR ==
    /\ at = "drafted"
    /\ \E p \in PRs :
          /\ Open(p)
          /\ \/ /\ mig' = [mig EXCEPT !.pr = p,
                                      !.status = IF mig.mode = "yolo" THEN "running" ELSE "waiting"]
                /\ at' = IF mig.mode = "yolo" THEN "opened" ELSE "rest"
                /\ draft' = NoDraft
                /\ UNCHANGED <<rollback, started>>
             \/ "lost" \in Faults /\ Rest("failed")
    /\ UNCHANGED <<main, apps>>

AutoMerge ==
    /\ at = "opened"
    /\ \/ Merge(mig.pr) /\ Pass(mig.cur) /\ UNCHANGED apps
       \/ Rest("waiting") /\ UNCHANGED world

\* Fault: step 4 does not look at the application.
VerifyAppCreatedBlind == at = "exec" /\ Pass(4) /\ UNCHANGED world

VerifyAppCreated == at = "exec" /\ NewApp # "none" /\ Pass(4) /\ UNCHANGED world

\* the sync is only triggered here; the OLD ArgoCD does it (OldSync)
SyncOld == at = "exec" /\ Pass(6) /\ UNCHANGED world

\* Fault: step 7 does not insist.
VerifyRemovedOnce == at = "exec" /\ Pass(7) /\ UNCHANGED world

\* any error of GetApplication counts as "not found"
VerifyRemoved ==
    /\ at = "exec"
    /\ OldApp = "none" \/ "unreachable" \in Faults
    /\ Pass(7)
    /\ UNCHANGED world

RefreshNew    == at = "exec" /\ NewApp # "none" /\ Pass(8) /\ UNCHANGED world
VerifyHealthy == at = "exec" /\ NewApp = "healthy" /\ Pass(9) /\ UNCHANGED world

\* a call fails, the attempts are used up or two minutes pass
StepFails ==
    /\ at \in {"exec", "drafted"} /\ mig.cur <= LastStep
    /\ Rest("failed")
    /\ UNCHANGED world

Finish == at = "exec" /\ mig.cur > LastStep /\ Rest("completed") /\ UNCHANGED world

Goroutine ==
    \/ VerifyCatalog \/ CompareValues \/ SkipPR \/ Prepare \/ OpenPR \/ AutoMerge
    \/ VerifyAppCreated \/ SyncOld \/ VerifyRemoved \/ RefreshNew \/ VerifyHealthy
    \/ StepFails \/ Finish

(***************************************************************************)
(* Requests.  Auto Merge does to the world what HostMerge does; what it    *)
(* does to the record is in MigrationExecutor.                             *)
(***************************************************************************)
Start(c, mode) ==
    /\ at = "rest"
    /\ mig.status \notin {"running", "waiting", "gated"}
    /\ started < MaxMigrations
    /\ mig' = [cluster |-> c, mode |-> mode, cur |-> 1, pr |-> 0, status |-> "running"]
    /\ at' = "exec"
    /\ started' = started + 1
    /\ UNCHANGED <<world, draft, rollback>>

Go == at' = "exec" /\ UNCHANGED <<draft, rollback, started>>

\* approval, retry, resumption: the current step is executed (again)
Continue ==
    /\ at = "rest"
    /\ mig.status \in {"gated", "failed", "cancelled"}
    /\ mig' = [mig EXCEPT !.status = "running"]
    /\ Go
    /\ UNCHANGED world

\* "I Merged It": the platform merges the PR itself before it goes on
ContinueAfterPR ==
    /\ at = "rest"
    /\ mig.status = "waiting"
    /\ \/ /\ Merge(mig.pr)
          /\ mig' = [mig EXCEPT !.status = "running", !.pr = 0, !.cur = @ + 1]
          /\ Go
          /\ UNCHANGED apps
       \/ Rest("failed") /\ UNCHANGED world

Cancel ==
    /\ "cancel" \in Calls
    /\ at = "rest"
    /\ mig.status \in {"waiting", "gated", "failed"}
    /\ Rest("cancelled")
    /\ UNCHANGED world

\* Fault: the step that failed and the last one are reversed as well.
CompletedChangesAndCurrent == {3, 5, LastStep} \cap 1..mig.cur

\* PR steps that are marked completed
CompletedChanges == {3, 5} \cap 1..(mig.cur - 1)

Rollback ==
    /\ "rollback" \in Calls
    /\ at = "rest"
    /\ mig.status \in {"failed", "cancelled"}
    /\ todo' = CompletedChanges
    /\ at' = "undo"
    /\ undone' = TRUE
    /\ UNCHANGED <<world, mig, draft, errors, started>>

\* step 5 before step 3
Reversing(s) == s \in todo /\ \A t \in todo : t <= s
Reversed(s)  == todo' = todo \ {s} /\ draft' = NoDraft

\* the file is read and changed ...
UndoPrepare ==
    /\ at = "undo"
    /\ \E s \in todo :
          /\ Reversing(s)
          /\ LET ch == Reversal(s)
             IN  draft' = [file |-> ch.file, content |-> Edited(ch.file, mig.cluster, ch.value)]
    /\ at' = "undoDrafted"
    /\ UNCHANGED <<world, mig, rollback, started>>

\* ... a pull request is opened, which a yolo migration tries to merge (the
\* migration's own pr is 0 at rest; its field holds the number meanwhile)
UndoOpenPR ==
    /\ at = "undoDrafted"
    /\ \E s \in todo : Reversing(s) /\ Reversed(s)
    /\ \E p \in PRs :
          /\ Open(p)
          /\ IF mig.mode = "yolo"
             THEN at' = "undoOpened" /\ mig' = [mig EXCEPT !.pr = p]
             ELSE at' = "undo" /\ UNCHANGED mig
    /\ UNCHANGED <<main, apps, errors, started, undone>>

UndoMerge ==
    /\ at = "undoOpened"
    /\ Merge(mig.pr) \/ UNCHANGED <<main, prs>>
    /\ mig' = [mig EXCEPT !.pr = 0]
    /\ at' = "undo"
    /\ UNCHANGED <<apps, draft, rollback, started>>

\* an error is counted, the rollback goes on
UndoFails ==
    /\ at \in {"undo", "undoDrafted"}
    /\ \E s \in todo : Reversing(s) /\ Reversed(s)
    /\ errors' = TRUE
    /\ at' = "undo"
    /\ UNCHANGED <<world, mig, started, undone>>

UndoEnd ==
    /\ at = "undo" /\ todo = {}
    /\ mig' = [mig EXCEPT !.status = IF errors THEN "failed" ELSE "rolled_back"]
    /\ at' = "rest"
    /\ errors' = FALSE
    /\ UNCHANGED <<world, draft, todo, started, undone>>

Requests ==
    \/ \E c \in Clusters, mode \in Modes : Start(c, mode)
    \/ Continue \/ ContinueAfterPR \/ Cancel
    \/ Rollback \/ UndoPrepare \/ UndoOpenPR \/ UndoMerge \/ UndoFails \/ UndoEnd

(***************************************************************************)
(* The environment: reviewers at the Git hosts and the two ArgoCDs, each   *)
(* of which follows its repository at its own pace.                        *)
(***************************************************************************)
HostMerge(p) ==
    /\ Merge(p)
    /\ UNCHANGED <<apps, mig, at, draft, rollback, started>>

SetApp(argocd, c, state) ==
    /\ apps[argocd][c] # state
    /\ apps' = [apps EXCEPT ![argocd][c] = state]
    /\ UNCHANGED <<main, prs, mig, at, draft, rollback, started>>

\* the NEW ArgoCD creates the application, sees it healthy, removes it
NewSync(c) ==
    IF main.new[c] = "enabled"
    THEN SetApp("new", c, IF apps.new[c] = "none" THEN "progressing" ELSE "healthy")
    ELSE SetApp("new", c, "none")

OldSync(c) == SetApp("old", c, IF main.old[c] = "enabled" THEN "healthy" ELSE "none")

Next ==
    \/ Goroutine
    \/ Requests
    \/ \E p \in PRs : HostMerge(p)
    \/ \E c \in Clusters : NewSync(c) \/ OldSync(c)

Spec == Init /\ [][Next]_vars
-----------------------------------------------------------------------------
(***************************************************************************)
(* Properties.                                                             *)
(***************************************************************************)
App == {"none", "progressing", "healthy"}
Places == {"rest", "exec", "drafted", "opened", "undo", "undoDrafted", "undoOpened"}
HandoverTypeOK ==
    /\ \A f \in Files : main[f] \in Content(f)
    /\ prs \in [PRs -> PullRequest \cup {Nothing}]
    /\ apps \in [{"new", "old"} -> [Clusters -> App]]
    /\ mig \in Record \cup {Nothing}
    /\ at \in Places
    /\ draft = NoDraft \/ draft.content \in Content(draft.file)
    /\ todo \subseteq {3, 5}
    /\ errors \in BOOLEAN
    /\ undone \in BOOLEAN
    /\ started \in 0..MaxMigrations

\* "ensures zero downtime": until somebody rolls back, the addon of every
\* cluster is at every moment the application of one ArgoCD at least.
NeverUnmanaged ==
    undone \/ \A c \in Clusters : apps.old[c] # "none" \/ apps.new[c] # "none"

\* The addon has left the OLD ArgoCD on the cluster and is healthy in the NEW one.
HasMoved(c) == apps.old[c] = "none" /\ apps.new[c] = "healthy"

\* Of one cluster, the only one an instance of this property has (OneCluster in
\* HandoverProofs): the catalog leaves migration mode only when the addon has
\* moved there, through steps that fail, are retried and are left behind.  It
\* says nothing of further clusters; FinalizedEverywhere does.
FinalizedWhenMoved ==
    main.catalog.addon = "done" /\ ~undone => \A c \in Clusters : HasMoved(c)

\* "Checks all clusters migrated, then sets `inMigration: false`" (step 10,
\* docs/user-guide/06-migration.md:31): when a migration has completed and
\* migration mode is over, the addon has moved on every cluster that runs it.
FinalizedEverywhere ==
    mig.status = "completed" /\ main.catalog.addon = "done" /\ ~undone =>
        \A c \in Clusters : HasMoved(c)

\* "Step 5 (disabled in OLD) -> creates PR to re-enable": when a migration is
\* rolled back and every pull request is merged, OLD has the addon again.
RollbackReenables ==
    mig.status = "rolled_back" /\ (\A p \in PRs : prs[p].status # "open") =>
        main.old[mig.cluster] = "enabled"
=============================================================================
