------------------------- MODULE MigrationDetailPage -------------------------
(***************************************************************************)
(* The page of one migration (ui/src/views/MigrationDetail.tsx).  It polls *)
(* the migration until it ends or fails, offers what the status it shows   *)
(* allows, and asks again after every operation that succeeded.  The       *)
(* handlers (internal/api/migration.go) act on the status the migration    *)
(* has by then.  Of the executor, which MigrationExecutor models, only the *)
(* status, the current step and whether anything drives it are kept; the   *)
(* operator of this page is the only one.  Which step is unfolded is left  *)
(* out, for the operator may unfold any of them.                           *)
(***************************************************************************)
EXTENDS Http

CONSTANTS NSteps,   \* steps of a migration
          Nothing   \* null

VARIABLES ui, net,
          srv   \* the migration, and whether the page last heard of it by an
                \* answer that was overtaken, or was told nothing since

vars == <<ui, net, srv>>

Statuses == {"running", "waiting", "gated", "paused", "failed", "cancelled", "completed"}

\* The page stops asking.  A migration that was rolled back is not among them.
Final == {"completed", "failed", "cancelled"}

Migration(status, step) == [status |-> status, step |-> step]

StepStatus(m, n) ==
    CASE n < m.step -> "completed"
      [] n = m.step /\ m.status \in {"running", "waiting", "failed"} -> m.status
      [] OTHER -> "pending"

Mounted == [m |-> Nothing, loading |-> TRUE, error |-> FALSE,
            polling |-> FALSE, merging |-> FALSE, gone |-> FALSE]

Init == /\ \E s \in Statuses :
              srv = [m |-> Migration(s, 1), driven |-> s = "running", missed |-> FALSE]
        /\ ui = Mounted
        /\ net = Send(NoCalls, "get", <<>>)

\* Both kinds of Auto Merge share one flag, put back by the first that is answered.
Merges == {"merge", "merge-completed"}

Shown == ~ui.gone /\ ~ui.loading /\ ~ui.error /\ ui.m # Nothing

----------------------------------------------------------------------------
(* The executor. *)

Becomes(m, driven) == srv' = [srv EXCEPT !.m = m, !.driven = driven]

\* A step ends, waits for its pull request, fails or is the last one.
Runs == /\ srv.driven
        /\ LET n == srv.m.step
           IN  \/ n < NSteps /\ Becomes(Migration("running", n + 1), TRUE)
               \/ n < NSteps /\ Becomes(Migration("gated", n + 1), FALSE)
               \/ n >= NSteps /\ Becomes(Migration("completed", NSteps), FALSE)
               \/ n <= NSteps /\ \E s \in {"waiting", "failed"} : Becomes(Migration(s, n), FALSE)
        /\ UNCHANGED <<ui, net>>

\* ContinueAfterPR; the pull request of a waiting step is merged, or cannot be.
Continue == \/ /\ srv.m.status \in {"gated", "paused", "cancelled", "failed"}
               /\ Becomes(Migration("running", srv.m.step), TRUE)
            \/ /\ srv.m.status = "waiting"
               /\ Becomes(Migration("running", srv.m.step + 1), TRUE)

CannotContinue == IF srv.m.status = "waiting" THEN Becomes(Migration("failed", srv.m.step), FALSE)
                                              ELSE UNCHANGED srv

RetryStep == srv.m.status = "failed" /\ Becomes(Migration("running", srv.m.step), TRUE)

Exists == srv.m.status # "deleted"

\* PauseMigration looks at no status.
Pause == Exists /\ Becomes(Migration("paused", srv.m.step), FALSE)

\* What drives the migration is cancelled with it.
Delete == Exists /\ Becomes(Migration("deleted", srv.m.step), FALSE)

RollBack == /\ srv.m.status \in {"failed", "cancelled"}
            /\ Becomes(Migration("rolled_back", srv.m.step), FALSE)

\* handleMergePR: the migration is set running before ContinueAfterPR is asked
\* to, and that refuses a running one.
MergePR == /\ srv.m.status = "waiting"
           /\ Becomes(Migration("running", srv.m.step + 1), FALSE)

Effect(kind) == CASE kind = "continue" -> Continue
                  [] kind = "retry" -> RetryStep
                  [] kind = "pause" -> Pause
                  [] kind = "rollback" -> RollBack
                  [] kind = "merge" -> MergePR
                  [] kind = "delete" -> Delete
                  [] OTHER -> Exists /\ UNCHANGED srv  \* a fetch, or an Auto Merge of a completed step

\* The server handles a request; what it answers to a fetch is the migration
\* of that moment.
Handle(c) == /\ c.st = "sent"
             /\ Effect(c.kind)
             /\ net' = Answered(net, c, IF c.kind = "get" THEN <<srv.m>> ELSE <<>>)
             /\ UNCHANGED ui

Refuse(c) == /\ c.st = "sent" /\ c.kind # "get"
             /\ IF c.kind = "continue" THEN CannotContinue ELSE UNCHANGED srv
             /\ net' = Refused(net, c)
             /\ UNCHANGED ui

----------------------------------------------------------------------------
(* The user, and the interval. *)

Asks(kind) == /\ Room(net, 1)
              /\ net' = Send(net, kind, <<>>)
              /\ UNCHANGED srv

Poll == ui.polling /\ ~ui.gone /\ Asks("get") /\ ui' = [ui EXCEPT !.error = FALSE]

\* The Retry button of the error page.
Refetch == ui.error /\ ~ui.gone /\ Asks("get") /\ ui' = [ui EXCEPT !.error = FALSE]

\* The page offers what a step of this status allows.
Offers(status) == \E n \in 1..NSteps : StepStatus(ui.m, n) = status

\* Resume above, Approve and "I Merged It" at the step.
handleContinue == /\ Shown
                  /\ \/ ui.m.status \in {"paused", "failed", "cancelled"}
                     \/ ui.m.status = "gated" /\ ui.m.step <= NSteps
                     \/ Offers("waiting")
                  /\ Asks("continue") /\ UNCHANGED ui

handleRetry == Shown /\ Offers("failed") /\ Asks("retry") /\ UNCHANGED ui

handlePause == Shown /\ ui.m.status = "running" /\ Asks("pause") /\ UNCHANGED ui

handleRollback == Shown /\ ui.m.status = "failed" /\ Asks("rollback") /\ UNCHANGED ui

\* Auto Merge, of the waiting step or of a completed one whose pull request is
\* still open, which may be any; the second button is never disabled.
handleMergePR == /\ Shown
                 /\ \/ Offers("waiting") /\ ~ui.merging /\ Asks("merge")
                    \/ Offers("completed") /\ Asks("merge-completed")
                 /\ ui' = [ui EXCEPT !.merging = TRUE]

handleDelete == Shown /\ ui.m.status # "running" /\ Asks("delete") /\ UNCHANGED ui

----------------------------------------------------------------------------
(* The answers. *)

\* The interval is set anew for every answer, or not at all.
ShowMigration(c) ==
    LET m == c.ans[1]
    IN  /\ c.kind = "get" /\ c.st = "ok"
        /\ ui' = [ui EXCEPT !.m = m, !.loading = FALSE,
                            !.polling = m.status \notin Final]
        /\ srv' = [srv EXCEPT !.missed = m.status \in Final /\ m # srv.m]
        /\ net' = Settled(net, c)

ShowError(c) == /\ c.kind = "get"
                /\ ui' = [ui EXCEPT !.error = TRUE, !.loading = FALSE]
                /\ net' = Settled(net, c)
                /\ UNCHANGED srv

\* Mutant: polling will show it.
ShowDoneUnfetched(c) ==
    /\ c.kind # "get" /\ c.st = "ok"
    /\ ui' = [ui EXCEPT !.gone = c.kind = "delete", !.merging = @ /\ c.kind \notin Merges]
    /\ net' = Settled(net, c)
    /\ UNCHANGED srv

\* After an operation the page fetches the migration, after Delete it leaves.
ShowDone(c) ==
    /\ c.kind # "get" /\ c.st = "ok"
    /\ IF c.kind = "delete" THEN ui' = [Mounted EXCEPT !.gone = TRUE] /\ net' = NoCalls
       ELSE /\ ui' = [ui EXCEPT !.error = FALSE, !.merging = @ /\ c.kind \notin Merges]
            /\ net' = Send(Settled(net, c), "get", <<>>)
    /\ UNCHANGED srv

\* catch: nothing happens, polling will tell, where there is any; an operation
\* whose answer is lost on the way was done all the same.
ShowFailed(c) == /\ c.kind # "get" /\ c.st \in {"failed", "ok"}
                 /\ ui' = [ui EXCEPT !.merging = @ /\ c.kind \notin Merges]
                 /\ srv' = [srv EXCEPT !.missed = @ \/ c.st = "ok" \/ c.kind = "continue"]
                 /\ net' = Settled(net, c)

Answer(c) == \/ Handle(c) \/ Refuse(c)
             \/ ShowMigration(c) \/ ShowError(c) \/ ShowDone(c) \/ ShowFailed(c)

\* The answers a spinner waits for.
Answers(s) == \/ s = "page" /\ \E c \in InFlight(net, "get") : Answer(c)
              \/ s = "action" /\ \E kind \in Merges : \E c \in InFlight(net, kind) : Answer(c)

Deliver == \/ \E s \in Spinners : Answers(s)
           \/ \E c \in BagToSet(net) : c.kind \notin Merges \cup {"get"} /\ Answer(c)

User == \/ Refetch \/ handleContinue \/ handleRetry \/ handlePause \/ handleRollback
        \/ handleMergePR \/ handleDelete

Next == User \/ Poll \/ Runs \/ Deliver

Spec == Init /\ [][Next]_vars

----------------------------------------------------------------------------
(* A page that asks no more shows what the migration is: it stops polling   *)
(* at a status nothing but its own operations changes, and each of these    *)
(* makes it ask again.  What breaks this is an answer that comes after the  *)
(* migration has moved on, and an operation whose answer is lost or says it *)
(* failed: its catch relies on polling that has stopped                     *)
(* (MigrationDetail.tsx).  The next answer the page shows mends it.         *)
QuietPageIsRight ==
    (Shown /\ ~ui.polling /\ net = NoCalls /\ ~srv.missed) => ui.m = srv.m

Spins(s) == ~ui.gone /\ ((s = "page" /\ ui.loading) \/ (s = "action" /\ ui.merging))
=============================================================================
