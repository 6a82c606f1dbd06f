------------------------- MODULE ClusterDetailPage -------------------------
(***************************************************************************)
(* The page of one cluster (ui/src/views/ClusterDetail.tsx) and what the   *)
(* server answers it (internal/service/cluster.go): the comparison of Git  *)
(* with ArgoCD behind the stat cards and the rows, and the configuration   *)
(* overrides, which the page loads when their tab is first opened.  The    *)
(* page stays mounted when the user goes from one cluster to another.      *)
(***************************************************************************)
EXTENDS Http

CONSTANTS Clusters,     \* clusters the user visits
          Addons,       \* addons and other applications of those clusters
          DetailWorlds, \* what Git and ArgoCD may hold of them
          NoCluster     \* stands for null

VARIABLES ui,   \* the component's state
          net,  \* its requests in flight
          srv   \* the addons of Git, the health of ArgoCD's applications,
                \* "none" where there is none, and which of them belong to the
                \* infrastructure: fixed, the server may still fail

vars == <<ui, net, srv>>

----------------------------------------------------------------------------
(* What the server computes. *)

\* Mutant: the health as ArgoCD words it.
ClassifyVerbatim(health) == IF health = "Healthy" THEN "healthy" ELSE health

\* classifyHealth
Classify(health) ==
    CASE health = "Healthy" -> "healthy"
      [] health = "Progressing" -> "progressing"
      [] health = "Degraded" -> "unhealthy"
      [] health \in {"Unknown", ""} -> "unknown_health"
      [] OTHER -> "unknown_state"

Deployed == {a \in Addons : srv.app[a] # "none"}

\* One row per addon enabled in Git, and one per application that is neither
\* in Git nor part of the infrastructure.
Rows ==
    {[addon |-> a, status |-> IF a \in Deployed THEN Classify(srv.app[a])
                                               ELSE "missing_in_argocd"] : a \in srv.git}
        \cup {[addon |-> a, status |-> "untracked_in_argocd"] :
                a \in (Deployed \ srv.git) \ srv.infra}

\* The totals are counted while the rows are built, not from the rows.
Totals ==
    LET found == srv.git \cap Deployed
        well  == {a \in found : Classify(srv.app[a]) = "healthy"}
    IN  [healthy           |-> Cardinality(well),
         with_issues       |-> Cardinality(found \ well),
         missing_in_argocd |-> Cardinality(srv.git \ Deployed),
         untracked         |-> Cardinality((Deployed \ srv.git) \ srv.infra),
         disabled_in_git   |-> 0]

Comparison(c) == [cluster |-> c, rows |-> Rows, totals |-> Totals]

----------------------------------------------------------------------------
(* What the page shows. *)

NoData == Comparison(NoCluster)

Categories == {"healthy", "with_issues", "missing_in_argocd", "untracked", "disabled_in_git"}

StatusFilters == Categories \cup {"all"}

\* The page's switch over the filter.
Passes(filter, status) ==
    CASE filter = "all" -> TRUE
      [] filter = "healthy" -> status = "healthy"
      [] filter = "with_issues" ->
            status \in {"progressing", "unknown_health", "unhealthy", "unknown_state"}
      [] filter = "missing_in_argocd" -> status = "missing_in_argocd"
      [] filter = "untracked" -> status = "untracked_in_argocd"
      [] filter = "disabled_in_git" -> status = "disabled_in_git"

FilteredAddons(filter) == {r \in ui.data.rows : Passes(filter, r.status)}

\* The number on a stat card; allCount adds the five totals up.
CardValue(filter) ==
    LET t == ui.data.totals
    IN  IF filter = "all"
        THEN t.healthy + t.with_issues + t.missing_in_argocd + t.untracked + t.disabled_in_git
        ELSE t[filter]

Loaded == ~ui.loading /\ ~ui.error /\ ui.data.cluster # NoCluster

\* A card with nothing to count is hidden.
CardOffered(filter) == ui.tab = "comparison" /\ (filter = "all" \/ CardValue(filter) > 0)

----------------------------------------------------------------------------
(* What the page does. *)

\* The effect that loads the overrides depends on these; it runs after every
\* event that changes one of them, before the next event.
Deps(u) == <<u.tab, u.diff, u.diffLoading, u.values, u.name>>

Show(u) == ui' = [u EXCEPT !.due = ui.due \/ Deps(u) # Deps(ui)]

Fetch(u) == [u EXCEPT !.loading = TRUE, !.error = FALSE]

Mounted(c) ==
    [name |-> c, data |-> NoData, loading |-> TRUE, error |-> FALSE,
     filter |-> "all", tab |-> "comparison", diff |-> NoCluster,
     diffLoading |-> FALSE, diffError |-> FALSE, values |-> NoCluster, due |-> FALSE]

Init == /\ srv \in DetailWorlds
        /\ \E c \in Clusters : /\ ui = Mounted(c)
                               /\ net = Send(NoCalls, "comparison", <<c>>)

\* Another cluster is opened without leaving the page: only the effect on
\* `name' runs, nothing that was loaded is dropped.
GoTo(c) == /\ ~ui.due
           /\ c # ui.name
           /\ Room(net, 1)
           /\ Show([Fetch(ui) EXCEPT !.name = c])
           /\ net' = Send(net, "comparison", <<c>>)
           /\ UNCHANGED srv

Retry == /\ ui.error /\ ~ui.loading
         /\ Room(net, 1)
         /\ Show(Fetch(ui))
         /\ net' = Send(net, "comparison", <<ui.name>>)
         /\ UNCHANGED srv

\* handleStatusFilter: a second click on a card takes the filter away.
ToggleStatusFilter(f) == /\ Loaded /\ CardOffered(f)
                         /\ Show([ui EXCEPT !.filter = IF ui.filter = f THEN "all" ELSE f])
                         /\ UNCHANGED <<net, srv>>

OpenTab(tab) == /\ Loaded /\ ~ui.due /\ tab # ui.tab
                /\ Show([ui EXCEPT !.tab = tab])
                /\ UNCHANGED <<net, srv>>

\* fetchConfigDiff
FetchDiff(u) == [u EXCEPT !.diffLoading = TRUE, !.diffError = FALSE]

\* The effect on [activeTab, configDiff, configDiffLoading, ...].
WantsDiff == ui.tab = "config-overrides" /\ ui.diff = NoCluster /\ ~ui.diffLoading

WantsValues == ui.tab = "config-overrides" /\ ui.values = NoCluster

Wanted == (IF WantsDiff THEN 1 ELSE 0) + (IF WantsValues THEN 1 ELSE 0)

\* fetchConfigDiff changes a dependency: the effect runs once more.
LoadOverrides ==
    LET n == IF WantsDiff THEN Send(net, "diff", <<ui.name>>) ELSE net
    IN  /\ ui.due
        /\ Room(net, Wanted)
        /\ ui' = IF WantsDiff THEN FetchDiff(ui) ELSE [ui EXCEPT !.due = FALSE]
        /\ net' = IF WantsValues THEN Send(n, "values", <<ui.name>>) ELSE n
        /\ UNCHANGED srv

----------------------------------------------------------------------------
(* The answers.  What the server holds is fixed, so a request is handled    *)
(* when its answer is delivered.                                            *)

ShowComparison(c) ==
    /\ Show([ui EXCEPT !.data = Comparison(c.arg[1]), !.loading = FALSE])
    /\ net' = Settled(net, c)
    /\ UNCHANGED srv

ShowError(c) == /\ Show([ui EXCEPT !.error = TRUE, !.loading = FALSE])
                /\ net' = Settled(net, c)
                /\ UNCHANGED srv

ShowDiff(c) == /\ Show([ui EXCEPT !.diff = c.arg[1], !.diffLoading = FALSE])
               /\ net' = Settled(net, c)
               /\ UNCHANGED srv

\* GetConfigDiff needs the cluster's values file, and any request may fail.
ShowDiffError(c) == /\ Show([ui EXCEPT !.diffError = TRUE, !.diffLoading = FALSE])
                    /\ net' = Settled(net, c)
                    /\ UNCHANGED srv

ShowValues(c) == /\ Show([ui EXCEPT !.values = c.arg[1]])
                 /\ net' = Settled(net, c)
                 /\ UNCHANGED srv

\* A cluster without a values file is no error: the panel stays away.
NoValues(c) == /\ net' = Settled(net, c)
               /\ UNCHANGED <<ui, srv>>

MayDeliver == ui.due => ~Room(net, Wanted)

\* The answers a spinner waits for.
Answers(s) ==
    /\ MayDeliver
    /\ \/ s = "page" /\ \E c \in Sent(net, "comparison") : ShowComparison(c) \/ ShowError(c)
       \/ s = "part" /\ \E c \in Sent(net, "diff") : ShowDiff(c) \/ ShowDiffError(c)

Deliver == \/ \E s \in Spinners : Answers(s)
           \/ MayDeliver /\ \E c \in Sent(net, "values") : ShowValues(c) \/ NoValues(c)

User == \/ \E c \in Clusters : GoTo(c)
        \/ Retry
        \/ \E f \in StatusFilters : ToggleStatusFilter(f)
        \/ \E tab \in {"comparison", "config-overrides"} : OpenTab(tab)

System == LoadOverrides \/ Deliver

Next == User \/ System

Spec == Init /\ [][Next]_vars

----------------------------------------------------------------------------
(* Every stat card shows how many rows the page shows once the card is      *)
(* selected.  The numbers are counted by the server (cluster.go), the rows  *)
(* are picked by the page (ClusterDetail.tsx), each with its own list of    *)
(* statuses: a status one of them forgets makes addons vanish from the page *)
(* while the cards still count them.                                        *)
DetailCardsMatchRows ==
    Loaded => \A f \in StatusFilters : CardValue(f) = Cardinality(FilteredAddons(f))

Spins(s) == (s = "page" /\ ui.loading) \/ (s = "part" /\ ui.diffLoading)
=============================================================================
