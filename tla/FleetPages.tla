----------------------------- MODULE FleetPages -----------------------------
(***************************************************************************)
(* The dashboard, the list of clusters and the version matrix              *)
(* (ui/src/views/{Dashboard,ClustersOverview,VersionMatrix}.tsx), and the  *)
(* links that lead from the first to the other two.  The router unmounts   *)
(* a page when another one opens: its state is lost and its late answers   *)
(* change nothing.                                                         *)
(***************************************************************************)
EXTENDS Http, Fleet

CONSTANT FleetWorlds    \* what Git and ArgoCD may hold

VARIABLES ui,   \* the mounted page, its state, and the link that opened it
          net, srv

vars == <<ui, net, srv>>

----------------------------------------------------------------------------
(* The list of clusters: its cards and filters. *)

ClusterCards == {"all", "connected", "failed", "missing_from_argocd", "not_in_git"}

NoFilters == [name |-> Absent, types |-> {}]

\* Mutant: the card's own name for a status.
PassesCardExact(card, status) == card \in {"all", status}

\* The switch over the selected card; the page compares in lower case.
PassesCard(card, status) ==
    CASE card = "all" -> TRUE
      [] card = "connected" -> status \in {"connected", "Connected", "successful", "Successful"}
      [] card = "failed" -> status \in {"failed", "Failed"}
      [] card = "missing_from_argocd" -> status = "missing"
      [] card = "not_in_git" -> status = "not_in_git"

PassesFilters(f, r) ==
    /\ f.name \in {Absent, r.name}
    /\ f.types = {} \/ (r.status # Absent /\ r.status \in f.types)

FilteredClusters(card, f) ==
    {r \in ui.clusters : PassesCard(card, r.status) /\ PassesFilters(f, r)}

AvailableConnectionTypes == {r.status : r \in ui.clusters} \ {Absent}

\* The number on a stat card.
CardValue(card) == IF card = "all" THEN ui.health.total_in_git + ui.health.not_in_git
                                   ELSE ui.health[card]

----------------------------------------------------------------------------
(* The matrix: its filter, and the cells its three views show. *)

DriftCount(row) == Cardinality({x \in row.cells : x.drift})

FilteredRows == {row \in ui.rows : /\ ui.search \in {Absent, row.addon}
                                   /\ ui.driftOnly => DriftCount(row) > 0}

----------------------------------------------------------------------------
(* The dashboard. *)

\* Mutant: clusters where the addon is not enabled do not drift.
VersionDriftsEnabled(rows) ==
    {row.addon : row \in {r \in rows : \E x \in r.cells : x.drift /\ x.health # "not_enabled"}}

\* The addons it reports as drifting, from the answer of the matrix.
VersionDrifts(rows) == {row.addon : row \in {r \in rows : DriftCount(r) > 0}}

\* Needs Attention is shown, with the links in it.
HasIssues == ui.stats.degraded > 0 \/ ui.stats.disconnected > 0 \/ ui.attention # {}

\* What a link of the dashboard says it leads to, and how many of them.
NoLink == [to |-> Absent, count |-> 0]

DisconnectedLink == [to |-> "clusters?status=disconnected", count |-> ui.stats.disconnected]

DriftLink == [to |-> "version-matrix?drift=true", count |-> Cardinality(ui.drifts)]

----------------------------------------------------------------------------
(* Opening a page. *)

NoStats == [total |-> 0, disconnected |-> 0, degraded |-> 0]

\* The state of a page that has just been mounted.  ClustersOverview reads
\* ?status=disconnected from its address, VersionMatrix reads nothing.
Mounted(page, link) ==
    [page |-> page, link |-> link, loading |-> TRUE, error |-> FALSE,
     stats |-> NoStats, drifts |-> {}, attention |-> {},
     clusters |-> {}, health |-> HealthStats({}, {}), filters |-> NoFilters,
     card |-> IF link.to = "clusters?status=disconnected" THEN "failed" ELSE "all",
     rows |-> {}, search |-> Absent, driftOnly |-> FALSE, expanded |-> Absent]

Open(page, link) == /\ ui' = Mounted(page, link)
                    /\ net' = Send(NoCalls, page, <<>>)
                    /\ UNCHANGED srv

Pages == {"dashboard", "clusters", "version-matrix"}

Init == /\ srv \in FleetWorlds
        /\ ui = Mounted("dashboard", NoLink)
        /\ net = Send(NoCalls, "dashboard", <<>>)

\* The sidebar, and the links without a parameter.
Navigate(page) == page # ui.page /\ Open(page, NoLink)

Showing(page) == ui.page = page /\ ~ui.loading /\ ~ui.error

\* The links of Needs Attention, each there when there is something to count.
FollowDisconnected == /\ Showing("dashboard")
                      /\ ui.stats.disconnected > 0
                      /\ Open("clusters", DisconnectedLink)

\* Drift alone does not make the section appear.
FollowDrift == /\ Showing("dashboard")
               /\ HasIssues
               /\ ui.drifts # {}
               /\ Open("version-matrix", DriftLink)

\* The Retry button of the three pages.
Retry == /\ ui.error
         /\ ui' = [ui EXCEPT !.loading = TRUE, !.error = FALSE]
         /\ net' = Send(net, ui.page, <<>>)
         /\ UNCHANGED srv

----------------------------------------------------------------------------
(* Using the list of clusters. *)

Change(page, u) == /\ Showing(page)
                   /\ ui' = u
                   /\ UNCHANGED <<net, srv>>

\* handleStatusFilter: a second click on a card takes the filter away.
SelectCard(card) ==
    Change("clusters", [ui EXCEPT !.card = IF ui.card = card THEN "all" ELSE card])

TypeName(c) == Change("clusters", [ui EXCEPT !.filters.name = c])

\* toggleConnectionType: its checkbox, or the chip of a selected type.
ToggleConnectionType(t) ==
    /\ t \in AvailableConnectionTypes \cup ui.filters.types
    /\ Change("clusters", [ui EXCEPT !.filters.types = IF t \in @ THEN @ \ {t} ELSE @ \cup {t}])

\* The button is there while a filter is set.
ClearFilters == /\ ui.filters # NoFilters \/ ui.card # "all"
                /\ Change("clusters", [ui EXCEPT !.filters = NoFilters, !.card = "all"])

(* Using the matrix. *)

SearchAddon(a) == Change("version-matrix", [ui EXCEPT !.search = a])

TickDriftOnly == Change("version-matrix", [ui EXCEPT !.driftOnly = ~ui.driftOnly])

\* A row of the heatmap opens, and closes the one that was open.
ToggleRow(row) ==
    Change("version-matrix",
           [ui EXCEPT !.expanded = IF ui.expanded = row.addon THEN Absent ELSE row.addon])

----------------------------------------------------------------------------
(* The answers. *)

Loaded(c, u) == /\ ui' = [u EXCEPT !.loading = FALSE]
                /\ net' = Settled(net, c)
                /\ UNCHANGED srv

\* Promise.all over four requests: three of them may fail on their own, and
\* without the matrix the drifts stay as they were.
ShowDashboard(c, up, matrixUp, attentionUp) ==
    Loaded(c, [ui EXCEPT !.stats = DashboardStats(srv, up),
                         !.attention = IF attentionUp THEN AttentionItems(srv) ELSE {},
                         !.drifts = IF matrixUp THEN VersionDrifts(VersionMatrix(srv)) ELSE @])

ShowClusters(c, up) ==
    LET answer == ListClusters(srv, up)
    IN  Loaded(c, [ui EXCEPT !.clusters = answer.rows, !.health = answer.stats])

ShowMatrix(c) == Loaded(c, [ui EXCEPT !.rows = VersionMatrix(srv)])

ShowError(c) == Loaded(c, [ui EXCEPT !.error = TRUE, !.clusters = {}, !.health = HealthStats({}, {})])

\* The answers a spinner waits for.
Answers(s) ==
    /\ s = "page"
    /\ \/ \E c \in Sent(net, "dashboard") :
              \E up, matrixUp, attentionUp \in BOOLEAN : ShowDashboard(c, up, matrixUp, attentionUp)
       \/ \E c \in Sent(net, "clusters") : \E up \in BOOLEAN : ShowClusters(c, up)
       \/ \E c \in Sent(net, "version-matrix") : ShowMatrix(c)
       \/ \E page \in Pages : \E c \in Sent(net, page) : ShowError(c)

Deliver == \E s \in Spinners : Answers(s)

User == \/ \E page \in Pages : Navigate(page)
        \/ FollowDisconnected \/ FollowDrift \/ Retry
        \/ \E card \in ClusterCards : SelectCard(card)
        \/ \E c \in Clusters \cup {Absent} : TypeName(c)
        \/ \E t \in AvailableConnectionTypes \cup ui.filters.types : ToggleConnectionType(t)
        \/ ClearFilters
        \/ \E a \in Addons \cup {Absent} : SearchAddon(a)
        \/ TickDriftOnly
        \/ \E row \in FilteredRows : ToggleRow(row)

Next == User \/ Deliver

Spec == Init /\ [][Next]_vars

----------------------------------------------------------------------------
(* Every stat card of the cluster list shows how many rows the page shows   *)
(* once the card alone is selected.  The numbers are counted by the server  *)
(* (cluster.go), the rows are picked by the page (ClustersOverview.tsx),    *)
(* each with its own list of statuses, with ArgoCD reachable or not.        *)
CardsMatchRows ==
    Showing("clusters") =>
        \A card \in ClusterCards :
            CardValue(card) = Cardinality(FilteredClusters(card, NoFilters))

(* The number of add-ons with drift on the dashboard's link is the number   *)
(* of rows the matrix shows once the user asks for the drifting ones:       *)
(* Dashboard.tsx and VersionMatrix.tsx each count for themselves.           *)
DriftCountsAgree ==
    (/\ Showing("version-matrix") /\ ui.link.to = "version-matrix?drift=true"
     /\ ui.driftOnly /\ ui.search = Absent) => Cardinality(FilteredRows) = ui.link.count

Spins(s) == s = "page" /\ ui.loading
=============================================================================
