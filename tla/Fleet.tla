-------------------------------- MODULE Fleet --------------------------------
(***************************************************************************)
(* What the server makes of Git and ArgoCD for the read-only pages: the    *)
(* joins of internal/service/{cluster,addon,dashboard}.go as operators of  *)
(* a world w, which says what the two systems hold:                        *)
(*   w.git      the clusters of cluster-addons.yaml                        *)
(*   w.argocd   the connection state of the clusters ArgoCD has            *)
(*   w.label    the label of an addon on a cluster                         *)
(*   w.pinned   where a version label differs from the catalog's version   *)
(*   w.app      the health of the application of an addon on a cluster     *)
(*   w.warned   the applications that ArgoCD attaches conditions to        *)
(***************************************************************************)
EXTENDS Naturals, FiniteSets

CONSTANTS Clusters,      \* names in Git or ArgoCD
          LocalCluster,  \* in-cluster: where ArgoCD itself runs
          Addons,        \* the addons of the catalog
          Absent         \* stands for a missing status, application or choice

----------------------------------------------------------------------------
(* ListClusters (service/cluster.go) *)

ClusterRow(c, status) == [name |-> c, status |-> status]

\* ArgoCD's clusters that Git does not know, without the local one.
NotInGit(w) == {c \in Clusters \ (w.git \cup {LocalCluster}) : w.argocd[c] # Absent}

\* computeHealthStats
HealthStats(rows, notInGit) ==
    LET count(statuses) == Cardinality({r \in rows : r.status \in statuses})
    IN  [total_in_git        |-> Cardinality(rows),
         connected           |-> count({"Successful", "connected"}),
         failed              |-> count({"Failed", "failed"}),
         missing_from_argocd |-> count({"missing"}),
         not_in_git          |-> Cardinality(notInGit)]

\* Without ArgoCD the clusters of Git come without a status.
ListClusters(w, argocdAnswers) ==
    LET status(c) == IF ~argocdAnswers THEN Absent
                     ELSE IF w.argocd[c] = Absent THEN "missing" ELSE w.argocd[c]
        rows      == {ClusterRow(c, status(c)) : c \in w.git}
        others    == IF argocdAnswers THEN NotInGit(w) ELSE {}
    IN  [rows  |-> rows \cup {ClusterRow(c, "not_in_git") : c \in others},
         stats |-> HealthStats(rows, others)]

----------------------------------------------------------------------------
(* GetCatalog and GetVersionMatrix (service/addon.go) *)

EnabledOn(w, a) == {c \in w.git : w.label[a][c] = "enabled"}

DeploymentStatus(w, a, c) ==
    CASE w.app[a][c] = Absent -> "missing"
      [] w.app[a][c] = "Healthy" -> "healthy"
      [] w.app[a][c] = "Degraded" -> "degraded"
      [] OTHER -> "unknown"

CatalogItem(w, a) ==
    LET count(status) == Cardinality({c \in EnabledOn(w, a) : DeploymentStatus(w, a, c) = status})
    IN  [name                  |-> a,
         enabled_clusters      |-> Cardinality(EnabledOn(w, a)),
         healthy_applications  |-> count("healthy"),
         degraded_applications |-> count("degraded"),
         missing_applications  |-> count("missing")]

Catalog(w) ==
    [addons             |-> {CatalogItem(w, a) : a \in Addons},
     total_addons       |-> Cardinality(Addons),
     addons_only_in_git |-> Cardinality({a \in Addons : EnabledOn(w, a) = {}})]

\* A row has a cell for every cluster that carries the addon's label, be it
\* enabled or not.
MatrixRow(w, a) ==
    [addon |-> a,
     cells |-> {[cluster |-> c,
                 health  |-> IF w.label[a][c] # "enabled" THEN "not_enabled"
                             ELSE IF w.app[a][c] = Absent THEN "missing" ELSE w.app[a][c],
                 drift   |-> c \in w.pinned[a]] : c \in {d \in w.git : w.label[a][d] # Absent}}]

VersionMatrix(w) == {MatrixRow(w, a) : a \in Addons}

----------------------------------------------------------------------------
(* GetStats (service/dashboard.go), handleGetAttentionItems (api/dashboard.go) *)

DashboardStats(w, argocdAnswers) ==
    LET connected == {c \in w.git : w.argocd[c] = "Successful"}
        apps      == {x \in Addons \X w.git :
                        x[2] \in EnabledOn(w, x[1]) /\ w.app[x[1]][x[2]] # Absent}
    IN  [total        |-> Cardinality(w.git),
         disconnected |-> IF argocdAnswers THEN Cardinality(w.git \ connected) ELSE 0,
         degraded     |-> IF argocdAnswers
                          THEN Cardinality({x \in apps : w.app[x[1]][x[2]] = "Degraded"}) ELSE 0]

\* Applications that are not healthy, or have conditions, of whatever addon.
AttentionItems(w) ==
    {x \in Addons \X Clusters : LET health == w.app[x[1]][x[2]]
                                IN  health # Absent /\ (health # "Healthy" \/ x \in w.warned)}
=============================================================================
