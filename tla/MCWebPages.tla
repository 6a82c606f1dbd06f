----------------------------- MODULE MCWebPages -----------------------------
(***************************************************************************)
(* Small instances of the pages.                                           *)
(***************************************************************************)
EXTENDS WebPages

\* What a row may be: healthy, with issues, missing, untracked, or hidden.
DetailWorld(git, a1, a2, infra) ==
    [git |-> git, app |-> [a \in Addons |-> IF a = "a1" THEN a1 ELSE a2], infra |-> infra]

MCDetailWorlds ==
    {DetailWorld({"a1", "a2"}, "Healthy", "Degraded", {}),
     DetailWorld({"a1", "a2"}, "none", "Unknown", {}),
     DetailWorld({"a1"}, "Healthy", "Missing", {}),
     DetailWorld({"a1"}, "Progressing", "Healthy", {"a2"}),
     DetailWorld({}, "Healthy", "Unknown", {})}

\* The label, or the application, of an addon is the same on every cluster.
Everywhere(S) == [Addons -> {[c \in Clusters |-> x] : x \in S}]

Nowhere == [a \in Addons |-> [c \in Clusters |-> Absent]]

\* Every way in which Git and ArgoCD know of the clusters, without addons ...
ClusterWorlds ==
    [git : SUBSET Clusters,
     argocd : [Clusters -> {"Successful", "Failed", "Unknown", Absent}],
     label : {Nowhere}, pinned : {[a \in Addons |-> {}]}, app : {Nowhere}, warned : {{}}]

\* ... and every way in which one cluster has the addons.
DriftWorlds ==
    [git : {Clusters \ {LocalCluster}},
     argocd : {[c \in Clusters |-> s] : s \in {"Failed", "Successful"}},
     label : Everywhere({"enabled", "disabled"}),
     pinned : [Addons -> {{}, Clusters}],
     app : Everywhere({"Degraded", Absent}),
     warned : {{}}]

\* Healthy applications, with and without conditions.
WarnedWorlds ==
    [git : {Clusters}, argocd : {[c \in Clusters |-> "Successful"]},
     label : Everywhere({"enabled"}), pinned : {[a \in Addons |-> {}]},
     app : Everywhere({"Healthy"}), warned : {{}, {<<"a1", "c1">>}}]

MCFleetWorlds == ClusterWorlds \cup DriftWorlds \cup WarnedWorlds

\* The first addon may be anything, and another thing on each cluster; the
\* second is enabled.
MCAddonWorlds ==
    {w \in [git : {Clusters},
            label : [Addons -> [Clusters -> {"enabled", Absent}]],
            app : [Addons -> [Clusters -> {"Healthy", "Degraded", Absent}]]] :
        /\ \A c \in Clusters : w.label["a2"][c] = "enabled" /\ w.app["a2"][c] = "Degraded"
        /\ w.label["a1"]["c2"] = "enabled" /\ w.app["a1"]["c1"] # Absent}

\* Two addons, in opposite orders.
MCNameRank == [a \in Addons |-> IF a = "a1" THEN 1 ELSE 2]
MCCatalogRank == [a \in Addons |-> IF a = "a1" THEN 2 ELSE 1]

\* One cluster is migrated in part, or not at all.
MCToMigrate == {[c \in Clusters |-> IF c = "c1" THEN todo ELSE Addons] : todo \in SUBSET Addons}

MCSavedLists == {{}, {[id |-> 1, x |-> CHOOSE x \in Inputs : TRUE]}}
=============================================================================
