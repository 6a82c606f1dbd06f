------------------------------ MODULE WebPages ------------------------------
(***************************************************************************)
(* The pages of the web UI, each over the part of the server it talks to.  *)
(* The router (ui/src/App.tsx) mounts one of them at a time: the pages     *)
(* share no state, and `tab' says which one this behaviour is about.  The  *)
(* links between pages are in the modules of the pages they connect.       *)
(***************************************************************************)
EXTENDS Http

CONSTANTS Clusters, LocalCluster, Addons, Absent,
          DetailWorlds, FleetWorlds,                     \* clusters, dashboard
          AddonWorlds, PageSizes, NameRank, CatalogRank, \* addons
          Names, Contents, Tested, Configs,              \* settings
          Inputs, SavedLists, MaxDashboards,             \* embedded dashboards
          Versions,                                      \* upgrades
          Users, MaxRequests,                            \* accounts
          Paths, MaxQuestions, MaxSessions,              \* the assistant
          NSteps, Todo                                   \* migrations

\* A cluster has addons left to migrate; Git and ArgoCD say of clusters what
\* they can, and nothing that stands for a missing value is a word of theirs.
ASSUME AddonsAssumption ==
    IsFiniteSet(Clusters) /\ IsFiniteSet(Addons) /\ Todo \subseteq [Clusters -> SUBSET Addons]

ASSUME WorldsAssumption ==
    /\ \A w \in DetailWorlds : w.git \subseteq Addons
    /\ \A w \in FleetWorlds :
        /\ w.git \subseteq Clusters
        /\ \A c \in Clusters : w.argocd[c] \in {"Successful", "Failed", "Unknown", Absent}
    /\ \A w \in AddonWorlds : w.git \subseteq Clusters

\* The sizes of a page, of which one is the smallest; and the two orders of the
\* catalog, in which each addon has a place of its own.
ASSUME CatalogAssumption ==
    /\ PageSizes \subseteq Nat \ {0}
    /\ \E n \in PageSizes : \A m \in PageSizes : n <= m
    /\ \A order \in {NameRank, CatalogRank} :
        /\ order \in [Addons -> Nat]
        /\ \A a, b \in Addons : order[a] = order[b] => a = b

ASSUME SessionsAssumption == MaxSessions \in Nat

ASSUME AbsentAssumption ==
    Absent \notin Clusters \cup
                  {"Successful", "Failed", "successful", "failed", "connected", "Connected",
                   "Healthy", "Degraded", "missing", "not_in_git", "clusters?status=disconnected",
                   "version-matrix?drift=true"}

VARIABLES tab,          \* the page that is mounted: fixed
          ui, net, srv  \* its state, its requests, and its part of the server

vars == <<tab, ui, net, srv>>

Few == 2  \* requests in flight at once on a page with many other choices

Cluster == INSTANCE ClusterDetailPage WITH MaxCalls <- Few, NoCluster <- Absent
Fleet == INSTANCE FleetPages
Addon == INSTANCE AddonPages
Conns == INSTANCE ConnectionsPage WITH MaxCalls <- Few, NoName <- Absent
AI == INSTANCE AISettings WITH MaxCalls <- Few, NoConfig <- Absent
Boards == INSTANCE DashboardsPage WITH MaxCalls <- Few, NoFields <- Absent, NoId <- 0
Upgrade == INSTANCE UpgradePage WITH MaxCalls <- Few, Nothing <- Absent
Account == INSTANCE Accounts WITH MaxCalls <- Few
Assistant == INSTANCE AssistantPage WITH MaxCalls <- Few, NoPage <- Absent
Migration == INSTANCE MigrationDetailPage WITH MaxCalls <- Few, Nothing <- Absent
Dialog == INSTANCE MigrationDialog WITH MaxCalls <- Few, Nothing <- Absent
Observe == INSTANCE ObservabilityPage

Init == \/ tab = "cluster" /\ Cluster!Init
        \/ tab = "fleet" /\ Fleet!Init
        \/ tab = "addon" /\ Addon!Init
        \/ tab = "connections" /\ Conns!Init
        \/ tab = "ai" /\ AI!Init
        \/ tab = "dashboards" /\ Boards!Init
        \/ tab = "upgrade" /\ Upgrade!Init
        \/ tab = "users" /\ Account!Init
        \/ tab = "assistant" /\ Assistant!Init
        \/ tab = "migration" /\ Migration!Init
        \/ tab = "dialog" /\ Dialog!Init
        \/ tab = "observability" /\ Observe!Init

Step == \/ tab = "cluster" /\ Cluster!Next
        \/ tab = "fleet" /\ Fleet!Next
        \/ tab = "addon" /\ Addon!Next
        \/ tab = "connections" /\ Conns!Next
        \/ tab = "ai" /\ AI!Next
        \/ tab = "dashboards" /\ Boards!Next
        \/ tab = "upgrade" /\ Upgrade!Next
        \/ tab = "users" /\ Account!Next
        \/ tab = "assistant" /\ Assistant!Next
        \/ tab = "migration" /\ Migration!Next
        \/ tab = "dialog" /\ Dialog!Next
        \/ tab = "observability" /\ Observe!Next

Next == Step /\ UNCHANGED tab

----------------------------------------------------------------------------
(* Fairness: a request settles, for the browser gives up on a connection    *)
(* that breaks and the server's own calls have time limits; and React runs  *)
(* the effects that are due.  Fairness is strong because an effect that is  *)
(* due comes before the next answer, which waits in the browser's queue.    *)
(* Nothing is asked of the user.                                            *)

Answers(s) == /\ \/ tab = "cluster" /\ Cluster!Answers(s)
                 \/ tab = "fleet" /\ Fleet!Answers(s)
                 \/ tab = "addon" /\ Addon!Answers(s)
                 \/ tab = "connections" /\ Conns!Answers(s)
                 \/ tab = "ai" /\ AI!Answers(s)
                 \/ tab = "dashboards" /\ Boards!Answers(s)
                 \/ tab = "upgrade" /\ Upgrade!Answers(s)
                 \/ tab = "users" /\ Account!Answers(s)
                 \/ tab = "assistant" /\ Assistant!Answers(s)
                 \/ tab = "migration" /\ Migration!Answers(s)
                 \/ tab = "dialog" /\ Dialog!Answers(s)
                 \/ tab = "observability" /\ Observe!Answers(s)
              /\ UNCHANGED tab

Effects == tab = "cluster" /\ Cluster!LoadOverrides /\ UNCHANGED tab

Spec == /\ Init /\ [][Next]_vars
        /\ WF_vars(Effects)
        /\ \A s \in Spinners : SF_vars(Answers(s))

----------------------------------------------------------------------------
(* The properties of the pages, each stated and explained in its module. *)

\* A cluster's stat cards count the rows they select.
DetailCardsMatchRows == tab = "cluster" => Cluster!DetailCardsMatchRows

\* So do those of the list of clusters.
CardsMatchRows == tab = "fleet" => Fleet!CardsMatchRows

\* The dashboard and the matrix count the same drifts.
DriftCountsAgree == tab = "fleet" => Fleet!DriftCountsAgree

\* The catalog's pages show each addon that passes exactly once.
CatalogPagesComplete == tab = "addon" => Addon!CatalogPagesComplete

\* An addon's numbers are those of its rows.
AddonCountsMatchRows == tab = "addon" => Addon!AddonCountsMatchRows

\* A connection is saved as it was tested, under its own name.
SavedWasTested == tab = "connections" => Conns!SavedWasTested

\* The AI's configuration is saved as it was tested, if left alone meanwhile.
AISavedWasTested == tab = "ai" => AI!AISavedWasTested

\* The embedded dashboards shown are those stored.
PageIsStored == tab = "dashboards" => Boards!PageIsStored

\* The upgrade checker shows what was asked last.
ShowsLastAsked == tab = "upgrade" => Upgrade!ShowsLastAsked

\* No account or password is lost but by its deletion.
OnlyDeleteRemoves == [][tab = "users" => Account!OnlyDeleteRemoves]_vars

\* The accounts in memory are those stored.
CopiesAreStored == tab = "users" => Account!CopiesAreStored

\* The assistant's answers stand under their questions.
ConversationInOrder == tab = "assistant" => Assistant!ConversationInOrder

\* Its sessions are bounded.
SessionsBounded == tab = "assistant" => Assistant!SessionsBounded

\* A migration's page that stopped asking is up to date.
QuietPageIsRight == tab = "migration" => Migration!QuietPageIsRight

\* One start at a time, of one addon or of the list shown.
StartsOneList == tab = "dialog" => Dialog!StartsOneList

\* Metrics are asked for once.
MetricsAskedOnce == tab = "observability" => Observe!MetricsAskedOnce

Spins(s) == \/ tab = "cluster" /\ Cluster!Spins(s)
            \/ tab = "fleet" /\ Fleet!Spins(s)
            \/ tab = "addon" /\ Addon!Spins(s)
            \/ tab = "connections" /\ Conns!Spins(s)
            \/ tab = "ai" /\ AI!Spins(s)
            \/ tab = "dashboards" /\ Boards!Spins(s)
            \/ tab = "upgrade" /\ Upgrade!Spins(s)
            \/ tab = "users" /\ Account!Spins(s)
            \/ tab = "assistant" /\ Assistant!Spins(s)
            \/ tab = "migration" /\ Migration!Spins(s)
            \/ tab = "dialog" /\ Dialog!Spins(s)
            \/ tab = "observability" /\ Observe!Spins(s)

(* No spinner turns for ever and no button stays disabled, whatever is      *)
(* answered, fails or is clicked meanwhile: every path out of a request     *)
(* puts back the flag that was set when it was sent.                        *)
SpinnersEnd == \A s \in Spinners : []<>~Spins(s)
=============================================================================
