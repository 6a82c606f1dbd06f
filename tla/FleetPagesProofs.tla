-------------------------- MODULE FleetPagesProofs --------------------------
(***************************************************************************)
(* Proofs about FleetPages, for any finite number of clusters and addons   *)
(* and whatever Git and ArgoCD hold of them.                               *)
(***************************************************************************)
EXTENDS FleetPages, FiniteSetTheorems, TLAPS

\* The connection states that ArgoCD gives a cluster.
States == {"Successful", "Failed", "Unknown"}

\* What the pages compare a missing status or choice with.
Words == {"Successful", "Failed", "successful", "failed", "connected", "Connected",
          "missing", "not_in_git", "clusters?status=disconnected", "version-matrix?drift=true"}

World(w) == /\ w.git \subseteq Clusters
            /\ \A c \in Clusters : w.argocd[c] \in States \cup {Absent}

FleetOK == /\ IsFiniteSet(Clusters)
           /\ IsFiniteSet(Addons)
           /\ Absent \notin Words
           /\ \A w \in FleetWorlds : World(w)

----------------------------------------------------------------------------
(* The server's numbers against the page's rows. *)

\* What ListClusters makes of a cluster of Git.
Status(w, up, c) == IF ~up THEN Absent
                    ELSE IF w.argocd[c] = Absent THEN "missing" ELSE w.argocd[c]

Rows(w, up) == {ClusterRow(c, Status(w, up, c)) : c \in w.git}

Others(w, up) == IF up THEN NotInGit(w) ELSE {}

OtherRows(w, up) == {ClusterRow(c, "not_in_git") : c \in Others(w, up)}

LEMMA ListClustersIs ==
    ASSUME NEW w, NEW up \in BOOLEAN
    PROVE  ListClusters(w, up) = [rows  |-> Rows(w, up) \cup OtherRows(w, up),
                                  stats |-> HealthStats(Rows(w, up), Others(w, up))]
BY DEF ListClusters, Rows, Others, OtherRows, Status

LEMMA OneEach ==
    ASSUME NEW S, IsFiniteSet(S), NEW T, NEW f \in [S -> T],
           \A x, y \in S : f[x] = f[y] => x = y,
           \A t \in T : \E x \in S : f[x] = t
    PROVE  IsFiniteSet(T) /\ Cardinality(T) = Cardinality(S)
<1>1. f \in Bijection(S, T)
  BY DEF Bijection, Injection, Surjection, IsInjective
<1>2. ExistsBijection(S, T)
  BY <1>1 DEF ExistsBijection
<1> QED
  BY <1>2, FS_Bijection

LEMMA RowsFinite ==
    ASSUME FleetOK, NEW w, World(w), NEW up \in BOOLEAN
    PROVE  /\ IsFiniteSet(Rows(w, up))
           /\ IsFiniteSet(OtherRows(w, up))
           /\ IsFiniteSet(Others(w, up))
           /\ Cardinality(OtherRows(w, up)) = Cardinality(Others(w, up))
           /\ Rows(w, up) \cap OtherRows(w, up) = {}
<1>1. IsFiniteSet(w.git) /\ IsFiniteSet(Others(w, up))
  <2>1. Others(w, up) \subseteq Clusters
    BY DEF Others, NotInGit
  <2> QED
    BY <2>1, FS_Subset DEF FleetOK, World
<1>2. IsFiniteSet(Rows(w, up))
  <2> DEFINE f == [c \in w.git |-> ClusterRow(c, Status(w, up, c))]
  <2>1. \A x, y \in w.git : f[x] = f[y] => x = y
    BY DEF ClusterRow
  <2>2. f \in [w.git -> Rows(w, up)] /\ \A t \in Rows(w, up) : \E x \in w.git : f[x] = t
    BY DEF Rows
  <2> QED
    BY <1>1, <2>1, <2>2, OneEach
<1>3. /\ IsFiniteSet(OtherRows(w, up))
      /\ Cardinality(OtherRows(w, up)) = Cardinality(Others(w, up))
  <2> DEFINE f == [c \in Others(w, up) |-> ClusterRow(c, "not_in_git")]
  <2>1. \A x, y \in Others(w, up) : f[x] = f[y] => x = y
    BY DEF ClusterRow
  <2>2. /\ f \in [Others(w, up) -> OtherRows(w, up)]
        /\ \A t \in OtherRows(w, up) : \E x \in Others(w, up) : f[x] = t
    BY DEF OtherRows
  <2> QED
    BY <1>1, <2>1, <2>2, OneEach
<1>4. Rows(w, up) \cap OtherRows(w, up) = {}
  BY DEF Rows, OtherRows, Others, NotInGit, ClusterRow
<1> QED
  BY <1>1, <1>2, <1>3, <1>4

\* A row of Git has a status ArgoCD gives, or none, or it is missing there.
LEMMA StatusIs ==
    ASSUME FleetOK, NEW w, World(w), NEW up \in BOOLEAN, NEW r \in Rows(w, up)
    PROVE  r.status \in States \cup {"missing", Absent}
BY DEF World, Rows, Status, ClusterRow

\* The rows that the server counts for a card.
Counted(w, up, card) ==
    CASE card = "all" -> Rows(w, up) \cup OtherRows(w, up)
      [] card = "connected" -> {r \in Rows(w, up) : r.status \in {"Successful", "connected"}}
      [] card = "failed" -> {r \in Rows(w, up) : r.status \in {"Failed", "failed"}}
      [] card = "missing_from_argocd" -> {r \in Rows(w, up) : r.status \in {"missing"}}
      [] card = "not_in_git" -> OtherRows(w, up)

\* The page selects the same.
LEMMA CardSelects ==
    ASSUME FleetOK, NEW w, World(w), NEW up \in BOOLEAN, NEW card \in ClusterCards
    PROVE  {r \in Rows(w, up) \cup OtherRows(w, up) : PassesCard(card, r.status)}
              = Counted(w, up, card)
<1>1. \A r \in OtherRows(w, up) : r.status = "not_in_git"
  BY DEF OtherRows, ClusterRow
<1>2. Absent \notin Words
  BY DEF FleetOK
<1>3. CASE card = "all"
  BY <1>3 DEF PassesCard, Counted
<1>4. CASE card = "connected"
  BY <1>1, <1>2, <1>4, StatusIs DEF PassesCard, Counted, States, Words
<1>5. CASE card = "failed"
  BY <1>1, <1>2, <1>5, StatusIs DEF PassesCard, Counted, States, Words
<1>6. CASE card = "missing_from_argocd"
  BY <1>1, <1>2, <1>6, StatusIs DEF PassesCard, Counted, States, Words
<1>7. CASE card = "not_in_git"
  BY <1>1, <1>2, <1>7, StatusIs DEF PassesCard, Counted, States, Words
<1> QED
  BY <1>3, <1>4, <1>5, <1>6, <1>7 DEF ClusterCards

\* The numbers of the server are those of the rows it counts.
LEMMA ServerCounts ==
    ASSUME FleetOK, NEW w, World(w), NEW up \in BOOLEAN, NEW card \in ClusterCards,
           ui.health = HealthStats(Rows(w, up), Others(w, up))
    PROVE  CardValue(card) = Cardinality(Counted(w, up, card))
<1> DEFINE rows == Rows(w, up)
           others == OtherRows(w, up)
           Having(S) == {r \in rows : r.status \in S}
<1>1. ui.health = [total_in_git        |-> Cardinality(rows),
                   connected           |-> Cardinality(Having({"Successful", "connected"})),
                   failed              |-> Cardinality(Having({"Failed", "failed"})),
                   missing_from_argocd |-> Cardinality(Having({"missing"})),
                   not_in_git          |-> Cardinality(Others(w, up))]
  BY DEF HealthStats
<1> HIDE DEF rows, others, Having
<1>2. CASE card = "all"
  <2>1. /\ IsFiniteSet(rows) /\ IsFiniteSet(others) /\ rows \cap others = {}
        /\ Cardinality(others) = Cardinality(Others(w, up))
    BY RowsFinite DEF rows, others
  <2>2. Cardinality(rows \cup others) = Cardinality(rows) + Cardinality(others)
    <3>1. Cardinality(rows) \in Nat /\ Cardinality(others) \in Nat
      BY <2>1, FS_CardinalityType
    <3>2. Cardinality(rows \cup others)
            = Cardinality(rows) + Cardinality(others) - Cardinality(rows \cap others)
      BY <2>1, FS_Union
    <3>3. Cardinality(rows \cap others) = 0
      BY <2>1, FS_EmptySet
    <3> QED
      BY <3>1, <3>2, <3>3
  <2>3. Counted(w, up, card) = rows \cup others
    BY <1>2 DEF Counted, rows, others
  <2> QED
    BY <1>1, <1>2, <2>1, <2>2, <2>3 DEF CardValue
<1>3. CASE card = "connected"
  <2>1. Counted(w, up, card) = Having({"Successful", "connected"})
    BY <1>3 DEF Counted, Having, rows
  <2> QED
    BY <1>1, <1>3, <2>1 DEF CardValue
<1>4. CASE card = "failed"
  <2>1. Counted(w, up, card) = Having({"Failed", "failed"})
    BY <1>4 DEF Counted, Having, rows
  <2> QED
    BY <1>1, <1>4, <2>1 DEF CardValue
<1>5. CASE card = "missing_from_argocd"
  <2>1. Counted(w, up, card) = Having({"missing"})
    BY <1>5 DEF Counted, Having, rows
  <2> QED
    BY <1>1, <1>5, <2>1 DEF CardValue
<1>6. CASE card = "not_in_git"
  <2>1. Counted(w, up, card) = others /\ Cardinality(others) = Cardinality(Others(w, up))
    BY <1>6, RowsFinite DEF Counted, others
  <2> QED
    BY <1>1, <1>6, <2>1 DEF CardValue
<1> QED
  BY <1>2, <1>3, <1>4, <1>5, <1>6 DEF ClusterCards

LEMMA CardsCount ==
    ASSUME FleetOK, NEW w, World(w), NEW up \in BOOLEAN, NEW card \in ClusterCards,
           ui.clusters = ListClusters(w, up).rows, ui.health = ListClusters(w, up).stats
    PROVE  CardValue(card) = Cardinality(FilteredClusters(card, NoFilters))
<1>1. /\ ui.clusters = Rows(w, up) \cup OtherRows(w, up)
      /\ ui.health = HealthStats(Rows(w, up), Others(w, up))
  BY ListClustersIs
<1>2. FilteredClusters(card, NoFilters)
         = {r \in Rows(w, up) \cup OtherRows(w, up) : PassesCard(card, r.status)}
  BY <1>1 DEF FilteredClusters, PassesFilters, NoFilters
<1>3. FilteredClusters(card, NoFilters) = Counted(w, up, card)
  BY <1>2, CardSelects
<1> QED
  BY <1>1, <1>3, ServerCounts

\* A page that has not got its answer, or got an error, shows no cluster and
\* counts none.
LEMMA NothingCounts ==
    ASSUME NEW card \in ClusterCards, ui.clusters = {}, ui.health = HealthStats({}, {})
    PROVE  CardValue(card) = Cardinality(FilteredClusters(card, NoFilters))
<1>1. FilteredClusters(card, NoFilters) = {} /\ Cardinality({}) = 0
  BY FS_EmptySet DEF FilteredClusters
<1>2. \A S : {r \in {} : r.status \in S} = {}
  OBVIOUS
<1> QED
  BY <1>1, <1>2 DEF CardValue, HealthStats, ClusterCards

----------------------------------------------------------------------------
(* The drifts of the dashboard and the rows of the matrix. *)

DriftingAddons(w) == {a \in Addons : DriftCount(MatrixRow(w, a)) > 0}

LEMMA DriftsAre == ASSUME NEW w PROVE VersionDrifts(VersionMatrix(w)) = DriftingAddons(w)
<1>1. \A a : MatrixRow(w, a).addon = a
  BY DEF MatrixRow
<1> QED
  BY <1>1 DEF VersionDrifts, VersionMatrix, DriftingAddons

LEMMA DriftsCount ==
    ASSUME FleetOK, NEW w, ui.rows = VersionMatrix(w), ui.driftOnly, ui.search = Absent
    PROVE  Cardinality(FilteredRows) = Cardinality(VersionDrifts(VersionMatrix(w)))
<1> DEFINE f == [a \in DriftingAddons(w) |-> MatrixRow(w, a)]
<1>1. IsFiniteSet(DriftingAddons(w))
  BY FS_Subset DEF DriftingAddons, FleetOK
<1>2. FilteredRows = {row \in VersionMatrix(w) : DriftCount(row) > 0}
  BY DEF FilteredRows
<1>3. \A x, y \in DriftingAddons(w) : f[x] = f[y] => x = y
  BY DEF MatrixRow
<1>4. /\ f \in [DriftingAddons(w) -> FilteredRows]
      /\ \A t \in FilteredRows : \E x \in DriftingAddons(w) : f[x] = t
  BY <1>2 DEF VersionMatrix, DriftingAddons
<1> QED
  <2> HIDE DEF f
  <2>1. Cardinality(FilteredRows) = Cardinality(DriftingAddons(w))
    BY <1>1, <1>3, <1>4, OneEach
  <2> QED
    BY <2>1, DriftsAre

----------------------------------------------------------------------------
(* What the pages show comes from the one world there is. *)

LEMMA SentCalls ==
    ASSUME NEW b, NEW kind, NEW arg
    PROVE  BagToSet(Send(b, kind, arg)) = BagToSet(b) \cup {Call(kind, arg)}
BY DEF BagToSet, Send, SetToBag, (+)

LEMMA SettledCalls ==
    ASSUME NEW b, NEW c
    PROVE  BagToSet(Settled(b, c)) \subseteq BagToSet(b)
BY DEF BagToSet, Settled, SetToBag, (-)

LEMMA NoCallsYet == BagToSet(NoCalls) = {}
BY DEF BagToSet, NoCalls, EmptyBag, SetToBag

\* The fields of the page, whatever they hold.
Typed == ui = [page |-> ui.page, link |-> ui.link, loading |-> ui.loading, error |-> ui.error,
               stats |-> ui.stats, drifts |-> ui.drifts, attention |-> ui.attention,
               clusters |-> ui.clusters, health |-> ui.health, filters |-> ui.filters,
               card |-> ui.card, rows |-> ui.rows, search |-> ui.search,
               driftOnly |-> ui.driftOnly, expanded |-> ui.expanded]

\* Leaving a page drops its requests.
OwnCalls == \A c \in BagToSet(net) : c.kind = ui.page

ClustersShown ==
    \/ ui.clusters = {} /\ ui.health = HealthStats({}, {})
    \/ \E up \in BOOLEAN : /\ ui.clusters = ListClusters(srv, up).rows
                           /\ ui.health = ListClusters(srv, up).stats

DriftsShown ==
    /\ ui.drifts # {} => ui.drifts = VersionDrifts(VersionMatrix(srv))
    /\ ui.link.to = "version-matrix?drift=true" =>
          ui.link.count = Cardinality(VersionDrifts(VersionMatrix(srv)))

MatrixShown == Showing("version-matrix") => ui.rows = VersionMatrix(srv)

FleetInv == /\ srv \in FleetWorlds
            /\ Typed /\ OwnCalls /\ ClustersShown /\ DriftsShown /\ MatrixShown

LEMMA OpenKeeps ==
    ASSUME FleetOK, FleetInv, NEW page, NEW link, Open(page, link),
           link.to = "version-matrix?drift=true" =>
              link.count = Cardinality(VersionDrifts(VersionMatrix(srv)))
    PROVE  FleetInv'
<1>1. BagToSet(net') = {Call(page, <<>>)}
  BY SentCalls, NoCallsYet DEF Open
<1>2. /\ Typed' /\ srv' = srv /\ ui'.page = page /\ ui'.link = link /\ ui'.loading
      /\ ui'.clusters = {} /\ ui'.health = HealthStats({}, {}) /\ ui'.drifts = {}
  BY DEF Open, Mounted, Typed
<1> QED
  BY <1>1, <1>2 DEF FleetInv, OwnCalls, ClustersShown, DriftsShown, MatrixShown, Showing, Call

LEMMA InitFleet == ASSUME FleetOK, Init PROVE FleetInv
<1>1. BagToSet(net) = {Call("dashboard", <<>>)}
  BY SentCalls, NoCallsYet DEF Init
<1>2. /\ Typed /\ ui.page = "dashboard" /\ ui.link = NoLink /\ ui.loading
      /\ ui.clusters = {} /\ ui.health = HealthStats({}, {}) /\ ui.drifts = {}
  BY DEF Init, Mounted, Typed
<1>3. NoLink.to # "version-matrix?drift=true"
  BY DEF NoLink, FleetOK, Words
<1> QED
  BY <1>1, <1>2, <1>3 DEF Init, FleetInv, OwnCalls, ClustersShown, DriftsShown, MatrixShown,
     Showing, Call

\* Filters and searches leave alone what was answered.
LEMMA ChangeKeeps ==
    ASSUME FleetInv, UNCHANGED <<net, srv>>, Typed',
           ui'.page = ui.page, ui'.link = ui.link, ui'.loading = ui.loading,
           ui'.error = ui.error, ui'.drifts = ui.drifts, ui'.clusters = ui.clusters,
           ui'.health = ui.health, ui'.rows = ui.rows
    PROVE  FleetInv'
BY DEF FleetInv, OwnCalls, ClustersShown, DriftsShown, MatrixShown, Showing

LEMMA UserFleet == FleetOK /\ FleetInv /\ User => FleetInv'
<1> SUFFICES ASSUME FleetOK, FleetInv, User PROVE FleetInv'
  OBVIOUS
<1>1. ASSUME NEW page \in Pages, Navigate(page) PROVE FleetInv'
  <2>1. NoLink.to # "version-matrix?drift=true"
    BY DEF NoLink, FleetOK, Words
  <2> QED
    BY <1>1, <2>1, OpenKeeps DEF Navigate
<1>2. CASE FollowDisconnected
  <2>1. DisconnectedLink.to # "version-matrix?drift=true"
    BY DEF DisconnectedLink
  <2> QED
    BY <1>2, <2>1, OpenKeeps DEF FollowDisconnected
<1>3. CASE FollowDrift
  <2>1. DriftLink.count = Cardinality(VersionDrifts(VersionMatrix(srv)))
    BY <1>3 DEF FollowDrift, DriftLink, FleetInv, DriftsShown
  <2> QED
    BY <1>3, <2>1, OpenKeeps DEF FollowDrift
<1>4. CASE Retry
  <2>1. BagToSet(net') = BagToSet(net) \cup {Call(ui.page, <<>>)}
    BY <1>4, SentCalls DEF Retry
  <2>2. /\ Typed' /\ srv' = srv /\ ui'.page = ui.page /\ ui'.link = ui.link /\ ui'.loading
        /\ ui'.clusters = ui.clusters /\ ui'.health = ui.health /\ ui'.drifts = ui.drifts
    BY <1>4 DEF Retry, FleetInv, Typed
  <2> QED
    BY <2>1, <2>2 DEF FleetInv, OwnCalls, ClustersShown, DriftsShown, MatrixShown, Showing, Call
<1>5. ASSUME \/ \E card \in ClusterCards : SelectCard(card)
             \/ \E c \in Clusters \cup {Absent} : TypeName(c)
             \/ \E t \in AvailableConnectionTypes \cup ui.filters.types : ToggleConnectionType(t)
             \/ ClearFilters
             \/ \E a \in Addons \cup {Absent} : SearchAddon(a)
             \/ TickDriftOnly
             \/ \E row \in FilteredRows : ToggleRow(row)
      PROVE  FleetInv'
  <2>1. /\ UNCHANGED <<net, srv>> /\ Typed'
        /\ ui'.page = ui.page /\ ui'.link = ui.link /\ ui'.loading = ui.loading
        /\ ui'.error = ui.error /\ ui'.drifts = ui.drifts /\ ui'.clusters = ui.clusters
        /\ ui'.health = ui.health /\ ui'.rows = ui.rows
    <3>1. Typed
      BY DEF FleetInv
    <3>2. CASE \/ \E card \in ClusterCards : SelectCard(card)
               \/ \E c \in Clusters \cup {Absent} : TypeName(c)
      BY <3>1, <3>2 DEF SelectCard, TypeName, Change, Typed
    <3>3. CASE \E t \in AvailableConnectionTypes \cup ui.filters.types : ToggleConnectionType(t)
      BY <3>1, <3>3 DEF ToggleConnectionType, Change, Typed
    <3>4. CASE ClearFilters
      BY <3>1, <3>4 DEF ClearFilters, Change, Typed
    <3>5. CASE \/ \E a \in Addons \cup {Absent} : SearchAddon(a)
               \/ TickDriftOnly
               \/ \E row \in FilteredRows : ToggleRow(row)
      BY <3>1, <3>5 DEF SearchAddon, TickDriftOnly, ToggleRow, Change, Typed
    <3> QED
      BY <1>5, <3>2, <3>3, <3>4, <3>5
  <2> QED
    BY <2>1, ChangeKeeps
<1> QED
  BY <1>1, <1>2, <1>3, <1>4, <1>5 DEF User

LEMMA AnswersFleet == FleetOK /\ FleetInv /\ Deliver => FleetInv'
<1> SUFFICES ASSUME FleetOK, FleetInv, Deliver PROVE FleetInv'
  OBVIOUS
<1>1. ASSUME NEW c, net' = Settled(net, c), ui'.page = ui.page PROVE OwnCalls'
  BY <1>1, SettledCalls DEF FleetInv, OwnCalls
<1>2. ASSUME NEW c \in Sent(net, "dashboard"), NEW up \in BOOLEAN, NEW matrixUp \in BOOLEAN,
             NEW attentionUp \in BOOLEAN, ShowDashboard(c, up, matrixUp, attentionUp)
      PROVE  FleetInv'
  <2>1. /\ net' = Settled(net, c) /\ srv' = srv /\ Typed' /\ ui'.page = ui.page
        /\ ui'.link = ui.link /\ ui'.clusters = ui.clusters /\ ui'.health = ui.health
        /\ ui'.drifts \in {ui.drifts, VersionDrifts(VersionMatrix(srv))}
    BY <1>2 DEF ShowDashboard, Loaded, FleetInv, Typed
  <2>2. ui.page = "dashboard"
    BY DEF FleetInv, OwnCalls, Sent, InFlight
  <2> QED
    BY <1>1, <2>1, <2>2 DEF FleetInv, ClustersShown, DriftsShown, MatrixShown, Showing
<1>3. ASSUME NEW c \in Sent(net, "clusters"), NEW up \in BOOLEAN, ShowClusters(c, up)
      PROVE  FleetInv'
  <2>1. /\ net' = Settled(net, c) /\ srv' = srv /\ Typed' /\ ui'.page = ui.page
        /\ ui'.link = ui.link /\ ui'.drifts = ui.drifts
        /\ ui'.clusters = ListClusters(srv, up).rows /\ ui'.health = ListClusters(srv, up).stats
    BY <1>3 DEF ShowClusters, Loaded, FleetInv, Typed
  <2>2. ui.page = "clusters"
    BY DEF FleetInv, OwnCalls, Sent, InFlight
  <2> QED
    BY <1>1, <2>1, <2>2 DEF FleetInv, ClustersShown, DriftsShown, MatrixShown, Showing
<1>4. ASSUME NEW c \in Sent(net, "version-matrix"), ShowMatrix(c) PROVE FleetInv'
  <2>1. /\ net' = Settled(net, c) /\ srv' = srv /\ Typed' /\ ui'.page = ui.page
        /\ ui'.link = ui.link /\ ui'.drifts = ui.drifts /\ ui'.clusters = ui.clusters
        /\ ui'.health = ui.health /\ ui'.rows = VersionMatrix(srv)
    BY <1>4 DEF ShowMatrix, Loaded, FleetInv, Typed
  <2> QED
    BY <1>1, <2>1 DEF FleetInv, ClustersShown, DriftsShown, MatrixShown, Showing
<1>5. ASSUME NEW c, ShowError(c) PROVE FleetInv'
  <2>1. /\ net' = Settled(net, c) /\ srv' = srv /\ Typed' /\ ui'.page = ui.page
        /\ ui'.link = ui.link /\ ui'.drifts = ui.drifts /\ ui'.clusters = {}
        /\ ui'.health = HealthStats({}, {}) /\ ui'.error
    BY <1>5 DEF ShowError, Loaded, FleetInv, Typed
  <2> QED
    BY <1>1, <2>1 DEF FleetInv, ClustersShown, DriftsShown, MatrixShown, Showing
<1> QED
  BY <1>2, <1>3, <1>4, <1>5 DEF Deliver, Answers

LEMMA NextFleet == FleetOK /\ FleetInv /\ [Next]_vars => FleetInv'
<1>1. FleetInv /\ UNCHANGED vars => FleetInv'
  BY DEF vars, FleetInv, Typed, OwnCalls, ClustersShown, DriftsShown, MatrixShown, Showing
<1> QED
  BY <1>1, UserFleet, AnswersFleet DEF Next

LEMMA FleetCards == FleetOK /\ FleetInv => CardsMatchRows
<1> SUFFICES ASSUME FleetOK, FleetInv, NEW card \in ClusterCards
             PROVE  CardValue(card) = Cardinality(FilteredClusters(card, NoFilters))
  BY DEF CardsMatchRows
<1>1. CASE ui.clusters = {} /\ ui.health = HealthStats({}, {})
  BY <1>1, NothingCounts
<1>2. ASSUME NEW up \in BOOLEAN,
             ui.clusters = ListClusters(srv, up).rows, ui.health = ListClusters(srv, up).stats
      PROVE  CardValue(card) = Cardinality(FilteredClusters(card, NoFilters))
  <2>1. World(srv)
    BY DEF FleetInv, FleetOK
  <2> QED
    BY <1>2, <2>1, CardsCount
<1> QED
  BY <1>1, <1>2 DEF FleetInv, ClustersShown

LEMMA FleetDrifts == FleetOK /\ FleetInv => DriftCountsAgree
<1> SUFFICES ASSUME FleetOK, FleetInv, Showing("version-matrix"),
                    ui.link.to = "version-matrix?drift=true", ui.driftOnly, ui.search = Absent
             PROVE  Cardinality(FilteredRows) = ui.link.count
  BY DEF DriftCountsAgree
<1>1. ui.rows = VersionMatrix(srv)
  BY DEF FleetInv, MatrixShown
<1>2. Cardinality(FilteredRows) = Cardinality(VersionDrifts(VersionMatrix(srv)))
  BY <1>1, DriftsCount
<1> QED
  BY <1>2 DEF FleetInv, DriftsShown

----------------------------------------------------------------------------
(* The theorems. *)

LEMMA FleetInvariant == ASSUME FleetOK PROVE Spec => []FleetInv
<1>1. Init => FleetInv
  BY InitFleet
<1>2. FleetInv /\ [Next]_vars => FleetInv'
  BY NextFleet
<1> QED
  BY <1>1, <1>2, PTL DEF Spec

\* On the page of clusters, a stat card counts the rows that it selects, whether ArgoCD answered or not: the server
\* counts (ListClusters in service/cluster.go) and the page selects (filteredClusters in ClustersOverview.tsx).
THEOREM CardsCountTheirRows == ASSUME FleetOK PROVE Spec => []CardsMatchRows
<1>1. FleetInv => CardsMatchRows
  BY FleetCards
<1> QED
  BY <1>1, FleetInvariant, PTL

\* The drifts that the dashboard's link counts (Dashboard.tsx) are as many as the rows of the version matrix that the
\* filter on drift leaves (VersionMatrix.tsx).
THEOREM DriftsOnTheLink == ASSUME FleetOK PROVE Spec => []DriftCountsAgree
<1>1. FleetInv => DriftCountsAgree
  BY FleetDrifts
<1> QED
  BY <1>1, FleetInvariant, PTL
=============================================================================
