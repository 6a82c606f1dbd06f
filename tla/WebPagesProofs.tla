--------------------------- MODULE WebPagesProofs ---------------------------
(***************************************************************************)
(* Proofs about the composed pages that show something, for any values of  *)
(* the constants: one section per page.  A section states what the page    *)
(* keeps, proves it of the page's own Init and Next, and carries it over   *)
(* to the composition, whose every step is a step of the mounted page or a *)
(* stutter.                                                                *)
(***************************************************************************)
EXTENDS WebPages, FiniteSetTheorems, TLAPS

----------------------------------------------------------------------------
(* The requests in flight.  Every page has the operators of Http by a name  *)
(* of its own; they are the ones of this module (...Calls, below).          *)

LEMMA SentCalls ==
    ASSUME NEW b, NEW kind, NEW arg
    PROVE  BagToSet(Send(b, kind, arg)) = BagToSet(b) \cup {Call(kind, arg)}
BY DEF BagToSet, Send, SetToBag, (+)

LEMMA SettledCalls ==
    ASSUME NEW b, NEW c
    PROVE  BagToSet(Settled(b, c)) \subseteq BagToSet(b)
BY DEF BagToSet, Settled, SetToBag, (-)

LEMMA NoCallsYet == BagToSet(NoCalls) = {}
BY DEF BagToSet, NoCalls, EmptyBag, SetToBag

\* The calls of some kinds that are in flight: none, or a single one while the
\* page is busy with it.
Pending(b, kinds) == {c \in BagToSet(b) : c.kind \in kinds}

OneAtATime(b, kinds, busy) ==
    IF busy THEN \E c : Pending(b, kinds) = {c} /\ b[c] = 1 ELSE Pending(b, kinds) = {}

LEMMA OneIsSent ==
    ASSUME NEW b, NEW kinds, NEW kind \in kinds, NEW arg, OneAtATime(b, kinds, FALSE)
    PROVE  OneAtATime(Send(b, kind, arg), kinds, TRUE)
<1> DEFINE d == Call(kind, arg)
<1>1. d.kind \in kinds /\ d \notin DOMAIN b
  BY DEF OneAtATime, Pending, Call, BagToSet
<1>2. Pending(Send(b, kind, arg), kinds) = {d}
  BY <1>1, SentCalls DEF OneAtATime, Pending
<1>3. Send(b, kind, arg)[d] = 1
  BY <1>1 DEF Send, SetToBag, (+)
<1> QED
  BY <1>2, <1>3 DEF OneAtATime

LEMMA AnotherIsSent ==
    ASSUME NEW b, NEW kinds, NEW kind, kind \notin kinds, NEW arg,
           NEW busy \in BOOLEAN, OneAtATime(b, kinds, busy)
    PROVE  OneAtATime(Send(b, kind, arg), kinds, busy)
<1> DEFINE d == Call(kind, arg)
<1>1. d.kind \notin kinds
  BY DEF Call
<1>2. Pending(Send(b, kind, arg), kinds) = Pending(b, kinds)
  BY <1>1, SentCalls DEF Pending
<1>3. ASSUME NEW c \in Pending(b, kinds), b[c] = 1 PROVE Send(b, kind, arg)[c] = 1
  <2>1. c # d /\ c \in DOMAIN b
    BY <1>1 DEF Pending, BagToSet
  <2> QED
    BY <2>1, <1>3 DEF Send, SetToBag, (+)
<1> QED
  BY <1>2, <1>3 DEF OneAtATime

LEMMA OneSettles ==
    ASSUME NEW b, NEW kinds, NEW busy \in BOOLEAN, OneAtATime(b, kinds, busy),
           NEW c \in BagToSet(b), c.kind \in kinds
    PROVE  busy /\ OneAtATime(Settled(b, c), kinds, FALSE)
<1>1. busy /\ Pending(b, kinds) = {c} /\ b[c] = 1
  BY DEF OneAtATime, Pending
<1>2. c \notin DOMAIN Settled(b, c)
  BY <1>1 DEF Settled, SetToBag, (-)
<1> QED
  BY <1>1, <1>2, SettledCalls DEF OneAtATime, Pending, BagToSet

LEMMA AnotherSettles ==
    ASSUME NEW b, NEW kinds, NEW busy \in BOOLEAN, OneAtATime(b, kinds, busy),
           NEW c \in BagToSet(b), c.kind \notin kinds
    PROVE  OneAtATime(Settled(b, c), kinds, busy)
<1>1. Pending(Settled(b, c), kinds) \subseteq Pending(b, kinds)
  BY SettledCalls DEF Pending
<1>2. ASSUME NEW d, Pending(b, kinds) = {d}, b[d] = 1
      PROVE  d \in Pending(Settled(b, c), kinds) /\ Settled(b, c)[d] = 1
  <2>1. d # c /\ d \in DOMAIN b /\ d.kind \in kinds
    BY <1>2 DEF Pending, BagToSet
  <2> QED
    BY <2>1, <1>2 DEF Settled, SetToBag, (-), Pending, BagToSet
<1> QED
  BY <1>1, <1>2 DEF OneAtATime

LEMMA OneIsCounted ==
    ASSUME NEW b, NEW kinds, NEW busy \in BOOLEAN, OneAtATime(b, kinds, busy)
    PROVE  Cardinality(Pending(b, kinds)) = IF busy THEN 1 ELSE 0
BY FS_EmptySet, FS_Singleton DEF OneAtATime

\* A record with these fields, whatever they hold.
Has(u, fields) == u = [f \in fields |-> u[f]]

----------------------------------------------------------------------------
(* The pages: one of them is mounted, and stays.                            *)

LEMMA TabStays == ASSUME [Next]_vars PROVE tab' = tab
BY DEF Next, vars

\* Two sets whose members correspond one to one have as many.
LEMMA OneEach ==
    ASSUME NEW S, IsFiniteSet(S), NEW T, NEW f \in [S -> T],
           \A x, y \in S : f[x] = f[y] => x = y,
           \A t \in T : \E x \in S : f[x] = t
    PROVE  IsFiniteSet(T) /\ Cardinality(T) = Cardinality(S)
<1>1. f \in Bijection(S, T)
  BY DEF Bijection, Injection, Surjection, IsInjective
<1>2. ExistsBijection(S, T)
  BY <1>1 DEF ExistsBijection
<1> QED
  BY <1>2, FS_Bijection

----------------------------------------------------------------------------
(* The users' page.  AccountsProofs proves what its steps keep; its Next is *)
(* the one of the page that WebPages mounts.                                *)

P == INSTANCE AccountsProofs WITH MaxCalls <- Few

LEMMA FewAssumption == Few \in Nat \ {0}
BY DEF Few

LEMMA SameUser == Account!User <=> P!User
  BY DEF Account!User, P!User, Account!Retry, P!Retry, Account!OpenAdd, P!OpenAdd,
     Account!CancelAdd, P!CancelAdd, Account!Login, P!Login, Account!handleCreate,
     P!handleCreate, Account!handleToggleEnabled, P!handleToggleEnabled, Account!handleChangeRole,
     P!handleChangeRole, Account!handleResetPassword, P!handleResetPassword, Account!handleDelete,
     P!handleDelete, Account!Row, P!Row, Account!Listed, P!Listed, Account!Asks, P!Asks,
     Account!Sends, P!Sends, Account!Free, P!Free, Account!Busy, P!Busy, Account!Request, P!Request,
     Account!Slots, P!Slots, Account!Overlaps, P!Overlaps

LEMMA SameServe == ASSUME NEW i PROVE Account!Serve(i) <=> P!Serve(i)
  BY DEF Account!Serve, P!Serve, Account!Check, P!Check, Account!Refuse, P!Refuse,
     Account!ReadCM, P!ReadCM, Account!ReadSecret, P!ReadSecret, Account!WriteCM, P!WriteCM,
     Account!WriteSecret, P!WriteSecret, Account!CallFails, P!CallFails, Account!Answer, P!Answer,
     Account!LoadCM, P!LoadCM, Account!Swap, P!Swap, Account!LoadFails, P!LoadFails,
     Account!At, P!At, Account!To, P!To, Account!Begin, P!Begin, Account!AfterCM, P!AfterCM,
     Account!Accepted, P!Accepted, Account!Written, P!Written, Account!Idle, P!Idle,
     Account!Request, P!Request, Account!Slots, P!Slots, Account!Busy, P!Busy,
     Account!LoadSecret, P!LoadSecret

LEMMA SameDeliver == Account!Deliver <=> P!Deliver
  BY DEF Account!Deliver, P!Deliver, Account!Answers, P!Answers, Account!ShowUsers, P!ShowUsers,
     Account!ShowError, P!ShowError, Account!Idle, P!Idle, Account!Request, P!Request,
     Account!Slots, P!Slots, Account!Spinners, P!Spinners

LEMMA SameInit == Account!Init <=> P!Init
  BY DEF Account!Init, P!Init, Account!Slots, P!Slots, Account!Request, P!Request,
     Account!Idle, P!Idle

LEMMA UsersInit ==
    ASSUME Init, tab = "users"
    PROVE  P!Safe /\ P!Together
<1>1. P!Init
  BY SameInit DEF Init
<1> QED
  BY <1>1, FewAssumption, P!InitSafe, P!InitTogether

\* A step of the composition is one of the page, or stutters there.
LEMMA UsersStep ==
    ASSUME [Next]_vars, tab = "users"
    PROVE  [P!Next]_P!vars
<1>1. CASE Account!Next
  <2>1. CASE Account!User
    BY <2>1, SameUser DEF P!Next
  <2>2. CASE \E i \in Account!Slots : Account!Serve(i)
    BY <2>2, SameServe DEF P!Next, Account!Slots, P!Slots
  <2>3. CASE Account!Deliver
    BY <2>3, SameDeliver DEF P!Next
  <2> QED
    BY <1>1, <2>1, <2>2, <2>3 DEF Account!Next
<1>2. CASE UNCHANGED vars
  BY <1>2 DEF vars, P!vars
<1> QED
  BY <1>1, <1>2 DEF Next, Step

\* What the proofs about the users' page keep, while it is the page.
UsersInv == tab = "users" => P!Safe /\ P!Together

LEMMA UsersKeep == ASSUME UsersInv, [Next]_vars PROVE UsersInv'
<1> SUFFICES ASSUME tab' = "users" PROVE P!Safe' /\ P!Together'
  BY DEF UsersInv
<1>1. tab = "users" /\ P!Safe /\ P!Together
  BY TabStays DEF UsersInv
<1>2. [P!Next]_P!vars
  BY <1>1, UsersStep
<1> QED
  BY <1>1, <1>2, FewAssumption, P!NextSafe, P!NextTogether

(* Whatever page is mounted: no account and no password is lost but by its  *)
(* own deletion, however many requests write the two objects back at once   *)
(* (store.go).                                                              *)
THEOREM NothingIsTakenAway == Spec => OnlyDeleteRemoves
<1>1. Init => UsersInv
  BY UsersInit DEF UsersInv
<1>2. UsersInv /\ [Next]_vars => UsersInv'
  BY UsersKeep
<1>3. UsersInv /\ [Next]_vars => [tab = "users" => Account!OnlyDeleteRemoves]_vars
  <2> SUFFICES ASSUME UsersInv, [Next]_vars, tab = "users" PROVE Account!OnlyDeleteRemoves
    OBVIOUS
  <2>1. P!OnlyDeleteRemoves
    BY UsersStep, FewAssumption, P!SafeStep DEF UsersInv
  <2> QED
    BY <2>1 DEF Account!OnlyDeleteRemoves, P!OnlyDeleteRemoves, Account!Slots, P!Slots
<1> QED
  BY <1>1, <1>2, <1>3, PTL DEF Spec, OnlyDeleteRemoves

(* The copies in memory, from which the users are listed and checked, are   *)
(* what is stored whenever nothing is under way, also after requests about  *)
(* different users that overlapped; not after a call that failed or an      *)
(* overlap on one user, until a login has loaded everything alone           *)
(* (store.go).                                                              *)
THEOREM CopiesStayStored == Spec => []CopiesAreStored
<1>1. Init => UsersInv
  BY UsersInit DEF UsersInv
<1>2. UsersInv /\ [Next]_vars => UsersInv'
  BY UsersKeep
<1>3. UsersInv => CopiesAreStored
  <2> SUFFICES ASSUME UsersInv, tab = "users" PROVE Account!CopiesAreStored
    BY DEF CopiesAreStored
  <2>1. P!CopiesAreStored
    BY FewAssumption, P!TogetherMeans DEF UsersInv
  <2> QED
    BY <2>1 DEF P!CopiesAreStored, Account!CopiesAreStored, Account!Busy, P!Busy,
       Account!Slots, P!Slots
<1> QED
  BY <1>1, <1>2, <1>3, PTL DEF Spec

----------------------------------------------------------------------------
(* The dashboard, the list of clusters and the version matrix.              *)
(* FleetPagesProofs proves what their steps keep; the composition mounts    *)
(* the same pages.                                                          *)

F == INSTANCE FleetPagesProofs

LEMMA FleetIsOK == F!FleetOK
<1>1. F!IsFiniteSet(Clusters) /\ F!IsFiniteSet(Addons)
  BY AddonsAssumption DEF F!IsFiniteSet, IsFiniteSet
<1>2. Absent \notin F!Words
  BY AbsentAssumption DEF F!Words
<1>3. \A w \in FleetWorlds : F!World(w)
  BY WorldsAssumption DEF F!World, F!States
<1> QED
  BY <1>1, <1>2, <1>3 DEF F!FleetOK

LEMMA FleetCounts == \A S : Fleet!Cardinality(S) = F!Cardinality(S)
BY DEF Fleet!Cardinality, F!Cardinality

LEMMA FleetNumbers ==
    /\ \A w, up : Fleet!ListClusters(w, up) = F!ListClusters(w, up)
    /\ \A w : Fleet!VersionMatrix(w) = F!VersionMatrix(w)
    /\ \A w, up : Fleet!DashboardStats(w, up) = F!DashboardStats(w, up)
    /\ \A w : Fleet!AttentionItems(w) = F!AttentionItems(w)
    /\ \A rows : Fleet!VersionDrifts(rows) = F!VersionDrifts(rows)
    /\ Fleet!HealthStats({}, {}) = F!HealthStats({}, {})
<1>1. \A rows, others : Fleet!HealthStats(rows, others) = F!HealthStats(rows, others)
  BY FleetCounts DEF Fleet!HealthStats, F!HealthStats
<1>2. \A w : Fleet!NotInGit(w) = F!NotInGit(w)
  BY DEF Fleet!NotInGit, F!NotInGit
<1>3. \A c, s : Fleet!ClusterRow(c, s) = F!ClusterRow(c, s)
  BY DEF Fleet!ClusterRow, F!ClusterRow
<1>4. \A w, up : Fleet!ListClusters(w, up) = F!ListClusters(w, up)
  <2> SUFFICES ASSUME NEW w, NEW up PROVE Fleet!ListClusters(w, up) = F!ListClusters(w, up)
    OBVIOUS
  <2>1. Fleet!NotInGit(w) = F!NotInGit(w)
    BY <1>2
  <2> QED
    BY <1>1, <1>3, <2>1, Zenon DEF Fleet!ListClusters, F!ListClusters
<1>5. \A w : Fleet!VersionMatrix(w) = F!VersionMatrix(w)
  BY DEF Fleet!VersionMatrix, F!VersionMatrix, Fleet!MatrixRow, F!MatrixRow
<1>6. \A w, up : Fleet!DashboardStats(w, up) = F!DashboardStats(w, up)
  BY FleetCounts DEF Fleet!DashboardStats, F!DashboardStats, Fleet!EnabledOn, F!EnabledOn
<1>7. \A w : Fleet!AttentionItems(w) = F!AttentionItems(w)
  BY DEF Fleet!AttentionItems, F!AttentionItems
<1>8. \A rows : Fleet!VersionDrifts(rows) = F!VersionDrifts(rows)
  BY FleetCounts DEF Fleet!VersionDrifts, F!VersionDrifts, Fleet!DriftCount, F!DriftCount
<1> QED
  BY <1>1, <1>4, <1>5, <1>6, <1>7, <1>8

LEMMA FleetCalls ==
    /\ Fleet!NoCalls = F!NoCalls
    /\ \A b, kind, arg : Fleet!Send(b, kind, arg) = F!Send(b, kind, arg)
    /\ \A b, c : Fleet!Settled(b, c) = F!Settled(b, c)
    /\ \A b, kind : Fleet!Sent(b, kind) = F!Sent(b, kind)
BY DEF Fleet!NoCalls, F!NoCalls, Fleet!EmptyBag, F!EmptyBag, Fleet!SetToBag, F!SetToBag,
   Fleet!Send, F!Send, Fleet!Call, F!Call, Fleet!Settled, F!Settled, Fleet!InFlight, F!InFlight,
   Fleet!Sent, F!Sent, Fleet!BagToSet, F!BagToSet, Fleet!(+), F!(+), Fleet!(-), F!(-)

LEMMA FleetMounts ==
    \A page, link : Fleet!Mounted(page, link) = F!Mounted(page, link)
BY FleetNumbers DEF Fleet!Mounted, F!Mounted, Fleet!NoStats, F!NoStats, Fleet!NoFilters,
   F!NoFilters

LEMMA SameFleetInit == Fleet!Init <=> F!Init
BY FleetCalls, FleetMounts DEF Fleet!Init, F!Init, Fleet!NoLink, F!NoLink

LEMMA FleetOpens == \A page, link : Fleet!Open(page, link) <=> F!Open(page, link)
BY FleetCalls, FleetMounts DEF Fleet!Open, F!Open

LEMMA SameFleetUser == Fleet!User <=> F!User
<1>1. (\E page \in Fleet!Pages : Fleet!Navigate(page)) <=> (\E page \in F!Pages : F!Navigate(page))
  BY FleetOpens DEF Fleet!Pages, F!Pages, Fleet!Navigate, F!Navigate, Fleet!NoLink, F!NoLink
<1>2. Fleet!FollowDisconnected <=> F!FollowDisconnected
  BY FleetOpens DEF Fleet!FollowDisconnected, F!FollowDisconnected, Fleet!Showing, F!Showing,
     Fleet!DisconnectedLink, F!DisconnectedLink
<1>3. Fleet!FollowDrift <=> F!FollowDrift
  BY FleetOpens, FleetCounts DEF Fleet!FollowDrift, F!FollowDrift, Fleet!Showing, F!Showing,
     Fleet!DriftLink, F!DriftLink, Fleet!HasIssues, F!HasIssues
<1>4. Fleet!Retry <=> F!Retry
  BY FleetCalls DEF Fleet!Retry, F!Retry
<1>5. Fleet!ClusterCards = F!ClusterCards /\ Fleet!AvailableConnectionTypes = F!AvailableConnectionTypes
  BY DEF Fleet!ClusterCards, F!ClusterCards, Fleet!AvailableConnectionTypes,
     F!AvailableConnectionTypes
<1>6. /\ \A page, u : Fleet!Change(page, u) <=> F!Change(page, u)
      /\ Fleet!NoFilters = F!NoFilters
  BY DEF Fleet!Change, F!Change, Fleet!Showing, F!Showing, Fleet!NoFilters, F!NoFilters
<1>7. /\ \A card : Fleet!SelectCard(card) <=> F!SelectCard(card)
      /\ \A c : Fleet!TypeName(c) <=> F!TypeName(c)
      /\ \A t : Fleet!ToggleConnectionType(t) <=> F!ToggleConnectionType(t)
      /\ Fleet!ClearFilters <=> F!ClearFilters
      /\ \A a : Fleet!SearchAddon(a) <=> F!SearchAddon(a)
      /\ Fleet!TickDriftOnly <=> F!TickDriftOnly
      /\ \A row : Fleet!ToggleRow(row) <=> F!ToggleRow(row)
  BY <1>5, <1>6 DEF Fleet!SelectCard, F!SelectCard, Fleet!TypeName, F!TypeName,
     Fleet!ToggleConnectionType, F!ToggleConnectionType, Fleet!ClearFilters, F!ClearFilters,
     Fleet!SearchAddon, F!SearchAddon, Fleet!TickDriftOnly, F!TickDriftOnly,
     Fleet!ToggleRow, F!ToggleRow
<1>8. Fleet!FilteredRows = F!FilteredRows
  BY FleetCounts DEF Fleet!FilteredRows, F!FilteredRows, Fleet!DriftCount, F!DriftCount
<1> QED
  BY <1>1, <1>2, <1>3, <1>4, <1>5, <1>7, <1>8 DEF Fleet!User, F!User

LEMMA SameFleetAnswers == Fleet!Deliver <=> F!Deliver
<1>1. \A c, u : Fleet!Loaded(c, u) <=> F!Loaded(c, u)
  BY FleetCalls DEF Fleet!Loaded, F!Loaded
<1>2. \A c, up, matrixUp, attentionUp :
          Fleet!ShowDashboard(c, up, matrixUp, attentionUp)
             <=> F!ShowDashboard(c, up, matrixUp, attentionUp)
  BY <1>1, FleetNumbers DEF Fleet!ShowDashboard, F!ShowDashboard
<1>3. \A c, up : Fleet!ShowClusters(c, up) <=> F!ShowClusters(c, up)
  BY <1>1, FleetNumbers DEF Fleet!ShowClusters, F!ShowClusters
<1>4. \A c : /\ Fleet!ShowMatrix(c) <=> F!ShowMatrix(c)
             /\ Fleet!ShowError(c) <=> F!ShowError(c)
  BY <1>1, FleetNumbers DEF Fleet!ShowMatrix, F!ShowMatrix, Fleet!ShowError, F!ShowError
<1>5. Fleet!Pages = F!Pages /\ Fleet!Spinners = F!Spinners
  BY DEF Fleet!Pages, F!Pages, Fleet!Spinners, F!Spinners
<1>6. \A s : Fleet!Answers(s) <=> F!Answers(s)
  BY <1>2, <1>3, <1>4, <1>5, FleetCalls DEF Fleet!Answers, F!Answers
<1> QED
  BY <1>5, <1>6 DEF Fleet!Deliver, F!Deliver

FleetKept == tab = "fleet" => F!FleetInv

LEMMA FleetKeeps == ASSUME FleetKept, [Next]_vars PROVE FleetKept'
<1> SUFFICES ASSUME tab' = "fleet" PROVE F!FleetInv'
  BY DEF FleetKept
<1>1. tab = "fleet" /\ F!FleetInv
  BY TabStays DEF FleetKept
<1>2. [F!Next]_F!vars
  <2>1. CASE Fleet!Next
    BY <2>1, SameFleetUser, SameFleetAnswers DEF Fleet!Next, F!Next
  <2>2. CASE UNCHANGED vars
    BY <2>2 DEF vars, F!vars
  <2> QED
    BY <1>1, <2>1, <2>2 DEF Next, Step
<1> QED
  BY <1>1, <1>2, MaxCallsAssumption, FleetIsOK, F!NextFleet

LEMMA FleetStaysRight == Spec => []FleetKept
<1>1. Init => FleetKept
  BY SameFleetInit, MaxCallsAssumption, FleetIsOK, F!InitFleet DEF Init, FleetKept
<1> QED
  BY <1>1, FleetKeeps, PTL DEF Spec

(* On the page of clusters a stat card counts the rows that it selects,     *)
(* whether ArgoCD answered or not: the server counts (cluster.go) and the   *)
(* page selects (ClustersOverview.tsx).                                     *)
THEOREM CardsCountTheirRows == Spec => []CardsMatchRows
<1>1. FleetKept => CardsMatchRows
  <2> SUFFICES ASSUME F!FleetInv PROVE Fleet!CardsMatchRows
    BY DEF FleetKept, CardsMatchRows
  <2>1. F!CardsMatchRows
    BY MaxCallsAssumption, FleetIsOK, F!FleetCards
  <2>2. \A card : Fleet!CardValue(card) = F!CardValue(card)
    BY DEF Fleet!CardValue, F!CardValue
  <2>3. \A card : Fleet!FilteredClusters(card, Fleet!NoFilters) = F!FilteredClusters(card, F!NoFilters)
    BY DEF Fleet!FilteredClusters, F!FilteredClusters, Fleet!PassesCard, F!PassesCard,
       Fleet!PassesFilters, F!PassesFilters, Fleet!NoFilters, F!NoFilters
  <2> QED
    BY <2>1, <2>2, <2>3, FleetCounts DEF Fleet!CardsMatchRows, F!CardsMatchRows, Fleet!Showing,
       F!Showing, Fleet!ClusterCards, F!ClusterCards
<1> QED
  BY <1>1, FleetStaysRight, PTL

(* The drifts that the dashboard's link counts (Dashboard.tsx) are as many  *)
(* as the rows of the version matrix that its filter on drift leaves        *)
(* (VersionMatrix.tsx).                                                     *)
THEOREM DriftsOnTheLink == Spec => []DriftCountsAgree
<1>1. FleetKept => DriftCountsAgree
  <2> SUFFICES ASSUME F!FleetInv PROVE Fleet!DriftCountsAgree
    BY DEF FleetKept, DriftCountsAgree
  <2>1. F!DriftCountsAgree
    BY MaxCallsAssumption, FleetIsOK, F!FleetDrifts
  <2>2. Fleet!FilteredRows = F!FilteredRows
    BY FleetCounts DEF Fleet!FilteredRows, F!FilteredRows, Fleet!DriftCount, F!DriftCount
  <2> QED
    BY <2>1, <2>2, FleetCounts DEF Fleet!DriftCountsAgree, F!DriftCountsAgree, Fleet!Showing,
       F!Showing
<1> QED
  BY <1>1, FleetStaysRight, PTL

----------------------------------------------------------------------------
(* The page of one cluster: its stat cards and its rows.                    *)

LEMMA ClusterCounts == \A S : Cluster!Cardinality(S) = Cardinality(S)
BY DEF Cluster!Cardinality, Cardinality

\* The addons that have a row, and what the row says.
Listed == srv.git \cup ((Cluster!Deployed \ srv.git) \ srv.infra)

StatusOf(a) == IF a \notin srv.git THEN "untracked_in_argocd"
               ELSE IF a \in Cluster!Deployed THEN Cluster!Classify(srv.app[a])
               ELSE "missing_in_argocd"

\* Those whose row a card selects.
Selected(f) == {a \in Listed : Cluster!Passes(f, StatusOf(a))}

LEMMA RowsAre ==
    Cluster!Rows = {[addon |-> a, status |-> StatusOf(a)] : a \in Listed}
BY DEF Cluster!Rows, Listed, StatusOf

LEMMA ListedFinite ==
    ASSUME srv \in DetailWorlds
    PROVE  /\ IsFiniteSet(Listed)
           /\ \A f : IsFiniteSet(Selected(f)) /\ Cardinality(Selected(f)) \in Nat
<1>1. Listed \subseteq Addons
  BY WorldsAssumption DEF Listed, Cluster!Deployed
<1>2. IsFiniteSet(Listed)
  BY <1>1, AddonsAssumption, FS_Subset
<1>3. \A f : IsFiniteSet(Selected(f))
  BY <1>2, FS_Subset DEF Selected
<1> QED
  BY <1>2, <1>3, FS_CardinalityType

\* A card selects as many rows as addons.
LEMMA RowsSelected ==
    ASSUME srv \in DetailWorlds, ui.data.rows = Cluster!Rows, NEW f
    PROVE  Cardinality(Cluster!FilteredAddons(f)) = Cardinality(Selected(f))
<1> DEFINE g == [a \in Selected(f) |-> [addon |-> a, status |-> StatusOf(a)]]
<1>1. Cluster!FilteredAddons(f) = {[addon |-> a, status |-> StatusOf(a)] : a \in Selected(f)}
  BY RowsAre DEF Cluster!FilteredAddons, Selected
<1>2. /\ g \in [Selected(f) -> Cluster!FilteredAddons(f)]
      /\ \A x, y \in Selected(f) : g[x] = g[y] => x = y
      /\ \A r \in Cluster!FilteredAddons(f) : \E x \in Selected(f) : g[x] = r
  BY <1>1
<1> HIDE DEF g
<1> QED
  BY <1>2, OneEach, ListedFinite

\* The server counts the same addons.
LEMMA ServerSelects ==
    /\ Cluster!Totals.healthy = Cardinality(Selected("healthy"))
    /\ Cluster!Totals.with_issues = Cardinality(Selected("with_issues"))
    /\ Cluster!Totals.missing_in_argocd = Cardinality(Selected("missing_in_argocd"))
    /\ Cluster!Totals.untracked = Cardinality(Selected("untracked"))
    /\ Cluster!Totals.disabled_in_git = Cardinality(Selected("disabled_in_git"))
<1> DEFINE found == srv.git \cap Cluster!Deployed
           well == {a \in found : Cluster!Classify(srv.app[a]) = "healthy"}
<1>1. Selected("healthy") = well
  BY DEF Selected, Listed, StatusOf, Cluster!Passes
<1>2. Selected("with_issues") = found \ well
  BY DEF Selected, Listed, StatusOf, Cluster!Passes, Cluster!Classify
<1>3. Selected("missing_in_argocd") = srv.git \ Cluster!Deployed
  BY DEF Selected, Listed, StatusOf, Cluster!Passes, Cluster!Classify
<1>4. Selected("untracked") = (Cluster!Deployed \ srv.git) \ srv.infra
  BY DEF Selected, Listed, StatusOf, Cluster!Passes, Cluster!Classify
<1>5. Selected("disabled_in_git") = {}
  BY DEF Selected, Listed, StatusOf, Cluster!Passes, Cluster!Classify
<1>6. Cluster!Totals = [healthy           |-> Cardinality(well),
                        with_issues       |-> Cardinality(found \ well),
                        missing_in_argocd |-> Cardinality(srv.git \ Cluster!Deployed),
                        untracked |-> Cardinality((Cluster!Deployed \ srv.git) \ srv.infra),
                        disabled_in_git   |-> 0]
  BY ClusterCounts DEF Cluster!Totals
<1> HIDE DEF well, found
<1> QED
  BY <1>1, <1>2, <1>3, <1>4, <1>5, <1>6, FS_EmptySet

LEMMA TwoParts ==
    ASSUME NEW S, NEW T, IsFiniteSet(S), IsFiniteSet(T), S \cap T = {}
    PROVE  IsFiniteSet(S \cup T) /\ Cardinality(S \cup T) = Cardinality(S) + Cardinality(T)
<1>1. /\ IsFiniteSet(S \cup T)
      /\ Cardinality(S \cup T) = Cardinality(S) + Cardinality(T) - Cardinality(S \cap T)
  BY FS_Union
<1>2. Cardinality(S \cap T) = 0 /\ Cardinality(S) \in Nat /\ Cardinality(T) \in Nat
  BY FS_EmptySet, FS_CardinalityType
<1> QED
  BY <1>1, <1>2

\* Every row is in one of the five categories.
LEMMA AllSelected ==
    ASSUME srv \in DetailWorlds
    PROVE  Cardinality(Selected("all")) =
              Cardinality(Selected("healthy")) + Cardinality(Selected("with_issues"))
                 + Cardinality(Selected("missing_in_argocd")) + Cardinality(Selected("untracked"))
                 + Cardinality(Selected("disabled_in_git"))
<1> DEFINE A == Selected("healthy")
           B == Selected("with_issues")
           C == Selected("missing_in_argocd")
           D == Selected("untracked")
           E == Selected("disabled_in_git")
<1>1. Selected("all") = A \cup (B \cup (C \cup (D \cup E)))
  <2> DEFINE Words == {"healthy", "progressing", "unhealthy", "unknown_health", "unknown_state",
                       "missing_in_argocd", "untracked_in_argocd"}
  <2>1. \A a : StatusOf(a) \in Words
    BY DEF StatusOf, Cluster!Classify
  <2>2. \A w \in Words : \/ Cluster!Passes("healthy", w) \/ Cluster!Passes("with_issues", w)
                         \/ Cluster!Passes("missing_in_argocd", w)
                         \/ Cluster!Passes("untracked", w)
    BY DEF Cluster!Passes
  <2>3. \A w : Cluster!Passes("all", w)
    BY DEF Cluster!Passes
  <2> HIDE DEF Words
  <2> QED
    BY <2>1, <2>2, <2>3 DEF Selected
<1>2. /\ A \cap (B \cup (C \cup (D \cup E))) = {}
      /\ B \cap (C \cup (D \cup E)) = {}
      /\ C \cap (D \cup E) = {}
      /\ D \cap E = {}
  BY DEF Selected, Cluster!Passes
<1>3. /\ IsFiniteSet(A) /\ IsFiniteSet(B) /\ IsFiniteSet(C) /\ IsFiniteSet(D) /\ IsFiniteSet(E)
      /\ Cardinality(A) \in Nat /\ Cardinality(B) \in Nat /\ Cardinality(C) \in Nat
      /\ Cardinality(D) \in Nat /\ Cardinality(E) \in Nat
  BY ListedFinite
<1> HIDE DEF A, B, C, D, E
<1>4. /\ IsFiniteSet(D \cup E) /\ Cardinality(D \cup E) = Cardinality(D) + Cardinality(E)
  BY <1>2, <1>3, TwoParts
<1>5. /\ IsFiniteSet(C \cup (D \cup E))
      /\ Cardinality(C \cup (D \cup E)) = Cardinality(C) + Cardinality(D \cup E)
  BY <1>2, <1>3, <1>4, TwoParts
<1>6. /\ IsFiniteSet(B \cup (C \cup (D \cup E)))
      /\ Cardinality(B \cup (C \cup (D \cup E))) = Cardinality(B) + Cardinality(C \cup (D \cup E))
  BY <1>2, <1>3, <1>5, TwoParts
<1>7. Cardinality(Selected("all")) = Cardinality(A) + Cardinality(B \cup (C \cup (D \cup E)))
  BY <1>1, <1>2, <1>3, <1>6, TwoParts
<1> QED
  BY <1>3, <1>4, <1>5, <1>6, <1>7 DEF A, B, C, D, E

LEMMA CardsCount ==
    ASSUME srv \in DetailWorlds, ui.data.rows = Cluster!Rows, ui.data.totals = Cluster!Totals,
           NEW f \in Cluster!StatusFilters
    PROVE  Cluster!CardValue(f) = Cardinality(Cluster!FilteredAddons(f))
<1>1. Cardinality(Cluster!FilteredAddons(f)) = Cardinality(Selected(f))
  BY RowsSelected
<1>2. CASE f = "all"
  BY <1>1, <1>2, AllSelected, ServerSelects DEF Cluster!CardValue
<1>3. CASE f # "all"
  <2>1. Cluster!CardValue(f) = Cluster!Totals[f]
    BY <1>3 DEF Cluster!CardValue
  <2>2. f \in {"healthy", "with_issues", "missing_in_argocd", "untracked", "disabled_in_git"}
    BY <1>3 DEF Cluster!StatusFilters, Cluster!Categories
  <2> QED
    BY <1>1, <2>1, <2>2, ServerSelects
<1> QED
  BY <1>2, <1>3

\* What is shown of whichever cluster is counted and listed from one world.
DetailFields == {"name", "data", "loading", "error", "filter", "tab", "diff", "diffLoading",
                 "diffError", "values", "due"}

DetailInv == /\ Has(ui, DetailFields)
             /\ srv \in DetailWorlds
             /\ ui.data.rows = Cluster!Rows
             /\ ui.data.totals = Cluster!Totals

LEMMA DetailSteps ==
    ASSUME DetailInv, UNCHANGED srv, Has(ui', DetailFields),
           ui'.data = ui.data \/ \E c : ui'.data = Cluster!Comparison(c)
    PROVE  DetailInv'
<1>1. UNCHANGED <<Cluster!Rows, Cluster!Totals>>
  BY DEF Cluster!Rows, Cluster!Totals, Cluster!Deployed
<1>2. ASSUME NEW c, ui'.data = Cluster!Comparison(c)
      PROVE  ui'.data.rows = Cluster!Rows /\ ui'.data.totals = Cluster!Totals
  BY <1>2 DEF Cluster!Comparison
<1> QED
  BY <1>1, <1>2 DEF DetailInv

LEMMA DetailNext == DetailInv /\ Cluster!Next => DetailInv'
<1> SUFFICES ASSUME DetailInv, Cluster!Next PROVE DetailInv'
  OBVIOUS
<1> USE DEF Has, DetailFields, Cluster!Show
<1>1. CASE Cluster!User
  <2>1. UNCHANGED srv /\ Has(ui', DetailFields) /\ ui'.data = ui.data
    BY <1>1 DEF Cluster!User, Cluster!GoTo, Cluster!Retry, Cluster!ToggleStatusFilter,
       Cluster!OpenTab, Cluster!Fetch, DetailInv
  <2> QED
    BY <2>1, DetailSteps
<1>2. CASE Cluster!LoadOverrides
  <2>1. UNCHANGED srv /\ Has(ui', DetailFields) /\ ui'.data = ui.data
    BY <1>2 DEF Cluster!LoadOverrides, Cluster!FetchDiff, DetailInv
  <2> QED
    BY <2>1, DetailSteps
<1>3. ASSUME NEW c, \/ Cluster!ShowError(c) \/ Cluster!ShowDiff(c) \/ Cluster!ShowDiffError(c)
                    \/ Cluster!ShowValues(c) \/ Cluster!NoValues(c)
      PROVE  DetailInv'
  <2>1. UNCHANGED srv /\ Has(ui', DetailFields) /\ ui'.data = ui.data
    BY <1>3 DEF Cluster!ShowError, Cluster!ShowDiff, Cluster!ShowDiffError, Cluster!ShowValues,
       Cluster!NoValues, DetailInv
  <2> QED
    BY <2>1, DetailSteps
<1>4. ASSUME NEW c, Cluster!ShowComparison(c) PROVE DetailInv'
  <2>1. UNCHANGED srv /\ Has(ui', DetailFields) /\ ui'.data = Cluster!Comparison(c.arg[1])
    BY <1>4 DEF Cluster!ShowComparison, DetailInv
  <2> QED
    BY <2>1, DetailSteps
<1> QED
  BY <1>1, <1>2, <1>3, <1>4 DEF Cluster!Next, Cluster!System, Cluster!Deliver, Cluster!Answers

DetailKept == tab = "cluster" => DetailInv

LEMMA DetailKeeps == ASSUME DetailKept, [Next]_vars PROVE DetailKept'
<1> SUFFICES ASSUME tab' = "cluster" PROVE DetailInv'
  BY DEF DetailKept
<1>1. tab = "cluster" /\ DetailInv
  BY TabStays DEF DetailKept
<1>2. CASE Cluster!Next
  BY <1>1, <1>2, DetailNext
<1>3. CASE UNCHANGED vars
  BY <1>1, <1>3, DetailSteps DEF vars, DetailInv
<1> QED
  BY <1>1, <1>2, <1>3 DEF Next, Step

(* Every stat card of a cluster's page counts the rows that it selects: the *)
(* server counts while it compares (cluster.go), the page selects by lists  *)
(* of statuses of its own (ClusterDetail.tsx).                              *)
THEOREM DetailCardsCount == Spec => []DetailCardsMatchRows
<1>1. Init => DetailKept
  <2> SUFFICES ASSUME Cluster!Init PROVE DetailInv
    BY DEF Init, DetailKept
  <2>1. Has(ui, DetailFields) /\ ui.data = Cluster!NoData /\ srv \in DetailWorlds
    BY DEF Cluster!Init, Cluster!Mounted, Has, DetailFields
  <2> QED
    BY <2>1 DEF DetailInv, Cluster!NoData, Cluster!Comparison
<1>2. DetailKept => DetailCardsMatchRows
  BY CardsCount, ClusterCounts
     DEF DetailKept, DetailInv, DetailCardsMatchRows, Cluster!DetailCardsMatchRows
<1> QED
  BY <1>1, <1>2, DetailKeeps, PTL DEF Spec

----------------------------------------------------------------------------
(* The upgrade checker.                                                     *)

LEMMA UpgradeCalls ==
    /\ Upgrade!NoCalls = NoCalls
    /\ \A b, kind, arg : Upgrade!Send(b, kind, arg) = Send(b, kind, arg)
    /\ \A b, c : Upgrade!Settled(b, c) = Settled(b, c)
    /\ \A b, kind : Upgrade!InFlight(b, kind) = InFlight(b, kind)
BY DEF Upgrade!NoCalls, NoCalls, Upgrade!EmptyBag, EmptyBag, Upgrade!SetToBag, SetToBag, Upgrade!Send, Send,
   Upgrade!Call, Call, Upgrade!Settled, Settled, Upgrade!InFlight, InFlight, Upgrade!BagToSet, BagToSet,
   Upgrade!(+), (+), Upgrade!(-), (-)

UpgradeTyped ==
    /\ ui = [loading |-> ui.loading, error |-> ui.error, ai |-> ui.ai, addon |-> ui.addon,
             versions |-> ui.versions, versionsLoading |-> ui.versionsLoading,
             version |-> ui.version, analyzing |-> ui.analyzing, result |-> ui.result,
             analyzed |-> ui.analyzed, summarizing |-> ui.summarizing, summary |-> ui.summary,
             summarized |-> ui.summarized]
    /\ ui.analyzing \in BOOLEAN /\ ui.summarizing \in BOOLEAN

\* An analysis on its way is the one that was asked last, as is one that is
\* shown; so is an opinion.
UpgradeInv ==
    /\ UpgradeTyped
    /\ OneAtATime(net, {"check"}, ui.analyzing)
    /\ OneAtATime(net, {"summary"}, ui.summarizing)
    /\ \A c \in InFlight(net, "check") : c.arg = ui.analyzed
    /\ \A c \in InFlight(net, "summary") : c.arg = ui.summarized
    /\ ui.result # Upgrade!NoAnswer => ui.result = ui.analyzed
    /\ ui.summary # Upgrade!NoAnswer => ui.summary = ui.summarized

LEMMA InitUpgrade == Upgrade!Init => UpgradeInv
<1> SUFFICES ASSUME Upgrade!Init PROVE UpgradeInv
  OBVIOUS
<1>1. UpgradeTyped
  BY DEF Upgrade!Init, UpgradeTyped
<1>2. BagToSet(net) = {Call("ai-status", <<>>), Call("addons", <<>>)}
  BY UpgradeCalls, SentCalls, NoCallsYet DEF Upgrade!Init
<1>3. \A c \in BagToSet(net) : c.kind \notin {"check", "summary"}
  BY <1>2 DEF Call
<1> QED
  BY <1>1, <1>3 DEF Upgrade!Init, UpgradeInv, OneAtATime, Pending, InFlight

\* What the page shows, and what it says it has asked for.
Asked == <<ui.analyzing, ui.analyzed, ui.summarizing, ui.summarized>>

\* The versions are asked for, or another one is chosen.
LEMMA ChoiceKeeps ==
    ASSUME UpgradeInv, UpgradeTyped', Asked' = Asked,
           net' = net \/ \E arg : net' = Send(net, "versions", arg),
           ui'.result \in {ui.result, Upgrade!NoAnswer}, ui'.summary = ui.summary
    PROVE  UpgradeInv'
<1>1. /\ OneAtATime(net', {"check"}, ui.analyzing)
      /\ OneAtATime(net', {"summary"}, ui.summarizing)
  BY AnotherIsSent DEF UpgradeInv, UpgradeTyped
<1>2. \A c \in BagToSet(net') : c \in BagToSet(net) \/ c.kind = "versions"
  BY SentCalls DEF Call
<1> QED
  BY <1>1, <1>2 DEF UpgradeInv, Asked, InFlight

LEMMA AnalyzeKeeps == UpgradeInv /\ Upgrade!Analyze => UpgradeInv'
<1> SUFFICES ASSUME UpgradeInv, Upgrade!Analyze PROVE UpgradeInv'
  OBVIOUS
<1> DEFINE asked == Upgrade!Upgrade(ui.addon, ui.version)
<1>1. net' = Send(net, "check", asked) /\ ~ui.analyzing
  BY UpgradeCalls DEF Upgrade!Analyze
<1>2. /\ UpgradeTyped' /\ ui'.analyzing = TRUE /\ ui'.analyzed = asked
      /\ ui'.result = Upgrade!NoAnswer /\ ui'.summary = Upgrade!NoAnswer
      /\ ui'.summarizing = ui.summarizing /\ ui'.summarized = ui.summarized
  BY DEF Upgrade!Analyze, UpgradeInv, UpgradeTyped
<1> HIDE DEF asked
<1>3. /\ OneAtATime(net', {"check"}, TRUE)
      /\ OneAtATime(net', {"summary"}, ui.summarizing)
  BY <1>1, OneIsSent, AnotherIsSent DEF UpgradeInv, UpgradeTyped
<1>4. \A c \in BagToSet(net') : c \in BagToSet(net) \/ c = Call("check", asked)
  BY <1>1, SentCalls
<1>5. InFlight(net, "check") = {}
  BY <1>1 DEF UpgradeInv, OneAtATime, Pending, InFlight
<1>6. /\ \A c \in InFlight(net', "check") : c.arg = asked
      /\ \A c \in InFlight(net', "summary") : c.arg = ui.summarized
  BY <1>4, <1>5 DEF UpgradeInv, InFlight, Call
<1> QED
  BY <1>2, <1>3, <1>6 DEF UpgradeInv

LEMMA AskAIKeeps == UpgradeInv /\ Upgrade!AskAI => UpgradeInv'
<1> SUFFICES ASSUME UpgradeInv, Upgrade!AskAI PROVE UpgradeInv'
  OBVIOUS
<1> DEFINE asked == Upgrade!Upgrade(ui.addon, ui.version)
<1>1. net' = Send(net, "summary", asked) /\ ~ui.summarizing
  BY UpgradeCalls DEF Upgrade!AskAI
<1>2. /\ UpgradeTyped' /\ ui'.summarizing = TRUE /\ ui'.summarized = asked
      /\ ui'.summary = Upgrade!NoAnswer /\ ui'.result = ui.result
      /\ ui'.analyzing = ui.analyzing /\ ui'.analyzed = ui.analyzed
  BY DEF Upgrade!AskAI, UpgradeInv, UpgradeTyped
<1> HIDE DEF asked
<1>3. /\ OneAtATime(net', {"summary"}, TRUE)
      /\ OneAtATime(net', {"check"}, ui.analyzing)
  BY <1>1, OneIsSent, AnotherIsSent DEF UpgradeInv, UpgradeTyped
<1>4. \A c \in BagToSet(net') : c \in BagToSet(net) \/ c = Call("summary", asked)
  BY <1>1, SentCalls
<1>5. InFlight(net, "summary") = {}
  BY <1>1 DEF UpgradeInv, OneAtATime, Pending, InFlight
<1>6. /\ \A c \in InFlight(net', "summary") : c.arg = asked
      /\ \A c \in InFlight(net', "check") : c.arg = ui.analyzed
  BY <1>4, <1>5 DEF UpgradeInv, InFlight, Call
<1> QED
  BY <1>2, <1>3, <1>6 DEF UpgradeInv

\* An answer to one of the other requests.
LEMMA OtherAnswerKeeps ==
    ASSUME UpgradeInv, UpgradeTyped', Asked' = Asked,
           NEW c \in BagToSet(net), c.kind \notin {"check", "summary"}, net' = Settled(net, c),
           ui'.result = ui.result, ui'.summary = ui.summary
    PROVE  UpgradeInv'
<1>1. /\ OneAtATime(net', {"check"}, ui.analyzing)
      /\ OneAtATime(net', {"summary"}, ui.summarizing)
  BY AnotherSettles DEF UpgradeInv, UpgradeTyped
<1> QED
  BY <1>1, SettledCalls DEF UpgradeInv, Asked, InFlight

LEMMA CheckAnswerKeeps ==
    ASSUME UpgradeInv, UpgradeTyped', NEW c \in InFlight(net, "check"), net' = Settled(net, c),
           ui'.analyzing = FALSE, ui'.result \in {ui.result, c.arg}, ui'.analyzed = ui.analyzed,
           ui'.summary = ui.summary, ui'.summarizing = ui.summarizing,
           ui'.summarized = ui.summarized
    PROVE  UpgradeInv'
<1>1. c \in BagToSet(net) /\ c.kind = "check"
  BY DEF InFlight
<1>2. /\ OneAtATime(net', {"check"}, FALSE)
      /\ OneAtATime(net', {"summary"}, ui.summarizing)
  BY <1>1, OneSettles, AnotherSettles DEF UpgradeInv, UpgradeTyped
<1> QED
  BY <1>2, SettledCalls DEF UpgradeInv, InFlight

LEMMA SummaryAnswerKeeps ==
    ASSUME UpgradeInv, UpgradeTyped', NEW c \in InFlight(net, "summary"), net' = Settled(net, c),
           ui'.summarizing = FALSE, ui'.summary \in {ui.summary, c.arg},
           ui'.summarized = ui.summarized,
           ui'.result = ui.result, ui'.analyzing = ui.analyzing, ui'.analyzed = ui.analyzed
    PROVE  UpgradeInv'
<1>1. c \in BagToSet(net) /\ c.kind = "summary"
  BY DEF InFlight
<1>2. /\ OneAtATime(net', {"summary"}, FALSE)
      /\ OneAtATime(net', {"check"}, ui.analyzing)
  BY <1>1, OneSettles, AnotherSettles DEF UpgradeInv, UpgradeTyped
<1> QED
  BY <1>2, SettledCalls DEF UpgradeInv, InFlight

LEMMA UpgradeNext == UpgradeInv /\ Upgrade!Next => UpgradeInv'
<1> SUFFICES ASSUME UpgradeInv, Upgrade!Next PROVE UpgradeInv'
  OBVIOUS
<1>1. ASSUME NEW a, Upgrade!SelectAddon(a) PROVE UpgradeInv'
  <2>1. /\ UpgradeTyped' /\ Asked' = Asked
        /\ net' = Send(net, "versions", <<a>>)
        /\ ui'.result = Upgrade!NoAnswer /\ ui'.summary = ui.summary
    BY <1>1, UpgradeCalls DEF Upgrade!SelectAddon, UpgradeInv, UpgradeTyped, Asked
  <2> QED
    BY <2>1, ChoiceKeeps
<1>2. ASSUME NEW v, Upgrade!SelectVersion(v) PROVE UpgradeInv'
  <2>1. /\ UpgradeTyped' /\ Asked' = Asked /\ net' = net
        /\ ui'.result = Upgrade!NoAnswer /\ ui'.summary = ui.summary
    BY <1>2 DEF Upgrade!SelectVersion, UpgradeInv, UpgradeTyped, Asked
  <2> QED
    BY <2>1, ChoiceKeeps
<1>3. ASSUME NEW c \in BagToSet(net), c.kind \notin {"check", "summary"},
             \/ Upgrade!ShowStatus(c) \/ Upgrade!NoStatus(c) \/ Upgrade!ShowAddons(c)
             \/ Upgrade!ShowError(c) \/ Upgrade!ShowVersions(c) \/ Upgrade!NoVersions(c)
      PROVE  UpgradeInv'
  <2>1. /\ UpgradeTyped' /\ Asked' = Asked /\ net' = Settled(net, c)
        /\ ui'.result = ui.result /\ ui'.summary = ui.summary
    BY <1>3, UpgradeCalls DEF Upgrade!ShowStatus, Upgrade!NoStatus, Upgrade!ShowAddons,
       Upgrade!ShowError, Upgrade!ShowVersions, Upgrade!NoVersions, Upgrade!Got, UpgradeInv,
       UpgradeTyped, Asked
  <2> QED
    BY <1>3, <2>1, OtherAnswerKeeps
<1>4. ASSUME NEW c \in InFlight(net, "check"), Upgrade!ShowResult(c) \/ Upgrade!NoResult(c)
      PROVE  UpgradeInv'
  <2>1. /\ UpgradeTyped' /\ net' = Settled(net, c)
        /\ ui'.analyzing = FALSE /\ ui'.result \in {ui.result, c.arg}
        /\ ui'.analyzed = ui.analyzed /\ ui'.summary = ui.summary
        /\ ui'.summarizing = ui.summarizing /\ ui'.summarized = ui.summarized
    BY <1>4, UpgradeCalls DEF Upgrade!ShowResult, Upgrade!NoResult, Upgrade!Got, UpgradeInv,
       UpgradeTyped
  <2> QED
    BY <2>1, CheckAnswerKeeps
<1>5. ASSUME NEW c \in InFlight(net, "summary"), Upgrade!ShowSummary(c) \/ Upgrade!NoSummary(c)
      PROVE  UpgradeInv'
  <2>1. /\ UpgradeTyped' /\ net' = Settled(net, c)
        /\ ui'.summarizing = FALSE /\ ui'.summary \in {ui.summary, c.arg}
        /\ ui'.summarized = ui.summarized /\ ui'.result = ui.result
        /\ ui'.analyzing = ui.analyzing /\ ui'.analyzed = ui.analyzed
    BY <1>5, UpgradeCalls DEF Upgrade!ShowSummary, Upgrade!NoSummary, Upgrade!Got, UpgradeInv,
       UpgradeTyped
  <2> QED
    BY <2>1, SummaryAnswerKeeps
<1>6. CASE Upgrade!User
  BY <1>1, <1>2, <1>6, AnalyzeKeeps, AskAIKeeps DEF Upgrade!User
<1>7. ASSUME NEW s, Upgrade!Answers(s) PROVE UpgradeInv'
  BY <1>3, <1>4, <1>7, UpgradeCalls DEF Upgrade!Answers, InFlight
<1>8. CASE \E c \in InFlight(net, "ai-status") : Upgrade!ShowStatus(c) \/ Upgrade!NoStatus(c)
  BY <1>3, <1>8 DEF InFlight
<1> QED
  BY <1>5, <1>6, <1>7, <1>8, UpgradeCalls DEF Upgrade!Next, Upgrade!Deliver

UpgradeKept == tab = "upgrade" => UpgradeInv

LEMMA UpgradeKeeps == ASSUME UpgradeKept, [Next]_vars PROVE UpgradeKept'
<1> SUFFICES ASSUME tab' = "upgrade" PROVE UpgradeInv'
  BY DEF UpgradeKept
<1>1. tab = "upgrade" /\ UpgradeInv
  BY TabStays DEF UpgradeKept
<1>2. CASE Upgrade!Next
  BY <1>1, <1>2, UpgradeNext
<1>3. CASE UNCHANGED vars
  BY <1>1, <1>3 DEF vars, UpgradeInv, UpgradeTyped
<1> QED
  BY <1>1, <1>2, <1>3 DEF Next, Step

(* What the upgrade checker shows is the answer to what was asked last, and *)
(* one answer is due at a time, whatever is chosen meanwhile                *)
(* (UpgradeChecker.tsx).                                                    *)
THEOREM LastAskedIsShown == Spec => []ShowsLastAsked
<1>1. Init => UpgradeKept
  BY InitUpgrade DEF Init, UpgradeKept
<1>2. UpgradeKept => ShowsLastAsked
  <2> SUFFICES ASSUME UpgradeInv PROVE Upgrade!ShowsLastAsked
    BY DEF UpgradeKept, ShowsLastAsked
  <2>1. /\ InFlight(net, "check") = Pending(net, {"check"})
        /\ InFlight(net, "summary") = Pending(net, {"summary"})
    BY DEF InFlight, Pending
  <2>2. /\ Cardinality(Pending(net, {"check"})) = IF ui.analyzing THEN 1 ELSE 0
        /\ Cardinality(Pending(net, {"summary"})) = IF ui.summarizing THEN 1 ELSE 0
    BY OneIsCounted DEF UpgradeInv, UpgradeTyped
  <2>3. \A S : Upgrade!Cardinality(S) = Cardinality(S)
    BY DEF Upgrade!Cardinality, Cardinality
  <2> QED
    BY <2>1, <2>2, <2>3, UpgradeCalls DEF UpgradeInv, Upgrade!ShowsLastAsked
<1> QED
  BY <1>1, <1>2, UpgradeKeeps, PTL DEF Spec

----------------------------------------------------------------------------
(* The assistant: its sessions, and the conversation of its panel.          *)

LEMMA AssistantCalls ==
    /\ Assistant!NoCalls = NoCalls
    /\ \A b, kind, arg : Assistant!Send(b, kind, arg) = Send(b, kind, arg)
    /\ \A b, c : Assistant!Settled(b, c) = Settled(b, c)
    /\ \A b, kind : Assistant!InFlight(b, kind) = InFlight(b, kind)
BY DEF Assistant!NoCalls, NoCalls, Assistant!EmptyBag, EmptyBag, Assistant!SetToBag, SetToBag, Assistant!Send, Send,
   Assistant!Call, Call, Assistant!Settled, Settled, Assistant!InFlight, InFlight, Assistant!BagToSet, BagToSet,
   Assistant!(+), (+), Assistant!(-), (-)

\* The call with its answer, which is the one that Answered puts in its place.
WithAnswer(c, ans) == [c EXCEPT !.st = "ok", !.ans = ans]

LEMMA AnsweredCalls ==
    ASSUME NEW b, NEW c, NEW ans
    PROVE  BagToSet(Answered(b, c, ans))
              = BagToSet(Settled(b, c)) \cup {WithAnswer(c, ans)}
BY DEF WithAnswer, Answered, Moved, BagToSet, SetToBag, (+)

\* A call that is handled is still the only one.
LEMMA OneIsAnswered ==
    ASSUME NEW b, NEW kinds, NEW busy \in BOOLEAN, OneAtATime(b, kinds, busy),
           NEW c \in BagToSet(b), c.kind \in kinds, NEW ans,
           WithAnswer(c, ans).kind = c.kind
    PROVE  busy /\ OneAtATime(Answered(b, c, ans), kinds, TRUE)
<1> DEFINE d == WithAnswer(c, ans)
<1>1. busy /\ OneAtATime(Settled(b, c), kinds, FALSE)
  BY OneSettles
<1> HIDE DEF d
<1>2. d.kind \in kinds /\ d \notin DOMAIN Settled(b, c)
  BY <1>1 DEF OneAtATime, Pending, BagToSet, d
<1>3. Pending(Answered(b, c, ans), kinds) = {d}
  <2>1. BagToSet(Answered(b, c, ans)) = BagToSet(Settled(b, c)) \cup {d}
    BY AnsweredCalls DEF d
  <2> QED
    BY <1>1, <1>2, <2>1 DEF OneAtATime, Pending
<1>4. Answered(b, c, ans)[d] = 1
  BY <1>2 DEF WithAnswer, Answered, Moved, SetToBag, (+), d
<1> QED
  BY <1>1, <1>3, <1>4 DEF OneAtATime

LEMMA AssistantAnswers ==
    \A b, c, ans : Assistant!Answered(b, c, ans) = Answered(b, c, ans)
BY DEF Assistant!Answered, Answered, Assistant!Moved, Moved, Assistant!Settled, Settled,
   Assistant!SetToBag, SetToBag, Assistant!(+), (+), Assistant!(-), (-)

\* The sessions: each user's once, and at most one over the cap.
SessionsOK(s) ==
    /\ s \in Seq(Nat)
    /\ Len(s) <= MaxSessions + 1
    /\ \A i, j \in 1..Len(s) : s[i] = s[j] => i = j \/ s[i] = 0

LEMMA Suffix ==
    ASSUME NEW s \in Seq(Nat), NEW m \in 1..(Len(s) + 1), SessionsOK(s)
    PROVE  /\ SubSeq(s, m, Len(s)) \in Seq(Nat)
           /\ Len(SubSeq(s, m, Len(s))) = Len(s) - m + 1
           /\ SessionsOK(SubSeq(s, m, Len(s)))
<1> DEFINE t == SubSeq(s, m, Len(s))
<1>1. t \in Seq(Nat) /\ Len(t) = Len(s) - m + 1
  OBVIOUS
<1>2. \A i \in 1..Len(t) : t[i] = s[m + i - 1] /\ m + i - 1 \in 1..Len(s)
  BY <1>1
<1> HIDE DEF t
<1>3. \A i, j \in 1..Len(t) : t[i] = t[j] => i = j \/ t[i] = 0
  <2> SUFFICES ASSUME NEW i \in 1..Len(t), NEW j \in 1..Len(t), t[i] = t[j], t[i] # 0
               PROVE  i = j
    OBVIOUS
  <2>1. m + i - 1 = m + j - 1
    BY <1>2 DEF SessionsOK
  <2> QED
    BY <2>1, <1>1
<1>4. Len(t) <= MaxSessions + 1
  BY <1>1, SessionsAssumption DEF SessionsOK
<1> QED
  BY <1>1, <1>3, <1>4 DEF SessionsOK, t

LEMMA Pruned ==
    ASSUME NEW s, SessionsOK(s), NEW k \in 0..Len(s)
    PROVE  SessionsOK(Assistant!Prune(s, k)) /\ Len(Assistant!Prune(s, k)) <= MaxSessions
<1> DEFINE kept == SubSeq(s, k + 1, Len(s))
           over == IF Len(kept) > MaxSessions THEN Len(kept) - MaxSessions ELSE 0
<1>1. SessionsOK(kept) /\ kept \in Seq(Nat)
  <2>1. s \in Seq(Nat) /\ k + 1 \in 1..(Len(s) + 1)
    BY DEF SessionsOK
  <2> QED
    BY <2>1, Suffix
<1> HIDE DEF kept
<1>2. over + 1 \in 1..(Len(kept) + 1)
  BY <1>1, SessionsAssumption
<1>3. /\ SessionsOK(SubSeq(kept, over + 1, Len(kept)))
      /\ Len(SubSeq(kept, over + 1, Len(kept))) = Len(kept) - (over + 1) + 1
  BY <1>1, <1>2, Suffix
<1>4. Len(kept) - (over + 1) + 1 <= MaxSessions
  BY <1>1, SessionsAssumption
<1> QED
  BY <1>3, <1>4 DEF Assistant!Prune, kept

LEMMA Chatted ==
    ASSUME NEW s, SessionsOK(s), Len(s) <= MaxSessions, NEW id \in Nat
    PROVE  SessionsOK(Assistant!Chat(id, s))
<1>1. CASE Assistant!Contains(s, id) /\ id # 0
  BY <1>1 DEF Assistant!Chat, Assistant!Other
<1>2. CASE ~(Assistant!Contains(s, id) /\ id # 0)
  <2>1. Assistant!Chat(id, s) = Append(s, id)
    BY <1>2 DEF Assistant!Chat, Assistant!Other
  <2>2. id = 0 \/ \A i \in 1..Len(s) : s[i] # id
    BY <1>2 DEF Assistant!Contains
  <2>3. /\ Append(s, id) \in Seq(Nat) /\ Len(Append(s, id)) = Len(s) + 1
        /\ Append(s, id)[Len(s) + 1] = id
        /\ \A i \in 1..Len(s) : Append(s, id)[i] = s[i]
    BY DEF SessionsOK
  <2>4. \A i, j \in 1..(Len(s) + 1) :
            Append(s, id)[i] = Append(s, id)[j] => i = j \/ Append(s, id)[i] = 0
    BY <2>2, <2>3 DEF SessionsOK
  <2> QED
    BY <2>1, <2>3, <2>4, SessionsAssumption DEF SessionsOK
<1> QED
  BY <1>1, <1>2

\* Messages: a question, its answer, and so on.
Message == {"user", "assistant"} \X Nat

Messages == Seq(Message)

Turns(m) == \A i \in DOMAIN m :
               IF i % 2 = 1 THEN m[i][1] = "user" ELSE m[i] = <<"assistant", m[i - 1][2]>>

LEMMA QuestionTurn ==
    ASSUME NEW m \in Messages, Turns(m), Len(m) % 2 = 0, NEW n \in Nat
    PROVE  /\ Append(m, <<"user", n>>) \in Messages /\ Turns(Append(m, <<"user", n>>))
           /\ Len(Append(m, <<"user", n>>)) % 2 = 1
           /\ Append(m, <<"user", n>>)[Len(Append(m, <<"user", n>>))] = <<"user", n>>
<1> DEFINE a == Append(m, <<"user", n>>)
<1>1. /\ a \in Messages /\ Len(a) = Len(m) + 1 /\ a[Len(m) + 1] = <<"user", n>>
      /\ \A i \in 1..Len(m) : a[i] = m[i]
  <2>1. <<"user", n>> \in Message
    BY DEF Message
  <2> QED
    BY <2>1 DEF Messages
<1>2. Len(m) \in Nat /\ (Len(m) + 1) % 2 = 1 /\ \A i \in 1..(Len(m) + 1) : DOMAIN m = 1..Len(m)
  BY DEF Messages
<1>3. <<"user", n>>[1] = "user"
  OBVIOUS
<1> HIDE DEF a
<1>4. ASSUME NEW i \in 1..Len(m)
      PROVE  IF i % 2 = 1 THEN a[i][1] = "user" ELSE a[i] = <<"assistant", a[i - 1][2]>>
  <2>1. CASE i % 2 = 1
    BY <2>1, <1>1, <1>2 DEF Turns
  <2>2. CASE i % 2 # 1
    <3>1. i # 1 /\ i - 1 \in 1..Len(m)
      BY <2>2, <1>2
    <3>2. i \in DOMAIN m /\ a[i] = m[i] /\ a[i - 1] = m[i - 1]
      BY <3>1, <1>1, <1>2
    <3>3. m[i] = <<"assistant", m[i - 1][2]>>
      BY <2>2, <3>2, Zenon DEF Turns
    <3> QED
      BY <2>2, <3>2, <3>3, Zenon
  <2> QED
    BY <2>1, <2>2
<1>5. DOMAIN a = 1..(Len(m) + 1)
  BY <1>1 DEF Messages
<1>6. Turns(a)
  <2> SUFFICES ASSUME NEW i \in 1..(Len(m) + 1)
               PROVE  IF i % 2 = 1 THEN a[i][1] = "user" ELSE a[i] = <<"assistant", a[i - 1][2]>>
    BY <1>5 DEF Turns
  <2>1. CASE i \in 1..Len(m)
    BY <2>1, <1>4
  <2>2. CASE i = Len(m) + 1
    BY <2>2, <1>1, <1>2, <1>3
  <2> QED
    BY <2>1, <2>2, <1>2
<1> QED
  BY <1>1, <1>2, <1>6 DEF a

LEMMA AnswerTurn ==
    ASSUME NEW m \in Messages, Turns(m), Len(m) % 2 = 1, NEW n \in Nat, m[Len(m)] = <<"user", n>>
    PROVE  /\ Append(m, <<"assistant", n>>) \in Messages /\ Turns(Append(m, <<"assistant", n>>))
           /\ Len(Append(m, <<"assistant", n>>)) % 2 = 0
<1> DEFINE a == Append(m, <<"assistant", n>>)
<1>1. /\ a \in Messages /\ Len(a) = Len(m) + 1 /\ a[Len(m) + 1] = <<"assistant", n>>
      /\ \A i \in 1..Len(m) : a[i] = m[i]
  <2>1. <<"assistant", n>> \in Message
    BY DEF Message
  <2> QED
    BY <2>1 DEF Messages
<1>2. /\ Len(m) \in Nat /\ (Len(m) + 1) % 2 = 0 /\ DOMAIN m = 1..Len(m) /\ Len(m) \in 1..Len(m)
  BY DEF Messages
<1>3. m[Len(m)][2] = n
  OBVIOUS
<1> HIDE DEF a
<1>4. ASSUME NEW i \in 1..Len(m)
      PROVE  IF i % 2 = 1 THEN a[i][1] = "user" ELSE a[i] = <<"assistant", a[i - 1][2]>>
  <2>1. CASE i % 2 = 1
    BY <2>1, <1>1, <1>2 DEF Turns
  <2>2. CASE i % 2 # 1
    <3>1. i # 1 /\ i - 1 \in 1..Len(m)
      BY <2>2, <1>2
    <3>2. i \in DOMAIN m /\ a[i] = m[i] /\ a[i - 1] = m[i - 1]
      BY <3>1, <1>1, <1>2
    <3>3. m[i] = <<"assistant", m[i - 1][2]>>
      BY <2>2, <3>2, Zenon DEF Turns
    <3> QED
      BY <2>2, <3>2, <3>3, Zenon
  <2> QED
    BY <2>1, <2>2
<1>5. DOMAIN a = 1..(Len(m) + 1)
  BY <1>1 DEF Messages
<1>6. Turns(a)
  <2> SUFFICES ASSUME NEW i \in 1..(Len(m) + 1)
               PROVE  IF i % 2 = 1 THEN a[i][1] = "user" ELSE a[i] = <<"assistant", a[i - 1][2]>>
    BY <1>5 DEF Turns
  <2>1. CASE i \in 1..Len(m)
    BY <2>1, <1>4
  <2>2. CASE i = Len(m) + 1
    <3>1. i - 1 = Len(m)
      BY <2>2, <1>2
    <3> QED
      BY <2>2, <3>1, <1>1, <1>2, <1>3
  <2> QED
    BY <2>1, <2>2, <1>2
<1> QED
  BY <1>1, <1>2, <1>6 DEF a

LEMMA Parity == \A n \in Nat : n % 2 \in {0, 1}
OBVIOUS

AsstFields == {"open", "path", "initial", "enabled", "messages", "loading", "session", "mixed", "next"}

PanelOK(u) == /\ Has(u, AsstFields)
              /\ u.open \in BOOLEAN /\ u.loading \in BOOLEAN /\ u.mixed \in BOOLEAN
              /\ u.messages \in Messages
              /\ u.session \in Nat /\ u.next \in Nat

\* A question that is under way is the last message; New is not at work then.
Chatting(u, b) ==
    /\ Turns(u.messages)
    /\ u.loading <=> Len(u.messages) % 2 = 1
    /\ OneAtATime(b, {"chat"}, u.loading)
    /\ \A c \in Pending(b, {"chat"}) : u.messages[Len(u.messages)] = <<"user", c.arg[2]>>
    /\ InFlight(b, "reset") # {} => ~u.loading

ServerOK(s) == /\ Has(s, {"sessions", "ids", "ai"})
               /\ s.ids \in Nat
               /\ SessionsOK(s.sessions)

\* Who chats, and what about; calls are records.
ChatOK(c) == /\ Has(c, {"kind", "arg", "st", "ans"})
             /\ c.kind = "chat" => c.arg[1] \in Nat /\ c.arg[2] \in Nat

AsstInv == /\ PanelOK(ui)
           /\ ServerOK(srv)
           /\ \A c \in BagToSet(net) : ChatOK(c)
           /\ ui.open /\ ~ui.mixed => Chatting(ui, net)

LEMMA InitAsst == Assistant!Init => AsstInv
<1> SUFFICES ASSUME Assistant!Init PROVE AsstInv
  OBVIOUS
<1>1. PanelOK(ui) /\ ~ui.open
  BY DEF Assistant!Init, Assistant!Other, PanelOK, Has, AsstFields, Messages
<1>2. srv.sessions = <<>> /\ srv.ids = 0 /\ Has(srv, {"sessions", "ids", "ai"})
  BY DEF Assistant!Init, Assistant!Other, Has
<1>3. ServerOK(srv)
  BY <1>2, SessionsAssumption DEF ServerOK, SessionsOK
<1>4. BagToSet(net) = {}
  BY AssistantCalls, NoCallsYet DEF Assistant!Init
<1> QED
  BY <1>1, <1>3, <1>4 DEF AsstInv

\* The conversation stays as it is, and so does what is under way of it.
LEMMA AsstSame ==
    ASSUME AsstInv, PanelOK(ui'), ServerOK(srv'),
           ui'.messages = ui.messages, ui'.loading = ui.loading,
           ui'.open = ui.open, ui'.mixed = ui.mixed,
           \/ net' = net
           \/ \E c \in BagToSet(net) : c.kind = "status" /\ net' = Settled(net, c)
    PROVE  AsstInv'
<1>1. BagToSet(net') \subseteq BagToSet(net)
  BY SettledCalls
<1>2. ui.open /\ ~ui.mixed => OneAtATime(net', {"chat"}, ui.loading)
  BY AnotherSettles DEF AsstInv, Chatting, PanelOK
<1>3. ui'.open /\ ~ui'.mixed => Chatting(ui', net')
  BY <1>1, <1>2 DEF AsstInv, Chatting, Pending, InFlight
<1> QED
  BY <1>1, <1>3 DEF AsstInv

LEMMA CallIs ==
    \A kind, arg : Call(kind, arg).kind = kind /\ Call(kind, arg).arg = arg
                      /\ Has(Call(kind, arg), {"kind", "arg", "st", "ans"})
BY DEF Call, Has

\* The panel opens: nothing is said yet.
LEMMA MountKeeps ==
    ASSUME AsstInv, NEW u, PanelOK(u), Assistant!Mount(u)
    PROVE  AsstInv'
<1>1. /\ ui' = Assistant!Mounted(u, srv.ids + 1)
      /\ srv' = [srv EXCEPT !.ids = @ + 1]
      /\ net' = Send(NoCalls, "status", <<>>)
  BY AssistantCalls DEF Assistant!Mount
<1>2. PanelOK(ui') /\ ui'.messages = <<>> /\ ~ui'.loading
  <2>1. <<>> \in Messages /\ srv.ids + 1 \in Nat
    BY DEF Messages, AsstInv, ServerOK
  <2> QED
    BY <1>1, <2>1 DEF Assistant!Mounted, PanelOK, Has, AsstFields
<1>3. ServerOK(srv')
  BY <1>1 DEF AsstInv, ServerOK, Has
<1>4. BagToSet(net') = {Call("status", <<>>)}
  BY <1>1, SentCalls, NoCallsYet
<1>5. \A c \in BagToSet(net') : c.kind = "status" /\ ChatOK(c)
  BY <1>4, CallIs DEF ChatOK
<1>6. Pending(net', {"chat"}) = {} /\ InFlight(net', "reset") = {}
  BY <1>5 DEF Pending, InFlight
<1>7. Chatting(ui', net')
  BY <1>2, <1>6 DEF Chatting, Turns, OneAtATime
<1> QED
  BY <1>2, <1>3, <1>5, <1>7 DEF AsstInv

\* A question, asked while nothing is awaited.
LEMMA AskKeeps ==
    ASSUME AsstInv, UNCHANGED srv, NEW u, PanelOK(u), NEW b, Assistant!Ask(u, b),
           u.open = ui.open, u.mixed = ui.mixed, u.messages = ui.messages,
           BagToSet(b) \subseteq BagToSet(net),
           ui.open /\ ~ui.mixed => ~ui.loading /\ OneAtATime(b, {"chat"}, FALSE)
    PROVE  AsstInv'
<1> DEFINE arg == <<u.session, u.next>>
<1>1. /\ net' = Send(b, "chat", arg)
      /\ arg[1] = u.session /\ arg[2] = u.next
      /\ u.next \in Nat /\ u.session \in Nat
  BY AssistantCalls DEF Assistant!Ask, PanelOK
<1>2. /\ Has(ui', AsstFields) /\ ui'.open = u.open /\ ui'.loading = TRUE
      /\ ui'.session = u.session /\ ui'.next = u.next + 1
      /\ ui'.messages = Append(u.messages, <<"user", u.next>>)
      /\ ui'.mixed = (u.mixed \/ InFlight(b, "reset") # {})
  BY AssistantCalls DEF Assistant!Ask, Assistant!Question, PanelOK, Has, AsstFields
<1> HIDE DEF arg
<1>3. PanelOK(ui')
  <2>1. <<"user", u.next>> \in Message
    BY <1>1 DEF Message
  <2>2. ui'.messages \in Messages
    BY <1>2, <2>1 DEF PanelOK, Messages
  <2>3. u.next + 1 \in Nat /\ ui'.open \in BOOLEAN
    BY <1>1, <1>2 DEF PanelOK
  <2>4. ui'.mixed \in BOOLEAN
    BY <1>2
  <2>5. ui'.session \in Nat /\ ui'.next \in Nat /\ ui'.loading \in BOOLEAN
    BY <1>1, <1>2, <2>3
  <2> QED
    BY <1>2, <2>2, <2>3, <2>4, <2>5, Zenon DEF PanelOK
<1>4. \A c \in BagToSet(net') : c \in BagToSet(b) \/ c = Call("chat", arg)
  BY <1>1, SentCalls
<1>5. \A c \in BagToSet(net') : ChatOK(c)
  BY <1>1, <1>4, CallIs DEF AsstInv, ChatOK
<1>6. ASSUME ui'.open, ~ui'.mixed PROVE Chatting(ui', net')
  <2>1. ui.open /\ ~ui.mixed /\ InFlight(b, "reset") = {}
    BY <1>2, <1>6
  <2>2. ~ui.loading /\ OneAtATime(b, {"chat"}, FALSE) /\ Chatting(ui, net)
    BY <2>1 DEF AsstInv
  <2>3. /\ ui.messages \in Messages /\ Turns(ui.messages) /\ Len(ui.messages) % 2 = 0
    <3>1. ui.messages \in Messages
      BY DEF AsstInv, PanelOK
    <3>2. Turns(ui.messages) /\ (ui.loading <=> Len(ui.messages) % 2 = 1)
      BY <2>2, Zenon DEF Chatting
    <3>3. Len(ui.messages) \in Nat
      BY <3>1 DEF Messages
    <3>4. Len(ui.messages) % 2 # 1
      BY <2>2, <3>2, Zenon
    <3> QED
      BY <3>1, <3>2, <3>3, <3>4, Parity
  <2>4. /\ Turns(ui'.messages) /\ Len(ui'.messages) % 2 = 1
        /\ ui'.messages[Len(ui'.messages)] = <<"user", u.next>>
    <3>1. /\ Turns(Append(ui.messages, <<"user", u.next>>))
          /\ Len(Append(ui.messages, <<"user", u.next>>)) % 2 = 1
          /\ Append(ui.messages, <<"user", u.next>>)[Len(Append(ui.messages, <<"user", u.next>>))]
                = <<"user", u.next>>
      BY <1>1, <2>3, QuestionTurn
    <3>2. ui'.messages = Append(ui.messages, <<"user", u.next>>)
      BY <1>2
    <3> QED
      BY <3>1, <3>2, Zenon
  <2>5. OneAtATime(net', {"chat"}, TRUE)
    BY <1>1, <2>2, OneIsSent
  <2>6. \A c \in Pending(net', {"chat"}) : c.arg[2] = u.next
    BY <1>1, <1>4, <2>2, CallIs DEF OneAtATime, Pending
  <2>7. InFlight(net', "reset") = {}
    BY <1>4, <2>1, CallIs DEF InFlight
  <2> QED
    BY <1>2, <2>4, <2>5, <2>6, <2>7 DEF Chatting
<1> QED
  BY <1>3, <1>5, <1>6 DEF AsstInv

LEMMA UserAsst == AsstInv /\ Assistant!User => AsstInv'
<1> SUFFICES ASSUME AsstInv, Assistant!User PROVE AsstInv'
  OBVIOUS
<1>0. PanelOK(ui) /\ ServerOK(srv)
  BY DEF AsstInv
<1>1. CASE Assistant!Open
  BY <1>0, <1>1, MountKeeps DEF Assistant!Open
<1>2. CASE Assistant!Close
  <2>1. PanelOK(ui') /\ ~ui'.open /\ net' = NoCalls /\ UNCHANGED srv
    <3>1. <<>> \in Messages
      BY DEF Messages
    <3> QED
      BY <1>0, <1>2, <3>1, AssistantCalls DEF Assistant!Close, Assistant!Mounted, Assistant!Other,
         PanelOK, Has, AsstFields
  <2> QED
    BY <1>0, <2>1, NoCallsYet DEF AsstInv
<1>3. CASE Assistant!SendMessage
  <2>1. /\ Assistant!Ask(ui, net) /\ UNCHANGED srv
        /\ ui.open /\ ~ui.mixed => ~ui.loading /\ OneAtATime(net, {"chat"}, FALSE)
    BY <1>0, <1>3 DEF Assistant!SendMessage, AsstInv, Chatting, PanelOK
  <2> QED
    BY <1>0, <2>1, AskKeeps
<1>4. CASE Assistant!AskAI
  <2> DEFINE u == [ui EXCEPT !.initial = ui.path]
  <2>1. /\ PanelOK(u) /\ u.open = ui.open /\ u.mixed = ui.mixed /\ u.messages = ui.messages
        /\ u.loading = ui.loading
    BY <1>0 DEF PanelOK, Has, AsstFields
  <2>2. \/ Assistant!Mount(u)
        \/ ~ui.loading /\ Assistant!Ask(u, net) /\ UNCHANGED srv
        \/ ui' = u /\ UNCHANGED <<net, srv>>
    BY <1>4 DEF Assistant!AskAI, Assistant!Set
  <2> HIDE DEF u
  <2>3. CASE Assistant!Mount(u)
    BY <2>1, <2>3, MountKeeps
  <2>4. CASE ~ui.loading /\ Assistant!Ask(u, net) /\ UNCHANGED srv
    <3>1. ui.open /\ ~ui.mixed => ~ui.loading /\ OneAtATime(net, {"chat"}, FALSE)
      BY <1>0, <2>4 DEF AsstInv, Chatting, PanelOK
    <3> QED
      BY <2>1, <2>4, <3>1, AskKeeps
  <2>5. CASE ui' = u /\ UNCHANGED <<net, srv>>
    BY <1>0, <2>1, <2>5, AsstSame
  <2> QED
    BY <2>2, <2>3, <2>4, <2>5
<1>5. CASE Assistant!NewConversation
  <2>1. /\ PanelOK(ui') /\ UNCHANGED srv /\ net' = Send(net, "reset", <<ui.session>>)
        /\ ui'.messages = ui.messages /\ ui'.loading = ui.loading /\ ui'.open = ui.open
        /\ ui'.mixed = (ui.mixed \/ ui.loading)
    BY <1>0, <1>5, AssistantCalls DEF Assistant!NewConversation, PanelOK, Has, AsstFields
  <2>2. \A c \in BagToSet(net') : c \in BagToSet(net) \/ (c.kind = "reset" /\ ChatOK(c))
    BY <2>1, SentCalls, CallIs DEF ChatOK
  <2>3. ASSUME ui'.open, ~ui'.mixed PROVE Chatting(ui', net')
    <3>1. Chatting(ui, net) /\ ~ui.loading /\ ui.loading = FALSE
      BY <1>0, <2>1, <2>3 DEF AsstInv, PanelOK
    <3>2. OneAtATime(net', {"chat"}, FALSE)
      BY <2>1, <3>1, AnotherIsSent DEF Chatting
    <3> QED
      BY <2>1, <2>2, <3>1, <3>2 DEF Chatting, Pending
  <2> QED
    BY <1>0, <2>1, <2>2, <2>3 DEF AsstInv
<1>6. CASE Assistant!OthersChat
  <2>1. UNCHANGED <<ui, net>> /\ ServerOK(srv')
    <3>1. PICK k \in 0..Len(srv.sessions) :
              srv' = [srv EXCEPT !.sessions = Assistant!Chat(0, Assistant!Prune(@, k))]
      BY <1>6 DEF Assistant!OthersChat, Assistant!Other
    <3>2. SessionsOK(Assistant!Chat(0, Assistant!Prune(srv.sessions, k)))
      BY <1>0, Pruned, Chatted DEF ServerOK
    <3> QED
      BY <1>0, <1>6, <3>1, <3>2 DEF Assistant!OthersChat, ServerOK, Has
  <2> QED
    BY <1>0, <2>1, AsstSame
<1>7. ASSUME NEW p, Assistant!GoTo(p) PROVE AsstInv'
  <2>1. /\ PanelOK(ui') /\ UNCHANGED <<net, srv>>
        /\ ui'.messages = ui.messages /\ ui'.loading = ui.loading /\ ui'.open = ui.open
        /\ ui'.mixed = ui.mixed
    BY <1>0, <1>7 DEF Assistant!GoTo, Assistant!Set, PanelOK, Has, AsstFields
  <2> QED
    BY <1>0, <2>1, AsstSame
<1> QED
  BY <1>1, <1>2, <1>3, <1>4, <1>5, <1>6, <1>7 DEF Assistant!User

\* The server begins to answer.
LEMMA StartChatKeeps ==
    ASSUME AsstInv, NEW c \in BagToSet(net), c.kind = "chat", Assistant!StartChat(c)
    PROVE  AsstInv'
<1>1. ChatOK(c) /\ PanelOK(ui) /\ ServerOK(srv)
  BY DEF AsstInv
<1> DEFINE d == WithAnswer(c, <<>>)
<1>2. d.kind = c.kind /\ d.arg = c.arg /\ ChatOK(d)
  BY <1>1 DEF ChatOK, Has, WithAnswer
<1>3. UNCHANGED ui /\ net' = Answered(net, c, <<>>)
  BY AssistantAnswers DEF Assistant!StartChat
<1>4. \A e \in BagToSet(net') : e \in BagToSet(net) \/ e = d
  <2>1. BagToSet(net') = BagToSet(Settled(net, c)) \cup {d}
    <3>1. BagToSet(Answered(net, c, <<>>)) = BagToSet(Settled(net, c)) \cup {d}
      BY AnsweredCalls
    <3> QED
      BY <1>3, <3>1, Zenon
  <2> QED
    BY <2>1, SettledCalls
<1>5. ServerOK(srv')
  <2>1. PICK k \in 0..Len(srv.sessions) :
            srv' = [srv EXCEPT !.sessions = Assistant!Chat(c.arg[1], Assistant!Prune(@, k))]
    BY DEF Assistant!StartChat
  <2>2. SessionsOK(Assistant!Chat(c.arg[1], Assistant!Prune(srv.sessions, k)))
    BY <1>1, Pruned, Chatted DEF ServerOK, ChatOK
  <2> QED
    BY <1>1, <2>1, <2>2 DEF ServerOK, Has
<1>6. ASSUME ui.open, ~ui.mixed PROVE Chatting(ui, net')
  <2>1. Chatting(ui, net)
    BY <1>6 DEF AsstInv
  <2>2. ui.loading /\ OneAtATime(net', {"chat"}, TRUE)
    BY <1>1, <1>2, <1>3, <2>1, OneIsAnswered DEF Chatting, PanelOK
  <2>3. c \in Pending(net, {"chat"})
    BY DEF Pending
  <2> HIDE DEF d
  <2>4. \A e \in Pending(net', {"chat"}) : ui.messages[Len(ui.messages)] = <<"user", e.arg[2]>>
    BY <1>2, <1>4, <2>1, <2>3 DEF Chatting, Pending
  <2>5. InFlight(net', "reset") \subseteq InFlight(net, "reset")
    BY <1>2, <1>4 DEF InFlight
  <2> QED
    BY <1>1, <2>1, <2>2, <2>4, <2>5 DEF Chatting, PanelOK
<1> HIDE DEF d
<1> QED
  BY <1>1, <1>2, <1>3, <1>4, <1>5, <1>6 DEF AsstInv

\* An answer is shown under the question.
LEMMA ShownKeeps ==
    ASSUME AsstInv, NEW c \in BagToSet(net), c.kind = "chat",
           Assistant!ShowAnswer(c) \/ Assistant!ShowRefusal(c)
    PROVE  AsstInv'
<1>1. ChatOK(c) /\ PanelOK(ui) /\ ServerOK(srv) /\ c.arg[2] \in Nat
  BY DEF AsstInv, ChatOK
<1>2. /\ net' = Settled(net, c) /\ UNCHANGED srv
      /\ Has(ui', AsstFields) /\ ui'.messages = Append(ui.messages, <<"assistant", c.arg[2]>>)
      /\ ui'.loading = FALSE /\ ui'.open = ui.open /\ ui'.mixed = ui.mixed
      /\ ui'.session = ui.session /\ ui'.next = ui.next
  BY <1>1, AssistantCalls DEF Assistant!ShowAnswer, Assistant!ShowRefusal, Assistant!Got,
     Assistant!Answer, PanelOK, Has, AsstFields
<1>3. PanelOK(ui')
  <2>1. <<"assistant", c.arg[2]>> \in Message
    BY <1>1 DEF Message
  <2>2. ui'.messages \in Messages
    BY <1>1, <1>2, <2>1 DEF PanelOK, Messages
  <2> QED
    BY <1>1, <1>2, <2>2 DEF PanelOK
<1>4. BagToSet(net') \subseteq BagToSet(net)
  BY <1>2, SettledCalls
<1>5. ASSUME ui.open, ~ui.mixed PROVE Chatting(ui', net')
  <2>1. Chatting(ui, net)
    BY <1>5 DEF AsstInv
  <2>2. ui.loading /\ OneAtATime(net', {"chat"}, FALSE)
    BY <1>1, <1>2, <2>1, OneSettles DEF Chatting, PanelOK
  <2>3. ui.messages[Len(ui.messages)] = <<"user", c.arg[2]>>
    BY <2>1 DEF Chatting, Pending
  <2>4. Turns(ui'.messages) /\ Len(ui'.messages) % 2 = 0
    BY <1>1, <1>2, <2>1, <2>2, <2>3, AnswerTurn DEF Chatting, PanelOK
  <2>5. Pending(net', {"chat"}) = {}
    BY <2>2 DEF OneAtATime
  <2>6. Len(ui'.messages) % 2 # 1
    <3>1. 0 # 1
      OBVIOUS
    <3> QED
      BY <2>4, <3>1, Zenon
  <2>7. OneAtATime(net', {"chat"}, ui'.loading) /\ ~ui'.loading
    BY <1>2, <2>2
  <2> QED
    BY <2>4, <2>5, <2>6, <2>7, Zenon DEF Chatting
<1> QED
  BY <1>1, <1>2, <1>3, <1>4, <1>5 DEF AsstInv

\* New: the conversation is another.
LEMMA NewKeeps ==
    ASSUME AsstInv, NEW c \in BagToSet(net), c.kind = "reset", Assistant!ShowNew(c)
    PROVE  AsstInv'
<1>1. PanelOK(ui) /\ ServerOK(srv)
  BY DEF AsstInv
<1>2. /\ net' = Settled(net, c) /\ srv' = [srv EXCEPT !.ids = @ + 1]
      /\ Has(ui', AsstFields) /\ ui'.messages = <<>> /\ ui'.loading = FALSE
      /\ ui'.open = ui.open
      /\ ui'.mixed = (ui.mixed /\ Assistant!UnderWay(Assistant!Settled(net, c)))
      /\ ui'.session = srv.ids + 1 /\ ui'.next = ui.next
  BY <1>1, AssistantCalls DEF Assistant!ShowNew, PanelOK, Has, AsstFields
<1>3. PanelOK(ui') /\ ServerOK(srv')
  <2>1. <<>> \in Messages /\ srv.ids + 1 \in Nat
    BY <1>1 DEF Messages, ServerOK
  <2>2. ui'.mixed \in BOOLEAN
    BY <1>2
  <2>3. PanelOK(ui')
    BY <1>1, <1>2, <2>1, <2>2 DEF PanelOK
  <2>4. ServerOK(srv')
    BY <1>1, <1>2, <2>1 DEF ServerOK, Has
  <2> QED
    BY <2>3, <2>4
<1>4. BagToSet(net') \subseteq BagToSet(net)
  BY <1>2, SettledCalls
<1>5. ASSUME ui.open, OneAtATime(net', {"chat"}, FALSE)
      PROVE  Chatting(ui', net')
  <2>1. Pending(net', {"chat"}) = {}
    BY <1>5 DEF OneAtATime
  <2>2. Turns(ui'.messages) /\ Len(ui'.messages) % 2 # 1
    BY <1>2 DEF Turns
  <2> QED
    BY <1>2, <1>5, <2>1, <2>2 DEF Chatting
<1>6. ASSUME ui.open, ~ui.mixed PROVE OneAtATime(net', {"chat"}, FALSE)
  <2>1. Chatting(ui, net) /\ ~ui.loading /\ ui.loading = FALSE
    BY <1>1, <1>6 DEF AsstInv, Chatting, InFlight, PanelOK
  <2> QED
    BY <1>2, <2>1, AnotherSettles DEF Chatting
\* Nothing is under way any more.
<1>7. ASSUME ui.mixed, ~ui'.mixed PROVE OneAtATime(net', {"chat"}, FALSE)
  <2>1. InFlight(net', "chat") = {}
    BY <1>2, <1>7, AssistantCalls DEF Assistant!UnderWay
  <2> QED
    BY <2>1 DEF OneAtATime, Pending, InFlight
<1>8. ui'.open /\ ~ui'.mixed => Chatting(ui', net')
  BY <1>2, <1>5, <1>6, <1>7
<1> QED
  BY <1>3, <1>4, <1>8 DEF AsstInv

LEMMA AnswersAsst == AsstInv /\ Assistant!Deliver => AsstInv'
<1> SUFFICES ASSUME AsstInv, Assistant!Deliver PROVE AsstInv'
  OBVIOUS
<1>0. PanelOK(ui) /\ ServerOK(srv)
  BY DEF AsstInv
<1>1. ASSUME NEW c \in BagToSet(net), c.kind = "status",
             Assistant!ShowEnabled(c) \/ Assistant!ShowDisabled(c)
      PROVE  AsstInv'
  <2>1. CASE \E e : Assistant!Got(c, [ui EXCEPT !.enabled = e])
    <3>1. /\ PanelOK(ui') /\ UNCHANGED srv /\ net' = Settled(net, c)
          /\ ui'.messages = ui.messages /\ ui'.loading = ui.loading /\ ui'.open = ui.open
          /\ ui'.mixed = ui.mixed
      BY <1>0, <2>1, AssistantCalls DEF Assistant!Got, PanelOK, Has, AsstFields
    <3> QED
      BY <1>0, <1>1, <3>1, AsstSame
  <2> DEFINE u == [ui EXCEPT !.enabled = "yes"]
  <2>2. CASE ui.messages = <<>> /\ Assistant!Ask(u, Assistant!Settled(net, c)) /\ UNCHANGED srv
    <3>1. /\ PanelOK(u) /\ u.open = ui.open /\ u.mixed = ui.mixed /\ u.messages = ui.messages
      BY <1>0 DEF PanelOK, Has, AsstFields
    <3> HIDE DEF u
    <3>2. Assistant!Ask(u, Settled(net, c))
      BY <2>2, AssistantCalls
    <3>3. BagToSet(Settled(net, c)) \subseteq BagToSet(net)
      BY SettledCalls
    <3>4. ASSUME ui.open, ~ui.mixed
          PROVE  ~ui.loading /\ OneAtATime(Settled(net, c), {"chat"}, FALSE)
      <4>1. Chatting(ui, net)
        BY <3>4 DEF AsstInv
      <4>2. Len(ui.messages) % 2 # 1
        BY <2>2
      <4>3. ui.loading = FALSE /\ OneAtATime(net, {"chat"}, FALSE)
        BY <1>0, <4>1, <4>2 DEF Chatting, PanelOK
      <4> QED
        BY <1>1, <4>3, AnotherSettles
    <3> QED
      BY <2>2, <3>1, <3>2, <3>3, <3>4, AskKeeps
  <2> QED
    BY <1>1, <2>1, <2>2 DEF Assistant!ShowEnabled, Assistant!ShowDisabled
<1> QED
  BY <1>1, StartChatKeeps, ShownKeeps, NewKeeps, AssistantCalls
     DEF Assistant!Deliver, Assistant!Answers, InFlight

AsstKept == tab = "assistant" => AsstInv

LEMMA AsstKeeps == ASSUME AsstKept, [Next]_vars PROVE AsstKept'
<1> SUFFICES ASSUME tab' = "assistant" PROVE AsstInv'
  BY DEF AsstKept
<1>1. tab = "assistant" /\ AsstInv
  BY TabStays DEF AsstKept
<1>2. CASE Assistant!Next
  BY <1>1, <1>2, UserAsst, AnswersAsst DEF Assistant!Next
<1>3. CASE UNCHANGED vars
  BY <1>1, <1>3, AsstSame DEF vars, AsstInv
<1> QED
  BY <1>1, <1>2, <1>3 DEF Next, Step

LEMMA AsstStays == Spec => []AsstKept
<1>1. Init => AsstKept
  BY InitAsst DEF Init, AsstKept
<1> QED
  BY <1>1, AsstKeeps, PTL DEF Spec

(* An answer stands under its own question, the last question waits for its *)
(* answer exactly while the panel is loading, and no agent is asked twice   *)
(* at once; not while New and a question cross each other, until a New is   *)
(* answered with nothing else under way (sendMessage in AIAssistant.tsx).   *)
THEOREM AnswersStandInOrder == Spec => []ConversationInOrder
<1>1. AsstKept => ConversationInOrder
  <2> SUFFICES ASSUME AsstInv, ui.open, ~ui.mixed PROVE Assistant!ConversationInOrder
    BY DEF AsstKept, ConversationInOrder, Assistant!ConversationInOrder
  <2>1. Chatting(ui, net) /\ ui.loading \in BOOLEAN /\ ui.messages \in Messages
    BY DEF AsstInv, PanelOK
  <2>2. Pending(net, {"chat"}) = Assistant!InFlight(net, "chat")
    BY AssistantCalls DEF Pending, InFlight
  <2>3. Cardinality(Pending(net, {"chat"})) = IF ui.loading THEN 1 ELSE 0
    BY <2>1, OneIsCounted DEF Chatting
  <2>4. \A S : Assistant!Cardinality(S) = Cardinality(S)
    BY DEF Assistant!Cardinality, Cardinality
  <2>5. Len(ui.messages) % 2 = IF ui.loading THEN 1 ELSE 0
    <3>1. Len(ui.messages) % 2 \in {0, 1}
      <4>1. Len(ui.messages) \in Nat
        BY <2>1 DEF Messages
      <4> QED
        BY <4>1, Parity
    <3> QED
      BY <2>1, <3>1 DEF Chatting
  <2> QED
    BY <2>1, <2>2, <2>3, <2>4, <2>5 DEF Chatting, Turns, Assistant!ConversationInOrder,
       Assistant!Answer
<1> QED
  BY <1>1, AsstStays, PTL

(* The sessions of the assistant never grow past their cap by more than the *)
(* one that is being added (pruneAgentSessions and handleAgentChat,         *)
(* agent.go).                                                               *)
THEOREM SessionsStayBounded == Spec => []SessionsBounded
<1>1. AsstKept => SessionsBounded
  <2> SUFFICES ASSUME AsstInv PROVE Assistant!SessionsBounded
    BY DEF AsstKept, SessionsBounded
  <2>1. SessionsOK(srv.sessions) /\ DOMAIN srv.sessions = 1..Len(srv.sessions)
    BY DEF AsstInv, ServerOK, SessionsOK
  <2> QED
    BY <2>1 DEF SessionsOK, Assistant!SessionsBounded, Assistant!Other
<1> QED
  BY <1>1, AsstStays, PTL

----------------------------------------------------------------------------
(* The catalog of addons and the page of one addon.                         *)

LEMMA AddonCounts == \A S : Addon!Cardinality(S) = Cardinality(S)
BY DEF Addon!Cardinality, Cardinality

\* What is shown of an addon, whichever it is, comes from one world.
Item(s, a) == [item |-> Addon!CatalogItem(s, a), apps |-> Addon!Applications(s, a)]

Items(s) == {Addon!CatalogItem(s, a) : a \in Addons}

LEMMA EnabledFinite ==
    ASSUME NEW s \in AddonWorlds, NEW a
    PROVE  IsFiniteSet(Addon!EnabledOn(s, a)) /\ Cardinality(Addon!EnabledOn(s, a)) \in Nat
<1>1. Addon!EnabledOn(s, a) \subseteq Clusters
  BY WorldsAssumption DEF Addon!EnabledOn
<1> QED
  BY <1>1, AddonsAssumption, FS_Subset, FS_CardinalityType

\* The rows of an addon are as many as the clusters they stand for.
LEMMA RowsOfClusters ==
    ASSUME NEW s \in AddonWorlds, NEW a, NEW S, S \subseteq Addon!EnabledOn(s, a), NEW T,
           T = {[cluster |-> c, status |-> Addon!DeploymentStatus(s, a, c),
                 health |-> s.app[a][c]] : c \in S}
    PROVE  Cardinality(T) = Cardinality(S)
<1> DEFINE row(c) == [cluster |-> c, status |-> Addon!DeploymentStatus(s, a, c),
                      health |-> s.app[a][c]]
           g == [c \in S |-> row(c)]
<1>1. \A c : row(c).cluster = c
  OBVIOUS
<1>2. T = {row(c) : c \in S}
  OBVIOUS
<1> HIDE DEF row
<1>3. /\ g \in [S -> T]
      /\ \A x, y \in S : g[x] = g[y] => x = y
      /\ \A t \in T : \E x \in S : g[x] = t
  BY <1>1, <1>2
<1>4. IsFiniteSet(S)
  BY EnabledFinite, FS_Subset
<1> HIDE DEF g
<1> QED
  BY <1>3, <1>4, OneEach

LEMMA CountsOfRows ==
    ASSUME srv \in AddonWorlds, NEW a, ui.addon = Item(srv, a)
    PROVE  /\ ui.addon.item.enabled_clusters = Cardinality(Addon!FilteredApps("all", "all"))
           /\ ui.addon.item.healthy_applications = Cardinality(Addon!FilteredApps("all", "Healthy"))
           /\ ui.addon.item.degraded_applications
                 = Cardinality(Addon!FilteredApps("all", "Degraded"))
           /\ ui.addon.item.missing_applications = Cardinality(Addon!FilteredApps("missing", "all"))
<1> DEFINE E == Addon!EnabledOn(srv, a)
           D(c) == Addon!DeploymentStatus(srv, a, c)
           row(c) == [cluster |-> c, status |-> D(c), health |-> srv.app[a][c]]
           of(w) == {c \in E : D(c) = w}
<1>1. ui.addon.apps = {row(c) : c \in E}
  BY DEF Item, Addon!Applications
<1>2. /\ ui.addon.item.enabled_clusters = Cardinality(E)
      /\ ui.addon.item.healthy_applications = Cardinality(of("healthy"))
      /\ ui.addon.item.degraded_applications = Cardinality(of("degraded"))
      /\ ui.addon.item.missing_applications = Cardinality(of("missing"))
  BY AddonCounts DEF Item, Addon!CatalogItem
<1>3. \A c : /\ D(c) = "healthy" <=> srv.app[a][c] # Absent /\ srv.app[a][c] = "Healthy"
             /\ D(c) = "degraded" <=> srv.app[a][c] # Absent /\ srv.app[a][c] = "Degraded"
  BY AbsentAssumption DEF Addon!DeploymentStatus
<1>4. \A c : row(c).status = D(c) /\ row(c).health = srv.app[a][c]
  OBVIOUS
<1>5. "all" \notin {D(c) : c \in E}
  BY DEF Addon!DeploymentStatus
<1> HIDE DEF E, D, row
<1>6. /\ Addon!FilteredApps("all", "all") = {row(c) : c \in E}
      /\ Addon!FilteredApps("all", "Healthy") = {row(c) : c \in of("healthy")}
      /\ Addon!FilteredApps("all", "Degraded") = {row(c) : c \in of("degraded")}
      /\ Addon!FilteredApps("missing", "all") = {row(c) : c \in of("missing")}
  <2>1. Addon!FilteredApps("all", "all") = {row(c) : c \in E}
    BY <1>1 DEF Addon!FilteredApps, Addon!PassesHealth
  <2>2. Addon!FilteredApps("all", "Healthy") = {row(c) : c \in of("healthy")}
    BY <1>1, <1>3, <1>4 DEF Addon!FilteredApps, Addon!PassesHealth
  <2>3. Addon!FilteredApps("all", "Degraded") = {row(c) : c \in of("degraded")}
    BY <1>1, <1>3, <1>4 DEF Addon!FilteredApps, Addon!PassesHealth
  <2>4. Addon!FilteredApps("missing", "all") = {row(c) : c \in of("missing")}
    BY <1>1, <1>4 DEF Addon!FilteredApps, Addon!PassesHealth
  <2> QED
    BY <2>1, <2>2, <2>3, <2>4
<1>7. ASSUME NEW S \in SUBSET E PROVE Cardinality({row(c) : c \in S}) = Cardinality(S)
  BY <1>7, RowsOfClusters DEF E, D, row
<1>8. /\ of("healthy") \in SUBSET E /\ of("degraded") \in SUBSET E
      /\ of("missing") \in SUBSET E /\ E \in SUBSET E
  OBVIOUS
<1> HIDE DEF of
<1>9. /\ Cardinality({row(c) : c \in E}) = Cardinality(E)
      /\ Cardinality({row(c) : c \in of("healthy")}) = Cardinality(of("healthy"))
      /\ Cardinality({row(c) : c \in of("degraded")}) = Cardinality(of("degraded"))
      /\ Cardinality({row(c) : c \in of("missing")}) = Cardinality(of("missing"))
  BY <1>7, <1>8
<1> QED
  BY <1>2, <1>6, <1>9

\* No addon has no rows.
LEMMA NoCountsNoRows ==
    ASSUME ui.addon = Addon!NoAddon
    PROVE  /\ \A s, h : Cardinality(Addon!FilteredApps(s, h)) = 0
           /\ ui.addon.item.enabled_clusters = 0 /\ ui.addon.item.healthy_applications = 0
           /\ ui.addon.item.degraded_applications = 0 /\ ui.addon.item.missing_applications = 0
<1>1. \A s, h : Addon!FilteredApps(s, h) = {}
  BY DEF Addon!FilteredApps, Addon!NoAddon
<1> QED
  BY <1>1, FS_EmptySet DEF Addon!NoAddon, Addon!NoItem

\* What the catalog shows through its filters, and in how many pages.
Passing(u) == {item \in u.catalog.addons : /\ u.search \in {Absent, item.name}
                                           /\ Addon!PassesType(u.filterType, item)}

Pages(u) == (Cardinality(Passing(u)) + u.pageSize - 1) \div u.pageSize

LEMMA PassingPages ==
    Addon!FilteredAddons = Passing(ui) /\ Addon!TotalPages = Pages(ui)
BY AddonCounts DEF Addon!FilteredAddons, Passing, Addon!TotalPages, Pages

LEMMA Quotient ==
    ASSUME NEW n \in Nat, NEW k \in Nat \ {0}
    PROVE  n \div k \in Nat /\ (n \div k) * k <= n /\ n < (n \div k) * k + k
OBVIOUS

LEMMA Products ==
    ASSUME NEW p \in Nat, NEW q \in Nat, NEW k \in Nat \ {0}
    PROVE  /\ p * k \in Nat /\ (p + 1) * k = p * k + k
           /\ p <= q => p * k <= q * k
           /\ p * k < q * k => p < q
OBVIOUS

\* A page exists when an item is left for it, and no other does.
LEMMA PageExists ==
    ASSUME NEW n \in Nat, NEW k \in Nat \ {0}, NEW p \in Nat \ {0}
    PROVE  p <= (n + k - 1) \div k <=> (p - 1) * k < n
<1> DEFINE t == (n + k - 1) \div k
<1>1. n + k - 1 \in Nat
  OBVIOUS
<1>2. t \in Nat /\ t * k <= n + k - 1 /\ n + k - 1 < t * k + k
  BY <1>1, Quotient
<1>3. p - 1 \in Nat /\ p * k = (p - 1) * k + k
  BY Products
<1> HIDE DEF t
<1>4. ASSUME p <= t PROVE (p - 1) * k < n
  <2>1. p * k <= t * k /\ p * k \in Nat /\ t * k \in Nat
    BY <1>2, <1>4, Products
  <2>2. (p - 1) * k \in Nat
    BY <1>3, Products
  <2> QED
    BY <1>2, <1>3, <2>1, <2>2
<1>5. ASSUME (p - 1) * k < n PROVE p <= t
  <2>1. (p - 1) * k \in Nat /\ t * k \in Nat
    BY <1>2, <1>3, Products
  <2>2. (p - 1) * k < t * k
    BY <1>2, <1>5, <2>1
  <2>3. p - 1 < t
    BY <1>2, <1>3, <2>2, Products
  <2> QED
    BY <1>2, <2>3
<1> QED
  BY <1>4, <1>5 DEF t

\* The k-th items of a page are those of one page only.
LEMMA PageOf ==
    ASSUME NEW r \in Nat \ {0}, NEW k \in Nat \ {0}
    PROVE  /\ \E p \in Nat \ {0} : (p - 1) * k < r /\ r <= p * k
           /\ \A p, q \in Nat \ {0} : (p - 1) * k < r /\ r <= q * k => p <= q
<1>1. \E p \in Nat \ {0} : (p - 1) * k < r /\ r <= p * k
  <2> DEFINE t == (r - 1) \div k
  <2>1. r - 1 \in Nat
    OBVIOUS
  <2>2. t \in Nat /\ t * k <= r - 1 /\ r - 1 < t * k + k
    BY <2>1, Quotient
  <2> HIDE DEF t
  <2>3. t * k \in Nat /\ (t + 1) * k = t * k + k
    BY <2>2, Products
  <2>4. t + 1 \in Nat \ {0} /\ (t + 1) - 1 = t
    BY <2>2
  <2>5. t * k < r /\ r <= (t + 1) * k
    BY <2>2, <2>3
  <2> QED
    BY <2>4, <2>5
<1>2. ASSUME NEW p \in Nat \ {0}, NEW q \in Nat \ {0}, (p - 1) * k < r, r <= q * k
      PROVE  p <= q
  <2>1. p - 1 \in Nat /\ (p - 1) * k \in Nat /\ q * k \in Nat
    BY Products
  <2>2. (p - 1) * k < q * k
    BY <1>2, <2>1
  <2>3. p - 1 < q
    BY <2>1, <2>2, Products
  <2> QED
    BY <2>3
<1> QED
  BY <1>1, <1>2

\* The items that pass are finitely many, and each has a name of its own.
LEMMA PassingItems ==
    ASSUME srv \in AddonWorlds, ui.catalog.addons \in {{}, Items(srv)}
    PROVE  /\ IsFiniteSet(Passing(ui)) /\ Cardinality(Passing(ui)) \in Nat
           /\ \A x \in Passing(ui) : x.name \in Addons /\ x.enabled_clusters \in Nat
           /\ \A x, y \in Passing(ui) : x.name = y.name => x = y
<1> DEFINE item(a) == Addon!CatalogItem(srv, a)
<1>1. \A a : item(a).name = a
  BY DEF Addon!CatalogItem
<1>2. \A a : item(a).enabled_clusters \in Nat
  BY EnabledFinite, AddonCounts DEF Addon!CatalogItem
<1>3. Items(srv) = {item(a) : a \in Addons}
  BY DEF Items
<1> HIDE DEF item
<1>4. IsFiniteSet(Items(srv))
  <2> DEFINE g == [a \in Addons |-> item(a)]
  <2>1. /\ g \in [Addons -> Items(srv)]
        /\ \A x, y \in Addons : g[x] = g[y] => x = y
        /\ \A t \in Items(srv) : \E x \in Addons : g[x] = t
    BY <1>1, <1>3
  <2> HIDE DEF g
  <2> QED
    BY <2>1, AddonsAssumption, OneEach
<1>5. Passing(ui) \subseteq Items(srv)
  BY DEF Passing
<1>6. IsFiniteSet(Passing(ui)) /\ Cardinality(Passing(ui)) \in Nat
  BY <1>4, <1>5, FS_Subset, FS_CardinalityType
<1> QED
  BY <1>1, <1>2, <1>3, <1>5, <1>6

\* The catalog's comparison orders them.
LEMMA PassingOrdered ==
    ASSUME srv \in AddonWorlds, ui.catalog.addons \in {{}, Items(srv)},
           NEW x \in Passing(ui), NEW y \in Passing(ui)
    PROVE  /\ ~Addon!Before(x, x)
           /\ x # y => Addon!Before(x, y) \/ Addon!Before(y, x)
           /\ \A z \in Passing(ui) :
                 Addon!Before(z, x) /\ Addon!Before(x, y) => Addon!Before(z, y)
<1>1. \A z \in Passing(ui) : /\ z.enabled_clusters \in Nat /\ z.name \in Addons
                             /\ NameRank[z.name] \in Nat /\ CatalogRank[z.name] \in Nat
  BY PassingItems, CatalogAssumption
<1>2. x # y => /\ NameRank[x.name] # NameRank[y.name]
               /\ CatalogRank[x.name] # CatalogRank[y.name]
  BY <1>1, PassingItems, CatalogAssumption
<1> QED
  BY <1>1, <1>2 DEF Addon!Before

\* The rank of an item is its place, and every place is some item's.
LEMMA Ranked ==
    ASSUME srv \in AddonWorlds, ui.catalog.addons \in {{}, Items(srv)}
    PROVE  /\ \A x \in Passing(ui) : Addon!Rank(x) \in 1..Cardinality(Passing(ui))
           /\ \A r \in 1..Cardinality(Passing(ui)) : \E x \in Passing(ui) : Addon!Rank(x) = r
<1> DEFINE N == Cardinality(Passing(ui))
           below(x) == {z \in Passing(ui) : Addon!Before(z, x)}
           f == [x \in Passing(ui) |-> Addon!Rank(x)]
<1>1. IsFiniteSet(Passing(ui)) /\ N \in Nat
  BY PassingItems
<1>2. ASSUME NEW x \in Passing(ui)
      PROVE  /\ IsFiniteSet(below(x)) /\ Cardinality(below(x)) \in Nat
             /\ Addon!Rank(x) = 1 + Cardinality(below(x))
  <2>1. IsFiniteSet(below(x)) /\ Cardinality(below(x)) \in Nat
    BY <1>1, FS_Subset, FS_CardinalityType
  <2>2. Addon!Rank(x) = 1 + Cardinality(below(x))
    BY PassingPages, AddonCounts DEF Addon!Rank
  <2> QED
    BY <2>1, <2>2
<1>3. ASSUME NEW x \in Passing(ui) PROVE Addon!Rank(x) \in 1..N
  <2>1. below(x) \subseteq Passing(ui) /\ below(x) # Passing(ui)
    BY PassingOrdered
  <2>2. Cardinality(below(x)) <= N /\ Cardinality(below(x)) # N
    BY <1>1, <2>1, FS_Subset
  <2>3. Cardinality(below(x)) \in Nat /\ Addon!Rank(x) = 1 + Cardinality(below(x))
    BY <1>2
  <2> HIDE DEF N, below
  <2> QED
    BY <1>1, <2>2, <2>3
<1>4. ASSUME NEW x \in Passing(ui), NEW y \in Passing(ui), Addon!Before(x, y)
      PROVE  Addon!Rank(x) # Addon!Rank(y)
  <2>1. below(x) \subseteq below(y) /\ below(x) # below(y)
    BY <1>4, PassingOrdered
  <2>2. Cardinality(below(x)) # Cardinality(below(y))
    BY <1>2, <2>1, FS_Subset
  <2> QED
    BY <1>2, <2>2
<1>5. \A x, y \in Passing(ui) : f[x] = f[y] => x = y
  BY <1>4, PassingOrdered
<1>6. f \in [Passing(ui) -> 1..N]
  BY <1>3
<1>7. IsFiniteSet(1..N) /\ Cardinality(1..N) = N
  BY <1>1, FS_Interval
<1> HIDE DEF f
<1>8. f \in Injection(Passing(ui), 1..N)
  BY <1>5, <1>6 DEF Injection, IsInjective
<1>9. f \in Surjection(Passing(ui), 1..N)
  <2>1. Cardinality(Passing(ui)) = Cardinality(1..N) <=> f \in Surjection(Passing(ui), 1..N)
    BY <1>7, <1>8, FS_Injection
  <2> QED
    BY <1>7, <2>1
<1>10. \A r \in 1..N : \E x \in Passing(ui) : f[x] = r
  BY <1>9 DEF Surjection
<1> QED
  BY <1>3, <1>10 DEF f

\* The slices: each item is in one of them, and none of them is empty.
LEMMA Slices ==
    ASSUME srv \in AddonWorlds, ui.catalog.addons \in {{}, Items(srv)}, ui.pageSize \in PageSizes
    PROVE  /\ \A p \in 1..Pages(ui) : Addon!PaginatedAddons(p) # {}
           /\ UNION {Addon!PaginatedAddons(p) : p \in 1..Pages(ui)} = Passing(ui)
           /\ \A p, q \in 1..Pages(ui) :
                 p # q => Addon!PaginatedAddons(p) \cap Addon!PaginatedAddons(q) = {}
<1> DEFINE N == Cardinality(Passing(ui))
           k == ui.pageSize
<1>1. N \in Nat /\ k \in Nat \ {0}
  BY PassingItems, CatalogAssumption
<1>2. Pages(ui) \in Nat
  <2>1. N + k - 1 \in Nat
    BY <1>1
  <2> QED
    BY <1>1, <2>1, Quotient DEF Pages
<1>3. \A p \in Nat \ {0} : p \in 1..Pages(ui) <=> (p - 1) * k < N
  <2>1. \A p \in Nat \ {0} : p <= Pages(ui) <=> (p - 1) * k < N
    BY <1>1, PageExists DEF Pages
  <2> QED
    BY <1>2, <2>1
<1>4. \A p, x : x \in Addon!PaginatedAddons(p) <=>
          /\ x \in Passing(ui) /\ Addon!Rank(x) > (p - 1) * k /\ Addon!Rank(x) <= p * k
  BY PassingPages DEF Addon!PaginatedAddons
<1>5. \A p \in 1..Pages(ui) : p \in Nat \ {0}
  BY <1>2
<1>6. \A x \in Passing(ui) : Addon!Rank(x) \in Nat \ {0} /\ Addon!Rank(x) <= N
  BY <1>1, Ranked
<1> HIDE DEF N, k
<1>7. ASSUME NEW p \in 1..Pages(ui) PROVE Addon!PaginatedAddons(p) # {}
  <2>1. p \in Nat \ {0} /\ p - 1 \in Nat /\ (p - 1) * k < N
    BY <1>3, <1>5
  <2>2. (p - 1) * k \in Nat /\ p * k = (p - 1) * k + k
    BY <1>1, <2>1, Products
  <2>3. (p - 1) * k + 1 \in 1..N
    BY <1>1, <2>1, <2>2
  <2>4. PICK x \in Passing(ui) : Addon!Rank(x) = (p - 1) * k + 1
    BY <2>3, Ranked DEF N
  <2>5. Addon!Rank(x) > (p - 1) * k /\ Addon!Rank(x) <= p * k
    BY <1>1, <2>2, <2>4
  <2> QED
    BY <1>4, <2>5
<1>8. ASSUME NEW x \in Passing(ui) PROVE \E p \in 1..Pages(ui) : x \in Addon!PaginatedAddons(p)
  <2>1. PICK p \in Nat \ {0} : (p - 1) * k < Addon!Rank(x) /\ Addon!Rank(x) <= p * k
    BY <1>1, <1>6, PageOf
  <2>2. p - 1 \in Nat /\ (p - 1) * k \in Nat
    BY <1>1, Products
  <2>3. (p - 1) * k < N
    BY <1>1, <1>6, <2>1, <2>2
  <2>4. p \in 1..Pages(ui)
    BY <1>3, <2>3
  <2>5. Addon!Rank(x) > (p - 1) * k
    BY <1>6, <2>1, <2>2
  <2> QED
    BY <1>4, <2>1, <2>4, <2>5
<1>9. ASSUME NEW p \in 1..Pages(ui), NEW q \in 1..Pages(ui),
             NEW x \in Addon!PaginatedAddons(p) \cap Addon!PaginatedAddons(q)
      PROVE  p = q
  <2>1. /\ x \in Passing(ui) /\ Addon!Rank(x) \in Nat \ {0} /\ p \in Nat \ {0} /\ q \in Nat \ {0}
        /\ p - 1 \in Nat /\ q - 1 \in Nat
    BY <1>4, <1>5, <1>6
  <2>2. (p - 1) * k \in Nat /\ (q - 1) * k \in Nat
    BY <1>1, <2>1, Products
  <2>3. /\ (p - 1) * k < Addon!Rank(x) /\ Addon!Rank(x) <= p * k
        /\ (q - 1) * k < Addon!Rank(x) /\ Addon!Rank(x) <= q * k
    BY <1>4, <2>1, <2>2
  <2>4. p <= q /\ q <= p
    BY <1>1, <2>1, <2>3, PageOf
  <2> QED
    BY <2>1, <2>4
<1>10. UNION {Addon!PaginatedAddons(p) : p \in 1..Pages(ui)} = Passing(ui)
  BY <1>4, <1>8
<1> QED
  BY <1>7, <1>9, <1>10

AddonFields == {"name", "loading", "error", "catalog", "search", "filterType", "sortBy", "pageSize",
                "page", "due", "addon", "values", "status", "health"}

\* The page number is one of the catalog's, or about to be 1 again.
PageOK(u) == u.page = 1 \/ u.due \/ u.page \in 1..Pages(u)

AddonInv == /\ Has(ui, AddonFields)
            /\ srv \in AddonWorlds
            /\ ui.addon = Addon!NoAddon \/ \E a : ui.addon = Item(srv, a)
            /\ ui.catalog.addons \in {{}, Items(srv)}
            /\ ui.catalog.addons = {} => ui.page = 1
            /\ ui.pageSize \in PageSizes
            /\ PageOK(ui)

LEMMA MountedIs ==
    ASSUME NEW name, NEW u, u = Addon!Mounted(name)
    PROVE  /\ Has(u, AddonFields) /\ u.addon = Addon!NoAddon /\ u.catalog.addons = {}
           /\ u.page = 1 /\ u.pageSize \in PageSizes
<1> DEFINE least == CHOOSE n \in PageSizes : \A m \in PageSizes : n <= m
<1>1. least \in PageSizes
  BY CatalogAssumption
<1>2. u = [name |-> name, loading |-> TRUE, error |-> FALSE,
           catalog |-> [addons |-> {}, total_addons |-> 0, addons_only_in_git |-> 0],
           search |-> Absent, filterType |-> "all", sortBy |-> "name", pageSize |-> least,
           page |-> 1, due |-> FALSE, addon |-> Addon!NoAddon, values |-> Absent,
           status |-> "all", health |-> "all"]
  BY DEF Addon!Mounted
<1> HIDE DEF least
<1>3. Has(u, AddonFields)
  BY <1>2 DEF Has, AddonFields
<1> QED
  BY <1>1, <1>2, <1>3

LEMMA MountedAddon ==
    ASSUME NEW name, srv \in AddonWorlds, ui' = Addon!Mounted(name), UNCHANGED srv
    PROVE  AddonInv'
BY MountedIs DEF AddonInv, PageOK

\* What does not touch the catalog, or the addon but to fill it from the world.
LEMMA OtherKeeps ==
    ASSUME AddonInv, UNCHANGED srv, Has(ui', AddonFields),
           ui'.addon = ui.addon \/ \E a : ui'.addon = Item(srv, a),
           \A f \in {"catalog", "search", "filterType", "pageSize", "page", "due"} :
              ui'[f] = ui[f]
    PROVE  AddonInv'
<1>1. /\ ui'.catalog = ui.catalog /\ ui'.search = ui.search /\ ui'.filterType = ui.filterType
      /\ ui'.pageSize = ui.pageSize /\ ui'.page = ui.page /\ ui'.due = ui.due
  OBVIOUS
<1>2. Passing(ui') = Passing(ui) /\ Pages(ui') = Pages(ui)
  BY <1>1 DEF Passing, Pages
<1> QED
  BY <1>1, <1>2 DEF AddonInv, PageOK

\* A change of what the catalog lists is followed by the first page.
LEMMA ChangeKeeps ==
    ASSUME AddonInv, NEW u, Addon!Change(u), Has(u, AddonFields), u.pageSize \in PageSizes,
           u.catalog = ui.catalog, u.addon = ui.addon,
           \/ u.page = ui.page
           \/ u.page \in 1..Pages(u) /\ ui.catalog.addons # {}
    PROVE  AddonInv'
<1> DEFINE same == /\ u.search = ui.search /\ u.filterType = ui.filterType
                   /\ u.sortBy = ui.sortBy /\ u.pageSize = ui.pageSize
<1>1. ~ui.due /\ UNCHANGED srv
      /\ ui' = [u EXCEPT !.due = <<u.search, u.filterType, u.sortBy, u.pageSize>>
                                    # <<ui.search, ui.filterType, ui.sortBy, ui.pageSize>>]
  BY DEF Addon!Change
<1>2. /\ Has(ui', AddonFields) /\ ui'.due = ~same /\ ui'.page = u.page /\ ui'.catalog = u.catalog
      /\ ui'.addon = u.addon /\ ui'.search = u.search /\ ui'.filterType = u.filterType
      /\ ui'.pageSize = u.pageSize
  BY <1>1 DEF Has, AddonFields
<1>3. Passing(ui') = Passing(u) /\ Pages(ui') = Pages(u)
  BY <1>2 DEF Passing, Pages
<1>4. same => Passing(u) = Passing(ui) /\ Pages(u) = Pages(ui)
  BY DEF Passing, Pages
<1> HIDE DEF same
<1> QED
  BY <1>1, <1>2, <1>3, <1>4 DEF AddonInv, PageOK

LEMMA PageNumberKeeps == ASSUME AddonInv, NEW p, Addon!GoToPage(p) PROVE AddonInv'
<1> DEFINE u == [ui EXCEPT !.page = p]
<1>1. Has(ui, AddonFields) /\ ui.pageSize \in PageSizes /\ srv \in AddonWorlds
      /\ ui.catalog.addons \in {{}, Items(srv)}
  BY DEF AddonInv
<1>2. /\ Has(u, AddonFields) /\ u.catalog = ui.catalog /\ u.addon = ui.addon /\ u.page = p
      /\ u.search = ui.search /\ u.filterType = ui.filterType /\ u.pageSize = ui.pageSize
  BY <1>1 DEF Has, AddonFields
<1>3. p \in 1..Pages(ui) /\ ~(Pages(ui) <= 1)
  BY PassingPages DEF Addon!GoToPage, Addon!PagesOffered
<1>4. Pages(u) = Pages(ui)
  BY <1>2 DEF Pages, Passing
<1>5. ui.catalog.addons # {}
  <2> SUFFICES ASSUME ui.catalog.addons = {} PROVE FALSE
    OBVIOUS
  <2>1. Cardinality(Passing(ui)) = 0
    BY FS_EmptySet DEF Passing
  <2>2. ui.pageSize \in Nat \ {0}
    BY <1>1, CatalogAssumption
  <2>3. 2 \in 1..Pages(ui)
    <3>1. 0 + ui.pageSize - 1 \in Nat
      BY <2>2
    <3>2. Pages(ui) \in Nat
      BY <2>1, <2>2, <3>1, Quotient DEF Pages
    <3> QED
      BY <1>3, <3>2
  <2>4. 2 <= (0 + ui.pageSize - 1) \div ui.pageSize
    BY <2>1, <2>3 DEF Pages
  <2>5. (2 - 1) * ui.pageSize < 0
    BY <2>2, <2>4, PageExists
  <2> QED
    BY <2>2, <2>5
<1>6. Addon!Change(u)
  BY DEF Addon!GoToPage
<1> HIDE DEF u
<1> QED
  BY <1>1, <1>2, <1>3, <1>4, <1>5, <1>6, ChangeKeeps

LEMMA ResetKeeps == ASSUME AddonInv, Addon!ResetPage PROVE AddonInv'
<1>1. /\ UNCHANGED srv /\ Has(ui', AddonFields) /\ ui'.page = 1
      /\ ui'.addon = ui.addon /\ ui'.catalog = ui.catalog /\ ui'.pageSize = ui.pageSize
  BY DEF AddonInv, Addon!ResetPage, Has, AddonFields
<1> QED
  BY <1>1 DEF AddonInv, PageOK

\* The catalog arrives once, or says again what it said.
LEMMA CatalogKeeps == ASSUME AddonInv, NEW c, Addon!ShowCatalog(c) PROVE AddonInv'
<1>1. /\ UNCHANGED srv /\ Has(ui', AddonFields) /\ ui'.catalog = Addon!Catalog(srv)
      /\ ui'.addon = ui.addon /\ ui'.pageSize = ui.pageSize /\ ui'.page = ui.page
      /\ ui'.due = ui.due /\ ui'.search = ui.search /\ ui'.filterType = ui.filterType
  BY DEF AddonInv, Addon!ShowCatalog, Addon!Got, Has, AddonFields
<1>2. ui'.catalog.addons = Items(srv)
  BY <1>1 DEF Addon!Catalog, Items
<1>3. CASE ui.page = 1
  BY <1>1, <1>2, <1>3 DEF AddonInv, PageOK
<1>4. CASE ui.page # 1
  <2>1. ui'.catalog.addons = ui.catalog.addons
    BY <1>2, <1>4 DEF AddonInv
  <2>2. Passing(ui') = Passing(ui) /\ Pages(ui') = Pages(ui)
    BY <1>1, <2>1 DEF Passing, Pages
  <2> QED
    BY <1>1, <2>1, <2>2 DEF AddonInv, PageOK
<1> QED
  BY <1>3, <1>4

LEMMA AnswersKeep == ASSUME AddonInv, Addon!Deliver PROVE AddonInv'
<1>1. ASSUME NEW c, Addon!ShowAddon(c) PROVE AddonInv'
  <2>1. /\ UNCHANGED srv /\ Has(ui', AddonFields) /\ ui'.addon = Item(srv, c.arg[1])
        /\ \A f \in {"catalog", "search", "filterType", "pageSize", "page", "due"} :
              ui'[f] = ui[f]
    BY <1>1 DEF AddonInv, Addon!ShowAddon, Addon!Got, Item, Has, AddonFields
  <2> QED
    BY <2>1, OtherKeeps
<1>2. ASSUME NEW c, Addon!ShowError(c) \/ Addon!ShowValues(c) \/ Addon!NoValues(c)
      PROVE  AddonInv'
  <2>1. /\ UNCHANGED srv /\ Has(ui', AddonFields) /\ ui'.addon = ui.addon
        /\ \A f \in {"catalog", "search", "filterType", "pageSize", "page", "due"} :
              ui'[f] = ui[f]
    BY <1>2 DEF AddonInv, Addon!ShowError, Addon!ShowValues, Addon!NoValues, Addon!Got, Has,
       AddonFields
  <2> QED
    BY <2>1, OtherKeeps
<1> QED
  BY <1>1, <1>2, CatalogKeeps DEF Addon!Deliver, Addon!Answers

LEMMA AddonUser == ASSUME AddonInv, Addon!User PROVE AddonInv'
<1>1. ASSUME NEW item, Addon!OpenAddon(item) PROVE AddonInv'
  BY <1>1, MountedAddon DEF Addon!OpenAddon, AddonInv
<1>2. CASE Addon!BackToAddons
  BY <1>2, MountedAddon DEF Addon!BackToAddons, AddonInv
<1>3. ASSUME NEW x, Addon!GoToAddon(x) \/ Addon!FilterStatus(x) \/ Addon!FilterHealth(x)
      PROVE  AddonInv'
  <2>1. /\ UNCHANGED srv /\ Has(ui', AddonFields) /\ ui'.addon = ui.addon
        /\ \A f \in {"catalog", "search", "filterType", "pageSize", "page", "due"} :
              ui'[f] = ui[f]
    BY <1>3 DEF AddonInv, Addon!GoToAddon, Addon!FilterStatus, Addon!FilterHealth, Addon!Filter,
       Has, AddonFields
  <2> QED
    BY <2>1, OtherKeeps
<1>4. ASSUME NEW a, Addon!SearchAddons(a) PROVE AddonInv'
  <2>1. LET u == [ui EXCEPT !.search = a]
        IN  /\ Addon!Change(u) /\ Has(u, AddonFields) /\ u.pageSize \in PageSizes
            /\ u.catalog = ui.catalog /\ u.addon = ui.addon /\ u.page = ui.page
    BY <1>4 DEF AddonInv, Addon!SearchAddons, Has, AddonFields
  <2> QED
    BY <2>1, ChangeKeeps
<1>5. ASSUME NEW type, Addon!SelectType(type) PROVE AddonInv'
  <2>1. LET u == [ui EXCEPT !.filterType = type]
        IN  /\ Addon!Change(u) /\ Has(u, AddonFields) /\ u.pageSize \in PageSizes
            /\ u.catalog = ui.catalog /\ u.addon = ui.addon /\ u.page = ui.page
    BY <1>5 DEF AddonInv, Addon!SelectType, Has, AddonFields
  <2> QED
    BY <2>1, ChangeKeeps
<1>6. ASSUME NEW s, Addon!SortBy(s) PROVE AddonInv'
  <2>1. LET u == [ui EXCEPT !.sortBy = s]
        IN  /\ Addon!Change(u) /\ Has(u, AddonFields) /\ u.pageSize \in PageSizes
            /\ u.catalog = ui.catalog /\ u.addon = ui.addon /\ u.page = ui.page
    BY <1>6 DEF AddonInv, Addon!SortBy, Has, AddonFields
  <2> QED
    BY <2>1, ChangeKeeps
<1>7. ASSUME NEW n \in PageSizes, Addon!SetPageSize(n) PROVE AddonInv'
  <2>1. LET u == [ui EXCEPT !.pageSize = n]
        IN  /\ Addon!Change(u) /\ Has(u, AddonFields) /\ u.pageSize \in PageSizes
            /\ u.catalog = ui.catalog /\ u.addon = ui.addon /\ u.page = ui.page
    BY <1>7 DEF AddonInv, Addon!SetPageSize, Has, AddonFields
  <2> QED
    BY <2>1, ChangeKeeps
<1> QED
  BY <1>1, <1>2, <1>3, <1>4, <1>5, <1>6, <1>7, PageNumberKeeps DEF Addon!User, Addon!SelectCard

LEMMA AddonNext == ASSUME AddonInv, Addon!Next PROVE AddonInv'
BY AddonUser, AnswersKeep, ResetKeeps DEF Addon!Next, Addon!System

AddonKept == tab = "addon" => AddonInv

LEMMA AddonKeeps == ASSUME AddonKept, [Next]_vars PROVE AddonKept'
<1> SUFFICES ASSUME tab' = "addon" PROVE AddonInv'
  BY DEF AddonKept
<1>1. tab = "addon" /\ AddonInv
  BY TabStays DEF AddonKept
<1>2. CASE Addon!Next
  BY <1>1, <1>2, AddonNext
<1>3. CASE UNCHANGED vars
  <2>1. \A f \in {"catalog", "search", "filterType", "pageSize", "page", "due"} : ui'[f] = ui[f]
    BY <1>3 DEF vars
  <2> QED
    BY <1>1, <1>3, <2>1, OtherKeeps DEF vars, AddonInv
<1> QED
  BY <1>1, <1>2, <1>3 DEF Next, Step

LEMMA AddonStays == Spec => []AddonKept
<1>1. Init => AddonKept
  <2> SUFFICES ASSUME Addon!Init PROVE AddonInv
    BY DEF Init, AddonKept
  <2>1. srv \in AddonWorlds /\ ui = Addon!Mounted(Absent)
    BY DEF Addon!Init
  <2> QED
    BY <2>1, MountedIs DEF AddonInv, PageOK
<1> QED
  BY <1>1, AddonKeeps, PTL DEF Spec

(* The numbers on an addon's page are those of its rows, whichever answer   *)
(* came last: the server counts by words of its own while it lists the      *)
(* applications (GetCatalog, addon.go), and the page filters the list by    *)
(* the words it was sent (AddonDetail.tsx).                                 *)
THEOREM AddonNumbersAreRows == Spec => []AddonCountsMatchRows
<1>1. AddonKept => AddonCountsMatchRows
  <2> SUFFICES ASSUME AddonInv PROVE Addon!AddonCountsMatchRows
    BY DEF AddonKept, AddonCountsMatchRows
  <2>1. srv \in AddonWorlds /\ (ui.addon = Addon!NoAddon \/ \E a : ui.addon = Item(srv, a))
    BY DEF AddonInv
  <2> QED
    BY <2>1, CountsOfRows, NoCountsNoRows, AddonCounts DEF Addon!AddonCountsMatchRows
<1> QED
  BY <1>1, AddonStays, PTL

(* Whatever was searched, filtered, sorted or resized, and however many     *)
(* addons there are, the catalog's page shows one whenever one passes, and  *)
(* its pages show each exactly once (AddonCatalog.tsx).                     *)
THEOREM CatalogIsComplete == Spec => []CatalogPagesComplete
<1>1. AddonKept => CatalogPagesComplete
  <2> SUFFICES ASSUME AddonInv, ~ui.due, Passing(ui) # {}
               PROVE  /\ Addon!PaginatedAddons(ui.page) # {}
                      /\ UNION {Addon!PaginatedAddons(p) : p \in 1..Pages(ui)} = Passing(ui)
                      /\ \A p, q \in 1..Pages(ui) :
                           p # q => Addon!PaginatedAddons(p) \cap Addon!PaginatedAddons(q) = {}
    BY PassingPages DEF AddonKept, CatalogPagesComplete, Addon!CatalogPagesComplete
  <2>1. srv \in AddonWorlds /\ ui.catalog.addons \in {{}, Items(srv)} /\ ui.pageSize \in PageSizes
    BY DEF AddonInv
  <2>2. ui.page \in 1..Pages(ui)
    <3>1. CASE ui.page = 1
      <4> DEFINE n == Cardinality(Passing(ui))
      <4>1. n \in Nat /\ n # 0 /\ ui.pageSize \in Nat \ {0}
        BY <2>1, PassingItems, FS_EmptySet, CatalogAssumption
      <4>2. n + ui.pageSize - 1 \in Nat
        BY <4>1
      <4>3. Pages(ui) \in Nat
        BY <4>1, <4>2, Quotient DEF Pages
      <4>4. (1 - 1) * ui.pageSize < n
        BY <4>1
      <4>5. 1 <= Pages(ui)
        BY <4>1, <4>4, PageExists DEF Pages
      <4> QED
        BY <3>1, <4>3, <4>5
    <3> QED
      BY <3>1 DEF AddonInv, PageOK
  <2> QED
    BY <2>1, <2>2, Slices
<1> QED
  BY <1>1, AddonStays, PTL
=============================================================================
