----------------------------- MODULE AddonPages -----------------------------
(***************************************************************************)
(* The catalog of addons and the page of one addon                         *)
(* (ui/src/views/{AddonCatalog,AddonDetail}.tsx): filters, sorting and     *)
(* pages of the catalog, and the applications of an addon with the numbers *)
(* the server counted (GetCatalog, service/addon.go).                      *)
(***************************************************************************)
EXTENDS Http, Fleet

CONSTANTS AddonWorlds,  \* what Git and ArgoCD may hold
          PageSizes,    \* 15, 30 and 60 in the code
          NameRank,     \* the order of the addons' names
          CatalogRank   \* their order in the catalog file

VARIABLES ui, net, srv

vars == <<ui, net, srv>>

----------------------------------------------------------------------------
(* The catalog. *)

FilterTypes == {"all", "healthy", "unhealthy", "git-only"}

PassesType(type, item) ==
    CASE type = "all" -> TRUE
      [] type = "healthy" -> /\ item.enabled_clusters > 0
                             /\ item.degraded_applications = 0
                             /\ item.missing_applications = 0
      [] type = "unhealthy" -> item.degraded_applications > 0 \/ item.missing_applications > 0
      [] type = "git-only" -> item.enabled_clusters = 0

FilteredAddons == {item \in ui.catalog.addons : /\ ui.search \in {Absent, item.name}
                                                /\ PassesType(ui.filterType, item)}

\* The comparison of a stable sort over the catalog's order.
Before(x, y) ==
    IF ui.sortBy = "name" THEN NameRank[x.name] < NameRank[y.name]
    ELSE \/ x.enabled_clusters > y.enabled_clusters
         \/ /\ x.enabled_clusters = y.enabled_clusters
            /\ CatalogRank[x.name] < CatalogRank[y.name]

Rank(item) == 1 + Cardinality({x \in FilteredAddons : Before(x, item)})

TotalPages == (Cardinality(FilteredAddons) + ui.pageSize - 1) \div ui.pageSize

\* slice(start, start + pageSize)
PaginatedAddons(page) ==
    {item \in FilteredAddons : /\ Rank(item) > (page - 1) * ui.pageSize
                               /\ Rank(item) <= page * ui.pageSize}

\* Prev, Next and the numbers: the first, the last and the neighbours.
PagesOffered ==
    IF TotalPages <= 1 THEN {}
    ELSE {p \in 1..TotalPages : p \in {1, TotalPages, ui.page - 1, ui.page, ui.page + 1}}

----------------------------------------------------------------------------
(* The page of one addon. *)

\* Mutant: on every cluster.
ApplicationsEverywhere(w, a) ==
    {[cluster |-> c, status |-> DeploymentStatus(w, a, c), health |-> w.app[a][c]] : c \in w.git}

\* The applications of an addon, as GetCatalog lists them.
Applications(w, a) ==
    {[cluster |-> c,
      status  |-> DeploymentStatus(w, a, c),
      health  |-> w.app[a][c]] : c \in EnabledOn(w, a)}

\* The health filter compares in lower case; an option reads Unknown when the
\* application has no health at all.
PassesHealth(filter, app) ==
    \/ filter = "all"
    \/ app.health # Absent /\ filter = app.health

HealthOptions == {IF app.health = Absent THEN "Unknown" ELSE app.health : app \in ui.addon.apps}

FilteredApps(status, health) ==
    {app \in ui.addon.apps : status \in {"all", app.status} /\ PassesHealth(health, app)}

----------------------------------------------------------------------------
(* Opening a page. *)

NoItem == [name |-> Absent, enabled_clusters |-> 0, healthy_applications |-> 0,
           degraded_applications |-> 0, missing_applications |-> 0]

NoAddon == [item |-> NoItem, apps |-> {}]

Mounted(name) ==
    [name |-> name, loading |-> TRUE, error |-> FALSE,
     catalog |-> [addons |-> {}, total_addons |-> 0, addons_only_in_git |-> 0],
     search |-> Absent, filterType |-> "all", sortBy |-> "name",
     pageSize |-> CHOOSE n \in PageSizes : \A m \in PageSizes : n <= m,
     page |-> 1, due |-> FALSE,
     addon |-> NoAddon, values |-> Absent, status |-> "all", health |-> "all"]

\* The two requests of the detail page that change what it shows.
FetchAddon(n, a) == Send(Send(n, "addon", <<a>>), "values", <<a>>)

Init == /\ srv \in AddonWorlds
        /\ ui = Mounted(Absent)
        /\ net = Send(NoCalls, "catalog", <<>>)

OnCatalog == ui.name = Absent /\ ~ui.loading /\ ~ui.error

OnDetail == ui.name # Absent /\ ~ui.loading /\ ~ui.error

\* A row or a card of the catalog, its page mounted afresh.
OpenAddon(item) == /\ OnCatalog /\ ~ui.due
                   /\ item \in PaginatedAddons(ui.page)
                   /\ ui' = Mounted(item.name)
                   /\ net' = FetchAddon(NoCalls, item.name)
                   /\ UNCHANGED srv

\* Back to addons: the router mounts the catalog afresh.
BackToAddons == /\ ui.name # Absent
                /\ ui' = Mounted(Absent)
                /\ net' = Send(NoCalls, "catalog", <<>>)
                /\ UNCHANGED srv

\* The command palette opens another addon while this page stays mounted: only
\* the effect on `name' runs, and it resets nothing.
GoToAddon(a) == /\ ui.name \notin {Absent, a}
                /\ Room(net, 2)
                /\ ui' = [ui EXCEPT !.name = a]
                /\ net' = FetchAddon(net, a)
                /\ UNCHANGED srv

----------------------------------------------------------------------------
(* Using the catalog.  The effect on [search, filterType, sortBy, pageSize]  *)
(* goes back to page 1 once the change has been rendered.                   *)

\* Mutant: no effect.
ChangeOnPage(u) == OnCatalog /\ ui' = u /\ UNCHANGED <<net, srv>>

Change(u) == /\ OnCatalog /\ ~ui.due
             /\ ui' = [u EXCEPT !.due = <<u.search, u.filterType, u.sortBy, u.pageSize>>
                                         # <<ui.search, ui.filterType, ui.sortBy, ui.pageSize>>]
             /\ UNCHANGED <<net, srv>>

SearchAddons(a) == Change([ui EXCEPT !.search = a])

SelectType(type) == Change([ui EXCEPT !.filterType = type])

\* handleStatFilter, a click on a card: a second one takes the filter away.
SelectCard(type) == SelectType(IF ui.filterType = type THEN "all" ELSE type)

SortBy(s) == Change([ui EXCEPT !.sortBy = s])

SetPageSize(n) == Change([ui EXCEPT !.pageSize = n])

GoToPage(p) == p \in PagesOffered /\ Change([ui EXCEPT !.page = p])

ResetPage == /\ ui.due
             /\ ui' = [ui EXCEPT !.page = 1, !.due = FALSE]
             /\ UNCHANGED <<net, srv>>

(* Using the page of an addon. *)

Filter(u) == OnDetail /\ ui' = u /\ UNCHANGED <<net, srv>>

FilterStatus(s) == Filter([ui EXCEPT !.status = s])

FilterHealth(h) == Filter([ui EXCEPT !.health = h])

----------------------------------------------------------------------------
(* The answers. *)

Got(c, u) == /\ ui' = u
             /\ net' = Settled(net, c)
             /\ UNCHANGED srv

ShowCatalog(c) == Got(c, [ui EXCEPT !.catalog = Catalog(srv), !.loading = FALSE])

ShowAddon(c) ==
    Got(c, [ui EXCEPT !.addon = [item |-> CatalogItem(srv, c.arg[1]),
                                 apps |-> Applications(srv, c.arg[1])],
                      !.loading = FALSE])

ShowError(c) == Got(c, [ui EXCEPT !.error = TRUE, !.loading = FALSE])

ShowValues(c) == Got(c, [ui EXCEPT !.values = c.arg[1]])

\* An addon without a values file is no error.
NoValues(c) == Got(c, ui)

\* The answers a spinner waits for.
Answers(s) == /\ s = "page"
              /\ \/ \E c \in Sent(net, "catalog") : ShowCatalog(c) \/ ShowError(c)
                 \/ \E c \in Sent(net, "addon") : ShowAddon(c) \/ ShowError(c)

Deliver == \/ \E s \in Spinners : Answers(s)
           \/ \E c \in Sent(net, "values") : ShowValues(c) \/ NoValues(c)

User == \/ \E item \in FilteredAddons : OpenAddon(item)
        \/ BackToAddons
        \/ \E a \in Addons : GoToAddon(a)
        \/ \E a \in Addons \cup {Absent} : SearchAddons(a)
        \/ \E type \in FilterTypes : SelectType(type) \/ SelectCard(type)
        \/ \E s \in {"name", "applications"} : SortBy(s)
        \/ \E n \in PageSizes : SetPageSize(n)
        \/ \E p \in PagesOffered : GoToPage(p)
        \/ \E s \in {"all"} \cup {app.status : app \in ui.addon.apps} : FilterStatus(s)
        \/ \E h \in {"all"} \cup HealthOptions : FilterHealth(h)

System == ResetPage \/ Deliver

Next == User \/ System

Spec == Init /\ [][Next]_vars

----------------------------------------------------------------------------
(* Whatever was searched, filtered, sorted or resized, the catalog shows an *)
(* addon whenever one passes, and its pages together show each exactly once *)
(* (AddonCatalog.tsx: the page number is state of its own, put back by an   *)
(* effect, and the slice is taken from a list that is computed anew).       *)
CatalogPagesComplete ==
    (OnCatalog /\ ~ui.due /\ FilteredAddons # {}) =>
        /\ PaginatedAddons(ui.page) # {}
        /\ UNION {PaginatedAddons(p) : p \in 1..TotalPages} = FilteredAddons
        /\ \A p, q \in 1..TotalPages :
               p # q => PaginatedAddons(p) \cap PaginatedAddons(q) = {}

(* The numbers on an addon's page are those of its rows: the server counts  *)
(* them while it lists the applications (addon.go), the page filters the    *)
(* list by the words the server used (AddonDetail.tsx), and both belong to  *)
(* the same addon whichever answer came last.                               *)
AddonCountsMatchRows ==
    OnDetail =>
        /\ ui.addon.item.enabled_clusters = Cardinality(FilteredApps("all", "all"))
        /\ ui.addon.item.healthy_applications = Cardinality(FilteredApps("all", "Healthy"))
        /\ ui.addon.item.degraded_applications = Cardinality(FilteredApps("all", "Degraded"))
        /\ ui.addon.item.missing_applications = Cardinality(FilteredApps("missing", "all"))

Spins(s) == s = "page" /\ ui.loading
=============================================================================
