-------------------------- MODULE ObservabilityPage --------------------------
(***************************************************************************)
(* The observability page (ui/src/views/Observability.tsx): the groups of  *)
(* applications, by addon or by cluster, and the metrics of a cluster that *)
(* are fetched, once for all groups, when a group it is in is opened.      *)
(***************************************************************************)
EXTENDS Http

CONSTANTS Addons, Clusters

VARIABLES ui, net,
          srv   \* the applications, and whether Datadog is configured: fixed

vars == <<ui, net, srv>>

\* The section with the groups; `blind' are the groups that were opened before
\* the page knew of Datadog.
Section == [dd |-> "unknown", groupBy |-> "addon", expanded |-> {}, blind |-> {},
            cache |-> {}, loading |-> {}]

Init == /\ srv \in [apps : SUBSET (Addons \X Clusters), dd : BOOLEAN]
        /\ ui = [loading |-> TRUE, error |-> FALSE, section |-> Section]
        /\ net = Send(NoCalls, "overview", <<>>)

Shown == ~ui.loading /\ ~ui.error /\ srv.apps # {}

\* buildAddonGroups at the server, and the page's pivot of it.
Groups == IF ui.section.groupBy = "addon" THEN {app[1] : app \in srv.apps}
                                          ELSE {app[2] : app \in srv.apps}

ClustersOf(group) == {app[2] : app \in {x \in srv.apps : group \in {x[1], x[2]}}}

----------------------------------------------------------------------------
(* The user. *)

Retry == /\ ui.error
         /\ Room(net, 1)
         /\ ui' = [ui EXCEPT !.loading = TRUE, !.error = FALSE]
         /\ net' = Send(net, "overview", <<>>)
         /\ UNCHANGED srv

\* Mutant: what is on its way is asked for again.
MissingInCache(group) == IF ui.section.dd = "yes" THEN ClustersOf(group) \ ui.section.cache ELSE {}

\* fetchClusterMetrics: what is neither in the cache, even as a failure, nor
\* on its way.
Missing(group) == IF ui.section.dd = "yes"
                  THEN ClustersOf(group) \ (ui.section.cache \cup ui.section.loading) ELSE {}

\* toggle
Expand(group) ==
    LET wanted == Missing(group)
    IN  /\ Shown /\ group \in Groups \ ui.section.expanded
        /\ Room(net, Cardinality(wanted))
        /\ ui' = [ui EXCEPT !.section.expanded = @ \cup {group},
                            !.section.loading = @ \cup wanted,
                            !.section.blind = IF ui.section.dd = "unknown" THEN @ \cup {group} ELSE @]
        /\ net' = net (+) SetToBag({Call("metrics", <<c>>) : c \in wanted})
        /\ UNCHANGED srv

Collapse(group) == /\ Shown /\ group \in ui.section.expanded
                   /\ ui' = [ui EXCEPT !.section.expanded = @ \ {group},
                                       !.section.blind = @ \ {group}]
                   /\ UNCHANGED <<net, srv>>

handleGroupByChange(mode) ==
    /\ Shown /\ mode # ui.section.groupBy
    /\ ui' = [ui EXCEPT !.section.groupBy = mode, !.section.expanded = {}, !.section.blind = {}]
    /\ UNCHANGED <<net, srv>>

----------------------------------------------------------------------------
(* The answers; any request may fail. *)

Got(c, u) == /\ ui' = u
             /\ net' = Settled(net, c)
             /\ UNCHANGED srv

\* The section is there for the first time, and asks about Datadog.
ShowOverview(c) ==
    /\ ui' = [ui EXCEPT !.loading = FALSE, !.section = Section]
    /\ net' = IF srv.apps = {} THEN Settled(net, c) ELSE Send(Settled(net, c), "dd-status", <<>>)
    /\ UNCHANGED srv

ShowError(c) == Got(c, [ui EXCEPT !.loading = FALSE, !.error = TRUE])

ShowStatus(c) == Got(c, [ui EXCEPT !.section.dd = IF srv.dd THEN "yes" ELSE "no"])

NoStatus(c) == Got(c, [ui EXCEPT !.section.dd = "no"])

\* The metrics, or the fact that there are none.
ShowMetrics(c) == Got(c, [ui EXCEPT !.section.cache = @ \cup {c.arg[1]},
                                    !.section.loading = @ \ {c.arg[1]}])

\* The answers a spinner waits for.
Answers(s) ==
    \/ s = "page" /\ \E c \in InFlight(net, "overview") : ShowOverview(c) \/ ShowError(c)
    \/ s = "part" /\ \E c \in InFlight(net, "metrics") : ShowMetrics(c)

Deliver == \/ \E s \in Spinners : Answers(s)
           \/ \E c \in InFlight(net, "dd-status") : ShowStatus(c) \/ NoStatus(c)

User == \/ Retry
        \/ \E g \in Groups : Expand(g) \/ Collapse(g)
        \/ \E mode \in {"addon", "cluster"} : handleGroupByChange(mode)

Next == User \/ Deliver

Spec == Init /\ [][Next]_vars

----------------------------------------------------------------------------
(* The metrics of every cluster in an open group are there or asked for     *)
(* once, however groups that share clusters are opened, closed and          *)
(* regrouped meanwhile, unless the group was opened before the page knew    *)
(* that Datadog is configured (fetchClusterMetrics, Observability.tsx).     *)
MetricsAskedOnce ==
    /\ Shown /\ ui.section.dd = "yes" =>
          \A g \in ui.section.expanded \ ui.section.blind :
              ClustersOf(g) \subseteq ui.section.cache \cup ui.section.loading
    /\ \A c \in BagToSet(net) : net[c] = 1
    /\ \A c, d \in InFlight(net, "metrics") : c.arg = d.arg => c = d
    /\ ui.section.loading = {c.arg[1] : c \in InFlight(net, "metrics")}

Spins(s) == \/ s = "page" /\ ui.loading
            \/ s = "part" /\ ui.section.loading # {}
=============================================================================
