--------------------------- MODULE MigrationDialog ---------------------------
(***************************************************************************)
(* The list of migrations (ui/src/views/MigrationPage.tsx) and the dialog  *)
(* that starts one, or a batch of them, from it                            *)
(* (ui/src/components/NewMigrationDialog.tsx): what to migrate, then a     *)
(* cluster, then the addons.  The choices can be changed while an answer   *)
(* to an earlier one is on its way, and the dialog closed at any time.     *)
(***************************************************************************)
EXTENDS Http, SequencesExt

CONSTANTS Clusters, Addons,  \* of the old repository
          Todo,              \* what may still have to be migrated
          Nothing            \* no cluster

VARIABLES ui, net,
          srv   \* the addons of every cluster that are still to be migrated

vars == <<ui, net, srv>>

Scopes == {"single", "multiple", "cluster"}

\* `listed' is the cluster whose addons the dialog lists.
Choice == [scope |-> "single", cluster |-> Nothing, selected |-> <<>>]

Init == /\ srv \in Todo
        /\ ui = [choice |-> Choice, listed |-> Nothing, open |-> FALSE, starting |-> FALSE,
                 listing |-> FALSE, loading |-> TRUE, error |-> FALSE, active |-> FALSE,
                 gone |-> FALSE]
        /\ net = Send(NoCalls, "migrations", <<>>)

Set(u) == ui' = u /\ UNCHANGED <<net, srv>>

ToMigrate(c) == IF c = Nothing THEN {} ELSE srv[c]

----------------------------------------------------------------------------
(* The user. *)

Refetch == /\ ui.error /\ ~ui.gone /\ Room(net, 1)
           /\ ui' = [ui EXCEPT !.error = FALSE]
           /\ net' = Send(net, "migrations", <<>>)
           /\ UNCHANGED srv

\* New Migration: the page has seen no migration that is under way.  The lists
\* of the old repository are left out.
OpenDialog == ~ui.gone /\ ~ui.active /\ ~ui.open /\ Set([ui EXCEPT !.open = TRUE])

CloseDialog == ui.open /\ Set([ui EXCEPT !.open = FALSE])

\* handleClusterChange, with the scope of this render.
ListAddons(u, cluster) ==
    LET v == [u EXCEPT !.choice.cluster = cluster, !.choice.selected = <<>>, !.listed = Nothing]
    IN  IF u.choice.scope = "cluster"
        THEN /\ Room(net, 1)
             /\ ui' = [v EXCEPT !.listing = TRUE]
             /\ net' = Send(net, "addons", <<cluster>>)
             /\ UNCHANGED srv
        ELSE Set(v)

ChangeCluster(c) == ui.open /\ ~ui.starting /\ ListAddons(ui, c)

\* A scope button, and the effect on [scope].
ChangeScope(s) ==
    LET u == [ui EXCEPT !.choice.scope = s, !.choice.selected = <<>>]
    IN  /\ ui.open
        /\ IF s = "cluster" /\ s # ui.choice.scope /\ ui.choice.cluster # Nothing
           THEN ListAddons(u, u.choice.cluster)
           ELSE Set(u)

\* The select of the scope single, handleAddonToggle of the scope multiple.
Toggled(s, a) == IF Contains(s, a) THEN SelectSeq(s, LAMBDA x : x # a) ELSE Append(s, a)

ChooseAddon(a) == /\ ui.open /\ ~ui.starting /\ ui.choice.scope # "cluster"
                  /\ Set([ui EXCEPT !.choice.selected = IF ui.choice.scope = "single" THEN <<a>>
                                                        ELSE Toggled(@, a)])

\* The button says how many addons it migrates.
Promised == IF ui.choice.scope = "cluster" THEN Cardinality(ToMigrate(ui.listed))
            ELSE IF ui.choice.scope = "multiple" THEN Len(ui.choice.selected) ELSE 1

\* handleStart: a batch, or the first addon.  Beside what is sent the call keeps,
\* for StartsOneList alone, the number on the button and whose list was shown.
Started(choice) == IF choice.scope = "cluster" THEN choice.selected ELSE <<Head(choice.selected)>>

Start == /\ ui.open /\ ~ui.starting
         /\ ui.choice.cluster # Nothing /\ ui.choice.selected # <<>>
         /\ Room(net, 1)
         /\ ui' = [ui EXCEPT !.starting = TRUE]
         /\ net' = Send(net, "start",
                        [cluster |-> ui.choice.cluster, addons |-> Started(ui.choice),
                         promised |-> Promised,
                         list |-> IF ui.choice.scope = "cluster" THEN ui.listed ELSE Nothing])
         /\ UNCHANGED srv

----------------------------------------------------------------------------
(* The answers; any request may fail.  What is still to be migrated does     *)
(* not change before a start succeeds, and then the page is left.           *)

Got(c, u) == /\ ui' = u
             /\ net' = Settled(net, c)
             /\ UNCHANGED srv

\* Another operator may have a migration under way.
ShowMigrations(c) == \E active \in BOOLEAN :
                        Got(c, [ui EXCEPT !.active = active, !.loading = FALSE])

ShowError(c) == Got(c, [ui EXCEPT !.error = TRUE, !.loading = FALSE])

\* Mutant: added to what is selected.
ShowAddonsToo(c) == Got(c, [ui EXCEPT !.listed = c.arg[1], !.listing = FALSE,
                                      !.choice.selected = @ \o SetToSeq(ToMigrate(c.arg[1]))])

\* All that can be migrated is selected at once.
ShowAddons(c) == Got(c, [ui EXCEPT !.listed = c.arg[1], !.listing = FALSE,
                                   !.choice.selected = SetToSeq(ToMigrate(c.arg[1]))])

NoAddons(c) == Got(c, [ui EXCEPT !.listing = FALSE])

\* A batch is started by two requests: its first migration is fetched, too.
StartsBatch(c) == Len(c.arg.addons) > 1

BatchStarted(c) == /\ c.kind = "start" /\ StartsBatch(c)
                   /\ net' = Send(Settled(net, c), "first", c.arg)
                   /\ UNCHANGED <<ui, srv>>

\* handleStarted: the dialog closes and the page of the migration opens.
Opened(c) == /\ c.kind = "first" \/ ~StartsBatch(c)
             /\ ui' = [ui EXCEPT !.open = FALSE, !.gone = TRUE, !.starting = FALSE, !.choice = Choice]
             /\ net' = NoCalls
             /\ UNCHANGED srv

\* The choice stays, to be started once more.
StartFailed(c) == Got(c, [ui EXCEPT !.starting = FALSE])

Starts == InFlight(net, "start") \cup InFlight(net, "first")

\* The answers a spinner waits for.
Answers(s) ==
    \/ s = "page" /\ \E c \in InFlight(net, "migrations") : ShowMigrations(c) \/ ShowError(c)
    \/ s = "part" /\ \E c \in InFlight(net, "addons") : ShowAddons(c) \/ NoAddons(c)
    \/ s = "action" /\ \E c \in Starts : BatchStarted(c) \/ Opened(c) \/ StartFailed(c)

Deliver == \E s \in Spinners : Answers(s)

User == \/ Refetch \/ OpenDialog \/ CloseDialog \/ Start
        \/ \E c \in Clusters : ChangeCluster(c)
        \/ \E s \in Scopes : ChangeScope(s)
        \/ \E a \in Addons : ChooseAddon(a)

Next == User \/ Deliver

Spec == Init /\ [][Next]_vars

----------------------------------------------------------------------------
(* One start is under way at most, whatever is closed, opened and chosen     *)
(* meanwhile.  One for a whole cluster is the list that the dialog shows at *)
(* that moment: all that is still to be migrated on the cluster the list is *)
(* of, none twice, as many as the button says, never a mixture of two       *)
(* lists; any other is a single addon (NewMigrationDialog.tsx).  Whether    *)
(* the list shown is of the cluster chosen is not part of it: a late answer *)
(* for another cluster is shown, and started, for the one chosen since.     *)
StartsOneList ==
    /\ Cardinality(Starts) = IF ui.starting THEN 1 ELSE 0
    /\ \A s \in Starts :
          LET a == s.arg
          IN  IF a.list = Nothing THEN Len(a.addons) = 1
              ELSE /\ ToSet(a.addons) = srv[a.list]
                   /\ Len(a.addons) = Cardinality(srv[a.list])
                   /\ Len(a.addons) = a.promised

Spins(s) == /\ ~ui.gone
            /\ \/ s = "page" /\ ui.loading
               \/ s = "part" /\ ui.listing
               \/ s = "action" /\ ui.starting
=============================================================================
