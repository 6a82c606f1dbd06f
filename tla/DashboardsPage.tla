--------------------------- MODULE DashboardsPage ---------------------------
(***************************************************************************)
(* The embedded dashboards (ui/src/views/Dashboards.tsx and                *)
(* ui/src/hooks/useDashboards.ts): the page keeps the list, and saves all  *)
(* of it after every change, to the server or, when that fails, to the     *)
(* browser's storage.                                                      *)
(***************************************************************************)
EXTENDS Http

CONSTANTS Inputs,         \* what the fields of the form may hold
          SavedLists,     \* lists of dashboard 1 that may be stored
          MaxDashboards,  \* identifiers there are (a bound of the model)
          NoFields,       \* no form
          NoId            \* null

VARIABLES ui, net,
          srv   \* the stored list, the one in the browser's storage if any,
                \* and whether page and server may have gone apart by now

vars == <<ui, net, srv>>

Ids == 1..MaxDashboards

Dashboard(id, x) == [id |-> id, x |-> x]

Shown(id) == \E d \in ui.list : d.id = id

FieldsOf(id) == (CHOOSE d \in ui.list : d.id = id).x

\* New dashboards go to the end of the list: identifiers order it.
First == CHOOSE id \in Ids : Shown(id) /\ \A d \in ui.list : id <= d.id

\* effectiveSelected: the one that was clicked, or the first.
EffectiveSelected == IF Shown(ui.selected) THEN ui.selected
                     ELSE IF ui.list # {} THEN First ELSE NoId

\* The edit form is there while the dashboard it edits is.
EditShown == Shown(ui.editing)

Init == /\ \E stored \in SavedLists, browser \in {{}} \cup {{list} : list \in SavedLists} :
              srv = [stored |-> stored, browser |-> browser, apart |-> FALSE]
        /\ ui = [list |-> {}, loaded |-> FALSE, selected |-> NoId, showForm |-> FALSE,
                 editing |-> NoId, x |-> NoFields, next |-> 2]
        /\ net = Send(NoCalls, "dashboards", <<>>)

\* A form that disappears is unmounted, and what it held is lost.
Render(u) == ui' = IF \E d \in u.list : d.id = u.editing THEN u
                   ELSE [u EXCEPT !.x = NoFields]

Set(u) == Render(u) /\ UNCHANGED <<net, srv>>

----------------------------------------------------------------------------
(* The user. *)

Select(id) == Shown(id) /\ Set([ui EXCEPT !.selected = id])

\* The button of the sidebar, or that of the empty page; before the list has
\* been loaded the page looks empty.
OpenAdd == Set([ui EXCEPT !.showForm = TRUE, !.editing = NoId])

CancelAdd == ui.showForm /\ Set([ui EXCEPT !.showForm = FALSE])

\* handleEdit.  The form takes its fields when it appears; a form that is
\* there already keeps them.
Edit == LET id == EffectiveSelected
        IN  /\ id # NoId
            /\ Set([ui EXCEPT !.editing = id, !.showForm = FALSE,
                              !.x = IF EditShown THEN @ ELSE FieldsOf(id)])

CancelEdit == EditShown /\ Set([ui EXCEPT !.editing = NoId])

Type(x) == EditShown /\ Set([ui EXCEPT !.x = x])

\* Mutant: the list of the last render is sent.
PersistRendered(u, list) ==
    /\ Room(net, 1)
    /\ Render([u EXCEPT !.list = list])
    /\ net' = Send(net, "save", <<ui.list>>)
    /\ srv' = [srv EXCEPT !.apart = net # NoCalls]

\* persist: the page shows the list and sends it, all of it.  Alone on its
\* way, it brings the two together again, whatever was lost before.
Persist(u, list) ==
    /\ Room(net, 1)
    /\ Render([u EXCEPT !.list = list])
    /\ net' = Send(net, "save", <<list>>)
    /\ srv' = [srv EXCEPT !.apart = net # NoCalls]

\* handleAdd with addDashboard
Add(x) == /\ ui.showForm /\ ui.next <= MaxDashboards
          /\ Persist([ui EXCEPT !.showForm = FALSE, !.next = @ + 1],
                     ui.list \cup {Dashboard(ui.next, x)})

\* handleUpdate with updateDashboard
Update == /\ EditShown
          /\ Persist([ui EXCEPT !.editing = NoId],
                     {IF d.id = ui.editing THEN Dashboard(d.id, ui.x) ELSE d : d \in ui.list})

\* handleRemove with removeDashboard
Remove == LET id == EffectiveSelected
          IN  /\ id # NoId
              /\ Persist([ui EXCEPT !.selected = IF @ = id THEN NoId ELSE @,
                                    !.editing = IF @ = id THEN NoId ELSE @],
                         {d \in ui.list : d.id # id})

----------------------------------------------------------------------------
(* The answers.  A request is handled when its answer is delivered, in any   *)
(* order; any of them may fail, and then what is shown and what is stored    *)
(* may be different lists.                                                  *)

\* Another list may take the form away.
ShowList(c, list, apart) == /\ Render([ui EXCEPT !.list = list, !.loaded = TRUE])
                            /\ net' = Settled(net, c)
                            /\ srv' = [srv EXCEPT !.apart = @ \/ apart]

Listed(c) == ShowList(c, srv.stored, FALSE)

\* handleListDashboards: when the stored list cannot be read the answer is an
\* empty one.
ListedEmpty(c) == ShowList(c, {}, TRUE)

\* Without an answer: the list of the browser's storage, when it has one.
ListFailed(c) == \E list \in IF srv.browser = {} THEN {ui.list} ELSE srv.browser :
                    ShowList(c, list, TRUE)

\* handleSaveDashboards
Saved(c) == /\ srv' = [srv EXCEPT !.stored = c.arg[1]]
            /\ net' = Settled(net, c)
            /\ UNCHANGED ui

\* The list goes to the browser's storage, which is read when a page opens.
SaveFailed(c) == /\ srv' = [srv EXCEPT !.apart = TRUE, !.browser = {c.arg[1]}]
                 /\ net' = Settled(net, c)
                 /\ UNCHANGED ui

\* The answers the page waits for: it shows nothing before its list.
Answers(s) ==
    /\ s = "page"
    /\ \E c \in InFlight(net, "dashboards") : Listed(c) \/ ListedEmpty(c) \/ ListFailed(c)

Deliver == \/ \E s \in Spinners : Answers(s)
           \/ \E c \in InFlight(net, "save") : Saved(c) \/ SaveFailed(c)

User == \/ OpenAdd \/ CancelAdd \/ Edit \/ CancelEdit \/ Update \/ Remove
        \/ \E id \in Ids : Select(id)
        \/ \E x \in Inputs : Type(x) \/ Add(x)

Next == User \/ Deliver

Spec == Init /\ [][Next]_vars

----------------------------------------------------------------------------
(* The page shows what is stored once nothing is under way (persist,        *)
(* useDashboards.ts), unless the last change was made while a request was   *)
(* under way, or a request has failed since: a list that could not be read, *)
(* a save that failed or was overtaken are where the two go apart.  The     *)
(* next change that is made alone ends that.                                *)
PageIsStored == (net = NoCalls /\ ~srv.apart) => ui.list = srv.stored

Spins(s) == s = "page" /\ ~ui.loaded
=============================================================================
