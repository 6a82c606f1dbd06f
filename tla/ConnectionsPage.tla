-------------------------- MODULE ConnectionsPage --------------------------
(***************************************************************************)
(* The connections of the settings page (ui/src/views/Connections.tsx and  *)
(* the list it gets from ui/src/hooks/useConnections.tsx): a form that     *)
(* adds a connection, a form that edits one in place, and the tests of     *)
(* both.  Nothing closes a form while it is being saved, and nobody stops  *)
(* the user from typing on.  The page disappears behind a spinner, but     *)
(* keeps its state, whenever the list is fetched.                          *)
(***************************************************************************)
EXTENDS Http

CONSTANTS Names,     \* connections that exist
          Contents,  \* what the user may type into a form
          Tested,    \* what has a Test button of its own: git and argocd
          NoName     \* no connection: null, or the form that adds one

VARIABLES ui, net,
          srv   \* the contents that Git and ArgoCD accept: fixed

vars == <<ui, net, srv>>

Forms == {"add", "edit"}

Statuses(s) == [which \in Tested |-> s]

\* A form's fields: whose connection they were filled in for, and what they
\* hold: nothing, what is stored, or what was typed.
Fields(name, x) == [of |-> name, x |-> x]

Closed == [name |-> NoName, fields |-> Fields(NoName, "empty"),
           status |-> Statuses("idle"), saving |-> FALSE]

Init == /\ srv \in SUBSET (Contents \cup {"stored"})
        /\ ui = [loading |-> TRUE, error |-> FALSE, showAdd |-> FALSE,
                 add |-> Closed, edit |-> Closed]
        /\ net = Send(NoCalls, "list", <<>>)

Shown == ~ui.loading /\ ~ui.error

FormShown(k) == Shown /\ IF k = "add" THEN ui.showAdd ELSE ui.edit.name # NoName

Set(u) == ui' = u /\ UNCHANGED <<net, srv>>

\* fetchConnections
Refresh(u) == [u EXCEPT !.loading = TRUE, !.error = FALSE]

----------------------------------------------------------------------------
(* The user. *)

Retry == /\ ui.error
         /\ Room(net, 1)
         /\ ui' = Refresh(ui)
         /\ net' = Send(net, "list", <<>>)
         /\ UNCHANGED srv

\* Add Connection opens the form, empty, or closes it.
ToggleAdd == /\ Shown
             /\ Set([ui EXCEPT !.showAdd = ~ui.showAdd,
                               !.add = [Closed EXCEPT !.saving = ui.add.saving]])

CancelAdd == FormShown("add") /\ Set([ui EXCEPT !.showAdd = FALSE])

\* handleEditStart; one form for all connections, open for one of them.
EditStart(n) == /\ Shown
                /\ Set([ui EXCEPT !.edit = [name |-> n, fields |-> Fields(n, "stored"),
                                            status |-> Statuses("idle"), saving |-> ui.edit.saving]])

CancelEdit == FormShown("edit") /\ Set([ui EXCEPT !.edit.name = NoName])

\* A change of any field makes the badges idle.
Type(k, x) == /\ FormShown(k)
              /\ Set([ui EXCEPT ![k] = [@ EXCEPT !.fields.x = x, !.status = Statuses("idle")]])

\* testCredentials, with the form of this render.
Test(k, which) == /\ FormShown(k)
                  /\ Room(net, 1)
                  /\ ui[k].status[which] # "testing"
                  /\ which = "git" => ui[k].fields.x # "empty"
                  /\ ui' = [ui EXCEPT ![k].status[which] = "testing"]
                  /\ net' = Send(net, "test", <<k, which, ui[k].fields.x>>)
                  /\ UNCHANGED srv

\* handleAddSubmit and handleEditSubmit: testAndSave tests the form it was
\* called with, and saves that one under the name it was called with.
Submit(k) == /\ FormShown(k)
             /\ Room(net, 1)
             /\ ~ui[k].saving
             /\ ui[k].fields.x # "empty"
             /\ ui' = [ui EXCEPT ![k] = [@ EXCEPT !.saving = TRUE, !.status = Statuses("testing")]]
             /\ net' = Send(net, "save-test", <<k, ui[k].name, ui[k].fields>>)
             /\ UNCHANGED srv

----------------------------------------------------------------------------
(* The answers.  What is accepted does not change, so a request is handled  *)
(* when its answer is delivered; any of them may fail.                      *)

Got(c, u) == /\ ui' = u
             /\ net' = Settled(net, c)
             /\ UNCHANGED srv

ShowList(c) == Got(c, [ui EXCEPT !.loading = FALSE])

ShowListError(c) == Got(c, [ui EXCEPT !.error = TRUE, !.loading = FALSE])

\* A test ends: the badge of the form that is there now says how.
ShowTest(c) ==
    Got(c, [ui EXCEPT ![c.arg[1]].status[c.arg[2]] = IF c.arg[3] \in srv THEN "ok" ELSE "error"])

TestFailed(c) == Got(c, [ui EXCEPT ![c.arg[1]].status[c.arg[2]] = "error"])

\* Mutant: what the form holds by now is saved.
TestedOKSavingCurrent(c) ==
    /\ c.arg[3].x \in srv
    /\ ui' = [ui EXCEPT ![c.arg[1]].status = Statuses("ok")]
    /\ net' = Send(Settled(net, c), "save", <<c.arg[1], c.arg[2], ui[c.arg[1]].fields>>)
    /\ UNCHANGED srv

\* The test before a save passed: the form that was tested is saved.
TestedOK(c) ==
    /\ c.arg[3].x \in srv
    /\ ui' = [ui EXCEPT ![c.arg[1]].status = Statuses("ok")]
    /\ net' = Send(Settled(net, c), "save", c.arg)
    /\ UNCHANGED srv

TestedBad(c) ==
    /\ c.arg[3].x \notin srv
    /\ Got(c, [ui EXCEPT ![c.arg[1]] = [@ EXCEPT !.saving = FALSE, !.status = Statuses("error")]])

\* The request itself failed, the test's or the save's: the badges stay.
NotSaved(c) == Got(c, [ui EXCEPT ![c.arg[1]].saving = FALSE])

\* Saved: the list is fetched again, and the form that is open now is closed.
Saved(c) ==
    LET k == c.arg[1]
        u == [Refresh(ui) EXCEPT ![k].saving = FALSE]
    IN  /\ ui' = IF k = "edit" THEN [u EXCEPT !.edit.name = NoName]
                 ELSE [u EXCEPT !.showAdd = FALSE,
                                !.add = [@ EXCEPT !.fields = Fields(NoName, "empty"),
                                                  !.status = Statuses("idle")]]
        /\ net' = Send(Settled(net, c), "list", <<>>)
        /\ UNCHANGED srv

SaveAnswers(k) ==
    \/ \E c \in InFlight(net, "save-test") :
          c.arg[1] = k /\ (TestedOK(c) \/ TestedBad(c) \/ NotSaved(c))
    \/ \E c \in InFlight(net, "save") : c.arg[1] = k /\ (Saved(c) \/ NotSaved(c))

\* The answers a spinner waits for: the list, the form in a row, the other form.
Answers(s) ==
    \/ s = "page" /\ \E c \in InFlight(net, "list") : ShowList(c) \/ ShowListError(c)
    \/ s = "part" /\ SaveAnswers("edit")
    \/ s = "action" /\ SaveAnswers("add")

Deliver == \/ \E s \in Spinners : Answers(s)
           \/ \E c \in InFlight(net, "test") : ShowTest(c) \/ TestFailed(c)

User == \/ Retry \/ ToggleAdd \/ CancelAdd \/ CancelEdit
        \/ \E n \in Names : EditStart(n)
        \/ \E k \in Forms : \/ Submit(k)
                            \/ \E x \in Contents : Type(k, x)
                            \/ \E which \in Tested : Test(k, which)

Next == User \/ Deliver

Spec == Init /\ [][Next]_vars

----------------------------------------------------------------------------
(* What is saved under a connection's name was typed into that connection's *)
(* form and is what Git and ArgoCD accept, whatever the user types, cancels *)
(* or opens while the test before the save is under way (testAndSave and    *)
(* its two callers, Connections.tsx); and each form has one save under way  *)
(* at most, which is when its button is disabled.                           *)
SavedWasTested ==
    /\ \A c \in InFlight(net, "save") : c.arg[3].of = c.arg[2] /\ c.arg[3].x \in srv
    /\ \A k \in Forms :
          LET saves == {c \in BagToSet(net) : c.kind \in {"save-test", "save"} /\ c.arg[1] = k}
          IN  Cardinality(saves) = IF ui[k].saving THEN 1 ELSE 0

Spins(s) == \/ s = "page" /\ ui.loading
            \/ s = "part" /\ ui.edit.saving
            \/ s = "action" /\ ui.add.saving
=============================================================================
