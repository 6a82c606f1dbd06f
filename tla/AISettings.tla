----------------------------- MODULE AISettings -----------------------------
(***************************************************************************)
(* The AI provider of the settings page (AIConfigSection in                *)
(* ui/src/views/Connections.tsx): the provider in use, with its test and   *)
(* the button that disables it, and a form that is tested before it may be *)
(* saved.                                                                  *)
(***************************************************************************)
EXTENDS Http

CONSTANTS Configs,   \* what the form may hold: a provider, a model, a key
          NoConfig   \* no provider configured

VARIABLES ui, net,
          srv   \* what is stored, which configurations answer, which were
                \* seen to answer by a test, and whether a test that is under
                \* way, or gave the last verdict, is of an earlier form

vars == <<ui, net, srv>>

\* openEditForm fills in the provider in use, a new form keeps its last one.
Init == /\ \E good \in SUBSET Configs, stored \in Configs \cup {NoConfig} :
              srv = [stored |-> stored, good |-> good, tested |-> {}, changed |-> FALSE]
        /\ ui = [config |-> NoConfig, loading |-> TRUE, testing |-> FALSE, saving |-> FALSE,
                 showForm |-> FALSE, form |-> CHOOSE x \in Configs : TRUE, status |-> "idle"]
        /\ net = Send(NoCalls, "ai-config", <<>>)

IsEnabled == ui.config # NoConfig

Asks(u, kind, arg) == /\ Room(net, 1)
                      /\ ui' = u
                      /\ net' = Send(net, kind, arg)
                      /\ UNCHANGED srv

Set(u) == ui' = u /\ UNCHANGED <<net, srv>>

\* Another form, or another content of it: no test under way is of this one.
SetForm(u) ==
    /\ ui' = u
    /\ srv' = [srv EXCEPT !.changed = IF u.form # ui.form THEN InFlight(net, "ai-form-test") # {}
                                                           ELSE @]
    /\ UNCHANGED net

----------------------------------------------------------------------------
(* The user. *)

\* handleTest: the provider in use.
TestStored == IsEnabled /\ ~ui.testing /\ Asks([ui EXCEPT !.testing = TRUE], "ai-test", <<>>)

Disable == IsEnabled /\ Asks(ui, "ai-disable", <<>>)

\* openEditForm: the provider in use, or what was there without its key.
OpenForm == \E x \in IF IsEnabled THEN {ui.config} ELSE Configs :
               SetForm([ui EXCEPT !.showForm = TRUE, !.status = "idle", !.form = x])

CancelForm == ui.showForm /\ Set([ui EXCEPT !.showForm = FALSE])

\* Mutant: a field that forgets to.
ChangeFormTested(x) == ui.showForm /\ x # ui.form /\ SetForm([ui EXCEPT !.form = x])

\* Every field of the form puts its status back.
ChangeForm(x) == /\ ui.showForm
                 /\ x # ui.form
                 /\ SetForm([ui EXCEPT !.form = x, !.status = "idle"])

\* handleFormTest
TestForm == /\ ui.showForm /\ ui.status # "testing"
            /\ Room(net, 1)
            /\ ui' = [ui EXCEPT !.status = "testing"]
            /\ srv' = [srv EXCEPT !.changed = InFlight(net, "ai-form-test") # {} /\ @]
            /\ net' = Send(net, "ai-form-test", <<ui.form>>)

\* handleSave: the form as it is now.  With it goes, for AISavedWasTested
\* alone, whose verdict allowed it.
SaveForm == /\ ui.showForm /\ ~ui.saving /\ ui.status = "ok"
            /\ Asks([ui EXCEPT !.saving = TRUE], "ai-save", <<ui.form, srv.changed>>)

----------------------------------------------------------------------------
(* The answers; any request may fail before it changes anything. *)

Got(c, u) == /\ ui' = u
             /\ net' = Settled(net, c)
             /\ UNCHANGED srv

ShowConfig(c) == Got(c, [ui EXCEPT !.config = srv.stored, !.loading = FALSE])

NoAnswer(c) == Got(c, [ui EXCEPT !.config = NoConfig, !.loading = FALSE])

ShowStoredTest(c) == Got(c, [ui EXCEPT !.testing = FALSE])

\* The result is the status of the form, whatever the form holds by now.
FormAnswers(c) == /\ c.arg[1] \in srv.good
                  /\ ui' = [ui EXCEPT !.status = "ok"]
                  /\ srv' = [srv EXCEPT !.tested = @ \cup {c.arg[1]}]
                  /\ net' = Settled(net, c)

FormFails(c) == Got(c, [ui EXCEPT !.status = "error"])

Stored(c, x, u) == /\ srv' = [srv EXCEPT !.stored = x]
                   /\ ui' = [u EXCEPT !.loading = TRUE]
                   /\ net' = Send(Settled(net, c), "ai-config", <<>>)

FormSaved(c) ==
    Stored(c, c.arg[1], [ui EXCEPT !.showForm = FALSE, !.status = "idle", !.saving = FALSE])

SaveFails(c) == Got(c, [ui EXCEPT !.saving = FALSE])

Disabled(c) == Stored(c, NoConfig, ui)

DisableFails(c) == Got(c, ui)

\* The answers a spinner waits for.
Answers(s) ==
    \/ s = "page" /\ \E c \in InFlight(net, "ai-config") : ShowConfig(c) \/ NoAnswer(c)
    \/ s = "part" /\ \E c \in InFlight(net, "ai-test") : ShowStoredTest(c)
    \/ s = "action" /\ \E c \in InFlight(net, "ai-save") : FormSaved(c) \/ SaveFails(c)

Deliver == \/ \E s \in Spinners : Answers(s)
           \/ \E c \in InFlight(net, "ai-form-test") : FormAnswers(c) \/ FormFails(c)
           \/ \E c \in InFlight(net, "ai-disable") : Disabled(c) \/ DisableFails(c)

User == \/ TestStored \/ Disable \/ OpenForm \/ CancelForm \/ TestForm \/ SaveForm
        \/ \E x \in Configs : ChangeForm(x)

Next == User \/ Deliver

Spec == Init /\ [][Next]_vars

----------------------------------------------------------------------------
(* "Test the connection first", says the Save button while it is disabled:  *)
(* what is saved was tested, as it is, and answered.  The one exception is  *)
(* a save that the verdict on an earlier form let through: the form was     *)
(* changed while its test was under way, and the result vouches for a form  *)
(* nobody tested (handleFormTest, Connections.tsx).  A later change, or a   *)
(* later test, ends the exception.                                          *)
AISavedWasTested ==
    \A c \in InFlight(net, "ai-save") : c.arg[2] \/ c.arg[1] \in srv.tested

Spins(s) == \/ s = "page" /\ ui.loading
            \/ s = "part" /\ ui.testing
            \/ s = "action" /\ ui.saving
=============================================================================
