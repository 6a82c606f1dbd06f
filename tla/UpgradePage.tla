----------------------------- MODULE UpgradePage -----------------------------
(***************************************************************************)
(* The upgrade checker (ui/src/views/UpgradeChecker.tsx): choose an addon, *)
(* then a version, have the upgrade analysed, and ask the AI about it.     *)
(* What was chosen may change while an answer is on its way.               *)
(***************************************************************************)
EXTENDS Http

CONSTANTS Addons,    \* the addons of the catalog
          Versions,  \* the versions of their charts
          Nothing    \* null

VARIABLES ui, net,
          srv   \* the deployed versions, and whether an AI provider is
                \* configured: fixed

vars == <<ui, net, srv>>

Upgrade(addon, version) == <<addon, version>>

NoAnswer == <<>>

Init == /\ srv \in [ai : BOOLEAN, current : [Addons -> Versions \cup {Nothing}]]
        /\ ui = [loading |-> TRUE, error |-> FALSE, ai |-> FALSE,
                 addon |-> Nothing, versions |-> Nothing, versionsLoading |-> FALSE,
                 version |-> Nothing, analyzing |-> FALSE, result |-> NoAnswer,
                 analyzed |-> NoAnswer, summarizing |-> FALSE, summary |-> NoAnswer,
                 summarized |-> NoAnswer]
        /\ net = Send(Send(NoCalls, "ai-status", <<>>), "addons", <<>>)

Shown == ~ui.loading /\ ~ui.error

\* The versions on offer: those of the addon whose answer came last, without
\* the one that is deployed now.
AvailableVersions ==
    IF ui.versions = Nothing THEN {}
    ELSE Versions \ {srv.current[ui.addon]}

\* The result is hidden while another analysis runs.
ResultShown == Shown /\ ui.result # NoAnswer /\ ~ui.analyzing

----------------------------------------------------------------------------
(* The user. *)

\* A choice, and the effect on [selectedAddon].
SelectAddon(a) == /\ Shown
                  /\ a # ui.addon
                  /\ Room(net, 1)
                  /\ ui' = [ui EXCEPT !.addon = a, !.versionsLoading = TRUE,
                                      !.version = Nothing, !.result = NoAnswer]
                  /\ net' = Send(net, "versions", <<a>>)
                  /\ UNCHANGED srv

\* A version, or the empty option above them.
SelectVersion(v) == /\ Shown /\ ui.addon # Nothing /\ ~ui.versionsLoading
                    /\ AvailableVersions # {}
                    /\ v \in AvailableVersions \cup {Nothing}
                    /\ v # ui.version
                    /\ ui' = [ui EXCEPT !.version = v, !.result = NoAnswer]
                    /\ UNCHANGED <<net, srv>>

\* Mutant: the button stays enabled.
AnalyzeAgain == /\ Shown /\ ui.version # Nothing /\ ~ui.versionsLoading
                /\ Room(net, 1)
                /\ ui' = [ui EXCEPT !.analyzing = TRUE, !.result = NoAnswer, !.summary = NoAnswer,
                                    !.analyzed = Upgrade(ui.addon, ui.version)]
                /\ net' = Send(net, "check", Upgrade(ui.addon, ui.version))
                /\ UNCHANGED srv

\* handleAnalyze
Analyze == /\ Shown /\ ui.version # Nothing /\ ~ui.versionsLoading
           /\ AvailableVersions # {}
           /\ ~ui.analyzing
           /\ Room(net, 1)
           /\ ui' = [ui EXCEPT !.analyzing = TRUE, !.result = NoAnswer, !.summary = NoAnswer,
                               !.analyzed = Upgrade(ui.addon, ui.version)]
           /\ net' = Send(net, "check", Upgrade(ui.addon, ui.version))
           /\ UNCHANGED srv

\* handleGetAISummary: of the version that is selected, not of the result
\* the button belongs to.
AskAI == /\ ResultShown /\ ui.ai
         /\ ui.summary = NoAnswer /\ ~ui.summarizing
         /\ ui.version # Nothing
         /\ Room(net, 1)
         /\ ui' = [ui EXCEPT !.summarizing = TRUE,
                             !.summarized = Upgrade(ui.addon, ui.version)]
         /\ net' = Send(net, "summary", Upgrade(ui.addon, ui.version))
         /\ UNCHANGED srv

----------------------------------------------------------------------------
(* The answers; any request may fail. *)

Got(c, u) == /\ ui' = u
             /\ net' = Settled(net, c)
             /\ UNCHANGED srv

ShowStatus(c) == Got(c, [ui EXCEPT !.ai = srv.ai])

NoStatus(c) == Got(c, ui)

ShowAddons(c) == Got(c, [ui EXCEPT !.loading = FALSE])

ShowError(c) == Got(c, [ui EXCEPT !.loading = FALSE, !.error = TRUE])

ShowVersions(c) == Got(c, [ui EXCEPT !.versions = c.arg[1], !.versionsLoading = FALSE])

\* Mutant: an error path without its finally.
NoVersionsYet(c) == Got(c, [ui EXCEPT !.versions = Nothing])

NoVersions(c) == Got(c, [ui EXCEPT !.versions = Nothing, !.versionsLoading = FALSE])

ShowResult(c) == Got(c, [ui EXCEPT !.analyzing = FALSE, !.result = c.arg])

NoResult(c) == Got(c, [ui EXCEPT !.analyzing = FALSE])

ShowSummary(c) == Got(c, [ui EXCEPT !.summarizing = FALSE, !.summary = c.arg])

NoSummary(c) == Got(c, [ui EXCEPT !.summarizing = FALSE])

\* The answers a spinner waits for.
Answers(s) ==
    \/ s = "page" /\ \E c \in InFlight(net, "addons") : ShowAddons(c) \/ ShowError(c)
    \/ s = "part" /\ \E c \in InFlight(net, "versions") : ShowVersions(c) \/ NoVersions(c)
    \/ s = "action" /\ \E c \in InFlight(net, "check") : ShowResult(c) \/ NoResult(c)

Deliver == \/ \E s \in Spinners : Answers(s)
           \/ \E c \in InFlight(net, "ai-status") : ShowStatus(c) \/ NoStatus(c)
           \/ \E c \in InFlight(net, "summary") : ShowSummary(c) \/ NoSummary(c)

User == \/ \E a \in Addons : SelectAddon(a)
        \/ \E v \in Versions \cup {Nothing} : SelectVersion(v)
        \/ Analyze \/ AskAI

Next == User \/ Deliver

Spec == Init /\ [][Next]_vars

----------------------------------------------------------------------------
(* What the page shows is the answer to what the user asked last, be it the *)
(* analysis or the AI's opinion of it, and a verdict is there or on its way *)
(* for one upgrade at a time: the buttons that ask are gone while an answer *)
(* is due, the choices above them are not (UpgradeChecker.tsx).             *)
ShowsLastAsked ==
    /\ ui.result # NoAnswer => ui.result = ui.analyzed
    /\ ui.summary # NoAnswer => ui.summary = ui.summarized
    /\ Cardinality(InFlight(net, "check")) = IF ui.analyzing THEN 1 ELSE 0
    /\ Cardinality(InFlight(net, "summary")) = IF ui.summarizing THEN 1 ELSE 0

Spins(s) == \/ s = "page" /\ ui.loading
            \/ s = "part" /\ ui.versionsLoading
            \/ s = "action" /\ ui.analyzing
=============================================================================
