---------------------------- MODULE AssistantPage ----------------------------
(***************************************************************************)
(* The floating assistant (ui/src/components/FloatingAssistant.tsx over    *)
(* ui/src/views/AIAssistant.tsx) and the sessions it talks to              *)
(* (internal/api/agent.go).  The panel follows the user from page to page; *)
(* closing it forgets the conversation, but not what a page last asked it  *)
(* to say when it opens.                                                   *)
(***************************************************************************)
EXTENDS Http, SequencesExt

CONSTANTS Paths,        \* the pages the user may be on
          MaxQuestions, \* questions asked, and sessions begun (a bound of the model)
          MaxSessions,  \* agentSessionMaxCount
          NoPage        \* no page has asked anything

VARIABLES ui, net,
          srv   \* the sessions, oldest first, the number of ids given, and
                \* whether an AI provider is configured

vars == <<ui, net, srv>>

\* Sessions of other users, and of a panel that was closed.
Other == 0

\* A question the user asks, and the answer to it.
Question(n) == <<"user", n>>

Answer(n) == <<"assistant", n>>

\* `mixed': New was pressed while an answer was due, or a question asked while
\* New was at work, and one of them is still to come.
Mounted(u, session) ==
    [u EXCEPT !.open = TRUE, !.enabled = "unknown", !.messages = <<>>, !.loading = FALSE,
              !.session = session, !.mixed = FALSE]

Init == /\ \E p \in Paths :
              ui = [open |-> FALSE, path |-> p, initial |-> NoPage, enabled |-> "unknown",
                    messages |-> <<>>, loading |-> FALSE, session |-> Other,
                    mixed |-> FALSE, next |-> 1]
        /\ srv \in [sessions : {<<>>}, ids : {Other}, ai : BOOLEAN]
        /\ net = NoCalls

Set(u) == ui' = u /\ UNCHANGED <<net, srv>>

----------------------------------------------------------------------------
(* The user. *)

GoTo(p) == p # ui.path /\ Set([ui EXCEPT !.path = p])

\* The panel is mounted: it has a session of its own and asks whether there is
\* a provider at all.
Mount(u) == /\ ui' = Mounted(u, srv.ids + 1)
            /\ srv' = [srv EXCEPT !.ids = @ + 1]
            /\ net' = Send(NoCalls, "status", <<>>)

Open == /\ ~ui.open /\ srv.ids < MaxQuestions
        /\ Mount(ui)

\* What is still under way goes on at the server, for nobody.
Close == ui.open /\ ui' = [Mounted(ui, Other) EXCEPT !.open = FALSE]
                 /\ net' = NoCalls
                 /\ UNCHANGED srv

\* sendMessage
Ask(u, n) ==
    /\ Room(n, 1)
    /\ u.next <= MaxQuestions
    /\ ui' = [u EXCEPT !.messages = Append(@, Question(u.next)), !.next = @ + 1,
                       !.loading = TRUE,
                       !.mixed = @ \/ InFlight(n, "reset") # {}]
    /\ net' = Send(n, "chat", <<u.session, u.next>>)

\* Mutant: the input is not disabled.
SendMessageAnyTime == ui.open /\ ui.enabled = "yes" /\ Ask(ui, net) /\ UNCHANGED srv

\* A suggested prompt may be chosen at once, the input needs a provider.
SendMessage == /\ ui.open /\ ui.enabled # "no" /\ ~ui.loading
               /\ ui.enabled = "yes" \/ ui.messages = <<>>
               /\ Ask(ui, net)
               /\ UNCHANGED srv

\* A page dispatches 'open-assistant': the panel opens, and is told what to
\* ask.  A panel that is open, with a provider and without messages, asks,
\* unless this page's question is the one it was told before.
AskAI ==
    LET u == [ui EXCEPT !.initial = ui.path]
        now == ui.enabled = "yes" /\ ui.messages = <<>> /\ ~ui.loading /\ u # ui
    IN  \/ ~ui.open /\ srv.ids < MaxQuestions /\ Mount(u)
        \/ ui.open /\ now /\ Ask(u, net) /\ UNCHANGED srv
        \/ ui.open /\ ~now /\ Set(u)

\* handleNewConversation, offered while there are messages, loading or not.
NewConversation == /\ ui.open /\ ui.enabled # "no" /\ ui.messages # <<>>
                   /\ Room(net, 1)
                   /\ ui' = [ui EXCEPT !.mixed = @ \/ ui.loading]
                   /\ net' = Send(net, "reset", <<ui.session>>)
                   /\ UNCHANGED srv

----------------------------------------------------------------------------
(* The server. *)

\* Mutant: only the expired ones go.
PruneExpired(s, k) == SubSeq(s, k + 1, Len(s))

\* pruneAgentSessions: the expired ones are the oldest, k of them, and then
\* the oldest go that are over the cap.
Prune(s, k) ==
    LET kept == SubSeq(s, k + 1, Len(s))
        over == IF Len(kept) > MaxSessions THEN Len(kept) - MaxSessions ELSE 0
    IN  SubSeq(kept, over + 1, Len(kept))

\* handleAgentChat up to agent.Chat, which runs without the lock.
Chat(id, s) == IF Contains(s, id) /\ id # Other THEN s ELSE Append(s, id)

StartChat(c) ==
    /\ c.st = "sent"
    /\ \E k \in 0..Len(srv.sessions) :
          srv' = [srv EXCEPT !.sessions = Chat(c.arg[1], Prune(@, k))]
    /\ net' = Answered(net, c, <<>>)
    /\ UNCHANGED ui

OthersChat == /\ \E k \in 0..Len(srv.sessions) :
                    srv' = [srv EXCEPT !.sessions = Chat(Other, Prune(@, k))]
              /\ UNCHANGED <<ui, net>>

----------------------------------------------------------------------------
(* The answers. *)

Got(c, u) == /\ ui' = u
             /\ net' = Settled(net, c)
             /\ UNCHANGED srv

\* The provider is there: what a page asked for is sent, on every mount, unless
\* the user was faster.
ShowEnabled(c) ==
    LET u == [ui EXCEPT !.enabled = "yes"]
    IN  /\ srv.ai
        /\ IF ui.initial # NoPage /\ ui.messages = <<>> /\ ui.next <= MaxQuestions
           THEN Ask(u, Settled(net, c)) /\ UNCHANGED srv
           ELSE Got(c, u)

ShowDisabled(c) == Got(c, [ui EXCEPT !.enabled = "no"])

\* The answer, or "Sorry, I encountered an error", whatever conversation is
\* shown by now.
ShowAnswer(c) == /\ c.st = "ok"
                 /\ Got(c, [ui EXCEPT !.messages = Append(@, Answer(c.arg[2])), !.loading = FALSE])

\* No providers to make an agent of, or no way to the server.
ShowRefusal(c) == /\ c.st = "sent"
                  /\ Got(c, [ui EXCEPT !.messages = Append(@, Answer(c.arg[2])), !.loading = FALSE])

\* A question or New, sent by this panel and not answered yet.
UnderWay(n) == InFlight(n, "chat") \cup InFlight(n, "reset") # {}

\* The reset is over, failed or not: a new session, and no messages.  What the
\* agent remembers of the old session is left out.
ShowNew(c) == /\ srv.ids < MaxQuestions
              /\ ui' = [ui EXCEPT !.session = srv.ids + 1, !.messages = <<>>,
                                  !.loading = FALSE, !.mixed = @ /\ UnderWay(Settled(net, c))]
              /\ srv' = [srv EXCEPT !.ids = @ + 1]
              /\ net' = Settled(net, c)

\* The answers the panel waits for.
Answers(s) ==
    \/ s = "page" /\ \E c \in InFlight(net, "status") : ShowEnabled(c) \/ ShowDisabled(c)
    \/ s = "action" /\ \E c \in InFlight(net, "chat") : StartChat(c) \/ ShowAnswer(c) \/ ShowRefusal(c)

Deliver == \/ \E s \in Spinners : Answers(s)
           \/ \E c \in InFlight(net, "reset") : ShowNew(c)

User == \/ Open \/ Close \/ SendMessage \/ AskAI \/ NewConversation \/ OthersChat
        \/ \E p \in Paths : GoTo(p)

Next == User \/ Deliver

Spec == Init /\ [][Next]_vars

----------------------------------------------------------------------------
(* The conversation is one: an answer stands under its own question, the    *)
(* last question waits for its answer exactly while the panel is loading,   *)
(* and no agent is asked twice at once, which its history of messages,      *)
(* appended to without a lock, would not survive (sendMessage;              *)
(* handleAgentChat).  Not so while New and a question cross each other: it  *)
(* is so again once a New is answered with nothing else under way.          *)
ConversationInOrder ==
    ui.open /\ ~ui.mixed =>
        /\ \A i \in DOMAIN ui.messages :
              IF i % 2 = 1 THEN ui.messages[i][1] = "user"
              ELSE ui.messages[i] = Answer(ui.messages[i - 1][2])
        /\ Cardinality(InFlight(net, "chat")) = Len(ui.messages) % 2
        /\ ui.loading <=> Len(ui.messages) % 2 = 1

(* The sessions never grow past their cap by more than the one that is      *)
(* being added: pruneAgentSessions comes first, whoever chats.              *)
SessionsBounded == Len(srv.sessions) <= MaxSessions + 1

Spins(s) == \/ s = "page" /\ ui.open /\ ui.enabled = "unknown"
            \/ s = "action" /\ ui.loading
=============================================================================
