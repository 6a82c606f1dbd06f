------------------------------ MODULE Accounts ------------------------------
(***************************************************************************)
(* The user accounts: the page that manages them                           *)
(* (ui/src/views/UserManagement.tsx), the handlers behind it               *)
(* (internal/api/users.go) and the store of internal/auth/store.go in its  *)
(* Kubernetes mode.  An account is an entry of a ConfigMap, its password   *)
(* one of a Secret, and both have a copy in memory.  Nothing on the page   *)
(* waits for an answer, so requests overlap.  An entry that is no YAML,    *)
(* which the store reads as an empty account, is left out: the program     *)
(* writes none.                                                            *)
(***************************************************************************)
EXTENDS Http

CONSTANTS Users,
          MaxRequests  \* requests that change something (a bound of the model)

VARIABLES ui,
          net,  \* the requests under way: what each does and how far it is
          srv   \* both objects, the store's copies, and whether they may have
                \* gone apart by now

vars == <<ui, net, srv>>

Slots == 1..MaxCalls

\* An account is absent, disabled or enabled.  Roles are left out: a change
\* of role is an update that enables.
States == {"none", "off", "on"}

\* What a request does to user's account; `read' is the object it got from
\* the API server, both of them for a login, and fresh that nobody has written
\* them since.
Request(op, user, to, at) ==
    [op |-> op, user |-> user, to |-> to, at |-> at, read |-> {}, fresh |-> FALSE]

Idle == Request("none", "nobody", "none", "start")

Init == /\ \E on \in SUBSET Users :
              LET cm == [u \in Users |-> IF u \in on THEN "on" ELSE "none"]
              IN  srv = [cm |-> cm, secret |-> on, users |-> cm, pass |-> on,
                         apart |-> FALSE, asked |-> 0]
        /\ ui = [loading |-> TRUE, error |-> FALSE, showAdd |-> FALSE,
                 users |-> [u \in Users |-> "none"]]
        /\ net = [i \in Slots |-> IF i = 1 THEN Request("list", "nobody", "none", "start") ELSE Idle]

Free == {i \in Slots : net[i].op = "none"}

\* The requests that change something, or swap the store's copies.
Busy == {i \in Slots : net[i].op \notin {"none", "list"}}

Sends(r) == /\ Free # {}
            /\ LET i == CHOOSE i \in Free : TRUE IN net' = [net EXCEPT ![i] = r]

\* Two requests that are not about two different users.
Overlaps(r) == \E i \in Busy : r.op = "login" \/ net[i].op = "login" \/ net[i].user = r.user

\* A request that changes something, or swaps the copies.
Asks(r) == /\ srv.asked < MaxRequests
           /\ Sends(r)
           /\ srv' = [srv EXCEPT !.asked = @ + 1, !.apart = @ \/ Overlaps(r)]

----------------------------------------------------------------------------
(* The user; rows and buttons are those of the list the page got last. *)

Listed == ~ui.loading /\ ~ui.error

Row(u) == Listed /\ ui.users[u] # "none"

Retry == /\ ui.error
         /\ Sends(Request("list", "nobody", "none", "start"))
         /\ ui' = [ui EXCEPT !.error = FALSE]
         /\ UNCHANGED srv

OpenAdd == ~ui.showAdd /\ ui' = [ui EXCEPT !.showAdd = TRUE] /\ UNCHANGED <<net, srv>>

CancelAdd == ui.showAdd /\ ui' = [ui EXCEPT !.showAdd = FALSE] /\ UNCHANGED <<net, srv>>

handleCreate(u) == ui.showAdd /\ Asks(Request("create", u, "on", "start")) /\ UNCHANGED ui

handleToggleEnabled(u) ==
    /\ Row(u)
    /\ Asks(Request("update", u, IF ui.users[u] = "on" THEN "off" ELSE "on", "start"))
    /\ UNCHANGED ui

\* The request does not say `enabled', and handleUpdateUser takes it for true.
handleChangeRole(u) == Row(u) /\ Asks(Request("update", u, "on", "start")) /\ UNCHANGED ui

handleResetPassword(u) == Row(u) /\ Asks(Request("reset", u, "none", "start")) /\ UNCHANGED ui

handleDelete(u) == Row(u) /\ Asks(Request("delete", u, "none", "start")) /\ UNCHANGED ui

\* Somebody logs in; ValidateCredentials loads everything anew first.
Login == Asks(Request("login", "nobody", "none", "cm")) /\ UNCHANGED ui

----------------------------------------------------------------------------
(* The store. *)

At(i, where) == net[i].op # "none" /\ net[i].at = where

To(i, where) == [net EXCEPT ![i].at = where]

\* Mutant: no password is stored.
AfterCMAtOnce(op) == "memory"

\* Where a request goes after the check and after the ConfigMap.
Begin(op) == IF op = "reset" THEN "secret" ELSE "cm"

AfterCM(op) == IF op = "update" THEN "memory" ELSE "secret"

\* Is there such a user?  The copy in memory says.
Check(i) ==
    LET r == net[i]
    IN  /\ At(i, "start") /\ r.op # "list"
        /\ (srv.users[r.user] # "none") <=> (r.op # "create")
        /\ net' = To(i, Begin(r.op))
        /\ UNCHANGED <<ui, srv>>

Refuse(i) == /\ At(i, "start") /\ net[i].op # "list"
             /\ (srv.users[net[i].user] # "none") <=> (net[i].op = "create")
             /\ net' = [net EXCEPT ![i] = Idle]
             /\ UNCHANGED <<ui, srv>>

\* Get: the ConfigMap or the Secret, with its resourceVersion.
ReadCM(i) == /\ At(i, "cm") /\ net[i].op # "login"
             /\ net' = [net EXCEPT ![i].read = srv.cm, ![i].fresh = TRUE, ![i].at = "put-cm"]
             /\ UNCHANGED <<ui, srv>>

ReadSecret(i) == /\ At(i, "secret") /\ net[i].op # "login"
                 /\ net' = [net EXCEPT ![i].read = srv.secret, ![i].fresh = TRUE, ![i].at = "put-secret"]
                 /\ UNCHANGED <<ui, srv>>

\* Mutant: an update without the version it is based on.
AcceptedAlways(i) == TRUE

\* Update: the API server takes it only if nobody has written the object since.
Accepted(i) == net[i].fresh

\* The object another request has read at the same time is an old one now.
Written(i, where, next) ==
    [j \in Slots |->
        IF j = i THEN [net[j] EXCEPT !.at = next, !.read = {}, !.fresh = FALSE]
        ELSE IF net[j].at = where \/ net[j].op = "login" THEN [net[j] EXCEPT !.fresh = FALSE]
        ELSE net[j]]

WriteCM(i) ==
    LET r == net[i]
    IN  /\ At(i, "put-cm") /\ Accepted(i)
        /\ srv' = [srv EXCEPT !.cm = [r.read EXCEPT ![r.user] = r.to]]
        /\ net' = Written(i, "put-cm", AfterCM(r.op))
        /\ UNCHANGED ui

WriteSecret(i) ==
    LET r == net[i]
    IN  /\ At(i, "put-secret") /\ Accepted(i)
        /\ srv' = [srv EXCEPT !.secret = IF r.op = "delete" THEN r.read \ {r.user}
                                                            ELSE r.read \cup {r.user}]
        /\ net' = Written(i, "put-secret", "memory")
        /\ UNCHANGED ui

\* A call to the API server fails or conflicts.  DeleteUser does not look at
\* its errors and goes on; the others leave at once, whatever is written.
CallFails(i) ==
    /\ net[i].at \in {"cm", "put-cm", "secret", "put-secret"} /\ net[i].op # "login"
    /\ IF net[i].op = "delete"
       THEN net' = [net EXCEPT ![i].read = {}, ![i].fresh = FALSE,
                               ![i].at = IF @ \in {"cm", "put-cm"} THEN "secret" ELSE "memory"]
       ELSE net' = [net EXCEPT ![i] = Idle]
    /\ srv' = [srv EXCEPT !.apart = TRUE]
    /\ UNCHANGED ui

\* The copies in memory change last, and the handler answers.  The page asks
\* for the list again, except after a reset; a created user closes the form.
Answer(i) ==
    LET r == net[i]
    IN  /\ At(i, "memory")
        /\ srv' = [srv EXCEPT
                     !.users = IF r.op = "reset" THEN @ ELSE [@ EXCEPT ![r.user] = r.to],
                     !.pass = CASE r.op \in {"create", "reset"} -> @ \cup {r.user}
                                [] r.op = "delete" -> @ \ {r.user}
                                [] OTHER -> @]
        /\ net' = [net EXCEPT ![i] = IF r.op = "reset" THEN Idle
                                     ELSE Request("list", "nobody", "none", "start")]
        /\ ui' = [ui EXCEPT !.showAdd = @ /\ r.op # "create"]

\* reload reads both objects without the lock, and then swaps the copies.
LoadCM(i) == /\ At(i, "cm") /\ net[i].op = "login"
             /\ net' = [net EXCEPT ![i].read = srv.cm, ![i].fresh = TRUE, ![i].at = "secret"]
             /\ UNCHANGED <<ui, srv>>

LoadSecret(i) == /\ At(i, "secret") /\ net[i].op = "login"
                 /\ net' = [net EXCEPT ![i].read = <<@, srv.secret>>, ![i].at = "swap"]
                 /\ UNCHANGED <<ui, srv>>

\* Alone, and of what is still stored, it brings memory and store together
\* again, whatever was lost before.
Swap(i) == /\ At(i, "swap")
           /\ srv' = [srv EXCEPT !.users = net[i].read[1], !.pass = net[i].read[2],
                                 !.apart = @ /\ ~(net[i].fresh /\ Busy = {i})]
           /\ net' = [net EXCEPT ![i] = Idle]
           /\ UNCHANGED ui

LoadFails(i) == /\ net[i].op = "login"
                /\ net' = [net EXCEPT ![i] = Idle]
                /\ UNCHANGED <<ui, srv>>

Serve(i) == \/ Check(i) \/ Refuse(i) \/ ReadCM(i) \/ ReadSecret(i) \/ WriteCM(i)
            \/ WriteSecret(i) \/ CallFails(i) \/ Answer(i)
            \/ LoadCM(i) \/ LoadSecret(i) \/ Swap(i) \/ LoadFails(i)

\* fetchUsers; handleListUsers answers with the copies.
ShowUsers(i) == /\ net[i].op = "list"
                /\ ui' = [ui EXCEPT !.users = srv.users, !.loading = FALSE, !.error = FALSE]
                /\ net' = [net EXCEPT ![i] = Idle]
                /\ UNCHANGED srv

ShowError(i) == /\ net[i].op = "list"
                /\ ui' = [ui EXCEPT !.loading = FALSE, !.error = TRUE]
                /\ net' = [net EXCEPT ![i] = Idle]
                /\ UNCHANGED srv

\* The answers a spinner waits for.
Answers(s) == s = "page" /\ \E i \in Slots : ShowUsers(i) \/ ShowError(i)

Deliver == \E s \in Spinners : Answers(s)

User == \/ Retry \/ OpenAdd \/ CancelAdd \/ Login
        \/ \E u \in Users : \/ handleCreate(u) \/ handleToggleEnabled(u) \/ handleChangeRole(u)
                            \/ handleResetPassword(u) \/ handleDelete(u)

Next == User \/ (\E i \in Slots : Serve(i)) \/ Deliver

Spec == Init /\ [][Next]_vars

----------------------------------------------------------------------------
(* Nobody's account or password disappears from what is stored unless that  *)
(* user is being deleted: each request writes back the whole object it read *)
(* some time ago, and only the conflict the API server reports keeps it     *)
(* from taking another request's work away (store.go).                      *)
OnlyDeleteRemoves ==
    \A u \in Users :
        \/ srv.cm[u] # "none" /\ srv'.cm[u] = "none"
        \/ u \in srv.secret /\ u \notin srv'.secret
        => \E i \in Slots : net[i].op = "delete" /\ net[i].user = u

(* When nothing is under way, the copies in memory are what is stored, also *)
(* after requests for different users that overlapped (store.go): each      *)
(* writes both objects and memory in turn.  Not so after a call that failed *)
(* or an overlap on one user or with a login, until a login that runs alone *)
(* loads everything anew.                                                   *)
CopiesAreStored ==
    (Busy = {} /\ ~srv.apart) => srv.users = srv.cm /\ srv.pass = srv.secret

Spins(s) == s = "page" /\ ui.loading
=============================================================================
