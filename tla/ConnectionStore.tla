-------------------------- MODULE ConnectionStore --------------------------
(***************************************************************************)
(* The connections to Git and ArgoCD (internal/config/k8s_store.go and     *)
(* store.go, internal/service/connection.go, internal/api/connections.go). *)
(*                                                                         *)
(* All connections and the name of the active one are one document, which  *)
(* every change loads, edits and saves as a whole.  On Kubernetes it is a  *)
(* Secret: a pod's lock is held from the load to the end of the save, and  *)
(* the version that was loaded goes with the update.  On a developer's     *)
(* machine it is a file, with a lock for the load and another for the      *)
(* save.  Each call of the Kubernetes API is a step.                       *)
(***************************************************************************)
EXTENDS Integers, FiniteSets

CONSTANTS
    Names,       \* names of connections
    Tokens,      \* credentials a user may enter
    Expanded,    \* what a token reads as in a file: that of an environment variable
    Pods,        \* replicas, or the old and the new pod of a rollout
    Requests,    \* requests in progress at once (bound)
    MaxRequests, \* requests that users make (bound)
    Backends,    \* "secret", "file"
    Faults,      \* "fail": a load or a call of the API may fail
    Blank,       \* no token entered or stored
    Nobody       \* no connection, no request, no pod

ASSUME ConnectionAssumption ==
    /\ Blank \notin Tokens
    /\ Expanded \in [Tokens \cup {Blank} -> Tokens \cup {Blank}]
    /\ Expanded[Blank] = Blank
    /\ Nobody \notin Names \cup Requests \cup Pods
    /\ MaxRequests \in Nat
    /\ Backends \subseteq {"secret", "file"}
    /\ Faults \subseteq {"fail"}

Connection == [default : BOOLEAN, token : Tokens \cup {Blank}]
Document   == [conns : UNION {[S -> Connection] : S \in SUBSET Names},
               active : Names \cup {Nobody}]
Empty == [conns |-> [n \in {} |-> Nobody], active |-> Nobody]

NoOp == [kind |-> "none"]
Operation ==
    [kind : {"create", "update"}, name : Names, token : Tokens \cup {Blank}, default : BOOLEAN]
    \cup [kind : {"delete", "activate"}, name : Names]

VARIABLES
    backend, \* where the document is
    existed, \* the Secret was there when the pods started
    doc,     \* the stored document
    version, \* its resource version, 0 when there is no Secret (and for a file)
    lock,    \* pod -> the request that holds its write lock
    pc,      \* request -> place in the code
    at,      \* request -> its pod
    op,      \* request -> what the user asked for
    token,   \* request -> the token it is about to save
    copy,    \* request -> the document it is about to save
    seen,    \* request -> the version it has loaded
    requests \* requests made so far (for the bound)

vars == <<backend, existed, doc, version, lock, pc, at, op, token, copy, seen, requests>>
site == <<backend, existed>>
stored == <<doc, version>>

\* One connection is active as long as there are any, at most one is the default.
OneActive(d)  == IF DOMAIN d.conns = {} THEN d.active = Nobody ELSE d.active \in DOMAIN d.conns
OneDefault(d) == \A m, n \in DOMAIN d.conns : d.conns[m].default /\ d.conns[n].default => m = n
Coherent(d)   == OneActive(d) /\ OneDefault(d)

Init ==
    /\ backend \in Backends
    /\ existed \in BOOLEAN
    /\ version = IF backend = "secret" /\ existed THEN 1 ELSE 0
    /\ doc \in {d \in Document : Coherent(d) /\ (existed \/ d = Empty)}
    /\ lock = [p \in Pods |-> Nobody]
    /\ pc = [r \in Requests |-> "idle"]
    /\ at = [r \in Requests |-> Nobody]
    /\ op = [r \in Requests |-> NoOp]
    /\ token = [r \in Requests |-> Blank]
    /\ copy = [r \in Requests |-> Empty]
    /\ seen = [r \in Requests |-> 0]
    /\ requests = 0

(***************************************************************************)
(* What an operation makes of a document: the documents it may save, none  *)
(* when it is refused.                                                     *)
(***************************************************************************)
\* the new or changed connection; as the default it unsets the others
Entered(d, n, c) ==
    [m \in DOMAIN d.conns \cup {n} |->
        IF m = n THEN c
        ELSE [d.conns[m] EXCEPT !.default = @ /\ ~c.default]]

\* a first, or only, connection is made default and active
Saved(d, n, c) ==
    IF DOMAIN d.conns \subseteq {n}
    THEN [conns |-> [m \in {n} |-> [c EXCEPT !.default = TRUE]], active |-> n]
    ELSE [conns |-> Entered(d, n, c), active |-> d.active]

\* the active one is succeeded by the first of the list, here by any
Successors(d, n) ==
    IF d.active # n THEN {d.active}
    ELSE IF DOMAIN d.conns = {n} THEN {Nobody} ELSE DOMAIN d.conns \ {n}

Without(d, n) == [m \in DOMAIN d.conns \ {n} |-> d.conns[m]]

\* Fault: the deleted connection stays the active one.
RemovedOnly(d, n) == {[conns |-> Without(d, n), active |-> d.active]}

Removed(d, n) == {[conns |-> Without(d, n), active |-> a] : a \in Successors(d, n)}

Results(o, t, d) ==
    CASE o.kind \in {"create", "update"} -> {Saved(d, o.name, [default |-> o.default, token |-> t])}
      [] o.kind = "delete"   -> IF o.name \in DOMAIN d.conns THEN Removed(d, o.name) ELSE {}
      [] o.kind = "activate" -> IF o.name \in DOMAIN d.conns THEN {[d EXCEPT !.active = o.name]} ELSE {}

(***************************************************************************)
(* A request.                                                              *)
(***************************************************************************)
Begin(r) ==
    /\ pc[r] = "idle"
    /\ requests < MaxRequests
    /\ requests' = requests + 1
    /\ \E o \in Operation, p \in Pods :
          /\ op' = [op EXCEPT ![r] = o]
          /\ at' = [at EXCEPT ![r] = p]
          /\ token' = [token EXCEPT ![r] = IF o.kind \in {"create", "update"} THEN o.token ELSE Blank]
          /\ pc' = [pc EXCEPT ![r] = IF o.kind = "update" THEN "read" ELSE "load"]
    /\ UNCHANGED <<site, stored, lock, copy, seen>>

\* nobody in the pod is between the load and the end of the save
Unlocked(r) == lock[at[r]] = Nobody

\* Fault: a request that ends leaves the lock of its pod behind.
FinishLocked(r) ==
    /\ pc' = [pc EXCEPT ![r] = "idle"]
    /\ op' = [op EXCEPT ![r] = NoOp]
    /\ token' = [token EXCEPT ![r] = Blank]
    /\ copy' = [copy EXCEPT ![r] = Empty]
    /\ seen' = [seen EXCEPT ![r] = 0]
    /\ at' = [at EXCEPT ![r] = Nobody]
    /\ UNCHANGED <<site, lock, requests>>

Finish(r) ==
    /\ pc' = [pc EXCEPT ![r] = "idle"]
    /\ op' = [op EXCEPT ![r] = NoOp]
    /\ token' = [token EXCEPT ![r] = Blank]
    /\ copy' = [copy EXCEPT ![r] = Empty]
    /\ seen' = [seen EXCEPT ![r] = 0]
    /\ lock' = [p \in Pods |-> IF lock[p] = r THEN Nobody ELSE lock[p]]
    /\ at' = [at EXCEPT ![r] = Nobody]
    /\ UNCHANGED <<site, requests>>

GiveUp(r) == Finish(r) /\ UNCHANGED stored
Fails(r)  == "fail" \in Faults /\ GiveUp(r)

\* A file is read with its environment variables expanded, and is saved so by
\* the change it is read for.  It also gets the name of its repository for a
\* connection without one, or called "default": names are not abstracted that
\* far, and Create leaves "default" only where there is no such name to give.
Loaded(d) ==
    IF backend = "file"
    THEN [conns |-> [n \in DOMAIN d.conns |-> [d.conns[n] EXCEPT !.token = Expanded[@]]],
          active |-> d.active]
    ELSE d

\* an edit with a blank token keeps the stored one; an error of this load is
\* ignored
ReadSaved(r) ==
    /\ pc[r] = "read"
    /\ Unlocked(r)
    /\ \/ /\ token[r] = Blank
          /\ op[r].name \in DOMAIN doc.conns
          /\ token' = [token EXCEPT ![r] = Loaded(doc).conns[op[r].name].token]
       \/ /\ token[r] = Blank => op[r].name \notin DOMAIN doc.conns \/ "fail" \in Faults
          /\ UNCHANGED token
    /\ pc' = [pc EXCEPT ![r] = "load"]
    /\ UNCHANGED <<site, stored, lock, at, op, copy, seen, requests>>

Load(r) ==
    /\ pc[r] = "load"
    /\ Unlocked(r)
    /\ \E d \in Results(op[r], token[r], Loaded(doc)) : copy' = [copy EXCEPT ![r] = d]
    /\ seen' = [seen EXCEPT ![r] = version]
    /\ IF backend = "secret"
       THEN lock' = [lock EXCEPT ![at[r]] = r] /\ pc' = [pc EXCEPT ![r] = "save"]
       ELSE UNCHANGED lock /\ pc' = [pc EXCEPT ![r] = "write"]
    /\ UNCHANGED <<site, stored, at, op, token, requests>>

Refused(r) ==
    /\ pc[r] = "load"
    /\ Unlocked(r)
    /\ Results(op[r], token[r], Loaded(doc)) = {}
    /\ GiveUp(r)

LoadFails(r) == pc[r] = "load" /\ Unlocked(r) /\ Fails(r)

(***************************************************************************)
(* Saving the Secret.  The API server refuses an update whose version is   *)
(* not the current one, and takes one without a version unconditionally.   *)
(***************************************************************************)
Accepted(r) == version > 0 /\ seen[r] \in {0, version}
Store(r) ==
    /\ doc' = copy[r]
    /\ version' = version + 1
    /\ Finish(r)

GoTo(r, place) ==
    /\ pc' = [pc EXCEPT ![r] = place]
    /\ UNCHANGED <<site, stored, lock, at, op, token, copy, seen, requests>>

\* Fault: the version that was loaded does not go with the update.
UpdateUnversioned(r) ==
    /\ pc[r] = "save"
    /\ \/ version > 0 /\ Store(r)
       \/ version = 0 /\ GoTo(r, "create")
       \/ Fails(r)

Update(r) ==
    /\ pc[r] = "save"
    /\ \/ Accepted(r) /\ Store(r)
       \/ version = 0 /\ GoTo(r, "create")
       \/ ~Accepted(r) /\ version > 0 /\ GiveUp(r)
       \/ Fails(r)

Create(r) ==
    /\ pc[r] = "create"
    /\ \/ version = 0 /\ Store(r)
       \/ version > 0 /\ GoTo(r, "again")
       \/ Fails(r)

UpdateAgain(r) ==
    /\ pc[r] = "again"
    /\ \/ Accepted(r) /\ Store(r)
       \/ Fails(r)

\* Saving the file.
Write(r) ==
    /\ pc[r] = "write"
    /\ \/ doc' = copy[r] /\ UNCHANGED version /\ Finish(r)
       \/ Fails(r)

Proceed(r) ==
    \/ ReadSaved(r) \/ Load(r) \/ Refused(r) \/ LoadFails(r)
    \/ Update(r) \/ Create(r) \/ UpdateAgain(r) \/ Write(r)

Next == \E r \in Requests : Begin(r) \/ Proceed(r)

Spec == Init /\ [][Next]_vars
-----------------------------------------------------------------------------
(***************************************************************************)
(* Properties.                                                             *)
(***************************************************************************)
Places == {"idle", "read", "load", "save", "create", "again", "write"}

\* A lock that is held is held by a request that is saving in that pod.
ConnTypeOK ==
    /\ backend \in Backends
    /\ existed \in BOOLEAN
    /\ doc \in Document
    /\ version \in Nat
    /\ lock \in [Pods -> Requests \cup {Nobody}]
    /\ \A p \in Pods : lock[p] # Nobody => at[lock[p]] = p /\ pc[lock[p]] \in {"save", "create", "again"}
    /\ pc \in [Requests -> Places]
    /\ at \in [Requests -> Pods \cup {Nobody}]
    /\ op \in [Requests -> Operation \cup {NoOp}]
    /\ token \in [Requests -> Tokens \cup {Blank}]
    /\ copy \in [Requests -> Document]
    /\ seen \in [Requests -> Nat]
    /\ requests \in 0..MaxRequests

\* However the whole-document saves overtake each other: the active connection
\* is one that exists, and no two are the default.
DocumentCoherent == Coherent(doc)

\* A save puts into the store what its operation makes of the document that is
\* there at that moment, not of an older one.
Saving == {"save", "create", "again", "write"}
AppliesToLatest ==
    doc' # doc => \E r \in Requests :
        pc[r] \in Saving /\ pc'[r] = "idle" /\ doc' \in Results(op[r], token[r], doc)

\* "K8s resourceVersion prevents conflicts": no change of the Secret is lost.
\* The Secret has to be there when the pods start: a pod that has loaded none has
\* no version to send, and overwrites what another one creates meanwhile.
NoLostChange == [][backend = "secret" /\ existed => AppliesToLatest]_vars
=============================================================================
